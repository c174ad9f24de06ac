------------------------------ MODULE TaskPool ------------------------------
(***************************************************************************)
(* What a task queue of arken promises its clients, whatever the threads,  *)
(* locks and flags behind it: a task is accepted once, begins once, in the *)
(* order of acceptance, and completes once, and never more than Width      *)
(* tasks are executed at a time.                                           *)
(***************************************************************************)
EXTENDS Integers, Sequences, FiniteSets

CONSTANTS Tasks, Width

VARIABLES pending, executing, completed

poolState == <<pending, executing, completed>>

Pending == {pending[i] : i \in 1..Len(pending)}

Init == pending = <<>> /\ executing = {} /\ completed = {}

Submit(t) ==
  /\ t \notin Pending \cup executing \cup completed
  /\ pending' = Append(pending, t)
  /\ UNCHANGED <<executing, completed>>

Begin ==
  /\ pending # <<>>
  /\ Cardinality(executing) < Width
  /\ pending' = Tail(pending)
  /\ executing' = executing \cup {Head(pending)}
  /\ UNCHANGED completed

Complete(t) ==
  /\ t \in executing
  /\ executing' = executing \ {t}
  /\ completed' = completed \cup {t}
  /\ UNCHANGED pending

Next == Begin \/ \E t \in Tasks : Submit(t) \/ Complete(t)

Spec == Init /\ [][Next]_poolState
=============================================================================
