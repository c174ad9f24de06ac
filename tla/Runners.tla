------------------------------ MODULE Runners -------------------------------
(***************************************************************************)
(* What the five task schedulers (concurrent/task/*.cpp) have in common.   *)
(* A client's task is a NODE; nodes wait in a structure of the scheduler   *)
(* and are executed by RUNNERS, objects handed to core::start whose run()  *)
(* takes nodes until there are none.  Core is shown to serve every object  *)
(* it is given (Core!TaskServed), so here a queued runner simply begins.   *)
(*                                                                         *)
(* The life of a runner object: "free" (does not exist), "queued" in core, *)
(* "loop" (about to call dequeue), "node" (executes a node), "clean" and   *)
(* "post" (the node is done, its bookkeeping is due), "left" (its run() is *)
(* over, core has not deleted it yet).                                     *)
(***************************************************************************)
EXTENDS Integers, Sequences, FiniteSets

CONSTANTS
  Nodes,      \* tasks clients submit
  Runners,    \* runner objects that may exist at a time
  MaxValues,  \* the values of the scheduler's max(): core::max() or set by Lua
  None        \* the empty node dequeue returns

ASSUME RunnersAssumption ==
  /\ IsFiniteSet(Runners)
  /\ MaxValues \subseteq 1..Cardinality(Runners)
  /\ None \notin Nodes

VARIABLES
  runner,    \* state of each runner object
  current,   \* the local variable node of the runner's run()
  finished,  \* m_finished of each node
  max,       \* the scheduler's max()
  started    \* the nodes submitted so far

runnerVars == <<runner, current, finished, max, started>>

RunnersInit ==
  /\ runner = [r \in Runners |-> "free"]
  /\ current = [r \in Runners |-> None]
  /\ finished = [n \in Nodes |-> FALSE]
  /\ max \in MaxValues
  /\ started = {}

RunnersTypeOK ==
  /\ runner \in [Runners -> {"free", "queued", "loop", "node", "clean",
                          "post", "left"}]
  /\ current \in [Runners -> Nodes \cup {None}]
  /\ finished \in [Nodes -> BOOLEAN]
  /\ max \in MaxValues
  /\ started \subseteq Nodes

\* Runners that will call dequeue again.
Looking ==
  {r \in Runners : runner[r] \in {"queued", "loop", "node", "clean", "post"}}

\* Nodes being executed.
Executing == {n \in Nodes : \E r \in Runners : runner[r] = "node" /\ current[r] = n}

\* The node the next start submits.  Nodes are alike until they are submitted,
\* so it does not matter which one it is.
IsNext(n) == n \notin started /\ n = CHOOSE m \in Nodes \ started : TRUE

\* core::start(new runner): a new object, or none when the scheduler is full.
\* Objects that do not exist are alike.
FreeRunners == {r \in Runners : runner[r] = "free"}
SpawnIf(condition) ==
  IF condition
  THEN /\ FreeRunners # {}
       /\ runner' = [runner EXCEPT ![CHOOSE r \in FreeRunners : TRUE] = "queued"]
  ELSE UNCHANGED runner

\* core::working took the runner and calls its run().
BeginRunner(r) ==
  /\ runner[r] = "queued"
  /\ runner' = [runner EXCEPT ![r] = "loop"]
  /\ UNCHANGED <<current, finished, max, started>>

\* dequeue returned node n.
TakeNode(r, n) ==
  /\ runner' = [runner EXCEPT ![r] = "node"]
  /\ current' = [current EXCEPT ![r] = n]
  /\ UNCHANGED <<finished, max, started>>

\* dequeue returned the empty node: run() breaks out of its loop.
LeaveLoop(r) ==
  /\ runner' = [runner EXCEPT ![r] = "left"]
  /\ UNCHANGED <<current, finished, max, started>>

\* node.run() returned: it sets m_finished last, whatever the Lua code did.
NodeReturns(r) ==
  /\ runner[r] = "node"
  /\ runner' = [runner EXCEPT ![r] = "post"]
  /\ finished' = [finished EXCEPT ![current[r]] = TRUE]
  /\ UNCHANGED <<current, max, started>>

\* The bookkeeping after a node is done: back to the loop.
NextRound(r) ==
  /\ runner[r] = "post"
  /\ runner' = [runner EXCEPT ![r] = "loop"]
  /\ current' = [current EXCEPT ![r] = None]
  /\ UNCHANGED <<finished, max, started>>

\* core::working deletes the runner.
DeleteRunner(r) ==
  /\ runner[r] = "left"
  /\ runner' = [runner EXCEPT ![r] = "free"]
  /\ UNCHANGED <<current, finished, max, started>>

\* max(n) of the scheduler's Lua binding.
SetSchedulerMax(m) ==
  /\ max # m
  /\ max' = m
  /\ UNCHANGED <<runner, current, finished, started>>
=============================================================================
