------------------------------ MODULE Singular ------------------------------
(***************************************************************************)
(* concurrent/task/singular.cpp: at most one node of a name is executed at *)
(* a time.  runners()[name] says that a node of the name may be taken.     *)
(* start always submits; emplace only when no node of the name waits;      *)
(* place only when no node of the name waits or runs.                      *)
(***************************************************************************)
EXTENDS NamedQueues

VARIABLE runners  \* runners(): function from the names present to BOOLEAN

vars == <<runnerVars, queueVars, runners>>

Init == QueuesInit /\ runners = <<>>

\* singular::push: a new name may run.
PushNode(n, x) ==
  /\ Push(n, x)
  /\ runners' = IF x \in DOMAIN map THEN runners ELSE Put(runners, x, TRUE)
  /\ UNCHANGED <<current, finished, max, position, running>>

\* singular::start: one more runner if there are more names than runners.
Start(n, x) ==
  /\ PushNode(n, x)
  /\ SpawnCounted(actives < max /\ actives < Cardinality(DOMAIN runners'))

\* singular::emplace; it returns an empty node when a node of the name waits.
Emplace(n, x) ==
  /\ QueueOf(x) = <<>>
  /\ PushNode(n, x)
  /\ SpawnCounted(actives < max)

\* singular::place; it returns an empty node when the name is in use.
Place(n, x) ==
  /\ x \notin DOMAIN runners
  /\ PushNode(n, x)
  /\ SpawnCounted(actives < max)

-----------------------------------------------------------------------------

\* The two loops of dequeue: from position to the end, then from the start.
Visit == [i \in 1..Len(vector) |-> vector[((position + i - 1) % Len(vector)) + 1]]

\* runners()[x], which inserts false for a name that is not present.
MayRun(x) == x \in DOMAIN runners /\ runners[x]
Runnable == {i \in 1..Len(vector) : MayRun(Visit[i])}

\* The name the loops stop at.  A runnable empty name looks like no name, so
\* the second loop starts over and, before position, stops at the next one.
Chosen ==
  LET inFirst(i) == position + i <= Len(vector)
      first == {i \in Runnable : inFirst(i)}
      second == {i \in Runnable : ~inFirst(i)}
      Least(S) == Visit[CHOOSE i \in S : \A j \in S : i <= j]
  IN  IF first # {} /\ (Least(first) # Empty \/ second = {}) THEN Least(first)
      ELSE IF second # {} THEN Least(second)
      ELSE Empty

\* Mutant: position is not taken back.
NextPosition_NoWrap == position + 1

NextPosition == IF position + 1 > Len(vector) THEN 0 ELSE position + 1

\* singular::dequeue with more runners than names.
DequeueSurplus(r) ==
  /\ runner[r] = "loop"
  /\ actives > Len(vector)
  /\ Dismiss(r)
  /\ UNCHANGED <<name, map, vector, position, running, runners>>

\* No name is available, or the one found has no node.
DequeueNothing(r) ==
  /\ runner[r] = "loop"
  /\ actives <= Len(vector)
  /\ Chosen = Empty \/ QueueOf(Chosen) = <<>>
  /\ position' = NextPosition
  /\ Dismiss(r)
  /\ UNCHANGED <<name, map, vector, running, runners>>

\* Mutant: the name stays available while its node runs.
DequeueName_StaysOpen(r) ==
  /\ runner[r] = "loop" /\ actives <= Len(vector)
  /\ Chosen # Empty /\ QueueOf(Chosen) # <<>>
  /\ position' = NextPosition
  /\ TakeNode(r, Head(QueueOf(Chosen)))
  /\ map' = Put(map, Chosen, Tail(QueueOf(Chosen)))
  /\ running' = running \cup {Head(QueueOf(Chosen))}
  /\ UNCHANGED <<name, vector, actives, runners>>

DequeueName(r) ==
  /\ runner[r] = "loop"
  /\ actives <= Len(vector)
  /\ Chosen # Empty
  /\ QueueOf(Chosen) # <<>>
  /\ position' = NextPosition
  /\ runners' = Put(runners, Chosen, FALSE)
  /\ TakeNode(r, Head(QueueOf(Chosen)))
  /\ map' = Put(map, Chosen, Tail(QueueOf(Chosen)))
  /\ running' = running \cup {Head(QueueOf(Chosen))}
  /\ UNCHANGED <<name, vector, actives>>

\* Mutants of the end of node::run: the name is not made available again;
\* the vector keeps a name that left the map.
RunNode_StaysClosed(r) ==
  LET x == name[current[r]] IN
  /\ NodeReturns(r)
  /\ IF QueueOf(x) = <<>>
     THEN /\ map' = Drop(map, {x})
          /\ runners' = Drop(runners, {x})
          /\ vector' = RemoveFirst(vector, x)
          /\ position' = IF position > Len(vector') THEN 0 ELSE position
     ELSE UNCHANGED <<map, vector, position, runners>>
  /\ UNCHANGED <<name, actives, running>>

RunNode_KeepVector(r) ==
  LET x == name[current[r]] IN
  /\ NodeReturns(r)
  /\ map' = IF QueueOf(x) = <<>> THEN Drop(map, {x}) ELSE map
  /\ runners' = Put(runners, x, TRUE)
  /\ UNCHANGED <<name, vector, position, actives, running>>

\* singular::node::run: m_finished is set and the name released under the
\* mutex; a name without nodes is removed.
RunNode(r) ==
  LET x == name[current[r]] IN
  /\ NodeReturns(r)
  /\ IF QueueOf(x) = <<>>
     THEN /\ map' = Drop(map, {x})
          /\ runners' = Drop(runners, {x})
          /\ vector' = RemoveFirst(vector, x)
          /\ position' = IF position > Len(vector') THEN 0 ELSE position
     ELSE /\ runners' = Put(runners, x, TRUE)
          /\ UNCHANGED <<map, vector, position>>
  /\ UNCHANGED <<name, actives, running>>

\* running().erase(node.uuid()) at the end of a round of singular::run.
Erase(r) ==
  /\ NextRound(r)
  /\ running' = running \ {current[r]}
  /\ UNCHANGED <<name, map, vector, position, actives, runners>>

Run(r) ==
  \/ Begin(r) /\ UNCHANGED runners
  \/ DequeueSurplus(r) \/ DequeueNothing(r) \/ DequeueName(r)
  \/ RunNode(r) \/ Erase(r)

Next ==
  \/ \E n \in Nodes, x \in Names : Start(n, x) \/ Emplace(n, x) \/ Place(n, x)
  \/ \E r \in Runners : Run(r)
  \/ \E m \in MaxValues : SetMax(m) /\ UNCHANGED runners

Spec == Init /\ [][Next]_vars

\* Core serves every runner and node.run() returns; clients owe nothing.
LiveSpec == Spec /\ \A r \in Runners : WF_vars(Run(r))

-----------------------------------------------------------------------------

TypeOK ==
  /\ QueuesTypeOK
  /\ DOMAIN runners \subseteq Names
  /\ \A x \in DOMAIN runners : runners[x] \in BOOLEAN

\* The promise of the scheduler: nodes of one name exclude each other.
MutualExclusion ==
  \A m, n \in Executing : name[m] = name[n] => m = n

\* A name is closed exactly while a node of it is executed, and an open name
\* has a node to give: dequeue never finds an open name with an empty queue.
ClosedWhileRunning ==
  /\ DOMAIN runners = DOMAIN map
  /\ \A x \in DOMAIN runners :
       IF \E n \in Executing : name[n] = x
       THEN ~runners[x]
       ELSE runners[x] /\ map[x] # <<>>

\* What place relies on: runners() has a name exactly while a node of that
\* name is unfinished, so place refuses neither too much nor too little.
NameInUse ==
  \A x \in Names :
    x \in DOMAIN runners <=> \E n \in started : name[n] = x /\ ~finished[n]

\* position never runs past the end of the vector, so vector.at() in the
\* second loop of dequeue does not throw.
PositionInRange == position <= Len(vector)

\* Nobody has used the empty string for a name.
NoEmptyName == \A n \in started : name[n] # Empty

\* In every interleaving runners are counted exactly, map, vector and runners()
\* name the same queues, no node is in two places, and a waiting node has a
\* runner to come, although start brings no runner when there is one for each
\* name and dequeue dismisses surplus ones - provided nobody used the empty
\* name.
Consistent ==
  /\ TypeOK /\ CountsLookers /\ VectorIsMap /\ QueuedOnce
  /\ NoEmptyName => NobodyStranded
  /\ PositionInRange
  /\ ClosedWhileRunning

\* Every node is executed, as long as nobody uses the empty name.
NodeServed ==
  \A n \in Nodes : n \in started ~> (finished[n] \/ ~NoEmptyName)
=============================================================================
