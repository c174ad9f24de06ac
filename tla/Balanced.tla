------------------------------ MODULE Balanced ------------------------------
(***************************************************************************)
(* concurrent/task/balanced.cpp: round robin over the names.  dequeue      *)
(* walks the vector from position, drops the names whose queue is empty    *)
(* and takes one node of the first name that has one.                      *)
(***************************************************************************)
EXTENDS NamedQueues

VARIABLE overtaken  \* history: for each name, the names served since it
                    \*   began to wait or was last served

vars == <<runnerVars, queueVars, overtaken>>

Init == QueuesInit /\ overtaken = [x \in Names |-> {}]

\* Mutant: the limit is off by one.
Start_OneLess(n, x) ==
  /\ Push(n, x)
  /\ SpawnCounted(actives + 1 < max)
  /\ overtaken' = [overtaken EXCEPT ![x] = IF Queued(x) = {} THEN {} ELSE @]
  /\ UNCHANGED <<current, finished, max, position, running>>

\* balanced::start.
Start(n, x) ==
  /\ Push(n, x)
  /\ SpawnCounted(actives < max)
  /\ overtaken' = [overtaken EXCEPT ![x] = IF Queued(x) = {} THEN {} ELSE @]
  /\ UNCHANGED <<current, finished, max, position, running>>

\* position of the first visit: 0 when position is past the end.
From == IF position >= Len(vector) THEN 0 ELSE position

\* The order in which the loop of dequeue visits the vector.
Wraps(i) == From + i > Len(vector)
Visit == [i \in 1..Len(vector) |->
            vector[IF Wraps(i) THEN From + i - Len(vector) ELSE From + i]]

\* The number of the first visited name that has a node.
Hit == {i \in 1..Len(vector) :
          QueueOf(Visit[i]) # <<>> /\ \A j \in 1..(i - 1) : QueueOf(Visit[j]) = <<>>}

\* The names visited before the i-th are erased from map and vector, each at
\* position, where the i-th then stands.
Skipped(i) == {Visit[j] : j \in 1..(i - 1)}
Rest(i) ==
  IF Wraps(i) THEN SubSeq(vector, From + i - Len(vector), From)
  ELSE SubSeq(vector, 1, From) \o SubSeq(vector, From + i, Len(vector))
PositionOf(i) == IF Wraps(i) THEN 0 ELSE From

\* Nobody has a node: everything was erased, the runner is counted out.
DequeueNothing(r) ==
  /\ runner[r] = "loop"
  /\ Hit = {}
  /\ Dismiss(r)
  /\ map' = <<>>
  /\ vector' = <<>>
  /\ position' = (IF vector = <<>> THEN position ELSE 0) + 1
  /\ UNCHANGED <<name, running, overtaken>>

\* The empty name is taken for "no name": its node stays, the runner leaves.
DequeueEmptyName(r, i) ==
  /\ runner[r] = "loop"
  /\ i \in Hit
  /\ Visit[i] = Empty
  /\ Dismiss(r)
  /\ map' = Drop(map, Skipped(i))
  /\ vector' = Rest(i)
  /\ position' = PositionOf(i) + 1
  /\ UNCHANGED <<name, running, overtaken>>

\* Mutants: position does not move on; names without nodes stay in the map.
DequeueName_SamePosition(r, i) ==
  LET x == Visit[i] IN
  /\ runner[r] = "loop" /\ i \in Hit /\ x # Empty
  /\ TakeNode(r, Head(map[x]))
  /\ map' = Put(Drop(map, Skipped(i)), x, Tail(map[x]))
  /\ vector' = Rest(i)
  /\ position' = PositionOf(i)
  /\ running' = running \cup {Head(map[x])}
  /\ overtaken' = [y \in Names |-> IF y = x THEN {} ELSE overtaken[y] \cup {x}]
  /\ UNCHANGED <<name, actives>>

DequeueName_KeepMap(r, i) ==
  LET x == Visit[i] IN
  /\ runner[r] = "loop" /\ i \in Hit /\ x # Empty
  /\ TakeNode(r, Head(map[x]))
  /\ map' = Put(map, x, Tail(map[x]))
  /\ vector' = Rest(i)
  /\ position' = PositionOf(i) + 1
  /\ running' = running \cup {Head(map[x])}
  /\ overtaken' = [y \in Names |-> IF y = x THEN {} ELSE overtaken[y] \cup {x}]
  /\ UNCHANGED <<name, actives>>

\* The i-th visited name gives a node; position moves past that name.
DequeueName(r, i) ==
  LET x == Visit[i] IN
  /\ runner[r] = "loop"
  /\ i \in Hit
  /\ x # Empty
  /\ TakeNode(r, Head(map[x]))
  /\ map' = Put(Drop(map, Skipped(i)), x, Tail(map[x]))
  /\ vector' = Rest(i)
  /\ position' = PositionOf(i) + 1
  /\ running' = running \cup {Head(map[x])}
  /\ overtaken' = [y \in Names |-> IF y = x THEN {} ELSE overtaken[y] \cup {x}]
  /\ UNCHANGED <<name, actives>>

Dequeue(r) ==
  \/ DequeueNothing(r)
  \/ \E i \in 1..Len(vector) : DequeueEmptyName(r, i) \/ DequeueName(r, i)

\* balanced::node::run.
RunNode(r) == NodeReturns(r) /\ UNCHANGED <<queueVars, overtaken>>

\* running().erase(node.uuid()) at the end of a round of balanced::run.
Erase(r) ==
  /\ NextRound(r)
  /\ running' = running \ {current[r]}
  /\ UNCHANGED <<name, map, vector, position, actives, overtaken>>

Run(r) ==
  \/ Begin(r) /\ UNCHANGED overtaken
  \/ Dequeue(r) \/ RunNode(r) \/ Erase(r)

Next ==
  \/ \E n \in Nodes, x \in Names : Start(n, x)
  \/ \E r \in Runners : Run(r)
  \/ \E m \in MaxValues : SetMax(m) /\ UNCHANGED overtaken

Spec == Init /\ [][Next]_vars

\* Core serves every runner and node.run() returns; clients owe nothing.
LiveSpec == Spec /\ \A r \in Runners : WF_vars(Run(r))

-----------------------------------------------------------------------------

TypeOK == QueuesTypeOK /\ overtaken \in [Names -> SUBSET Names]

\* Nobody has used the empty string for a name.
NoEmptyName == \A n \in started : name[n] # Empty

\* In every interleaving the runners are counted exactly, map and vector name
\* the same queues, and no node is in two places.  A waiting node has a
\* runner to come - provided nobody used the empty name, which makes dequeue
\* dismiss a runner while there are nodes of other names.
Consistent ==
  /\ TypeOK /\ CountsLookers /\ VectorIsMap /\ QueuedOnce
  /\ NoEmptyName => NobodyStranded

\* Round robin: while a name waits, no other name is served twice.
NoDoubleOvertake ==
  [][\A x, y \in Names \ {Empty} :
       (x # y /\ Queued(x) # {} /\ Head(QueueOf(x)) \in Waiting'
        /\ Len(QueueOf(y)') < Len(QueueOf(y)))
         => y \notin overtaken[x]]_vars

\* Every node is executed, as long as nobody uses the empty name.
NodeServed ==
  \A n \in Nodes : n \in started ~> (finished[n] \/ ~NoEmptyName)
=============================================================================
