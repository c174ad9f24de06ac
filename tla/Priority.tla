------------------------------ MODULE Priority ------------------------------
(***************************************************************************)
(* concurrent/task/priority.cpp: like fifo, with a heap ordered by         *)
(* priority and then by age.  Age is m_microtime, read under the mutex but *)
(* with the resolution of a clock: two nodes may carry the same time, and  *)
(* the heap then orders them as it likes.                                  *)
(***************************************************************************)
EXTENDS Runners

CONSTANT Priorities   \* the values of the priority argument of start

ASSUME PrioritiesAssumption == Priorities \subseteq Int

VARIABLES
  heap,       \* the nodes in s_priority_queue
  priority,   \* m_priority
  microtime,  \* m_microtime
  clock,      \* os::microtime()
  actives,    \* s_actives
  running,    \* keys of s_running
  stranded    \* history, as in Fifo

nodeVars == <<priority, microtime, clock>>
vars == <<runnerVars, heap, nodeVars, actives, running, stranded>>

Init ==
  /\ RunnersInit
  /\ heap = {}
  /\ priority = [n \in Nodes |-> 0]
  /\ microtime = [n \in Nodes |-> 0]
  /\ clock = 0
  /\ actives = 0
  /\ running = {}
  /\ stranded = FALSE

\* Mutant: ties are broken in favour of the younger node.
Less_Younger(n1, n2) ==
  \/ priority[n1] = priority[n2] /\ microtime[n1] < microtime[n2]
  \/ priority[n1] < priority[n2]

\* node::operator(), the "less" of the heap: the greatest node is the top.
Less(n1, n2) ==
  \/ priority[n1] = priority[n2] /\ microtime[n1] > microtime[n2]
  \/ priority[n1] < priority[n2]

\* What top() may return: heap order decides between equal nodes.
Tops == {n \in heap : ~\E m \in heap : Less(n, m)}

\* Mutant: an off-by-one in the test for a new runner.
Start_OneLess(n, p, tick) ==
  LET spawn == actives + 1 < max IN
  /\ IsNext(n)
  /\ started' = started \cup {n}
  /\ clock' = clock + tick
  /\ priority' = [priority EXCEPT ![n] = p]
  /\ microtime' = [microtime EXCEPT ![n] = clock']
  /\ heap' = heap \cup {n}
  /\ SpawnIf(spawn)
  /\ actives' = IF spawn THEN actives + 1 ELSE actives
  /\ stranded' = (actives >= max /\ Looking = {})
  /\ UNCHANGED <<current, finished, max, running>>

\* priority::start; the clock has advanced since the last start, or not.
Start(n, p, tick) ==
  /\ IsNext(n)
  /\ started' = started \cup {n}
  /\ clock' = clock + tick
  /\ priority' = [priority EXCEPT ![n] = p]
  /\ microtime' = [microtime EXCEPT ![n] = clock']
  /\ heap' = heap \cup {n}
  /\ SpawnIf(actives < max)
  /\ actives' = IF actives < max THEN actives + 1 ELSE actives
  /\ stranded' = (actives >= max /\ Looking = {})
  /\ UNCHANGED <<current, finished, max, running>>

Begin(r) ==
  BeginRunner(r) /\ UNCHANGED <<heap, nodeVars, actives, running, stranded>>

\* priority::dequeue, and the break of run() when there is no node.
Dequeue(r) ==
  /\ runner[r] = "loop"
  /\ \/ heap = {} /\ LeaveLoop(r) /\ UNCHANGED <<heap, running>>
     \/ \E n \in Tops :
          /\ TakeNode(r, n)
          /\ heap' = heap \ {n}
          /\ running' = running \cup {n}
  /\ UNCHANGED <<nodeVars, actives, stranded>>

\* priority::node::run.
RunNode(r) ==
  NodeReturns(r) /\ UNCHANGED <<heap, nodeVars, actives, running, stranded>>

\* running().erase(node.uuid()) at the end of a round of priority::run.
Erase(r) ==
  /\ NextRound(r)
  /\ running' = running \ {current[r]}
  /\ UNCHANGED <<heap, nodeVars, actives, stranded>>

\* core deletes the runner: priority::~priority.
Delete(r) ==
  /\ DeleteRunner(r)
  /\ actives' = actives - 1
  /\ UNCHANGED <<heap, nodeVars, running, stranded>>

SetMax(m) ==
  SetSchedulerMax(m) /\ UNCHANGED <<heap, nodeVars, actives, running, stranded>>

Run(r) == Begin(r) \/ Dequeue(r) \/ RunNode(r) \/ Erase(r) \/ Delete(r)

Next ==
  \/ \E n \in Nodes, p \in Priorities, tick \in {0, 1} : Start(n, p, tick)
  \/ \E r \in Runners : Run(r)
  \/ \E m \in MaxValues : SetMax(m)

Spec == Init /\ [][Next]_vars

\* Core serves every runner and node.run() returns; clients owe nothing.
LiveSpec == Spec /\ \A r \in Runners : WF_vars(Run(r))

-----------------------------------------------------------------------------

TypeOK ==
  /\ RunnersTypeOK
  /\ heap \subseteq Nodes
  /\ priority \in [Nodes -> Priorities \cup {0}]
  /\ microtime \in [Nodes -> Nat]
  /\ clock \in Nat
  /\ actives \in 0..Cardinality(Runners)
  /\ running \subseteq Nodes
  /\ stranded \in BOOLEAN

\* In every interleaving the runners are counted exactly, inspect() lists the
\* nodes runners hold, and a waiting node has a runner to come, unless it was
\* started while every runner had left its loop without being deleted.
Consistent ==
  /\ TypeOK
  /\ actives = Cardinality({r \in Runners : runner[r] # "free"})
  /\ running = {n \in Nodes : \E r \in Runners :
                                runner[r] \in {"node", "post"} /\ current[r] = n}
  /\ heap # {} => Looking # {} \/ stranded

\* When a runner takes a node, no node left in the heap has a higher priority,
\* or the same priority and an earlier time of submission.
NoInversion ==
  [][\A r \in Runners : current[r] # current'[r] /\ current'[r] # None =>
       LET n == current'[r] IN
       \A m \in heap' : /\ priority[m] <= priority[n]
                        /\ priority[m] = priority[n] => microtime[m] >= microtime[n]]_vars

\* Every node is executed whatever its priority, unless the last start
\* stranded its node for good.
NodeServed ==
  <>[](~stranded) => \A n \in Nodes : n \in started ~> finished[n]
=============================================================================
