-------------------------------- MODULE Fifo --------------------------------
(***************************************************************************)
(* concurrent/task/fifo.cpp: nodes are executed in the order of fifo.start *)
(* by at most max() runners.  A runner is counted in s_actives from its    *)
(* constructor (inside start) to its destructor (after run, outside the    *)
(* mutex): a runner that has already left its loop still counts.           *)
(***************************************************************************)
EXTENDS Runners

VARIABLES
  queue,     \* s_fifo_queue
  actives,   \* s_actives
  running,   \* keys of s_running
  stranded   \* history: the last start found the scheduler full of runners
             \*   that had left their loop, and nobody was spawned since

vars == <<runnerVars, queue, actives, running, stranded>>

Init ==
  /\ RunnersInit
  /\ queue = <<>>
  /\ actives = 0
  /\ running = {}
  /\ stranded = FALSE

\* Mutant: an off-by-one in the test for a new runner.
Start_OneLess(n) ==
  /\ IsNext(n)
  /\ started' = started \cup {n}
  /\ queue' = Append(queue, n)
  /\ SpawnIf(actives + 1 < max)
  /\ actives' = IF actives + 1 < max THEN actives + 1 ELSE actives
  /\ stranded' = (actives >= max /\ Looking = {})
  /\ UNCHANGED <<current, finished, max, running>>

\* fifo::start: push the node and, below max(), one more runner.
Start(n) ==
  /\ IsNext(n)
  /\ started' = started \cup {n}
  /\ queue' = Append(queue, n)
  /\ SpawnIf(actives < max)
  /\ actives' = IF actives < max THEN actives + 1 ELSE actives
  /\ stranded' = (actives >= max /\ Looking = {})
  /\ UNCHANGED <<current, finished, max, running>>

Begin(r) == BeginRunner(r) /\ UNCHANGED <<queue, actives, running, stranded>>

\* Mutant: the front is returned without being popped.
Dequeue_NoPop(r) ==
  /\ runner[r] = "loop"
  /\ IF queue = <<>>
     THEN LeaveLoop(r) /\ UNCHANGED running
     ELSE TakeNode(r, Head(queue)) /\ running' = running \cup {Head(queue)}
  /\ UNCHANGED <<queue, actives, stranded>>

\* fifo::dequeue, and the break of run() when there is no node.
Dequeue(r) ==
  /\ runner[r] = "loop"
  /\ IF queue = <<>>
     THEN LeaveLoop(r) /\ UNCHANGED <<queue, running>>
     ELSE /\ TakeNode(r, Head(queue))
          /\ queue' = Tail(queue)
          /\ running' = running \cup {Head(queue)}
  /\ UNCHANGED <<actives, stranded>>

\* fifo::node::run.
RunNode(r) == NodeReturns(r) /\ UNCHANGED <<queue, actives, running, stranded>>

\* running().erase(node.uuid()) at the end of a round of fifo::run.
Erase(r) ==
  /\ NextRound(r)
  /\ running' = running \ {current[r]}
  /\ UNCHANGED <<queue, actives, stranded>>

\* core deletes the runner: fifo::~fifo.
Delete(r) ==
  /\ DeleteRunner(r)
  /\ actives' = actives - 1
  /\ UNCHANGED <<queue, running, stranded>>

SetMax(m) == SetSchedulerMax(m) /\ UNCHANGED <<queue, actives, running, stranded>>

Run(r) == Begin(r) \/ Dequeue(r) \/ RunNode(r) \/ Erase(r) \/ Delete(r)

Next ==
  \/ \E n \in Nodes : Start(n)
  \/ \E r \in Runners : Run(r)
  \/ \E m \in MaxValues : SetMax(m)

Spec == Init /\ [][Next]_vars

\* Core serves every runner and node.run() returns; clients owe nothing.
LiveSpec == Spec /\ \A r \in Runners : WF_vars(Run(r))

-----------------------------------------------------------------------------

TypeOK ==
  /\ RunnersTypeOK
  /\ queue \in Seq(Nodes)
  /\ actives \in 0..Cardinality(Runners)
  /\ running \subseteq Nodes
  /\ stranded \in BOOLEAN

\* s_actives counts the runner objects that exist.
ActivesCountRunners ==
  actives = Cardinality({r \in Runners : runner[r] # "free"})

\* fifo.inspect() lists the nodes runners hold: never one that waits.
RunningIsHeld ==
  running = {n \in Nodes : \E r \in Runners :
                             runner[r] \in {"node", "post"} /\ current[r] = n}

\* A queued node has a runner that will look at the queue again, unless the
\* node was started while every runner had left its loop without being
\* deleted: that node waits for the next start.
NoStrandedNode == queue # <<>> => Looking # {} \/ stranded

\* In every interleaving the runners are counted exactly, although they count
\* themselves out outside the mutex, the running map is exact, and a node is
\* only left without a runner as stated above.
Consistent ==
  TypeOK /\ ActivesCountRunners /\ RunningIsHeld /\ NoStrandedNode

\* The scheduler implements TaskPool: nodes begin once, in the order of start.
Pool == INSTANCE TaskPool WITH
  Tasks <- Nodes, Width <- Cardinality(Runners),
  pending <- queue, executing <- Executing,
  completed <- {n \in Nodes : finished[n]}
ImplementsTaskPool == Pool!Spec

\* Every node is executed, unless the last start stranded its node for good.
NodeServed ==
  <>[](~stranded) => \A n \in Nodes : n \in started ~> finished[n]
=============================================================================
