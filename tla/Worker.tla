------------------------------- MODULE Worker -------------------------------
(***************************************************************************)
(* concurrent/worker.cpp on top of the thread pool.  A worker is a task of *)
(* the pool: its run() lets the start script enqueue items, starts nodes   *)
(* that share the items, waits until they have finished and calls the stop *)
(* script.  In the mvm build (worker/mvm.cpp) the nodes are tasks of the   *)
(* SAME pool and the worker keeps its thread while it waits; in the        *)
(* standalone build (worker/standalone.cpp) they have threads of their     *)
(* own.                                                                    *)
(*                                                                         *)
(* The pool is used through what Core is shown to implement, TaskPool.     *)
(*                                                                         *)
(* A start script that fails, or a file that is no table, reaches a        *)
(* luaL_error outside any protected call and ends the process: nothing     *)
(* follows, so there is no such step here.                                 *)
(***************************************************************************)
EXTENDS Integers, Sequences, FiniteSets

CONSTANTS
  Workers,   \* worker objects clients start
  MaxItems,  \* bound on the items a start script enqueues
  MaxNodes,  \* the values of worker::s_max or os::cores() lie in 1..MaxNodes
  Width      \* threads of the pool

Nodes == Workers \X (1..MaxNodes)
Objects == Workers \cup Nodes

ASSUME WorkerAssumption ==
  /\ MaxItems \in Nat /\ MaxNodes \in Nat \ {0} /\ Width \in Nat \ {0}
  /\ Workers \cap Nodes = {}

VARIABLES
  build,      \* "mvm" or "standalone", chosen when arken is built
  pending,    \* the three variables of the pool
  executing,
  completed,
  threads,    \* standalone: the nodes whose own thread runs
  joined,     \* standalone: the nodes whose own thread has ended
  pc,         \* where run() of each worker is
  items,      \* m_queue of each worker: how many items wait
  holds,      \* the nodes with an item in hand, between dequeue and increment
  progress,   \* *m_progress of each worker
  total,      \* *m_total of each worker
  cores,      \* the local cores of run(): nodes to start
  list        \* the size of the local list of perform(): nodes started

poolVars == <<pending, executing, completed>>
ownVars == <<threads, joined>>
workVars == <<items, holds, progress>>
countVars == <<total, cores, list>>
vars == <<build, poolVars, ownVars, pc, workVars, countVars>>

Pool == INSTANCE TaskPool WITH Tasks <- Objects

Init ==
  /\ build \in {"mvm", "standalone"}
  /\ Pool!Init
  /\ threads = {} /\ joined = {}
  /\ pc = [w \in Workers |-> "new"]
  /\ items = [w \in Workers |-> 0]
  /\ holds = {}
  /\ progress = [w \in Workers |-> 0]
  /\ total = [w \in Workers |-> 0]
  /\ cores = [w \in Workers |-> 0]
  /\ list = [w \in Workers |-> 0]

\* The nodes perform() has started, and m_worker of a node.
NodesOf(w) == {n \in Nodes : n[1] = w /\ n[2] <= list[w]}
Master(n) == n[1]

Runs(n) == n \in executing \cup threads

\* finished() of a node, or its thread joined.
Finished(n) == n \in completed \cup joined

-----------------------------------------------------------------------------

\* worker::start: a new object for the pool.
Start(w) ==
  /\ Pool!Submit(w)
  /\ UNCHANGED <<build, ownVars, pc, workVars, countVars>>

\* A thread of the pool takes the next object and calls its run().
Take ==
  /\ Pool!Begin
  /\ pc' = [w \in Workers |-> IF w = Head(pending) THEN "start" ELSE pc[w]]
  /\ UNCHANGED <<build, ownVars, workVars, countVars>>

\* The file has no function start or no function run: worker::run returns
\* before it calls a script.
Invalid(w) ==
  /\ pc[w] = "start"
  /\ items[w] = 0
  /\ pc' = [pc EXCEPT ![w] = "done"]
  /\ Pool!Complete(w)
  /\ UNCHANGED <<build, ownVars, workVars, countVars>>

\* worker::enqueue, called by the start script.  Values are JSON texts, so
\* none is the empty string, which dequeue uses for "no more".
Enqueue(w) ==
  /\ pc[w] = "start"
  /\ items[w] < MaxItems
  /\ items' = [items EXCEPT ![w] = @ + 1]
  /\ UNCHANGED <<build, poolVars, ownVars, pc, holds, progress, countVars>>

\* The start script has returned.  One node for each core, but not more than
\* there are items; any Lua code may have set s_max meanwhile.
Count(w) ==
  /\ pc[w] = "start"
  /\ \E max \in 1..MaxNodes :
       cores' = [cores EXCEPT ![w] = IF items[w] < max THEN items[w] ELSE max]
  /\ total' = [total EXCEPT ![w] = items[w]]
  /\ pc' = [pc EXCEPT ![w] = "perform"]
  /\ UNCHANGED <<build, poolVars, ownVars, workVars, list>>

\* perform(): one more node, for the pool or for a thread of its own.
StartNode(w) ==
  LET n == <<w, list[w] + 1>> IN
  /\ pc[w] = "perform"
  /\ list[w] < cores[w]
  /\ list' = [list EXCEPT ![w] = @ + 1]
  /\ \/ build = "mvm" /\ Pool!Submit(n) /\ UNCHANGED ownVars
     \/ build = "standalone" /\ threads' = threads \cup {n}
                             /\ UNCHANGED <<poolVars, joined>>
  /\ UNCHANGED <<build, pc, workVars, total, cores>>

\* Mutants: perform leaves at the first finished node; it waits for as many
\* nodes as there are cores, although fewer were started.
Wait_Any(w) ==
  /\ pc[w] = "perform" /\ list[w] = cores[w]
  /\ list[w] = 0 \/ \E n \in NodesOf(w) : Finished(n)
  /\ pc' = [pc EXCEPT ![w] = "stop"]
  /\ UNCHANGED <<build, poolVars, ownVars, workVars, countVars>>

Wait_Cores(w) ==
  /\ pc[w] = "perform" /\ list[w] = cores[w]
  /\ Cardinality({n \in NodesOf(w) : Finished(n)}) = MaxNodes
  /\ pc' = [pc EXCEPT ![w] = "stop"]
  /\ UNCHANGED <<build, poolVars, ownVars, workVars, countVars>>

\* perform() polls, or joins, until every node has finished; the worker keeps
\* its thread of the pool all the time.
Wait(w) ==
  /\ pc[w] = "perform"
  /\ list[w] = cores[w]
  /\ \A n \in NodesOf(w) : Finished(n)
  /\ pc' = [pc EXCEPT ![w] = "stop"]
  /\ UNCHANGED <<build, poolVars, ownVars, workVars, countVars>>

\* The stop script, and the end of worker::run.
Stop(w) ==
  /\ pc[w] = "stop"
  /\ pc' = [pc EXCEPT ![w] = "done"]
  /\ Pool!Complete(w)
  /\ UNCHANGED <<build, ownVars, workVars, countVars>>

-----------------------------------------------------------------------------

\* node::dequeue, under the mutex of the worker.
Dequeue(n) ==
  /\ Runs(n)
  /\ n \notin holds
  /\ items[Master(n)] > 0
  /\ items' = [items EXCEPT ![Master(n)] = @ - 1]
  /\ holds' = holds \cup {n}
  /\ UNCHANGED <<build, poolVars, ownVars, pc, progress, countVars>>

\* The run script handled the item, or failed; either way it counts.
Increment(n) ==
  /\ n \in holds
  /\ holds' = holds \ {n}
  /\ progress' = [progress EXCEPT ![Master(n)] = @ + 1]
  /\ UNCHANGED <<build, poolVars, ownVars, pc, items, countVars>>

\* Mutant: a node takes one item and leaves.
NodeEnds_Early(n) ==
  /\ Runs(n) /\ n \notin holds
  /\ \/ n \in executing /\ Pool!Complete(n) /\ UNCHANGED ownVars
     \/ n \in threads /\ threads' = threads \ {n} /\ joined' = joined \cup {n}
                      /\ UNCHANGED poolVars
  /\ UNCHANGED <<build, pc, workVars, countVars>>

\* dequeue found nothing: the after script, and the node is finished.
NodeEnds(n) ==
  /\ Runs(n)
  /\ n \notin holds
  /\ items[Master(n)] = 0
  /\ \/ n \in executing /\ Pool!Complete(n) /\ UNCHANGED ownVars
     \/ n \in threads /\ threads' = threads \ {n} /\ joined' = joined \cup {n}
                      /\ UNCHANGED poolVars
  /\ UNCHANGED <<build, pc, workVars, countVars>>

-----------------------------------------------------------------------------

Run(w) == Count(w) \/ StartNode(w) \/ Wait(w) \/ Stop(w)
RunNode(n) == Dequeue(n) \/ Increment(n) \/ NodeEnds(n)

Next ==
  \/ \E w \in Workers : Start(w) \/ Invalid(w) \/ Enqueue(w) \/ Run(w)
  \/ \E n \in Nodes : RunNode(n)
  \/ Take

Spec == Init /\ [][Next]_vars

\* The pool takes a task when a thread is free (Core!TaskServed), scripts
\* return, and threads are scheduled.
LiveSpec ==
  /\ Spec
  /\ WF_vars(Take)
  /\ \A w \in Workers : WF_vars(Run(w))
  /\ \A n \in Nodes : WF_vars(RunNode(n))

-----------------------------------------------------------------------------

\* What the stop script may rely on, however the nodes shared the items: all
\* of them were handled, each once, and progress() says 100 percent.
StopAfterAll ==
  \A w \in Workers : pc[w] \in {"stop", "done"} =>
    /\ items[w] = 0
    /\ progress[w] = total[w]
    /\ \A n \in NodesOf(w) : n \notin holds

\* Nodes use their worker through a raw pointer: as long as a node waits or
\* runs, the pool has not finished with the worker and cannot delete it.
MasterAlive ==
  \A n \in Nodes : n \in Pool!Pending \/ Runs(n) => Master(n) \in executing

\* Every thread of the pool belongs to a worker that waits for a node which
\* itself waits for a thread.
Saturated ==
  /\ Cardinality(executing) = Width
  /\ \A t \in executing : /\ t \in Workers
                          /\ pc[t] = "perform"
                          /\ \E n \in NodesOf(t) : n \in Pool!Pending

\* A worker that was started finishes, except in the mvm build when as many
\* workers as the pool has threads wait for their nodes at the same time.
WorkerReturns ==
  \A w \in Workers :
    w \in Pool!Pending ~> (w \in completed \/ (build = "mvm" /\ Saturated))
=============================================================================
