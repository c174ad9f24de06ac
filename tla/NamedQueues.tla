----------------------------- MODULE NamedQueues ----------------------------
(***************************************************************************)
(* The state the balanced, scheduled and singular schedulers share: nodes  *)
(* carry a name, every name has a queue of its own in map, and vector      *)
(* lists the names in the order position walks over them.                  *)
(*                                                                         *)
(* Their runners are counted out by dequeue, under the mutex, when it has  *)
(* nothing for them; fifo and priority count them out in the destructor.   *)
(***************************************************************************)
EXTENDS Runners, SequencesExt

CONSTANTS
  Names,   \* the names clients use
  Empty    \* the empty string, which dequeue also uses for "no name"

VARIABLES
  name,      \* m_name of each node, None before it is submitted
  map,       \* s_map: function from the names present to their queues
  vector,    \* s_vector
  position,  \* s_position, 0-based
  actives,   \* s_actives
  running    \* the nodes in s_running

queueVars == <<name, map, vector, position, actives, running>>

QueuesInit ==
  /\ RunnersInit
  /\ name = [n \in Nodes |-> None]
  /\ map = <<>>
  /\ vector = <<>>
  /\ position = 0
  /\ actives = 0
  /\ running = {}

Put(f, k, v) == [x \in DOMAIN f \cup {k} |-> IF x = k THEN v ELSE f[x]]
Drop(f, ks) == [x \in DOMAIN f \ ks |-> f[x]]

\* map()[x], which inserts an empty queue for a name that is not present.
QueueOf(x) == IF x \in DOMAIN map THEN map[x] ELSE <<>>

\* X::push(node): a new name goes to the end of the vector.
Push(n, x) ==
  /\ IsNext(n)
  /\ started' = started \cup {n}
  /\ name' = [name EXCEPT ![n] = x]
  /\ map' = Put(map, x, Append(QueueOf(x), n))
  /\ vector' = IF x \in DOMAIN map THEN vector ELSE Append(vector, x)

\* core::start(new X()), whose constructor counts the runner in.
SpawnCounted(condition) ==
  /\ SpawnIf(condition)
  /\ actives' = IF condition THEN actives + 1 ELSE actives

\* dequeue returns the empty node and has counted the runner out; its run()
\* ends.  The destructors of these runners do nothing, so when core deletes
\* the object is of no interest and it is free at once.
Dismiss(r) ==
  /\ runner' = [runner EXCEPT ![r] = "free"]
  /\ actives' = actives - 1
  /\ UNCHANGED <<current, finished, max, started>>

Begin(r) == BeginRunner(r) /\ UNCHANGED queueVars

SetMax(m) == SetSchedulerMax(m) /\ UNCHANGED queueVars

-----------------------------------------------------------------------------

QueuesTypeOK ==
  /\ RunnersTypeOK
  /\ name \in [Nodes -> Names \cup {None}]
  /\ DOMAIN map \subseteq Names
  /\ \A x \in DOMAIN map : map[x] \in Seq(Nodes)
  /\ vector \in Seq(Names)
  /\ position \in Nat
  /\ actives \in 0..Cardinality(Runners)
  /\ running \subseteq Nodes

Queued(x) == ToSet(QueueOf(x))
Waiting == UNION {Queued(x) : x \in Names}

\* The scheduler counts exactly the runners that will call dequeue again.
CountsLookers == actives = Cardinality(Looking)

\* The vector lists the names of the map, each once.
VectorIsMap == ToSet(vector) = DOMAIN map /\ Len(vector) = Cardinality(DOMAIN map)

\* A node is in the queue of its own name and waits in one place only.
QueuedOnce ==
  /\ \A x \in DOMAIN map : /\ \A n \in Queued(x) : name[n] = x
                           /\ Cardinality(Queued(x)) = Len(map[x])
  /\ Waiting \cap (Executing \cup {n \in Nodes : finished[n]}) = {}
  /\ \A a, b \in Runners : a # b /\ current[a] # None => current[a] # current[b]

\* A waiting node has a runner that will call dequeue again.
NobodyStranded == Waiting # {} => Looking # {}
=============================================================================
