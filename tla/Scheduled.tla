----------------------------- MODULE Scheduled ------------------------------
(***************************************************************************)
(* concurrent/task/scheduled.cpp: dequeue serves the name with the fewest  *)
(* runners, starting its search at position.  A node counts itself out of  *)
(* runners() before it takes the mutex to remove a name nobody uses any    *)
(* more, so dequeue can see a name without nodes and without runners.      *)
(***************************************************************************)
EXTENDS NamedQueues

VARIABLE runners  \* runners(): function from the names present to counts

vars == <<runnerVars, queueVars, runners>>

Init == QueuesInit /\ runners = <<>>

\* runners()[x], which inserts zero for a name that is not present.
RunnersOf(x) == IF x \in DOMAIN runners THEN runners[x] ELSE 0

\* Mutant: the limit is off by one.
Start_OneLess(n, x) ==
  /\ Push(n, x)
  /\ runners' = Put(runners, x, RunnersOf(x))
  /\ SpawnCounted(actives + 1 < max)
  /\ UNCHANGED <<current, finished, max, position, running>>

\* scheduled::start.
Start(n, x) ==
  /\ Push(n, x)
  /\ runners' = Put(runners, x, RunnersOf(x))
  /\ SpawnCounted(actives < max)
  /\ UNCHANGED <<current, finished, max, position, running>>

\* The two loops of dequeue: from position to the end, then from the start.
Visit == [i \in 1..Len(vector) |-> vector[((position + i - 1) % Len(vector)) + 1]]

\* The first name, in the order of the visit, with the fewest runners.
Chosen ==
  LET best == {i \in 1..Len(vector) :
                 \A j \in 1..Len(vector) : RunnersOf(Visit[j]) >= RunnersOf(Visit[i])}
  IN  Visit[CHOOSE i \in best : \A j \in best : i <= j]

\* Mutant: position may stop one past the end.
NextPosition_Late ==
  IF position + 1 > Len(vector) THEN 0 ELSE position + 1

NextPosition ==
  IF position + 1 >= Len(vector) THEN 0 ELSE position + 1

\* scheduled::dequeue with no names at all.
DequeueNothing(r) ==
  /\ runner[r] = "loop"
  /\ vector = <<>>
  /\ Dismiss(r)
  /\ UNCHANGED <<name, map, vector, position, running, runners>>

\* The chosen name has no node left: the runner is dismissed, even though
\* other names may have nodes.
DequeueEmptyQueue(r) ==
  /\ runner[r] = "loop"
  /\ vector # <<>>
  /\ QueueOf(Chosen) = <<>>
  /\ position' = NextPosition
  /\ Dismiss(r)
  /\ UNCHANGED <<name, map, vector, running, runners>>

\* A node of the chosen name is taken.
DequeueName(r) ==
  /\ runner[r] = "loop"
  /\ vector # <<>>
  /\ QueueOf(Chosen) # <<>>
  /\ position' = NextPosition
  /\ runners' = Put(runners, Chosen, RunnersOf(Chosen) + 1)
  /\ TakeNode(r, Head(QueueOf(Chosen)))
  /\ map' = Put(map, Chosen, Tail(QueueOf(Chosen)))
  /\ running' = running \cup {Head(QueueOf(Chosen))}
  /\ UNCHANGED <<name, vector, actives>>

\* scheduled::node::run up to the mutex: m_finished, then runners()[m_name]--.
RunNode(r) ==
  LET x == name[current[r]] IN
  /\ runner[r] = "node"
  /\ runner' = [runner EXCEPT ![r] = "clean"]
  /\ finished' = [finished EXCEPT ![current[r]] = TRUE]
  /\ runners' = Put(runners, x, RunnersOf(x) - 1)
  /\ UNCHANGED <<current, max, started, queueVars>>

\* The locked end of node::run: a name without runners and nodes is removed.
Clean(r) ==
  LET x == name[current[r]]
      unused == RunnersOf(x) = 0 /\ QueueOf(x) = <<>>
  IN
  /\ runner[r] = "clean"
  /\ runner' = [runner EXCEPT ![r] = "post"]
  /\ IF unused
     THEN /\ map' = Drop(map, {x})
          /\ runners' = Drop(runners, {x})
          /\ vector' = RemoveFirst(vector, x)
          /\ position' = IF position >= Len(vector') THEN 0 ELSE position
     ELSE /\ runners' = Put(runners, x, RunnersOf(x))
          /\ UNCHANGED <<map, vector, position>>
  /\ UNCHANGED <<current, finished, max, started, name, actives, running>>

\* running().erase(node.uuid()) at the end of a round of scheduled::run.
Erase(r) ==
  /\ NextRound(r)
  /\ running' = running \ {current[r]}
  /\ UNCHANGED <<name, map, vector, position, actives, runners>>

Run(r) ==
  \/ Begin(r) /\ UNCHANGED runners
  \/ DequeueNothing(r) \/ DequeueEmptyQueue(r) \/ DequeueName(r)
  \/ RunNode(r) \/ Clean(r) \/ Erase(r)

Next ==
  \/ \E n \in Nodes, x \in Names : Start(n, x)
  \/ \E r \in Runners : Run(r)
  \/ \E m \in MaxValues : SetMax(m) /\ UNCHANGED runners

Spec == Init /\ [][Next]_vars

\* Core serves every runner and node.run() returns; clients owe nothing.
LiveSpec == Spec /\ \A r \in Runners : WF_vars(Run(r))

-----------------------------------------------------------------------------

TypeOK ==
  /\ QueuesTypeOK
  /\ DOMAIN runners \subseteq Names
  /\ \A x \in DOMAIN runners : runners[x] \in Nat

\* position is a valid index: vector.at(position()) does not throw.
PositionInRange == position < Len(vector) \/ (vector = <<>> /\ position = 0)

\* runners() counts the nodes in execution, although nodes count themselves
\* out without the mutex.
RunnersIsCount ==
  \A x \in Names :
    RunnersOf(x) = Cardinality({n \in Executing : name[n] = x})

\* A name without nodes and without runners is only seen while the node that
\* will remove it waits for the mutex.
UnusedNameIsTransient ==
  \A x \in DOMAIN map :
    (map[x] = <<>> /\ RunnersOf(x) = 0)
      => \E r \in Runners : runner[r] = "clean" /\ name[current[r]] = x

\* In every interleaving runners are counted exactly, map and vector name the
\* same queues, no node is in two places, a name without use is about to be
\* removed, and a waiting node has a runner to come, although dequeue
\* dismisses a runner whenever the least used name has no nodes.
Consistent ==
  /\ TypeOK /\ CountsLookers /\ VectorIsMap /\ QueuedOnce /\ NobodyStranded
  /\ PositionInRange
  /\ RunnersIsCount
  /\ UnusedNameIsTransient

\* Every node is executed.
NodeServed == \A n \in Nodes : n \in started ~> finished[n]
=============================================================================
