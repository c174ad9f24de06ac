----------------------------- MODULE FifoProofs -----------------------------
(***************************************************************************)
(* Proofs about the fifo scheduler, for any numbers of nodes and runners:  *)
(* its counters and maps are exact (Consistent), and it implements         *)
(* TaskPool, step by step.                                                 *)
(*                                                                         *)
(* Consistent is not inductive: that a node is not taken twice needs that  *)
(* the queue holds no node twice and none that a runner has (Order, Hold), *)
(* and that a start adds none of these that started covers them all.       *)
(*                                                                         *)
(* The last part is about the priority scheduler, which has the runners of *)
(* fifo around a heap: it is consistent, and never takes a node while a    *)
(* more urgent one waits.                                                  *)
(***************************************************************************)
EXTENDS Fifo, TLAPS, FiniteSetTheorems, FunctionTheorems, SequenceTheorems

\* The nodes in the queue.
Elements(q) == {q[i] : i \in 1..Len(q)}
Waiting == Elements(queue)

OnceEach(q) == \A i, j \in 1..Len(q) : q[i] = q[j] => i = j

\* A node is in the queue once, from start to dequeue.
Order ==
  /\ OnceEach(queue)
  /\ \A n \in Waiting : n \in started /\ ~finished[n]
  /\ \A n \in Nodes : finished[n] => n \in started

\* A runner has a node while it executes it and cleans up after it, nobody
\* else has it meanwhile, and it is finished in the second part.
Hold ==
  /\ \A r \in Runners :
       /\ runner[r] # "clean"
       /\ runner[r] \in {"node", "post"} => current[r] \in started \ Waiting
       /\ runner[r] \notin {"node", "post"} => current[r] = None
       /\ runner[r] = "node" => ~finished[current[r]]
       /\ runner[r] = "post" => finished[current[r]]
  /\ \A r, s \in Runners : r # s /\ current[r] # None => current[r] # current[s]

Inv == Consistent /\ Order /\ Hold

-----------------------------------------------------------------------------
(* The queue.                                                              *)

\* A node put to the end.
LEMMA QueueAppend ==
  ASSUME TypeOK, Order, NEW n \in Nodes \ Waiting, NEW q, q = Append(queue, n)
  PROVE  /\ q \in Seq(Nodes)
         /\ Elements(q) = Waiting \cup {n}
         /\ OnceEach(q)
<1>1. /\ q \in Seq(Nodes) /\ Len(queue) \in Nat /\ Len(q) = Len(queue) + 1
      /\ q[Len(queue) + 1] = n /\ \A i \in 1..Len(queue) : q[i] = queue[i]
  BY AppendProperties DEF TypeOK
<1>2. \A i \in 1..Len(queue) : queue[i] # n
  BY DEF Waiting, Elements
<1>3. OnceEach(q)
  BY <1>1, <1>2 DEF Order, OnceEach
<1>4. Elements(q) = Waiting \cup {n}
  BY <1>1 DEF Waiting, Elements
<1> QED
  BY <1>1, <1>3, <1>4

\* The front taken away.
LEMMA QueueTail ==
  ASSUME TypeOK, Order, queue # <<>>, NEW q, q = Tail(queue)
  PROVE  /\ Head(queue) \in Nodes /\ q \in Seq(Nodes) /\ Head(queue) \in Waiting
         /\ Elements(q) = Waiting \ {Head(queue)}
         /\ OnceEach(q)
<1>1. /\ Head(queue) \in Nodes /\ q \in Seq(Nodes) /\ Head(queue) = queue[1]
      /\ Len(queue) \in Nat \ {0} /\ Len(q) = Len(queue) - 1
      /\ \A i \in 1..Len(q) : q[i] = queue[i + 1]
  BY HeadTailProperties, EmptySeq, LenProperties DEF TypeOK
<1>2. Head(queue) \in Waiting
  BY <1>1 DEF Waiting, Elements
<1>3. OnceEach(q)
  BY <1>1 DEF Order, OnceEach
<1>4. ASSUME NEW n \in Elements(q) PROVE n \in Waiting \ {Head(queue)}
  <2>1. PICK i \in 1..Len(q) : n = queue[i + 1]
    BY <1>1 DEF Elements
  <2>2. i + 1 \in 1..Len(queue) /\ i + 1 # 1
    BY <1>1
  <2> QED
    BY <1>1, <2>1, <2>2 DEF Waiting, Elements, Order, OnceEach
<1>5. ASSUME NEW n \in Waiting \ {Head(queue)} PROVE n \in Elements(q)
  <2>1. PICK i \in 1..Len(queue) : n = queue[i]
    BY DEF Waiting, Elements
  <2>2. i - 1 \in 1..Len(q) /\ (i - 1) + 1 = i
    BY <1>1, <1>5, <2>1
  <2>3. q[i - 1] = n
    BY <1>1, <2>1, <2>2
  <2> QED
    BY <2>2, <2>3 DEF Elements
<1> QED
  BY <1>1, <1>2, <1>3, <1>4, <1>5

-----------------------------------------------------------------------------
(* The runners.                                                            *)

Existing == {r \in Runners : runner[r] # "free"}

\* The number of runner objects when one is made, and when one is deleted.
LEMMA RunnerCount ==
  ASSUME NEW S \in SUBSET Runners, NEW r \in Runners
  PROVE  /\ Cardinality(S) \in 0..Cardinality(Runners)
         /\ r \notin S => Cardinality(S \cup {r}) = Cardinality(S) + 1
         /\ r \in S => Cardinality(S \ {r}) = Cardinality(S) - 1
<1>1. IsFiniteSet(S) /\ Cardinality(S) <= Cardinality(Runners)
  BY RunnersAssumption, FS_Subset
<1>2. Cardinality(S) \in Nat /\ Cardinality(Runners) \in Nat
  BY <1>1, RunnersAssumption, FS_CardinalityType
<1>3. r \notin S => Cardinality(S \cup {r}) = Cardinality(S) + 1
  BY <1>1, FS_AddElement
<1>4. r \in S => Cardinality(S \ {r}) = Cardinality(S) - 1
  BY <1>1, FS_RemoveElement
<1> QED
  BY <1>1, <1>2, <1>3, <1>4

\* The runner core::start is given is one that did not exist.
LEMMA SpawnFree ==
  ASSUME FreeRunners # {}
  PROVE  \E r \in FreeRunners : r = CHOOSE s \in FreeRunners : TRUE
OBVIOUS

\* A runner that looks for a node leaves one place for it.
LEMMA RoomForOne ==
  ASSUME Inv, NEW r \in Runners, runner[r] # "node"
  PROVE  Cardinality(Executing) < Cardinality(Runners)
<1> DEFINE holder == [n \in Executing |->
                        CHOOSE s \in Runners : runner[s] = "node" /\ current[s] = n]
<1>1. \A n \in Executing : /\ holder[n] \in Runners /\ runner[holder[n]] = "node"
                           /\ current[holder[n]] = n
  BY DEF Executing
<1>2. holder \in Injection(Executing, Runners \ {r})
  <2>1. holder \in [Executing -> Runners \ {r}]
    BY <1>1
  <2>2. \A m, n \in Executing : holder[m] = holder[n] => m = n
    BY <1>1
  <2> HIDE DEF holder
  <2> QED
    BY <2>1, <2>2 DEF Injection, IsInjective
<1>3. IsFiniteSet(Runners \ {r}) /\ Cardinality(Runners \ {r}) = Cardinality(Runners) - 1
  BY RunnersAssumption, FS_RemoveElement
<1>4. Cardinality(Executing) <= Cardinality(Runners \ {r})
  BY <1>2, <1>3, FS_Injection DEF ExistsInjection
<1>5. Cardinality(Executing) \in Nat /\ Cardinality(Runners) \in Nat
  BY <1>2, <1>3, FS_Injection, FS_CardinalityType, RunnersAssumption DEF ExistsInjection
<1> QED
  BY <1>3, <1>4, <1>5

-----------------------------------------------------------------------------
(* The actions keep the invariant.                                         *)

\* Nothing is queued at the start.
LEMMA InitInv ==
  Init => Inv
<1> SUFFICES ASSUME Init PROVE Inv
  OBVIOUS
<1> USE DEF Init, RunnersInit
<1>1. TypeOK
  <2>1. Cardinality(Runners) \in Nat
    BY RunnersAssumption, FS_CardinalityType
  <2>2. actives \in 0..Cardinality(Runners)
    BY <2>1
  <2>3. finished \in [Nodes -> BOOLEAN] /\ stranded \in BOOLEAN
    BY Zenon
  <2>4. /\ runner \in [Runners -> {"free", "queued", "loop", "node", "clean",
                                 "post", "left"}]
        /\ current \in [Runners -> Nodes \cup {None}]
        /\ max \in MaxValues /\ started \subseteq Nodes
        /\ queue \in Seq(Nodes) /\ running \subseteq Nodes
    OBVIOUS
  <2> QED
    BY <2>2, <2>3, <2>4 DEF TypeOK, RunnersTypeOK
<1>2. ActivesCountRunners
  BY FS_EmptySet DEF ActivesCountRunners
<1>3. RunningIsHeld /\ NoStrandedNode
  BY DEF RunningIsHeld, NoStrandedNode
<1>4. Order /\ Hold
  BY DEF Order, OnceEach, Hold, Waiting, Elements
<1> QED
  BY <1>1, <1>2, <1>3, <1>4 DEF Inv, Consistent

\* fifo::start.
LEMMA StartStep ==
  ASSUME Inv, NEW n \in Nodes, Start(n)
  PROVE  Inv'
<1> USE DEF Inv, Consistent, Start, IsNext
<1>1. n \notin started /\ n \notin Waiting
  BY DEF Order
<1>2. /\ queue' \in Seq(Nodes) /\ Waiting' = Waiting \cup {n}
      /\ OnceEach(queue')
  BY <1>1, QueueAppend DEF Waiting
<1>3. Order'
  BY <1>2 DEF Order, TypeOK, RunnersTypeOK
<1>4. CASE actives < max
  <2>1. PICK r \in FreeRunners : runner' = [runner EXCEPT ![r] = "queued"]
    BY <1>4, SpawnFree DEF SpawnIf
  <2>2. r \in Runners /\ runner[r] = "free"
    BY DEF FreeRunners
  <2>3. /\ Existing' = Existing \cup {r} /\ r \notin Existing
        /\ Existing \in SUBSET Runners /\ Existing' \in SUBSET Runners
    BY <2>1, <2>2 DEF Existing, TypeOK, RunnersTypeOK
  <2>4. actives' = Cardinality(Existing') /\ actives' \in 0..Cardinality(Runners)
    BY <1>4, <2>2, <2>3, RunnerCount DEF ActivesCountRunners, Existing
  <2>5. TypeOK'
    BY <1>2, <2>1, <2>2, <2>4 DEF TypeOK, RunnersTypeOK
  <2>6. ActivesCountRunners'
    BY <2>4 DEF ActivesCountRunners, Existing
  <2>7. RunningIsHeld'
    BY <2>1, <2>2 DEF RunningIsHeld, TypeOK, RunnersTypeOK
  <2>8. NoStrandedNode'
    BY <2>1, <2>2 DEF NoStrandedNode, Looking, TypeOK, RunnersTypeOK
  <2>9. Hold'
    BY <1>1, <1>2, <2>1, <2>2 DEF Hold, TypeOK, RunnersTypeOK
  <2> QED
    BY <1>3, <2>5, <2>6, <2>7, <2>8, <2>9
<1>5. CASE ~(actives < max)
  <2>1. runner' = runner /\ actives' = actives
    BY <1>5 DEF SpawnIf
  <2>2. actives >= max
    <3>1. actives \in Nat /\ max \in Nat
      BY RunnersAssumption DEF TypeOK, RunnersTypeOK
    <3> QED
      BY <1>5, <3>1
  <2>3. TypeOK'
    BY <1>2, <2>1 DEF TypeOK, RunnersTypeOK
  <2>4. ActivesCountRunners' /\ RunningIsHeld'
    BY <2>1 DEF ActivesCountRunners, RunningIsHeld
  <2>5. NoStrandedNode'
    BY <2>1, <2>2 DEF NoStrandedNode, Looking
  <2>6. Hold'
    BY <1>1, <1>2, <2>1 DEF Hold, TypeOK, RunnersTypeOK
  <2> QED
    BY <1>3, <2>3, <2>4, <2>5, <2>6
<1> QED
  BY <1>4, <1>5

\* A runner moves within its life, from a state in which it exists to another.
LEMMA RunnerMoves ==
  ASSUME TypeOK, ActivesCountRunners, NEW r \in Runners, NEW l, l # "free",
         runner[r] # "free", runner' = [runner EXCEPT ![r] = l], actives' = actives
  PROVE  ActivesCountRunners'
<1>1. Existing' = Existing
  BY DEF Existing, TypeOK, RunnersTypeOK
<1> QED
  BY <1>1 DEF ActivesCountRunners, Existing

\* core calls run().
LEMMA BeginStep ==
  ASSUME Inv, NEW r \in Runners, Begin(r)
  PROVE  Inv'
<1> USE DEF Inv, Consistent, Begin, BeginRunner
<1>1. TypeOK'
  BY DEF TypeOK, RunnersTypeOK
<1>2. ActivesCountRunners'
  BY RunnerMoves
<1>3. RunningIsHeld'
  BY DEF RunningIsHeld, TypeOK, RunnersTypeOK
<1>4. NoStrandedNode'
  BY DEF NoStrandedNode, Looking, TypeOK, RunnersTypeOK
<1>5. Waiting' = Waiting
  BY DEF Waiting
<1>6. Order' /\ Hold'
  BY <1>5 DEF Order, Hold, TypeOK, RunnersTypeOK
<1> QED
  BY <1>1, <1>2, <1>3, <1>4, <1>6

\* fifo::dequeue.
LEMMA DequeueStep ==
  ASSUME Inv, NEW r \in Runners, Dequeue(r)
  PROVE  Inv'
<1> USE DEF Inv, Consistent, Dequeue
<1>1. CASE queue = <<>>
  <2> USE <1>1 DEF LeaveLoop
  <2>1. TypeOK'
    BY DEF TypeOK, RunnersTypeOK
  <2>2. ActivesCountRunners'
    BY RunnerMoves
  <2>3. RunningIsHeld'
    BY DEF RunningIsHeld, TypeOK, RunnersTypeOK
  <2>4. NoStrandedNode'
    BY DEF NoStrandedNode
  <2>5. Waiting' = Waiting
    BY DEF Waiting
  <2>6. Order' /\ Hold'
    BY <2>5 DEF Order, Hold, TypeOK, RunnersTypeOK
  <2> QED
    BY <2>1, <2>2, <2>3, <2>4, <2>6
<1>2. CASE queue # <<>>
  <2>1. PICK n \in Nodes :
          /\ n = Head(queue) /\ n \in Waiting
          /\ queue' \in Seq(Nodes) /\ Waiting' = Waiting \ {n}
          /\ OnceEach(queue')
    BY <1>2, QueueTail DEF Waiting
  <2>2. /\ runner[r] = "loop" /\ runner' = [runner EXCEPT ![r] = "node"]
        /\ current' = [current EXCEPT ![r] = n] /\ running' = running \cup {n}
        /\ UNCHANGED <<finished, max, started, actives, stranded>>
    BY <1>2, <2>1 DEF TakeNode
  <2>3. n \in started /\ ~finished[n] /\ \A s \in Runners : current[s] # n
    BY <2>1, RunnersAssumption DEF Order, Hold
  <2> HIDE DEF Dequeue
  <2>4. TypeOK'
    BY <2>1, <2>2 DEF TypeOK, RunnersTypeOK
  <2>5. ActivesCountRunners'
    BY <2>2, RunnerMoves
  <2>6. RunningIsHeld'
    BY <2>1, <2>2 DEF RunningIsHeld, TypeOK, RunnersTypeOK
  <2>7. NoStrandedNode'
    BY <2>2 DEF NoStrandedNode, Looking, TypeOK, RunnersTypeOK
  <2>8. Order'
    BY <2>1, <2>2 DEF Order
  <2>9. Hold'
    BY <2>1, <2>2, <2>3, RunnersAssumption DEF Hold, TypeOK, RunnersTypeOK
  <2> QED
    BY <2>4, <2>5, <2>6, <2>7, <2>8, <2>9
<1> QED
  BY <1>1, <1>2

\* fifo::node::run.
LEMMA RunNodeStep ==
  ASSUME Inv, NEW r \in Runners, RunNode(r)
  PROVE  Inv'
<1> USE DEF Inv, Consistent
<1>1. PICK n \in Nodes : n = current[r]
  BY DEF RunNode, NodeReturns, Hold, TypeOK, RunnersTypeOK
<1>2. /\ runner[r] = "node" /\ runner' = [runner EXCEPT ![r] = "post"]
      /\ finished' = [finished EXCEPT ![n] = TRUE]
      /\ UNCHANGED <<current, max, started, queue, actives, running, stranded>>
  BY <1>1 DEF RunNode, NodeReturns
<1>3. n \in started \ Waiting /\ \A s \in Runners : s # r => current[s] # n
  BY <1>1, <1>2, RunnersAssumption DEF Hold
<1>4. TypeOK'
  BY <1>2 DEF TypeOK, RunnersTypeOK
<1>5. ActivesCountRunners'
  BY <1>2, RunnerMoves
<1>6. RunningIsHeld'
  BY <1>2 DEF RunningIsHeld, TypeOK, RunnersTypeOK
<1>7. NoStrandedNode'
  BY <1>2 DEF NoStrandedNode, Looking, TypeOK, RunnersTypeOK
<1>8. Waiting' = Waiting
  BY <1>2 DEF Waiting
<1>9. Order'
  BY <1>2, <1>3, <1>8 DEF Order, TypeOK, RunnersTypeOK
<1>10. Hold'
  <2>1. ASSUME NEW s \in Runners
        PROVE  /\ runner'[s] # "clean"
               /\ runner'[s] \in {"node", "post"} => current'[s] \in started' \ Waiting'
               /\ runner'[s] \notin {"node", "post"} => current'[s] = None
    BY <1>2, <1>8 DEF Hold, TypeOK, RunnersTypeOK
  <2>2. ASSUME NEW s \in Runners
        PROVE  /\ runner'[s] = "node" => ~finished'[current'[s]]
               /\ runner'[s] = "post" => finished'[current'[s]]
    <3>1. CASE s = r
      BY <1>1, <1>2, <3>1 DEF TypeOK, RunnersTypeOK
    <3>2. CASE s # r
      <4>1. runner'[s] = runner[s] /\ current'[s] = current[s] /\ current[s] # n
        BY <1>2, <1>3, <3>2 DEF TypeOK, RunnersTypeOK
      <4>2. runner[s] \in {"node", "post"} => current[s] \in Nodes
        BY DEF Hold, TypeOK, RunnersTypeOK
      <4> QED
        BY <1>2, <4>1, <4>2 DEF Hold, TypeOK, RunnersTypeOK
    <3> QED
      BY <3>1, <3>2
  <2> QED
    BY <1>2, <2>1, <2>2 DEF Hold
<1> QED
  BY <1>4, <1>5, <1>6, <1>7, <1>9, <1>10

\* The end of a round of fifo::run.
LEMMA EraseStep ==
  ASSUME Inv, NEW r \in Runners, Erase(r)
  PROVE  Inv'
<1> USE DEF Inv, Consistent
<1>1. /\ runner[r] = "post" /\ runner' = [runner EXCEPT ![r] = "loop"]
      /\ current' = [current EXCEPT ![r] = None] /\ running' = running \ {current[r]}
      /\ UNCHANGED <<finished, max, started, queue, actives, stranded>>
  BY DEF Erase, NextRound
<1>2. current[r] \in Nodes /\ \A s \in Runners : s # r => current[s] # current[r]
  BY <1>1, RunnersAssumption DEF Hold, TypeOK, RunnersTypeOK
<1>3. TypeOK'
  BY <1>1 DEF TypeOK, RunnersTypeOK
<1>4. ActivesCountRunners'
  BY <1>1, RunnerMoves
<1>5. RunningIsHeld'
  BY <1>1, <1>2 DEF RunningIsHeld, TypeOK, RunnersTypeOK
<1>6. NoStrandedNode'
  BY <1>1 DEF NoStrandedNode, Looking, TypeOK, RunnersTypeOK
<1>7. Waiting' = Waiting
  BY <1>1 DEF Waiting
<1>8. Order'
  BY <1>1, <1>7 DEF Order
<1>9. Hold'
  BY <1>1, <1>7 DEF Hold, TypeOK, RunnersTypeOK
<1> QED
  BY <1>3, <1>4, <1>5, <1>6, <1>8, <1>9

\* fifo::~fifo.
LEMMA DeleteStep ==
  ASSUME Inv, NEW r \in Runners, Delete(r)
  PROVE  Inv'
<1> USE DEF Inv, Consistent
<1>1. /\ runner[r] = "left" /\ runner' = [runner EXCEPT ![r] = "free"]
      /\ actives' = actives - 1
      /\ UNCHANGED <<current, finished, max, started, queue, running, stranded>>
  BY DEF Delete, DeleteRunner
<1>2. /\ Existing' = Existing \ {r} /\ r \in Existing
      /\ Existing \in SUBSET Runners /\ Existing' \in SUBSET Runners
  BY <1>1 DEF Existing, TypeOK, RunnersTypeOK
<1>3. actives' = Cardinality(Existing') /\ actives' \in 0..Cardinality(Runners)
  BY <1>1, <1>2, RunnerCount DEF ActivesCountRunners, Existing
<1>4. TypeOK'
  BY <1>1, <1>3 DEF TypeOK, RunnersTypeOK
<1>5. ActivesCountRunners'
  BY <1>3 DEF ActivesCountRunners, Existing
<1>6. RunningIsHeld'
  BY <1>1 DEF RunningIsHeld, TypeOK, RunnersTypeOK
<1>7. NoStrandedNode'
  BY <1>1 DEF NoStrandedNode, Looking, TypeOK, RunnersTypeOK
<1>8. Waiting' = Waiting
  BY <1>1 DEF Waiting
<1>9. Order' /\ Hold'
  BY <1>1, <1>8 DEF Order, Hold, TypeOK, RunnersTypeOK
<1> QED
  BY <1>4, <1>5, <1>6, <1>7, <1>9

\* Steps that change nothing the invariant speaks of.
LEMMA SetMaxStep ==
  ASSUME Inv, max' \in MaxValues,
         UNCHANGED <<runner, current, finished, started, queue, actives, running,
                     stranded>>
  PROVE  Inv'
<1> USE DEF Inv, Consistent
<1>1. TypeOK'
  BY DEF TypeOK, RunnersTypeOK
<1>2. ActivesCountRunners' /\ RunningIsHeld' /\ NoStrandedNode'
  BY DEF ActivesCountRunners, RunningIsHeld, NoStrandedNode, Looking
<1>3. Order' /\ Hold'
  BY DEF Order, Hold, Waiting
<1> QED
  BY <1>1, <1>2, <1>3

\* Every step keeps the invariant.
LEMMA NextInv ==
  Inv /\ [Next]_vars => Inv'
<1> SUFFICES ASSUME Inv, [Next]_vars PROVE Inv'
  OBVIOUS
<1>1. CASE UNCHANGED vars
  <2>1. max' \in MaxValues
    BY <1>1 DEF Inv, Consistent, TypeOK, RunnersTypeOK, vars, runnerVars
  <2> QED
    BY <1>1, <2>1, SetMaxStep DEF vars, runnerVars
<1>2. ASSUME NEW n \in Nodes, Start(n) PROVE Inv'
  BY <1>2, StartStep
<1>3. ASSUME NEW r \in Runners, Run(r) PROVE Inv'
  BY <1>3, BeginStep, DequeueStep, RunNodeStep, EraseStep, DeleteStep DEF Run
<1>4. ASSUME NEW m \in MaxValues, SetMax(m) PROVE Inv'
  BY <1>4, SetMaxStep DEF SetMax, SetSchedulerMax
<1> QED
  BY <1>1, <1>2, <1>3, <1>4 DEF Next

\* The invariant holds in every reachable state.
LEMMA Invariant ==
  Spec => []Inv
BY InitInv, NextInv, PTL DEF Spec

\* In every interleaving of start, dequeue, node::run, ~fifo and max with any
\* number of runners, s_actives is the number of runner objects, s_running the
\* nodes that runners have, and a queued node has a runner that will look for it
\* unless its start found only runners that had left their loop (fifo.cpp).
THEOREM ConsistentHolds ==
  Spec => []Consistent
<1>1. Inv => Consistent
  BY DEF Inv
<1> QED
  BY <1>1, Invariant, PTL

-----------------------------------------------------------------------------
(* The scheduler implements TaskPool.                                      *)

Completed == {n \in Nodes : finished[n]}

\* A step that neither begins nor ends a node is a stutter of TaskPool.
LEMMA StutterStep ==
  ASSUME Executing' = Executing, queue' = queue, finished' = finished
  PROVE  UNCHANGED Pool!poolState
BY DEF Pool!poolState

\* start is Submit of the pool.
LEMMA StartSubmits ==
  ASSUME Inv, NEW n \in Nodes, Start(n)
  PROVE  Pool!Submit(n)
<1> USE DEF Inv, Consistent, Start, IsNext
<1>1. n \notin Waiting /\ n \notin Executing /\ n \notin Completed
  BY DEF Order, Hold, Executing, Completed
<1>2. Pool!Pending = Waiting
  BY DEF Pool!Pending, Waiting, Elements
<1>3. Executing' = Executing
  <2>1. CASE actives < max
    <3>1. PICK r \in FreeRunners : runner' = [runner EXCEPT ![r] = "queued"]
      BY <2>1, SpawnFree DEF SpawnIf
    <3>2. r \in Runners /\ runner[r] = "free"
      BY DEF FreeRunners
    <3> QED
      BY <3>1, <3>2 DEF Executing, TypeOK, RunnersTypeOK
  <2>2. CASE ~(actives < max)
    BY <2>2 DEF SpawnIf, Executing
  <2> QED
    BY <2>1, <2>2
<1> QED
  BY <1>1, <1>2, <1>3 DEF Pool!Submit, Completed

\* The dequeue of a node is Begin of the pool.
LEMMA DequeueBegins ==
  ASSUME Inv, NEW r \in Runners, Dequeue(r)
  PROVE  Pool!Begin \/ UNCHANGED Pool!poolState
<1> USE DEF Inv, Consistent
<1>1. CASE queue = <<>>
  <2>1. Executing' = Executing
    BY <1>1 DEF Dequeue, LeaveLoop, Executing, TypeOK, RunnersTypeOK
  <2> QED
    BY <1>1, <2>1, StutterStep DEF Dequeue, LeaveLoop
<1>2. CASE queue # <<>>
  <2>1. PICK n \in Nodes : n = Head(queue) /\ n \in Waiting
    BY <1>2, QueueTail
  <2>2. /\ runner[r] = "loop" /\ runner' = [runner EXCEPT ![r] = "node"]
        /\ current' = [current EXCEPT ![r] = n]
        /\ queue' = Tail(queue) /\ finished' = finished
    BY <1>2, <2>1 DEF Dequeue, TakeNode
  <2>3. Executing' = Executing \cup {n}
    BY <2>2 DEF Executing, TypeOK, RunnersTypeOK
  <2>4. Cardinality(Executing) < Cardinality(Runners)
    BY <2>2, RoomForOne
  <2>5. Pool!Cardinality(Executing) = Cardinality(Executing)
    BY DEF Pool!Cardinality, Cardinality
  <2> QED
    BY <1>2, <2>1, <2>2, <2>3, <2>4, <2>5 DEF Pool!Begin
<1> QED
  BY <1>1, <1>2

\* The end of node::run is Complete of the pool.
LEMMA RunNodeCompletes ==
  ASSUME Inv, NEW r \in Runners, RunNode(r)
  PROVE  \E n \in Nodes : Pool!Complete(n)
<1> USE DEF Inv, Consistent
<1>1. PICK n \in Nodes : n = current[r]
  BY DEF RunNode, NodeReturns, Hold, TypeOK, RunnersTypeOK
<1>2. /\ runner[r] = "node" /\ runner' = [runner EXCEPT ![r] = "post"]
      /\ finished' = [finished EXCEPT ![n] = TRUE] /\ current' = current
      /\ queue' = queue
  BY <1>1 DEF RunNode, NodeReturns
<1>3. \A s \in Runners : s # r => current[s] # n
  BY <1>1, <1>2, RunnersAssumption DEF Hold
<1>4. n \in Executing /\ Executing' = Executing \ {n}
  BY <1>1, <1>2, <1>3 DEF Executing, TypeOK, RunnersTypeOK
<1>5. Completed' = Completed \cup {n}
  BY <1>2 DEF Completed, TypeOK, RunnersTypeOK
<1> QED
  BY <1>2, <1>4, <1>5 DEF Pool!Complete, Completed

\* The other steps of a runner.
LEMMA OtherStutters ==
  ASSUME Inv, NEW r \in Runners, Begin(r) \/ Erase(r) \/ Delete(r)
  PROVE  UNCHANGED Pool!poolState
<1> USE DEF Inv, Consistent
<1>1. Executing' = Executing
  BY DEF Begin, BeginRunner, Erase, NextRound, Delete, DeleteRunner, Executing,
     TypeOK, RunnersTypeOK
<1> QED
  BY <1>1, StutterStep DEF Begin, BeginRunner, Erase, NextRound, Delete, DeleteRunner

\* The scheduler, with its runners, its counter and its map, implements the
\* promise of a task queue: a node begins once, in the order of fifo.start,
\* completes once, and no more nodes are executed than there are runners.
THEOREM FifoImplementsTaskPool ==
  Spec => ImplementsTaskPool
<1>1. Init => Pool!Init
  BY DEF Init, RunnersInit, Pool!Init, Executing
<1>2. Inv /\ [Next]_vars => [Pool!Next]_(Pool!poolState)
  <2> SUFFICES ASSUME Inv, [Next]_vars
               PROVE  Pool!Next \/ UNCHANGED Pool!poolState
    OBVIOUS
  <2>1. CASE UNCHANGED vars
    BY <2>1, StutterStep DEF vars, runnerVars, Executing
  <2>2. ASSUME NEW n \in Nodes, Start(n) PROVE Pool!Next
    BY <2>2, StartSubmits DEF Pool!Next
  <2>3. ASSUME NEW r \in Runners, Run(r)
        PROVE  Pool!Next \/ UNCHANGED Pool!poolState
    BY <2>3, DequeueBegins, RunNodeCompletes, OtherStutters DEF Run, Pool!Next
  <2>4. ASSUME NEW m \in MaxValues, SetMax(m) PROVE UNCHANGED Pool!poolState
    BY <2>4, StutterStep DEF SetMax, SetSchedulerMax, Executing
  <2> QED
    BY <2>1, <2>2, <2>3, <2>4 DEF Next
<1> QED
  BY <1>1, <1>2, Invariant, PTL DEF Spec, ImplementsTaskPool, Pool!Spec

-----------------------------------------------------------------------------
(* The priority scheduler: the runners of fifo around a heap.  Its module  *)
(* names its variables as Fifo does and is instantiated under the name P;  *)
(* the heap and what orders it are the variables fifo does not have.       *)

CONSTANT Priorities
VARIABLES heap, priority, microtime, clock

P == INSTANCE Priority

\* A node is in the heap from start to dequeue, then with one runner.
HeapHold ==
  /\ heap \subseteq started
  /\ \A r \in Runners :
       /\ runner[r] # "clean"
       /\ runner[r] \in {"node", "post"} => current[r] \in started \ heap
       /\ runner[r] \notin {"node", "post"} => current[r] = None
  /\ \A r, s \in Runners : r # s /\ current[r] # None => current[r] # current[s]

HeapCount == actives = Cardinality(Existing)
HeapRunning ==
  running = {n \in Nodes : \E r \in Runners :
                             runner[r] \in {"node", "post"} /\ current[r] = n}
HeapServed == heap # {} => Looking # {} \/ stranded

HeapInv == P!TypeOK /\ HeapCount /\ HeapRunning /\ HeapServed /\ HeapHold

\* The instance counts and selects runners as Fifo does.
LEMMA SameRunners ==
  /\ P!Cardinality(Runners) = Cardinality(Runners)
  /\ P!RunnersTypeOK <=> RunnersTypeOK
  /\ P!Looking = Looking /\ P!FreeRunners = FreeRunners
  /\ P!RunnersInit <=> RunnersInit
BY DEF P!Cardinality, Cardinality, P!RunnersTypeOK, RunnersTypeOK, P!Looking,
   Looking, P!FreeRunners, FreeRunners, P!RunnersInit, RunnersInit

\* What TypeOK of the instance says, in terms of this module.
LEMMA HeapTypes ==
  P!TypeOK <=>
    /\ RunnersTypeOK
    /\ heap \subseteq Nodes
    /\ priority \in [Nodes -> Priorities \cup {0}]
    /\ microtime \in [Nodes -> Nat]
    /\ clock \in Nat
    /\ actives \in 0..Cardinality(Runners)
    /\ running \subseteq Nodes
    /\ stranded \in BOOLEAN
BY SameRunners DEF P!TypeOK

\* The same, after a step.
LEMMA HeapTypesNext ==
  ASSUME RunnersTypeOK', heap' \subseteq Nodes,
         priority' \in [Nodes -> Priorities \cup {0}],
         microtime' \in [Nodes -> Nat], clock' \in Nat,
         actives' \in 0..Cardinality(Runners), running' \subseteq Nodes,
         stranded' \in BOOLEAN
  PROVE  P!TypeOK'
<1>1. P!RunnersTypeOK'
  BY DEF P!RunnersTypeOK, RunnersTypeOK
<1> QED
  BY <1>1, SameRunners DEF P!TypeOK

\* Consistent of the priority scheduler is the first part of the invariant.
LEMMA HeapConsistent ==
  HeapInv => P!Consistent
<1>1. P!Cardinality(Existing) = Cardinality(Existing)
  BY DEF P!Cardinality, Cardinality
<1> QED
  BY <1>1, SameRunners DEF HeapInv, HeapCount, HeapRunning, HeapServed, P!Consistent,
     Existing

\* Nothing is in the heap at the start.
LEMMA HeapInit ==
  P!Init => HeapInv
<1> SUFFICES ASSUME P!Init PROVE HeapInv
  OBVIOUS
<1>1. RunnersInit /\ heap = {} /\ actives = 0 /\ running = {} /\ stranded = FALSE
  BY SameRunners DEF P!Init
<1>2. Cardinality(Runners) \in Nat
  BY RunnersAssumption, FS_CardinalityType
<1>3. finished \in [Nodes -> BOOLEAN] /\ stranded \in BOOLEAN
  BY <1>1, Zenon DEF RunnersInit
<1>4. RunnersTypeOK
  BY <1>1, <1>3 DEF RunnersInit, RunnersTypeOK
<1>5. P!TypeOK
  BY <1>1, <1>2, <1>3, <1>4, HeapTypes DEF P!Init
<1>6. HeapCount
  BY <1>1, FS_EmptySet DEF HeapCount, Existing, RunnersInit
<1>7. HeapRunning /\ HeapServed /\ HeapHold
  BY <1>1 DEF HeapRunning, HeapServed, HeapHold, RunnersInit
<1> QED
  BY <1>5, <1>6, <1>7 DEF HeapInv

\* A runner moves within its life, from a state in which it exists to another.
LEMMA HeapRunnerMoves ==
  ASSUME RunnersTypeOK, HeapCount, NEW r \in Runners, NEW l, l # "free",
         runner[r] # "free", runner' = [runner EXCEPT ![r] = l], actives' = actives
  PROVE  HeapCount'
<1>1. Existing' = Existing
  BY DEF Existing, RunnersTypeOK
<1> QED
  BY <1>1 DEF HeapCount

\* priority::start.
LEMMA HeapStart ==
  ASSUME HeapInv, NEW n \in Nodes, NEW p \in Priorities, NEW tick \in {0, 1},
         P!Start(n, p, tick)
  PROVE  HeapInv'
<1>0. /\ n \notin started /\ started' = started \cup {n}
      /\ clock' = clock + tick /\ priority' = [priority EXCEPT ![n] = p]
      /\ microtime' = [microtime EXCEPT ![n] = clock'] /\ heap' = heap \cup {n}
      /\ actives' = (IF actives < max THEN actives + 1 ELSE actives)
      /\ stranded' = (actives >= max /\ Looking = {})
      /\ UNCHANGED <<current, finished, max, running>>
  BY SameRunners DEF P!Start, P!IsNext
<1>1. /\ actives < max => /\ FreeRunners # {}
                          /\ runner' = [runner EXCEPT ![CHOOSE r \in FreeRunners : TRUE] = "queued"]
      /\ ~(actives < max) => runner' = runner
  BY SameRunners DEF P!Start, P!SpawnIf
<1>2. /\ RunnersTypeOK /\ heap \subseteq Nodes /\ running \subseteq Nodes
      /\ actives \in 0..Cardinality(Runners) /\ stranded \in BOOLEAN
      /\ priority \in [Nodes -> Priorities \cup {0}]
      /\ microtime \in [Nodes -> Nat] /\ clock \in Nat
  BY HeapTypes DEF HeapInv
<1> USE DEF HeapInv
<1>3. stranded' \in BOOLEAN
  BY <1>0, Zenon
<1>4. clock' \in Nat /\ priority' \in [Nodes -> Priorities \cup {0}] /\ heap' \subseteq Nodes
  BY <1>0, <1>2
<1>5. microtime' \in [Nodes -> Nat]
  BY <1>0, <1>2, <1>4
<1>6. CASE actives < max
  <2>1. PICK r \in FreeRunners : runner' = [runner EXCEPT ![r] = "queued"]
    BY <1>1, <1>6
  <2>2. r \in Runners /\ runner[r] = "free"
    BY DEF FreeRunners
  <2>3. /\ Existing' = Existing \cup {r} /\ r \notin Existing
        /\ Existing \in SUBSET Runners /\ Existing' \in SUBSET Runners
    BY <1>2, <2>1, <2>2 DEF Existing, RunnersTypeOK
  <2>4. actives' = Cardinality(Existing') /\ actives' \in 0..Cardinality(Runners)
    BY <1>0, <1>6, <2>2, <2>3, RunnerCount DEF HeapCount
  <2>5. RunnersTypeOK'
    BY <1>0, <1>2, <2>1 DEF RunnersTypeOK
  <2>6. P!TypeOK'
    BY <1>0, <1>2, <1>3, <1>4, <1>5, <2>4, <2>5, HeapTypesNext
  <2>7. HeapCount'
    BY <2>4 DEF HeapCount
  <2>8. HeapRunning' /\ HeapServed'
    BY <1>0, <1>2, <2>1, <2>2 DEF HeapRunning, HeapServed, Looking, RunnersTypeOK
  <2>9. HeapHold'
    BY <1>0, <1>2, <2>1, <2>2 DEF HeapHold, RunnersTypeOK
  <2> QED
    BY <2>6, <2>7, <2>8, <2>9
<1>7. CASE ~(actives < max)
  <2>1. runner' = runner /\ actives' = actives
    BY <1>0, <1>1, <1>7
  <2>2. actives >= max
    <3>1. actives \in Nat /\ max \in Nat
      BY <1>2, RunnersAssumption DEF RunnersTypeOK
    <3> QED
      BY <1>7, <3>1
  <2>3. RunnersTypeOK'
    BY <1>0, <1>2, <2>1 DEF RunnersTypeOK
  <2>4. P!TypeOK'
    BY <1>0, <1>2, <1>3, <1>4, <1>5, <2>1, <2>3, HeapTypesNext
  <2>5. HeapCount' /\ HeapRunning'
    BY <1>0, <2>1 DEF HeapCount, HeapRunning, Existing
  <2>6. HeapServed'
    BY <1>0, <2>1, <2>2 DEF HeapServed, Looking
  <2>7. HeapHold'
    BY <1>0, <1>2, <2>1 DEF HeapHold, RunnersTypeOK
  <2> QED
    BY <2>4, <2>5, <2>6, <2>7
<1> QED
  BY <1>6, <1>7

\* core calls run().
LEMMA HeapBegin ==
  ASSUME HeapInv, NEW r \in Runners, P!Begin(r)
  PROVE  HeapInv'
<1>1. /\ runner[r] = "queued" /\ runner' = [runner EXCEPT ![r] = "loop"]
      /\ UNCHANGED <<current, finished, max, started, heap, priority, microtime, clock,
                     actives, running, stranded>>
  BY DEF P!Begin, P!BeginRunner, P!nodeVars
<1> USE HeapTypes DEF HeapInv
<1>2. RunnersTypeOK'
  BY <1>1 DEF RunnersTypeOK
<1>3. P!TypeOK'
  BY <1>1, <1>2, HeapTypesNext
<1>4. HeapCount'
  BY <1>1, HeapRunnerMoves
<1>5. HeapRunning' /\ HeapServed'
  BY <1>1 DEF HeapRunning, HeapServed, Looking, RunnersTypeOK
<1>6. HeapHold'
  BY <1>1 DEF HeapHold, RunnersTypeOK
<1> QED
  BY <1>3, <1>4, <1>5, <1>6

\* priority::dequeue.
LEMMA HeapDequeue ==
  ASSUME HeapInv, NEW r \in Runners, P!Dequeue(r)
  PROVE  HeapInv'
<1>1. /\ runner[r] = "loop"
      /\ UNCHANGED <<finished, max, started, priority, microtime, clock, actives, stranded>>
  BY DEF P!Dequeue, P!LeaveLoop, P!TakeNode, P!nodeVars
<1> USE HeapTypes DEF HeapInv
<1>2. CASE /\ heap = {} /\ runner' = [runner EXCEPT ![r] = "left"]
           /\ UNCHANGED <<current, heap, running>>
  <2>1. RunnersTypeOK'
    BY <1>1, <1>2 DEF RunnersTypeOK
  <2>2. P!TypeOK'
    BY <1>1, <1>2, <2>1, HeapTypesNext
  <2>3. HeapCount'
    BY <1>1, <1>2, HeapRunnerMoves
  <2>4. HeapRunning' /\ HeapServed'
    BY <1>1, <1>2 DEF HeapRunning, HeapServed, RunnersTypeOK
  <2>5. HeapHold'
    BY <1>1, <1>2 DEF HeapHold, RunnersTypeOK
  <2> QED
    BY <2>2, <2>3, <2>4, <2>5
<1>3. ASSUME NEW n \in heap, runner' = [runner EXCEPT ![r] = "node"],
             current' = [current EXCEPT ![r] = n], heap' = heap \ {n},
             running' = running \cup {n}
      PROVE  HeapInv'
  <2>1. n \in Nodes /\ n \in started /\ \A s \in Runners : current[s] # n
    BY RunnersAssumption DEF HeapHold
  <2>2. RunnersTypeOK'
    BY <1>1, <1>3, <2>1 DEF RunnersTypeOK
  <2>3. P!TypeOK'
    BY <1>1, <1>3, <2>1, <2>2, HeapTypesNext
  <2>4. HeapCount'
    BY <1>1, <1>3, HeapRunnerMoves
  <2>5. HeapRunning'
    BY <1>1, <1>3, <2>1 DEF HeapRunning, RunnersTypeOK
  <2>6. HeapServed'
    BY <1>1, <1>3 DEF HeapServed, Looking, RunnersTypeOK
  <2>7. HeapHold'
    BY <1>1, <1>3, <2>1, RunnersAssumption DEF HeapHold, RunnersTypeOK
  <2> QED
    BY <2>3, <2>4, <2>5, <2>6, <2>7
<1> QED
  BY <1>2, <1>3 DEF P!Dequeue, P!LeaveLoop, P!TakeNode, P!Tops

\* priority::node::run.
LEMMA HeapRunNode ==
  ASSUME HeapInv, NEW r \in Runners, P!RunNode(r)
  PROVE  HeapInv'
<1> USE HeapTypes DEF HeapInv
<1>1. /\ runner[r] = "node" /\ runner' = [runner EXCEPT ![r] = "post"]
      /\ finished' = [finished EXCEPT ![current[r]] = TRUE]
      /\ UNCHANGED <<current, max, started, heap, priority, microtime, clock,
                     actives, running, stranded>>
  BY DEF P!RunNode, P!NodeReturns, P!nodeVars
<1>2. RunnersTypeOK'
  BY <1>1 DEF RunnersTypeOK
<1>3. P!TypeOK'
  BY <1>1, <1>2, HeapTypesNext
<1>4. HeapCount'
  BY <1>1, HeapRunnerMoves
<1>5. HeapRunning' /\ HeapServed'
  BY <1>1 DEF HeapRunning, HeapServed, Looking, RunnersTypeOK
<1>6. HeapHold'
  BY <1>1 DEF HeapHold, RunnersTypeOK
<1> QED
  BY <1>3, <1>4, <1>5, <1>6

\* The end of a round of priority::run.
LEMMA HeapErase ==
  ASSUME HeapInv, NEW r \in Runners, P!Erase(r)
  PROVE  HeapInv'
<1> USE HeapTypes DEF HeapInv
<1>1. /\ runner[r] = "post" /\ runner' = [runner EXCEPT ![r] = "loop"]
      /\ current' = [current EXCEPT ![r] = None] /\ running' = running \ {current[r]}
      /\ UNCHANGED <<finished, max, started, heap, priority, microtime, clock,
                     actives, stranded>>
  BY DEF P!Erase, P!NextRound, P!nodeVars
<1>2. current[r] \in Nodes /\ \A s \in Runners : s # r => current[s] # current[r]
  BY <1>1, RunnersAssumption DEF HeapHold, RunnersTypeOK
<1>3. RunnersTypeOK'
  BY <1>1 DEF RunnersTypeOK
<1>4. P!TypeOK'
  BY <1>1, <1>3, HeapTypesNext
<1>5. HeapCount'
  BY <1>1, HeapRunnerMoves
<1>6. HeapRunning'
  BY <1>1, <1>2 DEF HeapRunning, RunnersTypeOK
<1>7. HeapServed' /\ HeapHold'
  BY <1>1 DEF HeapServed, Looking, HeapHold, RunnersTypeOK
<1> QED
  BY <1>4, <1>5, <1>6, <1>7

\* priority::~priority.
LEMMA HeapDelete ==
  ASSUME HeapInv, NEW r \in Runners, P!Delete(r)
  PROVE  HeapInv'
<1> USE HeapTypes DEF HeapInv
<1>1. /\ runner[r] = "left" /\ runner' = [runner EXCEPT ![r] = "free"]
      /\ actives' = actives - 1
      /\ UNCHANGED <<current, finished, max, started, heap, priority, microtime, clock,
                     running, stranded>>
  BY DEF P!Delete, P!DeleteRunner, P!nodeVars
<1>2. /\ Existing' = Existing \ {r} /\ r \in Existing
      /\ Existing \in SUBSET Runners /\ Existing' \in SUBSET Runners
  BY <1>1 DEF Existing, RunnersTypeOK
<1>3. actives' = Cardinality(Existing') /\ actives' \in 0..Cardinality(Runners)
  BY <1>1, <1>2, RunnerCount DEF HeapCount
<1>4. RunnersTypeOK'
  BY <1>1 DEF RunnersTypeOK
<1>5. P!TypeOK'
  BY <1>1, <1>3, <1>4, HeapTypesNext
<1>6. HeapCount'
  BY <1>3 DEF HeapCount
<1>7. HeapRunning' /\ HeapServed'
  BY <1>1 DEF HeapRunning, HeapServed, Looking, RunnersTypeOK
<1>8. HeapHold'
  BY <1>1 DEF HeapHold, RunnersTypeOK
<1> QED
  BY <1>5, <1>6, <1>7, <1>8

\* Steps that change nothing the invariant speaks of.
LEMMA HeapQuiet ==
  ASSUME HeapInv, max' \in MaxValues,
         UNCHANGED <<runner, current, finished, started, heap, priority, microtime,
                     clock, actives, running, stranded>>
  PROVE  HeapInv'
<1> USE HeapTypes DEF HeapInv
<1>1. RunnersTypeOK'
  BY DEF RunnersTypeOK
<1>2. P!TypeOK'
  BY <1>1, HeapTypesNext
<1>3. HeapCount' /\ HeapRunning' /\ HeapServed' /\ HeapHold'
  BY DEF HeapCount, Existing, HeapRunning, HeapServed, Looking, HeapHold
<1> QED
  BY <1>2, <1>3

\* Every step of the priority scheduler keeps the invariant.
LEMMA HeapNext ==
  HeapInv /\ [P!Next]_(P!vars) => HeapInv'
<1> SUFFICES ASSUME HeapInv, [P!Next]_(P!vars) PROVE HeapInv'
  OBVIOUS
<1>1. CASE UNCHANGED P!vars
  <2>1. max' \in MaxValues
    BY <1>1, HeapTypes DEF HeapInv, RunnersTypeOK, P!vars, P!runnerVars
  <2> QED
    BY <1>1, <2>1, HeapQuiet DEF P!vars, P!runnerVars, P!nodeVars
<1>2. ASSUME NEW n \in Nodes, NEW p \in Priorities, NEW tick \in {0, 1},
             P!Start(n, p, tick)
      PROVE  HeapInv'
  BY <1>2, HeapStart
<1>3. ASSUME NEW r \in Runners, P!Run(r) PROVE HeapInv'
  BY <1>3, HeapBegin, HeapDequeue, HeapRunNode, HeapErase, HeapDelete DEF P!Run
<1>4. ASSUME NEW m \in MaxValues, P!SetMax(m) PROVE HeapInv'
  BY <1>4, HeapQuiet DEF P!SetMax, P!SetSchedulerMax, P!nodeVars
<1> QED
  BY <1>1, <1>2, <1>3, <1>4 DEF P!Next

\* The invariant holds in every reachable state.
LEMMA HeapInvariant ==
  P!Spec => []HeapInv
BY HeapInit, HeapNext, PTL DEF P!Spec

\* In every interleaving of start, dequeue, node::run, ~priority and max,
\* with any number of runners, s_actives is the number of runner objects,
\* s_running the nodes that runners have, and a node of the heap has a runner
\* that will look for it unless its start found only runners that had left
\* their loop (priority.cpp).
THEOREM PriorityConsistent ==
  P!Spec => []P!Consistent
BY HeapConsistent, HeapInvariant, PTL

\* A runner never takes a node while the heap holds one of a higher priority,
\* or one of the same priority that was started at an earlier time: whatever
\* integers the clients give as priorities, and however the heap orders nodes
\* of one priority and one microtime (priority::dequeue, node::operator()).
THEOREM PriorityNoInversion ==
  ASSUME P!PrioritiesAssumption
  PROVE  P!Spec => P!NoInversion
<1> DEFINE Top(r) == \A m \in heap' :
             /\ priority[m] <= priority[current'[r]]
             /\ priority[m] = priority[current'[r]] => microtime[m] >= microtime[current'[r]]
<1>1. HeapInv /\ [P!Next]_(P!vars) =>
        \A r \in Runners : current[r] # current'[r] /\ current'[r] # None => Top(r)
  <2> SUFFICES ASSUME HeapInv, [P!Next]_(P!vars), NEW r \in Runners,
                      current[r] # current'[r], current'[r] # None
               PROVE  Top(r)
    OBVIOUS
  <2>0. /\ RunnersTypeOK /\ heap \subseteq Nodes
        /\ priority \in [Nodes -> Int] /\ microtime \in [Nodes -> Nat]
    <3>1. Priorities \subseteq Int
      BY DEF P!PrioritiesAssumption
    <3>2. /\ RunnersTypeOK /\ heap \subseteq Nodes
          /\ priority \in [Nodes -> Priorities \cup {0}] /\ microtime \in [Nodes -> Nat]
      BY HeapTypes DEF HeapInv
    <3>3. Priorities \cup {0} \subseteq Int
      BY <3>1
    <3> QED
      BY <3>2, <3>3
  <2>1. PICK s \in Runners : P!Dequeue(s)
    <3>1. CASE UNCHANGED P!vars
      BY <3>1 DEF P!vars, P!runnerVars
    <3>2. ASSUME NEW n \in Nodes, NEW p \in Priorities, NEW tick \in {0, 1},
                 P!Start(n, p, tick)
          PROVE  FALSE
      BY <3>2 DEF P!Start
    <3>3. ASSUME NEW s \in Runners, P!Run(s) PROVE P!Dequeue(s)
      <4>1. ASSUME P!Erase(s) PROVE FALSE
        <5>1. current' = [current EXCEPT ![s] = None]
          BY <4>1 DEF P!Erase, P!NextRound
        <5> QED
          BY <2>0, <5>1 DEF RunnersTypeOK
      <4> QED
        BY <3>3, <4>1 DEF P!Run, P!Begin, P!BeginRunner, P!RunNode, P!NodeReturns,
           P!Delete, P!DeleteRunner
    <3>4. ASSUME NEW m \in MaxValues, P!SetMax(m) PROVE FALSE
      BY <3>4 DEF P!SetMax, P!SetSchedulerMax
    <3> QED
      BY <3>1, <3>2, <3>3, <3>4 DEF P!Next
  <2>2. PICK n \in P!Tops : /\ current' = [current EXCEPT ![s] = n]
                            /\ heap' = heap \ {n}
    BY <2>1 DEF P!Dequeue, P!LeaveLoop, P!TakeNode
  <2>3. current'[r] = n
    BY <2>0, <2>2 DEF RunnersTypeOK
  <2>4. n \in heap /\ \A m \in heap : ~P!Less(n, m)
    BY DEF P!Tops
  <2> SUFFICES ASSUME NEW m \in heap'
               PROVE  /\ priority[m] <= priority[n]
                      /\ priority[m] = priority[n] => microtime[m] >= microtime[n]
    BY <2>3
  <2>5. PICK a \in Int, b \in Int, c \in Nat, d \in Nat :
          a = priority[m] /\ b = priority[n] /\ c = microtime[m] /\ d = microtime[n]
    BY <2>0, <2>2, <2>4
  <2>6. ~P!Less(n, m)
    BY <2>2, <2>4
  <2>7. ~(b = a /\ d > c) /\ ~(b < a)
    BY <2>5, <2>6 DEF P!Less
  <2> QED
    BY <2>5, <2>7
<1>2. HeapInv /\ [P!Next]_(P!vars) =>
        [\A r \in Runners : current[r] # current'[r] /\ current'[r] # None =>
           LET n == current'[r] IN
           \A m \in heap' : /\ priority[m] <= priority[n]
                            /\ priority[m] = priority[n] => microtime[m] >= microtime[n]]_(P!vars)
  BY <1>1
<1> QED
  BY <1>2, HeapInvariant, PTL DEF P!Spec, P!NoInversion
=============================================================================
