---------------------------- MODULE WorkerProofs ----------------------------
(***************************************************************************)
(* Proof that the stop script of a worker runs when every item is handled, *)
(* and that nodes never outlive their worker, in both builds and for any   *)
(* numbers of workers, items, nodes and threads.                           *)
(*                                                                         *)
(* The argument: an item is in the queue, in the hands of a node or        *)
(* counted (Account); a node leaves only when the queue is empty, and      *)
(* nobody fills it again (Drained); the worker waits for its nodes, and no *)
(* object is in two places (Places, Nodeful).                              *)
(***************************************************************************)
EXTENDS Worker, TLAPS, FiniteSetTheorems, SequenceTheorems

Elements(q) == {q[i] : i \in 1..Len(q)}
OnceEach(q) == \A i, j \in 1..Len(q) : q[i] = q[j] => i = j
Waiting == Elements(pending)

Types ==
  /\ build \in {"mvm", "standalone"}
  /\ pending \in Seq(Objects) /\ executing \subseteq Objects /\ completed \subseteq Objects
  /\ threads \subseteq Nodes /\ joined \subseteq Nodes /\ holds \subseteq Nodes
  /\ pc \in [Workers -> {"new", "start", "perform", "stop", "done"}]
  /\ items \in [Workers -> Nat] /\ progress \in [Workers -> Nat]
  /\ total \in [Workers -> Nat] /\ cores \in [Workers -> 0..MaxNodes]
  /\ list \in [Workers -> 0..MaxNodes]

\* An object is in one place: it waits, it is executed, or it is completed; a
\* node has this in the pool or, with a thread of its own, outside of it.
Places ==
  /\ OnceEach(pending)
  /\ Waiting \cap executing = {} /\ Waiting \cap completed = {}
  /\ executing \cap completed = {} /\ threads \cap joined = {}
  /\ build = "mvm" => threads = {} /\ joined = {}
  /\ build = "standalone" => Nodes \cap (Waiting \cup executing \cup completed) = {}

\* Where run() of a worker is, and where the pool has it.
Phase(w) ==
  /\ pc[w] = "new" <=> w \notin executing \cup completed
  /\ pc[w] \in {"start", "perform", "stop"} <=> w \in executing
  /\ pc[w] \in {"new", "start"} => list[w] = 0 /\ progress[w] = 0 /\ total[w] = 0
  /\ pc[w] = "new" => items[w] = 0

Present(n) == n \in Waiting \cup executing \cup threads

\* A node that waits or runs was started by a worker that waits for it.
Nodeful(n) ==
  /\ Present(n) => n[2] <= list[n[1]] /\ pc[n[1]] = "perform"
  /\ Finished(n) => n[2] <= list[n[1]] /\ items[n[1]] = 0 /\ pc[n[1]] # "start"
  /\ n \in holds => Runs(n)

HoldsOf(w) == {n \in holds : n[1] = w}

\* Every item is in the queue, with a node, or counted.
Account(w) ==
  pc[w] \in {"perform", "stop", "done"} =>
    items[w] + Cardinality(HoldsOf(w)) + progress[w] = total[w]

\* Without a node there is nothing to do, and behind the wait neither.
Drained(w) ==
  /\ pc[w] = "perform" => list[w] <= cores[w] /\ (cores[w] = 0 => items[w] = 0)
  /\ pc[w] \in {"stop", "done"} => items[w] = 0 /\ HoldsOf(w) = {}

Inv ==
  /\ Types /\ Places
  /\ \A w \in Workers : Phase(w) /\ Account(w) /\ Drained(w)
  /\ \A n \in Nodes : Nodeful(n)

-----------------------------------------------------------------------------
(* The pool.                                                               *)

\* What pool and workers share of a step that is none of the pool.
LEMMA NodeMembers ==
  ASSUME NEW n \in Nodes
  PROVE  /\ n = <<n[1], n[2]>> /\ n[1] \in Workers /\ n[2] \in 1..MaxNodes
         /\ n \notin Workers /\ Master(n) = n[1]
BY WorkerAssumption DEF Nodes, Master

\* An object is in the queue exactly if it waits.
LEMMA PendingIsWaiting ==
  Pool!Pending = Waiting
BY DEF Pool!Pending, Waiting, Elements

\* core::start.
LEMMA SubmitStep ==
  ASSUME Types, Places, NEW t \in Objects, Pool!Submit(t)
  PROVE  /\ t \notin Waiting \cup executing \cup completed
         /\ pending' \in Seq(Objects) /\ OnceEach(pending)'
         /\ Waiting' = Waiting \cup {t}
         /\ executing' = executing /\ completed' = completed
<1>1. t \notin Waiting \cup executing \cup completed
  BY PendingIsWaiting DEF Pool!Submit
<1>2. PICK q : q = pending' /\ q = Append(pending, t)
  BY DEF Pool!Submit
<1>3. /\ q \in Seq(Objects) /\ Len(pending) \in Nat /\ Len(q) = Len(pending) + 1
      /\ q[Len(pending) + 1] = t /\ \A i \in 1..Len(pending) : q[i] = pending[i]
  BY <1>2, AppendProperties DEF Types
<1>4. \A i \in 1..Len(pending) : pending[i] # t
  BY <1>1 DEF Waiting, Elements
<1>5. OnceEach(q)
  BY <1>3, <1>4 DEF Places, OnceEach
<1>6. Elements(q) = Waiting \cup {t}
  BY <1>3 DEF Waiting, Elements
<1> QED
  BY <1>1, <1>2, <1>3, <1>5, <1>6 DEF Pool!Submit, Waiting

\* core::working takes the front of the queue.
LEMMA BeginStep ==
  ASSUME Types, Places, Pool!Begin
  PROVE  /\ Head(pending) \in Objects /\ Head(pending) \in Waiting
         /\ pending' \in Seq(Objects) /\ OnceEach(pending)'
         /\ Waiting' = Waiting \ {Head(pending)}
         /\ executing' = executing \cup {Head(pending)} /\ completed' = completed
<1>1. PICK q : q = pending' /\ q = Tail(pending)
  BY DEF Pool!Begin
<1>2. /\ Head(pending) \in Objects /\ q \in Seq(Objects) /\ Head(pending) = pending[1]
      /\ Len(pending) \in Nat \ {0} /\ Len(q) = Len(pending) - 1
      /\ \A i \in 1..Len(q) : q[i] = pending[i + 1]
  BY <1>1, HeadTailProperties, EmptySeq, LenProperties DEF Types, Pool!Begin
<1>3. Head(pending) \in Waiting
  BY <1>2 DEF Waiting, Elements
<1>4. OnceEach(q)
  BY <1>2 DEF Places, OnceEach
<1>5. ASSUME NEW n \in Elements(q) PROVE n \in Waiting \ {Head(pending)}
  <2>1. PICK i \in 1..Len(q) : n = pending[i + 1]
    BY <1>2 DEF Elements
  <2>2. i + 1 \in 1..Len(pending) /\ i + 1 # 1
    BY <1>2
  <2> QED
    BY <1>2, <2>1, <2>2 DEF Waiting, Elements, Places, OnceEach
<1>6. ASSUME NEW n \in Waiting \ {Head(pending)} PROVE n \in Elements(q)
  <2>1. PICK i \in 1..Len(pending) : n = pending[i]
    BY DEF Waiting, Elements
  <2>2. i - 1 \in 1..Len(q) /\ (i - 1) + 1 = i
    BY <1>2, <1>6, <2>1
  <2>3. q[i - 1] = n
    BY <1>2, <2>1, <2>2
  <2> QED
    BY <2>2, <2>3 DEF Elements
<1>7. Elements(q) = Waiting \ {Head(pending)}
  BY <1>5, <1>6
<1> QED
  BY <1>1, <1>2, <1>3, <1>4, <1>7 DEF Pool!Begin, Waiting

\* The end of the object's run().
LEMMA CompleteStep ==
  ASSUME NEW t, Pool!Complete(t)
  PROVE  /\ t \in executing /\ pending' = pending /\ Waiting' = Waiting
         /\ executing' = executing \ {t} /\ completed' = completed \cup {t}
BY DEF Pool!Complete, Waiting

\* The items nodes have in hand.
LEMMA HoldsFinite ==
  ASSUME Types, NEW w \in Workers
  PROVE  IsFiniteSet(HoldsOf(w)) /\ Cardinality(HoldsOf(w)) \in Nat
<1>1. HoldsOf(w) \in SUBSET ({w} \X (1..MaxNodes))
  <2>1. ASSUME NEW n \in HoldsOf(w) PROVE n \in {w} \X (1..MaxNodes)
    <3>1. n \in Nodes /\ n[1] = w
      BY DEF Types, HoldsOf
    <3>2. n = <<w, n[2]>> /\ n[2] \in 1..MaxNodes
      BY <3>1, NodeMembers
    <3> QED
      BY <3>2
  <2> QED
    BY <2>1
<1>2. IsFiniteSet(1..MaxNodes) /\ IsFiniteSet({w})
  <2>1. 1 \in Int /\ MaxNodes \in Int
    BY WorkerAssumption
  <2>2. IsFiniteSet(1..MaxNodes)
    BY <2>1, FS_Interval
  <2>3. IsFiniteSet({w})
    BY FS_Singleton
  <2> QED
    BY <2>2, <2>3
<1>3. IsFiniteSet({w} \X (1..MaxNodes))
  BY <1>2, FS_Product
<1>4. IsFiniteSet(HoldsOf(w))
  BY <1>1, <1>3, FS_Subset
<1> QED
  BY <1>4, FS_CardinalityType

-----------------------------------------------------------------------------
(* The actions keep the invariant.                                         *)

\* No worker has started at the beginning.
LEMMA InitInv ==
  Init => Inv
<1> SUFFICES ASSUME Init PROVE Inv
  OBVIOUS
<1> USE DEF Init, Pool!Init
<1>1. Waiting = {} /\ OnceEach(pending)
  BY DEF Waiting, Elements, OnceEach
<1>2. Types
  BY WorkerAssumption DEF Types
<1>3. Places
  BY <1>1 DEF Places
<1>4. \A w \in Workers : Phase(w) /\ Account(w) /\ Drained(w)
  BY DEF Phase, Account, Drained
<1>5. \A n \in Nodes : Nodeful(n)
  BY <1>1 DEF Nodeful, Present, Finished
<1> QED
  BY <1>2, <1>3, <1>4, <1>5 DEF Inv

\* worker::start.
LEMMA StartStep ==
  ASSUME Inv, NEW w \in Workers, Start(w)
  PROVE  Inv'
<1> USE DEF Inv
<1>1. /\ w \notin Waiting \cup executing \cup completed
      /\ pending' \in Seq(Objects) /\ OnceEach(pending)'
      /\ Waiting' = Waiting \cup {w}
      /\ executing' = executing /\ completed' = completed
  BY SubmitStep DEF Start, Objects
<1>2. UNCHANGED <<build, threads, joined, pc, items, holds, progress, total, cores, list>>
  BY DEF Start, ownVars, workVars, countVars
<1>3. Types'
  BY <1>1, <1>2 DEF Types
<1>4. Places'
  BY <1>1, <1>2, WorkerAssumption DEF Places
<1>5. \A v \in Workers : Phase(v)' /\ Account(v)' /\ Drained(v)'
  BY <1>1, <1>2 DEF Phase, Account, Drained, HoldsOf
<1>6. \A n \in Nodes : Nodeful(n)'
  BY <1>1, <1>2, WorkerAssumption DEF Nodeful, Present, Finished, Runs
<1> QED
  BY <1>3, <1>4, <1>5, <1>6

\* A thread of the pool takes a worker, or a node.
LEMMA TakeStep ==
  ASSUME Inv, Take
  PROVE  Inv'
<1> USE DEF Inv
<1>0. PICK t \in Objects : t = Head(pending)
  BY BeginStep DEF Take
<1>1. /\ t \in Waiting /\ pending' \in Seq(Objects) /\ OnceEach(pending)'
      /\ Waiting' = Waiting \ {t}
      /\ executing' = executing \cup {t} /\ completed' = completed
  BY <1>0, BeginStep DEF Take
<1>2. /\ UNCHANGED <<build, threads, joined, items, holds, progress, total, cores, list>>
      /\ pc' = [w \in Workers |-> IF w = t THEN "start" ELSE pc[w]]
  BY <1>0 DEF Take, ownVars, workVars, countVars
<1>3. t \notin executing \cup completed
  BY <1>1 DEF Places
<1>4. Types'
  BY <1>1, <1>2 DEF Types
<1>5. Places'
  BY <1>1, <1>2, <1>3 DEF Places
<1>6. ASSUME NEW v \in Workers PROVE Phase(v)' /\ Account(v)' /\ Drained(v)'
  <2>1. CASE v = t
    <3>1. pc[v] = "new" /\ pc'[v] = "start"
      BY <1>2, <1>3, <2>1 DEF Phase
    <3> QED
      BY <1>1, <1>2, <1>3, <2>1, <3>1 DEF Phase, Account, Drained
  <2>2. CASE v # t
    <3>1. pc'[v] = pc[v] /\ (v \in executing' <=> v \in executing)
      BY <1>1, <1>2, <2>2
    <3> QED
      BY <1>1, <1>2, <3>1 DEF Phase, Account, Drained, HoldsOf
  <2> QED
    BY <2>1, <2>2
<1>7. ASSUME NEW n \in Nodes PROVE Nodeful(n)'
  <2>1. n[1] \in Workers /\ n[2] \in 1..MaxNodes /\ n \notin Workers
    BY NodeMembers
  <2>2. Present(n)' <=> Present(n)
    BY <1>1, <1>2 DEF Present
  <2>3. Finished(n)' <=> Finished(n)
    BY <1>1, <1>2 DEF Finished
  <2>4. n \in holds' => Runs(n)'
    BY <1>1, <1>2 DEF Nodeful, Runs
  <2>5. n[1] = t => pc[n[1]] = "new" /\ list[n[1]] = 0
    BY <1>3, <2>1 DEF Phase
  <2>6. Present(n) \/ Finished(n) => n[1] # t
    BY <2>1, <2>5 DEF Nodeful
  <2>7. n[1] # t => pc'[n[1]] = pc[n[1]]
    BY <1>2, <2>1
  <2> QED
    BY <1>2, <2>2, <2>3, <2>4, <2>6, <2>7 DEF Nodeful
<1> QED
  BY <1>4, <1>5, <1>6, <1>7

\* A worker without start or run function ends.
LEMMA InvalidStep ==
  ASSUME Inv, NEW w \in Workers, Invalid(w)
  PROVE  Inv'
<1> USE DEF Inv
<1>1. /\ w \in executing /\ pending' = pending /\ Waiting' = Waiting
      /\ executing' = executing \ {w} /\ completed' = completed \cup {w}
  BY CompleteStep DEF Invalid
<1>2. /\ UNCHANGED <<build, threads, joined, items, holds, progress, total, cores, list>>
      /\ pc[w] = "start" /\ items[w] = 0 /\ pc' = [pc EXCEPT ![w] = "done"]
  BY DEF Invalid, ownVars, workVars, countVars
<1>3. Types'
  BY <1>1, <1>2 DEF Types, Objects
<1>4. Places'
  BY <1>1, <1>2, WorkerAssumption DEF Places
<1>5. HoldsOf(w) = {}
  <2>1. ASSUME NEW n \in HoldsOf(w) PROVE FALSE
    <3>1. n \in Nodes /\ n \in holds /\ n[1] = w
      BY DEF HoldsOf, Types
    <3> QED
      BY <1>2, <3>1 DEF Nodeful, Runs, Present
  <2> QED
    BY <2>1
<1>6. ASSUME NEW v \in Workers PROVE Phase(v)' /\ Account(v)' /\ Drained(v)'
  <2>1. CASE v = w
    <3>1. pc'[v] = "done" /\ HoldsOf(v)' = {}
      BY <1>2, <1>5, <2>1 DEF HoldsOf, Types
    <3>2. Phase(v)'
      BY <1>1, <1>2, <2>1, <3>1 DEF Phase, Types
    <3>3. Cardinality({}) = 0
      BY FS_EmptySet
    <3>4. items[v] = 0 /\ progress[v] = 0 /\ total[v] = 0
      BY <1>2, <2>1 DEF Phase
    <3> QED
      BY <1>2, <3>1, <3>2, <3>3, <3>4 DEF Account, Drained
  <2>2. CASE v # w
    <3>1. pc'[v] = pc[v] /\ (v \in executing' <=> v \in executing)
          /\ (v \in completed' <=> v \in completed)
      BY <1>1, <1>2, <2>2 DEF Types
    <3> QED
      BY <1>1, <1>2, <3>1 DEF Phase, Account, Drained, HoldsOf
  <2> QED
    BY <2>1, <2>2
<1>7. ASSUME NEW n \in Nodes PROVE Nodeful(n)'
  <2>1. n[1] \in Workers /\ n[2] \in 1..MaxNodes /\ n # w
    BY NodeMembers
  <2>2. Present(n)' <=> Present(n)
    BY <1>1, <1>2, <2>1 DEF Present
  <2>3. Finished(n)' <=> Finished(n)
    BY <1>1, <1>2, <2>1 DEF Finished
  <2>4. n \in holds' => Runs(n)'
    BY <1>1, <1>2, <2>1 DEF Nodeful, Runs
  <2>5. n[1] # w => pc'[n[1]] = pc[n[1]]
    BY <1>2, <2>1 DEF Types
  <2>6. Present(n) \/ Finished(n) => n[1] # w
    BY <1>2, <2>1 DEF Nodeful
  <2> QED
    BY <1>2, <2>2, <2>3, <2>4, <2>5, <2>6 DEF Nodeful
<1> QED
  BY <1>3, <1>4, <1>6, <1>7

\* worker::enqueue.
LEMMA EnqueueStep ==
  ASSUME Inv, NEW w \in Workers, Enqueue(w)
  PROVE  Inv'
<1> USE DEF Inv
<1>1. /\ UNCHANGED <<build, pending, executing, completed, threads, joined, pc, holds,
                     progress, total, cores, list>>
      /\ pc[w] = "start" /\ items' = [items EXCEPT ![w] = @ + 1] /\ Waiting' = Waiting
  BY DEF Enqueue, poolVars, ownVars, countVars, Waiting
<1>2. Types'
  BY <1>1 DEF Types
<1>3. Places'
  BY <1>1 DEF Places
<1>4. ASSUME NEW v \in Workers PROVE Phase(v)' /\ Account(v)' /\ Drained(v)'
  <2>1. CASE v = w
    BY <1>1, <2>1 DEF Phase, Account, Drained
  <2>2. CASE v # w
    <3>1. items'[v] = items[v]
      BY <1>1, <2>2 DEF Types
    <3> QED
      BY <1>1, <3>1 DEF Phase, Account, Drained, HoldsOf
  <2> QED
    BY <2>1, <2>2
<1>5. ASSUME NEW n \in Nodes PROVE Nodeful(n)'
  <2>1. n[1] \in Workers
    BY NodeMembers
  <2>2. Finished(n) => n[1] # w
    BY <1>1 DEF Nodeful
  <2>3. n[1] # w => items'[n[1]] = items[n[1]]
    BY <1>1, <2>1 DEF Types
  <2> QED
    BY <1>1, <2>2, <2>3 DEF Nodeful, Present, Finished, Runs
<1> QED
  BY <1>2, <1>3, <1>4, <1>5

\* A worker that has not performed has nodes neither at work nor finished.
LEMMA NoNodesYet ==
  ASSUME Inv, NEW w \in Workers, pc[w] \in {"new", "start"}
  PROVE  /\ \A n \in Nodes : n[1] = w => ~Present(n) /\ ~Finished(n) /\ n \notin holds
         /\ HoldsOf(w) = {}
<1>1. ASSUME NEW n \in Nodes, n[1] = w PROVE ~Present(n) /\ ~Finished(n) /\ n \notin holds
  <2>1. list[w] = 0 /\ n[2] \in 1..MaxNodes
    BY NodeMembers DEF Inv, Phase
  <2>2. ~Present(n) /\ ~Finished(n)
    BY <1>1, <2>1 DEF Inv, Nodeful
  <2>3. n \notin holds
    BY <2>2 DEF Inv, Nodeful, Runs, Present
  <2> QED
    BY <2>2, <2>3
<1>2. HoldsOf(w) = {}
  BY <1>1 DEF HoldsOf, Inv, Types
<1> QED
  BY <1>1, <1>2

\* The start script has returned.
LEMMA CountStep ==
  ASSUME Inv, NEW w \in Workers, Count(w)
  PROVE  Inv'
<1> USE DEF Inv
<1>1. /\ UNCHANGED <<build, pending, executing, completed, threads, joined, items,
                     holds, progress, list>>
      /\ pc[w] = "start" /\ pc' = [pc EXCEPT ![w] = "perform"] /\ Waiting' = Waiting
      /\ total' = [total EXCEPT ![w] = items[w]]
  BY DEF Count, poolVars, ownVars, workVars, Waiting
<1>2. PICK max \in 1..MaxNodes :
        cores' = [cores EXCEPT ![w] = IF items[w] < max THEN items[w] ELSE max]
  BY DEF Count
<1>3. Types'
  <2>1. items[w] \in Nat /\ (IF items[w] < max THEN items[w] ELSE max) \in 0..MaxNodes
    BY WorkerAssumption DEF Types
  <2> QED
    BY <1>1, <1>2, <2>1 DEF Types
<1>4. Places'
  BY <1>1 DEF Places
<1>5. ASSUME NEW v \in Workers PROVE Phase(v)' /\ Account(v)' /\ Drained(v)'
  <2>1. CASE v = w
    <3>1. /\ pc'[v] = "perform" /\ total'[v] = items[v]
          /\ list[v] = 0 /\ progress[v] = 0 /\ cores'[v] \in 0..MaxNodes
          /\ items[v] \in Nat /\ (cores'[v] = 0 => items[v] = 0)
      BY <1>1, <1>2, <1>3, <2>1, WorkerAssumption DEF Types, Phase
    <3>2. HoldsOf(v)' = {} /\ Cardinality({}) = 0
      BY <1>1, <2>1, NoNodesYet, FS_EmptySet DEF HoldsOf
    <3>3. Phase(v)'
      BY <1>1, <2>1, <3>1 DEF Phase
    <3>4. Account(v)'
      BY <1>1, <3>1, <3>2 DEF Account
    <3>5. Drained(v)'
      BY <1>1, <3>1 DEF Drained
    <3> QED
      BY <3>3, <3>4, <3>5
  <2>2. CASE v # w
    <3>1. pc'[v] = pc[v] /\ total'[v] = total[v] /\ cores'[v] = cores[v]
      BY <1>1, <1>2, <2>2 DEF Types
    <3> QED
      BY <1>1, <3>1 DEF Phase, Account, Drained, HoldsOf
  <2> QED
    BY <2>1, <2>2
<1>6. ASSUME NEW n \in Nodes PROVE Nodeful(n)'
  <2>1. n[1] \in Workers
    BY NodeMembers
  <2>2. n[1] = w => ~Present(n) /\ ~Finished(n) /\ n \notin holds
    BY <1>1, NoNodesYet
  <2>3. n[1] # w => pc'[n[1]] = pc[n[1]]
    BY <1>1, <2>1 DEF Types
  <2> QED
    BY <1>1, <2>2, <2>3 DEF Nodeful, Present, Finished, Runs
<1> QED
  BY <1>3, <1>4, <1>5, <1>6

\* perform() starts a node.
LEMMA StartNodeStep ==
  ASSUME Inv, NEW w \in Workers, StartNode(w)
  PROVE  Inv'
<1> USE DEF Inv
<1>1. /\ UNCHANGED <<build, pc, items, holds, progress, total, cores>>
      /\ pc[w] = "perform" /\ list[w] < cores[w] /\ list' = [list EXCEPT ![w] = @ + 1]
  BY DEF StartNode, workVars
<1>2. list[w] + 1 \in 1..MaxNodes /\ list[w] + 1 <= cores[w]
  BY <1>1, WorkerAssumption DEF Types
<1>3. PICK n \in Nodes : n = <<w, list[w] + 1>> /\ n[1] = w /\ n[2] = list[w] + 1
  <2>1. <<w, list[w] + 1>> \in Nodes
    BY <1>2 DEF Nodes
  <2> QED
    BY <2>1
<1>4. ~Present(n) /\ ~Finished(n)
  BY <1>1, <1>3, WorkerAssumption DEF Types, Nodeful
<1>5. /\ pending' \in Seq(Objects) /\ OnceEach(pending)'
      /\ executing' = executing /\ completed' = completed /\ joined' = joined
      /\ \/ build = "mvm" /\ Waiting' = Waiting \cup {n} /\ threads' = threads
         \/ build = "standalone" /\ Waiting' = Waiting /\ threads' = threads \cup {n}
  <2>1. CASE build = "mvm" /\ Pool!Submit(n) /\ UNCHANGED ownVars
    BY <2>1, SubmitStep DEF Objects, ownVars
  <2>2. CASE build = "standalone" /\ threads' = threads \cup {n}
             /\ UNCHANGED <<poolVars, joined>>
    BY <2>2 DEF poolVars, Waiting, Types, Places
  <2> QED
    BY <1>3, <2>1, <2>2 DEF StartNode
<1>6. Types'
  <2>1. list' \in [Workers -> 0..MaxNodes]
    BY <1>1, <1>2 DEF Types
  <2>2. threads' \subseteq Nodes
    BY <1>3, <1>5 DEF Types
  <2> QED
    BY <1>1, <1>5, <2>1, <2>2 DEF Types
<1>7. Places'
  BY <1>1, <1>4, <1>5 DEF Places, Present, Finished
<1>8. ASSUME NEW v \in Workers PROVE Phase(v)' /\ Account(v)' /\ Drained(v)'
  <2>1. CASE v = w
    <3>1. list'[v] <= cores[v]
      BY <1>1, <1>2, <2>1 DEF Types
    <3> QED
      BY <1>1, <1>5, <2>1, <3>1 DEF Phase, Account, Drained, HoldsOf
  <2>2. CASE v # w
    <3>1. list'[v] = list[v]
      BY <1>1, <2>2 DEF Types
    <3> QED
      BY <1>1, <1>5, <3>1 DEF Phase, Account, Drained, HoldsOf
  <2> QED
    BY <2>1, <2>2
<1>9. ASSUME NEW m \in Nodes PROVE Nodeful(m)'
  <2>1. m[1] \in Workers /\ m[2] \in 1..MaxNodes
    BY NodeMembers
  <2>2. list[m[1]] \in Nat /\ list'[m[1]] \in Nat /\ list[m[1]] <= list'[m[1]]
    <3>1. PICK v \in Workers : v = m[1]
      BY <2>1
    <3>2. /\ list[v] \in 0..MaxNodes
          /\ list'[v] = list[v] \/ list'[v] = list[v] + 1
      BY <1>1 DEF Types
    <3>3. list[v] \in Nat /\ list'[v] \in Nat /\ list[v] <= list'[v]
      BY <3>2, WorkerAssumption
    <3> QED
      BY <3>1, <3>3
  <2>3. Present(m)' <=> Present(m) \/ m = n
    BY <1>5 DEF Present
  <2>4. Finished(m)' <=> Finished(m)
    BY <1>5 DEF Finished
  <2>5. Runs(m) => Runs(m)'
    BY <1>5 DEF Runs
  <2>6. CASE m = n
    <3>1. m[2] <= list'[m[1]] /\ pc'[m[1]] = "perform"
      BY <1>1, <1>3, <2>6 DEF Types
    <3> QED
      BY <1>1, <1>4, <2>4, <2>5, <2>6, <3>1 DEF Nodeful
  <2>7. CASE m # n
    BY <1>1, <2>1, <2>2, <2>3, <2>4, <2>5, <2>7 DEF Nodeful
  <2> QED
    BY <2>6, <2>7
<1> QED
  BY <1>6, <1>7, <1>8, <1>9

\* The nodes have finished: the queue is empty and nobody has an item.
LEMMA WaitStep ==
  ASSUME Inv, NEW w \in Workers, Wait(w)
  PROVE  Inv'
<1> USE DEF Inv
<1>1. /\ UNCHANGED <<build, pending, executing, completed, threads, joined, items,
                     holds, progress, total, cores, list>>
      /\ pc[w] = "perform" /\ list[w] = cores[w]
      /\ pc' = [pc EXCEPT ![w] = "stop"] /\ Waiting' = Waiting
      /\ \A n \in NodesOf(w) : Finished(n)
  BY DEF Wait, poolVars, ownVars, workVars, countVars, Waiting
<1>2. ASSUME NEW n \in Nodes, n[1] = w PROVE ~Present(n) /\ n \notin holds
  <2>1. ASSUME Present(n) PROVE FALSE
    <3>1. n \in NodesOf(w)
      BY <1>2, <2>1 DEF NodesOf, Nodeful
    <3>2. Finished(n)
      BY <1>1, <3>1
    <3> QED
      BY <2>1, <3>2 DEF Places, Present, Finished, Types
  <2> QED
    BY <2>1 DEF Nodeful, Runs, Present
<1>3. HoldsOf(w) = {}
  BY <1>2 DEF HoldsOf, Types
<1>4. items[w] = 0
  <2>1. CASE list[w] = 0
    BY <1>1, <2>1 DEF Drained
  <2>2. CASE list[w] # 0
    <3>1. 1 \in 1..MaxNodes /\ 1 <= list[w]
      BY <2>2, WorkerAssumption DEF Types
    <3>2. PICK n \in Nodes : n = <<w, 1>> /\ n[1] = w /\ n[2] = 1
      <4>1. <<w, 1>> \in Nodes
        BY <3>1 DEF Nodes
      <4> QED
        BY <4>1
    <3>3. n \in NodesOf(w)
      BY <3>1, <3>2 DEF NodesOf
    <3> QED
      BY <1>1, <3>2, <3>3 DEF Nodeful
  <2> QED
    BY <2>1, <2>2
<1>5. Types'
  BY <1>1 DEF Types
<1>6. Places'
  BY <1>1 DEF Places
<1>7. ASSUME NEW v \in Workers PROVE Phase(v)' /\ Account(v)' /\ Drained(v)'
  <2>1. CASE v = w
    <3>1. pc'[v] = "stop"
      BY <1>1, <2>1 DEF Types
    <3> QED
      BY <1>1, <1>3, <1>4, <2>1, <3>1 DEF Phase, Account, Drained, HoldsOf
  <2>2. CASE v # w
    <3>1. pc'[v] = pc[v]
      BY <1>1, <2>2 DEF Types
    <3> QED
      BY <1>1, <3>1 DEF Phase, Account, Drained, HoldsOf
  <2> QED
    BY <2>1, <2>2
<1>8. ASSUME NEW n \in Nodes PROVE Nodeful(n)'
  <2>1. n[1] \in Workers
    BY NodeMembers
  <2>2. /\ Present(n)' <=> Present(n)
        /\ Finished(n)' <=> Finished(n)
        /\ Runs(n)' <=> Runs(n)
    BY <1>1 DEF Present, Finished, Runs
  <2>3. CASE n[1] = w
    <3>1. pc'[n[1]] = "stop"
      BY <1>1, <2>3 DEF Types
    <3> QED
      BY <1>1, <1>2, <2>2, <2>3, <3>1 DEF Nodeful
  <2>4. CASE n[1] # w
    <3>1. pc'[n[1]] = pc[n[1]]
      BY <1>1, <2>1, <2>4 DEF Types
    <3> QED
      BY <1>1, <2>2, <3>1 DEF Nodeful
  <2> QED
    BY <2>3, <2>4
<1> QED
  BY <1>5, <1>6, <1>7, <1>8

\* The stop script and the end of worker::run.
LEMMA StopStep ==
  ASSUME Inv, NEW w \in Workers, Stop(w)
  PROVE  Inv'
<1> USE DEF Inv
<1>1. /\ w \in executing /\ pending' = pending /\ Waiting' = Waiting
      /\ executing' = executing \ {w} /\ completed' = completed \cup {w}
  BY CompleteStep DEF Stop
<1>2. /\ UNCHANGED <<build, threads, joined, items, holds, progress, total, cores, list>>
      /\ pc[w] = "stop" /\ pc' = [pc EXCEPT ![w] = "done"]
  BY DEF Stop, ownVars, workVars, countVars
<1>3. Types'
  BY <1>1, <1>2 DEF Types, Objects
<1>4. Places'
  BY <1>1, <1>2, WorkerAssumption DEF Places
<1>5. ASSUME NEW v \in Workers PROVE Phase(v)' /\ Account(v)' /\ Drained(v)'
  <2>1. CASE v = w
    <3>1. pc'[v] = "done"
      BY <1>2, <2>1 DEF Types
    <3> QED
      BY <1>1, <1>2, <2>1, <3>1 DEF Phase, Account, Drained, HoldsOf
  <2>2. CASE v # w
    <3>1. pc'[v] = pc[v] /\ (v \in executing' <=> v \in executing)
          /\ (v \in completed' <=> v \in completed)
      BY <1>1, <1>2, <2>2 DEF Types
    <3> QED
      BY <1>1, <1>2, <3>1 DEF Phase, Account, Drained, HoldsOf
  <2> QED
    BY <2>1, <2>2
<1>6. ASSUME NEW n \in Nodes PROVE Nodeful(n)'
  <2>1. n[1] \in Workers /\ n # w
    BY NodeMembers
  <2>2. /\ Present(n)' <=> Present(n)
        /\ Finished(n)' <=> Finished(n)
        /\ Runs(n)' <=> Runs(n)
    BY <1>1, <1>2, <2>1 DEF Present, Finished, Runs
  <2>3. pc[n[1]] = "perform" => pc'[n[1]] = "perform"
    BY <1>2, <2>1 DEF Types
  <2>4. pc[n[1]] # "start" => pc'[n[1]] # "start"
    BY <1>2, <2>1 DEF Types
  <2> QED
    BY <1>2, <2>2, <2>3, <2>4 DEF Nodeful
<1> QED
  BY <1>3, <1>4, <1>5, <1>6

\* node::dequeue: an item goes from the queue to a node.
LEMMA DequeueStep ==
  ASSUME Inv, NEW n \in Nodes, Dequeue(n)
  PROVE  Inv'
<1> USE DEF Inv
<1>1. PICK w \in Workers : w = n[1] /\ w = Master(n)
  BY NodeMembers
<1>2. /\ UNCHANGED <<build, pending, executing, completed, threads, joined, pc,
                     progress, total, cores, list>>
      /\ Runs(n) /\ n \notin holds /\ items[w] > 0 /\ Waiting' = Waiting
      /\ items' = [items EXCEPT ![w] = @ - 1] /\ holds' = holds \cup {n}
  BY <1>1 DEF Dequeue, poolVars, ownVars, countVars, Waiting
<1>3. pc[w] = "perform"
  BY <1>1, <1>2 DEF Nodeful, Present, Runs
<1>4. Types'
  <2>1. items[w] - 1 \in Nat
    BY <1>2 DEF Types
  <2> QED
    BY <1>2, <2>1 DEF Types
<1>5. Places'
  BY <1>2 DEF Places
<1>6. ASSUME NEW v \in Workers PROVE Phase(v)' /\ Account(v)' /\ Drained(v)'
  <2>1. CASE v = w
    <3>1. HoldsOf(v)' = HoldsOf(v) \cup {n} /\ n \notin HoldsOf(v)
      BY <1>1, <1>2, <2>1 DEF HoldsOf
    <3>2. IsFiniteSet(HoldsOf(v)) /\ Cardinality(HoldsOf(v)) \in Nat
      BY HoldsFinite
    <3>3. Cardinality(HoldsOf(v)') = Cardinality(HoldsOf(v)) + 1
      BY <3>1, <3>2, FS_AddElement
    <3>4. items'[v] = items[v] - 1 /\ items[v] \in Nat /\ items[v] > 0
          /\ progress[v] \in Nat /\ total[v] \in Nat
      BY <1>2, <2>1 DEF Types
    <3>5. items[v] + Cardinality(HoldsOf(v)) + progress[v] = total[v]
      BY <1>3, <2>1 DEF Account
    <3>6. items'[v] + Cardinality(HoldsOf(v)') + progress[v] = total[v]
      <4>1. PICK i \in Nat : i = Cardinality(HoldsOf(v)) /\ Cardinality(HoldsOf(v)') = i + 1
        BY <3>2, <3>3
      <4> QED
        BY <3>4, <3>5, <4>1
    <3>7. Account(v)'
      BY <1>2, <3>6 DEF Account
    <3>8. Phase(v)'
      BY <1>2, <1>3, <2>1 DEF Phase
    <3>9. Drained(v)'
      BY <1>2, <1>3, <2>1, <3>4 DEF Drained
    <3> QED
      BY <3>7, <3>8, <3>9
  <2>2. CASE v # w
    <3>1. items'[v] = items[v] /\ HoldsOf(v)' = HoldsOf(v)
      BY <1>1, <1>2, <2>2 DEF Types, HoldsOf
    <3> QED
      BY <1>2, <3>1 DEF Phase, Account, Drained
  <2> QED
    BY <2>1, <2>2
<1>7. ASSUME NEW m \in Nodes PROVE Nodeful(m)'
  <2>1. m[1] \in Workers
    BY NodeMembers
  <2>2. /\ Present(m)' <=> Present(m)
        /\ Finished(m)' <=> Finished(m)
        /\ Runs(m)' <=> Runs(m)
    BY <1>2 DEF Present, Finished, Runs
  <2>3. items[m[1]] = 0 => items'[m[1]] = 0
    BY <1>2, <2>1 DEF Types
  <2> QED
    BY <1>2, <2>2, <2>3 DEF Nodeful
<1> QED
  BY <1>4, <1>5, <1>6, <1>7

\* The item is handled and counted.
LEMMA IncrementStep ==
  ASSUME Inv, NEW n \in Nodes, Increment(n)
  PROVE  Inv'
<1> USE DEF Inv
<1>1. PICK w \in Workers : w = n[1] /\ w = Master(n)
  BY NodeMembers
<1>2. /\ UNCHANGED <<build, pending, executing, completed, threads, joined, pc,
                     items, total, cores, list>>
      /\ n \in holds /\ Waiting' = Waiting /\ holds' = holds \ {n}
      /\ progress' = [progress EXCEPT ![w] = @ + 1]
  BY <1>1 DEF Increment, poolVars, ownVars, countVars, Waiting
<1>3. pc[w] = "perform"
  BY <1>1, <1>2 DEF Nodeful, Present, Runs
<1>4. Types'
  BY <1>2 DEF Types
<1>5. Places'
  BY <1>2 DEF Places
<1>6. ASSUME NEW v \in Workers PROVE Phase(v)' /\ Account(v)' /\ Drained(v)'
  <2>1. CASE v = w
    <3>1. HoldsOf(v)' = HoldsOf(v) \ {n} /\ n \in HoldsOf(v)
      BY <1>1, <1>2, <2>1 DEF HoldsOf
    <3>2. IsFiniteSet(HoldsOf(v)) /\ Cardinality(HoldsOf(v)) \in Nat
      BY HoldsFinite
    <3>3. Cardinality(HoldsOf(v)') = Cardinality(HoldsOf(v)) - 1
      BY <3>1, <3>2, FS_RemoveElement
    <3>4. progress'[v] = progress[v] + 1 /\ items[v] \in Nat
          /\ progress[v] \in Nat /\ total[v] \in Nat
      BY <1>2, <2>1 DEF Types
    <3>5. items[v] + Cardinality(HoldsOf(v)) + progress[v] = total[v]
      BY <1>3, <2>1 DEF Account
    <3>6. items[v] + Cardinality(HoldsOf(v)') + progress'[v] = total[v]
      <4>1. PICK i \in Nat : i = Cardinality(HoldsOf(v)) /\ Cardinality(HoldsOf(v)') = i - 1
        BY <3>2, <3>3
      <4> QED
        BY <3>4, <3>5, <4>1
    <3>7. Account(v)'
      BY <1>2, <3>6 DEF Account
    <3>8. Phase(v)'
      BY <1>2, <1>3, <2>1 DEF Phase
    <3>9. Drained(v)'
      BY <1>2, <1>3, <2>1 DEF Drained
    <3> QED
      BY <3>7, <3>8, <3>9
  <2>2. CASE v # w
    <3>1. progress'[v] = progress[v] /\ HoldsOf(v)' = HoldsOf(v)
      BY <1>1, <1>2, <2>2 DEF Types, HoldsOf
    <3> QED
      BY <1>2, <3>1 DEF Phase, Account, Drained
  <2> QED
    BY <2>1, <2>2
<1>7. \A m \in Nodes : Nodeful(m)'
  BY <1>2 DEF Nodeful, Present, Finished, Runs
<1> QED
  BY <1>4, <1>5, <1>6, <1>7

\* A node that found the queue empty ends.
LEMMA NodeEndsStep ==
  ASSUME Inv, NEW n \in Nodes, NodeEnds(n)
  PROVE  Inv'
<1> USE DEF Inv
<1>1. PICK w \in Workers : w = n[1] /\ w = Master(n)
  BY NodeMembers
<1>2. /\ UNCHANGED <<build, pc, items, holds, progress, total, cores, list>>
      /\ Runs(n) /\ n \notin holds /\ items[w] = 0
  BY <1>1 DEF NodeEnds, workVars, countVars
<1>3. /\ pending' = pending /\ Waiting' = Waiting
      /\ \/ /\ n \in executing /\ executing' = executing \ {n}
            /\ completed' = completed \cup {n} /\ threads' = threads /\ joined' = joined
         \/ /\ n \in threads /\ threads' = threads \ {n} /\ joined' = joined \cup {n}
            /\ executing' = executing /\ completed' = completed
  <2>1. CASE n \in executing /\ Pool!Complete(n) /\ UNCHANGED ownVars
    BY <2>1, CompleteStep DEF ownVars
  <2>2. CASE n \in threads /\ threads' = threads \ {n} /\ joined' = joined \cup {n}
             /\ UNCHANGED poolVars
    BY <2>2 DEF poolVars, Waiting
  <2> QED
    BY <2>1, <2>2 DEF NodeEnds
<1>4. pc[w] = "perform" /\ n[2] <= list[w]
  BY <1>1, <1>2 DEF Nodeful, Present, Runs
<1>5. Types'
  BY <1>2, <1>3 DEF Types
<1>6. Places'
  BY <1>2, <1>3 DEF Places, Types
<1>7. \A v \in Workers : Phase(v)' /\ Account(v)' /\ Drained(v)'
  <2>1. \A v \in Workers : v # n
    BY NodeMembers
  <2> QED
    BY <1>2, <1>3, <2>1 DEF Phase, Account, Drained, HoldsOf
<1>8. ASSUME NEW m \in Nodes PROVE Nodeful(m)'
  <2>1. CASE m = n
    <3>1. ~Present(m)' /\ m \notin holds'
      BY <1>2, <1>3, <2>1 DEF Present, Places, Types
    <3> QED
      BY <1>1, <1>2, <1>4, <2>1, <3>1 DEF Nodeful
  <2>2. CASE m # n
    <3>1. /\ Present(m)' <=> Present(m)
          /\ Finished(m)' <=> Finished(m)
          /\ Runs(m)' <=> Runs(m)
      BY <1>3, <2>2 DEF Present, Finished, Runs
    <3> QED
      BY <1>2, <3>1 DEF Nodeful
  <2> QED
    BY <2>1, <2>2
<1> QED
  BY <1>5, <1>6, <1>7, <1>8

\* Every step keeps the invariant.
LEMMA NextInv ==
  Inv /\ [Next]_vars => Inv'
<1> SUFFICES ASSUME Inv, [Next]_vars PROVE Inv'
  OBVIOUS
<1>1. CASE UNCHANGED vars
  <2> USE <1>1 DEF vars, poolVars, ownVars, workVars, countVars, Inv
  <2>1. Types' /\ Waiting' = Waiting
    BY DEF Types, Waiting
  <2>2. Places'
    BY <2>1 DEF Places
  <2>3. \A w \in Workers : Phase(w)' /\ Account(w)' /\ Drained(w)'
    BY DEF Phase, Account, Drained, HoldsOf
  <2>4. \A n \in Nodes : Nodeful(n)'
    BY <2>1 DEF Nodeful, Present, Finished, Runs
  <2> QED
    BY <2>1, <2>2, <2>3, <2>4
<1>2. ASSUME NEW w \in Workers, Start(w) \/ Invalid(w) \/ Enqueue(w) \/ Run(w)
      PROVE  Inv'
  BY <1>2, StartStep, InvalidStep, EnqueueStep, CountStep, StartNodeStep, WaitStep,
     StopStep DEF Run
<1>3. ASSUME NEW n \in Nodes, RunNode(n) PROVE Inv'
  BY <1>3, DequeueStep, IncrementStep, NodeEndsStep DEF RunNode
<1>4. ASSUME Take PROVE Inv'
  BY <1>4, TakeStep
<1> QED
  BY <1>1, <1>2, <1>3, <1>4 DEF Next

\* The invariant holds in every reachable state.
LEMMA Invariant ==
  Spec => []Inv
BY InitInv, NextInv, PTL DEF Spec

\* When worker::run calls the stop script every item is handled, each once, and
\* progress() is 100 percent, however the nodes share the items and in whatever
\* order threads take workers and nodes (worker.cpp run, perform in both builds).
THEOREM StopAfterAllHolds ==
  Spec => []StopAfterAll
<1>1. Inv => StopAfterAll
  <2> SUFFICES ASSUME Inv, NEW w \in Workers, pc[w] \in {"stop", "done"}
               PROVE  /\ items[w] = 0 /\ progress[w] = total[w]
                      /\ \A n \in NodesOf(w) : n \notin holds
    BY DEF StopAfterAll
  <2>1. items[w] = 0 /\ HoldsOf(w) = {} /\ progress[w] \in Nat
    BY DEF Inv, Drained, Types
  <2>2. Cardinality({}) = 0
    BY FS_EmptySet
  <2>3. progress[w] = total[w]
    BY <2>1, <2>2 DEF Inv, Account
  <2> QED
    BY <2>1, <2>3 DEF HoldsOf, NodesOf
<1> QED
  BY <1>1, Invariant, PTL

\* As long as a node waits for a thread or runs, the pool executes its worker
\* and has not deleted it: the raw pointer of the node is good (worker.cpp).
THEOREM MasterAliveHolds ==
  Spec => []MasterAlive
<1>1. Inv => MasterAlive
  <2> SUFFICES ASSUME Inv, NEW n \in Nodes, n \in Pool!Pending \/ Runs(n)
               PROVE  Master(n) \in executing
    BY DEF MasterAlive
  <2>1. Master(n) = n[1] /\ n[1] \in Workers
    BY NodeMembers
  <2>2. pc[n[1]] = "perform"
    BY PendingIsWaiting DEF Inv, Nodeful, Present, Runs
  <2> QED
    BY <2>1, <2>2 DEF Inv, Phase
<1> QED
  BY <1>1, Invariant, PTL
=============================================================================
