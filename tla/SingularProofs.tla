--------------------------- MODULE SingularProofs ---------------------------
(***************************************************************************)
(* Proof that the singular scheduler keeps its promise for every set of    *)
(* nodes, names and runners: nodes of one name exclude each other, and its *)
(* bookkeeping (Consistent, NameInUse) is right in every interleaving.     *)
(*                                                                         *)
(* MutualExclusion is not inductive: dequeue decides by runners(), so the  *)
(* invariant must tie runners() to the nodes in execution.  Closed does    *)
(* it in one direction (a name in execution is closed), which is enough;   *)
(* SameNames and OwnQueue let the name of a node be found again in         *)
(* runners() and in map.                                                   *)
(*                                                                         *)
(* Full strengthens that to the whole of Consistent: a closed name has a   *)
(* runner that executes it (OpenHas), every submitted node is in one place *)
(* (Found, Unheld, HeldApart), and the runners are counted exactly.        *)
(*                                                                         *)
(* The scheduled and the balanced scheduler have the same queues of names  *)
(* and follow in parts of their own, over the same lemmas.                 *)
(***************************************************************************)
EXTENDS Singular, FiniteSetTheorems, FunctionTheorems, SequenceTheorems,
        WellFoundedInduction, TLAPS

NodesOf(x) == {n \in started : name[n] = x}

Types ==
  /\ runner \in [Runners -> {"free", "queued", "loop", "node", "clean",
                             "post", "left"}]
  /\ current \in [Runners -> Nodes \cup {None}]
  /\ name \in [Nodes -> Names \cup {None}]
  /\ started \subseteq Nodes

\* map and runners() have the same names.
SameNames == DOMAIN runners = DOMAIN map

\* The queue of a name holds submitted nodes of that name.
OwnQueue == \A x \in DOMAIN map : map[x] \in Seq(NodesOf(x))

\* A runner in execution holds a submitted node, and the node's name is closed.
Closed ==
  \A r \in Runners : runner[r] = "node" =>
    /\ current[r] \in started
    /\ name[current[r]] \in DOMAIN runners
    /\ runners[name[current[r]]] = FALSE

\* Two runners in execution hold nodes of different names.
Apart ==
  \A r, s \in Runners :
    runner[r] = "node" /\ runner[s] = "node" /\ r # s
      => name[current[r]] # name[current[s]]

Inv == Types /\ SameNames /\ OwnQueue /\ Closed /\ Apart

-----------------------------------------------------------------------------

\* A set of numbers that is not empty has a least one.
LEMMA HasLeast ==
  ASSUME NEW S \in SUBSET Nat, S # {}
  PROVE  \E i \in S : \A j \in S : i <= j
<1> DEFINE Less == {ss \in Nat \X Nat : ss[1] < ss[2]}
<1>1. IsWellFoundedOn(Less, Nat)
  BY NatLessThanWellFounded, Zenon DEF OpToRel
<1>2. \A i, j \in Nat : <<j, i>> \in Less <=> j < i
  OBVIOUS
<1> HIDE DEF Less
<1>3. PICK i \in S : \A j \in S : ~(<<j, i>> \in Less)
  BY <1>1, WFMin
<1>4. ASSUME NEW j \in S  PROVE  i <= j
  <2>1. i \in Nat /\ j \in Nat
    OBVIOUS
  <2>2. ~(j < i)
    BY <1>2, <1>3, <2>1
  <2> QED
    BY <2>1, <2>2
<1> QED
  BY <1>4

\* The loops of dequeue take the least index of a set that is not empty.
LEMMA LeastIsMember ==
  ASSUME NEW S \in SUBSET (1..Len(vector)), S # {}
  PROVE  (CHOOSE i \in S : \A j \in S : i <= j) \in S
<1>1. \E i \in S : \A j \in S : i <= j
  BY HasLeast
<1> QED
  BY <1>1

\* Whatever name dequeue stops at, other than "no name", is open.
LEMMA ChosenIsOpen ==
  ASSUME Chosen # Empty
  PROVE  Chosen \in DOMAIN runners /\ runners[Chosen]
<1> DEFINE inFirst(i) == position + i <= Len(vector)
           first == {i \in Runnable : inFirst(i)}
           second == {i \in Runnable : ~inFirst(i)}
           Index(S) == CHOOSE i \in S : \A j \in S : i <= j
<1>1. Runnable \subseteq 1..Len(vector)
  BY DEF Runnable
<1>2. first # {} => Index(first) \in Runnable
  BY <1>1, LeastIsMember
<1>3. second # {} => Index(second) \in Runnable
  BY <1>1, LeastIsMember
<1>4. \A i \in Runnable : Visit[i] \in DOMAIN runners /\ runners[Visit[i]]
  BY DEF Runnable, MayRun
<1>5. \/ first # {} /\ Chosen = Visit[Index(first)]
      \/ second # {} /\ Chosen = Visit[Index(second)]
  BY DEF Chosen
<1> HIDE DEF first, second, Index
<1> QED
  BY <1>2, <1>3, <1>4, <1>5
-----------------------------------------------------------------------------

\* A queue of nodes of one set is a queue of nodes of any larger set.
LEMMA QueueOfLargerSet ==
  ASSUME NEW S, NEW T, S \subseteq T, NEW q \in Seq(S)
  PROVE  q \in Seq(T)
OBVIOUS

\* Starting a runner, or not, leaves every runner that executes a node alone
\* and brings no runner into execution.
LEMMA SpawnKeepsExecution ==
  ASSUME Types, NEW condition, SpawnIf(condition)
  PROVE  /\ runner' \in [Runners -> {"free", "queued", "loop", "node", "clean",
                                     "post", "left"}]
         /\ \A r \in Runners : runner'[r] = "node" <=> runner[r] = "node"
<1>1. CASE condition
  <2> DEFINE f == CHOOSE r \in FreeRunners : TRUE
  <2>1. f \in FreeRunners
    BY <1>1 DEF SpawnIf
  <2>2. f \in Runners /\ runner[f] = "free"
    BY <2>1 DEF FreeRunners
  <2>3. runner' = [runner EXCEPT ![f] = "queued"]
    BY <1>1 DEF SpawnIf
  <2> HIDE DEF f
  <2> QED
    BY <2>2, <2>3 DEF Types
<1>2. CASE ~condition
  BY <1>2 DEF SpawnIf, Types
<1> QED
  BY <1>1, <1>2

\* Submitting a node, with or without a new runner.
LEMMA PushKeepsInv ==
  ASSUME Inv, NEW n \in Nodes, NEW x \in Names, PushNode(n, x),
         NEW condition, SpawnIf(condition)
  PROVE  Inv'
<1> USE DEF Inv, PushNode, Push
<1>0. n \notin started
  BY DEF IsNext
<1>1. /\ runner' \in [Runners -> {"free", "queued", "loop", "node", "clean",
                                  "post", "left"}]
      /\ \A r \in Runners : runner'[r] = "node" <=> runner[r] = "node"
  BY SpawnKeepsExecution
<1>2. Types'
  BY <1>1 DEF Types
<1>3. \A m \in started : m \in started' /\ name'[m] = name[m]
  BY <1>0 DEF Types
<1>4. name'[n] = x /\ n \in started'
  BY DEF Types
<1>5. SameNames'
  BY DEF SameNames, Put
<1>6. OwnQueue'
  <2> SUFFICES ASSUME NEW y \in DOMAIN map'
               PROVE  map'[y] \in Seq(NodesOf(y)')
    BY DEF OwnQueue
  <2>1. NodesOf(y) \subseteq NodesOf(y)'
    BY <1>3 DEF NodesOf
  <2>2. CASE y = x
    <3>1. QueueOf(x) \in Seq(NodesOf(x)')
      BY <2>1, <2>2, QueueOfLargerSet DEF OwnQueue, QueueOf
    <3>2. n \in NodesOf(x)'
      BY <1>4 DEF NodesOf
    <3>3. map'[y] = Append(QueueOf(x), n)
      BY <2>2 DEF Put
    <3> QED
      BY <2>2, <3>1, <3>2, <3>3
  <2>3. CASE y # x
    <3>1. y \in DOMAIN map /\ map'[y] = map[y]
      BY <2>3 DEF Put
    <3> QED
      BY <2>1, <3>1, QueueOfLargerSet DEF OwnQueue
  <2> QED
    BY <2>2, <2>3
<1>7. ASSUME NEW r \in Runners, runner'[r] = "node"
      PROVE  /\ runner[r] = "node"
             /\ current'[r] = current[r]
             /\ current[r] \in started
             /\ name'[current[r]] = name[current[r]]
  BY <1>1, <1>3, <1>7 DEF Closed
<1>8. Closed'
  <2> SUFFICES ASSUME NEW r \in Runners, runner'[r] = "node"
               PROVE  /\ current'[r] \in started'
                      /\ name'[current'[r]] \in DOMAIN runners'
                      /\ runners'[name'[current'[r]]] = FALSE
    BY DEF Closed
  <2>1. name[current[r]] \in DOMAIN runners /\ runners[name[current[r]]] = FALSE
    BY <1>7 DEF Closed
  <2>2. /\ name[current[r]] \in DOMAIN runners'
        /\ runners'[name[current[r]]] = runners[name[current[r]]]
    BY <2>1 DEF Put, SameNames
  <2> QED
    BY <1>3, <1>7, <2>1, <2>2
<1>9. Apart'
  BY <1>7 DEF Apart
<1> QED
  BY <1>2, <1>5, <1>6, <1>8, <1>9

\* Taking a node: its name was open, so no runner executes a node of it.
LEMMA DequeueKeepsInv ==
  ASSUME Inv, NEW r \in Runners, DequeueName(r)
  PROVE  Inv'
<1> DEFINE n == Head(QueueOf(Chosen))
<1> USE DEF Inv, DequeueName, TakeNode
<1>1. Chosen \in DOMAIN runners /\ runners[Chosen]
  BY ChosenIsOpen
<1>2. /\ Chosen \in DOMAIN map
      /\ QueueOf(Chosen) = map[Chosen]
      /\ map[Chosen] \in Seq(NodesOf(Chosen))
  BY <1>1 DEF SameNames, OwnQueue, QueueOf
<1>3. n \in NodesOf(Chosen) /\ Tail(QueueOf(Chosen)) \in Seq(NodesOf(Chosen))
  BY <1>2
<1>4. n \in started /\ name[n] = Chosen
  BY <1>3 DEF NodesOf
<1>5. \A s \in Runners : runner[s] = "node" => name[current[s]] # Chosen
  BY <1>1 DEF Closed
<1> HIDE DEF n
<1>6. /\ runner' = [runner EXCEPT ![r] = "node"]
      /\ current' = [current EXCEPT ![r] = n]
      /\ started' = started /\ name' = name
      /\ runners' = Put(runners, Chosen, FALSE)
      /\ map' = Put(map, Chosen, Tail(QueueOf(Chosen)))
  BY DEF n
<1>7. Types'
  BY <1>4, <1>6 DEF Types
<1>8. SameNames'
  BY <1>6 DEF SameNames, Put
<1>9. OwnQueue'
  BY <1>2, <1>3, <1>6 DEF OwnQueue, Put, NodesOf
<1>10. \A s \in Runners : runner'[s] = "node" =>
         IF s = r THEN current'[s] = n
                  ELSE current'[s] = current[s] /\ runner[s] = "node"
  BY <1>6 DEF Types
<1>11. Closed'
  BY <1>4, <1>5, <1>6, <1>10 DEF Closed, Put
<1>12. Apart'
  BY <1>4, <1>5, <1>6, <1>10 DEF Apart
<1> QED
  BY <1>7, <1>8, <1>9, <1>11, <1>12

\* The end of a node: only its own name is opened or removed.
LEMMA ReturnKeepsInv ==
  ASSUME Inv, NEW r \in Runners, RunNode(r)
  PROVE  Inv'
<1> DEFINE x == name[current[r]]
<1> USE DEF Inv
<1>1. /\ runner[r] = "node"
      /\ runner' = [runner EXCEPT ![r] = "post"]
      /\ current' = current /\ started' = started /\ name' = name
  BY DEF RunNode, NodeReturns
<1>2. \/ map' = Drop(map, {x}) /\ runners' = Drop(runners, {x})
      \/ map' = map /\ runners' = Put(runners, x, TRUE)
  BY DEF RunNode
<1>3. x \in DOMAIN runners
  BY <1>1 DEF Closed
<1>4. \A s \in Runners : runner'[s] = "node" =>
        s # r /\ runner[s] = "node" /\ name[current[s]] # x
  BY <1>1 DEF Types, Apart
<1> HIDE DEF x
<1>5. Types'
  BY <1>1 DEF Types
<1>6. SameNames'
  BY <1>2, <1>3 DEF SameNames, Put, Drop
<1>7. OwnQueue'
  BY <1>1, <1>2 DEF OwnQueue, NodesOf, Drop
<1>8. Closed'
  BY <1>1, <1>2, <1>4 DEF Closed, Put, Drop
<1>9. Apart'
  BY <1>1, <1>4 DEF Apart
<1> QED
  BY <1>5, <1>6, <1>7, <1>8, <1>9

\* A step that changes no name, queue or runners() entry, submits nothing and
\* lets a runner change only outside the execution of a node.
LEMMA IdleKeepsInv ==
  ASSUME Inv, Types', UNCHANGED <<name, map, runners, started>>,
         \A s \in Runners : runner'[s] = "node" =>
           runner[s] = "node" /\ current'[s] = current[s]
  PROVE  Inv'
<1>1. SameNames' /\ OwnQueue'
  BY DEF Inv, SameNames, OwnQueue, NodesOf
<1>2. Closed' /\ Apart'
  BY DEF Inv, Closed, Apart
<1> QED
  BY <1>1, <1>2 DEF Inv

-----------------------------------------------------------------------------

\* Every step of the scheduler, in any interleaving of clients and runners,
\* keeps the invariant.
LEMMA InvInductive ==
  ASSUME Inv, [Next]_vars
  PROVE  Inv'
<1>1. ASSUME NEW n \in Nodes, NEW x \in Names,
             Start(n, x) \/ Emplace(n, x) \/ Place(n, x)
      PROVE  Inv'
  <2>1. CASE Start(n, x)
    BY <2>1, PushKeepsInv DEF Start, SpawnCounted
  <2>2. CASE Emplace(n, x)
    BY <2>2, PushKeepsInv DEF Emplace, SpawnCounted
  <2>3. CASE Place(n, x)
    BY <2>3, PushKeepsInv DEF Place, SpawnCounted
  <2> QED
    BY <1>1, <2>1, <2>2, <2>3
<1>2. ASSUME NEW r \in Runners, Begin(r), UNCHANGED runners
      PROVE  Inv'
  BY <1>2, IdleKeepsInv DEF Begin, BeginRunner, queueVars, Inv, Types
<1>3. ASSUME NEW r \in Runners, DequeueSurplus(r)
      PROVE  Inv'
  BY <1>3, IdleKeepsInv DEF DequeueSurplus, Dismiss, Inv, Types
<1>4. ASSUME NEW r \in Runners, DequeueNothing(r)
      PROVE  Inv'
  BY <1>4, IdleKeepsInv DEF DequeueNothing, Dismiss, Inv, Types
<1>5. ASSUME NEW r \in Runners, Erase(r)
      PROVE  Inv'
  BY <1>5, IdleKeepsInv DEF Erase, NextRound, Inv, Types
<1>6. ASSUME NEW m \in MaxValues, SetMax(m), UNCHANGED runners
      PROVE  Inv'
  BY <1>6, IdleKeepsInv DEF SetMax, SetSchedulerMax, queueVars, Inv, Types
<1>7. CASE UNCHANGED vars
  BY <1>7, IdleKeepsInv DEF vars, runnerVars, queueVars, Inv, Types
<1> QED
  BY <1>1, <1>2, <1>3, <1>4, <1>5, <1>6, <1>7, DequeueKeepsInv, ReturnKeepsInv
     DEF Next, Run

\* singular.cpp keeps its promise for every number of nodes, names, runners
\* and every max: two nodes of one name are never executed at a time.
THEOREM MutualExclusionHolds == Spec => []MutualExclusion
<1>1. Init => Inv
  BY DEF Init, QueuesInit, RunnersInit, Inv, Types, SameNames, OwnQueue,
         Closed, Apart
<1>2. Inv /\ [Next]_vars => Inv'
  BY InvInductive
<1>3. Inv => MutualExclusion
  BY DEF Inv, Apart, Executing, MutualExclusion
<1> QED
  BY <1>1, <1>2, <1>3, PTL DEF Spec

-----------------------------------------------------------------------------
(* Sequences without repetitions.                                          *)

OnceEach(s) == \A i, j \in 1..Len(s) : s[i] = s[j] => i = j

\* An element put to the end.
IsAppend(r, s, d) == r = Append(s, d)

\* What Append does to a sequence without repetitions.
LEMMA SeqAppend ==
  ASSUME NEW T, NEW s \in Seq(T), NEW d \in T, NEW r, IsAppend(r, s, d)
  PROVE  /\ r \in Seq(T) /\ Len(r) = Len(s) + 1 /\ ToSet(r) = ToSet(s) \cup {d}
         /\ (OnceEach(s) /\ d \notin ToSet(s)) => OnceEach(r)
<1>1. /\ r \in Seq(T) /\ Len(s) \in Nat /\ Len(r) = Len(s) + 1
      /\ r[Len(s) + 1] = d /\ \A i \in 1..Len(s) : r[i] = s[i]
  BY AppendProperties DEF IsAppend
<1>2. DOMAIN s = 1..Len(s) /\ DOMAIN r = 1..(Len(s) + 1)
  BY <1>1, LenProperties
<1>3. ToSet(r) = ToSet(s) \cup {d}
  BY <1>1, <1>2 DEF ToSet
<1>4. ASSUME OnceEach(s), d \notin ToSet(s) PROVE OnceEach(r)
  <2>1. \A i \in 1..Len(s) : s[i] # d
    BY <1>2, <1>4 DEF ToSet
  <2> QED
    BY <1>1, <1>4, <2>1 DEF OnceEach
<1> QED
  BY <1>1, <1>3, <1>4

\* The front taken away.
IsTail(r, s) == r = Tail(s)

\* What Tail does to a sequence without repetitions.
LEMMA SeqTail ==
  ASSUME NEW T, NEW s \in Seq(T), s # <<>>, OnceEach(s), NEW r, IsTail(r, s)
  PROVE  /\ Head(s) \in T /\ Head(s) \in ToSet(s) /\ r \in Seq(T)
         /\ ToSet(r) = ToSet(s) \ {Head(s)} /\ OnceEach(r)
<1>1. /\ Head(s) \in T /\ r \in Seq(T) /\ Head(s) = s[1]
      /\ Len(s) \in Nat \ {0} /\ Len(r) = Len(s) - 1
      /\ \A i \in 1..Len(r) : r[i] = s[i + 1]
      /\ DOMAIN s = 1..Len(s) /\ DOMAIN r = 1..Len(r)
  BY HeadTailProperties, EmptySeq, LenProperties DEF IsTail
<1>2. Head(s) \in ToSet(s)
  BY <1>1 DEF ToSet
<1>3. OnceEach(r)
  BY <1>1 DEF OnceEach
<1>4. ASSUME NEW n \in ToSet(r) PROVE n \in ToSet(s) \ {Head(s)}
  <2>1. PICK i \in 1..Len(r) : n = s[i + 1]
    BY <1>1 DEF ToSet
  <2>2. i + 1 \in 1..Len(s) /\ i + 1 # 1
    BY <1>1
  <2>3. PICK j \in 1..Len(s) : n = s[j] /\ j # 1
    BY <2>1, <2>2
  <2>4. s[j] # s[1]
    BY <1>1, <2>3 DEF OnceEach
  <2> QED
    BY <1>1, <2>3, <2>4 DEF ToSet
<1>5. ASSUME NEW n \in ToSet(s) \ {Head(s)} PROVE n \in ToSet(r)
  <2>1. PICK i \in 1..Len(s) : n = s[i]
    BY <1>1 DEF ToSet
  <2>2. i - 1 \in 1..Len(r) /\ (i - 1) + 1 = i
    BY <1>1, <1>5, <2>1
  <2>3. r[i - 1] = n
    BY <1>1, <2>1, <2>2
  <2> QED
    BY <1>1, <2>2, <2>3 DEF ToSet
<1> QED
  BY <1>1, <1>2, <1>3, <1>4, <1>5

\* As many elements as places.
LEMMA SeqCount ==
  ASSUME NEW T, NEW s \in Seq(T), OnceEach(s)
  PROVE  IsFiniteSet(ToSet(s)) /\ Cardinality(ToSet(s)) = Len(s)
<1>1. Len(s) \in Nat /\ DOMAIN s = 1..Len(s) /\ \A i \in 1..Len(s) : s[i] \in ToSet(s)
  BY LenProperties DEF ToSet
<1>2. PICK f \in [1..Len(s) -> ToSet(s)] : \A i \in 1..Len(s) : f[i] = s[i]
  <2>1. [i \in 1..Len(s) |-> s[i]] \in [1..Len(s) -> ToSet(s)]
    BY <1>1
  <2> QED
    BY <2>1
<1>3. f \in Bijection(1..Len(s), ToSet(s))
  BY <1>1, <1>2 DEF Bijection, Injection, Surjection, IsInjective, OnceEach, ToSet
<1>4. IsFiniteSet(1..Len(s)) /\ Cardinality(1..Len(s)) = Len(s)
  <2>1. PICK l \in Nat : l = Len(s)
    BY <1>1
  <2>2. IsFiniteSet(1..l) /\ Cardinality(1..l) = IF 1 <= l THEN l - 1 + 1 ELSE 0
    BY FS_Interval
  <2>3. (IF 1 <= l THEN l - 1 + 1 ELSE 0) = l
    OBVIOUS
  <2> QED
    BY <2>1, <2>2, <2>3
<1> QED
  BY <1>3, <1>4, FS_Bijection DEF ExistsBijection

\* One element taken out of the middle: std::find and erase.
LEMMA SeqRemove ==
  ASSUME NEW T, NEW s \in Seq(T), OnceEach(s), NEW x \in ToSet(s),
         NEW r, r = RemoveFirst(s, x)
  PROVE  /\ r \in Seq(T) /\ Len(r) = Len(s) - 1
         /\ ToSet(r) = ToSet(s) \ {x} /\ OnceEach(r)
<1>1. Len(s) \in Nat /\ DOMAIN s = 1..Len(s)
  BY LenProperties
<1>2. PICK k \in 1..Len(s) : s[k] = x
  BY <1>1 DEF ToSet
<1>3. {i \in 1..Len(s) : s[i] = x} = {k}
  BY <1>2 DEF OnceEach
<1>4. Min({k}) = k
  BY <1>1, <1>2 DEF Min
<1>5. r = SubSeq(s, 1, k - 1) \o SubSeq(s, k + 1, Len(s))
  BY <1>2, <1>3, <1>4 DEF RemoveFirst, RemoveAt, SelectInSeq
<1>6. PICK a : /\ a = SubSeq(s, 1, k - 1) /\ a \in Seq(T) /\ Len(a) = k - 1
               /\ \A i \in 1..(k - 1) : a[i] = s[i]
  <2> DEFINE c == SubSeq(s, 1, k - 1)
  <2>1. 1 \in Int /\ k - 1 \in Int /\ \A i \in 1..(k - 1) : s[i] \in T
    BY <1>1, <1>2
  <2>2. /\ c \in Seq(T) /\ Len(c) = IF 1 <= k - 1 THEN (k - 1) - 1 + 1 ELSE 0
        /\ \A i \in 1..((k - 1) - 1 + 1) : c[i] = s[1 + i - 1]
    BY <2>1, SubSeqProperties
  <2> HIDE DEF c
  <2>3. Len(c) = k - 1 /\ \A i \in 1..(k - 1) : c[i] = s[i]
    BY <1>2, <2>2
  <2> QED
    BY <2>2, <2>3 DEF c
<1>7. PICK b : /\ b = SubSeq(s, k + 1, Len(s)) /\ b \in Seq(T) /\ Len(b) = Len(s) - k
               /\ \A i \in 1..(Len(s) - k) : b[i] = s[k + i]
  <2> DEFINE c == SubSeq(s, k + 1, Len(s))
  <2>1. k + 1 \in Int /\ Len(s) \in Int /\ \A i \in (k + 1)..Len(s) : s[i] \in T
    BY <1>1, <1>2
  <2>2. /\ c \in Seq(T)
        /\ Len(c) = IF k + 1 <= Len(s) THEN Len(s) - (k + 1) + 1 ELSE 0
        /\ \A i \in 1..(Len(s) - (k + 1) + 1) : c[i] = s[(k + 1) + i - 1]
    BY <2>1, SubSeqProperties
  <2> HIDE DEF c
  <2>3. PICK l \in Nat : l = Len(s) /\ k \in 1..l
    BY <1>1, <1>2
  <2>4. Len(c) = l - k
    BY <2>2, <2>3
  <2>5. ASSUME NEW i \in 1..(l - k) PROVE c[i] = s[k + i]
    <3>1. i \in 1..(l - (k + 1) + 1) /\ (k + 1) + i - 1 = k + i
      BY <2>3
    <3> QED
      BY <2>2, <2>3, <3>1
  <2> QED
    BY <2>2, <2>3, <2>4, <2>5 DEF c
<1>8. r = a \o b
  BY <1>5, <1>6, <1>7
<1>9. /\ r \in Seq(T) /\ Len(r) = Len(a) + Len(b)
      /\ \A i \in 1..(Len(a) + Len(b)) :
           r[i] = IF i <= Len(a) THEN a[i] ELSE b[i - Len(a)]
  <2>1. a \in Seq(T) /\ b \in Seq(T)
    BY <1>6, <1>7
  <2>2. /\ (a \o b) \in Seq(T) /\ Len(a \o b) = Len(a) + Len(b)
        /\ \A i \in 1..(Len(a) + Len(b)) :
             (a \o b)[i] = IF i <= Len(a) THEN a[i] ELSE b[i - Len(a)]
    BY <2>1, ConcatProperties
  <2> QED
    BY <1>8, <2>2
<1>10. Len(r) = Len(s) - 1
  <2>1. PICK l \in Nat : l = Len(s) /\ k \in 1..l
    BY <1>1, <1>2
  <2>2. (k - 1) + (l - k) = l - 1
    BY <2>1
  <2> QED
    BY <1>6, <1>7, <1>9, <2>1, <2>2
<1>11. ASSUME NEW i \in 1..Len(r) PROVE r[i] = IF i < k THEN s[i] ELSE s[i + 1]
  <2>1. CASE i < k
    <3>1. i \in 1..(k - 1) /\ i <= Len(a) /\ i \in 1..(Len(a) + Len(b))
      BY <1>1, <1>2, <1>6, <1>9, <2>1
    <3> QED
      BY <1>6, <1>9, <2>1, <3>1
  <2>2. CASE ~(i < k)
    <3>1. /\ i - (k - 1) \in 1..(Len(s) - k) /\ k + (i - (k - 1)) = i + 1
          /\ ~(i <= Len(a)) /\ i \in 1..(Len(a) + Len(b))
      BY <1>1, <1>2, <1>6, <1>9, <1>10, <2>2
    <3>2. r[i] = b[i - (k - 1)]
      BY <1>6, <1>9, <3>1
    <3>3. b[i - (k - 1)] = s[k + (i - (k - 1))]
      BY <1>7, <3>1
    <3> QED
      BY <2>2, <3>1, <3>2, <3>3
  <2> QED
    BY <2>1, <2>2
<1>12. DOMAIN r = 1..Len(r)
  BY <1>9, LenProperties
<1>13. OnceEach(r)
  <2> SUFFICES ASSUME NEW i \in 1..Len(r), NEW j \in 1..Len(r), r[i] = r[j]
               PROVE  i = j
    BY DEF OnceEach
  <2>1. PICK l \in Nat : l = Len(s) /\ k \in 1..l
    BY <1>1, <1>2
  <2>2. i \in 1..(l - 1) /\ j \in 1..(l - 1)
    BY <1>10, <2>1
  <2>3. PICK u \in 1..l : u = IF i < k THEN i ELSE i + 1
    BY <2>1, <2>2
  <2>4. PICK v \in 1..l : v = IF j < k THEN j ELSE j + 1
    BY <2>1, <2>2
  <2>5. s[u] = s[v]
    BY <1>11, <2>3, <2>4
  <2>6. u = v
    BY <2>1, <2>5 DEF OnceEach
  <2> QED
    BY <2>1, <2>2, <2>3, <2>4, <2>6
<1>14. ASSUME NEW y \in ToSet(r) PROVE y \in ToSet(s) \ {x}
  <2>1. PICK i \in 1..Len(r) : y = r[i]
    BY <1>12 DEF ToSet
  <2>2. PICK j \in 1..Len(s) : y = s[j] /\ j # k
    BY <1>1, <1>2, <1>10, <1>11, <2>1
  <2> QED
    BY <1>1, <1>2, <2>2 DEF ToSet, OnceEach
<1>15. ASSUME NEW y \in ToSet(s) \ {x} PROVE y \in ToSet(r)
  <2>1. PICK j \in 1..Len(s) : y = s[j] /\ j # k
    BY <1>1, <1>2, <1>15 DEF ToSet
  <2>2. PICK i \in 1..Len(r) : j = (IF i < k THEN i ELSE i + 1)
    <3>1. CASE j < k
      BY <1>1, <1>2, <1>10, <2>1, <3>1
    <3>2. CASE ~(j < k)
      <4>1. j - 1 \in 1..Len(r) /\ j = (IF j - 1 < k THEN j - 1 ELSE (j - 1) + 1)
        BY <1>1, <1>2, <1>10, <2>1, <3>2
      <4> QED
        BY <4>1
    <3> QED
      BY <3>1, <3>2
  <2> QED
    BY <1>11, <1>12, <2>1, <2>2 DEF ToSet
<1> QED
  BY <1>9, <1>10, <1>13, <1>14, <1>15

-----------------------------------------------------------------------------
(* The whole of Consistent, and NameInUse.                                 *)

\* The vector and every queue hold nothing twice, and the vector has the names
\* of the map.
Tidy ==
  /\ OnceEach(vector) /\ ToSet(vector) = DOMAIN map
  /\ \A x \in DOMAIN map : OnceEach(map[x])

\* A queued node is unfinished and no runner holds it.
Unheld ==
  \A x \in DOMAIN map : \A n \in ToSet(map[x]) :
    ~finished[n] /\ \A r \in Runners : current[r] # n

\* Only a runner between dequeue and the end of its round holds a node, each
\* its own, and a node in execution is unfinished.
HeldApart ==
  /\ \A r \in Runners : current[r] # None =>
       /\ runner[r] \in {"node", "post"} /\ current[r] \in started
       /\ \A s \in Runners : current[s] = current[r] => s = r
  /\ \A r \in Runners : runner[r] = "node" => ~finished[current[r]]

\* Runner r executes a node of name x.
Executes(r, x) == runner[r] = "node" /\ name[current[r]] = x

\* A submitted node has a name and is finished, in execution or in the queue
\* of its name; only submitted nodes finish.
Found ==
  /\ \A n \in started :
       /\ name[n] \in Names
       /\ \/ finished[n]
          \/ \E r \in Runners : runner[r] = "node" /\ current[r] = n
          \/ name[n] \in DOMAIN map /\ n \in ToSet(map[name[n]])
  /\ \A n \in Nodes : finished[n] => n \in started

\* A name is in use by a runner, or it is open and has a node to give.
OpenHas ==
  \A x \in DOMAIN runners :
    \/ \E r \in Runners : Executes(r, x)
    \/ runners[x] /\ map[x] # <<>>

Full ==
  /\ Inv /\ TypeOK /\ CountsLookers /\ Tidy /\ Unheld /\ HeldApart /\ Found
  /\ OpenHas /\ PositionInRange
  /\ NoEmptyName => NobodyStranded

-----------------------------------------------------------------------------
(* Counting runners.                                                       *)

\* How many runners a set has, and how that changes by one runner.
LEMMA RunnersCount ==
  ASSUME NEW S \in SUBSET Runners
  PROVE  /\ Cardinality(S) \in 0..Cardinality(Runners)
         /\ Cardinality(S) = 0 <=> S = {}
         /\ \A r \in Runners \ S : Cardinality(S \cup {r}) = Cardinality(S) + 1
         /\ \A r \in S : Cardinality(S \ {r}) = Cardinality(S) - 1
<1>1. IsFiniteSet(Runners) /\ IsFiniteSet(S)
  BY RunnersAssumption, FS_Subset
<1>2. Cardinality(S) \in Nat /\ Cardinality(Runners) \in Nat
  BY <1>1, FS_CardinalityType
<1>3. Cardinality(S) <= Cardinality(Runners)
  BY <1>1, FS_Subset
<1>4. Cardinality(S) = 0 <=> S = {}
  BY <1>1, FS_EmptySet
<1>5. \A r \in Runners \ S : Cardinality(S \cup {r}) = Cardinality(S) + 1
  BY <1>1, FS_AddElement
<1>6. \A r \in S : Cardinality(S \ {r}) = Cardinality(S) - 1
  BY <1>1, FS_RemoveElement
<1>7. Cardinality(S) \in 0..Cardinality(Runners)
  <2>1. PICK i \in Nat, j \in Nat : i = Cardinality(S) /\ j = Cardinality(Runners)
    BY <1>2
  <2> QED
    BY <1>3, <2>1
<1> QED
  BY <1>4, <1>5, <1>6, <1>7

\* What the scheduler's counter must be for Consistent.
Counting == CountsLookers /\ actives \in 0..Cardinality(Runners)

\* A counter of at least one means that somebody will call dequeue.
LEMMA SomebodyCounted ==
  ASSUME NEW S \in SUBSET Runners, NEW c \in Int, c = Cardinality(S), c >= 1
  PROVE  S # {}
<1>1. Cardinality(S) # 0
  OBVIOUS
<1> QED
  BY <1>1, RunnersCount

\* The runner core::start gets is counted in; nobody else changes.
LEMMA SpawnStep ==
  ASSUME Types, Counting, NEW condition, SpawnCounted(condition)
  PROVE  /\ Counting'
         /\ IF condition THEN actives' >= 1 ELSE actives' = actives
         /\ \A r \in Runners : \/ runner'[r] = runner[r]
                               \/ runner[r] = "free" /\ runner'[r] = "queued"
<1>1. CASE condition
  <2>1. PICK f \in Runners : /\ runner[f] = "free"
                             /\ runner' = [runner EXCEPT ![f] = "queued"]
    <3>1. FreeRunners # {} /\
          runner' = [runner EXCEPT ![CHOOSE r \in FreeRunners : TRUE] = "queued"]
      BY <1>1 DEF SpawnCounted, SpawnIf
    <3>2. (CHOOSE r \in FreeRunners : TRUE) \in FreeRunners
      BY <3>1
    <3> QED
      BY <3>1, <3>2 DEF FreeRunners
  <2>2. \A r \in Runners : runner'[r] = IF r = f THEN "queued" ELSE runner[r]
    BY <2>1 DEF Types
  <2>3. Looking' = Looking \cup {f} /\ f \notin Looking /\ Looking \in SUBSET Runners
    BY <2>1, <2>2 DEF Looking
  <2>4. Cardinality(Looking') = Cardinality(Looking) + 1
    BY <2>3, RunnersCount
  <2>5. Looking' \in SUBSET Runners
    BY <2>3
  <2>6. Cardinality(Looking') \in 0..Cardinality(Runners)
    BY <2>5, RunnersCount
  <2>7. actives' = actives + 1 /\ actives \in Nat
    BY <1>1, <2>3, RunnersCount DEF SpawnCounted, Counting
  <2> QED
    BY <1>1, <2>1, <2>2, <2>4, <2>6, <2>7 DEF Counting, CountsLookers
<1>2. CASE ~condition
  <2>1. runner' = runner /\ actives' = actives
    BY <1>2 DEF SpawnCounted, SpawnIf
  <2> QED
    BY <1>2, <2>1 DEF Counting, CountsLookers, Looking
<1> QED
  BY <1>1, <1>2

\* A runner that dequeue dismisses is counted out.
LEMMA DismissStep ==
  ASSUME Types, Counting, NEW r \in Runners, runner[r] = "loop", Dismiss(r)
  PROVE  /\ Counting' /\ actives' = actives - 1 /\ runner'[r] = "free"
         /\ \A s \in Runners \ {r} : runner'[s] = runner[s]
<1>1. \A s \in Runners : runner'[s] = IF s = r THEN "free" ELSE runner[s]
  BY DEF Dismiss, Types
<1>2. Looking' = Looking \ {r} /\ r \in Looking /\ Looking \in SUBSET Runners
  BY <1>1 DEF Looking
<1>3. Cardinality(Looking') = Cardinality(Looking) - 1
  BY <1>2, RunnersCount
<1>4. Looking' \in SUBSET Runners
  BY <1>2
<1>5. Cardinality(Looking') \in 0..Cardinality(Runners)
  BY <1>4, RunnersCount
<1> QED
  BY <1>1, <1>3, <1>5 DEF Counting, CountsLookers, Dismiss

\* A step from one state of a runner that counts to another.
LEMMA MoveStep ==
  ASSUME Types, Counting, actives' = actives, NEW r \in Runners,
         runner[r] \in {"queued", "loop", "node", "clean", "post"},
         runner'[r] \in {"queued", "loop", "node", "clean", "post"},
         \A s \in Runners \ {r} : runner'[s] = runner[s]
  PROVE  Counting' /\ Looking' = Looking /\ r \in Looking
<1>1. Looking' = Looking /\ r \in Looking
  BY DEF Looking
<1> QED
  BY <1>1 DEF Counting, CountsLookers

-----------------------------------------------------------------------------
(* Submitting a node.                                                      *)

\* The queue of a name, present in the map or not.
LEMMA QueueFacts ==
  ASSUME QueuesTypeOK, Tidy, OwnQueue, NEW x \in Names
  PROVE  /\ QueueOf(x) \in Seq(Nodes) /\ OnceEach(QueueOf(x))
         /\ ToSet(QueueOf(x)) \subseteq started
<1>1. CASE x \in DOMAIN map
  <2>1. QueueOf(x) = map[x] /\ map[x] \in Seq(Nodes) /\ OnceEach(map[x])
    BY <1>1 DEF QueuesTypeOK, Tidy, QueueOf
  <2>2. map[x] \in Seq(started)
    <3>1. map[x] \in Seq(NodesOf(x)) /\ NodesOf(x) \subseteq started
      BY <1>1 DEF OwnQueue, NodesOf
    <3> QED
      BY <3>1, QueueOfLargerSet
  <2>3. \A i \in DOMAIN map[x] : map[x][i] \in started
    BY <2>2, ElementOfSeq, LenProperties
  <2> QED
    BY <2>1, <2>3 DEF ToSet
<1>2. CASE x \notin DOMAIN map
  <2>1. QueueOf(x) = <<>> /\ <<>> \in Seq(Nodes) /\ Len(<<>>) = 0
    BY <1>2 DEF QueueOf
  <2> QED
    BY <2>1 DEF OnceEach, ToSet
<1> QED
  BY <1>1, <1>2

\* What push does to the queues.
LEMMA PushQueues ==
  ASSUME QueuesTypeOK, Tidy, OwnQueue, NEW n \in Nodes, NEW x \in Names, Push(n, x)
  PROVE  /\ DOMAIN map' = DOMAIN map \cup {x} /\ x \in DOMAIN map'
         /\ map'[x] \in Seq(Nodes) /\ OnceEach(map'[x]) /\ map'[x] # <<>>
         /\ ToSet(map'[x]) = ToSet(QueueOf(x)) \cup {n}
         /\ \A y \in DOMAIN map \ {x} : map'[y] = map[y]
         /\ vector' \in Seq(Names) /\ OnceEach(vector')
         /\ ToSet(vector') = DOMAIN map'
         /\ Len(vector') \in Nat /\ Len(vector') >= 1 /\ Len(vector') >= Len(vector)
         /\ Len(vector) \in Nat
<1>1. /\ QueueOf(x) \in Seq(Nodes) /\ OnceEach(QueueOf(x)) /\ n \notin started
      /\ ToSet(QueueOf(x)) \subseteq started
  BY QueueFacts DEF Push, IsNext
<1>2. /\ map' = Put(map, x, Append(QueueOf(x), n))
      /\ vector' = IF x \in DOMAIN map THEN vector ELSE Append(vector, x)
  BY DEF Push
<1>3. PICK q : q = Append(QueueOf(x), n)
  OBVIOUS
<1>4. /\ q \in Seq(Nodes) /\ Len(q) = Len(QueueOf(x)) + 1 /\ OnceEach(q)
      /\ ToSet(q) = ToSet(QueueOf(x)) \cup {n}
  <2>1. n \notin ToSet(QueueOf(x))
    BY <1>1
  <2>2. IsAppend(q, QueueOf(x), n)
    BY <1>3 DEF IsAppend
  <2> QED
    BY <1>1, <2>1, <2>2, SeqAppend
<1>5. q # <<>>
  <2>1. Len(QueueOf(x)) \in Nat /\ Len(<<>>) = 0
    BY <1>1, LenProperties
  <2> QED
    BY <1>4, <2>1
<1>6. /\ DOMAIN map' = DOMAIN map \cup {x} /\ map'[x] = q
      /\ \A y \in DOMAIN map \ {x} : map'[y] = map[y]
  BY <1>2, <1>3 DEF Put
<1>7. /\ vector \in Seq(Names) /\ OnceEach(vector) /\ ToSet(vector) = DOMAIN map
      /\ Len(vector) \in Nat
  BY LenProperties DEF Tidy, QueuesTypeOK
<1>8. CASE x \in DOMAIN map
  <2>1. vector' = vector /\ DOMAIN map' = DOMAIN map
    BY <1>2, <1>6, <1>8
  <2>2. Len(vector) >= 1
    <3>1. PICK i \in DOMAIN vector : vector[i] = x
      BY <1>7, <1>8 DEF ToSet
    <3>2. i \in 1..Len(vector)
      BY <1>7, LenProperties
    <3> QED
      BY <1>7, <3>2
  <2> QED
    BY <1>4, <1>5, <1>6, <1>7, <2>1, <2>2
<1>9. CASE x \notin DOMAIN map
  <2>1. PICK v : v = Append(vector, x)
    OBVIOUS
  <2>2. /\ v \in Seq(Names) /\ Len(v) = Len(vector) + 1 /\ OnceEach(v)
        /\ ToSet(v) = ToSet(vector) \cup {x}
    <3>1. x \notin ToSet(vector)
      BY <1>7, <1>9
    <3>2. IsAppend(v, vector, x)
      BY <2>1 DEF IsAppend
    <3> QED
      BY <1>7, <3>1, <3>2, SeqAppend
  <2>3. vector' = v
    BY <1>2, <1>9, <2>1
  <2>4. Len(v) \in Nat /\ Len(v) >= 1 /\ Len(v) >= Len(vector)
    BY <1>7, <2>2
  <2> QED
    BY <1>4, <1>5, <1>6, <1>7, <2>2, <2>3, <2>4
<1> QED
  BY <1>8, <1>9

\* start, emplace and place leave at least one runner counted.
LEMMA SubmitCounts ==
  ASSUME Full, NEW n \in Nodes, NEW x \in Names,
         Start(n, x) \/ Emplace(n, x) \/ Place(n, x)
  PROVE  /\ PushNode(n, x) /\ Counting' /\ actives' >= 1
         /\ \A r \in Runners : \/ runner'[r] = runner[r]
                               \/ runner[r] = "free" /\ runner'[r] = "queued"
<1>0. Types /\ Counting /\ max \in Nat /\ max >= 1 /\ actives \in Nat
  <2>1. max \in 1..Cardinality(Runners) /\ actives \in 0..Cardinality(Runners)
    BY RunnersAssumption DEF Full, TypeOK, QueuesTypeOK, RunnersTypeOK
  <2> QED
    BY <2>1 DEF Full, Inv, Counting, TypeOK, QueuesTypeOK
<1>1. CASE Start(n, x)
  <2>1. PushNode(n, x) /\ SpawnCounted(actives < max /\ actives < Cardinality(DOMAIN runners'))
    BY <1>1 DEF Start
  <2>2. /\ Counting'
        /\ IF actives < max /\ actives < Cardinality(DOMAIN runners')
           THEN actives' >= 1 ELSE actives' = actives
        /\ \A r \in Runners : \/ runner'[r] = runner[r]
                              \/ runner[r] = "free" /\ runner'[r] = "queued"
    BY <1>0, <2>1, SpawnStep
  <2>3. /\ vector' \in Seq(Names) /\ OnceEach(vector')
        /\ ToSet(vector') = DOMAIN map' /\ Len(vector') \in Nat /\ Len(vector') >= 1
    BY <2>1, PushQueues DEF PushNode, Full, Inv, TypeOK
  <2>4. DOMAIN runners' = DOMAIN map'
    BY <2>1 DEF PushNode, Push, Put, Full, Inv, SameNames
  <2>5. PICK c \in Nat : c = Cardinality(DOMAIN runners') /\ c >= 1
    BY <2>3, <2>4, SeqCount
  <2>6. actives' >= 1
    BY <1>0, <2>2, <2>5
  <2> QED
    BY <2>1, <2>2, <2>6
<1>2. CASE Emplace(n, x) \/ Place(n, x)
  <2>1. PushNode(n, x) /\ SpawnCounted(actives < max)
    BY <1>2 DEF Emplace, Place
  <2>2. /\ Counting'
        /\ IF actives < max THEN actives' >= 1 ELSE actives' = actives
        /\ \A r \in Runners : \/ runner'[r] = runner[r]
                              \/ runner[r] = "free" /\ runner'[r] = "queued"
    BY <1>0, <2>1, SpawnStep
  <2>3. actives' >= 1
    BY <1>0, <2>2
  <2> QED
    BY <2>1, <2>2, <2>3
<1> QED
  BY <1>1, <1>2

\* Submitting a node keeps the whole invariant.
LEMMA SubmitStep ==
  ASSUME Full, Inv', NEW n \in Nodes, NEW x \in Names,
         Start(n, x) \/ Emplace(n, x) \/ Place(n, x)
  PROVE  Full'
<1>1. /\ PushNode(n, x) /\ Counting' /\ actives' >= 1
      /\ \A r \in Runners : \/ runner'[r] = runner[r]
                            \/ runner[r] = "free" /\ runner'[r] = "queued"
  BY SubmitCounts
<1>2. /\ DOMAIN map' = DOMAIN map \cup {x} /\ x \in DOMAIN map'
      /\ map'[x] \in Seq(Nodes) /\ OnceEach(map'[x]) /\ map'[x] # <<>>
      /\ ToSet(map'[x]) = ToSet(QueueOf(x)) \cup {n}
      /\ \A y \in DOMAIN map \ {x} : map'[y] = map[y]
      /\ vector' \in Seq(Names) /\ OnceEach(vector')
      /\ ToSet(vector') = DOMAIN map'
      /\ Len(vector') \in Nat /\ Len(vector') >= 1 /\ Len(vector') >= Len(vector)
      /\ Len(vector) \in Nat
  BY <1>1, PushQueues DEF PushNode, Full, Inv, TypeOK
<1>3. /\ n \notin started /\ started' = started \cup {n} /\ name'[n] = x
      /\ \A m \in Nodes \ {n} : name'[m] = name[m]
      /\ UNCHANGED <<current, finished, max, position, running>>
      /\ runners' = IF x \in DOMAIN map THEN runners ELSE Put(runners, x, TRUE)
  BY <1>1 DEF PushNode, Push, IsNext, Full, TypeOK, QueuesTypeOK
<1>4. ToSet(QueueOf(x)) = IF x \in DOMAIN map THEN ToSet(map[x]) ELSE {}
  BY DEF QueueOf, ToSet
<1>5. ~finished[n] /\ \A r \in Runners : current[r] # n
  BY <1>3, RunnersAssumption DEF Full, Found, HeldApart
<1>6. \A r \in Runners : /\ runner'[r] = "node" <=> runner[r] = "node"
                         /\ runner'[r] = "post" <=> runner[r] = "post"
  BY <1>1
<1>7. DOMAIN runners = DOMAIN map /\ DOMAIN runners' = DOMAIN map'
  BY <1>2, <1>3 DEF Full, Inv, SameNames, Put
<1>8. TypeOK'
  <2>1. \A y \in DOMAIN map' : map'[y] \in Seq(Nodes)
    BY <1>2 DEF Full, TypeOK, QueuesTypeOK
  <2>2. \A y \in DOMAIN runners' : runners'[y] \in BOOLEAN
    BY <1>3 DEF Put, Full, TypeOK
  <2>3. DOMAIN map' \subseteq Names
    BY <1>2 DEF Full, TypeOK, QueuesTypeOK
  <2>4. RunnersTypeOK'
    BY <1>3 DEF Inv, Types, Full, TypeOK, QueuesTypeOK, RunnersTypeOK
  <2>5. QueuesTypeOK'
    BY <1>1, <1>2, <1>3, <2>1, <2>3, <2>4
       DEF Inv, Types, Counting, Full, TypeOK, QueuesTypeOK
  <2> QED
    BY <1>7, <2>2, <2>3, <2>5 DEF TypeOK
<1>9. Tidy'
  BY <1>2 DEF Full, Tidy
<1>10. Unheld'
  BY <1>2, <1>3, <1>4, <1>5 DEF Full, Unheld
<1>11. HeldApart'
  BY <1>3, <1>6 DEF Full, HeldApart
<1>12. Found'
  <2>1. ASSUME NEW m \in started'
        PROVE  /\ name'[m] \in Names
               /\ \/ finished'[m]
                  \/ \E r \in Runners : runner'[r] = "node" /\ current'[r] = m
                  \/ name'[m] \in DOMAIN map' /\ m \in ToSet(map'[name'[m]])
    <3>1. CASE m = n
      BY <1>2, <1>3, <3>1
    <3>2. CASE m # n
      <4>1. m \in started /\ m \in Nodes /\ name'[m] = name[m]
        BY <1>3, <3>2 DEF Full, TypeOK, QueuesTypeOK, RunnersTypeOK
      <4>2. CASE finished[m] \/ \E r \in Runners : runner[r] = "node" /\ current[r] = m
        BY <1>3, <1>6, <4>1, <4>2 DEF Full, Found
      <4>3. CASE name[m] \in DOMAIN map /\ m \in ToSet(map[name[m]])
        BY <1>2, <1>4, <4>1, <4>3 DEF Full, Found
      <4> QED
        BY <4>1, <4>2, <4>3 DEF Full, Found
    <3> QED
      BY <3>1, <3>2
  <2>2. \A m \in Nodes : finished'[m] => m \in started'
    BY <1>3 DEF Full, Found
  <2> QED
    BY <2>1, <2>2 DEF Found
<1>13. OpenHas'
  <2> SUFFICES ASSUME NEW y \in DOMAIN runners'
               PROVE  \/ \E r \in Runners : Executes(r, y)'
                      \/ runners'[y] /\ map'[y] # <<>>
    BY DEF OpenHas
  <2>1. ASSUME NEW r \in Runners, Executes(r, y) PROVE Executes(r, y)'
    <3>1. current[r] \in started /\ current[r] # n /\ current[r] \in Nodes
      BY <1>3, <2>1 DEF Executes, Full, Inv, Closed, TypeOK, QueuesTypeOK, RunnersTypeOK
    <3> QED
      BY <1>3, <1>6, <2>1, <3>1 DEF Executes
  <2>2. CASE y \in DOMAIN map
    <3>1. runners'[y] = runners[y]
      BY <1>3, <1>7, <2>2 DEF Put
    <3>2. map[y] # <<>> => map'[y] # <<>>
      BY <1>2, <2>2
    <3> QED
      BY <1>7, <2>1, <2>2, <3>1, <3>2 DEF Full, OpenHas
  <2>3. CASE y \notin DOMAIN map
    <3>1. y = x /\ runners'[y] = TRUE
      BY <1>2, <1>3, <1>7, <2>3 DEF Put
    <3> QED
      BY <1>2, <3>1
  <2> QED
    BY <2>2, <2>3
<1>14. PositionInRange'
  <2>1. position \in Nat /\ position <= Len(vector)
    BY DEF Full, PositionInRange, TypeOK, QueuesTypeOK
  <2> QED
    BY <1>2, <1>3, <2>1 DEF PositionInRange
<1>15. NobodyStranded'
  <2>1. actives' \in Int /\ actives' = Cardinality(Looking') /\ Looking' \in SUBSET Runners
    BY <1>1 DEF Counting, CountsLookers, Looking
  <2> QED
    BY <1>1, <2>1, SomebodyCounted DEF NobodyStranded
<1> QED
  BY <1>1, <1>8, <1>9, <1>10, <1>11, <1>12, <1>13, <1>14, <1>15 DEF Full, Counting

-----------------------------------------------------------------------------
(* Steps that leave the queues alone.                                      *)

\* A step that moves no node and no runner into or out of execution.
LEMMA QuietStep ==
  ASSUME Full, Inv', Counting',
         UNCHANGED <<name, map, vector, runners, started, finished>>,
         max' \in MaxValues, position' \in Nat, position' <= Len(vector),
         running' \subseteq Nodes,
         \A r \in Runners : /\ runner'[r] = "node" <=> runner[r] = "node"
                            /\ runner[r] = "node" => current'[r] = current[r]
                            /\ current'[r] # None =>
                                 /\ current'[r] = current[r]
                                 /\ runner[r] = "post" => runner'[r] = "post",
         NoEmptyName => NobodyStranded'
  PROVE  Full'
<1>1. TypeOK'
  <2>1. RunnersTypeOK'
    BY DEF Inv, Types, Full, TypeOK, QueuesTypeOK, RunnersTypeOK
  <2>2. QueuesTypeOK'
    BY <2>1 DEF Inv, Types, Counting, Full, TypeOK, QueuesTypeOK
  <2> QED
    BY <2>2 DEF Full, TypeOK
<1>2. Tidy'
  BY DEF Full, Tidy
<1>3. Unheld'
  <2> SUFFICES ASSUME NEW y \in DOMAIN map, NEW m \in ToSet(map[y])
               PROVE  ~finished[m] /\ \A r \in Runners : current'[r] # m
    BY DEF Unheld
  <2>1. ~finished[m] /\ \A r \in Runners : current[r] # m
    BY DEF Full, Unheld
  <2>2. m # None
    <3>1. map[y] \in Seq(Nodes)
      BY DEF Full, TypeOK, QueuesTypeOK
    <3>2. \A i \in DOMAIN map[y] : map[y][i] \in Nodes
      BY <3>1, ElementOfSeq, LenProperties
    <3> QED
      BY <3>2, RunnersAssumption DEF ToSet
  <2> QED
    BY <2>1, <2>2
<1>4. HeldApart'
  <2>1. ASSUME NEW r \in Runners, current'[r] # None
        PROVE  /\ runner'[r] \in {"node", "post"} /\ current'[r] \in started
               /\ \A s \in Runners : current'[s] = current'[r] => s = r
    <3>1. current'[r] = current[r]
      BY <2>1
    <3>2. /\ runner[r] \in {"node", "post"} /\ current[r] \in started
          /\ \A s \in Runners : current[s] = current[r] => s = r
      BY <2>1, <3>1 DEF Full, HeldApart
    <3>3. runner'[r] \in {"node", "post"}
      BY <2>1, <3>2
    <3>4. ASSUME NEW s \in Runners, current'[s] = current'[r] PROVE s = r
      BY <2>1, <3>1, <3>2, <3>4
    <3> QED
      BY <3>1, <3>2, <3>3, <3>4
  <2>2. \A r \in Runners : runner'[r] = "node" => ~finished[current'[r]]
    BY DEF Full, HeldApart
  <2> QED
    BY <2>1, <2>2 DEF HeldApart
<1>5. Found'
  BY DEF Full, Found
<1>6. OpenHas'
  BY DEF Full, OpenHas, Executes
<1>7. PositionInRange'
  BY DEF PositionInRange
<1>8. NoEmptyName' => NobodyStranded'
  BY DEF NoEmptyName
<1> QED
  BY <1>1, <1>2, <1>3, <1>4, <1>5, <1>6, <1>7, <1>8 DEF Full, Counting

\* The new position of dequeue is one of the vector, or its end.
LEMMA NextPositionInRange ==
  ASSUME Full
  PROVE  NextPosition \in Nat /\ NextPosition <= Len(vector) /\ Len(vector) \in Nat
<1>1. position \in Nat /\ Len(vector) \in Nat
  BY LenProperties DEF Full, TypeOK, QueuesTypeOK
<1> QED
  BY <1>1 DEF NextPosition

\* A name in the map has a submitted node, so nobody used the empty name if
\* it is not there.
LEMMA NameHasNode ==
  ASSUME Full, NEW x \in DOMAIN map
  PROVE  \E n \in started : name[n] = x /\ ~finished[n]
<1>1. x \in DOMAIN runners
  BY DEF Full, Inv, SameNames
<1>2. CASE \E r \in Runners : Executes(r, x)
  <2>1. PICK r \in Runners : Executes(r, x)
    BY <1>2
  <2>2. current[r] \in started /\ ~finished[current[r]]
    BY <2>1 DEF Executes, Full, Inv, Closed, HeldApart
  <2> QED
    BY <2>1, <2>2 DEF Executes
<1>3. CASE map[x] # <<>>
  <2>1. map[x] \in Seq(NodesOf(x))
    BY DEF Full, Inv, OwnQueue
  <2>2. Head(map[x]) \in NodesOf(x) /\ Head(map[x]) \in ToSet(map[x])
    <3>1. PICK t : IsTail(t, map[x])
      BY DEF IsTail
    <3>2. OnceEach(map[x])
      BY DEF Full, Tidy
    <3> QED
      BY <1>3, <2>1, <3>1, <3>2, SeqTail
  <2>3. ~finished[Head(map[x])]
    BY <2>2 DEF Full, Unheld
  <2> QED
    BY <2>2, <2>3 DEF NodesOf
<1> QED
  BY <1>1, <1>2, <1>3 DEF Full, OpenHas

\* If some name is open and nobody used the empty name, dequeue stops at a name.
LEMMA OpenIsChosen ==
  ASSUME Runnable # {}, Empty \notin DOMAIN runners
  PROVE  Chosen # Empty
<1> DEFINE inFirst(i) == position + i <= Len(vector)
           first == {i \in Runnable : inFirst(i)}
           second == {i \in Runnable : ~inFirst(i)}
           Index(S) == CHOOSE i \in S : \A j \in S : i <= j
<1>1. Runnable \subseteq 1..Len(vector)
  BY DEF Runnable
<1>2. first # {} => Index(first) \in Runnable
  BY <1>1, LeastIsMember
<1>3. second # {} => Index(second) \in Runnable
  BY <1>1, LeastIsMember
<1>4. \A i \in Runnable : Visit[i] # Empty
  BY DEF Runnable, MayRun
<1>5. first # {} \/ second # {}
  OBVIOUS
<1>6. Chosen = IF first # {} /\ (Visit[Index(first)] # Empty \/ second = {})
               THEN Visit[Index(first)]
               ELSE IF second # {} THEN Visit[Index(second)] ELSE Empty
  BY DEF Chosen
<1> HIDE DEF first, second, Index
<1> QED
  BY <1>2, <1>3, <1>4, <1>5, <1>6

\* The place the loops of dequeue start at is one of the vector.
LEMMA FirstVisit ==
  ASSUME Full, DOMAIN map # {}
  PROVE  1 \in 1..Len(vector) /\ Visit[1] \in DOMAIN map
<1>1. /\ vector \in Seq(Names) /\ Len(vector) \in Nat /\ DOMAIN vector = 1..Len(vector)
      /\ ToSet(vector) = DOMAIN map /\ position \in Nat
  BY LenProperties DEF Full, Tidy, TypeOK, QueuesTypeOK
<1>2. PICK k \in 1..Len(vector) : TRUE
  BY <1>1 DEF ToSet
<1>3. 1 \in 1..Len(vector)
  BY <1>1, <1>2
<1>4. PICK l \in Nat \ {0} : l = Len(vector)
  <2>1. PICK m \in Nat : m = Len(vector)
    BY <1>1
  <2>2. 1 \in 1..m
    BY <1>3, <2>1
  <2>3. m \in Nat \ {0}
    BY <2>2
  <2> QED
    BY <2>1, <2>3
<1>5. ((position + 1 - 1) % l) + 1 \in 1..l
  BY <1>1
<1>6. Visit[1] = vector[((position + 1 - 1) % l) + 1]
  BY <1>3, <1>4 DEF Visit
<1> QED
  BY <1>1, <1>3, <1>4, <1>5, <1>6 DEF ToSet

\* A waiting node stands in the queue of a name of the map.
LEMMA WaitingHasName ==
  ASSUME Waiting # {} PROVE DOMAIN map # {}
<1>1. PICK x \in Names : Queued(x) # {}
  BY DEF Waiting
<1>2. x \notin DOMAIN map => QueueOf(x) = <<>> /\ ToSet(<<>>) = {}
  BY DEF QueueOf, ToSet
<1> QED
  BY <1>1, <1>2 DEF Queued

\* dequeue dismisses a runner although nodes wait only if another one is in
\* execution, and that one will come back.
LEMMA NothingButExecuting ==
  ASSUME Full, NoEmptyName, Waiting # {},
         Chosen = Empty \/ QueueOf(Chosen) = <<>>
  PROVE  \E s \in Runners : runner[s] = "node"
<1> SUFFICES ASSUME \A s \in Runners : runner[s] # "node" PROVE FALSE
  OBVIOUS
<1>1. DOMAIN runners = DOMAIN map /\ DOMAIN map # {}
  BY WaitingHasName DEF Full, Inv, SameNames
<1>2. \A x \in DOMAIN runners : runners[x] /\ map[x] # <<>>
  BY DEF Full, OpenHas, Executes
<1>3. Empty \notin DOMAIN map
  BY NameHasNode DEF NoEmptyName
<1>4. 1 \in Runnable
  BY <1>1, <1>2, FirstVisit DEF Runnable, MayRun
<1>5. Chosen # Empty
  BY <1>1, <1>3, <1>4, OpenIsChosen
<1>6. Chosen \in DOMAIN map
  BY <1>1, <1>5, ChosenIsOpen
<1> QED
  BY <1>1, <1>2, <1>5, <1>6 DEF QueueOf

\* The steps of a runner that does not get a node, and what else leaves the
\* queues alone.
LEMMA BeginStep ==
  ASSUME Full, Inv', NEW r \in Runners, Begin(r), UNCHANGED runners
  PROVE  Full'
<1>1. /\ runner[r] = "queued" /\ runner'[r] = "loop"
      /\ \A s \in Runners \ {r} : runner'[s] = runner[s]
      /\ UNCHANGED <<name, map, vector, runners, started, finished, max, position,
                     running, current, actives>>
  BY DEF Begin, BeginRunner, queueVars, Full, Inv, Types
<1>2. Types /\ Counting
  BY DEF Full, Inv, Counting, TypeOK, QueuesTypeOK
<1>3. Counting' /\ Looking' = Looking /\ r \in Looking
  BY <1>1, <1>2, MoveStep
<1>4. NobodyStranded'
  BY <1>3 DEF NobodyStranded
<1>5. max \in MaxValues /\ position \in Nat /\ position <= Len(vector) /\ running \subseteq Nodes
  BY DEF Full, TypeOK, QueuesTypeOK, RunnersTypeOK, PositionInRange
<1>6. current[r] = None
  BY <1>1 DEF Full, HeldApart
<1> QED
  BY <1>1, <1>3, <1>4, <1>5, <1>6, QuietStep

\* The end of a round of run: the runner lets its node go.
LEMMA EraseStep ==
  ASSUME Full, Inv', NEW r \in Runners, Erase(r)
  PROVE  Full'
<1>1. /\ runner[r] = "post" /\ runner'[r] = "loop" /\ current'[r] = None
      /\ \A s \in Runners \ {r} : runner'[s] = runner[s] /\ current'[s] = current[s]
      /\ UNCHANGED <<name, map, vector, runners, started, finished, max, position, actives>>
      /\ running' \subseteq running
  BY DEF Erase, NextRound, Full, Inv, Types
<1>2. Types /\ Counting
  BY DEF Full, Inv, Counting, TypeOK, QueuesTypeOK
<1>3. Counting' /\ Looking' = Looking /\ r \in Looking
  BY <1>1, <1>2, MoveStep
<1>4. NobodyStranded'
  BY <1>3 DEF NobodyStranded
<1>5. max \in MaxValues /\ position \in Nat /\ position <= Len(vector) /\ running \subseteq Nodes
  BY DEF Full, TypeOK, QueuesTypeOK, RunnersTypeOK, PositionInRange
<1> QED
  BY <1>1, <1>3, <1>4, <1>5, QuietStep

\* A surplus runner leaves: there is still one for each name.
LEMMA SurplusStep ==
  ASSUME Full, Inv', NEW r \in Runners, DequeueSurplus(r)
  PROVE  Full'
<1>1. /\ runner[r] = "loop" /\ actives > Len(vector) /\ Dismiss(r)
      /\ UNCHANGED <<name, map, vector, runners, started, finished, max, position,
                     running, current>>
  BY DEF DequeueSurplus, Dismiss
<1>2. Types /\ Counting
  BY DEF Full, Inv, Counting, TypeOK, QueuesTypeOK
<1>3. /\ Counting' /\ actives' = actives - 1 /\ runner'[r] = "free"
      /\ \A s \in Runners \ {r} : runner'[s] = runner[s]
  BY <1>1, <1>2, DismissStep
<1>4. NobodyStranded'
  <2> SUFFICES ASSUME Waiting # {} PROVE Looking' # {}
    BY <1>1 DEF NobodyStranded, Waiting, Queued, QueueOf
  <2>1. Len(vector) >= 1 /\ Len(vector) \in Nat
    <3>1. 1 \in 1..Len(vector) /\ Len(vector) \in Nat
      BY WaitingHasName, FirstVisit, LenProperties DEF Full, TypeOK, QueuesTypeOK
    <3> QED
      BY <3>1
  <2>2. PICK c \in Int : c = actives' /\ c >= 1
    <3>1. actives \in Int
      BY <1>2 DEF Counting
    <3> QED
      BY <1>1, <1>3, <2>1, <3>1
  <2>3. actives' = Cardinality(Looking') /\ Looking' \in SUBSET Runners
    BY <1>3 DEF Counting, CountsLookers, Looking
  <2> QED
    BY <2>2, <2>3, SomebodyCounted
<1>5. max \in MaxValues /\ position \in Nat /\ position <= Len(vector) /\ running \subseteq Nodes
  BY DEF Full, TypeOK, QueuesTypeOK, RunnersTypeOK, PositionInRange
<1>6. current[r] = None
  BY <1>1 DEF Full, HeldApart
<1> QED
  BY <1>1, <1>3, <1>4, <1>5, <1>6, QuietStep

\* A runner that finds nothing leaves.
LEMMA NothingStep ==
  ASSUME Full, Inv', NEW r \in Runners, DequeueNothing(r)
  PROVE  Full'
<1>1. /\ runner[r] = "loop" /\ Dismiss(r) /\ position' = NextPosition
      /\ Chosen = Empty \/ QueueOf(Chosen) = <<>>
      /\ UNCHANGED <<name, map, vector, runners, started, finished, max, running, current>>
  BY DEF DequeueNothing, Dismiss
<1>2. Types /\ Counting
  BY DEF Full, Inv, Counting, TypeOK, QueuesTypeOK
<1>3. /\ Counting' /\ actives' = actives - 1 /\ runner'[r] = "free"
      /\ \A s \in Runners \ {r} : runner'[s] = runner[s]
  BY <1>1, <1>2, DismissStep
<1>4. ASSUME NoEmptyName PROVE NobodyStranded'
  <2> SUFFICES ASSUME Waiting # {} PROVE Looking' # {}
    BY <1>1 DEF NobodyStranded, Waiting, Queued, QueueOf
  <2>1. PICK s \in Runners : runner[s] = "node"
    BY <1>1, <1>4, NothingButExecuting
  <2>2. runner'[s] = "node"
    BY <1>1, <1>3, <2>1
  <2> QED
    BY <2>2 DEF Looking
<1>5. max \in MaxValues /\ running \subseteq Nodes
  BY DEF Full, TypeOK, QueuesTypeOK, RunnersTypeOK
<1>6. current[r] = None
  BY <1>1 DEF Full, HeldApart
<1>7. position' \in Nat /\ position' <= Len(vector)
  BY <1>1, NextPositionInRange
<1> QED
  BY <1>1, <1>3, <1>4, <1>5, <1>6, <1>7, QuietStep

\* max() changes, or nothing does.
LEMMA RestStep ==
  ASSUME Full, Inv', max' \in MaxValues,
         UNCHANGED <<runner, current, finished, started, queueVars, runners>>
  PROVE  Full'
<1>1. UNCHANGED <<name, map, vector, runners, started, finished, position, running,
                  current, actives, runner>>
  BY DEF queueVars
<1>2. Counting' /\ (NobodyStranded' <=> NobodyStranded)
  BY <1>1 DEF Full, Counting, CountsLookers, Looking, TypeOK, QueuesTypeOK,
              NobodyStranded, Waiting, Queued, QueueOf
<1>3. position \in Nat /\ position <= Len(vector) /\ running \subseteq Nodes
  BY DEF Full, TypeOK, QueuesTypeOK, PositionInRange
<1> QED
  BY <1>1, <1>2, <1>3, QuietStep DEF Full

-----------------------------------------------------------------------------
(* Taking a node and returning from it.                                    *)

\* dequeue: the front of an open queue goes to the runner.
LEMMA TakeStep ==
  ASSUME Full, Inv', NEW r \in Runners, DequeueName(r)
  PROVE  Full'
<1>1. PICK x : x = Chosen
  OBVIOUS
<1>2. x \in DOMAIN runners /\ runners[x]
  BY <1>1, ChosenIsOpen DEF DequeueName
<1>3. x \in DOMAIN map /\ QueueOf(x) = map[x] /\ map[x] # <<>> /\ x \in Names
  BY <1>1, <1>2 DEF Full, Inv, SameNames, QueueOf, DequeueName, TypeOK
<1>4. PICK n, q : n = Head(map[x]) /\ q = Tail(map[x]) /\ IsTail(q, map[x])
  BY DEF IsTail
<1>5. /\ runner[r] = "loop" /\ runner'[r] = "node" /\ current'[r] = n
      /\ \A s \in Runners \ {r} : runner'[s] = runner[s] /\ current'[s] = current[s]
      /\ map' = Put(map, x, q) /\ runners' = Put(runners, x, FALSE)
      /\ running' = running \cup {n} /\ position' = NextPosition
      /\ UNCHANGED <<name, vector, actives, finished, max, started>>
  BY <1>1, <1>3, <1>4 DEF DequeueName, TakeNode, Full, Inv, Types
<1>6. /\ n \in ToSet(map[x]) /\ ToSet(q) = ToSet(map[x]) \ {n}
      /\ n \in NodesOf(x) /\ q \in Seq(NodesOf(x)) /\ OnceEach(q)
  <2>1. map[x] \in Seq(NodesOf(x)) /\ OnceEach(map[x])
    BY <1>3 DEF Full, Inv, OwnQueue, Tidy
  <2> QED
    BY <1>3, <1>4, <2>1, SeqTail
<1>7. /\ n \in started /\ n \in Nodes /\ name[n] = x /\ n # None /\ ~finished[n]
      /\ \A s \in Runners : current[s] # n
  BY <1>3, <1>6, RunnersAssumption
     DEF NodesOf, Full, Unheld, TypeOK, QueuesTypeOK, RunnersTypeOK
<1>8. /\ DOMAIN map' = DOMAIN map /\ map'[x] = q
      /\ \A y \in DOMAIN map \ {x} : map'[y] = map[y]
  BY <1>3, <1>5 DEF Put
<1>9. /\ DOMAIN runners' = DOMAIN runners /\ runners'[x] = FALSE
      /\ \A y \in DOMAIN runners \ {x} : runners'[y] = runners[y]
  BY <1>2, <1>5 DEF Put
<1>10. Types /\ Counting
  BY DEF Full, Inv, Counting, TypeOK, QueuesTypeOK
<1>11. Counting' /\ Looking' = Looking /\ r \in Looking
  BY <1>5, <1>10, MoveStep
<1>12. TypeOK'
  <2>1. q \in Seq(Nodes)
    <3>1. NodesOf(x) \subseteq Nodes
      BY DEF NodesOf, Full, TypeOK, QueuesTypeOK, RunnersTypeOK
    <3> QED
      BY <1>6, <3>1, QueueOfLargerSet
  <2>2. DOMAIN map' \subseteq Names /\ \A y \in DOMAIN map' : map'[y] \in Seq(Nodes)
    BY <1>8, <2>1 DEF Full, TypeOK, QueuesTypeOK
  <2>3. /\ DOMAIN runners' \subseteq Names
        /\ \A y \in DOMAIN runners' : runners'[y] \in BOOLEAN
    BY <1>9 DEF Full, TypeOK
  <2>4. RunnersTypeOK'
    BY <1>5 DEF Inv, Types, Full, TypeOK, QueuesTypeOK, RunnersTypeOK
  <2>5. QueuesTypeOK'
    BY <1>5, <1>7, <1>11, <2>2, <2>4, NextPositionInRange
       DEF Inv, Types, Counting, Full, TypeOK, QueuesTypeOK
  <2> QED
    BY <2>3, <2>5 DEF TypeOK
<1>13. Tidy'
  BY <1>5, <1>6, <1>8 DEF Full, Tidy
<1>14. Unheld'
  <2> SUFFICES ASSUME NEW y \in DOMAIN map, NEW m \in ToSet(map'[y])
               PROVE  ~finished[m] /\ \A s \in Runners : current'[s] # m
    BY <1>5, <1>8 DEF Unheld
  <2>1. m \in ToSet(map[y]) /\ (y = x => m # n)
    BY <1>6, <1>8
  <2>2. ~finished[m] /\ \A s \in Runners : current[s] # m
    BY <2>1 DEF Full, Unheld
  <2>3. m # n
    <3>1. CASE y = x
      BY <2>1, <3>1
    <3>2. CASE y # x
      <4>1. map[y] \in Seq(NodesOf(y))
        BY DEF Full, Inv, OwnQueue
      <4>2. \A i \in DOMAIN map[y] : map[y][i] \in NodesOf(y)
        BY <4>1, ElementOfSeq, LenProperties
      <4>3. name[m] = y
        BY <2>1, <4>2 DEF ToSet, NodesOf
      <4> QED
        BY <1>7, <3>2, <4>3
    <3> QED
      BY <3>1, <3>2
  <2> QED
    BY <1>5, <2>2, <2>3
<1>15. HeldApart'
  BY <1>5, <1>7 DEF Full, HeldApart
<1>16. Found'
  <2>1. ASSUME NEW m \in started
        PROVE  /\ name[m] \in Names
               /\ \/ finished[m]
                  \/ \E s \in Runners : runner'[s] = "node" /\ current'[s] = m
                  \/ name[m] \in DOMAIN map' /\ m \in ToSet(map'[name[m]])
    <3>1. CASE m = n
      BY <1>3, <1>5, <1>7, <3>1
    <3>2. CASE finished[m] \/ \E s \in Runners : runner[s] = "node" /\ current[s] = m
      BY <1>5, <3>2 DEF Full, Found
    <3>3. CASE m # n /\ name[m] \in DOMAIN map /\ m \in ToSet(map[name[m]])
      BY <1>3, <1>6, <1>8, <3>3 DEF Full, TypeOK, QueuesTypeOK
    <3> QED
      BY <3>1, <3>2, <3>3 DEF Full, Found
  <2> QED
    BY <1>5, <2>1 DEF Full, Found
<1>17. OpenHas'
  <2> SUFFICES ASSUME NEW y \in DOMAIN runners
               PROVE  \/ \E s \in Runners : Executes(s, y)'
                      \/ runners'[y] /\ map'[y] # <<>>
    BY <1>9 DEF OpenHas
  <2>1. CASE y = x
    BY <1>5, <1>7, <2>1 DEF Executes
  <2>2. CASE y # x
    <3>1. \A s \in Runners : Executes(s, y) => Executes(s, y)'
      BY <1>5 DEF Executes
    <3>2. y \in DOMAIN map
      BY DEF Full, Inv, SameNames
    <3> QED
      BY <1>8, <1>9, <2>2, <3>1, <3>2 DEF Full, OpenHas
  <2> QED
    BY <2>1, <2>2
<1>18. PositionInRange'
  BY <1>5, NextPositionInRange DEF PositionInRange
<1>19. NobodyStranded'
  BY <1>11 DEF NobodyStranded
<1> QED
  BY <1>11, <1>12, <1>13, <1>14, <1>15, <1>16, <1>17, <1>18, <1>19 DEF Full, Counting

\* node::run at its end: the name is opened again, or removed everywhere when
\* no node of it waits.
LEMMA ReturnStep ==
  ASSUME Full, Inv', NEW r \in Runners, RunNode(r)
  PROVE  Full'
<1>1. PICK n, x : n = current[r] /\ x = name[n]
  OBVIOUS
<1>2. /\ runner[r] = "node" /\ runner'[r] = "post"
      /\ \A s \in Runners \ {r} : runner'[s] = runner[s]
      /\ finished' = [finished EXCEPT ![n] = TRUE]
      /\ UNCHANGED <<current, max, started, name, actives, running>>
      /\ IF QueueOf(x) = <<>>
         THEN /\ map' = Drop(map, {x})
              /\ runners' = Drop(runners, {x})
              /\ vector' = RemoveFirst(vector, x)
              /\ position' = IF position > Len(vector') THEN 0 ELSE position
         ELSE /\ runners' = Put(runners, x, TRUE)
              /\ UNCHANGED <<map, vector, position>>
  BY <1>1 DEF RunNode, NodeReturns, Full, Inv, Types
<1>3. /\ n \in started /\ n \in Nodes /\ x \in DOMAIN runners /\ x \in DOMAIN map
      /\ n # None /\ QueueOf(x) = map[x]
      /\ \A s \in Runners \ {r} : runner[s] = "node" => name[current[s]] # x
      /\ \A s \in Runners \ {r} : current[s] # n
  BY <1>1, <1>2, RunnersAssumption
     DEF Full, Inv, Closed, Apart, SameNames, HeldApart, QueueOf, TypeOK,
         QueuesTypeOK, RunnersTypeOK
<1>4. finished'[n] = TRUE /\ \A m \in Nodes \ {n} : finished'[m] = finished[m]
  BY <1>2, <1>3 DEF Full, TypeOK, QueuesTypeOK, RunnersTypeOK
<1>5. Types /\ Counting
  BY DEF Full, Inv, Counting, TypeOK, QueuesTypeOK
<1>6. Counting' /\ Looking' = Looking /\ r \in Looking
  BY <1>2, <1>5, MoveStep
<1>7. /\ DOMAIN map' \subseteq DOMAIN map /\ DOMAIN runners' = DOMAIN map'
      /\ \A y \in DOMAIN map' : map'[y] = map[y]
      /\ \A y \in DOMAIN map \ {x} : y \in DOMAIN map' /\ runners'[y] = runners[y]
      /\ IF map[x] = <<>> THEN DOMAIN map' = DOMAIN map \ {x}
                          ELSE DOMAIN map' = DOMAIN map /\ runners'[x] = TRUE
  <2>1. DOMAIN runners = DOMAIN map
    BY DEF Full, Inv, SameNames
  <2>2. CASE map[x] = <<>>
    BY <1>2, <1>3, <2>1, <2>2 DEF Drop
  <2>3. CASE map[x] # <<>>
    BY <1>2, <1>3, <2>1, <2>3 DEF Put
  <2> QED
    BY <2>2, <2>3
<1>8. /\ vector' \in Seq(Names) /\ OnceEach(vector') /\ ToSet(vector') = DOMAIN map'
      /\ position' \in Nat /\ position' <= Len(vector')
  <2>1. /\ vector \in Seq(Names) /\ OnceEach(vector) /\ ToSet(vector) = DOMAIN map
        /\ position \in Nat /\ position <= Len(vector)
    BY DEF Full, Tidy, TypeOK, QueuesTypeOK, PositionInRange
  <2>2. CASE map[x] = <<>>
    <3>1. PICK v : v = RemoveFirst(vector, x)
      OBVIOUS
    <3>2. v \in Seq(Names) /\ ToSet(v) = ToSet(vector) \ {x} /\ OnceEach(v)
      <4>1. x \in ToSet(vector)
        BY <1>3, <2>1
      <4> QED
        BY <2>1, <3>1, <4>1, SeqRemove
    <3>3. PICK l \in Nat : l = Len(v)
      BY <3>2, LenProperties
    <3>4. vector' = v /\ position' = IF position > l THEN 0 ELSE position
      BY <1>2, <1>3, <2>2, <3>1, <3>3
    <3>5. position' \in Nat /\ position' <= l
      BY <2>1, <3>4
    <3> QED
      BY <1>7, <2>1, <2>2, <3>2, <3>3, <3>4, <3>5
  <2>3. CASE map[x] # <<>>
    BY <1>2, <1>3, <1>7, <2>1, <2>3
  <2> QED
    BY <2>2, <2>3
<1>9. TypeOK'
  <2>1. RunnersTypeOK'
    BY <1>2 DEF Inv, Types, Full, TypeOK, QueuesTypeOK, RunnersTypeOK
  <2>2. DOMAIN map' \subseteq Names /\ \A y \in DOMAIN map' : map'[y] \in Seq(Nodes)
    BY <1>7 DEF Full, TypeOK, QueuesTypeOK
  <2>3. QueuesTypeOK'
    BY <1>2, <1>6, <1>8, <2>1, <2>2
       DEF Inv, Types, Counting, Full, TypeOK, QueuesTypeOK
  <2>4. ASSUME NEW y \in DOMAIN runners' PROVE runners'[y] \in BOOLEAN
    <3>1. DOMAIN runners = DOMAIN map
      BY DEF Full, Inv, SameNames
    <3> QED
      BY <1>3, <1>7, <2>4, <3>1 DEF Full, TypeOK
  <2> QED
    BY <1>7, <2>2, <2>3, <2>4 DEF TypeOK
<1>10. Tidy'
  BY <1>7, <1>8 DEF Full, Tidy
<1>11. Unheld'
  <2> SUFFICES ASSUME NEW y \in DOMAIN map', NEW m \in ToSet(map'[y])
               PROVE  ~finished'[m] /\ \A s \in Runners : current[s] # m
    BY <1>2 DEF Unheld
  <2>1. y \in DOMAIN map /\ m \in ToSet(map[y])
    BY <1>7
  <2>2. ~finished[m] /\ \A s \in Runners : current[s] # m
    BY <2>1 DEF Full, Unheld
  <2>3. m # n
    BY <1>1, <2>2
  <2> QED
    BY <1>2, <2>2, <2>3 DEF Full, TypeOK, QueuesTypeOK, RunnersTypeOK
<1>12. HeldApart'
  <2>1. ASSUME NEW s \in Runners, runner'[s] = "node" PROVE ~finished'[current[s]]
    <3>1. s # r /\ runner[s] = "node" /\ current[s] # n /\ current[s] \in Nodes
      BY <1>2, <1>3, <2>1
         DEF Full, Inv, Closed, TypeOK, QueuesTypeOK, RunnersTypeOK
    <3>2. ~finished[current[s]]
      BY <3>1 DEF Full, HeldApart
    <3> QED
      BY <1>4, <3>1, <3>2
  <2>2. \A s \in Runners : runner[s] \in {"node", "post"} => runner'[s] \in {"node", "post"}
    BY <1>2
  <2> QED
    BY <1>2, <2>1, <2>2 DEF Full, HeldApart
<1>13. Found'
  <2>1. ASSUME NEW m \in started, m # n
        PROVE  /\ name[m] \in Names
               /\ \/ finished'[m]
                  \/ \E s \in Runners : runner'[s] = "node" /\ current[s] = m
                  \/ name[m] \in DOMAIN map' /\ m \in ToSet(map'[name[m]])
    <3>0. m \in Nodes
      BY DEF Full, TypeOK, QueuesTypeOK, RunnersTypeOK
    <3>1. CASE finished[m]
      BY <1>4, <2>1, <3>0, <3>1 DEF Full, Found
    <3>2. CASE \E s \in Runners : runner[s] = "node" /\ current[s] = m
      BY <1>1, <1>2, <2>1, <3>2 DEF Full, Found
    <3>3. CASE name[m] \in DOMAIN map /\ m \in ToSet(map[name[m]])
      <4>1. map[name[m]] # <<>>
        BY <3>3 DEF ToSet
      <4>2. name[m] \in DOMAIN map'
        BY <1>7, <3>3, <4>1
      <4> QED
        BY <1>7, <3>3, <4>2 DEF Full, Found
    <3> QED
      BY <3>1, <3>2, <3>3 DEF Full, Found
  <2>2. name[n] \in Names /\ finished'[n]
    BY <1>3, <1>4 DEF Full, Found
  <2>3. \A m \in Nodes : finished'[m] => m \in started
    BY <1>3, <1>4 DEF Full, Found
  <2> QED
    BY <1>2, <2>1, <2>2, <2>3 DEF Found
<1>14. OpenHas'
  <2> SUFFICES ASSUME NEW y \in DOMAIN map'
               PROVE  \/ \E s \in Runners : Executes(s, y)'
                      \/ runners'[y] /\ map'[y] # <<>>
    BY <1>7 DEF OpenHas
  <2>1. CASE y = x
    BY <1>3, <1>7, <2>1
  <2>2. CASE y # x
    <3>1. \A s \in Runners : Executes(s, y) => Executes(s, y)'
      BY <1>1, <1>2, <2>2 DEF Executes
    <3>2. y \in DOMAIN runners /\ y \in DOMAIN map
      BY <1>7 DEF Full, Inv, SameNames
    <3> QED
      BY <1>7, <2>2, <3>1, <3>2 DEF Full, OpenHas
  <2> QED
    BY <2>1, <2>2
<1>15. PositionInRange'
  BY <1>8 DEF PositionInRange
<1>16. NobodyStranded'
  BY <1>6 DEF NobodyStranded
<1> QED
  BY <1>6, <1>9, <1>10, <1>11, <1>12, <1>13, <1>14, <1>15, <1>16 DEF Full, Counting

-----------------------------------------------------------------------------

\* Every step keeps the whole invariant.
LEMMA FullInductive ==
  ASSUME Full, [Next]_vars
  PROVE  Full'
<1>0. Inv'
  BY InvInductive DEF Full
<1>1. ASSUME NEW r \in Runners, Run(r) PROVE Full'
  BY <1>0, <1>1, BeginStep, SurplusStep, NothingStep, TakeStep, ReturnStep, EraseStep
     DEF Run
<1>2. ASSUME NEW m \in MaxValues, SetMax(m), UNCHANGED runners PROVE Full'
  BY <1>0, <1>2, RestStep DEF SetMax, SetSchedulerMax
<1>3. CASE UNCHANGED vars
  <2>1. max' \in MaxValues
    BY <1>3 DEF vars, runnerVars, Full, TypeOK, QueuesTypeOK, RunnersTypeOK
  <2> QED
    BY <1>0, <1>3, <2>1, RestStep DEF vars, runnerVars
<1> QED
  BY <1>0, <1>1, <1>2, <1>3, SubmitStep DEF Next

\* It holds at the start, where there is nothing.
LEMMA FullInit ==
  ASSUME Init PROVE Full
<1> USE DEF Init, QueuesInit, RunnersInit
<1>1. Inv
  BY DEF Inv, Types, SameNames, OwnQueue, Closed, Apart
<1>2. Looking = {} /\ Cardinality(Looking) = 0
  BY FS_EmptySet DEF Looking
<1>3. Cardinality(Runners) \in Nat /\ actives \in 0..Cardinality(Runners)
  BY RunnersAssumption, FS_CardinalityType
<1>4. TypeOK
  BY <1>3 DEF TypeOK, QueuesTypeOK, RunnersTypeOK
<1>5. Tidy
  BY DEF Tidy, OnceEach, ToSet
<1>6. Unheld /\ HeldApart /\ Found /\ OpenHas
  BY DEF Unheld, HeldApart, Found, OpenHas
<1>7. PositionInRange
  BY DEF PositionInRange
<1>8. Waiting = {}
  BY DEF Waiting, Queued, QueueOf, ToSet
<1> QED
  BY <1>1, <1>2, <1>4, <1>5, <1>6, <1>7, <1>8 DEF Full, CountsLookers, NobodyStranded

\* What Consistent says of the queues, for every scheduler with named queues.
LEMMA QueuesConsistent ==
  ASSUME QueuesTypeOK, Tidy, OwnQueue, Unheld,
         \A a, b \in Runners : a # b /\ current[a] # None => current[a] # current[b]
  PROVE  VectorIsMap /\ QueuedOnce
<1>1. VectorIsMap
  <2>1. vector \in Seq(Names) /\ OnceEach(vector) /\ ToSet(vector) = DOMAIN map
    BY DEF Tidy, QueuesTypeOK
  <2> QED
    BY <2>1, SeqCount DEF VectorIsMap
<1>2. ASSUME NEW x \in DOMAIN map
      PROVE  /\ \A n \in Queued(x) : name[n] = x
             /\ Cardinality(Queued(x)) = Len(map[x])
  <2>1. /\ map[x] \in Seq(NodesOf(x)) /\ OnceEach(map[x])
        /\ Queued(x) = ToSet(map[x])
    BY DEF OwnQueue, Tidy, Queued, QueueOf
  <2>2. \A i \in DOMAIN map[x] : map[x][i] \in NodesOf(x)
    BY <2>1, ElementOfSeq, LenProperties
  <2> QED
    BY <2>1, <2>2, SeqCount DEF ToSet, NodesOf
<1>3. Waiting \cap (Executing \cup {n \in Nodes : finished[n]}) = {}
  <2> SUFFICES ASSUME NEW n \in Waiting
               PROVE  ~finished[n] /\ \A r \in Runners : current[r] # n
    BY DEF Executing
  <2>1. PICK x \in DOMAIN map : n \in ToSet(map[x])
    <3>1. PICK x \in Names : n \in ToSet(QueueOf(x))
      BY DEF Waiting, Queued
    <3>2. x \in DOMAIN map
      BY <3>1 DEF QueueOf, ToSet
    <3> QED
      BY <3>1, <3>2 DEF QueueOf
  <2> QED
    BY <2>1 DEF Unheld
<1> QED
  BY <1>1, <1>2, <1>3 DEF QueuedOnce

\* What Consistent says follows from the invariant.
LEMMA FullIsConsistent ==
  ASSUME Full PROVE Consistent
<1>1. \A a, b \in Runners : a # b /\ current[a] # None => current[a] # current[b]
  BY DEF Full, HeldApart
<1>2. VectorIsMap /\ QueuedOnce
  BY <1>1, QueuesConsistent DEF Full, Inv, TypeOK
<1>3. ClosedWhileRunning
  <2>1. ASSUME NEW x \in DOMAIN runners
        PROVE  IF \E n \in Executing : name[n] = x
               THEN ~runners[x]
               ELSE runners[x] /\ map[x] # <<>>
    <3>1. ASSUME NEW n \in Executing, name[n] = x PROVE ~runners[x]
      BY <3>1 DEF Executing, Full, Inv, Closed
    <3>2. ASSUME NEW r \in Runners, Executes(r, x)
          PROVE  \E n \in Executing : name[n] = x
      <4>1. current[r] \in Nodes
        BY <3>2 DEF Executes, Full, Inv, Closed, TypeOK, QueuesTypeOK, RunnersTypeOK
      <4>2. current[r] \in Executing /\ name[current[r]] = x
        BY <3>2, <4>1 DEF Executes, Executing
      <4> QED
        BY <4>2
    <3> QED
      BY <3>1, <3>2 DEF Full, OpenHas
  <2> QED
    BY <2>1 DEF ClosedWhileRunning, Full, Inv, SameNames
<1> QED
  BY <1>2, <1>3 DEF Full, Consistent

\* Full is an invariant of the specification.
LEMMA FullHolds == Spec => []Full
<1>1. Init => Full
  BY FullInit
<1>2. Full /\ [Next]_vars => Full'
  BY FullInductive
<1> QED
  BY <1>1, <1>2, PTL DEF Spec

\* The bookkeeping of singular.cpp - the counter of runners, map, vector,
\* position and runners() - agrees with what runs and waits in every
\* interleaving, and no waiting node is left without a runner as long as
\* nobody uses the empty name.
THEOREM ConsistentHolds == Spec => []Consistent
<1>1. Full => Consistent
  BY FullIsConsistent
<1> QED
  BY <1>1, FullHolds, PTL

\* What place asks of runners() is the truth: a name is there exactly while a
\* submitted node of that name is unfinished.
THEOREM NameInUseHolds == Spec => []NameInUse
<1>1. Full => NameInUse
  <2> SUFFICES ASSUME Full, NEW x \in Names
               PROVE  x \in DOMAIN runners <=> \E n \in started : name[n] = x /\ ~finished[n]
    BY DEF NameInUse
  <2>1. DOMAIN runners = DOMAIN map
    BY DEF Full, Inv, SameNames
  <2>2. ASSUME NEW n \in started, name[n] = x, ~finished[n] PROVE x \in DOMAIN runners
    <3>1. CASE \E r \in Runners : runner[r] = "node" /\ current[r] = n
      BY <2>2, <3>1 DEF Full, Inv, Closed
    <3>2. CASE name[n] \in DOMAIN map
      BY <2>1, <2>2, <3>2
    <3> QED
      BY <2>2, <3>1, <3>2 DEF Full, Found
  <2> QED
    BY <2>1, <2>2, NameHasNode
<1> QED
  BY <1>1, FullHolds, PTL

-----------------------------------------------------------------------------
(* What the scheduled and the balanced scheduler share.  Their modules     *)
(* extend NamedQueues as Singular does, with variables of the same names,  *)
(* and are instantiated below.  Queues is the part of their invariants     *)
(* that speaks of the variables of NamedQueues only.                       *)

\* A runner has a node from dequeue to the end of its round.
Busy(r) == runner[r] \in {"node", "clean", "post"}

Held ==
  /\ \A r \in Runners : IF Busy(r) THEN current[r] \in started ELSE current[r] = None
  /\ \A r, s \in Runners : r # s /\ current[r] # None => current[r] # current[s]

\* Only submitted nodes have finished, and they have names.
Submitted ==
  /\ \A n \in started : name[n] \in Names
  /\ \A n \in Nodes : finished[n] => n \in started

Queues ==
  QueuesTypeOK /\ CountsLookers /\ Tidy /\ OwnQueue /\ Unheld /\ Held /\ Submitted

\* It is what Consistent of both says of these variables.
LEMMA QueuesAreConsistent ==
  ASSUME Queues PROVE VectorIsMap /\ QueuedOnce
BY QueuesConsistent DEF Queues, Held

\* Types and counter, as the lemmas on single runners take them.
LEMMA QueuesCount ==
  ASSUME Queues
  PROVE  Types /\ Counting /\ max \in Nat /\ max >= 1 /\ actives \in Nat
<1>1. max \in 1..Cardinality(Runners) /\ actives \in 0..Cardinality(Runners)
  BY RunnersAssumption DEF Queues, QueuesTypeOK, RunnersTypeOK
<1> QED
  BY <1>1 DEF Queues, Counting, QueuesTypeOK, RunnersTypeOK, Types

\* Nothing is queued at the start.
LEMMA QueuesAtStart ==
  ASSUME QueuesInit PROVE Queues /\ NobodyStranded
<1> USE DEF QueuesInit, RunnersInit
<1>1. Looking = {} /\ Cardinality(Looking) = 0
  BY FS_EmptySet DEF Looking
<1>2. Cardinality(Runners) \in Nat /\ actives \in 0..Cardinality(Runners)
  BY RunnersAssumption, FS_CardinalityType
<1>3. QueuesTypeOK
  BY <1>2 DEF QueuesTypeOK, RunnersTypeOK
<1>4. Tidy
  BY DEF Tidy, OnceEach, ToSet
<1>5. OwnQueue /\ Unheld /\ Held /\ Submitted
  BY DEF OwnQueue, Unheld, Held, Busy, Submitted
<1>6. Waiting = {}
  BY DEF Waiting, Queued, QueueOf, ToSet
<1> QED
  BY <1>1, <1>3, <1>4, <1>5, <1>6 DEF Queues, CountsLookers, NobodyStranded

\* push and the new runner of start.
LEMMA QueuesPush ==
  ASSUME Queues, NEW n \in Nodes, NEW x \in Names, Push(n, x), SpawnCounted(actives < max),
         UNCHANGED <<current, finished, max, position, running>>
  PROVE  /\ Queues' /\ NobodyStranded'
         /\ \A r \in Runners : \/ runner'[r] = runner[r]
                               \/ runner[r] = "free" /\ runner'[r] = "queued"
<1>1. /\ Counting' /\ actives' >= 1
      /\ \A r \in Runners : \/ runner'[r] = runner[r]
                            \/ runner[r] = "free" /\ runner'[r] = "queued"
  <2>1. /\ Counting'
        /\ IF actives < max THEN actives' >= 1 ELSE actives' = actives
        /\ \A r \in Runners : \/ runner'[r] = runner[r]
                              \/ runner[r] = "free" /\ runner'[r] = "queued"
    BY QueuesCount, SpawnStep
  <2>2. actives' >= 1
    BY <2>1, QueuesCount
  <2> QED
    BY <2>1, <2>2
<1>2. /\ DOMAIN map' = DOMAIN map \cup {x} /\ x \in DOMAIN map'
      /\ map'[x] \in Seq(Nodes) /\ OnceEach(map'[x]) /\ map'[x] # <<>>
      /\ ToSet(map'[x]) = ToSet(QueueOf(x)) \cup {n}
      /\ \A y \in DOMAIN map \ {x} : map'[y] = map[y]
      /\ vector' \in Seq(Names) /\ OnceEach(vector')
      /\ ToSet(vector') = DOMAIN map'
  BY PushQueues DEF Queues
<1>3. /\ n \notin started /\ started' = started \cup {n} /\ name'[n] = x
      /\ name' = [name EXCEPT ![n] = x]
      /\ \A m \in Nodes \ {n} : name'[m] = name[m]
  BY DEF Push, IsNext, Queues, QueuesTypeOK
<1>4. ToSet(QueueOf(x)) = IF x \in DOMAIN map THEN ToSet(map[x]) ELSE {}
  BY DEF QueueOf, ToSet
<1>5. ~finished[n] /\ \A r \in Runners : current[r] # n
  BY <1>3, RunnersAssumption DEF Queues, Held, Submitted
<1>6. RunnersTypeOK'
  <2>1. runner' \in [Runners -> {"free", "queued", "loop", "node", "clean", "post", "left"}]
    BY QueuesCount, SpawnKeepsExecution DEF SpawnCounted
  <2> QED
    BY <1>3, <2>1 DEF Queues, QueuesTypeOK, RunnersTypeOK
<1>7. QueuesTypeOK'
  <2>1. DOMAIN map' \subseteq Names /\ \A y \in DOMAIN map' : map'[y] \in Seq(Nodes)
    BY <1>2 DEF Queues, QueuesTypeOK
  <2> QED
    BY <1>1, <1>2, <1>3, <1>6, <2>1 DEF Queues, QueuesTypeOK, Counting
<1>8. Tidy'
  BY <1>2 DEF Queues, Tidy
<1>9. OwnQueue'
  <2> SUFFICES ASSUME NEW y \in DOMAIN map' PROVE map'[y] \in Seq(NodesOf(y)')
    BY DEF OwnQueue
  <2>1. started \subseteq Nodes
    BY DEF Queues, QueuesTypeOK, RunnersTypeOK
  <2>2. NodesOf(y) \subseteq NodesOf(y)'
    BY <1>3, <2>1 DEF NodesOf
  <2>3. CASE y = x
    <3>1. QueueOf(x) \in Seq(NodesOf(x)')
      BY <2>2, <2>3, QueueOfLargerSet DEF Queues, OwnQueue, QueueOf
    <3>2. n \in NodesOf(x)' /\ map'[x] = Append(QueueOf(x), n)
      BY <1>3 DEF NodesOf, Push, Put
    <3> QED
      BY <2>3, <3>1, <3>2
  <2>4. CASE y # x
    <3>1. y \in DOMAIN map /\ map'[y] = map[y]
      BY <1>2, <2>4
    <3> QED
      BY <2>2, <3>1, QueueOfLargerSet DEF Queues, OwnQueue
  <2> QED
    BY <2>3, <2>4
<1>10. Unheld'
  BY <1>2, <1>3, <1>4, <1>5 DEF Queues, Unheld
<1>11. Held'
  <2>1. \A r \in Runners : Busy(r)' <=> Busy(r)
    BY <1>1 DEF Busy
  <2> QED
    BY <1>3, <2>1 DEF Queues, Held
<1>12. Submitted'
  BY <1>3 DEF Queues, Submitted, QueuesTypeOK, RunnersTypeOK
<1>13. NobodyStranded'
  <2>1. actives' \in Int /\ actives' = Cardinality(Looking') /\ Looking' \in SUBSET Runners
    BY <1>1 DEF Counting, CountsLookers, Looking
  <2> QED
    BY <1>1, <2>1, SomebodyCounted DEF NobodyStranded
<1> QED
  BY <1>1, <1>7, <1>8, <1>9, <1>10, <1>11, <1>12, <1>13 DEF Queues, Counting

\* A step that only removes names from the map, or leaves the queues alone: a
\* runner that lost its node lets it go, and what finished was held.
LEMMA QueuesShrink ==
  ASSUME Queues, RunnersTypeOK', Counting', position' \in Nat, running' \subseteq Nodes,
         UNCHANGED <<name, started>>, DOMAIN map' \subseteq DOMAIN map,
         \A y \in DOMAIN map' : map'[y] = map[y],
         vector' \in Seq(Names), OnceEach(vector'), ToSet(vector') = DOMAIN map',
         \A r \in Runners : IF Busy(r)' THEN Busy(r) /\ current'[r] = current[r]
                                        ELSE current'[r] = None,
         \A n \in Nodes : finished'[n] =>
           finished[n] \/ \E r \in Runners : Busy(r) /\ current[r] = n
  PROVE  Queues'
<1>1. QueuesTypeOK'
  BY DEF Queues, QueuesTypeOK, Counting
<1>2. Tidy' /\ OwnQueue'
  BY DEF Queues, Tidy, OwnQueue, NodesOf
<1>3. Held'
  <2>1. \A r \in Runners : current'[r] # None => current'[r] = current[r]
    OBVIOUS
  <2>2. \A r \in Runners : IF Busy(r)' THEN current'[r] \in started' ELSE current'[r] = None
    BY DEF Queues, Held
  <2> QED
    BY <2>1, <2>2 DEF Queues, Held
<1>4. Submitted'
  BY DEF Queues, Submitted, Held
<1>5. Unheld'
  <2> SUFFICES ASSUME NEW y \in DOMAIN map', NEW m \in ToSet(map'[y])
               PROVE  ~finished'[m] /\ \A r \in Runners : current'[r] # m
    BY DEF Unheld
  <2>1. y \in DOMAIN map /\ m \in ToSet(map[y])
    OBVIOUS
  <2>2. ~finished[m] /\ \A r \in Runners : current[r] # m
    BY <2>1 DEF Queues, Unheld
  <2>3. m \in Nodes
    <3>1. map[y] \in Seq(Nodes)
      BY <2>1 DEF Queues, QueuesTypeOK
    <3>2. \A i \in DOMAIN map[y] : map[y][i] \in Nodes
      BY <3>1, ElementOfSeq, LenProperties
    <3> QED
      BY <2>1, <3>2 DEF ToSet
  <2>4. ~finished'[m]
    BY <2>2, <2>3
  <2>5. \A r \in Runners : current'[r] # m
    BY <2>2, <2>3, RunnersAssumption
  <2> QED
    BY <2>4, <2>5
<1> QED
  BY <1>1, <1>2, <1>3, <1>4, <1>5 DEF Queues, Counting

\* dequeue hands the front of the queue of x to a runner; other names may
\* leave the map.
LEMMA QueuesTake ==
  ASSUME Queues, NEW r \in Runners, NEW x \in DOMAIN map, map[x] # <<>>,
         runner[r] = "loop", TakeNode(r, Head(map[x])), UNCHANGED <<name, actives>>,
         DOMAIN map' \subseteq DOMAIN map, x \in DOMAIN map', map'[x] = Tail(map[x]),
         \A y \in DOMAIN map' \ {x} : map'[y] = map[y],
         vector' \in Seq(Names), OnceEach(vector'), ToSet(vector') = DOMAIN map',
         position' \in Nat, running' = running \cup {Head(map[x])}
  PROVE  /\ Queues' /\ Looking' = Looking /\ r \in Looking
         /\ Head(map[x]) \in started /\ name[Head(map[x])] = x
         /\ Head(map[x]) \in ToSet(map[x])
         /\ ToSet(map'[x]) = ToSet(map[x]) \ {Head(map[x])}
<1>1. PICK n, q : n = Head(map[x]) /\ q = Tail(map[x]) /\ IsTail(q, map[x])
  BY DEF IsTail
<1>2. /\ runner' = [runner EXCEPT ![r] = "node"] /\ current' = [current EXCEPT ![r] = n]
      /\ UNCHANGED <<finished, max, started>> /\ running' = running \cup {n}
      /\ map'[x] = q
  BY <1>1 DEF TakeNode
<1>3. /\ n \in ToSet(map[x]) /\ ToSet(q) = ToSet(map[x]) \ {n}
      /\ n \in NodesOf(x) /\ q \in Seq(NodesOf(x)) /\ OnceEach(q)
  <2>1. map[x] \in Seq(NodesOf(x)) /\ OnceEach(map[x])
    BY DEF Queues, OwnQueue, Tidy
  <2> QED
    BY <1>1, <2>1, SeqTail
<1>4. /\ n \in started /\ n \in Nodes /\ name[n] = x /\ n # None
      /\ \A s \in Runners : current[s] # n
  BY <1>3, RunnersAssumption
     DEF NodesOf, Queues, Unheld, QueuesTypeOK, RunnersTypeOK
<1>5. /\ runner'[r] = "node" /\ current'[r] = n
      /\ \A s \in Runners \ {r} : runner'[s] = runner[s] /\ current'[s] = current[s]
  BY <1>2 DEF Queues, QueuesTypeOK, RunnersTypeOK
<1>6. Counting' /\ Looking' = Looking /\ r \in Looking
  BY <1>5, QueuesCount, MoveStep
<1>7. QueuesTypeOK'
  <2>1. RunnersTypeOK'
    BY <1>2, <1>4 DEF Queues, QueuesTypeOK, RunnersTypeOK
  <2>2. q \in Seq(Nodes)
    <3>1. NodesOf(x) \subseteq Nodes
      BY DEF NodesOf, Queues, QueuesTypeOK, RunnersTypeOK
    <3> QED
      BY <1>3, <3>1, QueueOfLargerSet
  <2>3. DOMAIN map' \subseteq Names /\ \A y \in DOMAIN map' : map'[y] \in Seq(Nodes)
    BY <1>2, <2>2 DEF Queues, QueuesTypeOK
  <2> QED
    BY <1>2, <1>4, <1>6, <2>1, <2>3 DEF Queues, QueuesTypeOK, Counting
<1>8. Tidy'
  BY <1>2, <1>3 DEF Queues, Tidy
<1>9. OwnQueue'
  <2>1. \A y : NodesOf(y)' = NodesOf(y)
    BY <1>2 DEF NodesOf
  <2> QED
    BY <1>2, <1>3, <2>1 DEF Queues, OwnQueue
<1>10. Unheld'
  <2> SUFFICES ASSUME NEW y \in DOMAIN map', NEW m \in ToSet(map'[y])
               PROVE  ~finished[m] /\ \A s \in Runners : current'[s] # m
    BY <1>2 DEF Unheld
  <2>1. y \in DOMAIN map /\ m \in ToSet(map[y]) /\ (y = x => m # n)
    BY <1>2, <1>3
  <2>2. ~finished[m] /\ \A s \in Runners : current[s] # m
    BY <2>1 DEF Queues, Unheld
  <2>3. m # n
    <3>1. CASE y = x
      BY <2>1, <3>1
    <3>2. CASE y # x
      <4>1. map[y] \in Seq(NodesOf(y))
        BY <2>1 DEF Queues, OwnQueue
      <4>2. \A i \in DOMAIN map[y] : map[y][i] \in NodesOf(y)
        BY <4>1, ElementOfSeq, LenProperties
      <4>3. name[m] = y
        BY <2>1, <4>2 DEF ToSet, NodesOf
      <4> QED
        BY <1>4, <3>2, <4>3
    <3> QED
      BY <3>1, <3>2
  <2> QED
    BY <1>5, <2>2, <2>3
<1>11. Held'
  <2>1. \A s \in Runners : IF Busy(s)' THEN current'[s] \in started ELSE current'[s] = None
    BY <1>4, <1>5 DEF Queues, Held, Busy
  <2>2. \A s, t \in Runners : s # t /\ current'[s] # None => current'[s] # current'[t]
    BY <1>4, <1>5 DEF Queues, Held
  <2> QED
    BY <1>2, <2>1, <2>2 DEF Held
<1>12. Submitted'
  BY <1>2 DEF Queues, Submitted
<1> QED
  BY <1>1, <1>2, <1>3, <1>4, <1>6, <1>7, <1>8, <1>9, <1>10, <1>11, <1>12
     DEF Queues, Counting

\* Steps of a runner, or of max(), that leave the queues alone: it begins,
\* it ends a round, nothing changes.
LEMMA QueuesRest ==
  ASSUME Queues, UNCHANGED <<name, map, vector, started, finished, position, actives>>,
         max' \in MaxValues, running' \subseteq running,
         \/ UNCHANGED <<runner, current>>
         \/ \E r \in Runners :
              \/ /\ runner[r] = "queued" /\ runner' = [runner EXCEPT ![r] = "loop"]
                 /\ current' = current
              \/ /\ runner[r] = "post" /\ runner' = [runner EXCEPT ![r] = "loop"]
                 /\ current' = [current EXCEPT ![r] = None]
  PROVE  /\ Queues' /\ Looking' = Looking
         /\ \A r \in Runners : runner'[r] = "node" <=> runner[r] = "node"
         /\ \A r \in Runners : runner'[r] = "clean" <=> runner[r] = "clean"
         /\ \A r \in Runners : Busy(r)' => current'[r] = current[r]
<1>1. RunnersTypeOK'
  BY DEF Queues, QueuesTypeOK, RunnersTypeOK
<1>2. Counting' /\ Looking' = Looking
  <2>1. CASE UNCHANGED <<runner, current>>
    BY <2>1, QueuesCount DEF Counting, CountsLookers, Looking
  <2>2. CASE ~UNCHANGED <<runner, current>>
    <3>1. PICK r \in Runners : /\ runner[r] \in {"queued", "post"}
                               /\ runner' = [runner EXCEPT ![r] = "loop"]
      BY <2>2
    <3>2. runner'[r] = "loop" /\ \A s \in Runners \ {r} : runner'[s] = runner[s]
      BY <3>1 DEF Queues, QueuesTypeOK, RunnersTypeOK
    <3> QED
      BY <3>1, <3>2, QueuesCount, MoveStep
  <2> QED
    BY <2>1, <2>2
<1>3. /\ position' \in Nat /\ running' \subseteq Nodes /\ vector' \in Seq(Names)
      /\ OnceEach(vector') /\ ToSet(vector') = DOMAIN map'
  BY DEF Queues, QueuesTypeOK, Tidy
<1>4. \A r \in Runners : IF Busy(r)' THEN Busy(r) /\ current'[r] = current[r]
                                     ELSE current'[r] = None
  BY DEF Queues, Held, Busy, QueuesTypeOK, RunnersTypeOK
<1>5. Queues'
  BY <1>1, <1>2, <1>3, <1>4, QueuesShrink
<1>6. /\ \A r \in Runners : runner'[r] = "node" <=> runner[r] = "node"
      /\ \A r \in Runners : runner'[r] = "clean" <=> runner[r] = "clean"
  BY DEF Queues, QueuesTypeOK, RunnersTypeOK
<1> QED
  BY <1>2, <1>4, <1>5, <1>6

\* dequeue dismisses a runner; names may leave the map.
LEMMA QueuesDismiss ==
  ASSUME Queues, NEW r \in Runners, runner[r] = "loop", Dismiss(r),
         UNCHANGED <<name, running>>, position' \in Nat,
         DOMAIN map' \subseteq DOMAIN map, \A y \in DOMAIN map' : map'[y] = map[y],
         vector' \in Seq(Names), OnceEach(vector'), ToSet(vector') = DOMAIN map'
  PROVE  /\ Queues'
         /\ \A s \in Runners : IF s = r THEN runner'[s] = "free" ELSE runner'[s] = runner[s]
<1>1. /\ Counting' /\ runner'[r] = "free"
      /\ \A s \in Runners \ {r} : runner'[s] = runner[s]
  BY QueuesCount, DismissStep
<1>2. RunnersTypeOK' /\ UNCHANGED <<current, finished, max, started>>
  BY DEF Dismiss, Queues, QueuesTypeOK, RunnersTypeOK
<1>3. \A s \in Runners : IF Busy(s)' THEN Busy(s) /\ current'[s] = current[s]
                                     ELSE current'[s] = None
  BY <1>1, <1>2 DEF Queues, Held, Busy
<1>4. running' \subseteq Nodes
  BY DEF Queues, QueuesTypeOK
<1>5. Queues'
  BY <1>1, <1>2, <1>3, <1>4, QueuesShrink
<1> QED
  BY <1>1, <1>5

-----------------------------------------------------------------------------
(* The scheduled scheduler.  Consistent is not inductive because runners() *)
(* counts nodes in execution, which are found through the runners that     *)
(* have them: the invariant counts runners, each with its own node.        *)

Sch == INSTANCE Scheduled

\* The runners that execute a node of x.
RunnersFor(x) == {r \in Runners : Executes(r, x)}

\* runners() counts them, although nodes count themselves out without the mutex.
SchedCounted ==
  /\ DOMAIN runners \subseteq Names
  /\ \A x \in Names : Sch!RunnersOf(x) = Cardinality(RunnersFor(x))

\* Runner r is about to take the mutex and to look whether x has a use.
Cleans(r, x) == runner[r] = "clean" /\ name[current[r]] = x

\* A name without nodes and runners is about to be removed.
SchedUnused ==
  \A x \in DOMAIN map :
    map[x] = <<>> /\ Sch!RunnersOf(x) = 0 => \E r \in Runners : Cleans(r, x)

\* position is an index of the vector.
SchedPosition == position < Len(vector) \/ (vector = <<>> /\ position = 0)

SchedInv ==
  Queues /\ NobodyStranded /\ SchedPosition /\ SchedCounted /\ SchedUnused

\* Steps after which the same runners execute and clean the same nodes.
LEMMA SchedQuiet ==
  ASSUME SchedInv, Queues', NobodyStranded', SchedPosition', UNCHANGED <<name, map, runners>>,
         \A r \in Runners : /\ runner'[r] = "node" <=> runner[r] = "node"
                            /\ runner[r] = "clean" => runner'[r] = "clean"
                            /\ runner[r] \in {"node", "clean"} => current'[r] = current[r]
  PROVE  SchedInv'
<1>1. \A x : RunnersFor(x)' = RunnersFor(x)
  BY DEF RunnersFor, Executes
<1>2. \A x : Sch!RunnersOf(x)' = Sch!RunnersOf(x)
  BY DEF Sch!RunnersOf
<1>3. SchedCounted'
  BY <1>1, <1>2 DEF SchedInv, SchedCounted
<1>4. SchedUnused'
  BY <1>2 DEF SchedInv, SchedUnused, Cleans
<1> QED
  BY <1>3, <1>4 DEF SchedInv

\* What the walk of dequeue stops at is a name of the vector.
LEMMA SchedChosen ==
  ASSUME SchedInv, vector # <<>>
  PROVE  Sch!Chosen \in DOMAIN map /\ Sch!Chosen \in Names
<1>1. /\ vector \in Seq(Names) /\ DOMAIN vector = 1..Len(vector)
      /\ ToSet(vector) = DOMAIN map /\ position \in Nat /\ DOMAIN map \subseteq Names
  BY LenProperties DEF SchedInv, Queues, Tidy, QueuesTypeOK
<1>2. PICK l \in Nat \ {0} : l = Len(vector)
  BY <1>1, EmptySeq, LenProperties
<1>3. ASSUME NEW i \in 1..l PROVE Sch!Visit[i] \in DOMAIN map
  <2>1. ((position + i - 1) % l) + 1 \in 1..l
    BY <1>1
  <2>2. Sch!Visit[i] = vector[((position + i - 1) % l) + 1]
    BY <1>2 DEF Sch!Visit
  <2> QED
    BY <1>1, <1>2, <2>1, <2>2 DEF ToSet
<1>4. \A i \in 1..l : Sch!RunnersOf(Sch!Visit[i]) \in Nat
  <2>1. \A x \in Names : Cardinality(RunnersFor(x)) \in Nat
    <3>1. \A x \in Names : RunnersFor(x) \in SUBSET Runners
      BY DEF RunnersFor
    <3> QED
      BY <3>1, RunnersCount
  <2> QED
    BY <1>1, <1>3, <2>1 DEF SchedInv, SchedCounted
<1> DEFINE counts == {Sch!RunnersOf(Sch!Visit[i]) : i \in 1..l}
           best == {i \in 1..l : \A j \in 1..l :
                      Sch!RunnersOf(Sch!Visit[j]) >= Sch!RunnersOf(Sch!Visit[i])}
<1>5. best # {}
  <2>1. counts \in SUBSET Nat /\ counts # {}
    BY <1>4
  <2>2. PICK c \in counts : \A d \in counts : c <= d
    BY <2>1, HasLeast
  <2>3. PICK i \in 1..l : c = Sch!RunnersOf(Sch!Visit[i])
    OBVIOUS
  <2>4. \A j \in 1..l : Sch!RunnersOf(Sch!Visit[j]) >= Sch!RunnersOf(Sch!Visit[i])
    <3> SUFFICES ASSUME NEW j \in 1..l
                 PROVE  Sch!RunnersOf(Sch!Visit[j]) >= Sch!RunnersOf(Sch!Visit[i])
      OBVIOUS
    <3>1. PICK d \in Nat : d = Sch!RunnersOf(Sch!Visit[j])
      BY <1>4
    <3>2. c \in Nat /\ c <= d
      BY <1>4, <2>2, <2>3, <3>1
    <3> QED
      BY <2>3, <3>1, <3>2
  <2> QED
    BY <2>4
<1>6. (CHOOSE i \in best : \A j \in best : i <= j) \in best
  BY <1>2, <1>5, LeastIsMember
<1>7. Sch!Chosen = Sch!Visit[CHOOSE i \in best : \A j \in best : i <= j]
  BY <1>2 DEF Sch!Chosen
<1>8. PICK i \in 1..l : Sch!Chosen = Sch!Visit[i]
  BY <1>6, <1>7
<1> QED
  BY <1>1, <1>3, <1>8

\* The next position is an index of a vector that is not empty.
LEMMA SchedNextPosition ==
  ASSUME SchedInv, vector # <<>>
  PROVE  Sch!NextPosition \in Nat /\ Sch!NextPosition < Len(vector)
<1>1. PICK l \in Nat \ {0} : l = Len(vector)
  BY EmptySeq, LenProperties DEF SchedInv, Queues, QueuesTypeOK
<1>2. position \in Nat
  BY DEF SchedInv, Queues, QueuesTypeOK
<1> QED
  BY <1>1, <1>2 DEF Sch!NextPosition

\* scheduled::start.
LEMMA SchedStart ==
  ASSUME SchedInv, NEW n \in Nodes, NEW x \in Names, Sch!Start(n, x)
  PROVE  SchedInv'
<1>1. /\ Push(n, x) /\ SpawnCounted(actives < max)
      /\ UNCHANGED <<current, finished, max, position, running>>
      /\ runners' = Put(runners, x, Sch!RunnersOf(x))
  BY DEF Sch!Start, Sch!Push, Push, Sch!IsNext, IsNext, Sch!Put, Put, Sch!QueueOf, QueueOf,
     Sch!SpawnCounted, SpawnCounted, Sch!SpawnIf, SpawnIf, Sch!FreeRunners, FreeRunners
<1>2. /\ Queues' /\ NobodyStranded'
      /\ \A r \in Runners : \/ runner'[r] = runner[r]
                            \/ runner[r] = "free" /\ runner'[r] = "queued"
  BY <1>1, QueuesPush DEF SchedInv
<1>3. /\ DOMAIN map' = DOMAIN map \cup {x} /\ map'[x] # <<>>
      /\ \A y \in DOMAIN map \ {x} : map'[y] = map[y]
      /\ Len(vector') \in Nat /\ Len(vector') >= 1 /\ Len(vector') >= Len(vector)
      /\ Len(vector) \in Nat
  BY <1>1, PushQueues DEF SchedInv, Queues
<1>4. n \notin started /\ \A m \in started : name'[m] = name[m]
  BY <1>1 DEF Push, IsNext, SchedInv, Queues, QueuesTypeOK, RunnersTypeOK
<1>5. \A r \in Runners : Busy(r) => name'[current'[r]] = name[current[r]]
  BY <1>1, <1>4 DEF SchedInv, Queues, Held
<1>6. \A y : RunnersFor(y)' = RunnersFor(y)
  BY <1>2, <1>5 DEF RunnersFor, Executes, Busy
<1>7. \A y : Sch!RunnersOf(y)' = Sch!RunnersOf(y)
  BY <1>1 DEF Sch!RunnersOf, Put
<1>8. DOMAIN runners' = DOMAIN runners \cup {x}
  BY <1>1 DEF Put
<1>9. SchedCounted'
  BY <1>6, <1>7, <1>8 DEF SchedInv, SchedCounted
<1>10. SchedUnused'
  <2>1. \A r \in Runners : \A y : Cleans(r, y) => Cleans(r, y)'
    BY <1>2, <1>5 DEF Cleans, Busy
  <2>2. ASSUME NEW y \in DOMAIN map', map'[y] = <<>>, Sch!RunnersOf(y)' = 0
        PROVE  \E r \in Runners : Cleans(r, y)'
    <3>1. y \in DOMAIN map /\ map[y] = <<>> /\ Sch!RunnersOf(y) = 0
      BY <1>3, <1>7, <2>2
    <3> QED
      BY <2>1, <3>1 DEF SchedInv, SchedUnused
  <2> QED
    BY <2>2 DEF SchedUnused
<1>11. SchedPosition'
  <2>1. position \in Nat
    BY DEF SchedInv, Queues, QueuesTypeOK
  <2> QED
    BY <1>1, <1>3, <2>1 DEF SchedInv, SchedPosition
<1> QED
  BY <1>2, <1>9, <1>10, <1>11 DEF SchedInv

\* scheduled::dequeue without a node: the runner leaves, although other names
\* may have nodes.  Whoever uses the name it stopped at will look again.
LEMMA SchedDismiss ==
  ASSUME SchedInv, NEW r \in Runners, Sch!DequeueNothing(r) \/ Sch!DequeueEmptyQueue(r)
  PROVE  SchedInv'
<1>1. /\ runner[r] = "loop" /\ Dismiss(r) /\ UNCHANGED <<name, map, vector, running, runners>>
      /\ \/ vector = <<>> /\ position' = position
         \/ vector # <<>> /\ QueueOf(Sch!Chosen) = <<>> /\ position' = Sch!NextPosition
  BY DEF Sch!DequeueNothing, Sch!DequeueEmptyQueue, Sch!Dismiss, Dismiss, Sch!QueueOf, QueueOf
<1>2. position' \in Nat /\ SchedPosition'
  <2>1. position \in Nat
    BY DEF SchedInv, Queues, QueuesTypeOK
  <2> QED
    BY <1>1, <2>1, SchedNextPosition DEF SchedInv, SchedPosition
<1>3. vector' \in Seq(Names) /\ OnceEach(vector') /\ ToSet(vector') = DOMAIN map'
  BY <1>1 DEF SchedInv, Queues, QueuesTypeOK, Tidy
<1>4. /\ Queues'
      /\ \A s \in Runners : IF s = r THEN runner'[s] = "free" ELSE runner'[s] = runner[s]
  BY <1>1, <1>2, <1>3, QueuesDismiss DEF SchedInv
<1>5. NobodyStranded'
  <2> SUFFICES ASSUME Waiting # {} PROVE Looking' # {}
    BY <1>1 DEF NobodyStranded, Waiting, Queued, QueueOf
  <2>1. vector # <<>>
    <3>1. DOMAIN map # {}
      BY WaitingHasName
    <3> QED
      BY <3>1 DEF SchedInv, Queues, Tidy, ToSet
  <2>2. PICK x \in Names : x = Sch!Chosen /\ x \in DOMAIN map /\ map[x] = <<>>
    BY <1>1, <2>1, SchedChosen DEF QueueOf
  <2>3. CASE Sch!RunnersOf(x) = 0
    <3>1. PICK s \in Runners : runner[s] = "clean"
      BY <2>2, <2>3 DEF SchedInv, SchedUnused, Cleans
    <3>2. runner'[s] = "clean"
      BY <1>1, <1>4, <3>1
    <3> QED
      BY <3>2 DEF Looking
  <2>4. CASE Sch!RunnersOf(x) # 0
    <3>1. RunnersFor(x) \in SUBSET Runners /\ Cardinality(RunnersFor(x)) # 0
      BY <2>4 DEF RunnersFor, SchedInv, SchedCounted
    <3>2. RunnersFor(x) # {}
      BY <3>1, RunnersCount
    <3>3. PICK s \in Runners : runner[s] = "node"
      BY <3>2 DEF RunnersFor, Executes
    <3>4. runner'[s] = "node"
      BY <1>1, <1>4, <3>3
    <3> QED
      BY <3>4 DEF Looking
  <2> QED
    BY <2>3, <2>4
<1>6. current' = current
  BY <1>1 DEF Dismiss
<1> QED
  BY <1>1, <1>2, <1>4, <1>5, <1>6, SchedQuiet

\* scheduled::dequeue with a node.
LEMMA SchedTake ==
  ASSUME SchedInv, NEW r \in Runners, Sch!DequeueName(r)
  PROVE  SchedInv'
<1>1. vector # <<>> /\ Sch!QueueOf(Sch!Chosen) # <<>>
  BY DEF Sch!DequeueName
<1>2. PICK x \in DOMAIN map : x = Sch!Chosen /\ x \in Names
  BY <1>1, SchedChosen
<1>3. Sch!QueueOf(x) = map[x] /\ map[x] # <<>>
  BY <1>1, <1>2 DEF Sch!QueueOf
<1>4. /\ runner[r] = "loop" /\ position' = Sch!NextPosition
      /\ runners' = Put(runners, x, Sch!RunnersOf(x) + 1)
      /\ TakeNode(r, Head(map[x])) /\ map' = Put(map, x, Tail(map[x]))
      /\ running' = running \cup {Head(map[x])} /\ UNCHANGED <<name, vector, actives>>
  BY <1>2, <1>3 DEF Sch!DequeueName, Sch!TakeNode, TakeNode, Sch!Put, Put
<1>5. /\ DOMAIN map' = DOMAIN map /\ map'[x] = Tail(map[x])
      /\ \A y \in DOMAIN map \ {x} : map'[y] = map[y]
  BY <1>4 DEF Put
<1>6. position' \in Nat /\ position' < Len(vector')
  BY <1>1, <1>4, SchedNextPosition
<1>7. vector' \in Seq(Names) /\ OnceEach(vector') /\ ToSet(vector') = DOMAIN map'
  BY <1>4, <1>5 DEF SchedInv, Queues, QueuesTypeOK, Tidy
<1>8. /\ Queues' /\ Looking' = Looking /\ r \in Looking
      /\ Head(map[x]) \in started /\ name[Head(map[x])] = x
  BY <1>3, <1>4, <1>5, <1>6, <1>7, QueuesTake DEF SchedInv
<1>9. PICK n : n = Head(map[x]) /\ name[n] = x
  BY <1>8
<1>10. /\ runner'[r] = "node" /\ current'[r] = n
       /\ \A s \in Runners \ {r} : runner'[s] = runner[s] /\ current'[s] = current[s]
  BY <1>4, <1>9 DEF TakeNode, SchedInv, Queues, QueuesTypeOK, RunnersTypeOK
<1>11. /\ RunnersFor(x)' = RunnersFor(x) \cup {r} /\ r \in Runners \ RunnersFor(x)
       /\ \A y : y # x => RunnersFor(y)' = RunnersFor(y)
  BY <1>4, <1>9, <1>10 DEF RunnersFor, Executes
<1>12. /\ Sch!RunnersOf(x)' = Sch!RunnersOf(x) + 1
       /\ \A y : y # x => Sch!RunnersOf(y)' = Sch!RunnersOf(y)
       /\ DOMAIN runners' = DOMAIN runners \cup {x}
  BY <1>4 DEF Sch!RunnersOf, Put
<1>13. RunnersFor(x) \in SUBSET Runners
  BY DEF RunnersFor
<1>14. Cardinality(RunnersFor(x) \cup {r}) = Cardinality(RunnersFor(x)) + 1
  BY <1>11, <1>13, RunnersCount
<1>15. SchedCounted'
  BY <1>2, <1>11, <1>12, <1>14 DEF SchedInv, SchedCounted
<1>16. SchedUnused'
  <2>1. Sch!RunnersOf(x)' # 0
    <3>1. PICK c \in Nat : c = Cardinality(RunnersFor(x))
      BY <1>13, RunnersCount
    <3>2. Sch!RunnersOf(x) = c
      BY <1>2, <3>1 DEF SchedInv, SchedCounted
    <3> QED
      BY <1>12, <3>2
  <2>2. \A s \in Runners : \A y : Cleans(s, y) => Cleans(s, y)'
    BY <1>4, <1>10 DEF Cleans
  <2>3. ASSUME NEW y \in DOMAIN map', map'[y] = <<>>, Sch!RunnersOf(y)' = 0
        PROVE  \E s \in Runners : Cleans(s, y)'
    <3>1. y \in DOMAIN map /\ map[y] = <<>> /\ Sch!RunnersOf(y) = 0
      BY <1>5, <1>12, <2>1, <2>3
    <3> QED
      BY <2>2, <3>1 DEF SchedInv, SchedUnused
  <2> QED
    BY <2>3 DEF SchedUnused
<1> QED
  BY <1>6, <1>8, <1>15, <1>16 DEF SchedInv, NobodyStranded, SchedPosition

\* scheduled::node::run up to the mutex.
LEMMA SchedReturn ==
  ASSUME SchedInv, NEW r \in Runners, Sch!RunNode(r)
  PROVE  SchedInv'
<1>1. PICK n, x : n = current[r] /\ x = name[n]
  OBVIOUS
<1>2. /\ runner[r] = "node" /\ runner' = [runner EXCEPT ![r] = "clean"]
      /\ finished' = [finished EXCEPT ![n] = TRUE]
      /\ runners' = Put(runners, x, Sch!RunnersOf(x) - 1)
      /\ UNCHANGED <<current, max, started, name, map, vector, position, actives, running>>
  BY <1>1 DEF Sch!RunNode, Sch!Put, Put, Sch!queueVars
<1>3. n \in started /\ n \in Nodes /\ x \in Names
  BY <1>1, <1>2 DEF SchedInv, Queues, Held, Busy, Submitted, QueuesTypeOK, RunnersTypeOK
<1>4. runner'[r] = "clean" /\ \A s \in Runners \ {r} : runner'[s] = runner[s]
  BY <1>2 DEF SchedInv, Queues, QueuesTypeOK, RunnersTypeOK
<1>5. Counting' /\ Looking' = Looking /\ r \in Looking
  BY <1>2, <1>4, QueuesCount, MoveStep DEF SchedInv
<1>6. Queues'
  <2>1. RunnersTypeOK'
    BY <1>2, <1>3 DEF SchedInv, Queues, QueuesTypeOK, RunnersTypeOK
  <2>2. /\ position' \in Nat /\ running' \subseteq Nodes /\ vector' \in Seq(Names)
        /\ OnceEach(vector') /\ ToSet(vector') = DOMAIN map'
    BY <1>2 DEF SchedInv, Queues, QueuesTypeOK, Tidy
  <2>3. \A s \in Runners : IF Busy(s)' THEN Busy(s) /\ current'[s] = current[s]
                                       ELSE current'[s] = None
    BY <1>2, <1>4 DEF SchedInv, Queues, Held, Busy
  <2>4. \A m \in Nodes : finished'[m] =>
          finished[m] \/ \E s \in Runners : Busy(s) /\ current[s] = m
    <3> SUFFICES ASSUME NEW m \in Nodes, m # n, finished'[m] PROVE finished[m]
      BY <1>1, <1>2 DEF Busy
    <3> QED
      BY <1>2 DEF SchedInv, Queues, QueuesTypeOK, RunnersTypeOK
  <2> QED
    BY <1>2, <1>5, <2>1, <2>2, <2>3, <2>4, QueuesShrink DEF SchedInv
<1>7. /\ RunnersFor(x)' = RunnersFor(x) \ {r} /\ r \in RunnersFor(x)
      /\ \A y : y # x => RunnersFor(y)' = RunnersFor(y)
  BY <1>1, <1>2, <1>4 DEF RunnersFor, Executes
<1>8. /\ Sch!RunnersOf(x)' = Sch!RunnersOf(x) - 1
      /\ \A y : y # x => Sch!RunnersOf(y)' = Sch!RunnersOf(y)
      /\ DOMAIN runners' = DOMAIN runners \cup {x}
  BY <1>2 DEF Sch!RunnersOf, Put
<1>9. RunnersFor(x) \in SUBSET Runners
  BY DEF RunnersFor
<1>10. Cardinality(RunnersFor(x) \ {r}) = Cardinality(RunnersFor(x)) - 1
  BY <1>7, <1>9, RunnersCount
<1>11. SchedCounted'
  BY <1>3, <1>7, <1>8, <1>10 DEF SchedInv, SchedCounted
<1>12. SchedUnused'
  <2>1. Cleans(r, x)' /\ \A s \in Runners : \A y : Cleans(s, y) => Cleans(s, y)'
    BY <1>1, <1>2, <1>4 DEF Cleans
  <2> QED
    BY <1>2, <1>8, <2>1 DEF SchedInv, SchedUnused
<1> QED
  BY <1>2, <1>5, <1>6, <1>11, <1>12 DEF SchedInv, NobodyStranded, SchedPosition

\* The locked end of node::run.  Another node of the same name may have
\* removed the name meanwhile.
LEMMA SchedClean ==
  ASSUME SchedInv, NEW r \in Runners, Sch!Clean(r)
  PROVE  SchedInv'
<1>1. PICK n, x : n = current[r] /\ x = name[n]
  OBVIOUS
<1> DEFINE unused == Sch!RunnersOf(x) = 0 /\ QueueOf(x) = <<>>
<1>2. /\ runner[r] = "clean" /\ runner' = [runner EXCEPT ![r] = "post"]
      /\ UNCHANGED <<current, finished, max, started, name, actives, running>>
      /\ IF unused
         THEN /\ map' = Drop(map, {x}) /\ runners' = Drop(runners, {x})
              /\ vector' = RemoveFirst(vector, x)
              /\ position' = IF position >= Len(vector') THEN 0 ELSE position
         ELSE /\ runners' = Put(runners, x, Sch!RunnersOf(x))
              /\ UNCHANGED <<map, vector, position>>
  <2>1. Sch!RemoveFirst(vector, x) = RemoveFirst(vector, x)
    <3>1. Sch!SelectInSeq(vector, LAMBDA v : v = x) = SelectInSeq(vector, LAMBDA v : v = x)
      BY Zenon DEF Sch!SelectInSeq, SelectInSeq, Sch!Min, Min
    <3> QED
      BY <3>1, Zenon DEF Sch!RemoveFirst, RemoveFirst, Sch!RemoveAt, RemoveAt
  <2> QED
    BY <1>1, <2>1 DEF Sch!Clean, Sch!QueueOf, QueueOf, Sch!Drop, Drop, Sch!Put, Put
<1>3. n \in started /\ x \in Names
  BY <1>1, <1>2 DEF SchedInv, Queues, Held, Busy, Submitted
<1>4. runner'[r] = "post" /\ \A s \in Runners \ {r} : runner'[s] = runner[s]
  BY <1>2 DEF SchedInv, Queues, QueuesTypeOK, RunnersTypeOK
<1>5. Counting' /\ Looking' = Looking /\ r \in Looking
  BY <1>2, <1>4, QueuesCount, MoveStep DEF SchedInv
<1>6. /\ DOMAIN map' \subseteq DOMAIN map /\ \A y \in DOMAIN map' : map'[y] = map[y]
      /\ \A y : Sch!RunnersOf(y)' = Sch!RunnersOf(y)
      /\ DOMAIN runners' \subseteq DOMAIN runners \cup {x}
      /\ unused => x \notin DOMAIN map'
  <2>1. CASE unused
    BY <1>2, <2>1 DEF Drop, Sch!RunnersOf
  <2>2. CASE ~unused
    BY <1>2, <2>2 DEF Put, Sch!RunnersOf
  <2> QED
    BY <2>1, <2>2
<1>7. /\ vector' \in Seq(Names) /\ OnceEach(vector') /\ ToSet(vector') = DOMAIN map'
      /\ position' \in Nat /\ SchedPosition'
  <2>1. /\ vector \in Seq(Names) /\ OnceEach(vector) /\ ToSet(vector) = DOMAIN map
        /\ position \in Nat /\ DOMAIN vector = 1..Len(vector)
    BY LenProperties DEF SchedInv, Queues, Tidy, QueuesTypeOK
  <2>2. CASE ~unused
    BY <1>2, <2>1, <2>2 DEF SchedInv, SchedPosition
  <2>3. CASE unused
    <3>1. PICK v : v = RemoveFirst(vector, x)
      OBVIOUS
    <3>2. v \in Seq(Names) /\ OnceEach(v) /\ ToSet(v) = ToSet(vector) \ {x}
      <4>1. CASE x \in ToSet(vector)
        BY <2>1, <3>1, <4>1, SeqRemove
      <4>2. CASE x \notin ToSet(vector)
        <5>1. v = vector
          BY <2>1, <3>1, <4>2 DEF RemoveFirst, ToSet
        <5> QED
          BY <2>1, <4>2, <5>1
      <4> QED
        BY <4>1, <4>2
    <3>3. PICK l \in Nat : l = Len(v)
      BY <3>2, LenProperties
    <3>4. vector' = v /\ position' = IF position >= l THEN 0 ELSE position
      BY <1>2, <2>3, <3>1, <3>3
    <3>5. position' \in Nat /\ (position' < l \/ (l = 0 /\ position' = 0))
      BY <2>1, <3>4
    <3>6. SchedPosition'
      BY <3>2, <3>3, <3>4, <3>5, EmptySeq DEF SchedPosition
    <3>7. DOMAIN map' = DOMAIN map \ {x}
      BY <1>2, <2>3 DEF Drop
    <3> QED
      BY <2>1, <3>2, <3>4, <3>5, <3>6, <3>7
  <2> QED
    BY <2>2, <2>3
<1>8. Queues'
  <2>1. RunnersTypeOK' /\ running' \subseteq Nodes
    BY <1>2 DEF SchedInv, Queues, QueuesTypeOK, RunnersTypeOK
  <2>2. \A s \in Runners : IF Busy(s)' THEN Busy(s) /\ current'[s] = current[s]
                                       ELSE current'[s] = None
    BY <1>2, <1>4 DEF SchedInv, Queues, Held, Busy
  <2> QED
    BY <1>2, <1>5, <1>6, <1>7, <2>1, <2>2, QueuesShrink DEF SchedInv
<1>9. NobodyStranded'
  BY <1>5 DEF NobodyStranded
<1>10. SchedCounted'
  <2>1. \A y : RunnersFor(y)' = RunnersFor(y)
    BY <1>2, <1>4 DEF RunnersFor, Executes
  <2> QED
    BY <1>3, <1>6, <2>1 DEF SchedInv, SchedCounted
<1>11. SchedUnused'
  <2> SUFFICES ASSUME NEW y \in DOMAIN map', map'[y] = <<>>, Sch!RunnersOf(y)' = 0
               PROVE  \E s \in Runners : Cleans(s, y)'
    BY DEF SchedUnused
  <2>1. y \in DOMAIN map /\ map[y] = <<>> /\ Sch!RunnersOf(y) = 0
    BY <1>6
  <2>2. y # x
    BY <1>6, <2>1 DEF QueueOf
  <2>3. PICK s \in Runners : Cleans(s, y)
    BY <2>1 DEF SchedInv, SchedUnused
  <2>4. s # r
    BY <1>1, <2>2, <2>3 DEF Cleans
  <2> QED
    BY <1>2, <1>4, <2>3, <2>4 DEF Cleans
<1> QED
  BY <1>7, <1>8, <1>9, <1>10, <1>11 DEF SchedInv

\* The other steps: a runner begins or ends a round, max() changes.
LEMMA SchedRest ==
  ASSUME SchedInv,
         \/ \E r \in Runners : (Sch!Begin(r) /\ UNCHANGED runners) \/ Sch!Erase(r)
         \/ \E m \in MaxValues : Sch!SetMax(m) /\ UNCHANGED runners
         \/ UNCHANGED Sch!vars
  PROVE  SchedInv'
<1>1. /\ UNCHANGED <<name, map, vector, started, finished, position, actives, runners>>
      /\ running' \subseteq running
      /\ \/ UNCHANGED <<runner, current>>
         \/ \E r \in Runners :
              \/ /\ runner[r] = "queued" /\ runner' = [runner EXCEPT ![r] = "loop"]
                 /\ current' = current
              \/ /\ runner[r] = "post" /\ runner' = [runner EXCEPT ![r] = "loop"]
                 /\ current' = [current EXCEPT ![r] = None]
  BY DEF Sch!Begin, Sch!BeginRunner, Sch!Erase, Sch!NextRound, Sch!SetMax,
     Sch!SetSchedulerMax, Sch!vars, Sch!runnerVars, Sch!queueVars
<1>2. max' \in MaxValues
  BY DEF Sch!Begin, Sch!BeginRunner, Sch!Erase, Sch!NextRound, Sch!SetMax,
     Sch!SetSchedulerMax, Sch!vars, Sch!runnerVars, SchedInv, Queues, QueuesTypeOK,
     RunnersTypeOK
<1>3. /\ Queues' /\ Looking' = Looking
      /\ \A r \in Runners : runner'[r] = "node" <=> runner[r] = "node"
      /\ \A r \in Runners : runner'[r] = "clean" <=> runner[r] = "clean"
      /\ \A r \in Runners : Busy(r)' => current'[r] = current[r]
  BY <1>1, <1>2, QueuesRest DEF SchedInv
<1>4. NobodyStranded' /\ SchedPosition'
  BY <1>1, <1>3 DEF SchedInv, NobodyStranded, Waiting, Queued, QueueOf, SchedPosition
<1> QED
  BY <1>1, <1>3, <1>4, SchedQuiet DEF Busy

\* Every step keeps the invariant.
LEMMA SchedNext ==
  SchedInv /\ [Sch!Next]_(Sch!vars) => SchedInv'
<1> SUFFICES ASSUME SchedInv, [Sch!Next]_(Sch!vars) PROVE SchedInv'
  OBVIOUS
<1>1. ASSUME NEW r \in Runners, Sch!Run(r) PROVE SchedInv'
  BY <1>1, SchedRest, SchedDismiss, SchedTake, SchedReturn, SchedClean DEF Sch!Run
<1> QED
  BY <1>1, SchedStart, SchedRest DEF Sch!Next

\* It holds at the start.
LEMMA SchedInit ==
  Sch!Init => SchedInv
<1> SUFFICES ASSUME Sch!Init PROVE SchedInv
  OBVIOUS
<1>1. QueuesInit /\ runners = <<>>
  BY DEF Sch!Init, Sch!QueuesInit, QueuesInit, Sch!RunnersInit, RunnersInit
<1>2. SchedCounted
  <2>1. \A x : RunnersFor(x) = {} /\ Sch!RunnersOf(x) = 0
    BY <1>1 DEF QueuesInit, RunnersInit, RunnersFor, Executes, Sch!RunnersOf
  <2> QED
    BY <1>1, <2>1, FS_EmptySet DEF SchedCounted
<1>3. SchedUnused /\ SchedPosition
  BY <1>1 DEF SchedUnused, SchedPosition, QueuesInit
<1> QED
  BY <1>1, <1>2, <1>3, QueuesAtStart DEF SchedInv

\* As many nodes of a name are in execution as runners execute one.
LEMMA SchedExecuting ==
  ASSUME SchedInv, NEW x \in Names
  PROVE  Cardinality({n \in Executing : name[n] = x}) = Cardinality(RunnersFor(x))
<1> DEFINE E == {n \in Executing : name[n] = x}
<1>1. \A r \in RunnersFor(x) : r \in Runners /\ current[r] \in Nodes /\ current[r] \in E
  BY DEF RunnersFor, Executes, Executing, SchedInv, Queues, Held, Busy, QueuesTypeOK,
     RunnersTypeOK
<1>2. \A n \in E : \E r \in RunnersFor(x) : current[r] = n
  BY DEF RunnersFor, Executes, Executing
<1>3. \A r, s \in RunnersFor(x) : current[r] = current[s] => r = s
  BY <1>1, RunnersAssumption DEF SchedInv, Queues, Held
<1> HIDE DEF E
<1>4. PICK f \in [RunnersFor(x) -> E] : \A r \in RunnersFor(x) : f[r] = current[r]
  <2>1. [r \in RunnersFor(x) |-> current[r]] \in [RunnersFor(x) -> E]
    BY <1>1
  <2> QED
    BY <2>1
<1>5. f \in Bijection(RunnersFor(x), E)
  BY <1>2, <1>3, <1>4 DEF Bijection, Injection, Surjection, IsInjective
<1>6. IsFiniteSet(RunnersFor(x))
  BY RunnersAssumption, FS_Subset DEF RunnersFor
<1> QED
  BY <1>5, <1>6, FS_Bijection DEF ExistsBijection, E

\* Consistent of the instance, in the terms of this module.
LEMMA SchedIsConsistent ==
  ASSUME SchedInv PROVE Sch!Consistent
<1>1. VectorIsMap /\ QueuedOnce
  BY QueuesAreConsistent DEF SchedInv
<1>2. \A S : Sch!Cardinality(S) = Cardinality(S)
  BY DEF Sch!Cardinality, Cardinality
<1>3. Sch!TypeOK
  <2>1. Sch!QueuesTypeOK
    BY <1>2 DEF Sch!QueuesTypeOK, QueuesTypeOK, Sch!RunnersTypeOK, RunnersTypeOK, SchedInv,
       Queues
  <2>2. DOMAIN runners \subseteq Names
    BY DEF SchedInv, SchedCounted
  <2>3. ASSUME NEW x \in DOMAIN runners PROVE runners[x] \in Nat
    <3>1. RunnersFor(x) \in SUBSET Runners
      BY DEF RunnersFor
    <3>2. Cardinality(RunnersFor(x)) \in Nat
      BY <3>1, RunnersCount
    <3>3. runners[x] = Cardinality(RunnersFor(x))
      BY <2>2 DEF SchedInv, SchedCounted, Sch!RunnersOf
    <3> QED
      BY <3>2, <3>3
  <2> QED
    BY <2>1, <2>2, <2>3 DEF Sch!TypeOK
<1>4. Sch!CountsLookers /\ Sch!NobodyStranded /\ Sch!VectorIsMap
  BY <1>1, <1>2 DEF SchedInv, Queues, CountsLookers, Sch!CountsLookers, Looking, Sch!Looking,
     NobodyStranded, Sch!NobodyStranded, Waiting, Sch!Waiting, Queued, Sch!Queued, QueueOf,
     Sch!QueueOf, ToSet, Sch!ToSet, VectorIsMap, Sch!VectorIsMap
<1>5. Sch!QueuedOnce
  BY <1>1, <1>2 DEF QueuedOnce, Sch!QueuedOnce, Waiting, Sch!Waiting, Queued, Sch!Queued,
     QueueOf, Sch!QueueOf, ToSet, Sch!ToSet, Executing, Sch!Executing
<1>6. Sch!PositionInRange
  BY DEF SchedInv, SchedPosition, Sch!PositionInRange
<1>7. Sch!RunnersIsCount
  <2>1. Sch!Executing = Executing
    BY DEF Sch!Executing, Executing
  <2> QED
    BY <1>2, <2>1, SchedExecuting DEF SchedInv, SchedCounted, Sch!RunnersIsCount
<1>8. Sch!UnusedNameIsTransient
  BY DEF SchedInv, SchedUnused, Cleans, Sch!UnusedNameIsTransient
<1> QED
  BY <1>3, <1>4, <1>5, <1>6, <1>7, <1>8 DEF Sch!Consistent

\* The bookkeeping of scheduled.cpp agrees with what runs and waits in every
\* interleaving, for any numbers of nodes, names and runners: runners() counts
\* the nodes in execution although they leave it without the mutex, a name
\* without use is about to be removed, position is an index of the vector, and
\* no waiting node is left without a runner although dequeue dismisses one
\* whenever the least used name has no node.
THEOREM ScheduledConsistent ==
  Sch!Spec => []Sch!Consistent
<1>1. SchedInv => Sch!Consistent
  BY SchedIsConsistent
<1> QED
  BY <1>1, SchedInit, SchedNext, PTL DEF Sch!Spec

-----------------------------------------------------------------------------
(* The balanced scheduler.  Its dequeue walks the vector from position,    *)
(* around its end, and erases what it passes.  TurnAt is the order of the  *)
(* walk; all that the invariant needs is how a step changes that order.    *)

VARIABLE overtaken

Bal == INSTANCE Balanced

\* The walk over sequence s from position p begins after Begins(s, p)
\* elements, and its i-th turn is that of TurnAt(s, p, i).
Begins(s, p) == IF p >= Len(s) THEN 0 ELSE p
TurnAt(s, p, i) ==
  s[IF Begins(s, p) + i > Len(s) THEN Begins(s, p) + i - Len(s) ELSE Begins(s, p) + i]

\* What is left of s when the elements before the i-th turn are erased, and
\* the position after it.
LeftAt(s, p, i) ==
  IF Begins(s, p) + i > Len(s) THEN SubSeq(s, Begins(s, p) + i - Len(s), Begins(s, p))
  ELSE SubSeq(s, 1, Begins(s, p)) \o SubSeq(s, Begins(s, p) + i, Len(s))
PastAt(s, p, i) == (IF Begins(s, p) + i > Len(s) THEN 0 ELSE Begins(s, p)) + 1

\* Element x has its turn before element y.
Precedes(s, p, x, y) ==
  \E a, b \in 1..Len(s) : a < b /\ x = TurnAt(s, p, a) /\ y = TurnAt(s, p, b)

\* A part of a sequence.
LEMMA SeqPart ==
  ASSUME NEW T, NEW s \in Seq(T), NEW a \in Nat \ {0}, NEW b \in Nat,
         b <= Len(s), a <= b + 1, NEW c, c = SubSeq(s, a, b)
  PROVE  /\ c \in Seq(T) /\ Len(c) = b - a + 1
         /\ \A j \in 1..(b - a + 1) : c[j] = s[a + j - 1]
<1>1. Len(s) \in Nat /\ \A j \in a..b : s[j] \in T
  BY LenProperties, ElementOfSeq
<1>2. /\ SubSeq(s, a, b) \in Seq(T)
      /\ Len(SubSeq(s, a, b)) = IF a <= b THEN b - a + 1 ELSE 0
      /\ \A j \in 1..(b - a + 1) : SubSeq(s, a, b)[j] = s[a + j - 1]
  BY <1>1, SubSeqProperties
<1>3. (IF a <= b THEN b - a + 1 ELSE 0) = b - a + 1
  OBVIOUS
<1> QED
  BY <1>2, <1>3

\* The walk turns to every element, and to each once.
LEMMA TurnsCover ==
  ASSUME NEW T, NEW s \in Seq(T), NEW p \in Nat
  PROVE  /\ \A i \in 1..Len(s) : TurnAt(s, p, i) \in ToSet(s)
         /\ \A y \in ToSet(s) : \E i \in 1..Len(s) : y = TurnAt(s, p, i)
         /\ OnceEach(s) => \A i, j \in 1..Len(s) : TurnAt(s, p, i) = TurnAt(s, p, j) => i = j
<1>1. PICK l \in Nat : l = Len(s) /\ DOMAIN s = 1..l
  BY LenProperties
<1>2. PICK f \in Nat : f = Begins(s, p) /\ (f < l \/ f = 0)
  BY <1>1 DEF Begins
<1> DEFINE At(i) == IF f + i > l THEN f + i - l ELSE f + i
<1>3. \A i \in 1..l : At(i) \in 1..l /\ TurnAt(s, p, i) = s[At(i)]
  BY <1>1, <1>2 DEF TurnAt
<1>4. \A k \in 1..l : \E i \in 1..l : k = At(i)
  <2> SUFFICES ASSUME NEW k \in 1..l PROVE \E i \in 1..l : k = At(i)
    OBVIOUS
  <2>1. CASE k > f
    <3>1. k - f \in 1..l /\ k = At(k - f)
      BY <1>2, <2>1
    <3> QED
      BY <3>1
  <2>2. CASE k <= f
    <3>1. PICK j \in 1..l : j = k - f + l
      <4>1. f < l
        BY <1>2, <2>2
      <4> QED
        BY <2>2, <4>1
    <3>2. f + j > l /\ f + j - l = k
      BY <3>1
    <3> QED
      BY <3>2
  <2> QED
    BY <1>2, <2>1, <2>2
<1>5. \A i, j \in 1..l : At(i) = At(j) => i = j
  BY <1>2
<1> HIDE DEF At
<1>6. \A i \in 1..l : TurnAt(s, p, i) \in ToSet(s)
  BY <1>1, <1>3 DEF ToSet
<1>7. ASSUME NEW y \in ToSet(s) PROVE \E i \in 1..l : y = TurnAt(s, p, i)
  <2>1. PICK k \in 1..l : y = s[k]
    BY <1>1 DEF ToSet
  <2> QED
    BY <1>3, <1>4, <2>1
<1>8. ASSUME OnceEach(s), NEW i \in 1..l, NEW j \in 1..l, TurnAt(s, p, i) = TurnAt(s, p, j)
      PROVE  i = j
  <2>1. s[At(i)] = s[At(j)] /\ At(i) \in 1..l /\ At(j) \in 1..l
    BY <1>3, <1>8
  <2>2. At(i) = At(j)
    BY <1>1, <1>8, <2>1 DEF OnceEach
  <2> QED
    BY <1>5, <2>2
<1> QED
  BY <1>1, <1>6, <1>7, <1>8

\* After the i-th turn the walk goes on with the next one; whoever had the
\* i-th is last, and those before are gone.
LEMMA TurnsGoOn ==
  ASSUME NEW T, NEW s \in Seq(T), NEW p \in Nat, NEW i \in 1..Len(s),
         NEW r, r = LeftAt(s, p, i), NEW q, q = PastAt(s, p, i)
  PROVE  /\ r \in Seq(T) /\ q \in Nat /\ Len(r) = Len(s) - i + 1
         /\ \A k \in 1..Len(r) :
              TurnAt(r, q, k) = TurnAt(s, p, IF k <= Len(s) - i THEN i + k ELSE i)
         /\ OnceEach(s) => OnceEach(r)
<1>1. PICK l \in Nat : l = Len(s) /\ DOMAIN s = 1..l /\ i \in 1..l
  BY LenProperties
<1>2. PICK f \in Nat : f = Begins(s, p) /\ (f < l \/ f = 0) /\ f < l
  BY <1>1 DEF Begins
<1> DEFINE Was(k) == IF f + i > l THEN f + i - l + k - 1
                     ELSE IF k <= f THEN k ELSE i + k - 1
<1>3. /\ r \in Seq(T) /\ q \in Nat /\ Len(r) = l - i + 1
      /\ q = (IF f + i > l THEN 0 ELSE f) + 1
      /\ \A k \in 1..(l - i + 1) : r[k] = s[Was(k)]
  <2>0. q = (IF f + i > l THEN 0 ELSE f) + 1
    BY <1>1, <1>2 DEF PastAt
  <2>1. CASE f + i > l
    <3>1. r = SubSeq(s, f + i - l, f)
      BY <1>1, <1>2, <2>1 DEF LeftAt
    <3>2. f + i - l \in Nat \ {0} /\ f <= l /\ f + i - l <= f + 1
      BY <1>1, <1>2, <2>1
    <3>3. PICK a \in Nat \ {0} : a = f + i - l
      BY <3>2
    <3>4. /\ r \in Seq(T) /\ Len(r) = f - a + 1
          /\ \A j \in 1..(f - a + 1) : r[j] = s[a + j - 1]
      BY <1>1, <3>1, <3>2, <3>3, SeqPart
    <3>5. f - a + 1 = l - i + 1
      BY <1>1, <3>3
    <3>6. \A k \in 1..(l - i + 1) : Was(k) = a + k - 1
      BY <1>1, <2>1, <3>3
    <3>7. ASSUME NEW k \in 1..(l - i + 1) PROVE r[k] = s[Was(k)]
      <4>1. k \in 1..(f - a + 1)
        BY <3>5
      <4>2. r[k] = s[a + k - 1]
        BY <3>4, <4>1
      <4> QED
        BY <3>6, <4>2
    <3> QED
      BY <1>2, <2>0, <3>4, <3>5, <3>7
  <2>2. CASE ~(f + i > l)
    <3>1. r = SubSeq(s, 1, f) \o SubSeq(s, f + i, l)
      BY <1>1, <1>2, <2>2 DEF LeftAt
    <3>2. PICK a : a = SubSeq(s, 1, f)
      OBVIOUS
    <3>3. PICK b : b = SubSeq(s, f + i, l)
      OBVIOUS
    <3>4. a \in Seq(T) /\ Len(a) = f /\ \A j \in 1..f : a[j] = s[j]
      <4>1. /\ a \in Seq(T) /\ Len(a) = f - 1 + 1
            /\ \A j \in 1..(f - 1 + 1) : a[j] = s[1 + j - 1]
        BY <1>1, <1>2, <3>2, SeqPart
      <4>2. f - 1 + 1 = f /\ \A j \in 1..f : 1 + j - 1 = j
        BY <1>2
      <4> QED
        BY <4>1, <4>2
    <3>5. /\ b \in Seq(T) /\ Len(b) = l - f - i + 1
          /\ \A j \in 1..(l - f - i + 1) : b[j] = s[f + i + j - 1]
      <4>1. PICK c \in Nat \ {0} : c = f + i /\ c <= l + 1
        BY <1>1, <1>2, <2>2
      <4>2. /\ b \in Seq(T) /\ Len(b) = l - c + 1
            /\ \A j \in 1..(l - c + 1) : b[j] = s[c + j - 1]
        BY <1>1, <3>3, <4>1, SeqPart
      <4>3. l - c + 1 = l - f - i + 1
        BY <1>1, <4>1
      <4> QED
        BY <4>1, <4>2, <4>3
    <3>6. /\ r \in Seq(T) /\ Len(r) = Len(a) + Len(b)
          /\ \A k \in 1..(Len(a) + Len(b)) : r[k] = IF k <= Len(a) THEN a[k] ELSE b[k - Len(a)]
      <4>1. r = a \o b
        BY <3>1, <3>2, <3>3
      <4>2. a \in Seq(T) /\ b \in Seq(T)
        BY <3>4, <3>5
      <4>3. /\ a \o b \in Seq(T) /\ Len(a \o b) = Len(a) + Len(b)
            /\ \A k \in 1..(Len(a) + Len(b)) :
                 (a \o b)[k] = IF k <= Len(a) THEN a[k] ELSE b[k - Len(a)]
        BY <4>2, ConcatProperties
      <4> QED
        BY <4>1, <4>3
    <3>7. Len(a) + Len(b) = l - i + 1
      BY <1>1, <1>2, <3>4, <3>5
    <3>8. ASSUME NEW k \in 1..(l - i + 1) PROVE r[k] = s[Was(k)]
      <4>1. CASE k <= f
        BY <2>2, <3>4, <3>6, <3>7, <4>1
      <4>2. CASE ~(k <= f)
        <5>1. PICK j \in 1..(l - f - i + 1) : j = k - f
          BY <1>1, <1>2, <4>2
        <5>2. r[k] = b[j]
          <6>1. k \in 1..(Len(a) + Len(b))
            BY <3>7
          <6>2. ~(k <= Len(a)) /\ k - Len(a) = j
            BY <3>4, <4>2, <5>1
          <6> QED
            BY <3>6, <6>1, <6>2
        <5>3. f + i + j - 1 = i + k - 1
          <6>1. f + j = k /\ f \in Int /\ i \in Int /\ j \in Int /\ k \in Int
            BY <1>1, <1>2, <5>1
          <6> QED
            BY <6>1
        <5>4. b[j] = s[f + i + j - 1]
          BY <3>5
        <5> QED
          BY <2>2, <4>2, <5>2, <5>3, <5>4
      <4> QED
        BY <4>1, <4>2
    <3> QED
      BY <2>0, <3>6, <3>7, <3>8
  <2> QED
    BY <2>1, <2>2
<1>4. \A k \in 1..(l - i + 1) : Was(k) \in 1..l
  BY <1>1, <1>2
<1>5. OnceEach(s) => OnceEach(r)
  <2> SUFFICES ASSUME OnceEach(s), NEW j \in 1..(l - i + 1), NEW k \in 1..(l - i + 1),
                      r[j] = r[k]
               PROVE  j = k
    BY <1>3 DEF OnceEach
  <2>1. Was(j) = Was(k)
    <3>1. s[Was(j)] = s[Was(k)]
      BY <1>3
    <3> HIDE DEF Was
    <3> QED
      BY <1>1, <1>4, <3>1 DEF OnceEach
  <2>2. CASE f + i > l
    <3>1. PICK a \in Int : a = f + i - l - 1
      BY <1>1, <1>2
    <3>2. f \in Int /\ i \in Int /\ l \in Int /\ j \in Int /\ k \in Int
      BY <1>1, <1>2
    <3>3. Was(j) = f + i - l + j - 1 /\ Was(k) = f + i - l + k - 1
      BY <2>2
    <3>4. f + i - l + j - 1 = a + j /\ f + i - l + k - 1 = a + k
      BY <3>1, <3>2
    <3>5. a + j = a + k
      BY <2>1, <3>3, <3>4
    <3> QED
      BY <3>1, <3>2, <3>5
  <2>3. CASE ~(f + i > l)
    <3>1. (IF j <= f THEN j ELSE i + j - 1) = (IF k <= f THEN k ELSE i + k - 1)
      BY <2>1, <2>3
    <3> QED
      BY <1>1, <1>2, <3>1
  <2> QED
    BY <2>2, <2>3
<1>6. ASSUME NEW k \in 1..(l - i + 1)
      PROVE  TurnAt(r, q, k) = TurnAt(s, p, IF k <= l - i THEN i + k ELSE i)
  <2>1. PICK m \in Nat : m = l - i + 1 /\ m = Len(r)
    <3>1. l - i + 1 \in Nat /\ Len(r) = l - i + 1
      BY <1>1, <1>3
    <3> QED
      BY <3>1
  <2>2. PICK g \in Nat : g = Begins(r, q) /\ g = (IF q >= m THEN 0 ELSE q)
    BY <1>3, <2>1 DEF Begins
  <2>3. PICK h \in 1..m : h = (IF g + k > m THEN g + k - m ELSE g + k)
    <3>1. m \in Nat /\ g \in Nat /\ k \in 1..m /\ (g < m \/ g = 0)
      BY <1>3, <2>1, <2>2
    <3>2. (IF g + k > m THEN g + k - m ELSE g + k) \in 1..m
      BY <3>1
    <3> QED
      BY <3>2
  <2>4. TurnAt(r, q, k) = s[Was(h)]
    <3>1. TurnAt(r, q, k) = r[h]
      BY <2>1, <2>2, <2>3 DEF TurnAt
    <3> QED
      BY <1>3, <2>1, <2>3, <3>1
  <2>5. PICK t \in 1..l : t = IF k <= l - i THEN i + k ELSE i
    BY <1>1
  <2>6. TurnAt(s, p, t) = s[IF f + t > l THEN f + t - l ELSE f + t]
    BY <1>1, <1>2 DEF TurnAt
  <2>7. Was(h) = IF f + t > l THEN f + t - l ELSE f + t
    <3>1. /\ l \in Nat /\ f \in Nat /\ f < l /\ i \in 1..l /\ k \in 1..(l - i + 1)
          /\ m \in Nat /\ m = l - i + 1
          /\ q \in Nat /\ q = (IF f + i > l THEN 0 ELSE f) + 1
          /\ g \in Nat /\ g = (IF q >= m THEN 0 ELSE q)
          /\ h \in 1..m /\ h = (IF g + k > m THEN g + k - m ELSE g + k)
          /\ t \in 1..l /\ t = (IF k <= l - i THEN i + k ELSE i)
      BY <1>1, <1>2, <1>3, <2>1, <2>2, <2>3, <2>5
    <3> QED
      BY <3>1
  <2> QED
    BY <2>4, <2>5, <2>6, <2>7
<1> QED
  BY <1>1, <1>3, <1>5, <1>6

\* A new element at the end does not change the order of the others.
LEMMA TurnsOfAppend ==
  ASSUME NEW T, NEW s \in Seq(T), NEW p \in Nat, NEW d \in T, NEW r, IsAppend(r, s, d),
         NEW x, NEW y, Precedes(s, p, x, y)
  PROVE  Precedes(r, p, x, y)
<1>1. PICK l \in Nat : l = Len(s)
  BY LenProperties
<1>2. Len(r) = l + 1 /\ \A k \in 1..l : r[k] = s[k]
  BY <1>1, AppendProperties DEF IsAppend
<1>3. PICK f \in Nat : f = Begins(s, p) /\ f = IF p >= l THEN 0 ELSE p
  BY <1>1 DEF Begins
<1>4. PICK g \in Nat : g = Begins(r, p) /\ g = IF p >= l + 1 THEN 0 ELSE p
  BY <1>2 DEF Begins
<1>5. PICK a \in 1..l, b \in 1..l : a < b /\ x = TurnAt(s, p, a) /\ y = TurnAt(s, p, b)
  BY <1>1 DEF Precedes
<1> DEFINE Moved(k) == IF g = l \/ (g > 0 /\ g + k > l) THEN k + 1 ELSE k
<1>6. ASSUME NEW k \in 1..l
      PROVE  Moved(k) \in 1..(l + 1) /\ TurnAt(r, p, Moved(k)) = TurnAt(s, p, k)
  <2>1. Moved(k) \in 1..(l + 1)
    OBVIOUS
  <2>2. PICK j \in 1..l : j = IF f + k > l THEN f + k - l ELSE f + k
    <3>1. f < l
      BY <1>3
    <3>2. (IF f + k > l THEN f + k - l ELSE f + k) \in 1..l
      BY <3>1
    <3> QED
      BY <3>2
  <2>3. j = IF g + Moved(k) > l + 1 THEN g + Moved(k) - (l + 1) ELSE g + Moved(k)
    BY <1>3, <1>4, <2>2
  <2>4. TurnAt(s, p, k) = s[j]
    BY <1>1, <1>3, <2>2 DEF TurnAt
  <2>5. TurnAt(r, p, Moved(k)) = r[j]
    <3> HIDE DEF Moved
    <3> QED
      BY <1>2, <1>4, <2>3 DEF TurnAt
  <2> QED
    BY <1>2, <2>1, <2>2, <2>4, <2>5
<1>7. Moved(a) < Moved(b)
  BY <1>5
<1> HIDE DEF Moved
<1> QED
  BY <1>2, <1>5, <1>6, <1>7 DEF Precedes

\* Nobody has used the empty string for a name.
NoEmpty == \A n \in started : name[n] # Empty

\* A name that waits comes before all names that were served meanwhile.
WaitsAhead ==
  \A x \in Names \ {Empty} : QueueOf(x) # <<>> =>
    \A y \in overtaken[x] : Precedes(vector, position, x, y)

BalInv ==
  /\ Queues /\ (NoEmpty => NobodyStranded)
  /\ overtaken \in [Names -> SUBSET Names] /\ WaitsAhead

\* The walk of dequeue in the terms of TurnAt.
LEMMA BalWalk ==
  /\ \A i \in 1..Len(vector) : Bal!Visit[i] = TurnAt(vector, position, i)
  /\ \A i : Bal!Rest(i) = LeftAt(vector, position, i)
  /\ \A i : Bal!PositionOf(i) + 1 = PastAt(vector, position, i)
BY DEF Bal!Visit, Bal!Wraps, Bal!From, TurnAt, Begins, Bal!Rest, LeftAt, Bal!PositionOf, PastAt

\* The name the walk stops at has a node, those before have none.
LEMMA BalHit ==
  ASSUME Queues, NEW i \in Bal!Hit
  PROVE  /\ i \in 1..Len(vector) /\ Bal!Visit[i] = TurnAt(vector, position, i)
         /\ Bal!Visit[i] \in DOMAIN map /\ map[Bal!Visit[i]] # <<>>
         /\ \A j \in 1..(i - 1) :
              /\ j \in 1..Len(vector)
              /\ TurnAt(vector, position, j) \in DOMAIN map
              /\ map[TurnAt(vector, position, j)] = <<>>
         /\ Bal!Skipped(i) = {TurnAt(vector, position, j) : j \in 1..(i - 1)}
<1>1. PICK l \in Nat : l = Len(vector)
  BY LenProperties DEF Queues, QueuesTypeOK
<1>2. /\ i \in 1..l /\ Bal!QueueOf(Bal!Visit[i]) # <<>>
      /\ \A j \in 1..(i - 1) : Bal!QueueOf(Bal!Visit[j]) = <<>>
  BY <1>1 DEF Bal!Hit
<1>3. \A j \in 1..(i - 1) : j \in 1..l
  BY <1>2
<1>4. \A j \in 1..l : /\ Bal!Visit[j] = TurnAt(vector, position, j)
                      /\ TurnAt(vector, position, j) \in DOMAIN map
  <2>1. vector \in Seq(Names) /\ position \in Nat /\ ToSet(vector) = DOMAIN map
    BY DEF Queues, QueuesTypeOK, Tidy
  <2>2. \A j \in 1..l : TurnAt(vector, position, j) \in ToSet(vector)
    BY <1>1, <2>1, TurnsCover
  <2> QED
    BY <1>1, <2>1, <2>2, BalWalk
<1>5. Bal!Skipped(i) = {TurnAt(vector, position, j) : j \in 1..(i - 1)}
  BY <1>3, <1>4 DEF Bal!Skipped
<1>6. Bal!Visit[i] \in DOMAIN map /\ map[Bal!Visit[i]] # <<>>
  BY <1>2, <1>4 DEF Bal!QueueOf
<1>7. \A j \in 1..(i - 1) : map[TurnAt(vector, position, j)] = <<>>
  BY <1>2, <1>3, <1>4 DEF Bal!QueueOf
<1> QED
  BY <1>1, <1>2, <1>3, <1>4, <1>5, <1>6, <1>7

\* When it stops at no name, there are no nodes.
LEMMA BalNone ==
  ASSUME Queues, Bal!Hit = {}, NEW x \in DOMAIN map
  PROVE  map[x] = <<>>
<1> SUFFICES ASSUME map[x] # <<>> PROVE FALSE
  OBVIOUS
<1>1. PICK l \in Nat : l = Len(vector)
  BY LenProperties DEF Queues, QueuesTypeOK
<1>2. vector \in Seq(Names) /\ position \in Nat /\ ToSet(vector) = DOMAIN map
  BY DEF Queues, QueuesTypeOK, Tidy
<1> DEFINE S == {i \in 1..l : Bal!QueueOf(Bal!Visit[i]) # <<>>}
<1>3. S # {}
  <2>1. \A y \in ToSet(vector) : \E i \in 1..Len(vector) : y = TurnAt(vector, position, i)
    BY <1>2, TurnsCover
  <2>2. PICK i \in 1..l : x = TurnAt(vector, position, i)
    BY <1>1, <1>2, <2>1
  <2>3. Bal!Visit[i] = x
    BY <1>1, <2>2, BalWalk
  <2> QED
    BY <2>3 DEF Bal!QueueOf
<1>4. S \in SUBSET Nat
  OBVIOUS
<1>5. PICK i \in S : \A j \in S : i <= j
  BY <1>3, <1>4, HasLeast
<1>6. \A j \in 1..(i - 1) : j \in 1..l /\ ~(i <= j)
  BY <1>5
<1>7. i \in Bal!Hit
  BY <1>1, <1>5, <1>6 DEF Bal!Hit
<1> QED
  BY <1>7

\* What the erased names and the new position do to the order: names that
\* wait keep it, and the name at which the walk stopped comes after them.
LEMMA BalOrder ==
  ASSUME Queues, NEW i \in Bal!Hit, vector' = Bal!Rest(i), position' = Bal!PositionOf(i) + 1
  PROVE  /\ vector' \in Seq(Names) /\ OnceEach(vector') /\ position' \in Nat
         /\ ToSet(vector') = DOMAIN map \ Bal!Skipped(i)
         /\ \A x : \A y : /\ QueueOf(x) # <<>> /\ x # Bal!Visit[i]
                          /\ Precedes(vector, position, x, y)
                          => Precedes(vector', position', x, y)
         /\ \A x : QueueOf(x) # <<>> /\ x # Bal!Visit[i]
                     => Precedes(vector', position', x, Bal!Visit[i])
         /\ \A x : QueueOf(x) # <<>> => ~Precedes(vector, position, x, Bal!Visit[i])
<1> DEFINE At(k) == TurnAt(vector, position, k)
           Then(k) == TurnAt(vector', position', k)
<1>1. PICK l \in Nat : l = Len(vector) /\ i \in 1..l
  BY BalHit, LenProperties DEF Queues, QueuesTypeOK
<1>2. PICK m \in Nat : m = l - i + 1
  BY <1>1
<1>3. /\ vector \in Seq(Names) /\ position \in Nat /\ OnceEach(vector)
      /\ ToSet(vector) = DOMAIN map
  BY DEF Queues, QueuesTypeOK, Tidy
<1>4. /\ vector' \in Seq(Names) /\ position' \in Nat /\ Len(vector') = m /\ OnceEach(vector')
      /\ \A k \in 1..m : Then(k) = At(IF k <= l - i THEN i + k ELSE i)
  <2>1. vector' = LeftAt(vector, position, i) /\ position' = PastAt(vector, position, i)
    BY BalWalk
  <2>2. i \in 1..Len(vector)
    BY <1>1
  <2>3. /\ vector' \in Seq(Names) /\ position' \in Nat /\ Len(vector') = Len(vector) - i + 1
        /\ \A k \in 1..Len(vector') : TurnAt(vector', position', k) =
             TurnAt(vector, position, IF k <= Len(vector) - i THEN i + k ELSE i)
        /\ OnceEach(vector) => OnceEach(vector')
    BY <1>3, <2>1, <2>2, TurnsGoOn
  <2> QED
    BY <1>1, <1>2, <1>3, <2>3
<1>5. /\ \A y \in DOMAIN map : \E k \in 1..l : y = At(k)
      /\ \A k \in 1..l : At(k) \in DOMAIN map
      /\ \A j, k \in 1..l : At(j) = At(k) => j = k
  <2>1. /\ \A k \in 1..Len(vector) : TurnAt(vector, position, k) \in ToSet(vector)
        /\ \A y \in ToSet(vector) : \E k \in 1..Len(vector) : y = TurnAt(vector, position, k)
        /\ OnceEach(vector) => \A j, k \in 1..Len(vector) :
             TurnAt(vector, position, j) = TurnAt(vector, position, k) => j = k
    BY <1>3, TurnsCover
  <2> QED
    BY <1>1, <1>3, <2>1
<1>6. /\ \A y \in ToSet(vector') : \E k \in 1..m : y = Then(k)
      /\ \A k \in 1..m : Then(k) \in ToSet(vector')
  BY <1>4, TurnsCover
<1>7. /\ Bal!Visit[i] = At(i) /\ Bal!Skipped(i) = {At(j) : j \in 1..(i - 1)}
      /\ \A j \in 1..(i - 1) : At(j) \in DOMAIN map /\ map[At(j)] = <<>>
  BY BalHit
<1> HIDE DEF At, Then
<1>8. \A k \in 1..l : QueueOf(At(k)) # <<>> => k \in i..l
  <2> SUFFICES ASSUME NEW k \in 1..l, QueueOf(At(k)) # <<>>, ~(k \in i..l) PROVE FALSE
    OBVIOUS
  <2>1. k \in 1..(i - 1)
    BY <1>1
  <2> QED
    BY <1>7, <2>1 DEF QueueOf
<1>9. \A k \in i..l : k \in 1..l /\ (k # i => k - i \in 1..m /\ At(k) = Then(k - i))
  <2> SUFFICES ASSUME NEW k \in i..l
               PROVE  k \in 1..l /\ (k # i => k - i \in 1..m /\ At(k) = Then(k - i))
    OBVIOUS
  <2>1. k \in 1..l
    BY <1>1
  <2>2. ASSUME k # i PROVE k - i \in 1..m /\ At(k) = Then(k - i)
    <3>1. PICK h \in 1..m : h = k - i /\ h <= l - i /\ i + h = k
      BY <1>1, <1>2, <2>2
    <3> QED
      BY <1>4, <3>1
  <2> QED
    BY <2>1, <2>2
<1>10. m \in 1..m /\ At(i) = Then(m)
  <2>1. m \in 1..m /\ ~(m <= l - i)
    BY <1>1, <1>2
  <2> QED
    BY <1>4, <2>1
<1>11. ToSet(vector') = DOMAIN map \ Bal!Skipped(i)
  <2>1. ASSUME NEW y \in ToSet(vector') PROVE y \in DOMAIN map \ Bal!Skipped(i)
    <3>1. PICK k \in 1..m : y = Then(k)
      BY <1>6
    <3>2. PICK t \in i..l : y = At(t)
      <4>1. (IF k <= l - i THEN i + k ELSE i) \in i..l
        BY <1>1, <1>2
      <4> QED
        BY <1>4, <3>1, <4>1
    <3>3. t \in 1..l /\ \A j \in 1..(i - 1) : j \in 1..l /\ j # t
      BY <1>1
    <3> QED
      BY <1>5, <1>7, <3>2, <3>3
  <2>2. ASSUME NEW y \in DOMAIN map \ Bal!Skipped(i) PROVE y \in ToSet(vector')
    <3>1. PICK k \in 1..l : y = At(k)
      BY <1>5
    <3>2. k \in i..l
      <4>1. k \in i..l \/ k \in 1..(i - 1)
        BY <1>1
      <4> QED
        BY <1>7, <2>2, <3>1, <4>1
    <3> QED
      BY <1>6, <1>9, <1>10, <3>1, <3>2
  <2> QED
    BY <2>1, <2>2
<1>12. ASSUME NEW x, NEW y, QueueOf(x) # <<>>, x # At(i), Precedes(vector, position, x, y)
       PROVE  Precedes(vector', position', x, y)
  <2>1. PICK a \in 1..l, b \in 1..l : a < b /\ x = At(a) /\ y = At(b)
    BY <1>1, <1>12 DEF Precedes, At
  <2>2. a \in i..l /\ a # i /\ b \in i..l /\ b # i
    BY <1>1, <1>8, <1>12, <2>1
  <2>3. /\ a - i \in 1..m /\ x = Then(a - i) /\ b - i \in 1..m /\ y = Then(b - i)
        /\ a - i < b - i
    BY <1>1, <1>9, <2>1, <2>2
  <2> QED
    BY <1>4, <2>3 DEF Precedes, Then
<1>13. ASSUME NEW x, QueueOf(x) # <<>>, x # At(i)
       PROVE  Precedes(vector', position', x, At(i))
  <2>1. PICK a \in 1..l : x = At(a)
    BY <1>5, <1>13 DEF QueueOf
  <2>2. a \in i..l /\ a # i
    BY <1>8, <1>13, <2>1
  <2>3. a - i \in 1..m /\ x = Then(a - i) /\ a - i < m
    BY <1>1, <1>2, <1>9, <2>1, <2>2
  <2> QED
    BY <1>4, <1>10, <2>3 DEF Precedes, Then
<1>14. ASSUME NEW x, QueueOf(x) # <<>>, Precedes(vector, position, x, At(i)) PROVE FALSE
  <2>1. PICK a \in 1..l, b \in 1..l : a < b /\ x = At(a) /\ At(i) = At(b)
    BY <1>1, <1>14 DEF Precedes, At
  <2>2. a \in i..l /\ b = i
    BY <1>1, <1>5, <1>8, <1>14, <2>1
  <2> QED
    BY <1>1, <2>1, <2>2
<1> QED
  BY <1>4, <1>7, <1>11, <1>12, <1>13, <1>14

\* balanced::start.
LEMMA BalStart ==
  ASSUME BalInv, NEW n \in Nodes, NEW x \in Names, Bal!Start(n, x)
  PROVE  /\ BalInv'
         /\ \A y : Len(QueueOf(y)') < Len(QueueOf(y)) => FALSE
<1>1. /\ Push(n, x) /\ SpawnCounted(actives < max)
      /\ UNCHANGED <<current, finished, max, position, running>>
      /\ overtaken' = [overtaken EXCEPT ![x] = IF Queued(x) = {} THEN {} ELSE @]
  BY DEF Bal!Start, Bal!Push, Push, Bal!IsNext, IsNext, Bal!Put, Put, Bal!QueueOf, QueueOf,
     Bal!SpawnCounted, SpawnCounted, Bal!SpawnIf, SpawnIf, Bal!FreeRunners, FreeRunners,
     Bal!Queued, Queued, Bal!ToSet, ToSet
<1>2. Queues' /\ NobodyStranded'
  BY <1>1, QueuesPush DEF BalInv
<1>3. overtaken' \in [Names -> SUBSET Names]
  BY <1>1 DEF BalInv
<1>4. /\ map' = Put(map, x, Append(QueueOf(x), n))
      /\ vector' = IF x \in DOMAIN map THEN vector ELSE Append(vector, x)
  BY <1>1 DEF Push
<1>5. QueueOf(x)' = Append(QueueOf(x), n) /\ \A y : y # x => QueueOf(y)' = QueueOf(y)
  BY <1>4 DEF QueueOf, Put
<1>6. QueueOf(x) \in Seq(Nodes)
  BY QueueFacts DEF BalInv, Queues
<1>7. WaitsAhead'
  <2> SUFFICES ASSUME NEW z \in Names \ {Empty}, QueueOf(z)' # <<>>, NEW y \in overtaken'[z]
               PROVE  Precedes(vector', position', z, y)
    BY DEF WaitsAhead
  <2>1. QueueOf(z) # <<>> /\ y \in overtaken[z]
    <3>1. CASE z = x
      <4>1. Queued(x) # {} /\ y \in overtaken[x]
        BY <1>1, <3>1 DEF BalInv
      <4> QED
        BY <3>1, <4>1 DEF Queued, ToSet
    <3>2. CASE z # x
      BY <1>1, <1>5, <3>2 DEF BalInv
    <3> QED
      BY <3>1, <3>2
  <2>2. Precedes(vector, position, z, y)
    BY <2>1 DEF BalInv, WaitsAhead
  <2>3. vector \in Seq(Names) /\ position \in Nat
    BY DEF BalInv, Queues, QueuesTypeOK
  <2>4. vector' = vector \/ IsAppend(vector', vector, x)
    BY <1>4 DEF IsAppend
  <2>5. Precedes(vector', position, z, y)
    BY <2>2, <2>3, <2>4, TurnsOfAppend
  <2> QED
    BY <1>1, <2>5
<1>8. ASSUME NEW y, Len(QueueOf(y)') < Len(QueueOf(y)) PROVE FALSE
  <2>1. Len(QueueOf(x)) \in Nat /\ Len(QueueOf(x)') = Len(QueueOf(x)) + 1
    BY <1>5, <1>6, AppendProperties, LenProperties
  <2>2. CASE y = x
    BY <1>8, <2>1, <2>2
  <2>3. CASE y # x
    <3>1. QueueOf(y)' = QueueOf(y)
      BY <1>5, <2>3
    <3>2. Len(QueueOf(y)) \in Nat
      BY LenProperties DEF QueueOf, BalInv, Queues, QueuesTypeOK
    <3> QED
      BY <1>8, <3>1, <3>2
  <2> QED
    BY <2>2, <2>3
<1> QED
  BY <1>2, <1>3, <1>7, <1>8 DEF BalInv

\* balanced::dequeue finds no node.
LEMMA BalNothing ==
  ASSUME BalInv, NEW r \in Runners, Bal!DequeueNothing(r)
  PROVE  /\ BalInv'
         /\ \A y : Len(QueueOf(y)') < Len(QueueOf(y)) => FALSE
<1>1. /\ runner[r] = "loop" /\ Bal!Hit = {} /\ Dismiss(r) /\ map' = <<>> /\ vector' = <<>>
      /\ position' = (IF vector = <<>> THEN position ELSE 0) + 1
      /\ UNCHANGED <<name, running, overtaken>>
  BY DEF Bal!DequeueNothing, Bal!Dismiss, Dismiss
<1>2. DOMAIN map' = {} /\ vector' \in Seq(Names) /\ OnceEach(vector') /\ ToSet(vector') = {}
  BY <1>1 DEF OnceEach, ToSet
<1>3. position' \in Nat
  BY <1>1 DEF BalInv, Queues, QueuesTypeOK
<1>4. Queues'
  BY <1>1, <1>2, <1>3, QueuesDismiss DEF BalInv
<1>5. \A y : QueueOf(y)' = <<>> /\ QueueOf(y) = <<>>
  BY <1>1, <1>2, BalNone DEF BalInv, QueueOf
<1>6. NobodyStranded'
  <2>1. \A y : Queued(y)' = {}
    BY <1>5 DEF Queued, ToSet
  <2> QED
    BY <2>1 DEF NobodyStranded, Waiting
<1>7. WaitsAhead'
  BY <1>5 DEF WaitsAhead
<1>8. ASSUME NEW y, Len(QueueOf(y)') < Len(QueueOf(y)) PROVE FALSE
  BY <1>5, <1>8
<1> QED
  BY <1>1, <1>4, <1>6, <1>7, <1>8 DEF BalInv

\* balanced::dequeue stops at the empty name and dismisses the runner.
LEMMA BalEmptyName ==
  ASSUME BalInv, NEW r \in Runners, NEW i, Bal!DequeueEmptyName(r, i)
  PROVE  /\ BalInv'
         /\ \A y : Len(QueueOf(y)') < Len(QueueOf(y)) => FALSE
<1>1. /\ runner[r] = "loop" /\ i \in Bal!Hit /\ Bal!Visit[i] = Empty /\ Dismiss(r)
      /\ map' = Drop(map, Bal!Skipped(i)) /\ vector' = Bal!Rest(i)
      /\ position' = Bal!PositionOf(i) + 1 /\ UNCHANGED <<name, running, overtaken>>
  BY DEF Bal!DequeueEmptyName, Bal!Dismiss, Dismiss, Bal!Drop, Drop
<1>2. /\ vector' \in Seq(Names) /\ OnceEach(vector') /\ position' \in Nat
      /\ ToSet(vector') = DOMAIN map \ Bal!Skipped(i)
      /\ \A x : \A y : /\ QueueOf(x) # <<>> /\ x # Empty
                       /\ Precedes(vector, position, x, y)
                       => Precedes(vector', position', x, y)
  BY <1>1, BalOrder DEF BalInv
<1>3. /\ DOMAIN map' = DOMAIN map \ Bal!Skipped(i)
      /\ \A y \in DOMAIN map' : y \in DOMAIN map /\ map'[y] = map[y]
  BY <1>1 DEF Drop
<1>4. Queues'
  BY <1>1, <1>2, <1>3, QueuesDismiss DEF BalInv
<1>5. \A y : QueueOf(y)' = QueueOf(y)
  <2>1. \A y \in Bal!Skipped(i) : y \in DOMAIN map /\ map[y] = <<>>
    BY <1>1, BalHit DEF BalInv
  <2> QED
    BY <1>3, <2>1 DEF QueueOf
<1>6. ~NoEmpty'
  <2>1. Empty \in DOMAIN map /\ map[Empty] # <<>>
    BY <1>1, BalHit DEF BalInv
  <2>2. map[Empty] \in Seq(NodesOf(Empty))
    BY <2>1 DEF BalInv, Queues, OwnQueue
  <2>3. Head(map[Empty]) \in NodesOf(Empty)
    BY <2>1, <2>2, HeadTailProperties
  <2> QED
    BY <1>1, <2>3 DEF NodesOf, NoEmpty, Dismiss
<1>7. WaitsAhead'
  BY <1>1, <1>2, <1>5 DEF BalInv, WaitsAhead
<1>8. ASSUME NEW y, Len(QueueOf(y)') < Len(QueueOf(y)) PROVE FALSE
  <2>1. Len(QueueOf(y)) \in Nat
    BY LenProperties DEF QueueOf, BalInv, Queues, QueuesTypeOK
  <2> QED
    BY <1>5, <1>8, <2>1
<1> QED
  BY <1>1, <1>4, <1>6, <1>7, <1>8 DEF BalInv

\* balanced::dequeue takes a node.  Only the queue of that name gets shorter,
\* and no name that waits had been passed by it.
LEMMA BalTake ==
  ASSUME BalInv, NEW r \in Runners, NEW i, Bal!DequeueName(r, i)
  PROVE  /\ BalInv'
         /\ \A x \in Names \ {Empty} : \A y :
              QueueOf(x) # <<>> /\ Len(QueueOf(y)') < Len(QueueOf(y)) => y \notin overtaken[x]
<1>0. i \in Bal!Hit
  BY DEF Bal!DequeueName
<1>1. PICK x : x = Bal!Visit[i] /\ x \in DOMAIN map /\ map[x] # <<>>
  BY <1>0, BalHit DEF BalInv
<1>2. /\ runner[r] = "loop" /\ x # Empty /\ TakeNode(r, Head(map[x]))
      /\ map' = Put(Drop(map, Bal!Skipped(i)), x, Tail(map[x]))
      /\ vector' = Bal!Rest(i) /\ position' = Bal!PositionOf(i) + 1
      /\ running' = running \cup {Head(map[x])}
      /\ overtaken' = [y \in Names |-> IF y = x THEN {} ELSE overtaken[y] \cup {x}]
      /\ UNCHANGED <<name, actives>>
  BY <1>1 DEF Bal!DequeueName, Bal!TakeNode, TakeNode, Bal!Put, Put, Bal!Drop, Drop
<1>3. /\ vector' \in Seq(Names) /\ OnceEach(vector') /\ position' \in Nat
      /\ ToSet(vector') = DOMAIN map \ Bal!Skipped(i)
      /\ \A z : \A y : /\ QueueOf(z) # <<>> /\ z # x
                       /\ Precedes(vector, position, z, y)
                       => Precedes(vector', position', z, y)
      /\ \A z : QueueOf(z) # <<>> /\ z # x => Precedes(vector', position', z, x)
      /\ \A z : QueueOf(z) # <<>> => ~Precedes(vector, position, z, x)
  BY <1>0, <1>1, <1>2, BalOrder DEF BalInv
<1>4. \A y \in Bal!Skipped(i) : y \in DOMAIN map /\ map[y] = <<>>
  BY <1>0, BalHit DEF BalInv
<1>5. /\ DOMAIN map' = DOMAIN map \ Bal!Skipped(i) /\ x \in DOMAIN map'
      /\ map'[x] = Tail(map[x]) /\ \A y \in DOMAIN map' \ {x} : map'[y] = map[y]
  <2>1. x \notin Bal!Skipped(i)
    BY <1>1, <1>4
  <2> QED
    BY <1>1, <1>2, <2>1 DEF Put, Drop
<1>6. Queues' /\ Looking' = Looking /\ r \in Looking
  BY <1>1, <1>2, <1>3, <1>5, QueuesTake DEF BalInv
<1>7. \A y : y # x => QueueOf(y)' = QueueOf(y)
  BY <1>4, <1>5 DEF QueueOf
<1>8. x \in Names /\ overtaken' \in [Names -> SUBSET Names]
  BY <1>1, <1>2 DEF BalInv, Queues, QueuesTypeOK
<1>9. WaitsAhead'
  <2> SUFFICES ASSUME NEW z \in Names \ {Empty}, QueueOf(z)' # <<>>, NEW y \in overtaken'[z]
               PROVE  Precedes(vector', position', z, y)
    BY DEF WaitsAhead
  <2>1. z # x /\ (y \in overtaken[z] \/ y = x)
    BY <1>2
  <2>2. QueueOf(z) # <<>>
    BY <1>7, <2>1
  <2>3. y \in overtaken[z] => Precedes(vector, position, z, y)
    BY <2>2 DEF BalInv, WaitsAhead
  <2> QED
    BY <1>3, <2>1, <2>2, <2>3
<1>10. NobodyStranded'
  BY <1>6 DEF NobodyStranded
<1>11. ASSUME NEW z \in Names \ {Empty}, NEW y, QueueOf(z) # <<>>,
              Len(QueueOf(y)') < Len(QueueOf(y)), y \in overtaken[z]
       PROVE  FALSE
  <2>1. Len(QueueOf(y)) \in Nat
    BY LenProperties DEF QueueOf, BalInv, Queues, QueuesTypeOK
  <2>2. y = x
    BY <1>7, <1>11, <2>1
  <2>3. Precedes(vector, position, z, y)
    BY <1>11 DEF BalInv, WaitsAhead
  <2> QED
    BY <1>3, <1>11, <2>2, <2>3
<1> QED
  BY <1>6, <1>8, <1>9, <1>10, <1>11 DEF BalInv

\* The steps that leave the queues alone: a runner begins, returns from its
\* node or ends a round, max() changes.
LEMMA BalRest ==
  ASSUME BalInv,
         \/ \E r \in Runners : (Bal!Begin(r) /\ UNCHANGED overtaken) \/ Bal!RunNode(r)
                               \/ Bal!Erase(r)
         \/ \E m \in MaxValues : Bal!SetMax(m) /\ UNCHANGED overtaken
         \/ UNCHANGED Bal!vars
  PROVE  BalInv' /\ UNCHANGED map
<1>1. /\ UNCHANGED <<name, map, vector, started, position, actives, overtaken>>
      /\ running' \subseteq running
  BY DEF Bal!Begin, Bal!BeginRunner, Bal!RunNode, Bal!NodeReturns, Bal!Erase, Bal!NextRound,
     Bal!SetMax, Bal!SetSchedulerMax, Bal!vars, Bal!runnerVars, Bal!queueVars
<1>2. Queues' /\ Looking' = Looking
  <2>1. ASSUME NEW r \in Runners, Bal!RunNode(r) PROVE Queues' /\ Looking' = Looking
    <3>1. PICK n : n = current[r]
      OBVIOUS
    <3>2. /\ runner[r] = "node" /\ runner' = [runner EXCEPT ![r] = "post"]
          /\ finished' = [finished EXCEPT ![n] = TRUE]
          /\ UNCHANGED <<current, max, running>>
      BY <2>1, <3>1 DEF Bal!RunNode, Bal!NodeReturns, Bal!queueVars
    <3>3. runner'[r] = "post" /\ \A s \in Runners \ {r} : runner'[s] = runner[s]
      BY <3>2 DEF BalInv, Queues, QueuesTypeOK, RunnersTypeOK
    <3>4. Counting' /\ Looking' = Looking
      BY <1>1, <3>2, <3>3, QueuesCount, MoveStep DEF BalInv
    <3>5. RunnersTypeOK'
      BY <1>1, <3>2 DEF BalInv, Queues, QueuesTypeOK, RunnersTypeOK
    <3>6. /\ position' \in Nat /\ running' \subseteq Nodes /\ vector' \in Seq(Names)
          /\ OnceEach(vector') /\ ToSet(vector') = DOMAIN map'
      BY <1>1, <3>2 DEF BalInv, Queues, QueuesTypeOK, Tidy
    <3>7. \A s \in Runners : IF Busy(s)' THEN Busy(s) /\ current'[s] = current[s]
                                         ELSE current'[s] = None
      BY <3>2, <3>3 DEF BalInv, Queues, Held, Busy
    <3>8. \A m \in Nodes : finished'[m] =>
            finished[m] \/ \E s \in Runners : Busy(s) /\ current[s] = m
      <4> SUFFICES ASSUME NEW m \in Nodes, m # n, finished'[m] PROVE finished[m]
        BY <3>1, <3>2 DEF Busy
      <4> QED
        BY <3>2 DEF BalInv, Queues, QueuesTypeOK, RunnersTypeOK
    <3> QED
      BY <1>1, <3>4, <3>5, <3>6, <3>7, <3>8, QueuesShrink DEF BalInv
  <2>2. ASSUME \/ \E r \in Runners : Bal!Begin(r) \/ Bal!Erase(r)
               \/ \E m \in MaxValues : Bal!SetMax(m)
               \/ UNCHANGED Bal!vars
        PROVE  Queues' /\ Looking' = Looking
    <3>1. /\ finished' = finished
          /\ \/ UNCHANGED <<runner, current>>
             \/ \E r \in Runners :
                  \/ /\ runner[r] = "queued" /\ runner' = [runner EXCEPT ![r] = "loop"]
                     /\ current' = current
                  \/ /\ runner[r] = "post" /\ runner' = [runner EXCEPT ![r] = "loop"]
                     /\ current' = [current EXCEPT ![r] = None]
      BY <2>2 DEF Bal!Begin, Bal!BeginRunner, Bal!Erase, Bal!NextRound, Bal!SetMax,
         Bal!SetSchedulerMax, Bal!vars, Bal!runnerVars
    <3>2. max' \in MaxValues
      BY <2>2 DEF Bal!Begin, Bal!BeginRunner, Bal!Erase, Bal!NextRound, Bal!SetMax,
         Bal!SetSchedulerMax, Bal!vars, Bal!runnerVars, BalInv, Queues, QueuesTypeOK,
         RunnersTypeOK
    <3> QED
      BY <1>1, <3>1, <3>2, QueuesRest DEF BalInv
  <2> QED
    BY <2>1, <2>2
<1>3. \A y : QueueOf(y)' = QueueOf(y)
  BY <1>1 DEF QueueOf
<1>4. NoEmpty' => NobodyStranded'
  BY <1>1, <1>2, <1>3 DEF BalInv, NoEmpty, NobodyStranded, Waiting, Queued
<1>5. WaitsAhead'
  BY <1>1, <1>3 DEF BalInv, WaitsAhead
<1> QED
  BY <1>1, <1>2, <1>4, <1>5 DEF BalInv

\* Every step keeps the invariant, and a queue that gets shorter belongs to a
\* name that passed no waiting one before.
LEMMA BalNext ==
  ASSUME BalInv, [Bal!Next]_(Bal!vars)
  PROVE  /\ BalInv'
         /\ \A x \in Names \ {Empty} : \A y :
              QueueOf(x) # <<>> /\ Len(QueueOf(y)') < Len(QueueOf(y)) => y \notin overtaken[x]
<1> DEFINE Fair == \A x \in Names \ {Empty} : \A y :
              QueueOf(x) # <<>> /\ Len(QueueOf(y)') < Len(QueueOf(y)) => y \notin overtaken[x]
<1>1. ASSUME UNCHANGED map PROVE Fair
  <2> SUFFICES ASSUME NEW y, Len(QueueOf(y)') < Len(QueueOf(y)) PROVE FALSE
    OBVIOUS
  <2>1. Len(QueueOf(y)) \in Nat
    BY LenProperties DEF QueueOf, BalInv, Queues, QueuesTypeOK
  <2>2. QueueOf(y)' = QueueOf(y)
    BY <1>1 DEF QueueOf
  <2> QED
    BY <2>1, <2>2
<1>2. ASSUME \A y : Len(QueueOf(y)') < Len(QueueOf(y)) => FALSE PROVE Fair
  BY <1>2
<1> HIDE DEF Fair
<1>3. ASSUME NEW r \in Runners, Bal!Dequeue(r) PROVE BalInv' /\ Fair
  <2>1. CASE Bal!DequeueNothing(r)
    BY <1>2, <2>1, BalNothing
  <2>2. ASSUME NEW i, Bal!DequeueEmptyName(r, i) PROVE BalInv' /\ Fair
    BY <1>2, <2>2, BalEmptyName
  <2>3. ASSUME NEW i, Bal!DequeueName(r, i) PROVE BalInv' /\ Fair
    BY <2>3, BalTake DEF Fair
  <2> QED
    BY <1>3, <2>1, <2>2, <2>3 DEF Bal!Dequeue
<1>4. ASSUME NEW n \in Nodes, NEW x \in Names, Bal!Start(n, x) PROVE BalInv' /\ Fair
  BY <1>2, <1>4, BalStart
<1>5. ASSUME \/ \E r \in Runners : (Bal!Begin(r) /\ UNCHANGED overtaken) \/ Bal!RunNode(r)
                                   \/ Bal!Erase(r)
             \/ \E m \in MaxValues : Bal!SetMax(m) /\ UNCHANGED overtaken
             \/ UNCHANGED Bal!vars
      PROVE  BalInv' /\ Fair
  BY <1>1, <1>5, BalRest
<1>6. ASSUME NEW r \in Runners, Bal!Run(r) PROVE BalInv' /\ Fair
  BY <1>3, <1>5, <1>6 DEF Bal!Run
<1> QED
  BY <1>4, <1>5, <1>6 DEF Bal!Next, Fair

\* It holds at the start.
LEMMA BalInit ==
  Bal!Init => BalInv
<1> SUFFICES ASSUME Bal!Init PROVE BalInv
  OBVIOUS
<1>1. QueuesInit /\ overtaken = [x \in Names |-> {}]
  BY DEF Bal!Init, Bal!QueuesInit, QueuesInit, Bal!RunnersInit, RunnersInit
<1>2. WaitsAhead
  BY <1>1 DEF WaitsAhead
<1> QED
  BY <1>1, <1>2, QueuesAtStart DEF BalInv

\* Consistent of the instance, in the terms of this module.
LEMMA BalIsConsistent ==
  ASSUME BalInv PROVE Bal!Consistent
<1>1. VectorIsMap /\ QueuedOnce
  BY QueuesAreConsistent DEF BalInv
<1>2. \A S : Bal!Cardinality(S) = Cardinality(S)
  BY DEF Bal!Cardinality, Cardinality
<1>3. Bal!TypeOK
  BY <1>2 DEF Bal!TypeOK, Bal!QueuesTypeOK, QueuesTypeOK, Bal!RunnersTypeOK, RunnersTypeOK,
     BalInv, Queues
<1>4. Bal!CountsLookers /\ Bal!VectorIsMap
  BY <1>1, <1>2 DEF BalInv, Queues, CountsLookers, Bal!CountsLookers, Looking, Bal!Looking,
     ToSet, Bal!ToSet, VectorIsMap, Bal!VectorIsMap
<1>5. Bal!NoEmptyName => Bal!NobodyStranded
  BY DEF BalInv, NoEmpty, Bal!NoEmptyName, NobodyStranded, Bal!NobodyStranded, Waiting,
     Bal!Waiting, Queued, Bal!Queued, QueueOf, Bal!QueueOf, ToSet, Bal!ToSet, Looking,
     Bal!Looking
<1>6. Bal!QueuedOnce
  BY <1>1, <1>2 DEF QueuedOnce, Bal!QueuedOnce, Waiting, Bal!Waiting, Queued, Bal!Queued,
     QueueOf, Bal!QueueOf, ToSet, Bal!ToSet, Executing, Bal!Executing
<1> QED
  BY <1>3, <1>4, <1>5, <1>6 DEF Bal!Consistent

\* The bookkeeping of balanced.cpp agrees with what runs and waits in every
\* interleaving, for any numbers of nodes, names and runners: dequeue erases
\* the names it passes from map and vector alike, loses no node, and leaves
\* none without a runner - unless somebody used the empty name.
THEOREM BalancedConsistent ==
  Bal!Spec => []Bal!Consistent
<1>1. BalInv /\ [Bal!Next]_(Bal!vars) => BalInv'
  BY BalNext
<1>2. BalInv => Bal!Consistent
  BY BalIsConsistent
<1> QED
  BY <1>1, <1>2, BalInit, PTL DEF Bal!Spec

\* Round robin: while a name waits, balanced::dequeue serves no other name
\* twice, wherever position is, whatever is erased and whoever joins.
THEOREM BalancedNoDoubleOvertake ==
  Bal!Spec => Bal!NoDoubleOvertake
<1>1. BalInv /\ [Bal!Next]_(Bal!vars) => BalInv'
  BY BalNext
<1>2. BalInv /\ [Bal!Next]_(Bal!vars) =>
        [\A x, y \in Names \ {Empty} :
           (x # y /\ Bal!Queued(x) # {} /\ Head(Bal!QueueOf(x)) \in Bal!Waiting'
            /\ Len(Bal!QueueOf(y)') < Len(Bal!QueueOf(y)))
             => y \notin overtaken[x]]_(Bal!vars)
  <2> SUFFICES ASSUME BalInv, [Bal!Next]_(Bal!vars), NEW x \in Names \ {Empty},
                      NEW y \in Names \ {Empty}, Bal!Queued(x) # {},
                      Len(Bal!QueueOf(y)') < Len(Bal!QueueOf(y))
               PROVE  y \notin overtaken[x]
    OBVIOUS
  <2>1. QueueOf(x) # <<>> /\ Len(QueueOf(y)') < Len(QueueOf(y))
    BY DEF Bal!Queued, Bal!QueueOf, QueueOf, Bal!ToSet
  <2> QED
    BY <2>1, BalNext
<1> QED
  BY <1>1, <1>2, BalInit, PTL DEF Bal!Spec, Bal!NoDoubleOvertake
=============================================================================
