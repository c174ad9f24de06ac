----------------------------- MODULE MvmProofs ------------------------------
(***************************************************************************)
(* Proof that every Lua state belongs to one place, and that getInstance   *)
(* returns no outdated one, for any number of threads, states and calls.   *)
(*                                                                         *)
(* A step moves at most one state: out of the container, into it, from new *)
(* or to delete (the lemmas Kept to Deleted).  Which of its variables      *)
(* holds that state depends on where the thread is: Shape.                 *)
(***************************************************************************)
EXTENDS Mvm, TLAPS, FiniteSetTheorems, SequenceTheorems

\* Where a thread is in an operation, and which of inst, local and extra hold a
\* state there.
Gets(t) ==
  /\ inst[t] = NoData /\ extra[t] = NoData /\ mvm_map[t] = NoData
  /\ \/ pc[t] \in {"pop", "null", "make"} /\ local[t] = NoData
     \/ pc[t] \in {"decr", "popped", "register"} /\ local[t] # NoData

Reloads(t) ==
  /\ inst[t] # NoData /\ mvm_map[t] = inst[t]
  /\ \/ pc[t] \in {"pop", "null", "bump"} /\ local[t] = NoData /\ extra[t] = NoData
     \/ pc[t] \in {"decr", "popped", "renew", "drop"} /\ local[t] # NoData /\ extra[t] = NoData
     \/ pc[t] = "back" /\ ret[t] = "drop" /\ local[t] # NoData /\ extra[t] # NoData
     \/ pc[t] = "incr" /\ ret[t] = "drop" /\ local[t] # NoData /\ extra[t] = NoData
     \/ pc[t] = "incr" /\ ret[t] = "bump" /\ local[t] = NoData /\ extra[t] = NoData

Collects(t) ==
  /\ inst[t] # NoData /\ mvm_map[t] = inst[t]
  /\ \/ pc[t] \in {"pop", "null"} /\ local[t] = NoData /\ extra[t] = NoData
     \/ pc[t] \in {"decr", "popped", "mark"} /\ local[t] # NoData /\ extra[t] = NoData
     \/ pc[t] = "back" /\ ret[t] = "pop" /\ local[t] = NoData /\ extra[t] # NoData
     \/ pc[t] = "incr" /\ ret[t] = "pop" /\ local[t] = NoData /\ extra[t] = NoData

Clears(t) ==
  /\ inst[t] # NoData /\ mvm_map[t] = inst[t] /\ extra[t] = NoData
  /\ \/ pc[t] \in {"empty", "pop"} /\ local[t] = NoData
     \/ pc[t] \in {"decr", "popped"}

Rests(t) ==
  /\ local[t] = NoData
  /\ \/ /\ pc[t] = "idle" /\ inst[t] = NoData /\ extra[t] = NoData
        /\ mvm_map[t] = NoData
     \/ /\ inst[t] # NoData /\ mvm_map[t] = inst[t]
        /\ \/ pc[t] = "use" /\ extra[t] = NoData
           \/ pc[t] = "back" /\ ret[t] = "use" /\ extra[t] # NoData
           \/ pc[t] = "incr" /\ ret[t] = "use" /\ extra[t] = NoData
     \/ /\ inst[t] = NoData /\ extra[t] = NoData
        /\ pc[t] = "erase" \/ (pc[t] = "incr" /\ ret[t] = "erase")

Shape(t) ==
  \/ op[t] = "get" /\ Gets(t)
  \/ op[t] = "reload" /\ Reloads(t)
  \/ op[t] = "gc" /\ Collects(t)
  \/ op[t] = "clear" /\ Clears(t)
  \/ op[t] = "none" /\ Rests(t)

\* The variables of a thread hold different states.
Distinct(t) ==
  /\ inst[t] # NoData => inst[t] \notin {local[t], extra[t]}
  /\ local[t] # NoData => local[t] # extra[t]

\* Every state is in one place.
Places ==
  /\ IsInjective(container)
  /\ live = Pooled \cup UNION {Held(t) : t \in Threads}
  /\ \A t \in Threads : Held(t) \cap Pooled = {}
  /\ \A s, t \in Threads : s # t => Held(s) \cap Held(t) = {}

\* What getInstance has in hand is not older than the call.
Recent(t) ==
  /\ asked[t] <= version
  /\ inst[t] # NoData => ver[inst[t]] >= asked[t]
  /\ pc[t] = "register" => ver[local[t]] >= asked[t]

Inv ==
  /\ TypeOK /\ Places
  /\ \A t \in Threads : Shape(t) /\ Distinct(t) /\ Recent(t)

-----------------------------------------------------------------------------
(* The container: a sequence without repetitions.                          *)

\* The front of the container and the rest of it.
LEMMA ContainerTail ==
  ASSUME NEW s \in Seq(Data), s # <<>>, IsInjective(s)
  PROVE  /\ Head(s) \in Data /\ Tail(s) \in Seq(Data)
         /\ Head(s) \in ToSet(s)
         /\ IsInjective(Tail(s)) /\ ToSet(Tail(s)) = ToSet(s) \ {Head(s)}
<1>1. /\ Head(s) \in Data /\ Tail(s) \in Seq(Data)
      /\ Len(s) \in Nat \ {0} /\ Len(Tail(s)) = Len(s) - 1
      /\ \A i \in 1..Len(Tail(s)) : Tail(s)[i] = s[i + 1]
      /\ DOMAIN s = 1..Len(s) /\ DOMAIN Tail(s) = 1..Len(Tail(s)) /\ Head(s) = s[1]
  BY HeadTailProperties, EmptySeq, LenProperties
<1>2. Head(s) \in ToSet(s)
  BY <1>1 DEF ToSet
<1>3. IsInjective(Tail(s))
  BY <1>1 DEF IsInjective
<1>4. ASSUME NEW d \in ToSet(Tail(s)) PROVE d \in ToSet(s) /\ d # Head(s)
  <2>1. PICK i \in 1..Len(Tail(s)) : d = s[i + 1]
    BY <1>1 DEF ToSet
  <2>2. i + 1 \in 1..Len(s) /\ i + 1 # 1
    BY <1>1
  <2> QED
    BY <1>1, <2>1, <2>2 DEF ToSet, IsInjective
<1>5. ASSUME NEW d \in ToSet(s), d # Head(s) PROVE d \in ToSet(Tail(s))
  <2>1. PICK i \in 1..Len(s) : d = s[i]
    BY <1>1 DEF ToSet
  <2>2. i - 1 \in 1..Len(Tail(s)) /\ (i - 1) + 1 = i
    BY <1>1, <1>5, <2>1
  <2>3. Tail(s)[i - 1] = d
    BY <1>1, <2>1, <2>2
  <2> QED
    BY <1>1, <2>2, <2>3 DEF ToSet
<1> QED
  BY <1>1, <1>2, <1>3, <1>4, <1>5

\* A state put to one of the ends.
LEMMA ContainerAdd ==
  ASSUME NEW s \in Seq(Data), NEW d \in Data, d \notin ToSet(s), IsInjective(s),
         NEW r, r = Append(s, d) \/ r = <<d>> \o s
  PROVE  r \in Seq(Data) /\ IsInjective(r) /\ ToSet(r) = ToSet(s) \cup {d}
<1>1. Len(s) \in Nat /\ DOMAIN s = 1..Len(s) /\ \A i \in 1..Len(s) : s[i] # d
  BY LenProperties DEF ToSet
<1>2. CASE r = Append(s, d)
  <2>1. /\ r \in Seq(Data) /\ Len(r) = Len(s) + 1 /\ r[Len(s) + 1] = d
        /\ \A i \in 1..Len(s) : r[i] = s[i]
    BY <1>2, AppendProperties
  <2>2. DOMAIN r = 1..Len(s) + 1
    BY <2>1, LenProperties
  <2>3. IsInjective(r)
    BY <1>1, <2>1, <2>2 DEF IsInjective
  <2>4. ToSet(r) = ToSet(s) \cup {d}
    BY <1>1, <2>1, <2>2 DEF ToSet
  <2> QED
    BY <2>1, <2>3, <2>4
<1>3. CASE r = <<d>> \o s
  <2>1. /\ r \in Seq(Data) /\ Len(r) = Len(s) + 1 /\ r[1] = d
        /\ \A i \in 1..Len(s) : r[i + 1] = s[i]
    BY <1>1, <1>3
  <2>2. DOMAIN r = 1..Len(s) + 1
    BY <2>1, LenProperties
  <2>3. \A i \in DOMAIN r : i = 1 \/ (i - 1 \in 1..Len(s) /\ r[i] = s[i - 1])
    BY <1>1, <2>1, <2>2
  <2>4. IsInjective(r)
    BY <1>1, <2>1, <2>2, <2>3 DEF IsInjective
  <2>5. ToSet(r) = ToSet(s) \cup {d}
    <3>1. ASSUME NEW e \in ToSet(r) PROVE e \in ToSet(s) \cup {d}
      BY <1>1, <2>1, <2>3 DEF ToSet
    <3>2. ASSUME NEW e \in ToSet(s) \cup {d} PROVE e \in ToSet(r)
      <4>1. CASE e = d
        BY <1>1, <2>1, <2>2, <4>1 DEF ToSet
      <4>2. CASE e \in ToSet(s)
        <5>1. PICK i \in 1..Len(s) : e = s[i]
          BY <1>1, <4>2 DEF ToSet
        <5>2. i + 1 \in DOMAIN r /\ r[i + 1] = e
          BY <1>1, <2>1, <2>2, <5>1
        <5> QED
          BY <5>2 DEF ToSet
      <4> QED
        BY <3>2, <4>1, <4>2
    <3> QED
      BY <3>1, <3>2
  <2> QED
    BY <2>1, <2>4, <2>5
<1> QED
  BY <1>2, <1>3

-----------------------------------------------------------------------------
(* Steps of one thread.                                                    *)

OthersKeep(t) ==
  \A u \in Threads \ {t} :
    /\ pc'[u] = pc[u] /\ op'[u] = op[u] /\ ret'[u] = ret[u]
    /\ inst'[u] = inst[u] /\ local'[u] = local[u] /\ extra'[u] = extra[u]
    /\ mvm_map'[u] = mvm_map[u] /\ asked'[u] = asked[u]

\* The container and the thread share their states in another way, with some
\* that did not exist; the others have what they had.
LEMMA PlacesStep ==
  ASSUME Places, NEW t \in Threads, OthersKeep(t), IsInjective(container'),
         NEW H, H = Held(t)', NEW P, P = Pooled',
         P \cap H = {},
         (P \cup H) \cap (live \ (Pooled \cup Held(t))) = {},
         live' = P \cup H \cup (live \ (Pooled \cup Held(t)))
  PROVE  Places'
<1>1. \A u \in Threads \ {t} : Held(u)' = Held(u)
  BY DEF OthersKeep, Held
<1>2. \A u \in Threads \ {t} : Held(u) \subseteq live \ (Pooled \cup Held(t))
  BY DEF Places
<1>3. \A u \in Threads : Held(u)' \cap P = {}
  BY <1>1, <1>2
<1>4. \A u, v \in Threads : u # v => Held(u)' \cap Held(v)' = {}
  BY <1>1, <1>2 DEF Places
<1>5. live' = P \cup UNION {Held(u)' : u \in Threads}
  <2>1. ASSUME NEW d \in live' PROVE d \in P \/ \E u \in Threads : d \in Held(u)'
    <3>1. CASE d \in live \ (Pooled \cup Held(t))
      <4>1. PICK u \in Threads : d \in Held(u)
        BY <3>1 DEF Places
      <4>2. u # t
        BY <3>1, <4>1
      <4> QED
        BY <1>1, <4>1, <4>2
    <3> QED
      BY <2>1, <3>1
  <2>2. ASSUME NEW d, NEW u \in Threads, d \in Held(u)' PROVE d \in live'
    <3>1. CASE u = t
      BY <2>2, <3>1
    <3>2. CASE u # t
      BY <1>1, <1>2, <2>2, <3>2
    <3> QED
      BY <3>1, <3>2
  <2> QED
    BY <2>1, <2>2
<1> QED
  BY <1>3, <1>4, <1>5 DEF Places

\* What a step leaves alone of the other threads, it keeps of the invariant.
LEMMA OthersStep ==
  ASSUME Inv, NEW t \in Threads, OthersKeep(t), version' \in Nat, version' >= version,
         \A d \in live \ Held(t) : ver'[d] = ver[d]
  PROVE  \A u \in Threads \ {t} : Shape(u)' /\ Distinct(u)' /\ Recent(u)'
<1> SUFFICES ASSUME NEW u \in Threads \ {t}
             PROVE  Shape(u)' /\ Distinct(u)' /\ Recent(u)'
  OBVIOUS
<1>1. Shape(u)' /\ Distinct(u)'
  BY DEF Inv, OthersKeep, Shape, Distinct, Gets, Reloads, Collects, Clears, Rests
<1>2. Held(u) \subseteq live \ Held(t)
  BY DEF Inv, Places
<1>3. pc[u] = "register" => local[u] # NoData
  BY DEF Inv, Shape, Gets, Reloads, Collects, Clears, Rests
<1>4. /\ inst[u] # NoData => ver'[inst[u]] = ver[inst[u]]
      /\ local[u] # NoData => ver'[local[u]] = ver[local[u]]
  BY <1>2 DEF Held
<1>5. Recent(u)'
  BY <1>3, <1>4 DEF Inv, TypeOK, OthersKeep, Recent
<1> QED
  BY <1>1, <1>5

\* The five ways in which a step treats the states: all stay where they are,
LEMMA Kept ==
  ASSUME Inv, NEW t \in Threads, OthersKeep(t),
         container' = container, live' = live, Held(t)' = Held(t)
  PROVE  Places'
<1>1. Held(t) \subseteq live /\ Pooled \subseteq live /\ Held(t) \cap Pooled = {}
  BY DEF Inv, Places
<1>2. Pooled' = Pooled /\ IsInjective(container')
  BY DEF Inv, Places, Pooled
<1> QED
  BY <1>1, <1>2, PlacesStep DEF Inv

\* the thread takes the first one of the container,
LEMMA Popped ==
  ASSUME Inv, NEW t \in Threads, OthersKeep(t), container # <<>>,
         container' = Tail(container), live' = live,
         Held(t)' = Held(t) \cup {Head(container)}
  PROVE  Places'
<1>1. Held(t) \subseteq live /\ Pooled \subseteq live /\ Held(t) \cap Pooled = {}
  BY DEF Inv, Places
<1>2. /\ Pooled' = Pooled \ {Head(container)} /\ IsInjective(container')
      /\ Head(container) \in Pooled
  BY ContainerTail DEF Inv, TypeOK, Places, Pooled
<1> QED
  BY <1>1, <1>2, PlacesStep DEF Inv

\* the thread puts one into the container,
LEMMA Pushed ==
  ASSUME Inv, NEW t \in Threads, OthersKeep(t), NEW d \in Held(t),
         container' = Append(container, d) \/ container' = <<d>> \o container,
         live' = live, Held(t)' = Held(t) \ {d}
  PROVE  Places' /\ container' \in Seq(Data)
<1>1. Held(t) \subseteq live /\ Pooled \subseteq live /\ Held(t) \cap Pooled = {}
  BY DEF Inv, Places
<1>2. /\ Pooled' = Pooled \cup {d} /\ IsInjective(container')
      /\ container' \in Seq(Data)
  <2>1. d \in Data /\ d \notin ToSet(container)
    BY <1>1 DEF Inv, TypeOK, Pooled
  <2> QED
    BY <2>1, ContainerAdd DEF Inv, TypeOK, Places, Pooled
<1>3. /\ Pooled' \cap Held(t)' = {}
      /\ (Pooled' \cup Held(t)') \cap (live \ (Pooled \cup Held(t))) = {}
      /\ live' = Pooled' \cup Held(t)' \cup (live \ (Pooled \cup Held(t)))
  BY <1>1, <1>2
<1>4. Places'
  BY <1>2, <1>3, PlacesStep DEF Inv
<1> QED
  BY <1>2, <1>4

\* the thread makes one,
LEMMA Made ==
  ASSUME Inv, NEW t \in Threads, OthersKeep(t), NEW d \in Data \ live,
         container' = container, live' = live \cup {d}, Held(t)' = Held(t) \cup {d}
  PROVE  Places'
<1>1. Held(t) \subseteq live /\ Pooled \subseteq live /\ Held(t) \cap Pooled = {}
  BY DEF Inv, Places
<1>2. Pooled' = Pooled /\ IsInjective(container')
  BY DEF Inv, Places, Pooled
<1> QED
  BY <1>1, <1>2, PlacesStep DEF Inv

\* or the thread deletes one of its own.
LEMMA Deleted ==
  ASSUME Inv, NEW t \in Threads, OthersKeep(t), NEW d \in Held(t),
         container' = container, live' = live \ {d}, Held(t)' = Held(t) \ {d}
  PROVE  Places'
<1>1. Held(t) \subseteq live /\ Pooled \subseteq live /\ Held(t) \cap Pooled = {}
  BY DEF Inv, Places
<1>2. Pooled' = Pooled /\ IsInjective(container')
  BY DEF Inv, Places, Pooled
<1> QED
  BY <1>1, <1>2, PlacesStep DEF Inv

\* The thread that takes the step, the places and the others together.
LEMMA Together ==
  ASSUME Inv, NEW t \in Threads, OthersKeep(t), TypeOK', Places',
         version' >= version, \A d \in live \ Held(t) : ver'[d] = ver[d],
         Shape(t)', Distinct(t)', Recent(t)'
  PROVE  Inv'
<1>1. \A u \in Threads \ {t} : Shape(u)' /\ Distinct(u)' /\ Recent(u)'
  BY OthersStep DEF TypeOK
<1> QED
  BY <1>1 DEF Inv

\* What new returns.
LEMMA FreshObject ==
  ASSUME Inv, live # Data
  PROVE  Fresh \in Data \ live
BY DEF Inv, TypeOK, Fresh

-----------------------------------------------------------------------------
(* Steps after which every state is where it was.                          *)

\* getInstance begins.
LEMMA GetInstanceStep ==
  ASSUME Inv, NEW t \in Threads, NEW create \in BOOLEAN, GetInstance(t, create)
  PROVE  Inv'
<1> USE DEF GetInstance, Call, Goto, Set, objects, threads
<1>1. OthersKeep(t)
  BY DEF Inv, TypeOK, OthersKeep
<1>2. TypeOK'
  BY MvmAssumption DEF Inv, TypeOK, Labels
<1>3. Shape(t)'
  BY DEF Inv, TypeOK, Shape, Gets, Reloads, Collects, Clears, Rests
<1>4. Held(t)' = Held(t)
  BY DEF Inv, TypeOK, Held, Shape, Gets, Reloads, Collects, Clears, Rests
<1>5. Places'
  BY <1>1, <1>4, Kept
<1>6. Distinct(t)' /\ Recent(t)'
  <2>1. inst[t] = NoData /\ inst' = inst /\ local' = local /\ extra' = extra
    BY DEF Inv, Shape, Gets, Reloads, Collects, Clears, Rests
  <2>2. asked'[t] = version /\ version' = version /\ pc'[t] # "register"
    BY DEF Inv, TypeOK
  <2> QED
    BY <2>1, <2>2 DEF Inv, TypeOK, Distinct, Recent
<1>7. version' >= version /\ \A d \in live \ Held(t) : ver'[d] = ver[d]
  BY DEF Inv, TypeOK
<1> QED
  BY <1>1, <1>2, <1>3, <1>5, <1>6, <1>7, Together

\* reload begins.
LEMMA ReloadStep ==
  ASSUME Inv, NEW t \in Threads, Reload(t)
  PROVE  Inv'
<1> USE DEF Reload, Call, Goto, Set, objects, threads
<1>1. OthersKeep(t)
  BY DEF Inv, TypeOK, OthersKeep
<1>2. TypeOK'
  BY MvmAssumption DEF Inv, TypeOK, Labels
<1>3. Shape(t)'
  BY DEF Inv, TypeOK, Shape, Gets, Reloads, Collects, Clears, Rests
<1>4. Held(t)' = Held(t)
  BY DEF Inv, TypeOK, Held, Shape, Gets, Reloads, Collects, Clears, Rests
<1>5. Places'
  BY <1>1, <1>4, Kept
<1>6. Distinct(t)' /\ Recent(t)'
  BY DEF Inv, TypeOK, Distinct, Recent, Shape, Gets, Reloads, Collects, Clears, Rests
<1>7. version' >= version /\ \A d \in live \ Held(t) : ver'[d] = ver[d]
  BY DEF Inv, TypeOK
<1> QED
  BY <1>1, <1>2, <1>3, <1>5, <1>6, <1>7, Together

\* gc begins.
LEMMA GcStep ==
  ASSUME Inv, NEW t \in Threads, Gc(t)
  PROVE  Inv'
<1> USE DEF Gc, Call, Goto, Set, objects, threads
<1>1. OthersKeep(t)
  BY DEF Inv, TypeOK, OthersKeep
<1>2. TypeOK'
  BY MvmAssumption DEF Inv, TypeOK, Labels
<1>3. Shape(t)'
  BY DEF Inv, TypeOK, Shape, Gets, Reloads, Collects, Clears, Rests
<1>4. Held(t)' = Held(t)
  BY DEF Inv, TypeOK, Held, Shape, Gets, Reloads, Collects, Clears, Rests
<1>5. Places'
  BY <1>1, <1>4, Kept
<1>6. Distinct(t)' /\ Recent(t)'
  BY DEF Inv, TypeOK, Distinct, Recent, Shape, Gets, Reloads, Collects, Clears, Rests
<1>7. version' >= version /\ \A d \in live \ Held(t) : ver'[d] = ver[d]
  BY DEF Inv, TypeOK
<1> QED
  BY <1>1, <1>2, <1>3, <1>5, <1>6, <1>7, Together

\* clear begins.
LEMMA ClearStep ==
  ASSUME Inv, NEW t \in Threads, Clear(t)
  PROVE  Inv'
<1> USE DEF Clear, Call, Goto, Set, objects, threads
<1>1. OthersKeep(t)
  BY DEF Inv, TypeOK, OthersKeep
<1>2. TypeOK'
  BY MvmAssumption DEF Inv, TypeOK, Labels
<1>3. Shape(t)'
  BY DEF Inv, TypeOK, Shape, Gets, Reloads, Collects, Clears, Rests
<1>4. Held(t)' = Held(t)
  BY DEF Inv, TypeOK, Held, Shape, Gets, Reloads, Collects, Clears, Rests
<1>5. Places'
  BY <1>1, <1>4, Kept
<1>6. Distinct(t)' /\ Recent(t)'
  BY DEF Inv, TypeOK, Distinct, Recent, Shape, Gets, Reloads, Collects, Clears, Rests
<1>7. version' >= version /\ \A d \in live \ Held(t) : ver'[d] = ver[d]
  BY DEF Inv, TypeOK
<1> QED
  BY <1>1, <1>2, <1>3, <1>5, <1>6, <1>7, Together

\* A client asks for its state to be deleted instead of reused.
LEMMA ReleaseStep ==
  ASSUME Inv, NEW t \in Threads, Release(t)
  PROVE  Inv'
<1> USE DEF Release, Goto, Set, objects, threads
<1>1. OthersKeep(t)
  BY DEF Inv, TypeOK, OthersKeep
<1>2. TypeOK'
  <2>1. inst[t] \in Data
    BY DEF Inv, TypeOK, Shape, Gets, Reloads, Collects, Clears, Rests
  <2> QED
    BY <2>1 DEF Inv, TypeOK
<1>3. Shape(t)'
  BY DEF Inv, TypeOK, Shape, Gets, Reloads, Collects, Clears, Rests
<1>4. Held(t)' = Held(t)
  BY DEF Inv, TypeOK, Held, Shape, Gets, Reloads, Collects, Clears, Rests
<1>5. Places'
  BY <1>1, <1>4, Kept
<1>6. Distinct(t)' /\ Recent(t)'
  BY DEF Inv, TypeOK, Distinct, Recent, Shape, Gets, Reloads, Collects, Clears, Rests
<1>7. version' >= version /\ \A d \in live \ Held(t) : ver'[d] = ver[d]
  BY DEF Inv, TypeOK
<1> QED
  BY <1>1, <1>2, <1>3, <1>5, <1>6, <1>7, Together

\* The counter goes down after a pop.
LEMMA CountDownStep ==
  ASSUME Inv, NEW t \in Threads, CountDown(t)
  PROVE  Inv'
<1> USE DEF CountDown, Goto, Set, objects, threads
<1>1. OthersKeep(t)
  BY DEF Inv, TypeOK, OthersKeep
<1>2. TypeOK'
  BY MvmAssumption DEF Inv, TypeOK, Labels
<1>3. Shape(t)'
  BY DEF Inv, TypeOK, Shape, Gets, Reloads, Collects, Clears, Rests
<1>4. Held(t)' = Held(t)
  BY DEF Inv, TypeOK, Held, Shape, Gets, Reloads, Collects, Clears, Rests
<1>5. Places'
  BY <1>1, <1>4, Kept
<1>6. Distinct(t)' /\ Recent(t)'
  BY DEF Inv, TypeOK, Distinct, Recent, Shape, Gets, Reloads, Collects, Clears, Rests
<1>7. version' >= version /\ \A d \in live \ Held(t) : ver'[d] = ver[d]
  BY DEF Inv, TypeOK
<1> QED
  BY <1>1, <1>2, <1>3, <1>5, <1>6, <1>7, Together

\* The counter goes up after a push.
LEMMA CountUpStep ==
  ASSUME Inv, NEW t \in Threads, CountUp(t)
  PROVE  Inv'
<1> USE DEF CountUp, Goto, Set, objects, threads
<1>1. OthersKeep(t)
  BY DEF Inv, TypeOK, OthersKeep
<1>2. TypeOK'
  BY MvmAssumption DEF Inv, TypeOK, Labels
<1>3. Shape(t)'
  BY DEF Inv, TypeOK, Shape, Gets, Reloads, Collects, Clears, Rests
<1>4. Held(t)' = Held(t)
  BY DEF Inv, TypeOK, Held, Shape, Gets, Reloads, Collects, Clears, Rests
<1>5. Places'
  BY <1>1, <1>4, Kept
<1>6. Distinct(t)' /\ Recent(t)'
  BY DEF Inv, TypeOK, Distinct, Recent, Shape, Gets, Reloads, Collects, Clears, Rests
<1>7. version' >= version /\ \A d \in live \ Held(t) : ver'[d] = ver[d]
  BY DEF Inv, TypeOK
<1> QED
  BY <1>1, <1>2, <1>3, <1>5, <1>6, <1>7, Together

\* The state is registered and handed to the client.
LEMMA RegisterStep ==
  ASSUME Inv, NEW t \in Threads, Register(t)
  PROVE  Inv'
<1> USE DEF Register, Goto, Set, objects, threads
<1>1. OthersKeep(t)
  BY DEF Inv, TypeOK, OthersKeep
<1>2. TypeOK'
  BY MvmAssumption DEF Inv, TypeOK, Labels
<1>3. Shape(t)'
  BY DEF Inv, TypeOK, Shape, Gets, Reloads, Collects, Clears, Rests
<1>4. Held(t)' = Held(t)
  BY DEF Inv, TypeOK, Held, Shape, Gets, Reloads, Collects, Clears, Rests
<1>5. Places'
  BY <1>1, <1>4, Kept
<1>6. Distinct(t)' /\ Recent(t)'
  BY DEF Inv, TypeOK, Distinct, Recent, Shape, Gets, Reloads, Collects, Clears, Rests
<1>7. version' >= version /\ \A d \in live \ Held(t) : ver'[d] = ver[d]
  BY DEF Inv, TypeOK
<1> QED
  BY <1>1, <1>2, <1>3, <1>5, <1>6, <1>7, Together

\* ~instance ends: the registration is removed.
LEMMA EraseStep ==
  ASSUME Inv, NEW t \in Threads, Erase(t)
  PROVE  Inv'
<1> USE DEF Erase, Goto, Set, objects, threads
<1>1. OthersKeep(t)
  BY DEF Inv, TypeOK, OthersKeep
<1>2. TypeOK'
  BY MvmAssumption DEF Inv, TypeOK, Labels
<1>3. Shape(t)'
  BY DEF Inv, TypeOK, Shape, Gets, Reloads, Collects, Clears, Rests
<1>4. Held(t)' = Held(t)
  BY DEF Inv, TypeOK, Held, Shape, Gets, Reloads, Collects, Clears, Rests
<1>5. Places'
  BY <1>1, <1>4, Kept
<1>6. Distinct(t)' /\ Recent(t)'
  BY DEF Inv, TypeOK, Distinct, Recent, Shape, Gets, Reloads, Collects, Clears, Rests
<1>7. version' >= version /\ \A d \in live \ Held(t) : ver'[d] = ver[d]
  BY DEF Inv, TypeOK
<1> QED
  BY <1>1, <1>2, <1>3, <1>5, <1>6, <1>7, Together

\* reload raises the version.
LEMMA ReloadBumpStep ==
  ASSUME Inv, NEW t \in Threads, ReloadBump(t)
  PROVE  Inv'
<1> USE DEF ReloadBump, Goto, Set, objects, threads
<1>1. OthersKeep(t)
  BY DEF Inv, TypeOK, OthersKeep
<1>2. TypeOK'
  BY MvmAssumption DEF Inv, TypeOK, Labels
<1>3. Shape(t)'
  BY DEF Inv, TypeOK, Shape, Gets, Reloads, Collects, Clears, Rests
<1>4. Held(t)' = Held(t)
  BY DEF Inv, TypeOK, Held, Shape, Gets, Reloads, Collects, Clears, Rests
<1>5. Places'
  BY <1>1, <1>4, Kept
<1>6. Distinct(t)' /\ Recent(t)'
  BY DEF Inv, TypeOK, Distinct, Recent, Shape, Gets, Reloads, Collects, Clears, Rests
<1>7. version' >= version /\ \A d \in live \ Held(t) : ver'[d] = ver[d]
  BY DEF Inv, TypeOK
<1> QED
  BY <1>1, <1>2, <1>3, <1>5, <1>6, <1>7, Together

\* gc looks whether the state it popped was collected already.
LEMMA GcTestStep ==
  ASSUME Inv, NEW t \in Threads, GcTest(t)
  PROVE  Inv'
<1> USE DEF GcTest, Goto, Set, objects, threads
<1>1. OthersKeep(t)
  BY DEF Inv, TypeOK, OthersKeep
<1>2. TypeOK'
  BY MvmAssumption, ZenonT(40) DEF Inv, TypeOK, Labels
<1>3. Shape(t)'
  BY DEF Inv, TypeOK, Shape, Gets, Reloads, Collects, Clears, Rests
<1>4. Held(t)' = Held(t)
  BY DEF Inv, TypeOK, Held, Shape, Gets, Reloads, Collects, Clears, Rests
<1>5. Places'
  BY <1>1, <1>4, Kept
<1>6. Distinct(t)' /\ Recent(t)'
  BY DEF Inv, TypeOK, Distinct, Recent, Shape, Gets, Reloads, Collects, Clears, Rests
<1>7. version' >= version /\ \A d \in live \ Held(t) : ver'[d] = ver[d]
  BY DEF Inv, TypeOK
<1> QED
  BY <1>1, <1>2, <1>3, <1>5, <1>6, <1>7, Together

\* gc collects a state and puts it back.
LEMMA GcMarkStep ==
  ASSUME Inv, NEW t \in Threads, GcMark(t)
  PROVE  Inv'
<1> USE DEF GcMark, Goto, Set, objects, threads
<1>1. OthersKeep(t)
  BY DEF Inv, TypeOK, OthersKeep
<1>2. TypeOK'
  BY MvmAssumption DEF Inv, TypeOK, Labels
<1>3. Shape(t)'
  BY DEF Inv, TypeOK, Shape, Gets, Reloads, Collects, Clears, Rests
<1>4. Held(t)' = Held(t)
  BY DEF Inv, TypeOK, Held, Shape, Gets, Reloads, Collects, Clears, Rests
<1>5. Places'
  BY <1>1, <1>4, Kept
<1>6. Distinct(t)' /\ Recent(t)'
  BY DEF Inv, TypeOK, Distinct, Recent, Shape, Gets, Reloads, Collects, Clears, Rests
<1>7. version' >= version /\ \A d \in live \ Held(t) : ver'[d] = ver[d]
  BY DEF Inv, TypeOK
<1> QED
  BY <1>1, <1>2, <1>3, <1>5, <1>6, <1>7, Together

\* clear looks whether a state is left.
LEMMA ClearTestStep ==
  ASSUME Inv, NEW t \in Threads, ClearTest(t)
  PROVE  Inv'
<1> USE DEF ClearTest, Goto, Set, objects, threads
<1>1. OthersKeep(t)
  BY DEF Inv, TypeOK, OthersKeep
<1>2. TypeOK'
  BY MvmAssumption DEF Inv, TypeOK, Labels
<1>3. Shape(t)'
  BY DEF Inv, TypeOK, Shape, Gets, Reloads, Collects, Clears, Rests
<1>4. Held(t)' = Held(t)
  BY DEF Inv, TypeOK, Held, Shape, Gets, Reloads, Collects, Clears, Rests
<1>5. Places'
  BY <1>1, <1>4, Kept
<1>6. Distinct(t)' /\ Recent(t)'
  BY DEF Inv, TypeOK, Distinct, Recent, Shape, Gets, Reloads, Collects, Clears, Rests
<1>7. version' >= version /\ \A d \in live \ Held(t) : ver'[d] = ver[d]
  BY DEF Inv, TypeOK
<1> QED
  BY <1>1, <1>2, <1>3, <1>5, <1>6, <1>7, Together

-----------------------------------------------------------------------------
(* Steps that move a state.                                                *)

\* pop takes the front of the container, if there is one.
LEMMA ContainerPopStep ==
  ASSUME Inv, NEW t \in Threads, ContainerPop(t)
  PROVE  Inv'
<1> USE DEF ContainerPop, Goto, Set, objects, threads
<1>1. OthersKeep(t)
  BY DEF Inv, TypeOK, OthersKeep
<1>2. local[t] = NoData /\ extra[t] = NoData
  BY DEF Inv, Shape, Gets, Reloads, Collects, Clears, Rests
<1>3. container # <<>> =>
        /\ Head(container) \in Data /\ Tail(container) \in Seq(Data)
        /\ Head(container) \in Pooled
  BY ContainerTail DEF Inv, TypeOK, Places, Pooled
<1>4. TypeOK'
  BY <1>3, ZenonT(40) DEF Inv, TypeOK, Labels
<1>5. Shape(t)'
  BY <1>3, MvmAssumption DEF Inv, TypeOK, Shape, Gets, Reloads, Collects, Clears, Rests
<1>6. Places'
  <2>1. CASE container = <<>>
    <3>1. Held(t)' = Held(t)
      BY <1>2, <2>1 DEF Inv, TypeOK, Held
    <3> QED
      BY <1>1, <2>1, <3>1, Kept
  <2>2. CASE container # <<>>
    <3>1. Held(t)' = Held(t) \cup {Head(container)}
      BY <1>2, <1>3, <2>2, MvmAssumption DEF Inv, TypeOK, Held
    <3> QED
      BY <1>1, <2>2, <3>1, Popped
  <2> QED
    BY <2>1, <2>2
<1>7. Distinct(t)' /\ Recent(t)'
  <2>1. inst[t] # NoData => inst[t] \notin Pooled
    BY DEF Inv, Places, Held
  <2>2. /\ inst' = inst /\ extra' = extra /\ asked' = asked /\ version' = version
        /\ ver' = ver /\ pc'[t] # "register"
        /\ local'[t] = NoData \/ local'[t] \in Pooled
    BY <1>3 DEF Inv, TypeOK
  <2>3. local'[t] # NoData => local'[t] # extra[t]
    BY <1>2
  <2> QED
    BY <1>2, <2>1, <2>2, <2>3, MvmAssumption DEF Inv, Distinct, Recent
<1>8. version' >= version /\ \A d \in live \ Held(t) : ver'[d] = ver[d]
  BY DEF Inv, TypeOK
<1> QED
  BY <1>1, <1>4, <1>5, <1>6, <1>7, <1>8, Together

\* The container was empty: a state is made.
LEMMA PopNewStep ==
  ASSUME Inv, NEW t \in Threads, PopNew(t)
  PROVE  Inv'
<1> USE DEF PopNew, New, Goto, Set, objects, threads
<1>0. PICK d \in Data \ live : d = Fresh
  BY FreshObject
<1>1. OthersKeep(t)
  BY DEF Inv, TypeOK, OthersKeep
<1>2. local[t] = NoData /\ d # NoData
  BY <1>0, MvmAssumption DEF Inv, Shape, Gets, Reloads, Collects, Clears, Rests
<1>3. /\ local' = [local EXCEPT ![t] = d] /\ live' = live \cup {d}
      /\ ver' = [ver EXCEPT ![d] = version]
      /\ gen' = [gen EXCEPT ![d] = gc] /\ released' = released \ {d}
  BY <1>0
<1>4. TypeOK'
  BY <1>0, <1>3 DEF Inv, TypeOK, Labels
<1>5. Shape(t)'
  BY <1>2, <1>3 DEF Inv, TypeOK, Shape, Gets, Reloads, Collects, Clears, Rests
<1>6. Held(t)' = Held(t) \cup {d}
  BY <1>2, <1>3 DEF Inv, TypeOK, Held
<1>7. Places'
  BY <1>0, <1>1, <1>3, <1>6, Made
<1>8. Held(t) \subseteq live
  BY DEF Inv, Places
<1>9. Distinct(t)'
  BY <1>0, <1>2, <1>3, <1>8 DEF Inv, TypeOK, Distinct, Held
<1>10. Recent(t)'
  <2>1. inst[t] # NoData => inst[t] # d /\ ver'[inst[t]] = ver[inst[t]]
    BY <1>0, <1>3, <1>8 DEF Inv, TypeOK, Held
  <2>2. inst' = inst /\ asked' = asked /\ version' = version
    OBVIOUS
  <2>3. pc'[t] # "register"
    BY <1>0, <1>3 DEF Inv, TypeOK
  <2> QED
    BY <2>1, <2>2, <2>3 DEF Inv, TypeOK, Recent
<1>11. version' >= version /\ \A e \in live \ Held(t) : ver'[e] = ver[e]
  BY <1>0, <1>3 DEF Inv, TypeOK
<1> QED
  BY <1>1, <1>4, <1>5, <1>7, <1>9, <1>10, <1>11, Together

\* getInstance makes a state instead of an old one.
LEMMA GetNewStep ==
  ASSUME Inv, NEW t \in Threads, GetNew(t)
  PROVE  Inv'
<1> USE DEF GetNew, New, Goto, Set, objects, threads
<1>0. PICK d \in Data \ live : d = Fresh
  BY FreshObject
<1>1. OthersKeep(t)
  BY DEF Inv, TypeOK, OthersKeep
<1>2. local[t] = NoData /\ d # NoData
  BY <1>0, MvmAssumption DEF Inv, Shape, Gets, Reloads, Collects, Clears, Rests
<1>3. /\ local' = [local EXCEPT ![t] = d] /\ live' = live \cup {d}
      /\ ver' = [ver EXCEPT ![d] = version]
      /\ gen' = [gen EXCEPT ![d] = gc] /\ released' = released \ {d}
  BY <1>0
<1>4. TypeOK'
  BY <1>0, <1>3 DEF Inv, TypeOK, Labels
<1>5. Shape(t)'
  BY <1>2, <1>3, ZenonT(40) DEF Inv, TypeOK, Shape, Gets, Reloads, Collects, Clears, Rests
<1>6. Held(t)' = Held(t) \cup {d}
  BY <1>2, <1>3 DEF Inv, TypeOK, Held
<1>7. Places'
  BY <1>0, <1>1, <1>3, <1>6, Made
<1>8. Held(t) \subseteq live
  BY DEF Inv, Places
<1>9. Distinct(t)'
  BY <1>0, <1>2, <1>3, <1>8 DEF Inv, TypeOK, Distinct, Held
<1>10. Recent(t)'
  <2>1. inst[t] # NoData => inst[t] # d /\ ver'[inst[t]] = ver[inst[t]]
    BY <1>0, <1>3, <1>8 DEF Inv, TypeOK, Held
  <2>2. inst' = inst /\ asked' = asked /\ version' = version
    OBVIOUS
  <2>3. ver'[local'[t]] = version
    BY <1>0, <1>3 DEF Inv, TypeOK
  <2> QED
    BY <2>1, <2>2, <2>3 DEF Inv, TypeOK, Recent
<1>11. version' >= version /\ \A e \in live \ Held(t) : ver'[e] = ver[e]
  BY <1>0, <1>3 DEF Inv, TypeOK
<1> QED
  BY <1>1, <1>4, <1>5, <1>7, <1>9, <1>10, <1>11, Together

\* reload makes a state of the new version.
LEMMA ReloadNewStep ==
  ASSUME Inv, NEW t \in Threads, ReloadNew(t)
  PROVE  Inv'
<1> USE DEF ReloadNew, New, Goto, Set, objects, threads
<1>0. PICK d \in Data \ live : d = Fresh
  BY FreshObject
<1>1. OthersKeep(t)
  BY DEF Inv, TypeOK, OthersKeep
<1>2. extra[t] = NoData /\ d # NoData
  BY <1>0, MvmAssumption DEF Inv, Shape, Gets, Reloads, Collects, Clears, Rests
<1>3. /\ extra' = [extra EXCEPT ![t] = d] /\ live' = live \cup {d}
      /\ ver' = [ver EXCEPT ![d] = version + 1]
      /\ gen' = [gen EXCEPT ![d] = gc] /\ released' = released \ {d}
  BY <1>0
<1>4. TypeOK'
  BY <1>0, <1>3 DEF Inv, TypeOK, Labels
<1>5. Shape(t)'
  BY <1>2, <1>3 DEF Inv, TypeOK, Shape, Gets, Reloads, Collects, Clears, Rests
<1>6. Held(t)' = Held(t) \cup {d}
  BY <1>2, <1>3 DEF Inv, TypeOK, Held
<1>7. Places'
  BY <1>0, <1>1, <1>3, <1>6, Made
<1>8. Held(t) \subseteq live
  BY DEF Inv, Places
<1>9. Distinct(t)'
  BY <1>0, <1>2, <1>3, <1>8 DEF Inv, TypeOK, Distinct, Held
<1>10. Recent(t)'
  <2>1. inst[t] # NoData => inst[t] # d /\ ver'[inst[t]] = ver[inst[t]]
    BY <1>0, <1>3, <1>8 DEF Inv, TypeOK, Held
  <2>2. inst' = inst /\ asked' = asked /\ version' = version
    OBVIOUS
  <2>3. pc'[t] # "register"
    BY <1>0, <1>3 DEF Inv, TypeOK
  <2> QED
    BY <2>1, <2>2, <2>3 DEF Inv, TypeOK, Recent
<1>11. version' >= version /\ \A e \in live \ Held(t) : ver'[e] = ver[e]
  BY <1>0, <1>3 DEF Inv, TypeOK
<1> QED
  BY <1>1, <1>4, <1>5, <1>7, <1>9, <1>10, <1>11, Together


\* delete of an object the thread holds changes no attribute of another one.
LEMMA DeleteObject ==
  ASSUME Inv, NEW t \in Threads, NEW d, Delete(d)
  PROVE  /\ live' \subseteq Data /\ released' \subseteq Data
         /\ ver' \in [Data -> Nat] /\ gen' \in [Data -> Nat]
         /\ \A e \in live : e # d => ver'[e] = ver[e]
BY DEF Inv, TypeOK, Delete

\* reload deletes an old state.
LEMMA ReloadDropStep ==
  ASSUME Inv, NEW t \in Threads, ReloadDrop(t)
  PROVE  Inv'
<1> USE DEF ReloadDrop, Goto, Set, objects, threads
<1>1. OthersKeep(t)
  BY DEF Inv, TypeOK, OthersKeep
<1>2. extra[t] = NoData /\ inst[t] # NoData /\ local[t] # NoData
  BY DEF Inv, Shape, Gets, Reloads, Collects, Clears, Rests
<1>3. /\ live' \subseteq Data /\ released' \subseteq Data
      /\ ver' \in [Data -> Nat] /\ gen' \in [Data -> Nat]
      /\ \A e \in live : e # local[t] => ver'[e] = ver[e]
  BY DeleteObject
<1>4. TypeOK'
  BY <1>3 DEF Inv, TypeOK, Labels
<1>5. Shape(t)'
  BY DEF Inv, TypeOK, Shape, Gets, Reloads, Collects, Clears, Rests
<1>6. Places'
  <2>1. local[t] \in Held(t) /\ live' = live \ {local[t]}
    BY <1>2 DEF Held, Delete
  <2>2. Held(t)' = Held(t) \ {local[t]}
    BY <1>2 DEF Inv, TypeOK, Held, Distinct
  <2> QED
    BY <1>1, <2>1, <2>2, Deleted
<1>7. Held(t) \subseteq live
  BY DEF Inv, Places
<1>8. Distinct(t)' /\ Recent(t)'
  <2>1. inst[t] # local[t] /\ ver'[inst[t]] = ver[inst[t]]
    BY <1>2, <1>3, <1>7 DEF Inv, Distinct, Held
  <2> QED
    BY <1>2, <2>1 DEF Inv, TypeOK, Distinct, Recent
<1>9. version' >= version /\ \A e \in live \ Held(t) : ver'[e] = ver[e]
  <2>1. ASSUME NEW e \in live \ Held(t) PROVE e # local[t]
    BY MvmAssumption DEF Inv, TypeOK, Held
  <2> QED
    BY <1>3, <2>1 DEF Inv, TypeOK
<1> QED
  BY <1>1, <1>4, <1>5, <1>6, <1>8, <1>9, Together

\* clear deletes a state.
LEMMA ClearDeleteStep ==
  ASSUME Inv, NEW t \in Threads, ClearDelete(t)
  PROVE  Inv'
<1> USE DEF ClearDelete, Goto, Set, objects, threads
<1>1. OthersKeep(t)
  BY DEF Inv, TypeOK, OthersKeep
<1>2. extra[t] = NoData /\ inst[t] # NoData
  BY DEF Inv, Shape, Gets, Reloads, Collects, Clears, Rests
<1>3. /\ live' \subseteq Data /\ released' \subseteq Data
      /\ ver' \in [Data -> Nat] /\ gen' \in [Data -> Nat]
      /\ \A e \in live : e # local[t] => ver'[e] = ver[e]
  BY DeleteObject
<1>4. TypeOK'
  BY <1>3 DEF Inv, TypeOK, Labels
<1>5. Shape(t)'
  BY DEF Inv, TypeOK, Shape, Gets, Reloads, Collects, Clears, Rests
<1>6. Places'
  <2>1. CASE local[t] = NoData
    <3>1. live' = live /\ Held(t)' = Held(t)
      BY <2>1, MvmAssumption DEF Inv, TypeOK, Held, Delete
    <3> QED
      BY <1>1, <3>1, Kept
  <2>2. CASE local[t] # NoData
    <3>1. local[t] \in Held(t) /\ live' = live \ {local[t]}
      BY <2>2 DEF Held, Delete
    <3>2. Held(t)' = Held(t) \ {local[t]}
      BY <2>2 DEF Inv, TypeOK, Held, Distinct
    <3> QED
      BY <1>1, <3>1, <3>2, Deleted
  <2> QED
    BY <2>1, <2>2
<1>7. Held(t) \subseteq live
  BY DEF Inv, Places
<1>8. Distinct(t)' /\ Recent(t)'
  <2>1. inst[t] # local[t] /\ ver'[inst[t]] = ver[inst[t]]
    BY <1>2, <1>3, <1>7 DEF Inv, Distinct, Held
  <2> QED
    BY <1>2, <2>1 DEF Inv, TypeOK, Distinct, Recent
<1>9. version' >= version /\ \A e \in live \ Held(t) : ver'[e] = ver[e]
  <2>1. ASSUME NEW e \in live \ Held(t) PROVE e # local[t]
    BY MvmAssumption DEF Inv, TypeOK, Held
  <2> QED
    BY <1>3, <2>1 DEF Inv, TypeOK
<1> QED
  BY <1>1, <1>4, <1>5, <1>6, <1>8, <1>9, Together

\* getInstance looks at the version of the state it popped.
LEMMA GetTestStep ==
  ASSUME Inv, NEW t \in Threads, GetTest(t)
  PROVE  Inv'
<1> USE DEF GetTest, Goto, Set, objects, threads
<1>1. OthersKeep(t)
  BY DEF Inv, TypeOK, OthersKeep
<1>2. inst[t] = NoData /\ extra[t] = NoData /\ local[t] \in Data
  BY DEF Inv, TypeOK, Shape, Gets, Reloads, Collects, Clears, Rests
<1>3. CASE version > ver[local[t]]
  <2>1. /\ live' \subseteq Data /\ released' \subseteq Data
        /\ ver' \in [Data -> Nat] /\ gen' \in [Data -> Nat]
        /\ \A e \in live : e # local[t] => ver'[e] = ver[e]
    BY <1>3, DeleteObject
  <2>2. TypeOK'
    BY <1>3, <2>1 DEF Inv, TypeOK, Labels
  <2>3. Shape(t)'
    BY <1>3 DEF Inv, TypeOK, Shape, Gets, Reloads, Collects, Clears, Rests
  <2>4. Places'
    <3>1. local[t] \in Held(t) /\ live' = live \ {local[t]}
      BY <1>2, <1>3, MvmAssumption DEF Held, Delete
    <3>2. Held(t)' = Held(t) \ {local[t]}
      BY <1>2, <1>3 DEF Inv, TypeOK, Held
    <3> QED
      BY <1>1, <3>1, <3>2, Deleted
  <2>5. Distinct(t)' /\ Recent(t)'
    BY <1>2, <1>3 DEF Inv, TypeOK, Distinct, Recent
  <2>6. version' >= version /\ \A e \in live \ Held(t) : ver'[e] = ver[e]
    BY <1>2, <2>1, MvmAssumption DEF Inv, TypeOK, Held
  <2> QED
    BY <1>1, <2>2, <2>3, <2>4, <2>5, <2>6, Together
<1>4. CASE ~(version > ver[local[t]])
  <2>1. TypeOK'
    BY <1>4 DEF Inv, TypeOK, Labels
  <2>2. Shape(t)'
    BY <1>4 DEF Inv, TypeOK, Shape, Gets, Reloads, Collects, Clears, Rests
  <2>3. Places'
    <3>1. Held(t)' = Held(t)
      BY <1>4 DEF Held
    <3> QED
      BY <1>1, <1>4, <3>1, Kept
  <2>4. Distinct(t)' /\ Recent(t)'
    BY <1>2, <1>4 DEF Inv, TypeOK, Distinct, Recent
  <2>5. version' >= version /\ \A e \in live \ Held(t) : ver'[e] = ver[e]
    BY <1>4 DEF Inv, TypeOK
  <2> QED
    BY <1>1, <2>1, <2>2, <2>3, <2>4, <2>5, Together
<1> QED
  BY <1>3, <1>4

\* reload looks at the version of the state it popped.
LEMMA ReloadTestStep ==
  ASSUME Inv, NEW t \in Threads, ReloadTest(t)
  PROVE  Inv'
<1> USE DEF ReloadTest, PushFront, Goto, Set, objects, threads
<1>1. OthersKeep(t)
  BY DEF Inv, TypeOK, OthersKeep
<1>2. extra[t] = NoData /\ local[t] # NoData
  BY DEF Inv, Shape, Gets, Reloads, Collects, Clears, Rests
<1>3. Shape(t)'
  BY DEF Inv, TypeOK, Shape, Gets, Reloads, Collects, Clears, Rests
<1>4. Distinct(t)' /\ Recent(t)'
  BY <1>2 DEF Inv, TypeOK, Distinct, Recent
<1>5. version' >= version /\ \A e \in live \ Held(t) : ver'[e] = ver[e]
  BY DEF Inv, TypeOK
<1>6. CASE ver[local[t]] > version
  <2>1. local[t] \in Held(t) /\ Held(t)' = Held(t) \ {local[t]}
    BY <1>2, <1>6 DEF Inv, TypeOK, Held, Distinct
  <2>2. Places' /\ container' \in Seq(Data)
    BY <1>1, <1>6, <2>1, Pushed
  <2>3. TypeOK'
    BY <1>6, <2>2 DEF Inv, TypeOK, Labels
  <2> QED
    BY <1>1, <1>3, <1>4, <1>5, <2>2, <2>3, Together
<1>7. CASE ~(ver[local[t]] > version)
  <2>1. TypeOK'
    BY <1>7 DEF Inv, TypeOK, Labels
  <2>2. Held(t)' = Held(t)
    BY <1>7 DEF Held
  <2>3. Places'
    BY <1>1, <1>7, <2>2, Kept
  <2> QED
    BY <1>1, <1>3, <1>4, <1>5, <2>1, <2>3, Together
<1> QED
  BY <1>6, <1>7

\* ~instance pushes the state back, or deletes a released one.
LEMMA DestroyStep ==
  ASSUME Inv, NEW t \in Threads, Destroy(t)
  PROVE  Inv'
<1> USE DEF Destroy, PushFront, Goto, Set, objects, threads
<1>1. OthersKeep(t)
  BY DEF Inv, TypeOK, OthersKeep
<1>2. inst[t] # NoData /\ local[t] = NoData /\ extra[t] = NoData
  BY DEF Inv, Shape, Gets, Reloads, Collects, Clears, Rests
<1>3. Shape(t)'
  BY DEF Inv, TypeOK, Shape, Gets, Reloads, Collects, Clears, Rests
<1>4. inst[t] \in Held(t) /\ Held(t)' = Held(t) \ {inst[t]}
  BY <1>2 DEF Inv, TypeOK, Held, Distinct
<1>5. Held(t) \subseteq live
  BY DEF Inv, Places
<1>6. CASE inst[t] \in released
  <2>1. /\ live' \subseteq Data /\ released' \subseteq Data
        /\ ver' \in [Data -> Nat] /\ gen' \in [Data -> Nat]
        /\ \A e \in live : e # inst[t] => ver'[e] = ver[e]
    BY <1>6, DeleteObject
  <2>2. TypeOK'
    BY <1>6, <2>1 DEF Inv, TypeOK, Labels
  <2>3. live' = live \ {inst[t]}
    BY <1>6 DEF Delete
  <2>4. Places'
    BY <1>1, <1>4, <1>6, <2>3, Deleted
  <2>5. Distinct(t)' /\ Recent(t)'
    <3>1. inst'[t] # NoData => inst'[t] = inst[t] /\ inst[t] # inst[t] /\ inst[t] \in live
      BY <1>2, <1>5 DEF Inv, TypeOK, Distinct, Held
    <3>2. inst'[t] # NoData => ver'[inst[t]] = ver[inst[t]]
      BY <2>1, <3>1
    <3>3. pc'[t] # "register"
      BY <1>3 DEF Inv, TypeOK, Shape, Gets, Reloads, Collects, Clears, Rests
    <3> QED
      BY <1>2, <1>6, <3>1, <3>2, <3>3 DEF Inv, TypeOK, Distinct, Recent
  <2>6. version' >= version /\ \A e \in live \ Held(t) : ver'[e] = ver[e]
    BY <1>4, <2>1 DEF Inv, TypeOK
  <2> QED
    BY <1>1, <1>3, <2>2, <2>4, <2>5, <2>6, Together
<1>7. CASE ~(inst[t] \in released)
  <2>1. Places' /\ container' \in Seq(Data)
    BY <1>1, <1>4, <1>7, Pushed
  <2>2. TypeOK'
    BY <1>7, <2>1 DEF Inv, TypeOK, Labels
  <2>3. Distinct(t)' /\ Recent(t)'
    BY <1>2, <1>7 DEF Inv, TypeOK, Distinct, Recent
  <2>4. version' >= version /\ \A e \in live \ Held(t) : ver'[e] = ver[e]
    BY <1>7 DEF Inv, TypeOK
  <2> QED
    BY <1>1, <1>3, <2>1, <2>2, <2>3, <2>4, Together
<1> QED
  BY <1>6, <1>7

\* back puts a state to the end of the container, or deletes an old one.
LEMMA BackStep ==
  ASSUME Inv, NEW t \in Threads, Back(t)
  PROVE  Inv'
<1> USE DEF Back, Goto, Set, objects, threads
<1>1. OthersKeep(t)
  BY DEF Inv, TypeOK, OthersKeep
<1>2. inst[t] # NoData /\ extra[t] # NoData
  BY DEF Inv, Shape, Gets, Reloads, Collects, Clears, Rests
<1>3. Shape(t)'
  BY DEF Inv, TypeOK, Shape, Gets, Reloads, Collects, Clears, Rests
<1>4. extra[t] \in Held(t) /\ Held(t)' = Held(t) \ {extra[t]}
  BY <1>2 DEF Inv, TypeOK, Held, Distinct
<1>5. Held(t) \subseteq live
  BY DEF Inv, Places
<1>6. CASE version > ver[extra[t]]
  <2>1. /\ live' \subseteq Data /\ released' \subseteq Data
        /\ ver' \in [Data -> Nat] /\ gen' \in [Data -> Nat]
        /\ \A e \in live : e # extra[t] => ver'[e] = ver[e]
    BY <1>6, DeleteObject
  <2>2. TypeOK'
    BY <1>6, <2>1 DEF Inv, TypeOK, Labels
  <2>3. live' = live \ {extra[t]}
    BY <1>6 DEF Delete
  <2>4. Places'
    BY <1>1, <1>4, <1>6, <2>3, Deleted
  <2>5. Distinct(t)' /\ Recent(t)'
    <3>1. inst'[t] # NoData => inst'[t] = inst[t] /\ inst[t] # extra[t] /\ inst[t] \in live
      BY <1>2, <1>5 DEF Inv, TypeOK, Distinct, Held
    <3>2. inst'[t] # NoData => ver'[inst[t]] = ver[inst[t]]
      BY <2>1, <3>1
    <3>3. pc'[t] # "register"
      BY <1>3 DEF Inv, TypeOK, Shape, Gets, Reloads, Collects, Clears, Rests
    <3> QED
      BY <1>2, <1>6, <3>1, <3>2, <3>3 DEF Inv, TypeOK, Distinct, Recent
  <2>6. version' >= version /\ \A e \in live \ Held(t) : ver'[e] = ver[e]
    BY <1>4, <2>1 DEF Inv, TypeOK
  <2> QED
    BY <1>1, <1>3, <2>2, <2>4, <2>5, <2>6, Together
<1>7. CASE ~(version > ver[extra[t]])
  <2>1. Places' /\ container' \in Seq(Data)
    BY <1>1, <1>4, <1>7, Pushed
  <2>2. TypeOK'
    BY <1>7, <2>1 DEF Inv, TypeOK, Labels
  <2>3. Distinct(t)' /\ Recent(t)'
    BY <1>2, <1>7 DEF Inv, TypeOK, Distinct, Recent
  <2>4. version' >= version /\ \A e \in live \ Held(t) : ver'[e] = ver[e]
    BY <1>7 DEF Inv, TypeOK
  <2> QED
    BY <1>1, <1>3, <2>1, <2>2, <2>3, <2>4, Together
<1> QED
  BY <1>6, <1>7

-----------------------------------------------------------------------------
(* The invariant and the theorems.                                         *)

\* No state exists and every thread is idle.
LEMMA InitInv ==
  Init => Inv
<1> SUFFICES ASSUME Init PROVE Inv
  OBVIOUS
<1> USE DEF Init
<1>1. TypeOK
  BY MvmAssumption DEF TypeOK, Labels
<1>2. Places
  <2>1. IsInjective(container) /\ Pooled = {}
    BY DEF IsInjective, Pooled, ToSet
  <2>2. \A t \in Threads : Held(t) = {}
    BY DEF Held
  <2> QED
    BY <2>1, <2>2 DEF Places
<1>3. \A t \in Threads : Shape(t) /\ Distinct(t) /\ Recent(t)
  BY DEF Shape, Rests, Distinct, Recent
<1> QED
  BY <1>1, <1>2, <1>3 DEF Inv

\* Every action keeps the invariant.
LEMMA NextInv ==
  Inv /\ [Next]_vars => Inv'
<1> SUFFICES ASSUME Inv, [Next]_vars PROVE Inv'
  OBVIOUS
<1>1. CASE UNCHANGED vars
  <2> USE <1>1 DEF vars, objects, threads
  <2>1. TypeOK'
    BY DEF Inv, TypeOK
  <2>2. Places'
    BY DEF Inv, Places, Pooled, Held
  <2>3. \A t \in Threads : Shape(t)' /\ Distinct(t)' /\ Recent(t)'
    BY DEF Inv, Shape, Gets, Reloads, Collects, Clears, Rests, Distinct, Recent
  <2> QED
    BY <2>1, <2>2, <2>3 DEF Inv
<1>2. ASSUME NEW t \in Threads, NEW create \in BOOLEAN, GetInstance(t, create)
      PROVE  Inv'
  BY <1>2, GetInstanceStep
<1>3. ASSUME NEW t \in Threads,
             Reload(t) \/ Gc(t) \/ Clear(t) \/ Release(t) \/ Destroy(t)
      PROVE  Inv'
  BY <1>3, ReloadStep, GcStep, ClearStep, ReleaseStep, DestroyStep
<1>4. ASSUME NEW t \in Threads, Continue(t) PROVE Inv'
  BY <1>4, ContainerPopStep, CountDownStep, CountUpStep, BackStep, PopNewStep,
     GetNewStep, ReloadNewStep, GetTestStep, RegisterStep, EraseStep,
     ReloadTestStep, ReloadDropStep, ReloadBumpStep, GcTestStep, GcMarkStep,
     ClearTestStep, ClearDeleteStep DEF Continue
<1> QED
  BY <1>1, <1>2, <1>3, <1>4 DEF Next

\* The invariant holds in every reachable state.
LEMMA Invariant ==
  Spec => []Inv
BY InitInv, NextInv, PTL DEF Spec

\* A state that is registered for a thread without being its instance is seen
\* between the delete or push of ~instance and its erase only.
LEMMA OwnFromShape ==
  Inv => CurrentIsOwn
<1> SUFFICES ASSUME Inv, NEW t \in Threads
             PROVE  /\ inst[t] # NoData => mvm_map[t] = inst[t] /\ inst[t] \in live
                    /\ inst[t] = NoData /\ mvm_map[t] # NoData =>
                         pc[t] \in {"incr", "erase"}
  BY DEF CurrentIsOwn
<1>1. Held(t) \subseteq live
  BY DEF Inv, Places
<1>2. inst[t] # NoData => inst[t] \in live
  BY <1>1 DEF Held
<1>3. Shape(t)
  BY DEF Inv
<1> QED
  BY <1>2, <1>3 DEF Shape, Gets, Reloads, Collects, Clears, Rests

\* In every interleaving of getInstance, ~instance, reload, gc, clear and
\* release by any number of threads, every Lua state is in the pool once or with
\* one thread, none is used after delete or leaked, and mvm::current() is the
\* state of the script that asks (mvm.cpp, deque-stack.cpp).
THEOREM OwnershipHolds ==
  Spec => []Ownership
<1>1. Inv => Ownership
  BY OwnFromShape DEF Inv, Places, Distinct, Ownership
<1> QED
  BY <1>1, Invariant, PTL

\* mvm::getInstance never returns a state older than s_version was when it was
\* called, although ~instance pushes states back without a look at their version.
THEOREM FreshInstanceHolds ==
  Spec => []FreshInstance
<1>1. Inv => FreshInstance
  BY DEF Inv, Recent, FreshInstance
<1> QED
  BY <1>1, Invariant, PTL

-----------------------------------------------------------------------------
(* The counter.  s_pool is taken modulo Width at every step, PoolCount only *)
(* at the end: the invariant between is that both sides of PoolCount leave  *)
(* the same rest, with the multiples of Width as witnesses.                 *)

SameRest(a, b) ==
  \E r \in 0..(Width - 1) : \E p, q \in Int : a = p * Width + r /\ b = q * Width + r

\* The threads that have pushed, or popped a state, and not counted yet.
Ups == {t \in Threads : pc[t] = "incr"}
Downs == {t \in Threads : pc[t] = "decr" /\ local[t] # NoData}

Counted ==
  SameRest(pool + Cardinality(Ups) + phantom, Len(container) + Cardinality(Downs))

\* One up on both sides,
LEMMA RestUp ==
  ASSUME NEW a \in Int, NEW b \in Int, SameRest(a, b)
  PROVE  SameRest(a + 1, b + 1)
<1>1. PICK r \in 0..(Width - 1), p \in Int, q \in Int :
        a = p * Width + r /\ b = q * Width + r
  BY DEF SameRest
<1>2. CASE r + 1 < Width
  <2>1. /\ r + 1 \in 0..(Width - 1)
        /\ a + 1 = p * Width + (r + 1) /\ b + 1 = q * Width + (r + 1)
    BY <1>1, <1>2, MvmAssumption
  <2> QED
    BY <2>1 DEF SameRest
<1>3. CASE r + 1 = Width
  <2>1. /\ 0 \in 0..(Width - 1) /\ p + 1 \in Int /\ q + 1 \in Int
        /\ a + 1 = (p + 1) * Width + 0 /\ b + 1 = (q + 1) * Width + 0
    BY <1>1, <1>3, MvmAssumption
  <2> QED
    BY <2>1 DEF SameRest
<1> QED
  BY <1>2, <1>3, MvmAssumption

\* one down,
LEMMA RestDown ==
  ASSUME NEW a \in Int, NEW b \in Int, SameRest(a, b)
  PROVE  SameRest(a - 1, b - 1)
<1>1. PICK r \in 0..(Width - 1), p \in Int, q \in Int :
        a = p * Width + r /\ b = q * Width + r
  BY DEF SameRest
<1>2. CASE r > 0
  <2>1. /\ r - 1 \in 0..(Width - 1)
        /\ a - 1 = p * Width + (r - 1) /\ b - 1 = q * Width + (r - 1)
    BY <1>1, <1>2, MvmAssumption
  <2> QED
    BY <2>1 DEF SameRest
<1>3. CASE r = 0
  <2>1. /\ Width - 1 \in 0..(Width - 1) /\ p - 1 \in Int /\ q - 1 \in Int
        /\ a - 1 = (p - 1) * Width + (Width - 1)
        /\ b - 1 = (q - 1) * Width + (Width - 1)
    BY <1>1, <1>3, MvmAssumption
  <2> QED
    BY <2>1 DEF SameRest
<1> QED
  BY <1>2, <1>3

\* and once around on one side.
LEMMA RestAround ==
  ASSUME NEW a \in Int, NEW b \in Int, SameRest(a, b)
  PROVE  SameRest(a + Width, b) /\ SameRest(a - Width, b)
<1>1. PICK r \in 0..(Width - 1), p \in Int, q \in Int :
        a = p * Width + r /\ b = q * Width + r
  BY DEF SameRest
<1>2. /\ p + 1 \in Int /\ p - 1 \in Int
      /\ a + Width = (p + 1) * Width + r /\ a - Width = (p - 1) * Width + r
  BY <1>1, MvmAssumption
<1> QED
  BY <1>1, <1>2 DEF SameRest

\* uint32_t: one more or one less, or once around.
LEMMA CounterSteps ==
  ASSUME NEW p \in 0..(Width - 1)
  PROVE  /\ (p + 1) % Width = p + 1 \/ (p + 1) % Width = p + 1 - Width
         /\ (p + Width - 1) % Width = p - 1 \/ (p + Width - 1) % Width = p - 1 + Width
<1> USE MvmAssumption
<1>1. p + 1 < Width => (p + 1) % Width = p + 1
  OBVIOUS
<1>2. p + 1 = Width => (p + 1) % Width = 0
  OBVIOUS
<1>3. p > 0 => (p + Width - 1) % Width = p - 1
  OBVIOUS
<1>4. p = 0 => (p + Width - 1) % Width = Width - 1
  OBVIOUS
<1> QED
  BY <1>1, <1>2, <1>3, <1>4

\* Two numbers of the same rest are equal modulo the width.
LEMMA RestIsRemainder ==
  ASSUME NEW a \in Int, NEW b \in Int, SameRest(a, b)
  PROVE  a % Width = b % Width
<1>1. PICK r \in 0..(Width - 1), p \in Int, q \in Int :
        a = p * Width + r /\ b = q * Width + r
  BY DEF SameRest
<1>2. a % Width = r
  BY <1>1, MvmAssumption
<1>3. b % Width = r
  BY <1>1, MvmAssumption
<1> QED
  BY <1>2, <1>3

\* A thread more or less among those that have to count.
LEMMA Membership ==
  ASSUME NEW S \in SUBSET Threads, NEW t \in Threads
  PROVE  /\ Cardinality(S) \in Nat
         /\ t \notin S => Cardinality(S \cup {t}) = Cardinality(S) + 1
         /\ t \in S => Cardinality(S \ {t}) = Cardinality(S) - 1
<1>1. IsFiniteSet(S)
  BY MvmAssumption, FS_Subset
<1> QED
  BY <1>1, FS_AddElement, FS_RemoveElement, FS_CardinalityType

\* A step of a thread that neither has to count nor will have to.
Aside(t) ==
  /\ OthersKeep(t)
  /\ pc[t] \notin {"incr", "decr"} /\ pc'[t] \notin {"incr", "decr"}
  /\ pool' = pool /\ phantom' = phantom /\ container' = container

\* A step beside the container and the counter.
LEMMA AsideStep ==
  ASSUME Inv, Counted, NEW t \in Threads, Aside(t)
  PROVE  Counted'
<1>1. Ups' = Ups
  BY DEF Aside, OthersKeep, Ups
<1>2. Downs' = Downs
  BY DEF Aside, OthersKeep, Downs
<1> QED
  BY <1>1, <1>2 DEF Counted, Aside

\* A push, or the pop of a state: the container changes, the thread has to count.
LEMMA PushCounted ==
  ASSUME Inv, Counted, NEW t \in Threads, OthersKeep(t),
         pc[t] \notin {"incr", "decr"}, pc'[t] = "incr",
         pool' = pool, phantom' = phantom, Len(container') = Len(container) + 1
  PROVE  Counted'
<1>1. Ups' = Ups \cup {t} /\ t \notin Ups /\ Ups \in SUBSET Threads
  BY DEF OthersKeep, Ups
<1>2. Downs' = Downs /\ Downs \in SUBSET Threads
  BY DEF OthersKeep, Downs
<1>3. /\ Cardinality(Ups') = Cardinality(Ups) + 1
      /\ Cardinality(Ups) \in Nat /\ Cardinality(Downs) \in Nat
  BY <1>1, <1>2, Membership
<1>4. pool \in Int /\ phantom \in Int /\ Len(container) \in Int
  BY MvmAssumption DEF Inv, TypeOK
<1>5. SameRest((pool + Cardinality(Ups) + phantom) + 1,
               (Len(container) + Cardinality(Downs)) + 1)
  <2>1. PICK i \in Nat, j \in Nat : i = Cardinality(Ups) /\ j = Cardinality(Downs)
    BY <1>3
  <2>2. pool + i + phantom \in Int /\ Len(container) + j \in Int
    BY <1>4
  <2>3. PICK a \in Int, b \in Int : a = pool + i + phantom /\ b = Len(container) + j
    BY <2>2
  <2>4. SameRest(a, b)
    BY <2>1, <2>3 DEF Counted
  <2>5. SameRest(a + 1, b + 1)
    BY <2>4, RestUp
  <2> QED
    BY <2>1, <2>3, <2>5
<1>6. (pool + Cardinality(Ups) + phantom) + 1 = pool' + Cardinality(Ups') + phantom'
  <2>1. PICK i \in Nat, j \in Nat :
          i = Cardinality(Ups) /\ j = Cardinality(Ups') /\ j = i + 1
    BY <1>3
  <2> QED
    BY <1>4, <2>1
<1>7. (Len(container) + Cardinality(Downs)) + 1 = Len(container') + Cardinality(Downs')
  <2>1. PICK i \in Nat : i = Cardinality(Downs) /\ i = Cardinality(Downs')
    BY <1>2, <1>3
  <2> QED
    BY <1>4, <2>1
<1> QED
  BY <1>5, <1>6, <1>7 DEF Counted

\* A pop: the container shrinks, the thread has to count down.
LEMMA PopCounted ==
  ASSUME Inv, Counted, NEW t \in Threads, ContainerPop(t)
  PROVE  Counted'
<1> USE DEF ContainerPop, Goto, Set, objects, threads
<1>1. OthersKeep(t)
  BY DEF Inv, TypeOK, OthersKeep
<1>2. pc[t] = "pop" /\ pool' = pool /\ phantom' = phantom /\ pc'[t] # "incr"
  BY DEF Inv, TypeOK
<1>3. Ups' = Ups
  BY <1>1, <1>2 DEF OthersKeep, Ups
<1>4. CASE container = <<>>
  <2>1. Downs' = Downs
    BY <1>1, <1>2, <1>4 DEF OthersKeep, Downs, Inv, TypeOK
  <2> QED
    BY <1>2, <1>3, <1>4, <2>1 DEF Counted
<1>5. CASE container # <<>>
  <2>1. Head(container) \in Data /\ Len(container') = Len(container) - 1
    BY <1>5 DEF Inv, TypeOK
  <2>2. Downs' = Downs \cup {t} /\ t \notin Downs /\ Downs \in SUBSET Threads
    BY <1>1, <1>2, <1>5, <2>1, MvmAssumption DEF OthersKeep, Downs, Inv, TypeOK
  <2>3. Cardinality(Downs') = Cardinality(Downs) + 1 /\ Cardinality(Downs) \in Nat
    BY <2>2, Membership
  <2>4. Len(container') + Cardinality(Downs') = Len(container) + Cardinality(Downs)
    BY <2>1, <2>3 DEF Inv, TypeOK
  <2> QED
    BY <1>2, <1>3, <2>4 DEF Counted
<1> QED
  BY <1>4, <1>5

\* s_pool-- for a state, or for none.
LEMMA DownCounted ==
  ASSUME Inv, Counted, NEW t \in Threads, CountDown(t)
  PROVE  Counted'
<1> USE DEF CountDown, Goto, Set, objects, threads
<1>1. OthersKeep(t)
  BY DEF Inv, TypeOK, OthersKeep
<1>2. /\ pc[t] = "decr" /\ pc'[t] = "popped" /\ container' = container
      /\ local' = local /\ pool' = (pool + Width - 1) % Width
  BY DEF Inv, TypeOK
<1>3. Ups' = Ups /\ Ups \in SUBSET Threads
  BY <1>1, <1>2 DEF OthersKeep, Ups
<1>4. pool' = pool - 1 \/ pool' = pool - 1 + Width
  BY <1>2, CounterSteps DEF Inv, TypeOK
<1>5. /\ pool \in Int /\ phantom \in Int /\ Len(container) \in Int /\ Width \in Int
      /\ Downs \in SUBSET Threads
  BY MvmAssumption DEF Inv, TypeOK, Downs
<1>6. Cardinality(Ups) \in Nat /\ Cardinality(Downs) \in Nat
  BY <1>3, <1>5, Membership
<1> DEFINE a == pool + Cardinality(Ups) + phantom
           b == Len(container) + Cardinality(Downs)
<1>7. a \in Int /\ b \in Int /\ SameRest(a, b)
  BY <1>5, <1>6 DEF Counted
<1>8. CASE local[t] = NoData
  <2>1. phantom' = phantom + 1
    BY <1>8
  <2>2. Downs' = Downs
    BY <1>1, <1>2, <1>8 DEF OthersKeep, Downs
  <2>3. \/ pool' + Cardinality(Ups') + phantom' = a
        \/ pool' + Cardinality(Ups') + phantom' = a + Width
    BY <1>3, <1>4, <1>5, <1>6, <2>1
  <2>4. Len(container') + Cardinality(Downs') = b
    BY <1>2, <2>2
  <2> HIDE DEF a, b
  <2> QED
    BY <1>7, <2>3, <2>4, RestAround DEF Counted
<1>9. CASE local[t] # NoData
  <2>1. phantom' = phantom
    BY <1>9
  <2>2. Downs' = Downs \ {t} /\ t \in Downs
    BY <1>1, <1>2, <1>9 DEF OthersKeep, Downs
  <2>3. Cardinality(Downs') = Cardinality(Downs) - 1
    BY <1>5, <2>2, Membership
  <2>4. \/ pool' + Cardinality(Ups') + phantom' = a - 1
        \/ pool' + Cardinality(Ups') + phantom' = (a - 1) + Width
    BY <1>3, <1>4, <1>5, <1>6, <2>1
  <2>5. Len(container') + Cardinality(Downs') = b - 1
    BY <1>2, <1>5, <1>6, <2>3
  <2> HIDE DEF a, b
  <2>6. SameRest(a - 1, b - 1) /\ a - 1 \in Int /\ b - 1 \in Int
    BY <1>7, RestDown
  <2>7. SameRest((a - 1) + Width, b - 1)
    BY <2>6, RestAround
  <2> QED
    BY <2>4, <2>5, <2>6, <2>7 DEF Counted
<1> QED
  BY <1>8, <1>9

\* s_pool++.
LEMMA UpCounted ==
  ASSUME Inv, Counted, NEW t \in Threads, CountUp(t)
  PROVE  Counted'
<1>1. OthersKeep(t)
  BY DEF Inv, TypeOK, OthersKeep, CountUp, Goto, objects, threads
<1>2. /\ pc[t] = "incr" /\ pc'[t] \notin {"incr", "decr"} /\ container' = container
      /\ phantom' = phantom /\ pool' = (pool + 1) % Width
  BY DEF CountUp, Goto, threads, Inv, TypeOK, Shape, Gets, Reloads, Collects,
     Clears, Rests
<1>3. Ups' = Ups \ {t} /\ t \in Ups /\ Ups \in SUBSET Threads
  BY <1>1, <1>2 DEF OthersKeep, Ups
<1>4. Downs' = Downs /\ Downs \in SUBSET Threads
  BY <1>1, <1>2 DEF OthersKeep, Downs
<1>5. pool' = pool + 1 \/ pool' = pool + 1 - Width
  BY <1>2, CounterSteps DEF Inv, TypeOK
<1>6. pool \in Int /\ phantom \in Int /\ Len(container) \in Int /\ Width \in Int
  BY MvmAssumption DEF Inv, TypeOK
<1>7. /\ Cardinality(Ups') = Cardinality(Ups) - 1
      /\ Cardinality(Ups) \in Nat /\ Cardinality(Downs) \in Nat
  BY <1>3, <1>4, Membership
<1> DEFINE a == pool + Cardinality(Ups) + phantom
           b == Len(container) + Cardinality(Downs)
<1>8. a \in Int /\ b \in Int /\ SameRest(a, b)
  BY <1>6, <1>7 DEF Counted
<1>9. \/ pool' + Cardinality(Ups') + phantom' = a
      \/ pool' + Cardinality(Ups') + phantom' = a - Width
  <2>1. PICK i \in Nat, j \in Int :
          i = Cardinality(Ups) /\ j = Cardinality(Ups') /\ j = i - 1
    BY <1>6, <1>7
  <2>2. phantom' = phantom
    BY <1>2
  <2> QED
    BY <1>5, <1>6, <2>1, <2>2
<1>10. Len(container') + Cardinality(Downs') = b
  BY <1>2, <1>4
<1> HIDE DEF a, b
<1> QED
  BY <1>8, <1>9, <1>10, RestAround DEF Counted

\* Steps that push or leave the container and the counter alone.
LEMMA PushOrAside ==
  ASSUME Inv, Counted, NEW t \in Threads, Destroy(t) \/ Back(t) \/ ReloadTest(t)
  PROVE  Counted'
<1> USE DEF Goto, Set, objects, threads
<1>1. OthersKeep(t)
  BY DEF Inv, TypeOK, OthersKeep, Destroy, Back, ReloadTest, PushFront
<1>2. pc[t] \notin {"incr", "decr"} /\ pool' = pool /\ phantom' = phantom
  BY DEF Destroy, Back, ReloadTest
<1>3. \/ pc'[t] \notin {"incr", "decr"} /\ container' = container
      \/ pc'[t] = "incr" /\ Len(container') = Len(container) + 1
  <2>1. CASE Destroy(t)
    BY <2>1 DEF Inv, TypeOK, Shape, Gets, Reloads, Collects, Clears, Rests, Destroy, PushFront
  <2>2. CASE Back(t)
    <3>1. extra[t] \in Data /\ ret[t] \notin {"incr", "decr"}
      BY <2>2 DEF Inv, TypeOK, Shape, Gets, Reloads, Collects, Clears, Rests, Back
    <3> QED
      BY <2>2, <3>1 DEF Inv, TypeOK, Back
  <2>3. CASE ReloadTest(t)
    BY <2>3 DEF Inv, TypeOK, Shape, Gets, Reloads, Collects, Clears, Rests, ReloadTest, PushFront
  <2> QED
    BY <2>1, <2>2, <2>3
<1> QED
  BY <1>1, <1>2, <1>3, AsideStep, PushCounted DEF Aside


\* The other steps.
LEMMA AsideSteps ==
  ASSUME Inv, NEW t \in Threads,
         \/ \E create \in BOOLEAN : GetInstance(t, create)
         \/ Reload(t) \/ Gc(t) \/ Clear(t) \/ Release(t)
         \/ PopNew(t) \/ GetNew(t) \/ ReloadNew(t) \/ GetTest(t) \/ Register(t)
         \/ Erase(t) \/ ReloadDrop(t) \/ ReloadBump(t) \/ GcTest(t) \/ GcMark(t)
         \/ ClearTest(t) \/ ClearDelete(t)
  PROVE  Aside(t)
<1> USE DEF Goto, Set, objects, threads, Inv, TypeOK, Aside, OthersKeep
<1>1. CASE \E create \in BOOLEAN : GetInstance(t, create)
  BY <1>1 DEF GetInstance, Call
<1>2. CASE Reload(t)
  BY <1>2 DEF Reload, Call
<1>3. CASE Gc(t)
  BY <1>3 DEF Gc, Call
<1>4. CASE Clear(t)
  BY <1>4 DEF Clear, Call
<1>5. CASE Release(t)
  BY <1>5 DEF Release
<1>6. CASE PopNew(t)
  BY <1>6 DEF PopNew, New
<1>7. CASE GetNew(t)
  BY <1>7 DEF GetNew, New
<1>8. CASE ReloadNew(t)
  BY <1>8 DEF ReloadNew, New
<1>9. CASE GetTest(t)
  BY <1>9 DEF GetTest
<1>10. CASE Register(t)
  BY <1>10 DEF Register
<1>11. CASE Erase(t)
  BY <1>11 DEF Erase
<1>12. CASE ReloadDrop(t)
  BY <1>12 DEF ReloadDrop
<1>13. CASE ReloadBump(t)
  BY <1>13 DEF ReloadBump
<1>14. CASE GcTest(t)
  BY <1>14 DEF GcTest
<1>15. CASE GcMark(t)
  BY <1>15 DEF GcMark
<1>16. CASE ClearTest(t)
  BY <1>16 DEF ClearTest
<1>17. CASE ClearDelete(t)
  BY <1>17 DEF ClearDelete
<1> QED
  BY <1>1, <1>2, <1>3, <1>4, <1>5, <1>6, <1>7, <1>8, <1>9,
     <1>10, <1>11, <1>12, <1>13, <1>14, <1>15, <1>16, <1>17

\* Every step keeps the account of the counter.
LEMMA NextCounted ==
  Inv /\ Counted /\ [Next]_vars => Counted'
<1> SUFFICES ASSUME Inv, Counted, [Next]_vars PROVE Counted'
  OBVIOUS
<1>1. CASE UNCHANGED vars
  BY <1>1 DEF vars, threads, Counted, Ups, Downs
<1>2. CASE Next
  <2>1. PICK t \in Threads :
          \/ \E create \in BOOLEAN : GetInstance(t, create)
          \/ Reload(t) \/ Gc(t) \/ Clear(t) \/ Release(t) \/ Destroy(t)
          \/ Continue(t)
    BY <1>2 DEF Next
  <2>2. CASE ContainerPop(t) \/ CountDown(t) \/ CountUp(t)
    BY <2>2, PopCounted, DownCounted, UpCounted
  <2>3. CASE Destroy(t) \/ Back(t) \/ ReloadTest(t)
    BY <2>3, PushOrAside
  <2>4. CASE Aside(t)
    BY <2>4, AsideStep
  <2> QED
    BY <2>1, <2>2, <2>3, <2>4, AsideSteps DEF Continue
<1> QED
  BY <1>1, <1>2

\* The account is settled at the start.
LEMMA InitCounted ==
  Init => Counted
<1> SUFFICES ASSUME Init PROVE Counted
  OBVIOUS
<1>1. Ups = {} /\ Downs = {} /\ Len(container) = 0 /\ pool = 0 /\ phantom = 0
  BY DEF Init, Ups, Downs
<1>2. SameRest(0, 0)
  <2>1. 0 \in 0..(Width - 1) /\ 0 \in Int /\ 0 = 0 * Width + 0
    BY MvmAssumption
  <2> QED
    BY <2>1 DEF SameRest
<1>3. Cardinality({}) = 0
  BY FS_EmptySet
<1> QED
  BY <1>1, <1>2, <1>3 DEF Counted

\* mvm::pool(), modulo 2^32, is the size of the container up to the pushes and
\* pops that have not counted yet and the pops of an empty container by clear,
\* which stay in s_pool for ever (mvm.cpp, s_pool++ and s_pool--).
THEOREM PoolCountHolds ==
  Spec => []PoolCount
<1>1. Inv /\ Counted => PoolCount
  <2> SUFFICES ASSUME Inv, Counted PROVE PoolCount
    OBVIOUS
  <2>1. Ups \in SUBSET Threads /\ Downs \in SUBSET Threads
    BY DEF Ups, Downs
  <2>2. IsFiniteSet(Ups) /\ IsFiniteSet(Downs)
    BY <2>1, MvmAssumption, FS_Subset
  <2>3. Cardinality(Ups) \in Nat /\ Cardinality(Downs) \in Nat
    BY <2>2, FS_CardinalityType
  <2>4. /\ pool + Cardinality(Ups) + phantom \in Int
        /\ Len(container) + Cardinality(Downs) \in Int
    BY <2>3, MvmAssumption DEF Inv, TypeOK
  <2>5. (pool + Cardinality(Ups) + phantom) % Width
          = (Len(container) + Cardinality(Downs)) % Width
    BY <2>4, RestIsRemainder DEF Counted
  <2> QED
    BY <2>5 DEF PoolCount, Ups, Downs
<1> QED
  BY <1>1, Invariant, InitCounted, NextCounted, PTL DEF Spec
=============================================================================
