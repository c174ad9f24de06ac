----------------------------- MODULE LockProofs -----------------------------
(***************************************************************************)
(* Proof that the named lock protects, for every number of scripts and     *)
(* objects.                                                                *)
(*                                                                         *)
(* Protected speaks of scripts that were let in; the code only has counts. *)
(* The invariant ties them together: the count of an object is how deep    *)
(* its script is inside, plus one while it waits for the mutex (Counted);  *)
(* a positive count of an object nobody waits for means the mutex (Owns).  *)
(* No script touches the object another one waits for (OwnWait), and the   *)
(* reference count tells whether a collected object was the last           *)
(* (References), the only case in which the mutex vanishes.                *)
(*                                                                         *)
(* The last part shows that a file has one service, for every number of    *)
(* files and slots.                                                        *)
(***************************************************************************)
EXTENDS Lock, TLAPS, FiniteSetTheorems, SequenceTheorems

WaitsFor(l) == \E t \in Threads : waits[t] # None /\ waits[t].lock = l

Types ==
  /\ thread \in [Objects -> Threads \cup {None}]
  /\ count \in [Objects -> Int] /\ kept \in [Objects -> Int]
  /\ frames \in [Threads -> Seq(Calls)]
  /\ waits \in [Threads -> Calls \cup {None}]
  /\ owner \in Objects \cup {None}
  /\ counter \in Nat
  /\ misused \subseteq Objects

\* named_ptr counts the objects that exist.
References == IsFiniteSet(Alive) /\ counter = Cardinality(Alive)

\* A script runs bodies under its own objects.
OwnFrames ==
  \A t \in Threads : \A i \in 1..Len(frames[t]) : thread[frames[t][i].lock] = t

\* It waits with an object of its own, which it has enabled once and which
\* does not own the mutex.
OwnWait ==
  \A t \in Threads : waits[t] # None =>
    /\ thread[waits[t].lock] = t
    /\ count[waits[t].lock] = 1
    /\ owner # waits[t].lock

\* The mutex belongs to the object that is enabled and does not wait.
Owns ==
  /\ \A l \in Objects : owner = l => count[l] >= 1
  /\ \A l \in Alive : count[l] >= 1 /\ ~WaitsFor(l) => owner = l

\* The count of an object without errors is how deep its script is inside.
Counted ==
  \A t \in Threads : \A l \in Objects \ misused : thread[l] = t =>
    count[l] = kept[l] + Cardinality(FramesOf(t, l)) + (IF WaitsFor(l) THEN 1 ELSE 0)

Inv == Types /\ References /\ OwnFrames /\ OwnWait /\ Owns /\ Counted

-----------------------------------------------------------------------------
(* Frames.                                                                 *)

\* A stack has finitely many frames of a lock.
LEMMA FramesFinite ==
  ASSUME Types, NEW t \in Threads, NEW l
  PROVE  /\ FramesOf(t, l) \in SUBSET (1..Len(frames[t]))
         /\ IsFiniteSet(FramesOf(t, l))
         /\ Cardinality(FramesOf(t, l)) \in Nat
<1>1. Len(frames[t]) \in Nat
  BY DEF Types
<1>2. FramesOf(t, l) \in SUBSET (1..Len(frames[t]))
  BY DEF FramesOf
<1>3. IsFiniteSet(1..Len(frames[t]))
  BY <1>1, FS_Interval
<1>4. IsFiniteSet(FramesOf(t, l))
  BY <1>2, <1>3, FS_Subset
<1> QED
  BY <1>2, <1>4, FS_CardinalityType

Push(t, c) == frames' = [frames EXCEPT ![t] = Append(@, c)]

\* A call of object l in script t is one frame more for l, and for no other.
LEMMA FramesPush ==
  ASSUME Types, NEW t \in Threads, NEW c \in Calls, NEW l \in Objects,
         NEW u \in Threads, NEW m \in Objects, Push(t, c), c.lock = l
  PROVE  /\ frames' \in [Threads -> Seq(Calls)]
         /\ ~(u = t /\ m = l) => FramesOf(u, m)' = FramesOf(u, m)
         /\ Cardinality(FramesOf(t, l)') = Cardinality(FramesOf(t, l)) + 1
<1> DEFINE n == Len(frames[t]) + 1
<1>1. /\ Len(frames[t]) \in Nat /\ frames'[t] = Append(frames[t], c)
      /\ frames' \in [Threads -> Seq(Calls)]
      /\ \A v \in Threads : v # t => frames'[v] = frames[v]
  BY DEF Types, Push
<1>2. /\ Len(frames'[t]) = n /\ frames'[t][n] = c
      /\ \A i \in 1..Len(frames[t]) : frames'[t][i] = frames[t][i]
  BY <1>1 DEF Types
<1>3. ASSUME ~(u = t /\ m = l)
      PROVE  FramesOf(u, m)' = FramesOf(u, m)
  BY <1>1, <1>2, <1>3 DEF FramesOf
<1>4. FramesOf(t, l)' = FramesOf(t, l) \cup {n}
  BY <1>1, <1>2 DEF FramesOf
<1>5. n \notin FramesOf(t, l)
  BY <1>1 DEF FramesOf
<1>6. Cardinality(FramesOf(t, l)') = Cardinality(FramesOf(t, l)) + 1
  BY <1>4, <1>5, FramesFinite, FS_AddElement
<1> QED
  BY <1>1, <1>3, <1>6

\* The end of a body is one frame less for its object, and for no other.
LEMMA FramesPop ==
  ASSUME Types, NEW t \in Threads, NEW l \in Objects,
         NEW u \in Threads, NEW m \in Objects, InBody(t), Pop(t), Top(t).lock = l
  PROVE  /\ frames' \in [Threads -> Seq(Calls)]
         /\ Top(t) \in Calls
         /\ Len(frames[t]) \in 1..Len(frames[t])
         /\ \A i \in 1..Len(frames'[u]) :
              i \in 1..Len(frames[u]) /\ frames'[u][i] = frames[u][i]
         /\ ~(u = t /\ m = l) => FramesOf(u, m)' = FramesOf(u, m)
         /\ Cardinality(FramesOf(t, l)') = Cardinality(FramesOf(t, l)) - 1
<1> DEFINE n == Len(frames[t])
<1>1. /\ n \in Nat \ {0} /\ frames[t] \in Seq(Calls)
      /\ \A v \in Threads : v # t => frames'[v] = frames[v]
      /\ frames'[t] = SubSeq(frames[t], 1, n - 1)
  BY EmptySeq DEF Types, InBody, Pop
<1>2. /\ Len(frames'[t]) = n - 1 /\ frames'[t] \in Seq(Calls)
      /\ \A i \in 1..(n - 1) : frames'[t][i] = frames[t][i]
  <2>1. \A i \in 1..(n - 1) : frames[t][i] \in Calls
    BY <1>1
  <2> HIDE DEF n
  <2>2. n - 1 \in Int
    BY <1>1
  <2> QED
    BY <1>1, <2>1, <2>2, SubSeqProperties
<1>3. frames' \in [Threads -> Seq(Calls)]
  <2>1. frames' = [frames EXCEPT ![t] = frames'[t]]
    BY <1>1 DEF Types, Pop
  <2> QED
    BY <1>2, <2>1 DEF Types
<1>4. Top(t) = frames[t][n] /\ Top(t) \in Calls /\ frames[t][n].lock = l
  <2>1. n \in 1..Len(frames[t])
    BY <1>1
  <2> QED
    BY <1>1, <2>1, ElementOfSeq DEF Top
<1>5. ASSUME ~(u = t /\ m = l)
      PROVE  FramesOf(u, m)' = FramesOf(u, m)
  <2>1. CASE u # t
    BY <1>1, <2>1 DEF FramesOf
  <2>2. CASE u = t
    BY <1>1, <1>2, <1>4, <1>5, <2>2, SMTT(30) DEF FramesOf
  <2> QED
    BY <2>1, <2>2
<1>6. FramesOf(t, l)' = FramesOf(t, l) \ {n}
  BY <1>1, <1>2, <1>4 DEF FramesOf
<1>7. n \in FramesOf(t, l)
  BY <1>1, <1>4 DEF FramesOf
<1>8. Cardinality(FramesOf(t, l)') = Cardinality(FramesOf(t, l)) - 1
  BY <1>6, <1>7, FramesFinite, FS_RemoveElement, ZenonT(40)
<1>9. \A i \in 1..Len(frames'[u]) :
        i \in 1..Len(frames[u]) /\ frames'[u][i] = frames[u][i]
  <2>1. CASE u # t
    BY <1>1, <2>1
  <2>2. CASE u = t
    <3>1. frames'[u] = frames'[t] /\ frames[u] = frames[t]
      BY <2>2
    <3> QED
      BY <1>1, <1>2, <3>1
  <2> QED
    BY <2>1, <2>2
<1> QED
  BY <1>1, <1>3, <1>4, <1>5, <1>8, <1>9

-----------------------------------------------------------------------------
(* What the steps of one script may do.                                    *)

\* An object whose script runs is not waited for.
LEMMA UserDoesNotWait ==
  ASSUME Inv, NEW t \in Threads, NEW l \in Objects, thread[l] = t, waits[t] = None
  PROVE  l \in Alive /\ ~WaitsFor(l)
BY LockAssumption DEF Inv, Types, OwnWait, Alive, WaitsFor

\* A step of the script of object l leaves the counts of the others alone.
LEMMA CountedStep ==
  ASSUME Inv, NEW t \in Threads, NEW l \in Objects, thread[l] = t,
         thread' = thread, misused \subseteq misused',
         \A m \in Objects : m # l => /\ count'[m] = count[m]
                                    /\ kept'[m] = kept[m]
                                    /\ (WaitsFor(m)' <=> WaitsFor(m)),
         \A u \in Threads, m \in Objects : m # l => FramesOf(u, m)' = FramesOf(u, m),
         l \notin misused' =>
           count'[l] = kept'[l] + Cardinality(FramesOf(t, l)')
                       + (IF WaitsFor(l)' THEN 1 ELSE 0)
  PROVE  Counted'
<1> SUFFICES ASSUME NEW u \in Threads, NEW m \in Objects \ misused', thread[m] = u
             PROVE  count'[m] = kept'[m] + Cardinality(FramesOf(u, m)')
                                + (IF WaitsFor(m)' THEN 1 ELSE 0)
  BY DEF Counted
<1>1. CASE m = l
  BY <1>1
<1>2. CASE m # l
  <2>1. count[m] = kept[m] + Cardinality(FramesOf(u, m))
                   + (IF WaitsFor(m) THEN 1 ELSE 0)
    BY DEF Inv, Counted
  <2>2. FramesOf(u, m)' = FramesOf(u, m) /\ (WaitsFor(m)' <=> WaitsFor(m))
    BY <1>2
  <2>3. count'[m] = count[m] /\ kept'[m] = kept[m]
    BY <1>2
  <2> QED
    BY <2>1, <2>2, <2>3
<1> QED
  BY <1>1, <1>2

\* disable, and the refused enable: the mutex is given up with the last count,
\* and then it was this object that had it.
LEMMA GiveUp ==
  ASSUME Inv, NEW l \in Objects, l \in Alive, ~WaitsFor(l),
         count' = [count EXCEPT ![l] = @ - 1],
         owner' = IF count[l] - 1 = 0 THEN None ELSE owner,
         thread' = thread, waits' = waits
  PROVE  /\ Owns' /\ OwnWait'
         /\ count' \in [Objects -> Int] /\ owner' \in Objects \cup {None}
<1> USE LockAssumption DEF Inv
<1>1. /\ count' \in [Objects -> Int] /\ owner' \in Objects \cup {None}
      /\ count'[l] = count[l] - 1 /\ count[l] \in Int
      /\ \A m \in Objects : m # l => count'[m] = count[m]
  BY DEF Types
<1>2. Alive' = Alive /\ \A m : WaitsFor(m)' <=> WaitsFor(m)
  BY DEF Alive, WaitsFor
<1>3. count[l] = 1 => owner = l
  BY <1>1 DEF Owns
<1>4. Owns'
  <2>1. ASSUME NEW m \in Objects, owner' = m PROVE count'[m] >= 1
    <3>1. owner = m /\ count[l] - 1 # 0
      BY <2>1
    <3>2. count[m] >= 1
      BY <3>1 DEF Owns
    <3> QED
      BY <1>1, <3>1, <3>2
  <2>2. ASSUME NEW m \in Alive, count'[m] >= 1, ~WaitsFor(m) PROVE owner' = m
    <3>0. m \in Objects
      BY DEF Alive
    <3>1. count[m] >= 1
      BY <1>1, <2>2, <3>0
    <3>2. owner = m
      BY <2>2, <3>1 DEF Owns
    <3>3. count[l] - 1 # 0
      BY <1>1, <1>3, <2>2, <3>2
    <3> QED
      BY <3>2, <3>3
  <2> QED
    BY <1>2, <2>1, <2>2 DEF Owns
<1>5. OwnWait'
  <2> SUFFICES ASSUME NEW t \in Threads, waits[t] # None
               PROVE  /\ thread[waits[t].lock] = t
                      /\ count'[waits[t].lock] = 1
                      /\ owner' # waits[t].lock
    BY DEF OwnWait
  <2>1. waits[t] \in Calls /\ waits[t].lock \in Objects /\ waits[t].lock # l
    BY DEF Types, Calls, WaitsFor
  <2> QED
    BY <1>1, <2>1 DEF OwnWait
<1> QED
  BY <1>1, <1>4, <1>5

\* A step that makes and collects no object keeps the reference count.
LEMMA ReferencesStep ==
  ASSUME References, thread' = thread, counter' = counter
  PROVE  References'
BY DEF References, Alive

\* enable has returned: the script is one level deeper inside object l.
LEMMA EnteredStep ==
  ASSUME Inv, NEW t \in Threads, NEW l \in Objects, NEW kind \in Kinds,
         thread[l] = t, thread' = thread, Entered(t, l, kind)
  PROVE  /\ frames' \in [Threads -> Seq(Calls)] /\ kept' \in [Objects -> Int]
         /\ OwnFrames'
         /\ \A m \in Objects : m # l => kept'[m] = kept[m]
         /\ \A u \in Threads, m \in Objects : m # l => FramesOf(u, m)' = FramesOf(u, m)
         /\ Cardinality(FramesOf(t, l)') \in Nat
         /\ kept'[l] + Cardinality(FramesOf(t, l)')
              = kept[l] + Cardinality(FramesOf(t, l)) + 1
<1> USE DEF Inv
<1>0. Cardinality(FramesOf(t, l)) \in Nat /\ kept[l] \in Int
  BY FramesFinite DEF Types
<1>1. CASE kind = "enable"
  <2>1. frames' = frames /\ kept' = [kept EXCEPT ![l] = @ + 1]
    BY <1>1 DEF Entered
  <2>2. \A u \in Threads, m \in Objects : FramesOf(u, m)' = FramesOf(u, m)
    BY <2>1 DEF FramesOf
  <2>3. kept' \in [Objects -> Int] /\ kept'[l] = kept[l] + 1
    BY <2>1 DEF Types
  <2>4. \A m \in Objects : m # l => kept'[m] = kept[m]
    BY <2>1 DEF Types
  <2>5. OwnFrames' /\ frames' \in [Threads -> Seq(Calls)]
    BY <2>1 DEF Types, OwnFrames
  <2>6. Cardinality(FramesOf(t, l)') = Cardinality(FramesOf(t, l))
    BY <2>2
  <2>7. kept'[l] + Cardinality(FramesOf(t, l)')
          = kept[l] + Cardinality(FramesOf(t, l)) + 1
    BY <1>0, <2>3, <2>6
  <2> QED
    BY <1>0, <2>2, <2>3, <2>4, <2>5, <2>6, <2>7
<1>2. CASE kind # "enable"
  <2>0. PICK c \in Calls : c = [lock |-> l, kind |-> kind]
    BY DEF Calls
  <2>1. Push(t, c)
    BY <1>2, <2>0 DEF Entered, Push
  <2>2. c.lock = l
    BY <2>0
  <2>5. Types /\ kept' = kept
    BY <1>2 DEF Entered
  <2>3. ASSUME NEW u \in Threads, NEW m \in Objects, m # l
        PROVE  FramesOf(u, m)' = FramesOf(u, m)
    BY <2>1, <2>2, <2>3, <2>5, FramesPush
  <2>6. /\ frames' \in [Threads -> Seq(Calls)]
        /\ Cardinality(FramesOf(t, l)') = Cardinality(FramesOf(t, l)) + 1
    BY <2>1, <2>2, <2>5, FramesPush
  <2>4. OwnFrames'
    <3>1. /\ Len(frames[t]) \in Nat /\ frames'[t] = Append(frames[t], c)
          /\ \A u \in Threads : u # t => frames'[u] = frames[u]
      BY <2>1 DEF Types, Push
    <3>2. /\ Len(frames'[t]) = Len(frames[t]) + 1 /\ frames'[t][Len(frames[t]) + 1] = c
          /\ \A i \in 1..Len(frames[t]) : frames'[t][i] = frames[t][i]
      BY <2>2, <3>1 DEF Types
    <3> SUFFICES ASSUME NEW u \in Threads, NEW i \in 1..Len(frames'[u])
                 PROVE  thread[frames'[u][i].lock] = u
      BY DEF OwnFrames
    <3>3. CASE u # t
      BY <3>1, <3>3 DEF OwnFrames
    <3>4. CASE u = t /\ i = Len(frames[t]) + 1
      BY <2>2, <3>2, <3>4
    <3>5. CASE u = t /\ i # Len(frames[t]) + 1
      <4>1. i \in 1..Len(frames[t])
        BY <3>1, <3>2, <3>5
      <4> QED
        BY <3>2, <3>5, <4>1 DEF OwnFrames
    <3> QED
      BY <3>3, <3>4, <3>5
  <2> QED
    BY <1>0, <2>3, <2>4, <2>5, <2>6 DEF Types
<1> QED
  BY <1>1, <1>2

-----------------------------------------------------------------------------
(* The actions.                                                            *)

\* Lock.new: the new object leaves the others alone.
LEMMA NewStep ==
  ASSUME Inv, NEW t \in Threads, NEW l \in Objects, New(t, l) PROVE Inv'
<1> USE LockAssumption DEF Inv
<1>1. /\ thread[l] = None /\ count[l] = 0 /\ owner # l /\ kept[l] = 0
      /\ thread' = [thread EXCEPT ![l] = t] /\ counter' = counter + 1
      /\ UNCHANGED <<count, owner, frames, waits, kept, misused>>
  BY DEF New, scriptVars
<1>2. \A m \in Objects : thread'[m] = IF m = l THEN t ELSE thread[m]
  BY <1>1 DEF Types
<1>3. Types'
  BY <1>1 DEF Types
<1>4. l \notin Alive /\ Alive' = Alive \cup {l}
  BY <1>1, <1>2 DEF Alive
<1>5. References'
  BY <1>1, <1>4, FS_AddElement DEF References
<1>6. \A u \in Threads : \A i \in 1..Len(frames[u]) :
        frames[u][i].lock \in Objects /\ frames[u][i].lock # l
  <2> SUFFICES ASSUME NEW u \in Threads, NEW i \in 1..Len(frames[u])
               PROVE  frames[u][i].lock \in Objects /\ frames[u][i].lock # l
    OBVIOUS
  <2>1. frames[u][i] \in Calls
    BY ElementOfSeq DEF Types
  <2> QED
    BY <1>1, <2>1 DEF OwnFrames, Calls
<1>7. \A u \in Threads : waits[u] # None =>
        waits[u].lock \in Objects /\ waits[u].lock # l
  BY <1>1 DEF Types, OwnWait, Calls
<1>8. OwnFrames'
  BY <1>1, <1>2, <1>6 DEF OwnFrames
<1>9. OwnWait'
  BY <1>1, <1>2, <1>7 DEF OwnWait
<1>10. \A m : WaitsFor(m)' <=> WaitsFor(m)
  BY <1>1 DEF WaitsFor
<1>11. Owns'
  BY <1>1, <1>2, <1>4, <1>10 DEF Owns
<1>12. \A u \in Threads, m \in Objects : FramesOf(u, m)' = FramesOf(u, m)
  BY <1>1 DEF FramesOf
<1>13. ~WaitsFor(l) /\ Cardinality(FramesOf(t, l)) = 0
  <2>1. FramesOf(t, l) = {}
    BY <1>6 DEF FramesOf
  <2> QED
    BY <1>7, <2>1, FS_EmptySet DEF WaitsFor
<1>14. Counted'
  <2> SUFFICES ASSUME NEW u \in Threads, NEW m \in Objects \ misused, thread'[m] = u
               PROVE  count[m] = kept[m] + Cardinality(FramesOf(u, m))
                                 + (IF WaitsFor(m) THEN 1 ELSE 0)
    BY <1>1, <1>10, <1>12 DEF Counted
  <2>1. CASE m = l
    BY <1>1, <1>2, <1>13, <2>1
  <2>2. CASE m # l
    BY <1>2, <2>2 DEF Counted
  <2> QED
    BY <2>1, <2>2
<1> QED
  BY <1>3, <1>5, <1>8, <1>9, <1>11, <1>14

\* Collecting an object with the last reference takes the mutex away; then no
\* other object exists that could own it.
LEMMA GcStep ==
  ASSUME Inv, NEW t \in Threads, NEW l \in Objects, Gc(t, l) PROVE Inv'
<1> USE LockAssumption DEF Inv
<1>1. /\ thread[l] = t /\ waits[t] = None /\ FramesOf(t, l) = {}
      /\ thread' = [thread EXCEPT ![l] = None] /\ counter' = counter - 1
      /\ owner' = IF counter = 1 THEN None ELSE owner
      /\ UNCHANGED <<count, frames, waits, kept, misused>>
  BY DEF Gc, Uses, scriptVars
<1>2. \A m \in Objects : thread'[m] = IF m = l THEN None ELSE thread[m]
  BY <1>1 DEF Types
<1>3. l \in Alive /\ Alive' = Alive \ {l}
  BY <1>1, <1>2 DEF Alive
<1>4. References' /\ counter' \in Nat
  <2>1. IsFiniteSet(Alive \ {l}) /\ Cardinality(Alive \ {l}) = Cardinality(Alive) - 1
    BY <1>3, FS_RemoveElement DEF References
  <2> QED
    BY <1>1, <1>3, <2>1, FS_CardinalityType DEF References
<1>5. Types'
  BY <1>1, <1>4 DEF Types
<1>6. counter = 1 => Alive' = {}
  BY <1>1, <1>4, FS_EmptySet DEF References, Types
<1>7. \A u \in Threads : \A i \in 1..Len(frames[u]) :
        frames[u][i].lock \in Objects /\ frames[u][i].lock # l
  <2> SUFFICES ASSUME NEW u \in Threads, NEW i \in 1..Len(frames[u])
               PROVE  frames[u][i].lock \in Objects /\ frames[u][i].lock # l
    OBVIOUS
  <2>1. frames[u][i] \in Calls /\ thread[frames[u][i].lock] = u
    BY ElementOfSeq DEF Types, OwnFrames
  <2>2. u = t => frames[u][i].lock # l
    BY <1>1 DEF FramesOf
  <2> QED
    BY <1>1, <2>1, <2>2 DEF Calls
<1>8. \A u \in Threads : waits[u] # None =>
        waits[u].lock \in Objects /\ waits[u].lock # l
  BY <1>1 DEF Types, OwnWait, Calls
<1>9. OwnFrames'
  BY <1>1, <1>2, <1>7 DEF OwnFrames
<1>10. OwnWait'
  BY <1>1, <1>2, <1>8 DEF OwnWait
<1>11. \A m : WaitsFor(m)' <=> WaitsFor(m)
  BY <1>1 DEF WaitsFor
<1>12. Owns'
  BY <1>1, <1>3, <1>6, <1>11 DEF Owns
<1>13. \A u \in Threads, m \in Objects : FramesOf(u, m)' = FramesOf(u, m)
  BY <1>1 DEF FramesOf
<1>14. Counted'
  <2> SUFFICES ASSUME NEW u \in Threads, NEW m \in Objects \ misused, thread'[m] = u
               PROVE  count[m] = kept[m] + Cardinality(FramesOf(u, m))
                                 + (IF WaitsFor(m) THEN 1 ELSE 0)
    BY <1>1, <1>11, <1>13 DEF Counted
  <2> QED
    BY <1>2 DEF Counted
<1> QED
  BY <1>4, <1>5, <1>9, <1>10, <1>12, <1>14

\* The object becomes misused, so Counted says nothing of it any more.
LEMMA EnableRefusedStep ==
  ASSUME Inv, NEW t \in Threads, NEW l \in Objects, EnableRefused(t, l) PROVE Inv'
<1>1. /\ thread[l] = t /\ waits[t] = None
      /\ count' = [count EXCEPT ![l] = @ - 1]
      /\ owner' = IF count[l] - 1 = 0 THEN None ELSE owner
      /\ misused' = misused \cup {l}
      /\ UNCHANGED <<thread, counter, frames, waits, kept>>
  BY DEF EnableRefused, Uses, objectVars, scriptVars
<1>2. l \in Alive /\ ~WaitsFor(l)
  BY <1>1, UserDoesNotWait
<1>3. Owns' /\ OwnWait' /\ count' \in [Objects -> Int] /\ owner' \in Objects \cup {None}
  BY <1>1, <1>2, GiveUp
<1>4. Types' /\ References' /\ OwnFrames'
  BY <1>1, <1>3, ReferencesStep DEF Inv, Types, OwnFrames
<1>5. \A m \in Objects : m # l => /\ count'[m] = count[m] /\ kept'[m] = kept[m]
                                  /\ (WaitsFor(m)' <=> WaitsFor(m))
  BY <1>1 DEF Inv, Types, WaitsFor
<1>6. \A u \in Threads, m \in Objects : FramesOf(u, m)' = FramesOf(u, m)
  BY <1>1 DEF FramesOf
<1>7. Counted'
  BY <1>1, <1>5, <1>6, CountedStep
<1> QED
  BY <1>3, <1>4, <1>7 DEF Inv

\* A second enable of an object that has the mutex, or one that makes up for a
\* disable too many.
LEMMA EnableNestedStep ==
  ASSUME Inv, NEW t \in Threads, NEW l \in Objects, NEW kind \in Kinds,
         EnableNested(t, l, kind)
  PROVE  Inv'
<1>1. /\ thread[l] = t /\ waits[t] = None /\ count[l] + 1 # 1
      /\ count' = [count EXCEPT ![l] = @ + 1]
      /\ Entered(t, l, kind)
      /\ UNCHANGED <<thread, owner, counter, waits, misused>>
  BY DEF EnableNested, Uses, objectVars
<1>2. l \in Alive /\ ~WaitsFor(l)
  BY <1>1, UserDoesNotWait
<1>3. /\ frames' \in [Threads -> Seq(Calls)] /\ kept' \in [Objects -> Int]
      /\ OwnFrames'
      /\ \A m \in Objects : m # l => kept'[m] = kept[m]
      /\ \A u \in Threads, m \in Objects : m # l => FramesOf(u, m)' = FramesOf(u, m)
      /\ Cardinality(FramesOf(t, l)') \in Nat
      /\ kept'[l] + Cardinality(FramesOf(t, l)')
           = kept[l] + Cardinality(FramesOf(t, l)) + 1
  BY <1>1, EnteredStep
<1>4. /\ count' \in [Objects -> Int] /\ count'[l] = count[l] + 1 /\ count[l] \in Int
      /\ \A m \in Objects : m # l => count'[m] = count[m]
  BY <1>1 DEF Inv, Types
<1>5. \A m : WaitsFor(m)' <=> WaitsFor(m)
  BY <1>1 DEF WaitsFor
<1>6. Types' /\ References'
  BY <1>1, <1>3, <1>4, ReferencesStep DEF Inv, Types
<1>7. OwnWait'
  <2>1. \A u \in Threads : waits[u] # None =>
          waits[u].lock \in Objects /\ waits[u].lock # l
    BY <1>2 DEF Inv, Types, Calls, WaitsFor
  <2> QED
    BY <1>1, <1>4, <2>1 DEF Inv, OwnWait
<1>8. Owns'
  <2>1. Alive' = Alive /\ Alive \subseteq Objects
    BY <1>1 DEF Alive
  <2>2. count'[l] >= 1 => count[l] >= 1
    BY <1>1, <1>4
  <2>3. \A m \in Objects : owner' = m => count'[m] >= 1
    BY <1>1, <1>4 DEF Inv, Owns
  <2>4. \A m \in Alive : count'[m] >= 1 /\ ~WaitsFor(m) => owner' = m
    BY <1>1, <1>4, <2>1, <2>2 DEF Inv, Owns
  <2> QED
    BY <1>5, <2>1, <2>3, <2>4 DEF Owns
<1>9. Counted'
  <2>1. l \notin misused => count[l] = kept[l] + Cardinality(FramesOf(t, l))
    <3>1. Cardinality(FramesOf(t, l)) \in Nat /\ kept[l] \in Int
      BY FramesFinite DEF Inv, Types
    <3> QED
      BY <1>1, <1>2, <3>1 DEF Inv, Counted
  <2>2. l \notin misused' =>
          count'[l] = kept'[l] + Cardinality(FramesOf(t, l)')
                      + (IF WaitsFor(l)' THEN 1 ELSE 0)
    <3>1. ~WaitsFor(l)'
      BY <1>2, <1>5
    <3>2. Cardinality(FramesOf(t, l)') \in Nat /\ kept'[l] \in Int
      BY <1>3
    <3> QED
      BY <1>1, <1>3, <1>4, <2>1, <3>1, <3>2
  <2> QED
    BY <1>1, <1>3, <1>4, <1>5, <2>2, CountedStep
<1> QED
  BY <1>3, <1>6, <1>7, <1>8, <1>9 DEF Inv

\* The count is raised before the thread has the mutex, and the object waited
\* for is the only one with a count and without the mutex.
LEMMA EnableLocksStep ==
  ASSUME Inv, NEW t \in Threads, NEW l \in Objects, NEW kind \in Kinds,
         EnableLocks(t, l, kind)
  PROVE  Inv'
<1>0. PICK c \in Calls : c = [lock |-> l, kind |-> kind]
  BY DEF Calls
<1>1. /\ thread[l] = t /\ waits[t] = None /\ count[l] + 1 = 1
      /\ count' = [count EXCEPT ![l] = @ + 1]
      /\ waits' = [waits EXCEPT ![t] = c]
      /\ UNCHANGED <<thread, owner, counter, frames, kept, misused>>
  BY <1>0 DEF EnableLocks, Uses, objectVars
<1>2. /\ l \in Alive /\ ~WaitsFor(l) /\ c.lock = l
  BY <1>0, <1>1, UserDoesNotWait
<1>3. /\ count' \in [Objects -> Int] /\ count[l] = 0 /\ count'[l] = 1
      /\ \A m \in Objects : m # l => count'[m] = count[m]
  BY <1>1 DEF Inv, Types
<1>4. /\ waits' \in [Threads -> Calls \cup {None}] /\ waits'[t] = c /\ c # None
      /\ \A u \in Threads : u # t => waits'[u] = waits[u]
  BY <1>1, LockAssumption DEF Inv, Types
<1>5. Types' /\ References' /\ OwnFrames'
  BY <1>1, <1>3, <1>4, ReferencesStep DEF Inv, Types, OwnFrames
<1>6. \A u \in Threads : waits[u] # None => waits[u].lock \in Objects /\ waits[u].lock # l
  BY <1>2 DEF Inv, Types, Calls, WaitsFor
<1>7. owner # l
  BY <1>3 DEF Inv, Owns
<1>8. OwnWait'
  <2> SUFFICES ASSUME NEW u \in Threads, waits'[u] # None
               PROVE  /\ thread[waits'[u].lock] = u
                      /\ count'[waits'[u].lock] = 1
                      /\ owner # waits'[u].lock
    BY <1>1 DEF OwnWait
  <2>1. CASE u = t
    BY <1>1, <1>2, <1>3, <1>4, <1>7, <2>1
  <2>2. CASE u # t
    BY <1>3, <1>4, <1>6, <2>2 DEF Inv, OwnWait
  <2> QED
    BY <2>1, <2>2
<1>9. /\ WaitsFor(l)'
      /\ \A m \in Objects : m # l => (WaitsFor(m)' <=> WaitsFor(m))
  BY <1>1, <1>2, <1>4 DEF WaitsFor
<1>10. Owns'
  <2>1. Alive' = Alive /\ Alive \subseteq Objects
    BY <1>1 DEF Alive
  <2>2. \A m \in Objects : owner' = m => count'[m] >= 1
    BY <1>1, <1>3, <1>7 DEF Inv, Owns
  <2>3. ASSUME NEW m \in Alive, count'[m] >= 1, ~WaitsFor(m)' PROVE owner' = m
    BY <1>1, <1>3, <1>9, <2>1, <2>3 DEF Inv, Owns
  <2> QED
    BY <2>1, <2>2, <2>3 DEF Owns
<1>11. Counted'
  <2>1. FramesOf(t, l)' = FramesOf(t, l) /\ Cardinality(FramesOf(t, l)) \in Nat
        /\ kept[l] \in Int
    BY <1>1, FramesFinite DEF FramesOf, Inv, Types
  <2>2. l \notin misused => count[l] = kept[l] + Cardinality(FramesOf(t, l))
    BY <1>1, <1>2, <2>1 DEF Inv, Counted
  <2>3. l \notin misused' =>
          count'[l] = kept'[l] + Cardinality(FramesOf(t, l)')
                      + (IF WaitsFor(l)' THEN 1 ELSE 0)
    BY <1>1, <1>3, <1>9, <2>1, <2>2
  <2>4. \A u \in Threads, m \in Objects : FramesOf(u, m)' = FramesOf(u, m)
    BY <1>1 DEF FramesOf
  <2> QED
    BY <1>1, <1>3, <1>9, <2>3, <2>4, CountedStep
<1> QED
  BY <1>5, <1>8, <1>10, <1>11 DEF Inv

\* The mutex was free, so no other object has a count without waiting.
LEMMA AcquireStep ==
  ASSUME Inv, NEW t \in Threads, Acquire(t) PROVE Inv'
<1>0. PICK c \in Calls : c = waits[t]
  BY DEF Acquire, Inv, Types
<1>1. PICK l \in Objects : l = c.lock
  BY <1>0 DEF Calls
<1>2. PICK kind \in Kinds : kind = c.kind
  BY <1>0 DEF Calls
<1>3. /\ waits[t] # None /\ owner = None /\ owner' = l /\ Entered(t, l, kind)
      /\ waits' = [waits EXCEPT ![t] = None]
      /\ UNCHANGED <<thread, count, counter, misused>>
  BY <1>0, <1>1, <1>2 DEF Acquire, objectVars
<1>4. thread[l] = t /\ count[l] = 1 /\ WaitsFor(l) /\ l \in Alive
  BY <1>0, <1>1, <1>3, LockAssumption DEF Inv, OwnWait, WaitsFor, Alive
<1>5. /\ waits' \in [Threads -> Calls \cup {None}] /\ waits'[t] = None
      /\ \A u \in Threads : u # t => waits'[u] = waits[u]
  BY <1>3 DEF Inv, Types
<1>6. /\ frames' \in [Threads -> Seq(Calls)] /\ kept' \in [Objects -> Int]
      /\ OwnFrames'
      /\ \A m \in Objects : m # l => kept'[m] = kept[m]
      /\ \A u \in Threads, m \in Objects : m # l => FramesOf(u, m)' = FramesOf(u, m)
      /\ Cardinality(FramesOf(t, l)') \in Nat
      /\ kept'[l] + Cardinality(FramesOf(t, l)')
           = kept[l] + Cardinality(FramesOf(t, l)) + 1
  BY <1>3, <1>4, EnteredStep
<1>7. Types' /\ References'
  BY <1>3, <1>5, <1>6, ReferencesStep DEF Inv, Types
<1>8. \A u \in Threads : u # t /\ waits[u] # None => waits[u].lock # l
  BY <1>4 DEF Inv, OwnWait
<1>9. OwnWait'
  BY <1>3, <1>5, <1>8 DEF Inv, OwnWait
<1>10. /\ ~WaitsFor(l)'
       /\ \A m \in Objects : m # l => (WaitsFor(m)' <=> WaitsFor(m))
  BY <1>0, <1>1, <1>3, <1>5, <1>8 DEF WaitsFor
<1>11. Owns'
  <2>1. Alive' = Alive /\ Alive \subseteq Objects
    BY <1>3 DEF Alive
  <2>2. \A m \in Objects : owner' = m => count'[m] >= 1
    BY <1>3, <1>4
  <2>3. ASSUME NEW m \in Alive, count'[m] >= 1, ~WaitsFor(m)' PROVE owner' = m
    <3>1. CASE m = l
      BY <1>3, <3>1
    <3>2. CASE m # l
      BY <1>3, <1>10, <2>1, <2>3, <3>2, LockAssumption DEF Inv, Owns
    <3> QED
      BY <3>1, <3>2
  <2> QED
    BY <2>1, <2>2, <2>3 DEF Owns
<1>12. Counted'
  <2>1. Cardinality(FramesOf(t, l)) \in Nat /\ kept[l] \in Int /\ kept'[l] \in Int
    BY <1>6, FramesFinite DEF Inv, Types
  <2>2. l \notin misused => 1 = kept[l] + Cardinality(FramesOf(t, l)) + 1
    BY <1>4, <2>1 DEF Inv, Counted
  <2>3. l \notin misused' =>
          count'[l] = kept'[l] + Cardinality(FramesOf(t, l)')
                      + (IF WaitsFor(l)' THEN 1 ELSE 0)
    BY <1>3, <1>4, <1>6, <1>10, <2>1, <2>2
  <2> QED
    BY <1>3, <1>4, <1>6, <1>10, <2>3, CountedStep
<1> QED
  BY <1>6, <1>7, <1>9, <1>11, <1>12 DEF Inv

\* A script calls disable, rightly or not.
LEMMA DisableStep ==
  ASSUME Inv, NEW t \in Threads, NEW l \in Objects, Disable(t, l) PROVE Inv'
<1>1. /\ thread[l] = t /\ waits[t] = None
      /\ count' = [count EXCEPT ![l] = @ - 1]
      /\ owner' = IF count[l] - 1 = 0 THEN None ELSE owner
      /\ misused' = IF count[l] - 1 < 0 THEN misused \cup {l} ELSE misused
      /\ kept' = IF count[l] >= 1 THEN [kept EXCEPT ![l] = @ - 1] ELSE kept
      /\ UNCHANGED <<thread, counter, frames, waits>>
  BY DEF Disable, Disabled, Uses, objectVars
<1>2. l \in Alive /\ ~WaitsFor(l)
  BY <1>1, UserDoesNotWait
<1>3. Owns' /\ OwnWait' /\ count' \in [Objects -> Int] /\ owner' \in Objects \cup {None}
  BY <1>1, <1>2, GiveUp
<1>4. /\ count[l] \in Int /\ count'[l] = count[l] - 1
      /\ kept[l] \in Int /\ kept' \in [Objects -> Int]
      /\ count[l] >= 1 => kept'[l] = kept[l] - 1
      /\ \A m \in Objects : m # l => count'[m] = count[m] /\ kept'[m] = kept[m]
  BY <1>1 DEF Inv, Types
<1>5. Types' /\ References' /\ OwnFrames'
  BY <1>1, <1>3, <1>4, ReferencesStep DEF Inv, Types, OwnFrames
<1>6. \A m \in Objects : WaitsFor(m)' <=> WaitsFor(m)
  BY <1>1 DEF WaitsFor
<1>7. \A u \in Threads, m \in Objects : FramesOf(u, m)' = FramesOf(u, m)
  BY <1>1 DEF FramesOf
<1>8. Counted'
  <2>1. FramesOf(t, l)' = FramesOf(t, l) /\ Cardinality(FramesOf(t, l)) \in Nat
    BY <1>7, FramesFinite DEF Inv
  <2>2. l \notin misused => count[l] = kept[l] + Cardinality(FramesOf(t, l))
    BY <1>1, <1>2, <1>4, <2>1 DEF Inv, Counted
  <2>3. l \notin misused' => l \notin misused /\ count[l] >= 1
    BY <1>1, <1>4
  <2>4. l \notin misused' =>
          count'[l] = kept'[l] + Cardinality(FramesOf(t, l)')
                      + (IF WaitsFor(l)' THEN 1 ELSE 0)
    BY <1>2, <1>4, <1>6, <2>1, <2>2, <2>3
  <2> QED
    BY <1>1, <1>4, <1>6, <1>7, <2>4, CountedStep
<1> QED
  BY <1>3, <1>5, <1>8 DEF Inv

\* A body ends: its script is one level less inside its object.
LEMMA PopStep ==
  ASSUME Inv, NEW t \in Threads, InBody(t), Pop(t), thread' = thread,
         NEW l \in Objects, Top(t).lock = l
  PROVE  /\ thread[l] = t /\ waits[t] = None
         /\ frames' \in [Threads -> Seq(Calls)] /\ OwnFrames'
         /\ \A u \in Threads, m \in Objects : m # l => FramesOf(u, m)' = FramesOf(u, m)
         /\ Cardinality(FramesOf(t, l)) \in Nat
         /\ Cardinality(FramesOf(t, l)') = Cardinality(FramesOf(t, l)) - 1
<1> USE DEF Inv
<1>0. Types
  OBVIOUS
<1>1. thread[l] = t /\ waits[t] = None
  <2>1. Len(frames[t]) \in 1..Len(frames[t])
    BY <1>0, FramesPop
  <2> QED
    BY <2>1 DEF OwnFrames, Top, InBody
<1>2. frames' \in [Threads -> Seq(Calls)]
  BY <1>0, FramesPop
<1>3. ASSUME NEW u \in Threads, NEW i \in 1..Len(frames'[u])
      PROVE  thread[frames'[u][i].lock] = u
  <2>1. i \in 1..Len(frames[u]) /\ frames'[u][i] = frames[u][i]
    BY <1>0, <1>3, FramesPop
  <2> QED
    BY <2>1 DEF OwnFrames
<1>4. OwnFrames'
  BY <1>3 DEF OwnFrames
<1>5. ASSUME NEW u \in Threads, NEW m \in Objects, m # l
      PROVE  FramesOf(u, m)' = FramesOf(u, m)
  BY <1>0, <1>5, FramesPop
<1>6. /\ Cardinality(FramesOf(t, l)) \in Nat
      /\ Cardinality(FramesOf(t, l)') = Cardinality(FramesOf(t, l)) - 1
  BY <1>0, FramesFinite, FramesPop
<1> QED
  BY <1>1, <1>2, <1>4, <1>5, <1>6

\* The innermost body of a thread is one under a lock object.
LEMMA TopLock ==
  ASSUME Inv, NEW t \in Threads, InBody(t) PROVE Top(t).lock \in Objects
<1>1. frames[t] \in Seq(Calls) /\ frames[t] # <<>>
  BY DEF Inv, Types, InBody
<1>2. Len(frames[t]) \in 1..Len(frames[t])
  BY <1>1, EmptySeq
<1>3. Top(t) \in Calls
  BY <1>1, <1>2, ElementOfSeq DEF Top
<1> QED
  BY <1>3 DEF Calls

\* The end of a body with disable: every return, and the failed pcall.
LEMMA BodyDisablesStep ==
  ASSUME Inv, NEW t \in Threads, InBody(t), Pop(t),
         NEW l \in Objects, Top(t).lock = l, Disabled(l),
         UNCHANGED <<thread, counter, waits, kept>>
  PROVE  Inv'
<1>1. /\ count' = [count EXCEPT ![l] = @ - 1]
      /\ owner' = IF count[l] - 1 = 0 THEN None ELSE owner
      /\ misused' = IF count[l] - 1 < 0 THEN misused \cup {l} ELSE misused
  BY DEF Disabled
<1>2. /\ thread[l] = t /\ waits[t] = None
      /\ frames' \in [Threads -> Seq(Calls)] /\ OwnFrames'
      /\ \A u \in Threads, m \in Objects : m # l => FramesOf(u, m)' = FramesOf(u, m)
      /\ Cardinality(FramesOf(t, l)) \in Nat
      /\ Cardinality(FramesOf(t, l)') = Cardinality(FramesOf(t, l)) - 1
  BY PopStep
<1>3. l \in Alive /\ ~WaitsFor(l)
  BY <1>2, UserDoesNotWait
<1>4. Owns' /\ OwnWait' /\ count' \in [Objects -> Int] /\ owner' \in Objects \cup {None}
  BY <1>1, <1>3, GiveUp
<1>5. /\ count[l] \in Int /\ count'[l] = count[l] - 1 /\ kept[l] \in Int
      /\ \A m \in Objects : m # l => count'[m] = count[m]
  BY <1>1 DEF Inv, Types
<1>6. Types' /\ References'
  BY <1>1, <1>2, <1>4, ReferencesStep DEF Inv, Types
<1>7. \A m \in Objects : WaitsFor(m)' <=> WaitsFor(m)
  BY DEF WaitsFor
<1>8. Counted'
  <2>1. l \notin misused => count[l] = kept[l] + Cardinality(FramesOf(t, l))
    BY <1>2, <1>3, <1>5 DEF Inv, Counted
  <2>2. l \notin misused' =>
          count'[l] = kept'[l] + Cardinality(FramesOf(t, l)')
                      + (IF WaitsFor(l)' THEN 1 ELSE 0)
    BY <1>1, <1>2, <1>3, <1>5, <1>7, <2>1
  <2> QED
    BY <1>1, <1>2, <1>5, <1>7, <2>2, CountedStep
<1> QED
  BY <1>2, <1>4, <1>6, <1>8 DEF Inv

\* The failed body of call: the lock stays enabled, as if by hand.
LEMMA BodyLeavesStep ==
  ASSUME Inv, NEW t \in Threads, InBody(t), Pop(t),
         NEW l \in Objects, Top(t).lock = l,
         kept' = [kept EXCEPT ![l] = @ + 1],
         UNCHANGED <<thread, count, owner, counter, waits, misused>>
  PROVE  Inv'
<1>1. /\ thread[l] = t /\ waits[t] = None
      /\ frames' \in [Threads -> Seq(Calls)] /\ OwnFrames'
      /\ \A u \in Threads, m \in Objects : m # l => FramesOf(u, m)' = FramesOf(u, m)
      /\ Cardinality(FramesOf(t, l)) \in Nat
      /\ Cardinality(FramesOf(t, l)') = Cardinality(FramesOf(t, l)) - 1
  BY PopStep
<1>2. /\ kept' \in [Objects -> Int] /\ kept[l] \in Int /\ kept'[l] = kept[l] + 1
      /\ \A m \in Objects : m # l => kept'[m] = kept[m]
  BY DEF Inv, Types
<1>3. Types' /\ References'
  BY <1>1, <1>2, ReferencesStep DEF Inv, Types
<1>4. \A m \in Objects : WaitsFor(m)' <=> WaitsFor(m)
  BY DEF WaitsFor
<1>5. Alive' = Alive /\ Alive \subseteq Objects
  BY DEF Alive
<1>6. OwnWait' /\ Owns'
  BY <1>4, <1>5 DEF Inv, OwnWait, Owns
<1>7. Counted'
  <2>1. l \notin misused =>
          count[l] = kept[l] + Cardinality(FramesOf(t, l))
                     + (IF WaitsFor(l) THEN 1 ELSE 0)
    BY <1>1 DEF Inv, Counted
  <2>2. l \notin misused' =>
          count'[l] = kept'[l] + Cardinality(FramesOf(t, l)')
                      + (IF WaitsFor(l)' THEN 1 ELSE 0)
    BY <1>1, <1>2, <1>4, <2>1
  <2> QED
    BY <1>1, <1>2, <1>4, <2>2, CountedStep
<1> QED
  BY <1>1, <1>3, <1>6, <1>7 DEF Inv

\* The body of a call or a pcall returns.
LEMMA BodyReturnsStep ==
  ASSUME Inv, NEW t \in Threads, BodyReturns(t) PROVE Inv'
<1>1. InBody(t) /\ Pop(t) /\ Disabled(Top(t).lock)
      /\ UNCHANGED <<thread, counter, waits, kept>>
  BY DEF BodyReturns, objectVars
<1>2. PICK l \in Objects : l = Top(t).lock
  BY <1>1, TopLock
<1> QED
  BY <1>1, <1>2, BodyDisablesStep

\* The body of a call or a pcall raises an error.
LEMMA BodyFailsStep ==
  ASSUME Inv, NEW t \in Threads, BodyFails(t) PROVE Inv'
<1>1. InBody(t) /\ Pop(t) /\ UNCHANGED <<thread, counter, waits>>
  BY DEF BodyFails, objectVars
<1>2. PICK l \in Objects : l = Top(t).lock
  BY <1>1, TopLock
<1>3. CASE Disabled(l) /\ UNCHANGED kept
  BY <1>1, <1>2, <1>3, BodyDisablesStep
<1>4. CASE kept' = [kept EXCEPT ![l] = @ + 1] /\ UNCHANGED <<count, owner, misused>>
  BY <1>1, <1>2, <1>4, BodyLeavesStep
<1> QED
  BY <1>2, <1>3, <1>4 DEF BodyFails

-----------------------------------------------------------------------------

\* No lock is held at the start.
LEMMA InitInv == Init => Inv
<1> SUFFICES ASSUME Init PROVE Inv
  OBVIOUS
<1> USE LockAssumption DEF Init
<1>1. Types
  BY DEF Types
<1>2. Alive = {}
  BY DEF Alive
<1>3. References
  BY <1>2, FS_EmptySet DEF References
<1>4. OwnFrames /\ OwnWait
  BY DEF OwnFrames, OwnWait
<1>5. Owns
  BY <1>2 DEF Owns
<1>6. Counted
  BY DEF Counted
<1> QED
  BY <1>1, <1>3, <1>4, <1>5, <1>6 DEF Inv

\* Every step keeps the invariant.
LEMMA NextInv == Inv /\ [Next]_vars => Inv'
<1> SUFFICES ASSUME Inv, [Next]_vars PROVE Inv'
  OBVIOUS
<1>1. CASE UNCHANGED vars
  BY <1>1 DEF vars, objectVars, scriptVars, Inv, Types, References, OwnFrames,
              OwnWait, Owns, Counted, Alive, WaitsFor, FramesOf
<1>2. ASSUME NEW t \in Threads, NEW l \in Objects, New(t, l) PROVE Inv'
  BY <1>2, NewStep
<1>3. ASSUME NEW t \in Threads, NEW l \in Objects, Gc(t, l) PROVE Inv'
  BY <1>3, GcStep
<1>4. ASSUME NEW t \in Threads, NEW l \in Objects, NEW kind \in Kinds,
             Enable(t, l, kind)
      PROVE  Inv'
  BY <1>4, EnableNestedStep, EnableLocksStep DEF Enable
<1>5. ASSUME NEW t \in Threads, NEW l \in Objects, EnableRefused(t, l) PROVE Inv'
  BY <1>5, EnableRefusedStep
<1>6. ASSUME NEW t \in Threads, NEW l \in Objects, Disable(t, l) PROVE Inv'
  BY <1>6, DisableStep
<1>7. ASSUME NEW t \in Threads, Acquire(t) PROVE Inv'
  BY <1>7, AcquireStep
<1>8. ASSUME NEW t \in Threads, BodyReturns(t) PROVE Inv'
  BY <1>8, BodyReturnsStep
<1>9. ASSUME NEW t \in Threads, BodyFails(t) PROVE Inv'
  BY <1>9, BodyFailsStep
<1> QED
  BY <1>1, <1>2, <1>3, <1>4, <1>5, <1>6, <1>7, <1>8, <1>9 DEF Next

\* A script that is inside and an object whose script waits: the count is 1 for
\* the wait, so nobody is inside.  Any other object with a script inside has a
\* positive count, and with it the mutex.
LEMMA InvProtected == Inv => Protected
<1> SUFFICES ASSUME Inv, NEW l \in Alive \ misused, Depth(l) >= 1 PROVE owner = l
  BY DEF Protected
<1>1. PICK t \in Threads : thread[l] = t
  BY DEF Inv, Types, Alive
<1>2. l \in Objects \ misused /\ l \in Alive
  BY DEF Alive
<1>3. Cardinality(FramesOf(t, l)) \in Nat /\ kept[l] \in Int /\ count[l] \in Int
  BY <1>2, FramesFinite DEF Inv, Types
<1>4. kept[l] + Cardinality(FramesOf(t, l)) >= 1
  BY <1>1, <1>2 DEF Depth
<1>5. count[l] = kept[l] + Cardinality(FramesOf(t, l)) + (IF WaitsFor(l) THEN 1 ELSE 0)
  BY <1>1, <1>2 DEF Inv, Counted
<1>6. WaitsFor(l) => count[l] = 1
  BY DEF Inv, OwnWait, WaitsFor
<1>7. count[l] >= 1 /\ ~WaitsFor(l)
  BY <1>3, <1>4, <1>5, <1>6
<1> QED
  BY <1>2, <1>7 DEF Inv, Owns

\* In every behaviour a script that an object without errors has let in has the
\* mutex of the name: Lock::call, pcall and enable exclude the scripts of all
\* other threads and objects, for any number of each.
THEOREM ProtectedHolds == Spec => []Protected
<1>1. Spec => []Inv
  BY InitInv, NextInv, PTL DEF Spec
<1> QED
  BY <1>1, InvProtected, PTL

-----------------------------------------------------------------------------
(* The services: like a lock, a reference to a file is to have one holder. *)
(* Module Service is instantiated under the name S.                        *)
(*                                                                         *)
(* That a scan does not start a second service for a file rests on what it *)
(* saw: as long as nobody else starts one for that file, the reference it  *)
(* missed stays missing (LooksHold), and a file without a reference has no *)
(* service (Referenced), since Erase takes the reference of a file whose   *)
(* only service is the one that leaves (OneSlot).                          *)

CONSTANTS Files, FirstFiles, Slots, Main, MaxVersion, MaxEvents, MaxStarts
VARIABLES files, events, starts, version, sVersion, references, loaded, pc, file,
          mVersion, mStop, list, found, outdated, doubled, unseen

S == INSTANCE Service

\* Where run() of a slot can be.
SlotPlaces == {"free", "queued", "script", "check", "find", "scan", "sleep", "erase"}

ServiceTypes ==
  /\ pc \in [S!Scanners -> SlotPlaces \cup {"load", "over"}]
  /\ file \in [Slots -> Files \cup {None}]
  /\ found \in [S!Scanners -> Files \cup {None}]
  /\ list \in [S!Scanners -> SUBSET Files]
  /\ files \subseteq Files /\ references \subseteq Files /\ doubled \subseteq Files

\* Slot s is a service of f.
Serves(s, f) == pc[s] # "free" /\ file[s] = f

OneSlot ==
  \A f \in Files \ doubled : \A s, t \in Slots : Serves(s, f) /\ Serves(t, f) => s = t
Referenced ==
  \A f \in Files \ doubled : \A s \in Slots : Serves(s, f) => f \in references

\* A file that a scan has found has no reference until somebody else starts it.
LooksHold ==
  \A p \in S!Scanners : found[p] # None /\ p \notin outdated => found[p] \notin references

ServiceInv == ServiceTypes /\ OneSlot /\ Referenced /\ LooksHold

\* OneService follows: a set whose members are equal has one at most.
LEMMA ServiceInvIsOneService ==
  ServiceInv => S!OneService
<1> SUFFICES ASSUME ServiceInv, NEW f \in Files \ doubled
             PROVE  /\ S!Cardinality(S!ServicesOf(f)) <= 1
                    /\ S!ServicesOf(f) # {} => f \in references
  BY DEF S!OneService
<1>1. S!ServicesOf(f) = {s \in Slots : Serves(s, f)}
  BY DEF S!ServicesOf, S!Free, Serves
<1>2. S!ServicesOf(f) # {} => f \in references
  BY <1>1 DEF ServiceInv, Referenced
<1>3. S!Cardinality(S!ServicesOf(f)) = Cardinality(S!ServicesOf(f))
  BY DEF S!Cardinality, Cardinality
<1>4. CASE S!ServicesOf(f) = {}
  BY <1>2, <1>3, <1>4, FS_EmptySet
<1>5. CASE S!ServicesOf(f) # {}
  <2>1. PICK s \in S!ServicesOf(f) : TRUE
    BY <1>5
  <2>2. S!ServicesOf(f) = {s}
    BY <1>1, <2>1 DEF ServiceInv, OneSlot
  <2>3. Cardinality({s}) = 1
    BY FS_Singleton
  <2> QED
    BY <1>2, <1>3, <2>2, <2>3
<1> QED
  BY <1>4, <1>5

\* Nothing runs at the start.
LEMMA ServiceInit ==
  ASSUME S!ServiceAssumption
  PROVE  S!Init => ServiceInv
<1>1. FirstFiles \subseteq Files /\ Main \notin Slots
  BY DEF S!ServiceAssumption
<1> SUFFICES ASSUME S!Init PROVE ServiceInv
  OBVIOUS
<1>2. ServiceTypes
  BY <1>1 DEF ServiceTypes, S!Init, S!Scanners, SlotPlaces
<1>3. \A s \in Slots : pc[s] = "free"
  BY <1>1 DEF S!Init, S!Scanners
<1> QED
  BY <1>2, <1>3 DEF ServiceInv, OneSlot, Referenced, LooksHold, Serves, S!Init

\* service::start, from Lua or from a scan, of a file that has no service or is
\* known to be doubled; the scans that have found it become outdated.
LEMMA StartServiceStep ==
  ASSUME ServiceInv, NEW f \in Files, S!StartService(f),
         found' \in [S!Scanners -> Files \cup {None}],
         UNCHANGED <<files, list>>,
         doubled \subseteq doubled', doubled' \subseteq Files,
         f \notin doubled' => \A t \in Slots : ~Serves(t, f),
         \A p \in S!Scanners : p \notin outdated' /\ found'[p] # None
           => p \notin outdated /\ found'[p] = found[p] /\ found[p] # f
  PROVE  ServiceInv'
<1>1. PICK s \in S!Free :
        /\ references' = references \cup {f}
        /\ pc' = [pc EXCEPT ![s] = "queued"] /\ file' = [file EXCEPT ![s] = f]
  BY DEF S!StartService
<1>2. s \in Slots /\ pc[s] = "free" /\ s \in S!Scanners
  BY DEF S!Free, S!Scanners
<1>3. ServiceTypes'
  BY <1>1, <1>2 DEF ServiceInv, ServiceTypes, SlotPlaces
<1>4. \A t \in Slots : t # s => (pc'[t] = pc[t] /\ file'[t] = file[t])
  BY <1>1, <1>2 DEF ServiceInv, ServiceTypes
<1>5. pc'[s] = "queued" /\ file'[s] = f
  BY <1>1, <1>2 DEF ServiceInv, ServiceTypes
<1>6. OneSlot'
  BY <1>4, <1>5 DEF ServiceInv, OneSlot, Serves
<1>7. Referenced'
  BY <1>1, <1>4, <1>5 DEF ServiceInv, Referenced, Serves
<1>8. LooksHold'
  BY <1>1 DEF ServiceInv, LooksHold
<1> QED
  BY <1>3, <1>6, <1>7, <1>8 DEF ServiceInv

\* A step in which no slot becomes a service of another file.
LEMMA NoNewService ==
  ASSUME ServiceInv, ServiceTypes', LooksHold', doubled' = doubled,
         references' = references,
         \A s \in Slots : pc'[s] # "free" => (pc[s] # "free" /\ file'[s] = file[s])
  PROVE  ServiceInv'
<1>1. \A s \in Slots : \A f : Serves(s, f)' => Serves(s, f)
  BY DEF Serves
<1>2. OneSlot' /\ Referenced'
  BY <1>1 DEF ServiceInv, OneSlot, Referenced
<1> QED
  BY <1>2 DEF ServiceInv

\* A step that moves one thread, which stays a service if it was one.
LEMMA ThreadMoves ==
  ASSUME ServiceInv, NEW p \in S!Scanners,
         NEW w \in (SlotPlaces \ {"free"}) \cup {"over"}, pc[p] # "free",
         pc' = [pc EXCEPT ![p] = w],
         list' \in [S!Scanners -> SUBSET Files],
         UNCHANGED <<files, file, found, references, outdated, doubled>>
  PROVE  ServiceInv'
<1>1. w # "free"
  BY DEF SlotPlaces
<1>2. ServiceTypes'
  BY DEF ServiceInv, ServiceTypes
<1>3. \A s \in Slots : pc'[s] # "free" => (pc[s] # "free" /\ file'[s] = file[s])
  BY DEF ServiceInv, ServiceTypes, S!Scanners
<1>4. LooksHold'
  BY DEF ServiceInv, LooksHold
<1> QED
  BY <1>2, <1>3, <1>4, NoNewService

\* The steps of a scan.
LEMMA ScanStep ==
  ASSUME ServiceInv, NEW p \in S!Scanners, S!Scan(p)
  PROVE  ServiceInv'
<1> USE DEF S!worldVars, S!slotVars, S!scanVars, S!history
<1>1. CASE S!Find(p)
  <2>1. list' \in [S!Scanners -> SUBSET Files]
    BY <1>1 DEF S!Find, ServiceInv, ServiceTypes
  <2> QED
    BY <1>1, <2>1, ThreadMoves DEF S!Find, S!Goto, SlotPlaces
<1>2. CASE S!Look(p)
  <2>1. PICK g \in list[p] :
          /\ list' = [list EXCEPT ![p] = @ \ {g}]
          /\ found' = [found EXCEPT ![p] = IF g \in references THEN None ELSE g]
    BY <1>2 DEF S!Look
  <2>2. UNCHANGED <<files, references, pc, file, outdated, doubled>>
    BY <1>2 DEF S!Look
  <2>3. g \in Files
    BY DEF ServiceInv, ServiceTypes
  <2>4. ServiceTypes'
    BY <2>1, <2>2, <2>3 DEF ServiceInv, ServiceTypes
  <2>5. LooksHold'
    BY <2>1, <2>2 DEF ServiceInv, ServiceTypes, LooksHold
  <2> QED
    BY <2>2, <2>4, <2>5, NoNewService
<1>3. CASE S!StartFound(p)
  <2>1. found[p] \in Files
    BY <1>3 DEF S!StartFound, ServiceInv, ServiceTypes
  <2>2. found' \in [S!Scanners -> Files \cup {None}]
    BY <1>3 DEF S!StartFound, ServiceInv, ServiceTypes
  <2>3. PICK f \in Files : f = found[p] /\ S!StartService(f)
    BY <1>3, <2>1 DEF S!StartFound
  <2>4. /\ doubled' = IF p \in outdated /\ S!ServicesOf(f) # {} THEN doubled \cup {f} ELSE doubled
        /\ outdated' = (outdated \cup S!Found(f)) \ {p}
        /\ found' = [found EXCEPT ![p] = None] /\ found[p] # None
        /\ UNCHANGED <<files, list>>
    BY <1>3, <2>3 DEF S!StartFound
  <2>5. doubled \subseteq doubled' /\ doubled' \subseteq Files
    BY <2>4 DEF ServiceInv, ServiceTypes
  <2>6. ASSUME f \notin doubled', NEW t \in Slots PROVE ~Serves(t, f)
    <3>1. CASE p \in outdated
      BY <2>4, <2>6, <3>1 DEF S!ServicesOf, S!Free, Serves
    <3>2. CASE p \notin outdated
      <4>1. f \notin references
        BY <2>3, <2>4, <3>2 DEF ServiceInv, LooksHold
      <4> QED
        BY <2>5, <2>6, <4>1 DEF ServiceInv, Referenced
    <3> QED
      BY <3>1, <3>2
  <2>7. ASSUME NEW q \in S!Scanners, q \notin outdated', found'[q] # None
        PROVE  q \notin outdated /\ found'[q] = found[q] /\ found[q] # f
    <3>1. q # p /\ found'[q] = found[q]
      BY <2>4, <2>7 DEF ServiceInv, ServiceTypes
    <3> QED
      BY <2>4, <2>7, <3>1 DEF S!Found
  <2> QED
    BY <2>2, <2>3, <2>4, <2>5, <2>6, <2>7, StartServiceStep
<1>4. CASE S!ScanEnds(p)
  <2>1. PICK w \in {"over", "sleep"} : pc' = [pc EXCEPT ![p] = w]
    BY <1>4 DEF S!ScanEnds, S!Goto
  <2>2. list' \in [S!Scanners -> SUBSET Files]
    BY <1>4 DEF S!ScanEnds, ServiceInv, ServiceTypes
  <2> QED
    BY <1>4, <2>1, <2>2, ThreadMoves DEF S!ScanEnds, SlotPlaces
<1> QED
  BY <1>1, <1>2, <1>3, <1>4 DEF S!Scan

\* run() of a service returns.
LEMMA LeaveStep ==
  ASSUME ServiceInv, NEW s \in Slots, S!Leave(s),
         references' \in {references, references \ {file[s]}},
         pc[s] # "free", UNCHANGED <<files, list, found, outdated, doubled>>
  PROVE  ServiceInv'
<1>1. /\ pc' = [pc EXCEPT ![s] = "free"] /\ file' = [file EXCEPT ![s] = None]
      /\ s \in S!Scanners
  BY DEF S!Leave, S!Goto, S!Scanners
<1>2. ServiceTypes'
  BY <1>1 DEF ServiceInv, ServiceTypes, SlotPlaces
<1>3. pc'[s] = "free" /\ \A t \in Slots : t # s => (pc'[t] = pc[t] /\ file'[t] = file[t])
  BY <1>1 DEF ServiceInv, ServiceTypes
<1>4. OneSlot'
  BY <1>3 DEF ServiceInv, OneSlot, Serves
<1>5. ASSUME NEW f \in Files \ doubled, NEW t \in Slots, Serves(t, f)'
      PROVE  f \in references'
  <2>1. t # s /\ Serves(t, f)
    BY <1>3, <1>5 DEF Serves
  <2>2. f # file[s] /\ f \in references
    BY <2>1 DEF ServiceInv, OneSlot, Referenced, Serves
  <2> QED
    BY <2>2
<1>6. LooksHold'
  BY DEF ServiceInv, LooksHold
<1> QED
  BY <1>2, <1>4, <1>5, <1>6 DEF ServiceInv, Referenced

\* The steps of run() of a service.
LEMMA RunServiceStep ==
  ASSUME ServiceInv, NEW s \in Slots,
         S!ScriptReturns(s) \/ S!Run(s)
  PROVE  ServiceInv'
<1> USE DEF S!worldVars, S!slotVars, S!scanVars, S!history
<1>1. s \in S!Scanners /\ list \in [S!Scanners -> SUBSET Files]
  BY DEF S!Scanners, ServiceInv, ServiceTypes
<1>2. CASE S!ScriptReturns(s)
  BY <1>1, <1>2, ThreadMoves DEF S!ScriptReturns, S!Goto, SlotPlaces
<1>3. CASE S!Begin(s)
  <2>1. CASE mStop[s]
    BY <1>3, <2>1, LeaveStep DEF S!Begin
  <2>2. CASE ~mStop[s]
    BY <1>1, <1>3, <2>2, ThreadMoves DEF S!Begin, S!Goto, SlotPlaces
  <2> QED
    BY <2>1, <2>2
<1>4. CASE S!CheckReload(s)
  <2>1. PICK w \in {"find", "sleep"} : pc' = [pc EXCEPT ![s] = w]
    BY <1>4 DEF S!CheckReload, S!Goto
  <2> QED
    BY <1>1, <1>4, <2>1, ThreadMoves DEF S!CheckReload, SlotPlaces
<1>5. CASE S!Restart(s)
  BY <1>1, <1>5, ThreadMoves DEF S!Restart, S!Goto, SlotPlaces
<1>6. CASE S!Gone(s)
  BY <1>1, <1>6, ThreadMoves DEF S!Gone, S!Goto, SlotPlaces
<1>7. CASE S!Erase(s)
  BY <1>7, LeaveStep DEF S!Erase
<1> QED
  BY <1>2, <1>3, <1>4, <1>5, <1>6, <1>7 DEF S!Run

\* Every step keeps the invariant.
LEMMA ServiceNext ==
  ServiceInv /\ [S!Next]_(S!vars) => ServiceInv'
<1> SUFFICES ASSUME ServiceInv, [S!Next]_(S!vars) PROVE ServiceInv'
  OBVIOUS
<1> USE DEF S!worldVars, S!slotVars, S!scanVars, S!history
<1>1. CASE UNCHANGED S!vars
  <2>1. ServiceTypes'
    BY <1>1 DEF ServiceInv, ServiceTypes, S!vars
  <2>2. LooksHold'
    BY <1>1 DEF ServiceInv, LooksHold, S!vars
  <2> QED
    BY <1>1, <2>1, <2>2, NoNewService DEF S!vars
<1>2. CASE S!Change
  <2>1. /\ files' \subseteq Files
        /\ UNCHANGED <<references, pc, file, list, found, outdated, doubled>>
    BY <1>2 DEF S!Change, ServiceInv, ServiceTypes
  <2>2. ServiceTypes'
    BY <2>1 DEF ServiceInv, ServiceTypes
  <2>3. LooksHold'
    BY <2>1 DEF ServiceInv, LooksHold
  <2> QED
    BY <2>1, <2>2, <2>3, NoNewService
<1>3. CASE S!Bump
  <2>1. ServiceTypes'
    BY <1>3 DEF S!Bump, ServiceInv, ServiceTypes
  <2>2. LooksHold'
    BY <1>3 DEF S!Bump, ServiceInv, LooksHold
  <2> QED
    BY <1>3, <2>1, <2>2, NoNewService DEF S!Bump
<1>4. CASE S!Load
  <2>1. Main \in S!Scanners /\ list \in [S!Scanners -> SUBSET Files]
    BY DEF S!Scanners, ServiceInv, ServiceTypes
  <2> QED
    BY <1>4, <2>1, ThreadMoves DEF S!Load, S!Goto, SlotPlaces
<1>5. ASSUME NEW f \in Files, S!LuaStart(f) PROVE ServiceInv'
  <2>1. found' \in [S!Scanners -> Files \cup {None}]
    BY <1>5 DEF S!LuaStart, ServiceInv, ServiceTypes
  <2>2. /\ doubled' = IF S!ServicesOf(f) # {} THEN doubled \cup {f} ELSE doubled
        /\ outdated' = outdated \cup S!Found(f)
        /\ found' = found /\ S!StartService(f) /\ UNCHANGED <<files, list>>
    BY <1>5 DEF S!LuaStart
  <2>3. doubled \subseteq doubled' /\ doubled' \subseteq Files
    BY <2>2 DEF ServiceInv, ServiceTypes
  <2>4. f \notin doubled' => \A t \in Slots : ~Serves(t, f)
    BY <2>2 DEF S!ServicesOf, S!Free, Serves
  <2>5. \A p \in S!Scanners : p \notin outdated' /\ found'[p] # None
          => p \notin outdated /\ found'[p] = found[p] /\ found[p] # f
    BY <2>2 DEF S!Found
  <2> QED
    BY <2>1, <2>2, <2>3, <2>4, <2>5, StartServiceStep
<1>6. ASSUME NEW p \in S!Scanners, S!Scan(p) PROVE ServiceInv'
  BY <1>6, ScanStep
<1>7. ASSUME NEW s \in Slots, S!ScriptReturns(s) \/ S!Run(s) PROVE ServiceInv'
  BY <1>7, RunServiceStep
<1> QED
  BY <1>1, <1>2, <1>3, <1>4, <1>5, <1>6, <1>7 DEF S!Next

\* A file has one service at most and keeps its reference as long as it has
\* one, for any number of scans, restarts, reloads and files that come and go
\* (service.cpp: start, run, reload).  Only two things give a file a second
\* one: a call of service.start for a file that has one, and a scan between
\* whose look and start somebody else started the file.
THEOREM OneServiceHolds ==
  ASSUME S!ServiceAssumption
  PROVE  S!Spec => []S!OneService
BY ServiceInit, ServiceNext, ServiceInvIsOneService, PTL DEF S!Spec
=============================================================================
