----------------------------- MODULE CoreProofs -----------------------------
(***************************************************************************)
(* Proofs about the thread pool, for every number of tasks and threads:    *)
(* its counter is exact, objects are deleted once nobody refers to them,   *)
(* no wake-up is lost and no task waits needlessly, shutdown drains the    *)
(* pool, and the pool implements TaskPool.                                 *)
(***************************************************************************)
EXTENDS Core, TLAPS, FiniteSetTheorems, SequenceTheorems, FunctionTheorems,
        WellFoundedInduction

\* The thread start spawns exists: a pool that may grow is below MaxThreads.
LEMMA SpawnBound ==
  ASSUME TypeOK, NeedsThread PROVE workers + 1 \in Threads
BY MaxAssumption DEF TypeOK, NeedsThread, Threads

\* The program counters core::start leaves behind are well typed.
LEMMA NotifyType ==
  ASSUME TypeOK, NEW p \in [Threads -> Labels],
         NotifyOne(p)
  PROVE  pc' \in [Threads -> Labels]
BY DEF NotifyOne, Blocked, Labels

\* Type correctness of the pool.
THEOREM TypeCorrect == Spec => []TypeOK
<1>1. Init => TypeOK
  BY MaxAssumption DEF Init, TypeOK, Threads, Events, Labels
<1>2. TypeOK /\ [Next]_vars => TypeOK'
  <2> SUFFICES ASSUME TypeOK, [Next]_vars PROVE TypeOK'
    OBVIOUS
  <2> USE MaxAssumption, TasksAssumption DEF Labels
  <2>1. ASSUME NEW t \in Tasks, Start(t) PROVE TypeOK'
    <3>1. Spawned \in [Threads -> Labels]
      BY SpawnBound DEF Spawned, TypeOK
    <3>2. pc' \in [Threads -> Labels]
      BY <2>1, <3>1, NotifyType DEF Start
    <3>3. workers' \in 0..MaxThreads
      BY <2>1 DEF Start, TypeOK, NeedsThread
    <3> QED
      BY <2>1, <3>2, <3>3 DEF Start, TypeOK, Record, Events
  <2>2. ASSUME NEW m \in MaxValues, SetMax(m) PROVE TypeOK'
    BY <2>2 DEF SetMax, TypeOK, Record, Events, threadVars
  <2>3. ASSUME NEW th \in Threads, GetFront(th) PROVE TypeOK'
    <3>1. Head(queue) \in Tasks \cup {None} /\ Tail(queue) \in Seq(Tasks \cup {None})
      BY <2>3 DEF GetFront, TypeOK
    <3>2. CASE Head(queue) = None
      BY <2>3, <3>1, <3>2 DEF GetFront, TypeOK, mainVars
    <3>3. CASE Head(queue) # None
      <4>1. Head(queue) \in Tasks
        BY <3>1, <3>3
      <4>2. /\ waiting' = waiting \ {Head(queue)}
            /\ running' = [running EXCEPT ![th] = Head(queue)]
            /\ pc' = [pc EXCEPT ![th] = "run"]
            /\ hand' = [hand EXCEPT ![th] = Head(queue)]
            /\ life' = [life EXCEPT ![Head(queue)] = "taken"]
        BY <2>3, <3>3 DEF GetFront
      <4>3. /\ waiting' \subseteq Tasks
            /\ running' \in [Threads -> Tasks \cup {None}]
            /\ pc' \in [Threads -> Labels]
            /\ hand' \in [Threads -> Tasks \cup {None}]
        BY <4>1, <4>2 DEF TypeOK
      <4>4. life' \in [Tasks -> {"new", "queued", "taken", "deleted"}]
        BY <4>1, <4>2 DEF TypeOK
      <4> QED
        BY <2>3, <3>1, <4>3, <4>4 DEF GetFront, TypeOK, mainVars
    <3> QED
      BY <3>2, <3>3
  <2>4. ASSUME NEW th \in Threads, GetEmpty(th) PROVE TypeOK'
    BY <2>4 DEF GetEmpty, TypeOK, mainVars
  <2>5. ASSUME NEW th \in Threads, Block(th) PROVE TypeOK'
    BY <2>5 DEF Block, TypeOK, mainVars
  <2>6. ASSUME NEW th \in Threads, SpuriousWake(th) PROVE TypeOK'
    BY <2>6 DEF SpuriousWake, TypeOK, mainVars, poolVars
  <2>7. ASSUME NEW th \in Threads, RunReturns(th) PROVE TypeOK'
    BY <2>7 DEF RunReturns, TypeOK, mainVars, poolVars
  <2>8. ASSUME NEW th \in Threads, Finish(th) PROVE TypeOK'
    BY <2>8 DEF Finish, TypeOK, mainVars
  <2>9. ASSUME NEW th \in Threads, Delete(th) PROVE TypeOK'
    BY <2>9 DEF Delete, TypeOK, mainVars, poolVars
  <2>10. ASSUME NEW th \in Threads, Exit(th) PROVE TypeOK'
    BY <2>10 DEF Exit, TypeOK, mainVars
  <2>11. CASE Shutdown
    BY <2>11 DEF Shutdown, TypeOK, poolVars, threadVars
  <2>12. CASE PushPill
    BY <2>12 DEF PushPill, TypeOK, threadVars
  <2>13. CASE CountPill
    BY <2>13 DEF CountPill, TypeOK, threadVars
  <2>14. CASE NotifyPill
    <3>1. pc' \in [Threads -> Labels]
      BY <2>14, NotifyType DEF NotifyPill, TypeOK
    <3> QED
      BY <2>14, <3>1 DEF NotifyPill, TypeOK, poolVars, Record, Events
  <2>15. CASE PillsPushed
    BY <2>15 DEF PillsPushed, TypeOK, poolVars, threadVars
  <2>16. CASE Drained
    BY <2>16 DEF Drained, TypeOK, poolVars, threadVars
  <2>17. CASE UNCHANGED vars
    BY <2>17 DEF vars, poolVars, threadVars, mainVars, TypeOK
  <2> QED
    BY <2>1, <2>2, <2>3, <2>4, <2>5, <2>6, <2>7, <2>8, <2>9, <2>10, <2>11,
       <2>12, <2>13, <2>14, <2>15, <2>16, <2>17
    DEF Next, Working, ShutdownStep
<1> QED
  BY <1>1, <1>2, PTL DEF Spec

-----------------------------------------------------------------------------

\* The threads of the pool are spawned in order.
SpawnInv == \A th \in Threads : pc[th] = "none" <=> th > workers

\* notify_one moves threads between two labels that are not busy.
LEMMA NotifyBusy ==
  ASSUME TypeOK, NEW p \in [Threads -> Labels],
         \A th \in Threads : pc[th] = "wait" => p[th] = "wait",
         NotifyOne(p)
  PROVE  \A th \in Threads : pc'[th] = p[th]
                             \/ (p[th] = "wait" /\ pc'[th] = "get")
<1>1. CASE Blocked = {}
  BY <1>1 DEF NotifyOne
<1>2. CASE Blocked # {}
  <2>1. PICK woken \in Blocked : pc' = [p EXCEPT ![woken] = "get"]
    BY <1>2 DEF NotifyOne
  <2>2. woken \in Threads /\ p[woken] = "wait"
    BY DEF Blocked
  <2> QED
    BY <2>1, <2>2
<1> QED
  BY <1>1, <1>2

\* Only finitely many threads are busy.
LEMMA BusyFinite ==
  /\ IsFiniteSet(Threads)
  /\ IsFiniteSet(Busy) /\ Cardinality(Busy) \in Nat
<1>1. IsFiniteSet(Threads)
  BY FS_Interval, MaxAssumption DEF Threads
<1>2. Busy \in SUBSET Threads
  BY DEF Busy
<1>3. IsFiniteSet(Busy)
  BY <1>1, <1>2, FS_Subset
<1> QED
  BY <1>1, <1>3, FS_CardinalityType

\* A thread that becomes busy, or stops being busy, changes the count by one.
LEMMA BusyGrows ==
  ASSUME NEW th, th \notin Busy, Busy' = Busy \cup {th}
  PROVE  Cardinality(Busy') = Cardinality(Busy) + 1
BY BusyFinite, FS_AddElement

\* A thread that leaves is no longer counted.
LEMMA BusyShrinks ==
  ASSUME NEW th, th \in Busy, Busy' = Busy \ {th}
  PROVE  Cardinality(Busy') = Cardinality(Busy) - 1
BY BusyFinite, FS_RemoveElement

\* m_actives counts queued and running tasks in every reachable state.
THEOREM AccountingCorrect == Spec => [](SpawnInv /\ Accounting)
<1>1. Init => SpawnInv /\ Accounting
  <2> SUFFICES ASSUME Init PROVE SpawnInv /\ Accounting
    OBVIOUS
  <2>1. SpawnInv
    BY MaxAssumption DEF Init, SpawnInv, Threads
  <2>2. Busy = {}
    BY DEF Init, Busy
  <2> QED
    BY <2>1, <2>2, FS_EmptySet DEF Init, Accounting
<1>2. TypeOK /\ SpawnInv /\ Accounting /\ [Next]_vars => (SpawnInv /\ Accounting)'
  <2> SUFFICES ASSUME TypeOK, SpawnInv, Accounting, [Next]_vars
               PROVE  SpawnInv' /\ Accounting'
    OBVIOUS
  <2> USE MaxAssumption, BusyFinite
  <2>1. ASSUME NEW t \in Tasks, Start(t) PROVE SpawnInv' /\ Accounting'
    <3>1. /\ Spawned \in [Threads -> Labels]
          /\ \A th \in Threads : Spawned[th] =
                IF NeedsThread /\ th = workers + 1 THEN "get" ELSE pc[th]
          /\ NeedsThread => workers + 1 \in Threads /\ pc[workers + 1] = "none"
      BY SpawnBound DEF Spawned, TypeOK, SpawnInv, Labels
    <3>2. \A th \in Threads : pc'[th] = Spawned[th]
                              \/ (Spawned[th] = "wait" /\ pc'[th] = "get")
      BY <2>1, <3>1, NotifyBusy DEF Start
    <3>3. SpawnInv'
      BY <2>1, <3>1, <3>2 DEF Start, SpawnInv, Threads, TypeOK, NeedsThread
    <3>4. Busy' = Busy
      BY <3>1, <3>2 DEF Busy, TypeOK
    <3>5. Len(queue') = Len(queue) + 1
      BY <2>1 DEF Start, TypeOK
    <3> QED
      BY <2>1, <3>3, <3>4, <3>5 DEF Start, Accounting, TypeOK
  <2>2. ASSUME NEW m \in MaxValues, SetMax(m) PROVE SpawnInv' /\ Accounting'
    BY <2>2 DEF SetMax, threadVars, SpawnInv, Accounting, Busy
  <2>3. ASSUME NEW th \in Threads, GetFront(th) PROVE SpawnInv' /\ Accounting'
    <3>1. Len(queue') = Len(queue) - 1 /\ Len(queue) \in Nat /\ Len(queue') \in Nat
      BY <2>3 DEF GetFront, TypeOK
    <3>2. pc[th] = "get" /\ pc' = [pc EXCEPT ![th] = pc'[th]] /\ pc'[th] \in {"run", "pill"}
      BY <2>3 DEF GetFront, TypeOK, At
    <3>3. th \notin Busy /\ Busy' = Busy \cup {th}
      BY <3>2 DEF Busy, TypeOK
    <3>4. Cardinality(Busy') = Cardinality(Busy) + 1
      BY <3>3, BusyGrows
    <3>5. SpawnInv'
      BY <2>3, <3>2 DEF GetFront, SpawnInv, TypeOK
    <3> QED
      BY <2>3, <3>1, <3>4, <3>5 DEF GetFront, Accounting, TypeOK, mainVars
  <2>4. ASSUME NEW th \in Threads,
               \/ GetEmpty(th) \/ Block(th) \/ SpuriousWake(th)
               \/ RunReturns(th) \/ Delete(th)
        PROVE  SpawnInv' /\ Accounting'
    <3>1. /\ queue' = queue /\ actives' = actives /\ main' = main
          /\ workers' = workers
          /\ pc' = [pc EXCEPT ![th] = pc'[th]]
          /\ <<pc[th], pc'[th]>> \in {<<"get", "block">>, <<"block", "wait">>,
               <<"wait", "get">>, <<"run", "finish">>, <<"delete", "get">>}
      BY <2>4 DEF GetEmpty, Block, SpuriousWake, RunReturns, Delete, At,
                  poolVars, mainVars, TypeOK
    <3>2. Busy' = Busy
      BY <3>1 DEF Busy, TypeOK
    <3>3. SpawnInv'
      BY <3>1 DEF SpawnInv, TypeOK
    <3> QED
      BY <3>1, <3>2, <3>3 DEF Accounting
  <2>5. ASSUME NEW th \in Threads, Finish(th) \/ Exit(th)
        PROVE  SpawnInv' /\ Accounting'
    <3>1. /\ queue' = queue /\ actives' = actives - 1 /\ main' = main
          /\ workers' = workers
          /\ pc' = [pc EXCEPT ![th] = pc'[th]]
          /\ pc[th] \in {"finish", "pill"} /\ pc'[th] \in {"delete", "exit"}
      BY <2>5 DEF Finish, Exit, At, mainVars, TypeOK
    <3>2. th \in Busy /\ Busy' = Busy \ {th}
      BY <3>1 DEF Busy, TypeOK
    <3>3. Cardinality(Busy') = Cardinality(Busy) - 1
      BY <3>2, BusyShrinks
    <3>4. SpawnInv'
      BY <3>1 DEF SpawnInv, TypeOK
    <3> QED
      BY <3>1, <3>3, <3>4 DEF Accounting, TypeOK
  <2>6. CASE PushPill
    <3>1. Len(queue') = Len(queue) + 1 /\ Len(queue) \in Nat
      BY <2>6 DEF PushPill, TypeOK
    <3> QED
      BY <2>6, <3>1 DEF PushPill, Accounting, SpawnInv, Busy, threadVars, TypeOK
  <2>7. CASE CountPill
    <3>1. Len(queue) \in Nat
      BY DEF TypeOK
    <3> QED
      BY <2>7, <3>1 DEF CountPill, Accounting, SpawnInv, Busy, threadVars, TypeOK
  <2>8. CASE NotifyPill
    <3>1. \A th \in Threads : pc'[th] = pc[th]
                              \/ (pc[th] = "wait" /\ pc'[th] = "get")
      BY <2>8, NotifyBusy DEF NotifyPill, TypeOK
    <3>2. Busy' = Busy
      BY <3>1 DEF Busy
    <3>3. SpawnInv'
      BY <2>8, <3>1 DEF NotifyPill, SpawnInv, poolVars, TypeOK
    <3> QED
      BY <2>8, <3>2, <3>3 DEF NotifyPill, Accounting, poolVars
  <2>9. CASE Shutdown \/ PillsPushed \/ Drained
    BY <2>9 DEF Shutdown, PillsPushed, Drained, Accounting, SpawnInv, Busy,
                poolVars, threadVars
  <2>10. CASE UNCHANGED vars
    BY <2>10 DEF vars, poolVars, threadVars, mainVars, Accounting, SpawnInv, Busy
  <2> QED
    BY <2>1, <2>2, <2>3, <2>4, <2>5, <2>6, <2>7, <2>8, <2>9, <2>10
    DEF Next, Working, ShutdownStep
<1> QED
  BY <1>1, <1>2, TypeCorrect, PTL DEF Spec

-----------------------------------------------------------------------------

\* The queue holds each queued task once, and waiting lists those tasks.
QueueInv ==
  /\ \A i \in 1..Len(queue) : queue[i] # None => life[queue[i]] = "queued"
  /\ \A i, j \in 1..Len(queue) : queue[i] = queue[j] /\ queue[i] # None => i = j
  /\ \A t \in Tasks : life[t] = "queued" => \E i \in 1..Len(queue) : queue[i] = t
  /\ WaitingIsQueued

\* A taken task is in the hand of one thread, which deletes it after it has
\* finished and has left the running map.
HandInv ==
  /\ \A th \in Threads : hand[th] # None <=> pc[th] \in {"run", "finish", "delete"}
  /\ \A th \in Threads : hand[th] # None => life[hand[th]] = "taken"
  /\ \A a, b \in Threads : a # b /\ hand[a] # None => hand[a] # hand[b]
  /\ \A t \in Tasks : life[t] = "taken" => \E th \in Threads : hand[th] = t
  /\ \A th \in Threads : running[th] =
       IF pc[th] \in {"run", "finish"} THEN hand[th] ELSE None
  /\ \A th \in Threads : pc[th] \in {"finish", "delete"} => finished[hand[th]]
  /\ \A t \in Tasks : life[t] = "deleted" => finished[t]

\* After core::shutdown nothing is queued and nobody is busy, for good.
DoneInv == main = "done" => queue = <<>> /\ Busy = {}

\* Every step keeps what is said of the queue.
LEMMA QueueInvStep ==
  ASSUME TypeOK, QueueInv, HandInv, [Next]_vars PROVE QueueInv'
<1> USE TasksAssumption DEF QueueInv, WaitingIsQueued
<1>1. ASSUME NEW t \in Tasks, Start(t) PROVE QueueInv'
  <2>1. /\ queue' = Append(queue, t) /\ life[t] = "new"
        /\ life' = [life EXCEPT ![t] = "queued"] /\ waiting' = waiting \cup {t}
    BY <1>1 DEF Start
  <2>2. /\ Len(queue) \in Nat /\ Len(queue') = Len(queue) + 1
        /\ \A i \in 1..Len(queue) : queue'[i] = queue[i]
        /\ queue'[Len(queue) + 1] = t
    BY <2>1 DEF TypeOK
  <2>3. \A i \in 1..Len(queue) : queue[i] # t
    BY <2>1
  <2>4. \A i \in 1..Len(queue) : queue[i] \in Tasks \cup {None}
    BY DEF TypeOK
  <2>5. \A i \in 1..Len(queue') : queue'[i] # None => life'[queue'[i]] = "queued"
    BY <2>1, <2>2, <2>4 DEF TypeOK
  <2>6. \A i, j \in 1..Len(queue') : queue'[i] = queue'[j] /\ queue'[i] # None => i = j
    BY <2>1, <2>2, <2>3
  <2>7. \A u \in Tasks : life'[u] = "queued" => \E i \in 1..Len(queue') : queue'[i] = u
    <3> SUFFICES ASSUME NEW u \in Tasks, life'[u] = "queued"
                 PROVE  \E i \in 1..Len(queue') : queue'[i] = u
      OBVIOUS
    <3>1. CASE u = t
      BY <2>2, <3>1
    <3>2. CASE u # t
      BY <2>1, <2>2, <3>2 DEF TypeOK
    <3> QED
      BY <3>1, <3>2
  <2>8. waiting' = {u \in Tasks : life'[u] = "queued"}
    BY <2>1 DEF TypeOK
  <2> QED
    BY <2>5, <2>6, <2>7, <2>8
<1>2. ASSUME NEW th \in Threads, GetFront(th) PROVE QueueInv'
  <2> DEFINE front == Head(queue)
  <2>1. /\ queue # <<>> /\ queue' = Tail(queue)
    BY <1>2 DEF GetFront
  <2>2. /\ Len(queue) \in Nat /\ Len(queue) > 0 /\ Len(queue') = Len(queue) - 1
        /\ \A i \in 1..Len(queue') : queue'[i] = queue[i + 1]
        /\ front = queue[1]
        /\ \A i \in 1..Len(queue) : queue[i] \in Tasks \cup {None}
    BY <2>1 DEF TypeOK
  <2>3. \A i \in 1..Len(queue') : i + 1 \in 1..Len(queue) /\ queue'[i] = queue[i + 1]
    BY <2>2
  <2>4. \A i, j \in 1..Len(queue') : queue'[i] = queue'[j] /\ queue'[i] # None => i = j
    <3> SUFFICES ASSUME NEW i \in 1..Len(queue'), NEW j \in 1..Len(queue'),
                        queue'[i] = queue'[j], queue'[i] # None
                 PROVE  i = j
      OBVIOUS
    <3>1. i + 1 = j + 1
      BY <2>3
    <3> QED
      BY <3>1, <2>2
  <2>5. CASE front = None
    <3>1. life' = life /\ waiting' = waiting
      BY <1>2, <2>5 DEF GetFront
    <3>2. \A t \in Tasks : life[t] = "queued" => \E i \in 1..Len(queue') : queue'[i] = t
      <4> SUFFICES ASSUME NEW t \in Tasks, life[t] = "queued"
                   PROVE  \E i \in 1..Len(queue') : queue'[i] = t
        OBVIOUS
      <4>1. PICK k \in 1..Len(queue) : queue[k] = t
        OBVIOUS
      <4>2. k # 1
        BY <4>1, <2>2, <2>5
      <4>3. k - 1 \in 1..Len(queue') /\ queue'[k - 1] = t
        BY <4>1, <4>2, <2>2
      <4> QED
        BY <4>3
    <3>3. \A i \in 1..Len(queue') : queue'[i] # None => life[queue'[i]] = "queued"
      BY <2>3
    <3> QED
      BY <2>4, <3>1, <3>2, <3>3
  <2>6. CASE front # None
    <3>1. front \in Tasks
      BY <2>2, <2>6
    <3>2. life' = [life EXCEPT ![front] = "taken"] /\ waiting' = waiting \ {front}
      BY <1>2, <2>6 DEF GetFront
    <3>3. \A i \in 1..Len(queue') : queue'[i] # front
      <4> SUFFICES ASSUME NEW i \in 1..Len(queue'), queue'[i] = front PROVE FALSE
        OBVIOUS
      <4>1. i + 1 = 1
        BY <2>2, <2>3, <2>6
      <4> QED
        BY <4>1, <2>2
    <3>4. \A t \in Tasks : life'[t] = IF t = front THEN "taken" ELSE life[t]
      BY <3>2 DEF TypeOK
    <3>5. \A t \in Tasks : life'[t] = "queued" => \E i \in 1..Len(queue') : queue'[i] = t
      <4> SUFFICES ASSUME NEW t \in Tasks, life'[t] = "queued"
                   PROVE  \E i \in 1..Len(queue') : queue'[i] = t
        OBVIOUS
      <4>1. t # front /\ life[t] = "queued"
        BY <3>4
      <4>2. PICK k \in 1..Len(queue) : queue[k] = t
        BY <4>1
      <4>3. k # 1
        BY <4>1, <4>2, <2>2
      <4>4. k - 1 \in 1..Len(queue') /\ queue'[k - 1] = t
        BY <4>2, <4>3, <2>2
      <4> QED
        BY <4>4
    <3>6. \A i \in 1..Len(queue') : queue'[i] # None => life'[queue'[i]] = "queued"
      BY <2>2, <2>3, <3>3, <3>4
    <3>7. waiting' = {t \in Tasks : life'[t] = "queued"}
      BY <3>1, <3>2, <3>4
    <3> QED
      BY <2>4, <3>5, <3>6, <3>7
  <2> QED
    BY <2>5, <2>6
<1>3. ASSUME NEW th \in Threads, Delete(th) PROVE QueueInv'
  <2>1. hand[th] \in Tasks /\ life[hand[th]] = "taken"
    BY <1>3 DEF Delete, At, HandInv, TypeOK
  <2>2. /\ queue' = queue /\ waiting' = waiting
        /\ \A t \in Tasks : life'[t] = IF t = hand[th] THEN "deleted" ELSE life[t]
    BY <1>3, <2>1 DEF Delete, poolVars, TypeOK
  <2>3. \A i \in 1..Len(queue) : queue[i] \in Tasks \cup {None}
    BY DEF TypeOK
  <2> QED
    BY <2>1, <2>2, <2>3
<1>4. CASE PushPill
  <2>1. /\ queue' = Append(queue, None) /\ life' = life /\ waiting' = waiting
    BY <1>4 DEF PushPill, threadVars
  <2>2. /\ Len(queue) \in Nat /\ Len(queue') = Len(queue) + 1
        /\ \A i \in 1..Len(queue) : queue'[i] = queue[i]
        /\ queue'[Len(queue) + 1] = None
    BY <2>1 DEF TypeOK
  <2> QED
    BY <2>1, <2>2
<1>5. CASE UNCHANGED <<queue, life, waiting>>
  BY <1>5
<1> QED
  BY <1>1, <1>2, <1>3, <1>4, <1>5
  DEF Next, Working, ShutdownStep, SetMax, GetEmpty, Block, SpuriousWake,
      RunReturns, Finish, Exit, Shutdown, CountPill, NotifyPill, PillsPushed,
      Drained, vars, poolVars, threadVars

\* Every step keeps what is said of the objects in hand.
LEMMA HandInvStep ==
  ASSUME TypeOK, SpawnInv, QueueInv, HandInv, [Next]_vars PROVE HandInv'
<1> USE TasksAssumption DEF HandInv
<1>1. ASSUME NEW p \in [Threads -> Labels],
             \A th \in Threads : p[th] = pc[th]
                                 \/ (pc[th] = "none" /\ p[th] = "get"),
             NotifyOne(p), UNCHANGED <<hand, running, finished>>,
             \/ life' = life
             \/ \E t \in Tasks : life[t] = "new" /\ life' = [life EXCEPT ![t] = "queued"]
      PROVE  HandInv'
  <2>1. \A th \in Threads : \/ pc'[th] = p[th]
                            \/ (p[th] = "wait" /\ pc'[th] = "get")
    BY <1>1, NotifyBusy
  <2>2. \A th \in Threads :
          pc'[th] = pc[th] \/ (pc[th] \in {"none", "wait"} /\ pc'[th] = "get")
    BY <1>1, <2>1
  <2>3. \A t \in Tasks : \/ life'[t] = life[t]
                         \/ (life[t] = "new" /\ life'[t] = "queued")
    BY <1>1 DEF TypeOK
  <2>4. \A th \in Threads : hand[th] # None => hand[th] \in Tasks
    BY DEF TypeOK
  <2> QED
    BY <1>1, <2>2, <2>3, <2>4
<1>2. ASSUME NEW t \in Tasks, Start(t) PROVE HandInv'
  <2>1. Spawned \in [Threads -> Labels]
    BY SpawnBound DEF Spawned, TypeOK, Labels
  <2>2. \A th \in Threads : Spawned[th] = pc[th]
                            \/ (pc[th] = "none" /\ Spawned[th] = "get")
    BY SpawnBound DEF Spawned, TypeOK, SpawnInv
  <2> QED
    BY <1>1, <1>2, <2>1, <2>2 DEF Start
<1>3. CASE NotifyPill
  BY <1>1, <1>3 DEF NotifyPill, poolVars, TypeOK
<1>4. ASSUME NEW th \in Threads, GetFront(th) PROVE HandInv'
  <2>1. CASE Head(queue) = None
    <3>1. pc[th] = "get" /\ hand[th] = None
      BY <1>4 DEF GetFront, At
    <3>2. /\ pc' = [pc EXCEPT ![th] = "pill"] /\ hand' = [hand EXCEPT ![th] = None]
          /\ UNCHANGED <<life, running, finished>>
      BY <1>4, <2>1 DEF GetFront
    <3>3. hand' = hand
      BY <3>1, <3>2 DEF TypeOK
    <3> QED
      BY <3>1, <3>2, <3>3 DEF TypeOK
  <2>2. CASE Head(queue) # None
    <3> DEFINE front == Head(queue)
    <3>1. front \in Tasks /\ life[front] = "queued"
      <4>1. queue # <<>> /\ front = queue[1] /\ 1 \in 1..Len(queue)
        BY <1>4 DEF GetFront, TypeOK
      <4>2. front \in Tasks
        BY <4>1, <2>2 DEF TypeOK
      <4> QED
        BY <4>1, <4>2, <2>2 DEF QueueInv
    <3>2. pc[th] = "get" /\ hand[th] = None
      BY <1>4 DEF GetFront, At
    <3>3. /\ pc' = [pc EXCEPT ![th] = "run"] /\ hand' = [hand EXCEPT ![th] = front]
          /\ running' = [running EXCEPT ![th] = front]
          /\ life' = [life EXCEPT ![front] = "taken"] /\ finished' = finished
      BY <1>4, <2>2 DEF GetFront
    <3> HIDE DEF front
    <3>4. /\ \A x \in Threads : pc'[x] = IF x = th THEN "run" ELSE pc[x]
          /\ \A x \in Threads : hand'[x] = IF x = th THEN front ELSE hand[x]
          /\ \A x \in Threads : running'[x] = IF x = th THEN front ELSE running[x]
          /\ \A t \in Tasks : life'[t] = IF t = front THEN "taken" ELSE life[t]
          /\ \A x \in Threads : hand[x] # None => hand[x] \in Tasks
          /\ front # None
      BY <3>1, <3>3 DEF TypeOK
    <3>5. \A t \in Tasks : life'[t] = "taken" => \E x \in Threads : hand'[x] = t
      BY <3>1, <3>2, <3>4
    <3> QED
      BY <3>1, <3>2, <3>3, <3>4, <3>5
  <2> QED
    BY <2>1, <2>2
<1>5. ASSUME NEW th \in Threads,
             \/ GetEmpty(th) \/ Block(th) \/ SpuriousWake(th) \/ Exit(th)
      PROVE  HandInv'
  <2>1. /\ pc[th] \in {"get", "block", "wait", "pill"}
        /\ \A x \in Threads : pc'[x] = IF x = th THEN pc'[th] ELSE pc[x]
        /\ pc'[th] \in {"block", "wait", "get", "exit"}
        /\ UNCHANGED <<hand, running, life, finished>>
    BY <1>5 DEF GetEmpty, Block, SpuriousWake, Exit, At, poolVars, TypeOK
  <2> QED
    BY <2>1
<1>6. ASSUME NEW th \in Threads, RunReturns(th) PROVE HandInv'
  <2>1. hand[th] \in Tasks
    BY <1>6 DEF RunReturns, At, TypeOK
  <2>2. /\ pc[th] = "run"
        /\ \A x \in Threads : pc'[x] = IF x = th THEN "finish" ELSE pc[x]
        /\ finished'[hand[th]] = TRUE
        /\ \A t \in Tasks : finished[t] => finished'[t]
        /\ \A x \in Threads : hand[x] # None => hand[x] \in Tasks
        /\ UNCHANGED <<hand, running, life>>
    BY <1>6, <2>1 DEF RunReturns, At, poolVars, TypeOK
  <2> QED
    BY <2>1, <2>2
<1>7. ASSUME NEW th \in Threads, Finish(th) PROVE HandInv'
  <2>1. /\ pc[th] = "finish"
        /\ \A x \in Threads : pc'[x] = IF x = th THEN "delete" ELSE pc[x]
        /\ \A x \in Threads : running'[x] = IF x = th THEN None ELSE running[x]
        /\ UNCHANGED <<hand, finished, life>>
    BY <1>7 DEF Finish, At, TypeOK
  <2> QED
    BY <2>1
<1>8. ASSUME NEW th \in Threads, Delete(th) PROVE HandInv'
  <2>1. pc[th] = "delete" /\ hand[th] \in Tasks
    BY <1>8 DEF Delete, At, TypeOK
  <2>2. /\ \A x \in Threads : pc'[x] = IF x = th THEN "get" ELSE pc[x]
        /\ \A x \in Threads : hand'[x] = IF x = th THEN None ELSE hand[x]
        /\ \A t \in Tasks : life'[t] = IF t = hand[th] THEN "deleted" ELSE life[t]
        /\ \A x \in Threads : hand[x] # None => hand[x] \in Tasks
        /\ UNCHANGED <<running, finished>>
    BY <1>8, <2>1 DEF Delete, poolVars, TypeOK
  <2>3. \A t \in Tasks : life'[t] = "taken" => \E x \in Threads : hand'[x] = t
    BY <2>1, <2>2
  <2> QED
    BY <2>1, <2>2, <2>3
<1>9. CASE UNCHANGED <<pc, hand, running, life, finished>>
  BY <1>9
<1> QED
  BY <1>2, <1>3, <1>4, <1>5, <1>6, <1>7, <1>8, <1>9
  DEF Next, Working, ShutdownStep, SetMax, Shutdown, PushPill, CountPill,
      PillsPushed, Drained, vars, poolVars, threadVars

\* Once shutdown has seen m_actives = 0 nothing can start again: only a running
\* task could do it, and there is none.
LEMMA DoneInvStep ==
  ASSUME TypeOK, SpawnInv, Accounting, DoneInv, [Next]_vars PROVE DoneInv'
<1>1. CASE main # "done" /\ ~Drained
  BY <1>1 DEF DoneInv, Next, Working, ShutdownStep, Start, SetMax, GetFront,
      GetEmpty, Block, SpuriousWake, RunReturns, Finish, Delete, Exit, Shutdown,
      PushPill, CountPill, NotifyPill, PillsPushed, vars, mainVars
<1>2. CASE Drained
  <2>1. Len(queue) + Cardinality(Busy) = 0 /\ Len(queue) \in Nat
    <3>1. Len(queue) \in Nat
      BY DEF TypeOK
    <3>2. main = "spin" /\ actives = 0
      BY <1>2 DEF Drained
    <3> QED
      BY <3>1, <3>2, BusyFinite DEF Accounting
  <2>2. Len(queue) = 0 /\ Cardinality(Busy) = 0
    BY <2>1, BusyFinite
  <2>3. queue = <<>> /\ Busy = {}
    BY <2>2, BusyFinite, FS_EmptySet, EmptySeq DEF TypeOK
  <2> QED
    BY <1>2, <2>3 DEF Drained, DoneInv, Busy, poolVars, threadVars
<1>3. CASE main = "done"
  <2>1. queue = <<>> /\ \A th \in Threads : pc[th] \notin {"run", "finish", "pill"}
    BY <1>3 DEF DoneInv, Busy
  <2>2. ~LuaRuns
    BY <1>3, <2>1 DEF LuaRuns
  <2>3. queue' = queue
    BY <1>3, <2>1, <2>2
    DEF Next, Working, ShutdownStep, Start, SetMax, GetFront, GetEmpty, Block,
        SpuriousWake, RunReturns, Finish, Delete, Exit, Shutdown, PushPill,
        CountPill, NotifyPill, PillsPushed, Drained, vars, poolVars
  <2>4. \A th \in Threads : pc'[th] \notin {"run", "finish", "pill"}
    <3>1. ASSUME NEW th \in Threads, Working(th) \/ SpuriousWake(th)
          PROVE  pc' = [pc EXCEPT ![th] = pc'[th]]
                 /\ pc'[th] \in {"block", "wait", "get"}
      BY <2>1, <3>1 DEF Working, GetFront, GetEmpty, Block, SpuriousWake,
        RunReturns, Finish, Delete, Exit, At, TypeOK
    <3>2. CASE pc' = pc
      BY <2>1, <3>2
    <3>3. (\E th \in Threads : Working(th) \/ SpuriousWake(th)) \/ pc' = pc
      BY <1>3, <2>2 DEF Next, ShutdownStep, Start, SetMax, Shutdown, PushPill,
        CountPill, NotifyPill, PillsPushed, Drained, vars, threadVars
    <3> QED
      BY <2>1, <3>1, <3>2, <3>3 DEF TypeOK
  <2> QED
    BY <2>1, <2>3, <2>4 DEF DoneInv, Busy
<1> QED
  BY <1>1, <1>2, <1>3

\* The inductive invariant of the pool.
PoolInv == TypeOK /\ SpawnInv /\ Accounting /\ QueueInv /\ HandInv /\ DoneInv

\* The pool's invariant holds in every reachable state.
LEMMA PoolInvariant == Spec => []PoolInv
<1>1. Init => QueueInv /\ HandInv /\ DoneInv
  BY DEF Init, QueueInv, HandInv, DoneInv, WaitingIsQueued
<1>2. TypeOK /\ SpawnInv /\ Accounting /\ QueueInv /\ HandInv /\ DoneInv
        /\ [Next]_vars => QueueInv' /\ HandInv' /\ DoneInv'
  BY QueueInvStep, HandInvStep, DoneInvStep
<1> QED
  BY <1>1, <1>2, TypeCorrect, AccountingCorrect, PTL DEF Spec, PoolInv

\* The running map never names a deleted object, the waiting map lists the
\* queued tasks: core::working erases and deletes in the right order.
THEOREM OwnershipCorrect == Spec => [](RunningAlive /\ WaitingIsQueued)
<1>1. PoolInv => RunningAlive /\ WaitingIsQueued
  BY DEF PoolInv, HandInv, QueueInv, RunningAlive
<1> QED
  BY <1>1, PoolInvariant, PTL

\* core::shutdown returns only after every task ever started has finished.
THEOREM ShutdownDrainsAll == Spec => []ShutdownDrains
<1>1. PoolInv => ShutdownDrains
  <2> SUFFICES ASSUME PoolInv, main = "done", NEW t \in Tasks, life[t] # "new"
               PROVE  finished[t]
    BY DEF ShutdownDrains
  <2> USE DEF PoolInv
  <2>1. queue = <<>> /\ Busy = {}
    BY DEF DoneInv
  <2>2. life[t] # "queued"
    BY <2>1 DEF QueueInv
  <2>3. CASE life[t] = "taken"
    <3>1. PICK th \in Threads : hand[th] = t
      BY <2>3 DEF HandInv
    <3>2. pc[th] \in {"run", "finish", "delete"}
      BY <3>1, TasksAssumption DEF HandInv
    <3>3. pc[th] = "delete"
      BY <2>1, <3>2 DEF Busy
    <3> QED
      BY <3>1, <3>3 DEF HandInv
  <2>4. CASE life[t] = "deleted"
    BY <2>4 DEF HandInv
  <2> QED
    BY <2>2, <2>3, <2>4 DEF TypeOK
<1> QED
  BY <1>1, PoolInvariant, PTL

-----------------------------------------------------------------------------
(* While the main script runs, no thread sleeps next to a task, and the     *)
(* pool does not let a task wait for a thread it could still spawn.        *)

\* The mutex is held across two steps only by a thread about to block.
BlockInv == \A th \in Threads : pc[th] = "block" <=> mutex = th

\* Before shutdown there are no exit orders, and a thread that has found the
\* queue empty and has not blocked yet keeps clients of the mutex out.
ScriptInv ==
  main = "script" =>
    /\ \A i \in 1..Len(queue) : queue[i] # None
    /\ \A th \in Threads : pc[th] \notin {"pill", "exit"}
    /\ mutex # 0 => queue = <<>>

\* What the test in core::start maintains as long as the pool may grow.
GrowthInv ==
  (main = "script" /\ workers < max /\ "raised" \notin events)
    => actives <= workers

Takers == {th \in Threads : pc[th] = "get"}

\* A set of threads is finite.
LEMMA ThreadSets ==
  ASSUME NEW S \in SUBSET Threads
  PROVE  IsFiniteSet(S) /\ Cardinality(S) \in Nat
BY BusyFinite, FS_Subset, FS_CardinalityType

\* A part of a set of threads is no larger than the set.
LEMMA ThreadSubsets ==
  ASSUME NEW T \in SUBSET Threads, NEW S \in SUBSET T
  PROVE  Cardinality(S) <= Cardinality(T)
BY ThreadSets, FS_Subset

\* notify_one with somebody asleep wakes exactly one thread.
LEMMA NotifyWakes ==
  ASSUME NEW p, NotifyOne(p), Blocked # {}
  PROVE  \E th \in Threads : pc[th] = "wait" /\ pc' = [p EXCEPT ![th] = "get"]
BY DEF NotifyOne, Blocked

\* A thread that is about to block holds the mutex, after every step.
LEMMA BlockInvStep ==
  ASSUME TypeOK, SpawnInv, BlockInv, [Next]_vars PROVE BlockInv'
<1> USE MaxAssumption DEF BlockInv
<1>1. ASSUME NEW p \in [Threads -> Labels],
             \A th \in Threads : p[th] = pc[th]
                                 \/ (pc[th] = "none" /\ p[th] = "get"),
             NotifyOne(p), mutex' = mutex
      PROVE  BlockInv'
  <2>1. \A th \in Threads : \/ pc'[th] = p[th]
                            \/ (p[th] = "wait" /\ pc'[th] = "get")
    BY <1>1, NotifyBusy
  <2> QED
    BY <1>1, <2>1
<1>2. ASSUME NEW t \in Tasks, Start(t) PROVE BlockInv'
  <2>1. Spawned \in [Threads -> Labels]
    BY SpawnBound DEF Spawned, TypeOK, Labels
  <2>2. \A th \in Threads : Spawned[th] = pc[th]
                            \/ (pc[th] = "none" /\ Spawned[th] = "get")
    BY SpawnBound DEF Spawned, TypeOK, SpawnInv
  <2> QED
    BY <1>1, <1>2, <2>1, <2>2 DEF Start
<1>3. CASE NotifyPill
  BY <1>1, <1>3 DEF NotifyPill, poolVars, TypeOK
<1>4. ASSUME NEW th \in Threads, GetEmpty(th) \/ Block(th) PROVE BlockInv'
  BY <1>4 DEF GetEmpty, Block, At, TypeOK, Threads
<1>5. ASSUME NEW th \in Threads,
             \/ GetFront(th) \/ SpuriousWake(th) \/ RunReturns(th)
             \/ Finish(th) \/ Delete(th) \/ Exit(th)
      PROVE  BlockInv'
  <2>1. /\ mutex' = mutex /\ pc[th] # "block" /\ pc'[th] # "block"
        /\ \A x \in Threads : x # th => pc'[x] = pc[x]
    BY <1>5 DEF GetFront, SpuriousWake, RunReturns, Finish, Delete, Exit, At,
                poolVars, TypeOK
  <2> QED
    BY <2>1
<1>6. CASE UNCHANGED <<pc, mutex>>
  BY <1>6
<1> QED
  BY <1>2, <1>3, <1>4, <1>5, <1>6
  DEF Next, Working, ShutdownStep, SetMax, Shutdown, PushPill, CountPill,
      PillsPushed, Drained, vars, poolVars, threadVars

\* Every step keeps what is said of the time before shutdown.
LEMMA ScriptInvStep ==
  ASSUME TypeOK, SpawnInv, BlockInv, ScriptInv, [Next]_vars PROVE ScriptInv'
<1> SUFFICES ASSUME main' = "script"
             PROVE  /\ \A i \in 1..Len(queue') : queue'[i] # None
                    /\ \A th \in Threads : pc'[th] \notin {"pill", "exit"}
                    /\ mutex' # 0 => queue' = <<>>
  BY DEF ScriptInv
<1>0. main = "script"
  BY DEF Next, Working, ShutdownStep, Start, SetMax, GetFront, GetEmpty, Block,
     SpuriousWake, RunReturns, Finish, Delete, Exit, Shutdown, PushPill,
     CountPill, NotifyPill, PillsPushed, Drained, vars, mainVars
<1> USE MaxAssumption, TasksAssumption, <1>0 DEF ScriptInv
<1>1. ASSUME NEW t \in Tasks, Start(t) PROVE ScriptInv'
  <2>1. /\ Len(queue) \in Nat /\ Len(queue') = Len(queue) + 1
        /\ \A i \in 1..Len(queue) : queue'[i] = queue[i]
        /\ queue'[Len(queue) + 1] = t
    BY <1>1 DEF Start, TypeOK
  <2>2. \A i \in 1..Len(queue') : queue'[i] # None
    BY <2>1
  <2>3. Spawned \in [Threads -> Labels]
    BY SpawnBound DEF Spawned, TypeOK, Labels
  <2>4. \A th \in Threads : Spawned[th] = pc[th] \/ Spawned[th] = "get"
    BY SpawnBound DEF Spawned, TypeOK
  <2>5. \A th \in Threads : pc[th] = "wait" => Spawned[th] = "wait"
    BY SpawnBound DEF Spawned, TypeOK, SpawnInv
  <2>6. \A th \in Threads : pc'[th] \notin {"pill", "exit"}
    BY <1>1, <2>3, <2>4, <2>5, NotifyBusy DEF Start
  <2> QED
    BY <1>1, <2>2, <2>6 DEF Start
<1>2. ASSUME NEW th \in Threads, GetFront(th) PROVE ScriptInv'
  <2>1. /\ queue # <<>> /\ Head(queue) = queue[1] /\ 1 \in 1..Len(queue)
        /\ Len(queue) \in Nat /\ Len(queue') = Len(queue) - 1
        /\ \A i \in 1..Len(queue') : queue'[i] = queue[i + 1]
    BY <1>2 DEF GetFront, TypeOK
  <2>2. Head(queue) # None
    BY <2>1
  <2>3. \A i \in 1..Len(queue') : queue'[i] # None
    BY <2>1
  <2> QED
    BY <1>2, <2>1, <2>2, <2>3 DEF GetFront, TypeOK
<1>3. ASSUME NEW th \in Threads,
             \/ GetEmpty(th) \/ Block(th) \/ SpuriousWake(th)
             \/ RunReturns(th) \/ Finish(th) \/ Delete(th) \/ Exit(th)
      PROVE  ScriptInv'
  <2>1. /\ queue' = queue
        /\ \A x \in Threads : pc'[x] = pc[x] \/ pc'[x] \notin {"pill", "exit"}
        /\ mutex' # 0 => mutex' = mutex \/ queue = <<>>
    BY <1>3 DEF GetEmpty, Block, SpuriousWake, RunReturns, Finish, Delete,
                Exit, At, poolVars, TypeOK
  <2> QED
    BY <2>1
<1>4. CASE UNCHANGED <<pc, mutex, queue>>
  BY <1>4
<1> QED
  BY <1>1, <1>2, <1>3, <1>4
  DEF Next, Working, ShutdownStep, SetMax, Shutdown, PushPill, CountPill,
      NotifyPill, PillsPushed, Drained, vars, poolVars, threadVars

\* A step after which at least as many threads look for a task, no more sleep,
\* and the queue is as it was.
LEMMA QuietKeepsWakeup ==
  ASSUME TypeOK, NoLostWakeup, queue' = queue, Takers \subseteq Takers',
         Blocked' \subseteq Blocked, main' = "script" => main = "script"
  PROVE  NoLostWakeup'
<1>1. Cardinality(Takers) <= Cardinality(Takers')
  BY ThreadSubsets DEF Takers
<1>2. Cardinality(Takers) \in Nat /\ Cardinality(Takers') \in Nat
  BY ThreadSets DEF Takers
<1>3. Len(queue) \in Nat
  BY DEF TypeOK
<1> QED
  BY <1>1, <1>2, <1>3 DEF NoLostWakeup, Takers

\* No step leaves a task in the queue while the threads for it sleep.
LEMMA WakeupStep ==
  ASSUME TypeOK, SpawnInv, BlockInv, ScriptInv, NoLostWakeup, [Next]_vars
  PROVE  NoLostWakeup'
<1> USE MaxAssumption
<1>1. ASSUME NEW t \in Tasks, Start(t) PROVE NoLostWakeup'
  <2>1. Spawned \in [Threads -> Labels]
    BY SpawnBound DEF Spawned, TypeOK, Labels
  <2>2. \A th \in Threads : Spawned[th] = pc[th]
                            \/ (pc[th] = "none" /\ Spawned[th] = "get")
    BY SpawnBound DEF Spawned, TypeOK, SpawnInv
  <2>3. NotifyOne(Spawned) /\ main' = main
    BY <1>1 DEF Start
  <2>4. CASE Blocked = {}
    <3>1. Blocked' = {}
      BY <2>2, <2>3, <2>4 DEF NotifyOne, Blocked
    <3> QED
      BY <3>1 DEF NoLostWakeup
  <2>5. CASE Blocked # {} /\ main = "script"
    <3>1. PICK w \in Threads : pc[w] = "wait" /\ pc' = [Spawned EXCEPT ![w] = "get"]
      BY <2>3, <2>5, NotifyWakes
    <3>2. w \notin Takers /\ Takers \cup {w} \subseteq Takers'
      BY <2>1, <2>2, <3>1 DEF Takers
    <3>3. Takers' \in SUBSET Threads /\ Takers \in SUBSET Threads
      BY DEF Takers
    <3>4. Cardinality(Takers \cup {w}) = Cardinality(Takers) + 1
      BY <3>2, <3>3, ThreadSets, FS_AddElement
    <3>5. Cardinality(Takers \cup {w}) <= Cardinality(Takers')
      BY <3>2, <3>3, ThreadSubsets
    <3>6. Len(queue') = Len(queue) + 1 /\ Len(queue) \in Nat
      BY <1>1 DEF Start, TypeOK
    <3>7. Len(queue) <= Cardinality(Takers)
      BY <2>5 DEF NoLostWakeup, Takers
    <3>8. Len(queue') <= Cardinality(Takers')
      BY <3>3, <3>4, <3>5, <3>6, <3>7, ThreadSets
    <3> QED
      BY <3>8 DEF NoLostWakeup, Takers
  <2>6. CASE main # "script"
    BY <2>3, <2>6 DEF NoLostWakeup
  <2> QED
    BY <2>4, <2>5, <2>6
<1>2. ASSUME NEW th \in Threads, GetFront(th) PROVE NoLostWakeup'
  <2>1. Len(queue') = Len(queue) - 1 /\ Len(queue) \in Nat
    BY <1>2 DEF GetFront, TypeOK
  <2>2. pc[th] = "get" /\ pc' = [pc EXCEPT ![th] = pc'[th]] /\ pc'[th] \in {"run", "pill"}
    BY <1>2 DEF GetFront, TypeOK, At
  <2>3. th \in Takers /\ Takers' = Takers \ {th} /\ Blocked' = Blocked
    BY <2>2 DEF Takers, Blocked, TypeOK
  <2>4. Takers \in SUBSET Threads
    BY DEF Takers
  <2>5. Cardinality(Takers') = Cardinality(Takers) - 1
    BY <2>3, <2>4, ThreadSets, FS_RemoveElement
  <2>6. main' = main
    BY <1>2 DEF GetFront, mainVars
  <2> QED
    BY <2>1, <2>3, <2>4, <2>5, <2>6, ThreadSets DEF NoLostWakeup, Takers
<1>3. ASSUME NEW th \in Threads, GetEmpty(th) \/ Block(th) PROVE NoLostWakeup'
  <2>1. main = "script" => queue = <<>>
    BY <1>3 DEF GetEmpty, Block, At, BlockInv, ScriptInv, Threads
  <2>2. main' = main /\ queue' = queue
    BY <1>3 DEF GetEmpty, Block, mainVars
  <2>3. Cardinality(Takers') \in Nat
    BY ThreadSets DEF Takers
  <2> QED
    BY <2>1, <2>2, <2>3 DEF NoLostWakeup, Takers
<1>4. ASSUME NEW th \in Threads,
             \/ SpuriousWake(th) \/ RunReturns(th) \/ Finish(th)
             \/ Delete(th) \/ Exit(th)
      PROVE  NoLostWakeup'
  <2>1. /\ queue' = queue /\ main' = main
        /\ pc' = [pc EXCEPT ![th] = pc'[th]]
        /\ pc[th] # "get" /\ pc'[th] # "wait"
    BY <1>4 DEF SpuriousWake, RunReturns, Finish, Delete, Exit, At, poolVars,
                mainVars, TypeOK
  <2>2. Takers \subseteq Takers' /\ Blocked' \subseteq Blocked
    BY <2>1 DEF Takers, Blocked, TypeOK
  <2> QED
    BY <2>1, <2>2, QuietKeepsWakeup
<1>5. CASE UNCHANGED <<queue, pc>> /\ (main' = "script" => main = "script")
  BY <1>5, QuietKeepsWakeup DEF Takers, Blocked
<1>6. CASE main' # "script"
  BY <1>6 DEF NoLostWakeup
<1> QED
  BY <1>1, <1>2, <1>3, <1>4, <1>5, <1>6
  DEF Next, Working, ShutdownStep, SetMax, Shutdown, PushPill, CountPill,
      NotifyPill, PillsPushed, Drained, vars, poolVars, threadVars, mainVars

\* core::start grows the pool before a task has to wait; only a raise of m_max
\* during a backlog, which it records, leaves more active tasks than threads.
LEMMA GrowthStep ==
  ASSUME TypeOK, SpawnInv, GrowthInv, [Next]_vars
  PROVE  GrowthInv'
<1> USE MaxAssumption DEF GrowthInv
<1>1. ASSUME NEW t \in Tasks, Start(t) PROVE GrowthInv'
  BY <1>1 DEF Start, Record, NeedsThread, TypeOK
<1>2. ASSUME NEW m \in MaxValues, SetMax(m) PROVE GrowthInv'
  BY <1>2 DEF SetMax, Record, TypeOK
<1>3. ASSUME NEW th \in Threads, Finish(th) \/ Exit(th) PROVE GrowthInv'
  BY <1>3 DEF Finish, Exit, mainVars, TypeOK
<1>4. CASE UNCHANGED <<workers, actives, max, main, events>>
  BY <1>4
<1>5. CASE main' # "script"
  BY <1>5
<1> QED
  BY <1>1, <1>2, <1>3, <1>4, <1>5
  DEF Next, Working, ShutdownStep, GetFront, GetEmpty, Block, SpuriousWake,
      RunReturns, Delete, Shutdown, PushPill, CountPill, NotifyPill,
      PillsPushed, Drained, vars, poolVars, threadVars, mainVars

\* Before shutdown every thread that was spawned is free or busy.
LEMMA FreeOrBusy ==
  ASSUME TypeOK, SpawnInv, ScriptInv, main = "script"
  PROVE  /\ Cardinality(Free) \in Nat
         /\ workers = Cardinality(Free) + Cardinality(Busy)
<1> USE MaxAssumption
<1>1. Free \cup Busy = 1..workers
  BY DEF Free, Busy, SpawnInv, ScriptInv, TypeOK, Labels, Threads
<1>2. Free \cap Busy = {}
  BY DEF Free, Busy
<1>3. Free \in SUBSET Threads /\ Busy \in SUBSET Threads
  BY DEF Free, Busy
<1>4. Cardinality(Free \cup Busy) = Cardinality(Free) + Cardinality(Busy)
  <2>1. /\ IsFiniteSet(Free) /\ IsFiniteSet(Busy)
        /\ Cardinality(Free) \in Nat /\ Cardinality(Busy) \in Nat
    BY <1>3, ThreadSets
  <2>2. Cardinality(Free \cup Busy) =
          Cardinality(Free) + Cardinality(Busy) - Cardinality(Free \cap Busy)
    BY <2>1, FS_Union
  <2>3. Cardinality(Free \cap Busy) = 0
    BY <1>2, FS_EmptySet
  <2> QED
    BY <2>1, <2>2, <2>3
<1>5. Cardinality(1..workers) = workers
  BY FS_Interval DEF TypeOK
<1> QED
  BY <1>1, <1>3, <1>4, <1>5, ThreadSets

\* The invariant of the pool before shutdown.
ClientInv == BlockInv /\ ScriptInv /\ GrowthInv /\ NoLostWakeup

\* The invariants of the time before shutdown hold in every reachable state.
LEMMA ClientInvariant == Spec => []ClientInv
<1>1. Init => ClientInv
  <2> SUFFICES ASSUME Init PROVE ClientInv
    OBVIOUS
  <2>1. BlockInv /\ ScriptInv /\ GrowthInv
    BY MaxAssumption DEF Init, BlockInv, ScriptInv, GrowthInv, Threads
  <2>2. NoLostWakeup
    BY DEF Init, NoLostWakeup, Blocked
  <2> QED
    BY <2>1, <2>2 DEF ClientInv
<1>2. TypeOK /\ SpawnInv /\ ClientInv /\ [Next]_vars => ClientInv'
  BY BlockInvStep, ScriptInvStep, GrowthStep, WakeupStep DEF ClientInv
<1> QED
  BY <1>1, <1>2, TypeCorrect, AccountingCorrect, PTL DEF Spec

\* No wake-up is lost among the clients of the mutex: core::get tests and
\* blocks under the mutex that core::start pushes and notifies under, so as
\* long as a thread sleeps every queued task has another thread to take it.
THEOREM NoLostWakeupHolds == Spec => []NoLostWakeup
<1>1. ClientInv => NoLostWakeup
  BY DEF ClientInv
<1> QED
  BY <1>1, ClientInvariant, PTL

\* Until it has max() threads, the pool has a free thread for every queued
\* task, whatever tasks start and finish meanwhile, if max() was not raised
\* during a backlog.
THEOREM NoNeedlessQueueingHolds == Spec => []NoNeedlessQueueing
<1>1. TypeOK /\ SpawnInv /\ Accounting /\ ClientInv => NoNeedlessQueueing
  <2> SUFFICES ASSUME TypeOK, SpawnInv, Accounting, ClientInv, main = "script",
                      workers < max, "raised" \notin events
               PROVE  Len(queue) <= Cardinality(Free)
    BY DEF NoNeedlessQueueing
  <2>1. actives <= workers
    BY DEF ClientInv, GrowthInv
  <2>2. workers = Cardinality(Free) + Cardinality(Busy) /\ Cardinality(Free) \in Nat
    BY FreeOrBusy DEF ClientInv
  <2>3. actives = Len(queue) + Cardinality(Busy) /\ Len(queue) \in Nat
    BY BusyFinite DEF Accounting, TypeOK
  <2> QED
    BY <2>1, <2>2, <2>3, BusyFinite
<1> QED
  BY <1>1, ClientInvariant, TypeCorrect, AccountingCorrect, PTL

-----------------------------------------------------------------------------
(* Core implements TaskPool.  The mapping leaves the exit orders out of    *)
(* the queue, so the proof first shows what TasksOf computes when an entry *)
(* is put to the end or taken from the front of the queue.  Its recursion  *)
(* is unfolded by an induction over a set of numbers.                      *)

\* A set that contains 0 and with each number below l the next.
LEMMA NumbersUpTo ==
  ASSUME NEW l \in Nat, NEW S, 0 \in S, \A i \in 0..(l - 1) : i \in S => i + 1 \in S
  PROVE  0..l \subseteq S
<1> DEFINE Less == {ss \in Nat \X Nat : ss[1] < ss[2]}
           Out == (0..l) \ S
<1> SUFFICES ASSUME Out # {} PROVE FALSE
  OBVIOUS
<1>1. IsWellFoundedOn(Less, Nat)
  BY NatLessThanWellFounded, Zenon DEF OpToRel
<1>2. \A i, j \in Nat : <<j, i>> \in Less <=> j < i
  OBVIOUS
<1>3. Out \in SUBSET Nat
  OBVIOUS
<1> HIDE DEF Less
<1>4. PICK i \in Out : \A j \in Out : ~(<<j, i>> \in Less)
  BY <1>1, <1>3, WFMin
<1>5. i \in 1..l
  BY <1>4
<1>6. PICK j \in 0..(l - 1) : i = j + 1 /\ j < i
  <2>1. i - 1 \in 0..(l - 1) /\ i = (i - 1) + 1 /\ i - 1 < i
    BY <1>5
  <2> QED
    BY <2>1
<1>7. j \in 0..l /\ j \in Nat /\ i \in Nat
  BY <1>5, <1>6
<1>8. j \in S
  BY <1>2, <1>4, <1>6, <1>7
<1> QED
  BY <1>4, <1>6, <1>8

\* The next value of the recursion in TasksOf.
Taken(s, e) == IF e = None THEN s ELSE Append(s, e)

\* Function g lists, for each i, the tasks of the first i entries of q.
Lists(g, q) ==
  /\ g \in [0..Len(q) -> Seq(Tasks)]
  /\ g[0] = <<>> /\ \A i \in 1..Len(q) : g[i] = Taken(g[i - 1], q[i])

\* A further entry keeps the sequence one of tasks.
LEMMA TakenType ==
  ASSUME NEW s \in Seq(Tasks), NEW e \in Tasks \cup {None}
  PROVE  Taken(s, e) \in Seq(Tasks)
BY DEF Taken

\* Such a function exists.
LEMMA ListsExists ==
  ASSUME NEW q \in Seq(Tasks \cup {None}) PROVE \E g : Lists(g, q)
<1>1. PICK l \in Nat : l = Len(q) /\ \A i \in 1..l : q[i] \in Tasks \cup {None}
  BY LenProperties, ElementOfSeq
<1> DEFINE S == {n \in 0..l : \E g \in [0..n -> Seq(Tasks)] :
                   g[0] = <<>> /\ \A i \in 1..n : g[i] = Taken(g[i - 1], q[i])}
<1>2. 0 \in S
  <2>1. PICK g : g = [i \in 0..0 |-> <<>>]
    OBVIOUS
  <2>2. g \in [0..0 -> Seq(Tasks)] /\ g[0] = <<>>
    BY <2>1
  <2>3. \A i \in 1..0 : g[i] = Taken(g[i - 1], q[i])
    OBVIOUS
  <2> QED
    BY <2>2, <2>3
<1>3. ASSUME NEW n \in 0..(l - 1), n \in S PROVE n + 1 \in S
  <2>1. PICK g \in [0..n -> Seq(Tasks)] :
          g[0] = <<>> /\ \A i \in 1..n : g[i] = Taken(g[i - 1], q[i])
    BY <1>3
  <2>2. PICK m \in 1..l : m = n + 1 /\ n = m - 1
    BY <1>1
  <2>3. PICK h : h = [i \in 0..m |-> IF i = m THEN Taken(g[n], q[m]) ELSE g[i]]
    OBVIOUS
  <2>4. Taken(g[n], q[m]) \in Seq(Tasks)
    BY <1>1, TakenType
  <2>5. \A i \in 0..m : i = m \/ i \in 0..n
    BY <2>2
  <2>6. h \in [0..m -> Seq(Tasks)]
    BY <2>3, <2>4, <2>5
  <2>7. h[0] = <<>>
    BY <2>1, <2>2, <2>3
  <2>8. ASSUME NEW i \in 1..m PROVE h[i] = Taken(h[i - 1], q[i])
    <3>1. i - 1 \in 0..m /\ i - 1 # m /\ i \in 0..m
      BY <2>2
    <3>2. h[i - 1] = g[i - 1]
      BY <2>3, <3>1
    <3>3. CASE i = m
      BY <2>2, <2>3, <3>2, <3>3
    <3>4. CASE i # m
      <4>1. i \in 1..n
        BY <2>2, <3>4
      <4> QED
        BY <2>1, <2>3, <3>1, <3>2, <3>4, <4>1
    <3> QED
      BY <3>3, <3>4
  <2>9. m \in 0..l
    OBVIOUS
  <2> QED
    BY <2>2, <2>6, <2>7, <2>8, <2>9
<1> HIDE DEF S
<1>4. 0..l \subseteq S
  BY <1>1, <1>2, <1>3, NumbersUpTo
<1>5. l \in S
  BY <1>1, <1>4
<1> QED
  BY <1>1, <1>5 DEF S, Lists

\* TasksOf is its last value.
LEMMA TasksOfLists ==
  ASSUME NEW q \in Seq(Tasks \cup {None})
  PROVE  \E g : Lists(g, q) /\ TasksOf(q) = g[Len(q)]
<1> DEFINE Unfolded(g) ==
      g = [i \in 0..Len(q) |->
             IF i = 0 THEN <<>>
             ELSE IF q[i] = None THEN g[i - 1] ELSE Append(g[i - 1], q[i])]
<1>1. Len(q) \in Nat /\ \A i \in 1..Len(q) : q[i] \in Tasks \cup {None}
  BY LenProperties, ElementOfSeq
<1>2. \E g : Unfolded(g)
  <2>1. PICK g : Lists(g, q)
    BY ListsExists
  <2>2. g \in [0..Len(q) -> Seq(Tasks)] /\ g[0] = <<>>
    BY <2>1 DEF Lists
  <2>3. \A i \in 0..Len(q) :
          g[i] = IF i = 0 THEN <<>>
                 ELSE IF q[i] = None THEN g[i - 1] ELSE Append(g[i - 1], q[i])
    <3> SUFFICES ASSUME NEW i \in 0..Len(q), i # 0
                 PROVE  g[i] = IF q[i] = None THEN g[i - 1] ELSE Append(g[i - 1], q[i])
      BY <2>2
    <3>1. i \in 1..Len(q)
      BY <1>1
    <3> QED
      BY <2>1, <3>1 DEF Lists, Taken
  <2> QED
    BY <2>2, <2>3
<1>3. PICK f : f = CHOOSE g : Unfolded(g)
  OBVIOUS
<1>4. Unfolded(f)
  BY <1>2, <1>3
<1>5. TasksOf(q) = f[Len(q)]
  BY <1>3 DEF TasksOf
<1>6. /\ f[0] = <<>> /\ DOMAIN f = 0..Len(q) /\ f = [i \in 0..Len(q) |-> f[i]]
      /\ \A i \in 1..Len(q) : f[i] = Taken(f[i - 1], q[i])
  <2>1. \A i \in 0..Len(q) :
          f[i] = IF i = 0 THEN <<>>
                 ELSE IF q[i] = None THEN f[i - 1] ELSE Append(f[i - 1], q[i])
    BY <1>4
  <2>2. f[0] = <<>>
    BY <1>1, <2>1
  <2>3. \A i \in 1..Len(q) : i \in 0..Len(q) /\ i # 0
    BY <1>1
  <2>4. \A i \in 1..Len(q) : f[i] = Taken(f[i - 1], q[i])
    BY <2>1, <2>3 DEF Taken
  <2>5. DOMAIN f = 0..Len(q) /\ f = [i \in 0..Len(q) |-> f[i]]
    BY <1>4
  <2> QED
    BY <2>2, <2>4, <2>5
<1> HIDE DEF Unfolded
<1> DEFINE S == {i \in 0..Len(q) : f[i] \in Seq(Tasks)}
<1>7. 0 \in S
  BY <1>1, <1>6
<1>8. ASSUME NEW n \in 0..(Len(q) - 1), n \in S PROVE n + 1 \in S
  <2>1. PICK m \in 1..Len(q) : m = n + 1 /\ n = m - 1
    BY <1>1
  <2>2. f[m] = Taken(f[n], q[m])
    BY <1>6, <2>1
  <2> QED
    BY <1>1, <1>8, <2>1, <2>2, TakenType
<1> HIDE DEF S
<1>9. 0..Len(q) \subseteq S
  BY <1>1, <1>7, <1>8, NumbersUpTo
<1>10. f \in [0..Len(q) -> Seq(Tasks)]
  BY <1>6, <1>9 DEF S
<1> QED
  BY <1>5, <1>6, <1>10 DEF Lists

\* TasksOf lists the tasks of the queue.
LEMMA TasksOfSet ==
  ASSUME NEW q \in Seq(Tasks \cup {None})
  PROVE  /\ TasksOf(q) \in Seq(Tasks)
         /\ \A k \in 1..Len(TasksOf(q)) : \E j \in 1..Len(q) : q[j] = TasksOf(q)[k]
<1>1. PICK g : Lists(g, q) /\ TasksOf(q) = g[Len(q)]
  BY TasksOfLists
<1>2. PICK l \in Nat : l = Len(q) /\ \A i \in 1..l : q[i] \in Tasks \cup {None}
  BY LenProperties, ElementOfSeq
<1>3. /\ g \in [0..l -> Seq(Tasks)] /\ g[0] = <<>>
      /\ \A i \in 1..l : g[i] = Taken(g[i - 1], q[i])
  BY <1>1, <1>2 DEF Lists
<1> DEFINE Of(i) == \A k \in 1..Len(g[i]) : \E j \in 1..l : q[j] = g[i][k]
           S == {i \in 0..l : Of(i)}
<1>4. 0 \in S
  BY <1>2, <1>3
<1>5. ASSUME NEW n \in 0..(l - 1), n \in S PROVE n + 1 \in S
  <2>1. PICK m \in 1..l : m = n + 1 /\ n = m - 1
    BY <1>2
  <2>2. PICK s \in Seq(Tasks) : s = g[n]
    BY <1>3
  <2>3. g[m] = Taken(s, q[m])
    BY <1>3, <2>1, <2>2
  <2>4. \A k \in 1..Len(s) : \E j \in 1..l : q[j] = s[k]
    BY <1>5, <2>2
  <2>5. CASE q[m] = None
    BY <2>1, <2>2, <2>3, <2>4, <2>5 DEF Taken
  <2>6. CASE q[m] # None
    <3>1. q[m] \in Tasks /\ g[m] = Append(s, q[m])
      BY <1>2, <2>3, <2>6 DEF Taken
    <3>2. PICK c \in Nat : c = Len(s) /\ Len(g[m]) = c + 1
      BY <3>1, LenProperties, AppendProperties
    <3>3. g[m][c + 1] = q[m] /\ \A k \in 1..c : g[m][k] = s[k]
      BY <3>1, <3>2, AppendProperties
    <3>4. ASSUME NEW k \in 1..(c + 1) PROVE \E j \in 1..l : q[j] = g[m][k]
      <4>1. k \in 1..c \/ k = c + 1
        BY <3>2
      <4> QED
        BY <2>4, <3>2, <3>3, <4>1
    <3> QED
      BY <2>1, <3>2, <3>4
  <2> QED
    BY <2>5, <2>6
<1> HIDE DEF S
<1>6. 0..l \subseteq S
  BY <1>2, <1>4, <1>5, NumbersUpTo
<1>7. l \in S
  BY <1>2, <1>6
<1> QED
  BY <1>1, <1>2, <1>3, <1>7 DEF S

\* An entry put to the end.
LEMMA TasksOfAppend ==
  ASSUME NEW q \in Seq(Tasks \cup {None}), NEW e \in Tasks \cup {None},
         NEW r, r = Append(q, e)
  PROVE  TasksOf(r) = Taken(TasksOf(q), e)
<1>1. PICK l \in Nat : l = Len(q)
  BY LenProperties
<1>2. /\ r \in Seq(Tasks \cup {None}) /\ Len(r) = l + 1 /\ r[l + 1] = e
      /\ \A i \in 1..l : r[i] = q[i]
  BY <1>1, AppendProperties
<1>3. PICK g : Lists(g, q) /\ TasksOf(q) = g[l]
  BY <1>1, TasksOfLists
<1>4. PICK h : Lists(h, r) /\ TasksOf(r) = h[l + 1]
  BY <1>2, TasksOfLists
<1>5. /\ g[0] = <<>> /\ \A i \in 1..l : g[i] = Taken(g[i - 1], q[i])
      /\ h[0] = <<>> /\ \A i \in 1..(l + 1) : h[i] = Taken(h[i - 1], r[i])
  BY <1>1, <1>2, <1>3, <1>4 DEF Lists
<1> DEFINE S == {i \in 0..l : h[i] = g[i]}
<1>6. 0 \in S
  BY <1>1, <1>5
<1>7. ASSUME NEW n \in 0..(l - 1), n \in S PROVE n + 1 \in S
  <2>1. PICK m \in 1..l : m = n + 1 /\ n = m - 1 /\ m \in 1..(l + 1)
    BY <1>1
  <2>2. h[m] = Taken(h[n], r[m]) /\ g[m] = Taken(g[n], q[m])
    BY <1>5, <2>1
  <2> QED
    BY <1>2, <1>7, <2>1, <2>2
<1> HIDE DEF S
<1>8. 0..l \subseteq S
  BY <1>1, <1>6, <1>7, NumbersUpTo
<1>9. h[l] = g[l]
  BY <1>1, <1>8 DEF S
<1>10. l + 1 \in 1..(l + 1) /\ (l + 1) - 1 = l
  BY <1>1
<1> QED
  BY <1>2, <1>3, <1>4, <1>5, <1>9, <1>10

\* The front taken.
LEMMA TasksOfTail ==
  ASSUME NEW q \in Seq(Tasks \cup {None}), q # <<>>, NEW r, r = Tail(q)
  PROVE  IF Head(q) = None THEN TasksOf(r) = TasksOf(q)
         ELSE /\ TasksOf(q) # <<>> /\ Head(TasksOf(q)) = Head(q)
              /\ TasksOf(r) = Tail(TasksOf(q))
<1>1. PICK l \in Nat : l = Len(r)
  BY LenProperties, HeadTailProperties
<1>2. /\ r \in Seq(Tasks \cup {None}) /\ Len(q) = l + 1 /\ Head(q) = q[1]
      /\ \A i \in 1..l : r[i] = q[i + 1]
      /\ Head(q) \in Tasks \cup {None}
  <2>1. /\ r \in Seq(Tasks \cup {None}) /\ Len(r) = Len(q) - 1 /\ Head(q) = q[1]
        /\ \A i \in 1..Len(r) : r[i] = q[i + 1] /\ Head(q) \in Tasks \cup {None}
        /\ Head(q) \in Tasks \cup {None}
    BY HeadTailProperties
  <2>2. Len(q) \in Nat
    BY LenProperties
  <2> QED
    BY <1>1, <2>1, <2>2
<1>3. PICK g : Lists(g, q) /\ TasksOf(q) = g[l + 1]
  BY <1>2, TasksOfLists
<1>4. PICK h : Lists(h, r) /\ TasksOf(r) = h[l]
  BY <1>1, <1>2, TasksOfLists
<1>5. /\ g[0] = <<>> /\ \A i \in 1..(l + 1) : g[i] = Taken(g[i - 1], q[i])
      /\ h[0] = <<>> /\ \A i \in 1..l : h[i] = Taken(h[i - 1], r[i])
      /\ \A i \in 0..(l + 1) : g[i] \in Seq(Tasks)
  BY <1>1, <1>2, <1>3, <1>4 DEF Lists
<1>6. g[1] = Taken(<<>>, q[1])
  <2>1. 1 \in 1..(l + 1) /\ 1 - 1 = 0
    BY <1>1
  <2> QED
    BY <1>5, <2>1
<1> DEFINE Shifted(s, t) == IF Head(q) = None THEN t = s
                            ELSE s # <<>> /\ Head(s) = Head(q) /\ t = Tail(s)
           S == {i \in 0..l : Shifted(g[i + 1], h[i])}
<1>7. 0 \in S
  <2>1. Shifted(g[1], h[0])
    <3>1. CASE Head(q) = None
      BY <1>2, <1>5, <1>6, <3>1 DEF Taken
    <3>2. CASE Head(q) # None
      <4>1. g[1] = Append(<<>>, Head(q)) /\ h[0] = <<>> /\ <<>> \in Seq(Tasks)
        BY <1>2, <1>5, <1>6, <3>2 DEF Taken
      <4>2. /\ Append(<<>>, Head(q)) # <<>> /\ Head(Append(<<>>, Head(q))) = Head(q)
            /\ Tail(Append(<<>>, Head(q))) = <<>>
        OBVIOUS
      <4> QED
        BY <3>2, <4>1, <4>2
    <3> QED
      BY <3>1, <3>2
  <2> HIDE DEF Shifted
  <2> QED
    BY <1>1, <2>1
<1>8. ASSUME NEW n \in 0..(l - 1), n \in S PROVE n + 1 \in S
  <2>1. PICK m \in 1..l : m = n + 1 /\ n = m - 1 /\ m + 1 \in 1..(l + 1) /\ (m + 1) - 1 = m
    BY <1>1
  <2>2. PICK s \in Seq(Tasks) : s = g[m]
    BY <1>1, <1>5
  <2>3. PICK t, e : t = h[n] /\ e = r[m]
    OBVIOUS
  <2>4. g[m + 1] = Taken(s, e) /\ h[m] = Taken(t, e)
    BY <1>2, <1>5, <2>1, <2>2, <2>3
  <2>5. Shifted(s, t)
    BY <1>8, <2>1, <2>2, <2>3
  <2>6. Shifted(Taken(s, e), Taken(t, e))
    <3>1. CASE e = None \/ Head(q) = None
      BY <2>5, <3>1 DEF Taken
    <3>2. CASE e # None /\ Head(q) # None
      <4>1. e \in Tasks
        BY <1>2, <2>3, <3>2, ElementOfSeq, <1>1
      <4>2. /\ Append(s, e) # <<>> /\ Head(Append(s, e)) = Head(s)
            /\ Tail(Append(s, e)) = Append(Tail(s), e)
        BY <2>5, <3>2, <4>1, HeadTailAppend, AppendProperties
      <4> QED
        BY <2>5, <3>2, <4>2 DEF Taken
    <3> QED
      BY <3>1, <3>2
  <2> HIDE DEF Shifted
  <2> QED
    BY <2>1, <2>4, <2>6
<1> HIDE DEF S
<1>9. 0..l \subseteq S
  BY <1>1, <1>7, <1>8, NumbersUpTo
<1>10. Shifted(g[l + 1], h[l])
  BY <1>1, <1>9 DEF S
<1> QED
  BY <1>3, <1>4, <1>10

\* Only taken tasks finish, and the task of a running thread has not.
FlagInv ==
  /\ \A t \in Tasks : finished[t] => life[t] \in {"taken", "deleted"}
  /\ \A th \in Threads : pc[th] = "run" => ~finished[hand[th]]

\* Every step keeps the flag in step with the life of the object.
LEMMA FlagInvStep ==
  ASSUME PoolInv, FlagInv, [Next]_vars PROVE FlagInv'
<1> USE TasksAssumption DEF PoolInv
<1>1. ASSUME NEW t \in Tasks, Start(t) PROVE FlagInv'
  <2>1. \A th \in Threads : pc'[th] = "run" => pc[th] = "run"
    <3>1. /\ Spawned \in [Threads -> Labels]
          /\ \A th \in Threads : Spawned[th] =
                IF NeedsThread /\ th = workers + 1 THEN "get" ELSE pc[th]
          /\ NeedsThread => workers + 1 \in Threads /\ pc[workers + 1] = "none"
      BY SpawnBound, MaxAssumption DEF Spawned, TypeOK, SpawnInv, Labels
    <3>2. \A th \in Threads : pc'[th] = Spawned[th]
                              \/ (Spawned[th] = "wait" /\ pc'[th] = "get")
      BY <1>1, <3>1, NotifyBusy DEF Start
    <3> QED
      BY <3>1, <3>2
  <2>2. /\ life[t] = "new" /\ life' = [life EXCEPT ![t] = "queued"]
        /\ finished' = finished /\ hand' = hand
    BY <1>1 DEF Start
  <2> QED
    BY <2>1, <2>2 DEF FlagInv, TypeOK
<1>2. ASSUME NEW th \in Threads, GetFront(th) PROVE FlagInv'
  <2>1. PICK front : front = Head(queue) /\ queue # <<>> /\ front = queue[1] /\ 1 \in 1..Len(queue)
    BY <1>2, HeadTailProperties, LenProperties DEF GetFront, TypeOK
  <2>2. /\ finished' = finished /\ hand' = [hand EXCEPT ![th] = front]
        /\ IF front = None
           THEN pc' = [pc EXCEPT ![th] = "pill"] /\ life' = life
           ELSE pc' = [pc EXCEPT ![th] = "run"] /\ life' = [life EXCEPT ![front] = "taken"]
    BY <1>2, <2>1 DEF GetFront
  <2>3. CASE front = None
    BY <2>2, <2>3 DEF FlagInv, TypeOK
  <2>4. CASE front # None
    <3>1. front \in Tasks /\ life[front] = "queued"
      BY <2>1, <2>4, ElementOfSeq DEF QueueInv, TypeOK
    <3>2. ~finished[front]
      BY <3>1 DEF FlagInv
    <3>3. \A t \in Tasks : life'[t] = IF t = front THEN "taken" ELSE life[t]
      BY <2>2, <2>4, <3>1 DEF TypeOK
    <3>4. \A a \in Threads : pc'[a] = "run" => ~finished'[hand'[a]]
      <4>1. pc' = [pc EXCEPT ![th] = "run"]
        BY <2>2, <2>4
      <4> QED
        BY <2>2, <3>2, <4>1 DEF FlagInv, TypeOK
    <3> QED
      BY <2>2, <3>3, <3>4 DEF FlagInv
  <2> QED
    BY <2>3, <2>4
<1>3. ASSUME NEW th \in Threads, RunReturns(th) PROVE FlagInv'
  <2>1. PICK t \in Tasks : t = hand[th] /\ life[t] = "taken"
    BY <1>3 DEF RunReturns, At, HandInv, TypeOK
  <2>2. /\ pc[th] = "run" /\ pc' = [pc EXCEPT ![th] = "finish"]
        /\ finished' = [finished EXCEPT ![t] = TRUE] /\ life' = life /\ hand' = hand
    BY <1>3, <2>1 DEF RunReturns, At
  <2>3. \A a \in Threads : a # th => hand[a] # t
    BY <2>1 DEF HandInv
  <2>4. \A u \in Tasks : finished'[u] => u = t \/ finished[u]
    BY <2>2 DEF TypeOK
  <2>5. ASSUME NEW a \in Threads, pc'[a] = "run" PROVE ~finished'[hand'[a]]
    <3>1. a # th /\ pc[a] = "run"
      BY <2>2, <2>5 DEF TypeOK
    <3>2. hand[a] \in Tasks /\ hand[a] # t /\ ~finished[hand[a]]
      BY <2>3, <3>1 DEF HandInv, TypeOK, FlagInv
    <3> QED
      BY <2>2, <2>4, <3>2
  <2> QED
    BY <2>1, <2>2, <2>4, <2>5 DEF FlagInv
<1>4. ASSUME NEW th \in Threads, Delete(th) PROVE FlagInv'
  <2>1. hand[th] \in Tasks
    BY <1>4 DEF Delete, At, HandInv, TypeOK
  <2>2. /\ pc' = [pc EXCEPT ![th] = "get"] /\ hand' = [hand EXCEPT ![th] = None]
        /\ life' = [life EXCEPT ![hand[th]] = "deleted"] /\ finished' = finished
    BY <1>4 DEF Delete
  <2>3. \A t \in Tasks : life'[t] = "deleted" \/ life'[t] = life[t]
    BY <2>1, <2>2 DEF TypeOK
  <2>4. \A a \in Threads : pc'[a] = "run" => pc[a] = "run" /\ hand'[a] = hand[a]
    BY <2>2 DEF TypeOK
  <2> QED
    BY <2>2, <2>3, <2>4 DEF FlagInv
<1>5. ASSUME NEW th \in Threads,
             \/ GetEmpty(th) \/ Block(th) \/ SpuriousWake(th) \/ Finish(th) \/ Exit(th)
      PROVE  FlagInv'
  <2>1. /\ pc' = [pc EXCEPT ![th] = pc'[th]] /\ pc'[th] # "run"
        /\ UNCHANGED <<hand, life, finished>>
    BY <1>5 DEF GetEmpty, Block, SpuriousWake, Finish, Exit, TypeOK
  <2> QED
    BY <2>1 DEF FlagInv, TypeOK
<1>6. CASE NotifyPill
  <2>1. \A th \in Threads : pc'[th] = pc[th] \/ (pc[th] = "wait" /\ pc'[th] = "get")
    BY <1>6, NotifyBusy DEF NotifyPill, TypeOK
  <2>2. UNCHANGED <<hand, life, finished>>
    BY <1>6 DEF NotifyPill
  <2> QED
    BY <2>1, <2>2 DEF FlagInv
<1>7. CASE \/ \E m \in MaxValues : SetMax(m)
           \/ Shutdown \/ PushPill \/ CountPill \/ PillsPushed \/ Drained \/ UNCHANGED vars
  <2>1. UNCHANGED threadVars
    BY <1>7 DEF SetMax, Shutdown, PushPill, CountPill, PillsPushed, Drained, vars
  <2> QED
    BY <2>1 DEF threadVars, FlagInv
<1> QED
  BY <1>1, <1>2, <1>3, <1>4, <1>5, <1>6, <1>7 DEF Next, Working, ShutdownStep

\* It holds in every reachable state.
LEMMA FlagInvariant == Spec => []FlagInv
<1>1. Init => FlagInv
  BY DEF Init, FlagInv
<1>2. PoolInv /\ FlagInv /\ [Next]_vars => FlagInv'
  BY FlagInvStep
<1> QED
  BY <1>1, <1>2, PoolInvariant, PTL DEF Spec

\* The image of the state under the refinement mapping.
Now == {t \in Tasks : life[t] = "taken" /\ ~finished[t]}
Ended == {t \in Tasks : finished[t]}

\* A thread that takes a task finds room for one more in execution.
LEMMA RoomForTask ==
  ASSUME PoolInv, NEW th \in Threads, pc[th] = "get"
  PROVE  Cardinality(Now) < MaxThreads
<1> USE TasksAssumption DEF PoolInv
<1> DEFINE holder == [t \in Now |-> CHOOSE a \in Threads : hand[a] = t]
<1>1. \A t \in Now : holder[t] \in Threads /\ hand[holder[t]] = t
  BY DEF Now, HandInv
<1>2. hand[th] = None
  BY DEF HandInv
<1>3. holder \in Injection(Now, Threads \ {th})
  <2>1. holder \in [Now -> Threads \ {th}]
    <3>1. \A t \in Now : t # None
      BY DEF Now
    <3> QED
      BY <1>1, <1>2, <3>1
  <2>2. \A s, t \in Now : holder[s] = holder[t] => s = t
    BY <1>1
  <2> HIDE DEF holder
  <2> QED
    BY <2>1, <2>2 DEF Injection, IsInjective
<1>4. IsFiniteSet(Threads) /\ Cardinality(Threads) = MaxThreads /\ MaxThreads \in Nat
  <2>1. MaxThreads \in Nat /\ 1 \in Int /\ MaxThreads \in Int
    BY MaxAssumption
  <2>2. Cardinality(1..MaxThreads) = IF 1 > MaxThreads THEN 0 ELSE MaxThreads - 1 + 1
    BY <2>1, FS_Interval
  <2> QED
    BY <2>1, <2>2, BusyFinite, MaxAssumption DEF Threads
<1>5. IsFiniteSet(Threads \ {th}) /\ Cardinality(Threads \ {th}) = Cardinality(Threads) - 1
  BY <1>4, FS_RemoveElement
<1>6. IsFiniteSet(Now) /\ Cardinality(Now) <= Cardinality(Threads \ {th})
  BY <1>3, <1>5, FS_Injection DEF ExistsInjection
<1>7. Cardinality(Now) \in Nat
  BY <1>6, FS_CardinalityType
<1> QED
  BY <1>4, <1>5, <1>6, <1>7

\* A step that keeps the tasks of the queue and those in execution is none of
\* the pool's.
LEMMA PoolStutters ==
  ASSUME TasksOf(queue)' = TasksOf(queue), Now' = Now, Ended' = Ended
  PROVE  UNCHANGED Pool!poolState
BY DEF Pool!poolState, Now, Ended

\* core::start is Submit of the pool.
LEMMA StartSubmits ==
  ASSUME PoolInv, FlagInv, NEW t \in Tasks, Start(t)
  PROVE  Pool!Submit(t)
<1> USE TasksAssumption DEF PoolInv
<1>1. /\ queue' = Append(queue, t) /\ life[t] = "new"
      /\ life' = [life EXCEPT ![t] = "queued"] /\ finished' = finished
  BY DEF Start
<1>2. PICK p : p = TasksOf(queue) /\ queue \in Seq(Tasks \cup {None})
  BY DEF TypeOK
<1>3. TasksOf(queue)' = Append(p, t)
  <2>1. TasksOf(queue') = Taken(TasksOf(queue), t)
    BY <1>1, <1>2, TasksOfAppend
  <2> QED
    BY <1>2, <2>1 DEF Taken
<1>4. Now' = Now /\ Ended' = Ended
  BY <1>1 DEF Now, Ended, TypeOK
<1>5. t \notin Now \cup Ended
  BY <1>1 DEF Now, Ended, FlagInv
<1>6. t \notin {p[i] : i \in 1..Len(p)}
  <2>1. \A k \in 1..Len(p) : \E j \in 1..Len(queue) : queue[j] = p[k]
    BY <1>2, TasksOfSet
  <2> QED
    BY <1>1, <2>1 DEF QueueInv
<1>7. Pool!Pending = {p[i] : i \in 1..Len(p)}
  BY <1>2 DEF Pool!Pending
<1> QED
  BY <1>2, <1>3, <1>4, <1>5, <1>6, <1>7 DEF Pool!Submit, Now, Ended

\* core::get is Begin of the pool when the front is a task, and nothing when it
\* is an exit order.
LEMMA GetFrontBegins ==
  ASSUME PoolInv, FlagInv, NEW th \in Threads, GetFront(th)
  PROVE  Pool!Begin \/ UNCHANGED Pool!poolState
<1> USE TasksAssumption DEF PoolInv
<1>1. PICK front, p : /\ front = Head(queue) /\ p = TasksOf(queue) /\ queue # <<>>
                      /\ front = queue[1] /\ 1 \in 1..Len(queue)
                      /\ queue \in Seq(Tasks \cup {None})
  BY HeadTailProperties, LenProperties DEF GetFront, TypeOK
<1>2. /\ queue' = Tail(queue) /\ finished' = finished /\ pc[th] = "get"
      /\ life' = IF front = None THEN life ELSE [life EXCEPT ![front] = "taken"]
  BY <1>1 DEF GetFront, At
<1>3. IF front = None THEN TasksOf(queue)' = p
      ELSE p # <<>> /\ Head(p) = front /\ TasksOf(queue)' = Tail(p)
  BY <1>1, <1>2, TasksOfTail
<1>4. CASE front = None
  <2>1. Now' = Now /\ Ended' = Ended
    BY <1>2, <1>4 DEF Now, Ended
  <2> QED
    BY <1>1, <1>3, <1>4, <2>1, PoolStutters
<1>5. CASE front # None
  <2>1. front \in Tasks /\ life[front] = "queued" /\ ~finished[front]
    BY <1>1, <1>5, ElementOfSeq DEF QueueInv, TypeOK, FlagInv
  <2>2. \A t \in Tasks : life'[t] = IF t = front THEN "taken" ELSE life[t]
    BY <1>2, <1>5, <2>1 DEF TypeOK
  <2>3. Now' = Now \cup {front} /\ Ended' = Ended
    BY <1>2, <2>1, <2>2 DEF Now, Ended
  <2>4. Cardinality(Now) < MaxThreads
    BY <1>2, RoomForTask
  <2>5. Pool!Cardinality(Now) = Cardinality(Now)
    BY DEF Pool!Cardinality, Cardinality
  <2> QED
    BY <1>1, <1>3, <1>5, <2>3, <2>4, <2>5 DEF Pool!Begin, Now, Ended
<1> QED
  BY <1>4, <1>5

\* The end of base::run is Complete of the pool.
LEMMA RunReturnsCompletes ==
  ASSUME PoolInv, FlagInv, NEW th \in Threads, RunReturns(th)
  PROVE  \E t \in Tasks : Pool!Complete(t)
<1> USE TasksAssumption DEF PoolInv
<1>1. PICK t \in Tasks : t = hand[th] /\ life[t] = "taken" /\ ~finished[t]
  BY DEF RunReturns, At, HandInv, TypeOK, FlagInv
<1>2. /\ finished' = [finished EXCEPT ![t] = TRUE] /\ life' = life /\ queue' = queue
  BY <1>1 DEF RunReturns, poolVars
<1>3. \A u \in Tasks : finished'[u] <=> u = t \/ finished[u]
  BY <1>2 DEF TypeOK
<1>4. t \in Now /\ Now' = Now \ {t} /\ Ended' = Ended \cup {t}
  BY <1>1, <1>2, <1>3 DEF Now, Ended
<1>5. TasksOf(queue)' = TasksOf(queue)
  BY <1>2
<1> QED
  BY <1>4, <1>5 DEF Pool!Complete, Now, Ended

\* The other steps of the threads and of the shutdown are invisible.
LEMMA OthersStutter ==
  ASSUME PoolInv, FlagInv,
         \/ \E m \in MaxValues : SetMax(m)
         \/ \E th \in Threads : \/ GetEmpty(th) \/ Block(th) \/ SpuriousWake(th)
                                \/ Finish(th) \/ Delete(th) \/ Exit(th)
         \/ Shutdown \/ ShutdownStep \/ UNCHANGED vars
  PROVE  UNCHANGED Pool!poolState
<1> USE TasksAssumption DEF PoolInv
<1>1. TasksOf(queue)' = TasksOf(queue)
  <2>1. CASE PushPill
    <3>1. queue' = Append(queue, None) /\ queue \in Seq(Tasks \cup {None})
      BY <2>1 DEF PushPill, TypeOK
    <3>2. TasksOf(queue') = Taken(TasksOf(queue), None)
      BY <3>1, TasksOfAppend
    <3> QED
      BY <3>2 DEF Taken
  <2>2. CASE ~PushPill
    <3>1. queue' = queue
      BY <2>2 DEF SetMax, GetEmpty, Block, SpuriousWake, Finish, Delete, Exit, Shutdown,
         ShutdownStep, CountPill, NotifyPill, PillsPushed, Drained, poolVars, vars
    <3> QED
      BY <3>1
  <2> QED
    BY <2>1, <2>2
<1>2. finished' = finished
  BY DEF SetMax, GetEmpty, Block, SpuriousWake, Finish, Delete, Exit, Shutdown, ShutdownStep,
     PushPill, CountPill, NotifyPill, PillsPushed, Drained, threadVars, vars
<1>3. Now' = Now
  <2>1. ASSUME NEW th \in Threads, Delete(th) PROVE Now' = Now
    <3>1. hand[th] \in Tasks /\ finished[hand[th]]
      BY <2>1 DEF Delete, At, HandInv, TypeOK
    <3>2. \A t \in Tasks : life'[t] = IF t = hand[th] THEN "deleted" ELSE life[t]
      BY <2>1, <3>1 DEF Delete, TypeOK
    <3> QED
      BY <1>2, <3>1, <3>2 DEF Now
  <2>2. CASE ~\E th \in Threads : Delete(th)
    <3>1. life' = life
      BY <2>2 DEF SetMax, GetEmpty, Block, SpuriousWake, Finish, Exit, Shutdown,
         ShutdownStep, PushPill, CountPill, NotifyPill, PillsPushed, Drained, threadVars, vars
    <3> QED
      BY <1>2, <3>1 DEF Now
  <2> QED
    BY <2>1, <2>2
<1> QED
  BY <1>1, <1>2, <1>3, PoolStutters DEF Ended

\* The thread pool, with its mutex, condition variable, exit orders and
\* deletions, implements the promise of a task queue for every number of tasks
\* and threads: a task begins once, in the order of core::start, completes
\* once, and no more tasks are executed than there are threads.
THEOREM CoreImplementsTaskPool ==
  Spec => ImplementsTaskPool
<1>1. Init => Pool!Init
  <2> SUFFICES ASSUME Init PROVE Pool!Init
    OBVIOUS
  <2>1. queue = <<>> /\ <<>> \in Seq(Tasks \cup {None}) /\ Len(<<>>) = 0
    BY DEF Init
  <2>2. PICK g : Lists(g, queue) /\ TasksOf(queue) = g[Len(queue)]
    BY <2>1, TasksOfLists
  <2>3. TasksOf(queue) = <<>>
    BY <2>1, <2>2 DEF Lists
  <2>4. Now = {} /\ Ended = {}
    BY DEF Init, Now, Ended
  <2> QED
    BY <2>3, <2>4 DEF Pool!Init, Now, Ended
<1>2. PoolInv /\ FlagInv /\ [Next]_vars => [Pool!Next]_(Pool!poolState)
  <2> SUFFICES ASSUME PoolInv, FlagInv, [Next]_vars
               PROVE  Pool!Next \/ UNCHANGED Pool!poolState
    OBVIOUS
  <2>1. ASSUME NEW t \in Tasks, Start(t) PROVE Pool!Next
    BY <2>1, StartSubmits DEF Pool!Next
  <2>2. ASSUME NEW th \in Threads, GetFront(th)
        PROVE  Pool!Next \/ UNCHANGED Pool!poolState
    BY <2>2, GetFrontBegins DEF Pool!Next
  <2>3. ASSUME NEW th \in Threads, RunReturns(th) PROVE Pool!Next
    BY <2>3, RunReturnsCompletes DEF Pool!Next
  <2> QED
    BY <2>1, <2>2, <2>3, OthersStutter DEF Next, Working
<1> QED
  BY <1>1, <1>2, PoolInvariant, FlagInvariant, PTL DEF Spec, ImplementsTaskPool, Pool!Spec
=============================================================================
