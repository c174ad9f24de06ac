-------------------------------- MODULE Core --------------------------------
(***************************************************************************)
(* The thread pool of arken: concurrent/core.cpp, with the finished flag   *)
(* of concurrent/base.cpp and mvm::shutdown.                               *)
(*                                                                         *)
(* One mutex protects the pool.  A critical section is one action, with    *)
(* one exception: core::get evaluates the predicate of its wait and then   *)
(* blocks, both while it owns the mutex, and core::shutdown pushes,        *)
(* counts and notifies WITHOUT the mutex, so it can run in between.  The   *)
(* variable mutex exists to show that window.                              *)
(***************************************************************************)
EXTENDS Integers, Sequences, FiniteSets

CONSTANTS
  Tasks,        \* the concurrent::base objects clients hand to core::start
  MaxThreads,   \* bound on the number of threads ever spawned
  MaxValues,    \* the values m_max takes: os::cores() and core.max(n) of Lua
  None          \* nullptr: no task; in the queue, the order to exit

ASSUME MaxAssumption ==
  /\ MaxThreads \in Nat \ {0}
  /\ MaxValues \subseteq 1..MaxThreads
  /\ MaxValues # {}
ASSUME TasksAssumption == None \notin Tasks

VARIABLES
  queue,     \* m_queue: tasks, and None for each exit order
  mutex,     \* 0, or the thread that owns m_mutex across two steps
  workers,   \* m_workers.size(): threads 1..workers have been spawned
  actives,   \* m_actives; uint32, the code only compares it for equality
             \*   (with 0 and with workers), so 2^32 - 1 is written -1
  max,       \* m_max
  waiting,   \* keys of m_waiting
  running,   \* m_running: thread -> task, None when it has no entry
  pc,        \* where each thread is in core::working
  hand,      \* the unique_ptr local to core::working
  life,      \* "new", "queued", "taken" or "deleted", for each object
  finished,  \* the m_finished flag, which outlives the object
  main,      \* where the main thread is: its script, then core::shutdown
  pills,     \* the loop counter i of core::shutdown
  events     \* history: unusual things that have happened (see below)

poolVars == <<queue, mutex, workers, actives, max, waiting, running>>
threadVars == <<pc, hand, life, finished>>
mainVars == <<main, pills, events>>
vars == <<poolVars, threadVars, mainVars>>

Threads == 1..MaxThreads

(***************************************************************************)
(* The events a property may have to exclude:                              *)
(*   "raised"  m_max was raised above workers while actives > workers      *)
(*   "late"    core::start was called after core::shutdown began           *)
(*   "lost"    shutdown notified while the only thread it could wake had   *)
(*             tested the predicate but had not blocked yet                *)
(***************************************************************************)
Events == {"raised", "late", "lost"}
Record(e, condition) ==
  events' = IF condition THEN events \cup {e} ELSE events

Init ==
  /\ queue = <<>>
  /\ mutex = 0
  /\ workers = 0
  /\ actives = 0
  /\ max \in MaxValues
  /\ waiting = {}
  /\ running = [th \in Threads |-> None]
  /\ pc = [th \in Threads |-> "none"]
  /\ hand = [th \in Threads |-> None]
  /\ life = [t \in Tasks |-> "new"]
  /\ finished = [t \in Tasks |-> FALSE]
  /\ main = "script"
  /\ pills = 0
  /\ events = {}

-----------------------------------------------------------------------------

At(th, label) == th \in Threads /\ pc[th] = label
Blocked == {th \in Threads : pc[th] = "wait"}

\* std::condition_variable::notify_one applied to the program counters p:
\* one of the blocked threads, if there is one, goes back to the mutex.
NotifyOne(p) ==
  IF Blocked = {}
  THEN pc' = p
  ELSE \E th \in Blocked : pc' = [p EXCEPT ![th] = "get"]

\* Lua code runs in the main thread until it calls shutdown, and in a thread
\* of the pool while that thread executes base::run.
LuaRuns == main = "script" \/ \E th \in Threads : pc[th] = "run"

\* The test for a new thread in core::start.
NeedsThread == workers < max /\ workers - actives = 0

Spawned == IF NeedsThread THEN [pc EXCEPT ![workers + 1] = "get"] ELSE pc

\* Mutants of core::start: a pool that counts the queue instead of the active
\* tasks, one that forgets to notify, one that forgets the waiting map.
Start_QueueTest(t) ==
  /\ LuaRuns /\ mutex = 0 /\ life[t] = "new"
  /\ LET spawn == workers < max /\ (queue # <<>> \/ workers = 0)
     IN  /\ workers' = IF spawn THEN workers + 1 ELSE workers
         /\ NotifyOne(IF spawn THEN [pc EXCEPT ![workers + 1] = "get"] ELSE pc)
  /\ queue' = Append(queue, t)
  /\ actives' = actives + 1
  /\ waiting' = waiting \cup {t}
  /\ life' = [life EXCEPT ![t] = "queued"]
  /\ Record("late", main # "script")
  /\ UNCHANGED <<mutex, max, running, hand, finished, main, pills>>

Start_NoNotify(t) ==
  /\ LuaRuns /\ mutex = 0 /\ life[t] = "new"
  /\ workers' = IF NeedsThread THEN workers + 1 ELSE workers
  /\ queue' = Append(queue, t)
  /\ pc' = Spawned
  /\ actives' = actives + 1
  /\ waiting' = waiting \cup {t}
  /\ life' = [life EXCEPT ![t] = "queued"]
  /\ Record("late", main # "script")
  /\ UNCHANGED <<mutex, max, running, hand, finished, main, pills>>

\* core::start(ptr), called by Lua code.
Start(t) ==
  /\ LuaRuns
  /\ mutex = 0
  /\ life[t] = "new"
  /\ workers' = IF NeedsThread THEN workers + 1 ELSE workers
  /\ queue' = Append(queue, t)
  /\ NotifyOne(Spawned)
  /\ actives' = actives + 1
  /\ waiting' = waiting \cup {t}
  /\ life' = [life EXCEPT ![t] = "queued"]
  /\ Record("late", main # "script")
  /\ UNCHANGED <<mutex, max, running, hand, finished, main, pills>>

\* core.max(n) of the Lua binding.
SetMax(m) ==
  /\ LuaRuns
  /\ max # m
  /\ max' = m
  /\ Record("raised", m > workers /\ actives > workers)
  /\ UNCHANGED <<queue, mutex, workers, actives, waiting, running,
                 threadVars, main, pills>>

-----------------------------------------------------------------------------

\* Mutant: the front is read but not popped.
GetFront_NoPop(th) ==
  LET front == Head(queue) IN
  /\ At(th, "get") /\ mutex = 0 /\ queue # <<>>
  /\ hand' = [hand EXCEPT ![th] = front]
  /\ pc' = [pc EXCEPT ![th] = IF front = None THEN "pill" ELSE "run"]
  /\ waiting' = waiting \ {front}
  /\ running' = [running EXCEPT ![th] = front]
  /\ life' = [t \in Tasks |-> IF t = front THEN "taken" ELSE life[t]]
  /\ UNCHANGED <<queue, mutex, workers, actives, max, finished, mainVars>>

\* core::get with a non-empty queue: pop, and publish the task as running.
GetFront(th) ==
  LET front == Head(queue) IN
  /\ At(th, "get")
  /\ mutex = 0
  /\ queue # <<>>
  /\ queue' = Tail(queue)
  /\ hand' = [hand EXCEPT ![th] = front]
  /\ IF front = None
     THEN /\ pc' = [pc EXCEPT ![th] = "pill"]
          /\ UNCHANGED <<waiting, running, life>>
     ELSE /\ pc' = [pc EXCEPT ![th] = "run"]
          /\ waiting' = waiting \ {front}
          /\ running' = [running EXCEPT ![th] = front]
          /\ life' = [life EXCEPT ![front] = "taken"]
  /\ UNCHANGED <<mutex, workers, actives, max, finished, mainVars>>

\* core::get with an empty queue: the predicate is false, the thread is about
\* to block and still owns the mutex.
GetEmpty(th) ==
  /\ At(th, "get")
  /\ mutex = 0
  /\ queue = <<>>
  /\ mutex' = th
  /\ pc' = [pc EXCEPT ![th] = "block"]
  /\ UNCHANGED <<queue, workers, actives, max, waiting, running,
                 hand, life, finished, mainVars>>

\* condition.wait(lck): release the mutex and join the wait set in one step.
Block(th) ==
  /\ At(th, "block")
  /\ mutex' = 0
  /\ pc' = [pc EXCEPT ![th] = "wait"]
  /\ UNCHANGED <<queue, workers, actives, max, waiting, running,
                 hand, life, finished, mainVars>>

\* A spurious wake-up, against which the wait has a predicate.
SpuriousWake(th) ==
  /\ At(th, "wait")
  /\ pc' = [pc EXCEPT ![th] = "get"]
  /\ UNCHANGED <<poolVars, hand, life, finished, mainVars>>

\* ptr->run() returns and ptr->finished(true).
RunReturns(th) ==
  /\ At(th, "run")
  /\ pc' = [pc EXCEPT ![th] = "finish"]
  /\ finished' = [finished EXCEPT ![hand[th]] = TRUE]
  /\ UNCHANGED <<poolVars, hand, life, mainVars>>

\* Mutants of the end of a round: the running entry survives its object; the
\* counter of active tasks is not given back.
Finish_KeepRunning(th) ==
  /\ At(th, "finish") /\ mutex = 0
  /\ actives' = actives - 1
  /\ pc' = [pc EXCEPT ![th] = "delete"]
  /\ UNCHANGED <<queue, mutex, workers, max, waiting, running,
                 hand, life, finished, mainVars>>

Finish_NoCount(th) ==
  /\ At(th, "finish") /\ mutex = 0
  /\ running' = [running EXCEPT ![th] = None]
  /\ pc' = [pc EXCEPT ![th] = "delete"]
  /\ UNCHANGED <<queue, mutex, workers, actives, max, waiting,
                 hand, life, finished, mainVars>>

\* The locked end of a round of core::working.
Finish(th) ==
  /\ At(th, "finish")
  /\ mutex = 0
  /\ running' = [running EXCEPT ![th] = None]
  /\ actives' = actives - 1
  /\ pc' = [pc EXCEPT ![th] = "delete"]
  /\ UNCHANGED <<queue, mutex, workers, max, waiting,
                 hand, life, finished, mainVars>>

\* Leaving the scope of a round: the lock goes first, then the unique_ptr
\* deletes the object, without the mutex.
Delete(th) ==
  /\ At(th, "delete")
  /\ life' = [life EXCEPT ![hand[th]] = "deleted"]
  /\ hand' = [hand EXCEPT ![th] = None]
  /\ pc' = [pc EXCEPT ![th] = "get"]
  /\ UNCHANGED <<poolVars, finished, mainVars>>

\* Mutant: a thread that took nullptr returns without counting itself out.
Exit_NoCount(th) ==
  /\ At(th, "pill") /\ mutex = 0
  /\ pc' = [pc EXCEPT ![th] = "exit"]
  /\ UNCHANGED <<poolVars, hand, life, finished, mainVars>>

\* A thread that took nullptr counts itself out and returns.
Exit(th) ==
  /\ At(th, "pill")
  /\ mutex = 0
  /\ actives' = actives - 1
  /\ pc' = [pc EXCEPT ![th] = "exit"]
  /\ UNCHANGED <<queue, mutex, workers, max, waiting, running,
                 hand, life, finished, mainVars>>

-----------------------------------------------------------------------------

\* main: the script returned, mvm::shutdown is called.
Shutdown ==
  /\ main = "script"
  /\ main' = "push"
  /\ UNCHANGED <<poolVars, threadVars, pills, events>>

\* Mutant: the exit order enters m_waiting too, as core::start(nullptr) would.
PushPill_AsTask ==
  /\ main = "push" /\ pills < workers
  /\ queue' = Append(queue, None)
  /\ waiting' = waiting \cup {None}
  /\ main' = "count"
  /\ UNCHANGED <<mutex, workers, actives, max, running,
                 threadVars, pills, events>>

\* One round of the loop over the workers, three steps, none of them locked.
PushPill ==
  /\ main = "push"
  /\ pills < workers
  /\ queue' = Append(queue, None)
  /\ main' = "count"
  /\ UNCHANGED <<mutex, workers, actives, max, waiting, running,
                 threadVars, pills, events>>

CountPill ==
  /\ main = "count"
  /\ actives' = actives + 1
  /\ main' = "notify"
  /\ UNCHANGED <<queue, mutex, workers, max, waiting, running,
                 threadVars, pills, events>>

NotifyPill ==
  /\ main = "notify"
  /\ NotifyOne(pc)
  /\ Record("lost", Blocked = {} /\ \E th \in Threads : pc[th] = "block")
  /\ pills' = pills + 1
  /\ main' = "push"
  /\ UNCHANGED <<poolVars, hand, life, finished>>

PillsPushed ==
  /\ main = "push"
  /\ pills >= workers
  /\ main' = "spin"
  /\ UNCHANGED <<poolVars, threadVars, pills, events>>

\* Mutant: shutdown does not wait for the threads.
Drained_NoWait ==
  /\ main = "spin"
  /\ main' = "done"
  /\ UNCHANGED <<poolVars, threadVars, pills, events>>

\* while( actives() > 0 ) sleep; then the threads are detached.
Drained ==
  /\ main = "spin"
  /\ actives = 0
  /\ main' = "done"
  /\ UNCHANGED <<poolVars, threadVars, pills, events>>

-----------------------------------------------------------------------------

Working(th) ==
  \/ GetFront(th) \/ GetEmpty(th) \/ Block(th)
  \/ RunReturns(th) \/ Finish(th) \/ Delete(th) \/ Exit(th)

ShutdownStep == PushPill \/ CountPill \/ NotifyPill \/ PillsPushed \/ Drained

Next ==
  \/ \E t \in Tasks : Start(t)
  \/ \E m \in MaxValues : SetMax(m)
  \/ \E th \in Threads : Working(th) \/ SpuriousWake(th)
  \/ Shutdown
  \/ ShutdownStep

Spec == Init /\ [][Next]_vars

\* A runnable thread is scheduled, a released mutex is acquired by a thread
\* that wants it, base::run returns, and spurious wake-ups do not go on for
\* ever.  Nothing obliges Lua code to start tasks or to end the script.
Fairness ==
  /\ \A th \in Threads : WF_vars(Working(th))
  /\ WF_vars(ShutdownStep)
  /\ <>[][\A th \in Threads : ~SpuriousWake(th)]_vars

LiveSpec == Spec /\ Fairness

-----------------------------------------------------------------------------

Labels == {"none", "get", "block", "wait", "run", "finish", "delete", "pill",
           "exit"}

TypeOK ==
  /\ queue \in Seq(Tasks \cup {None})
  /\ mutex \in Threads \cup {0}
  /\ workers \in 0..MaxThreads
  /\ actives \in Int
  /\ max \in MaxValues
  /\ waiting \subseteq Tasks
  /\ running \in [Threads -> Tasks \cup {None}]
  /\ pc \in [Threads -> Labels]
  /\ hand \in [Threads -> Tasks \cup {None}]
  /\ life \in [Tasks -> {"new", "queued", "taken", "deleted"}]
  /\ finished \in [Tasks -> BOOLEAN]
  /\ main \in {"script", "push", "count", "notify", "spin", "done"}
  /\ pills \in Nat
  /\ events \subseteq Events

\* Threads that hold something m_actives counts.
Busy == {th \in Threads : pc[th] \in {"run", "finish", "pill"}}

\* m_actives counts what is queued and what threads hold, except that
\* shutdown publishes an exit order one step before it counts it: a thread
\* quick enough to take that order drives the unsigned counter below zero.
Accounting ==
  actives = Len(queue) + Cardinality(Busy) - (IF main = "count" THEN 1 ELSE 0)

\* While the pool may still grow, core::start never leaves a task queued
\* without a thread that is free to take it - unless core.max was raised
\* during a backlog, where the test for equality in start stays false.
Free == {th \in Threads : pc[th] \in {"get", "block", "wait", "delete"}}
NoNeedlessQueueing ==
  (main = "script" /\ workers < max /\ "raised" \notin events)
    => Len(queue) <= Cardinality(Free)

\* No lost wake-up among clients of the mutex: as long as a thread sleeps,
\* every queued task has another thread on its way to take it.
NoLostWakeup ==
  (main = "script" /\ Blocked # {})
    => Len(queue) <= Cardinality({th \in Threads : pc[th] = "get"})

\* The running map, which start and working share, never keeps a pointer to
\* a deleted object, and no two threads own one object.
RunningAlive ==
  /\ \A th \in Threads : running[th] # None =>
       life[running[th]] = "taken" /\ running[th] = hand[th]
  /\ \A a, b \in Threads : a # b /\ hand[a] # None => hand[a] # hand[b]

\* The waiting map lists exactly the queued tasks.
WaitingIsQueued == waiting = {t \in Tasks : life[t] = "queued"}

\* When core::shutdown returns, every task ever started has finished.
ShutdownDrains ==
  main = "done" => \A t \in Tasks : life[t] # "new" => finished[t]

\* The tasks of a queue, in order and without the exit orders.
TasksOf(q) ==
  LET First[i \in 0..Len(q)] ==
        IF i = 0 THEN <<>>
        ELSE IF q[i] = None THEN First[i - 1] ELSE Append(First[i - 1], q[i])
  IN  First[Len(q)]

\* The pool implements the abstract TaskPool: exit orders, locks and deletion
\* are invisible, each task begins once in the order of core::start and
\* finishes once.
Pool == INSTANCE TaskPool WITH
  Width <- MaxThreads,
  pending <- TasksOf(queue),
  executing <- {t \in Tasks : life[t] = "taken" /\ ~finished[t]},
  completed <- {t \in Tasks : finished[t]}
ImplementsTaskPool == Pool!Spec

\* A task started before the shutdown is served, even if the shutdown begins
\* while it is queued.
TaskServed ==
  \A t \in Tasks : (life[t] = "queued" /\ main = "script") ~> finished[t]

\* core::shutdown returns, unless a wake-up of its own was lost or a task
\* was started behind its back.
ShutdownReturns ==
  main = "push" ~> (main = "done" \/ "lost" \in events \/ "late" \in events)
=============================================================================
