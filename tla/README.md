# A verification project for arken

arken is a Lua application platform written in C++: one process holds a pool of
threads, a pool of Lua states, several ways of running Lua scripts on them
(tasks, five kinds of scheduled tasks, channels, workers, services), shared
structures (locks, a cache, a log, `mvm.Shared`), an HTTP server, and Lua
libraries on top (ActiveRecord, controllers, templates).

The part that is hard to get right and hardly tested is the concurrent runtime:
`src/src/arken/concurrent/` and `src/src/arken/mvm.cpp`. No test of the
repository exercises it. This project models it in TLA+, checks it with TLC and
proves its safety properties with TLAPS. The record layer on
top of it, ActiveRecord, is modelled too: it is sequential, but keeps three
tables of copies that transactions must not leave behind.

Contents: 1 inventory, 2 plan, 3 the modules and the code, 4 runs, 5 bounds,
6 fairness, 7 proofs, 8 what the checks showed about the code, 9 what is not
modelled.

## 1. Inventory

| Component | State | Operations | What makes it correct |
|---|---|---|---|
| Thread pool, `concurrent/core.cpp` | queue of tasks, threads, `actives`, `max`, maps of waiting and running tasks, one mutex and one condition variable | `start` (any Lua thread), `get`/`working` (pool threads), `max`, `shutdown` (main thread, without the mutex) | each task runs exactly once, in order; a queued task does not wait while a thread could take it; counters exact; no deleted object reachable; `shutdown` drains and returns |
| fifo, priority tasks, `concurrent/task/{fifo,priority}.cpp` | queue or heap of nodes, `actives`, `max`, running map | `start`, runner loop (`run`, `dequeue`, `node::run`), destructor, `max` | order; every node gets executed; runners counted exactly |
| balanced, scheduled, singular tasks | a queue per name, the vector of names, a position in it, `actives`, runners per name | `start` (singular also `emplace`, `place`), runner loop, `max` | fairness between names; nodes of a singular name exclude each other; structures agree; position valid; nobody stranded |
| Channel, `concurrent/channel.cpp` | two queues with mutex and condition, shared `finished` | `write`, `read`, `empty`, `wait`, end of `run` | no message lost or reordered, the end announced after the last message, nobody waits for nothing |
| mvm, `mvm.cpp` | container of Lua states, `s_pool`, `s_version`, `s_gc`, the map from threads to their current state | `getInstance`, `~instance`, `reload`, `gc`, `clear`, `current`, `inspect`, `wait` | a state has one owner; no outdated state reaches a script; counters exact; operations return |
| Worker, `concurrent/worker.cpp` | shared queue of items, progress counters | `run`, `enqueue`, `dequeue`, nodes on the pool or on threads of their own | every item handled before the stop script; nodes do not outlive the worker; the worker ends |
| Lock and `named_ptr` | counted registry of named mutexes; a count per object | `new`, `__gc`, `enable`, `disable`, `call`, `pcall` | mutual exclusion by name, released on every path |
| Service | `s_references`, `s_version`, `s_dirName`; version and stop flag per object | `start`, `load`, `run`, `checkReload`, `reload`, `loop`, `stop` | one service per file, restarted after a reload; new files get one |
| Cache, log, `mvm.Shared` | locked maps and buffers | insert, value, remove, gc; append, dump; get, put, increment | entries alive while used, no lost update, no lost line |
| ActiveRecord (Lua) | identity cache, clean copies, pending list, save points | find, all, reload, create, update, destroy, clear, begin, commit, rollback | clean copies agree with the rows; a save that is skipped was not needed |
| HTTP server | number of clients, connections | accept, handler | the limit holds and the server keeps accepting |

Interaction: schedulers, channels, workers and services are all objects handed
to `core::start`; their `run()` takes a Lua state with `mvm::getInstance` and
gives it back when it ends. Clients talk to a running script through the shared
`finished` flag, channel queues and `mvm.Shared`. `main` ends with
`mvm::shutdown`, that is `core::shutdown`.

Hard behaviours, each listed with its line in `PROJECT.json` under `hazards`:
accesses outside the mutex (`core::shutdown`, destructors of runners, the
decrement in `scheduled::node::run`, `channel::write`), check-then-act pairs
(`mvm::clear`, `channel::read` against the end of `run`), counters that wrap,
positions into a vector that shrinks, the empty string used as "no name", waits
that need a partner, and operations started while the process shuts down.

## 2. Plan

Done, in this order (the most used component first):

1. `Core` with the abstract `TaskPool`, its runs and `CoreProofs`.
2. `Runners` and `Fifo`, `Priority`; `NamedQueues` and `Balanced`, `Scheduled`,
   `Singular`. Each relies on `Core` only for "an object given to `core::start`
   is run once", which is what `TaskPool` says and `TaskServed` checks.
   `SingularProofs` proves the promise of `Singular`.
3. `Channel`.
4. `Mvm`.
5. `Worker`, composed with the abstract pool `TaskPool`, which `Core` is shown
   to implement.
6. `Lock` with the registry of `named_ptr`.
7. `Service`.
8. `ActiveRecord`.

9. Proofs of the safety invariants: `CoreProofs`, `SingularProofs`,
   `LockProofs`, `ActiveRecordProofs`, `ChannelProofs`, `MvmProofs`,
   `FifoProofs` (with the refinement of `TaskPool`) and `WorkerProofs`.
10. Proofs of `Priority` (in `FifoProofs`), `Scheduled` and `Balanced` (in
    `SingularProofs`) and `Service` (in `LockProofs`), and of the refinement of
    `TaskPool` by `Core`. With these every safety property of a run is a theorem.

Next:

11. `Log`, on the registry that `Lock` models; the client limit of the HTTP
    server; pure functions of `string.cpp`, `utf8.cpp` and `chrono` against
    reference definitions.

## 3. The modules and the code

The map from definitions to source lines is in `PROJECT.json` under `map`;
definitions named `X_...` just before a definition `X` are mutated forms of it,
used to show that a property can fail.

**Core** (`core.cpp`, `base.cpp`). A critical section is one action. The
exceptions are what the module is about: `core::get` tests the predicate of its
wait and blocks in two steps while it owns the mutex (`GetEmpty`, `Block`), and
`core::shutdown` pushes a pill (`PushPill`), counts it (`CountPill`) and
notifies (`NotifyPill`) without the mutex, so it can step in between. `working`
is `GetFront`, `RunReturns`, `Finish`, `Delete`, and `Exit` for a pill; the
object is deleted after the mutex is released, hence `Delete` is a step of its
own. Lua code calls `Start` and `SetMax` from the main script and from running
tasks, also during shutdown. `events` records the three unusual events that
some properties must exclude, each of which really breaks them: `raised` (max
raised during a backlog), `late` (a start during shutdown), `lost` (a
notification of shutdown that met a thread between test and block).

**TaskPool** says what a pool promises: tasks begin in the order they were
submitted, once, at most `Width` at a time, and complete once.

**Runners** is the life of a runner object, common to the five schedulers.
**Fifo** and **Priority** count a runner out in its destructor (`Delete`, outside
the mutex); **Balanced**, **Scheduled** and **Singular** count it out in
`dequeue`. **NamedQueues** holds `map`, `vector`, `position` and `push`. The
critical sections of `start` and `dequeue` are one action each; `dequeue` is
split by its outcome. The loops of `dequeue` are `Visit` (the order in which
names are looked at) and the first index that satisfies their condition. In
`Scheduled`, `node::run` ends in two steps, because it changes `runners()`
before it takes the mutex (`RunNode`, `Clean`). `running` and the order of the
erasure at the end of a round are kept.

**Channel**: both ends are channel objects with the queues crossed, so one
operator per method takes the end as a parameter. `write` is `Write` (test of
the flag) and `WritePush`; `read` is `ReadFinished`, `ReadMessage`, `ReadWait`,
`ReadWake`; the end of `run` is `ScriptEnds`, `WriteEnd`, `SetFinished`.

**Mvm**: each change of the container, of `s_pool`, `s_version` and `s_gc` is a
step; a read of `s_version` or `s_gc` is one with the push or the construction
that uses it (`Back`, `ReloadTest`, `New`), since `getInstance` compares again.
The operations share `mvm::pop`, `mvm::push` and `mvm::back`; `op` and `ret` say
whose call it is and where it returns. `s_pool` is arithmetic modulo `Width`.

**Worker** (`worker.cpp`, `worker/mvm.cpp`, `worker/standalone.cpp`). Workers and
their nodes are tasks of an instance of `TaskPool`: `Start` and `StartNode` are
its `Submit`, `Take` its `Begin`, and the ends of `run()` its `Complete`. The
variable `build` chooses between the nodes of the mvm build, which are tasks of
the same pool, and those of the standalone build, which have threads. `Wait` is
the poll loop of `perform` (or its joins); the worker stays in `executing`.
`node::run` is `Dequeue`, `Increment` (the run script in between may fail) and
`NodeEnds`. A start script that fails reaches `luaL_error` outside a protected
call, which ends the process: there is no such step.

**Lock** (`lock.cpp`, `named_ptr.h`, the binding). One name, several scripts,
several objects per script. `enable` is `EnableNested`, `EnableLocks` (the count
is raised first) followed by `Acquire` (the mutex), or `EnableRefused`; `call`
and `pcall` enter with the same actions and push a frame, which `BodyReturns` or
`BodyFails` pops. `Gc` takes a reference away and, with the last one, the mutex.
History: `misused` (objects on which a call raised an error) and `kept` (enables
that only the script can undo: by `enable`, or by a `call` whose body failed).

**Service** (`service.cpp`, the binding). A slot is a service with the copies it
restarts as. The test of a reference (`Look`) and the start (`StartFound`) are
two steps, as are the test of the file (`Gone`) and `Erase`, because no lock
spans them; `CheckReload` is one, under `s_mutex`. `Main` is the thread in
`load`. `stop()` is taken at the end of the script, since it is not looked at
before. History: `outdated` holds the scans for whose found file somebody else
has started a service since they looked; `doubled` the files for which Lua, which
never looks, or such a scan started a service although they had one; `unseen`.
A scan that was not overtaken is not excused: `OneService` fails if it starts a
second service, as it does when `Look` ignores `s_references` or a restart
erases the reference.

**ActiveRecord** (`ActiveRecord.lua`, `Adapter.lua`, the adapters of SQLite and
PostgreSQL; MySQL has SQLite's code in the modelled parts). A row is one value.
`row` is the table as the connection sees it and `base` what ROLLBACK returns
to; `cache`, `neat`, `pending` and `savePoint` are the adapter's. `Update` is
`UpdateNeat` (SQLite: always writes) or `UpdateSame`/`UpdatePending`
(PostgreSQL: writes what differs from `Baseline`). `find` by key is `FindNeat`
or `FindRow`; a record in the cache is returned without a step. The content of
cached objects is left out, because scripts may change it before each save.
`begin`, `commit` and `rollback` may come at any time, as in the code: the tables
are forgotten before the statement is executed, so also when there is no
transaction (after a lost connection, or without a begin) and when COMMIT fails
(`CommitFails`). In the test environment `commit` executes nothing and may make
`savePoint` negative, after which `begin` executes nothing either
(`BeginNothing`). What a statement without a transaction, or a BEGIN inside one,
does is SQLite's and PostgreSQL's answer: an error or a warning, and no change.
History: `outside`, `inside` and `spoiled`, which follow from the calls only,
never from the copies.

## 4. Runs

| Run | Shows |
|---|---|
| `core` | `Accounting`: `actives` is the number of queued and held tasks, and -1 (that is 2^32 - 1) is reachable for one step of shutdown. `NoNeedlessQueueing`: while the pool may grow, every queued task has a free thread. `NoLostWakeup`: while a thread sleeps, every queued task has another thread on its way. `RunningAlive`: no deleted object in the running map, no object in two threads. `ShutdownDrains`: `shutdown` returns only after everything ever started, late tasks included, has finished. `TaskServed`: what was started before the shutdown finishes. `ShutdownReturns`, except after `lost` or `late`. `Core` implements `TaskPool` (`ImplementsTaskPool`). |
| `fifo` | `Consistent`, `NodeServed`, and `Fifo` implements `TaskPool` too. |
| `priority` | `Consistent`; `NoInversion`: no node is taken while one that should go first waits; `NodeServed`. |
| `balanced` | `Consistent`: counts, map and vector agree, a waiting node has a runner to come. `NoDoubleOvertake`: while a name waits, no other name is served twice. `NodeServed`. |
| `scheduled` | `Consistent`, with the position in range, `runners()` exact, and a name without nodes and runners only while the node that removes it waits for the mutex. `NodeServed`. |
| `singular` | `MutualExclusion` of nodes of a name; `NameInUse`: `place` refuses exactly when a node of the name is unfinished; `Consistent`; `NodeServed`. |
| `channel` | `EndMeansAll`: who reads "channel is finished" has read everything, in order. `WaitsForSomething`: no reader sleeps next to a message; after the end only a reader that went on past it can be blocked. `ClientReturns`: who waits for ever faces a partner that waits for ever. |
| `mvm` | `Ownership`: a Lua state is in the pool once or in one thread, never leaked, and `current()` is the caller's own. `PoolCount`: `s_pool` is exact up to the steps in flight and the phantom pops of `clear`. `FreshInstance`: no script gets a state older than the version at its call. `OperationReturns`. |
| `worker` | `StopAfterAll`: the stop script finds every item handled and `progress` equal to `total`. `MasterAlive`: the worker object is not finished with while a node waits or runs. `WorkerReturns`, except when every thread of the pool belongs to a worker that waits for a node in the queue (`Saturated`, mvm build only). |
| `lock` | `Protected`: whoever was let in by an object without errors owns the mutex. `Released`: the mutex becomes free again unless the script or a failed `call` keeps it, or its thread waits for it through another object. |
| `service` | `OneService`: one service per file, with a reference, except where Lua starts a second one or a scan is overtaken between its look and its start. `FileServed`: after a reload that a running script sees, a file gets its service, except those in `unseen`. |
| `active_record` | `CleanCopyIsRow`: what `changes()` and `update` compare with is the row, except for spoiled keys. `SkippedSaveIsSaved`: PostgreSQL's `update` leaves out only what the row holds already. |

Every property has a mutant of the code that violates it under the same
configuration (`mutants` in `PROJECT.json`).

## 5. Bounds

- `Core`: three tasks, three threads, `max` 1 or 3. Growing, a full pool, a
  backlog, a raise of `max` during a backlog, and pills that meet sleeping
  threads and one that has tested but not blocked all occur.
- `Fifo`: four nodes, two runners. `Priority`: three nodes, two priorities, a
  clock that advances by 0 or 1 with each start.
- `Balanced` and `Singular`: four nodes, two names and the empty name, two
  runners. `Scheduled`: three nodes, names and runners. The vector then holds
  three names, and names before and after the position are erased.
- `Channel`: three calls of `write` at each end.
- `Mvm`: two threads, four calls (`MaxCalls`), eight objects (more than four
  calls can use), `Width` 8 in place of 2^32, so that the counter wraps below
  zero as the code's does.
- `Worker`: two workers, a pool of two threads, up to three items and two nodes
  each: the pool can be full of workers, and of nodes.
- `Lock`: two scripts, two objects, counts from -1 (`MaxMisuse`) to 2, two
  nested bodies. Two objects of one script, one in each, a re-entrant and a
  plain one all occur.
- `Service`: two files, three services, one raise of the version, three events
  (`MaxEvents`: files that come or go, at most one start by Lua). A file can go
  and come back while another service scans.
- `ActiveRecord`: one key and three values; up to two begins without an end, and
  as many commits without a begin, in the test environment. Keys meet only
  where commit, rollback and `clear` forget all of them at once, so a second key
  adds no case.

Symmetry is not used. Nodes, runners, slots and Lua states that do not exist yet
are taken in a fixed order (`IsNext`, `SpawnIf`, `Fresh`, the `CHOOSE` of
`StartService`): they are alike, so this loses nothing and is sound for liveness
too.

Deadlock checking is off everywhere but in `active_record`: a finite set of tasks, nodes or calls is
used up and the system then rests, which is its normal state. Waiting that
should end is covered by the liveness properties.

## 6. Fairness

- Pool threads keep running and get the mutex they want, and `base::run` (the
  script of a task) returns: weak fairness of each thread's `Working`.
- `shutdown`, once called, keeps running.
- Spurious wake-ups do not go on for ever.
- Schedulers: weak fairness of each runner, which is what `TaskServed` gives an
  object handed to the pool.
- Channel: the server's script goes on and comes to its end; a client inside
  `write`, `read` or `wait` goes on. Nothing makes a client read or write.
- Mvm: a thread inside an operation goes on; scripts owe nothing.
- Worker: the pool takes a task when it has a free thread, scripts return.
- Lock: each body ends however many others it runs inside (strong fairness for
  each nesting depth, since inner bodies interrupt the outer one), and a free
  mutex is taken by somebody who waits. A `std::mutex` promises no fairness
  between threads, and none is assumed.
- Service: a script ends once `loop()` has returned false; it owes nothing
  before. A queued service gets a thread, which means that the pool has one for
  each service.

Nothing obliges clients to submit work, to change `max` or to end the program.

## 7. Proofs

Every theorem holds for every value of the constants that satisfies the named
assumptions. The states TLC visits in the runs are a small instance of them.
Every invariant, action property and refinement that a run checks is stated by
one of them; the temporal properties that need fairness are not.

A component with the same state as another one shares its proof module and its
lemmas: `FifoProofs` has an instance `P` of `Priority`, `SingularProofs`
instances `Sch` of `Scheduled` and `Bal` of `Balanced`, `LockProofs` an instance
`S` of `Service`. Constants and variables of an instance are those of the proof
module with the same name, so a theorem about `P!Spec` is one about `Priority`.
An assumption of an instantiated module is not known to the provers and appears
as a hypothesis of the theorem; TLC evaluates it in the component's own run.

### CoreProofs

Assumptions: `MaxAssumption` (values of `max` lie in `1..MaxThreads`) and
`TasksAssumption` (`None` is not a task).

| Theorem | States |
|---|---|
| `TypeCorrect` | `Spec => []TypeOK` |
| `AccountingCorrect` | `Spec => [](SpawnInv /\ Accounting)` |
| `OwnershipCorrect` | `Spec => [](RunningAlive /\ WaitingIsQueued)` |
| `ShutdownDrainsAll` | `Spec => []ShutdownDrains` |
| `NoLostWakeupHolds` | `Spec => []NoLostWakeup` |
| `NoNeedlessQueueingHolds` | `Spec => []NoNeedlessQueueing` |
| `CoreImplementsTaskPool` | `Spec => ImplementsTaskPool` |

None of these is inductive by itself. The argument: threads above `workers`
have not been spawned (`SpawnInv`), so the thread that `start` adds was in no
other set; then `Busy`, the set of threads that hold something counted, changes
by exactly one element in each counted step, and `Accounting` follows with the
cardinality lemmas `BusyGrows` and `BusyShrinks`. Ownership needs that a task
is in the queue at most once and exactly when its life is "queued", and that
what a thread holds depends on where it is (`QueueInvStep`, `HandInvStep`).
`ShutdownDrains` then combines them: when `actives` is zero and all pills are
counted, the queue is empty and no thread is busy, so no task is "queued" or
"taken" and unfinished (`DoneInvStep`). `PoolInvariant` is the conjunction.

`NoLostWakeup` needs that the thread that has found the queue empty and has not
blocked yet is the owner of the mutex (`BlockInv`), so that before shutdown no
start can come in between and the queue stays empty meanwhile (`ScriptInv`);
`NotifyWakes` is the step of `notify_one`. `NoNeedlessQueueing` rests on what
the test of `core::start` maintains (`GrowthInv`: while the pool may grow,
`actives <= workers`) and on `Accounting`: if the counted tasks are at most the
threads, the tasks in the queue are at most the threads that are free.

For the refinement the queue is read without the exit orders (`TasksOf`).
`TasksOf` is a recursive function on the numbers up to the length of the queue;
`NumbersUpTo`, an induction stated over a set and not over an operator, shows
that the function exists (`ListsExists`) and what it does when something is put
to the end or taken from the front (`TasksOfAppend`, `TasksOfTail`). Then
`core::start` is `Submit` (`StartSubmits`), a `get` of a task is `Begin`
(`GetFrontBegins`), the return of `base::run` is `Complete`
(`RunReturnsCompletes`), and everything else stutters, the pills of `shutdown`
included (`OthersStutter`). `PoolInv` and `FlagInv` (a finished task has been
taken, and a thread runs a task that is not finished) give the guards of the
abstract steps, and `RoomForTask` its bound on the tasks in execution.

### SingularProofs

Assumption: `RunnersAssumption` (finitely many runners, `max` between one and
their number, the empty node is not a node). Names and nodes may be infinitely
many. The theorems on `Scheduled` and `Balanced` need no other.

| Theorem | States |
|---|---|
| `MutualExclusionHolds` | `Spec => []MutualExclusion` |
| `ConsistentHolds` | `Spec => []Consistent` |
| `NameInUseHolds` | `Spec => []NameInUse` |
| `ScheduledConsistent` | `Sch!Spec => []Sch!Consistent` |
| `BalancedConsistent` | `Bal!Spec => []Bal!Consistent` |
| `BalancedNoDoubleOvertake` | `Bal!Spec => Bal!NoDoubleOvertake` |

`MutualExclusion` is not inductive: `dequeue` never looks at the nodes in
execution, only at `runners()`. The invariant `Inv` adds that the name of every
node in execution is closed in `runners()` (`Closed`), that two runners execute
nodes of different names (`Apart`), that `map` and `runners()` have the same
names (`SameNames`), and that the queue of a name holds nodes of that name
(`OwnQueue`). `ChosenIsOpen` shows that whichever of its two loops finds the
name, `dequeue` returns an open one; so the name it takes is not in execution
(`DequeueKeepsInv`), and the end of a node reopens or removes that node's name
only (`ReturnKeepsInv`).

`Full` strengthens `Inv` for the other two: the other direction of `Closed`
(`OpenHas`: a name that is present is in execution, or open with a node to
give), no repetitions in vector and queues (`Tidy`, from which the two
cardinalities of `Consistent` follow by `SeqCount`), and every submitted node in
exactly one place (`Found`, `Unheld`, `HeldApart`). That no node is stranded is
argued per step: a surplus runner leaves at least as many as there are names
(`SurplusStep`); `start` brings no runner only if one is counted
(`SubmitCounts`); and if `dequeue` finds nothing although a node waits, then all
names are closed or the empty name was used, hence another runner is in
execution and comes back (`NothingButExecuting`).

`Queues` is the part of `Full` that does not mention `runners()`, common to the
other two schedulers.

`SchedInv` adds what is special to scheduled. `SchedCounted`: `runners()` of a
name is the number of runners that execute a node of it, through the decrement
outside the mutex. `SchedUnused`: a name that is kept without nodes and without
use has a runner between the two parts of `node::run`, which will remove it; so
a vector whose least used name is empty does not leave `NobodyStranded` false
when `dequeue` dismisses a runner. `SchedPosition`: position is an index of the
vector, or zero.

`BalInv` adds to `Queues` that nobody is stranded as long as the empty name is
not used, and `WaitsAhead`, the reason for round robin: a name that waits comes,
in the order of the next walk of `dequeue`, before every name that was served
since it began to wait. The walk starts anywhere in the vector, wraps and erases
what it passes, so the lemmas on turns are the work: `TurnsCover` (a walk visits
each name once), `TurnsGoOn` (after a walk that stopped at the i-th name the next one
visits the later names in the same order and the i-th last) and
`TurnsOfAppend` (a new name comes after those that wait). `NoDoubleOvertake`
follows: the name that is served comes first in the walk among those that wait,
and one that had already overtaken would come behind.

### FifoProofs

Assumption: `RunnersAssumption`; for `PriorityNoInversion` also
`P!PrioritiesAssumption` (priorities are numbers).

| Theorem | States |
|---|---|
| `ConsistentHolds` | `Spec => []Consistent` |
| `FifoImplementsTaskPool` | `Spec => ImplementsTaskPool` |
| `PriorityConsistent` | `P!Spec => []P!Consistent` |
| `PriorityNoInversion` | `P!PrioritiesAssumption` gives `P!Spec => P!NoInversion` |

`Consistent` becomes inductive together with `Order` (a node is in the queue at
most once, from its start to its dequeue) and `Hold` (a runner has a node, its
own, exactly while it executes it and cleans up after it). The refinement maps the queue and the sets of
executing and completed nodes to the pool's; `start` is `Submit`, a dequeue that
finds a node is `Begin`, the end of `node::run` is `Complete`, all else
stutters. `RoomForOne` gives the bound of the pool: a runner in its loop executes
nothing, so one more node fits in.

`HeapInv` is the same for priority, with the heap as a set of nodes (`HeapHold`:
a node is in the heap until one runner has it). `NoInversion` is about single
steps: only the dequeue of a node gives a runner a new one, and what it takes is
a top of the heap.

### MvmProofs

Assumption: `MvmAssumption`.

| Theorem | States |
|---|---|
| `OwnershipHolds` | `Spec => []Ownership` |
| `FreshInstanceHolds` | `Spec => []FreshInstance` |
| `PoolCountHolds` | `Spec => []PoolCount` |

The operations of the pool are up to eight steps long and `Ownership` says
nothing of what a thread in the middle of one holds. `Inv` does: `Shape(t)` says
for each label of a thread which of its three local references are set,
`Distinct(t)` that they name different states, `Recent(t)` that what getInstance
has in hand is no older than the call, and `Places` that every live state is in the container
once or with one thread. A step is then one of five kinds (`Kept`, `Popped`,
`Pushed`, `Made`, `Deleted`), and one lemma per action says which; `Together`
puts back what the other threads keep. `PoolCount` is about a counter that
wraps. Its invariant `Counted` carries the two quotients as witnesses
(`SameRest`), since division by an arbitrary width is beyond the provers, and
`RestIsRemainder` turns them into `%` at the end.

### ChannelProofs

Assumption: `ChannelAssumption` (the end mark is not a message).

| Theorem | States |
|---|---|
| `EndMeansAllHolds` | `Spec => []EndMeansAll` |
| `WaitsForSomethingHolds` | `Spec => []WaitsForSomething` |

`Inv` says that what was pushed is what was taken followed by what is in the
queue (`Order`), that the server has pushed the messages of its calls in order
and the end mark behind them once its script is over (`Sent`), that the client
never pushes one (`NoEnd`), that the client is told exactly when the server is
over and the queue is empty (`Ended`), and who may sleep (`Waiting`). Together:
whoever has taken the end mark has taken all that was pushed before it.

### WorkerProofs

Assumption: `WorkerAssumption` (bounds are numbers, a pool has at least one
thread and a worker at least one node, and a worker is not a node: they are
objects of different classes).

| Theorem | States |
|---|---|
| `StopAfterAllHolds` | `Spec => []StopAfterAll` |
| `MasterAliveHolds` | `Spec => []MasterAlive` |

The worker composes with `TaskPool`, so the invariant has a part about the pool
(`Places`: an object is in one of queue, execution, completion, or is a thread of
its own) and one about the program: where a worker is (`Phase`), that items left,
items in hand and items done add up to those enqueued (`Account`), that nothing
is left behind the wait for the nodes (`Drained`), and that a node waits or runs
only while its worker performs and ends only when nothing is left to take
(`Nodeful`).

### LockProofs

Assumption: `LockAssumption` (`None` is no thread, object or call); for
`OneServiceHolds` only `S!ServiceAssumption`.

| Theorem | States |
|---|---|
| `ProtectedHolds` | `Spec => []Protected` |
| `OneServiceHolds` | `S!ServiceAssumption` gives `S!Spec => []S!OneService` |

The state of an object and the stacks of the scripts are tied by a count
(`Counted`): the counter of an object is the number of frames that run under it,
plus one while its script waits for the mutex, plus those that were left enabled
or disabled by hand (`kept`). `Owns` says that the mutex belongs to the object
that is enabled and does not wait, `OwnFrames` and `OwnWait` that a script uses
objects of its own, `References` that `named_ptr` counts the objects that exist.
The lemmas on `FramesOf` say how the number of frames of an object changes when
one is pushed or popped; an object in `misused` is exempt, as in `Protected`.

`OneService` counts the services of a file. `ServiceInv` says instead that two
slots that serve a file are the same (`OneSlot`) and that the file is in
`s_references` meanwhile (`Referenced`), for files outside `doubled`. A scan may
rely on its look, though it was some steps ago: as long as nobody else starts a
service for the file, the reference it missed stays missing (`LooksHold`), and a
file without a reference has no service, so that the start adds the only one.
`Referenced` survives because `Erase` takes the reference of a file whose only
service is the one that leaves.

### ActiveRecordProofs

Assumption: `RecordAssumption` (`None` is not a value).

| Theorem | States |
|---|---|
| `CleanCopyIsRowHolds` | `Spec => []CleanCopyIsRow` |
| `SkippedSaveIsSavedHolds` | `Spec => []SkippedSaveIsSaved` |

The copy is compared with the row, but rollback puts an older row back. So the
invariant (`KeyInv`, for each key) says when the copy in `neat` is the row
(`NeatIsRow`) and when it is the row before the transaction (`NeatIsBase`), in
terms of the kinds of changes made inside and outside of it, that what a
transaction has not touched is as before (`TxInv`), and that a destroyed record
has no pending copy (`PendingInv`). The keys in `spoiled` are those the invariant cannot cover; section 8
names the code behind each. No step asks for a transaction, so the lemmas on ends
(`EndKeeping`, `EndUndoing`) have both cases.

### Only model-checked

The liveness properties, because fairness and `ENABLED` are outside the prover:
`TaskServed` and `ShutdownReturns` of `Core`, `NodeServed` of the five
schedulers, `ClientReturns` of `Channel`, `OperationReturns` of `Mvm`,
`WorkerReturns` of `Worker`, `Released` of `Lock` and `FileServed` of `Service`.

## 8. What the checks showed about the code

Except for `should_clear_neat` below, nothing in the repository's documents or tests states
the opposite of these; they appear as named exceptions of the properties:

- `core.cpp:18` — shutdown may lose its own wake-up and wait for ever (`lost`).
- `core.cpp:100` — a start behind the pills is never served and shutdown does
  not return (`late`); `service.cpp:118` is such a start.
- `core.cpp:104` — after a raise of `max` during a backlog the pool does not
  grow until the backlog is gone (`raised`).
- `fifo.cpp:57`, `priority.cpp:59` — a node started while all runners are
  between their last look and their destructor waits for the next start
  (`stranded`).
- `balanced.cpp:202`, `singular.cpp:282` — the empty name dismisses runners and
  may strand nodes of other names.
- `channel.cpp:60` — a client that reads again after "channel is finished" and
  before the flag is set blocks for ever (`pastEnd`).
- `mvm.cpp:271` — a pop of `clear` that finds nothing is counted all the same
  (`phantom`); a `clear` and a `reload` can keep each other busy (`Crossing`).
- `mvm.cpp:524` — the registration of a thread outlives its state for a moment.
- `worker/mvm.cpp:18` — as many workers as the pool has threads, each waiting for
  a queued node, wait for ever (`Saturated`).
- `lock.cpp:62` — `call` leaves the lock enabled when its body fails; `pcall`
  does not (`kept`). `lock.cpp:45` — after a `disable` too many the next `enable`
  succeeds without locking, and `lock.cpp:33` — a refused nested `enable` unlocks
  the mutex under the body that is still in progress (`misused`).
- `service.cpp:170` — two scans, or a scan and `service.start`, can start two
  services for a file (`doubled`). `service.cpp:121` — a file that comes back
  while its service erases the reference is passed over; so is the file of a
  stopped service, whose reference is never erased (`unseen`). A raise of the
  version that meets all services between script and restart is noticed by none:
  `FileServed` therefore speaks of reloads that a running script sees.
- `Adapter.lua:452`, `Adapter.lua:473` — rollback and commit keep `neat`. After a
  commit, PostgreSQL's `update` skips a save that sets the old value again, and
  a find by key makes a record from the copy of a destroyed one; after a
  rollback, a find by key returns what was rolled back. A rollback or commit
  that finds no transaction, for instance after a lost connection
  (`Adapter.lua:355`), forgets pending copies of rows it does not touch. These
  are the clauses of `spoiled`; without any one of them TLC finds a violation.
- `Adapter.lua:473` again, against a test: `should_clear_neat`
  (`tests/lib/arken/ActiveRecord/Adapter/commit.lua:46-53`) expects a commit to
  clear `neat`, while the line that did is commented out. The model follows the
  code. With `neat` cleared, as the test wants, no commit would spoil a key.
- `Adapter.lua:306` — find by key makes the record from `neat` and passes over a
  pending copy. Read 10, `begin`, `rollback`, save 20 through a record that was
  kept: find by key gives a record with 10. `CleanCopyIsRow` is about the copy
  that `changes()`, `was()` and `update` use and does not exclude this.
- `Adapter.lua:459` — a nested rollback in the test environment undoes nothing.

## 9. What is not modelled

- Data races with undefined outcome on library containers: `runners()` in
  `scheduled.cpp:171`, `s_references` in `service.cpp`. The model takes such an
  access as atomic.
- The copy of the object that `task::start` and its relatives make after
  `core::start` (it may already be deleted).
- The content of scripts, parameters, JSON, names of files, `inspect` texts.
- Containers other than `deque-stack` (the default of `cmake/arken-mvm.cmake`).
- Items put into the queue of a copy of a worker (`worker.cpp:165`), a lock
  collected during its own `pcall` (`lock.cpp:73`), deadlocks over several lock
  names, services in several directories, pools with fewer threads than
  services.
- ActiveRecord: validation, SQL texts, conversions, cursors, other processes that
  change the table.
- Cache, `mvm.Shared`: one mutex around each operation; what can go wrong is the
  use of a deleted entry (`cache.cpp:29`), which has no outcome to model. Log and
  the client limit of the HTTP server: see section 2.
- Dispatcher, controllers, templates, helpers, oop, routines, string, utf8,
  math, chrono: sequential code whose content is formatting or pure functions.
- os, network clients, xml, zip, image, barcode, pdf, notify: wrappers around
  libraries. Vendored code: sqlite, lua-json, mongrel2, lsqlite3, luasql. It is
  nine tenths of the lines under `src/`, so the share of lines the map covers
  says little; of `src/src/arken/concurrent/` and `mvm.cpp` it covers most.
