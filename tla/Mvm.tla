-------------------------------- MODULE Mvm ---------------------------------
(***************************************************************************)
(* mvm.cpp and the default container (mvm/container/deque-stack.cpp): the  *)
(* pool of Lua states.  A thread takes a state from the pool with          *)
(* getInstance, registers it as its current one, runs a script on it and   *)
(* gives it back in ~instance.  From a script, reload, gc and clear work   *)
(* on the pool while other threads take and return states.                 *)
(*                                                                         *)
(* The container locks itself and s_pool, s_version and s_gc are atomic.   *)
(* Every write to one of them is a step of its own.  A read of s_version   *)
(* is one step with the push that depends on it (Back, ReloadTest), and    *)
(* one of s_gc with the object made from it (New): a state that became     *)
(* outdated between the two is found out when it is taken again, because   *)
(* getInstance compares then.  What a script does to its state is of no    *)
(* interest; mvm::data is its version, its gc generation and its release   *)
(* flag.                                                                   *)
(***************************************************************************)
EXTENDS Integers, Sequences, FiniteSets, SequencesExt

CONSTANTS
  Threads,
  Data,      \* mvm::data objects that may exist at a time
  NoData,    \* nullptr
  Width,     \* uint32_t is arithmetic modulo Width (2^32 in the code)
  MaxCalls   \* bound on the calls made by all threads together

ASSUME MvmAssumption ==
  /\ IsFiniteSet(Threads)
  /\ IsFiniteSet(Data)
  /\ NoData \notin Data
  /\ Width \in Nat \ {0}
  /\ MaxCalls \in Nat

VARIABLES
  container,  \* s_container, front first
  pool,       \* s_pool
  version,    \* s_version
  gc,         \* s_gc
  mvm_map,    \* s_mvm_map: the state registered for each thread
  live,       \* the data objects that exist
  ver, gen,   \* m_version and m_gc of each object
  released,   \* the objects with m_release
  pc, op,     \* where each thread is, and in which operation
  ret,        \* where mvm::push or mvm::back returns to
  inst,       \* m_data of the thread's instance
  local,      \* the local variable data of the operation
  extra,      \* the argument of mvm::back
  asked,      \* history: s_version when the thread called getInstance
  phantom,    \* history: how often clear counted down for an empty container
  calls       \* calls made so far

objects == <<live, ver, gen, released>>
threads == <<op, ret, inst, local, extra>>
vars == <<container, pool, version, gc, mvm_map, objects, pc, threads,
          asked, phantom, calls>>

Init ==
  /\ container = <<>>
  /\ pool = 0
  /\ version = 0
  /\ gc = 0
  /\ mvm_map = [t \in Threads |-> NoData]
  /\ live = {}
  /\ ver = [d \in Data |-> 0]
  /\ gen = [d \in Data |-> 0]
  /\ released = {}
  /\ pc = [t \in Threads |-> "idle"]
  /\ op = [t \in Threads |-> "none"]
  /\ ret = [t \in Threads |-> "idle"]
  /\ inst = [t \in Threads |-> NoData]
  /\ local = [t \in Threads |-> NoData]
  /\ extra = [t \in Threads |-> NoData]
  /\ asked = [t \in Threads |-> 0]
  /\ phantom = 0
  /\ calls = 0

Goto(t, l) == pc' = [pc EXCEPT ![t] = l]
Set(f, t, d) == [f EXCEPT ![t] = d]

\* The object the next new returns: one that does not exist, no matter which.
Fresh == CHOOSE d \in Data \ live : TRUE

\* new mvm::data(v): m_gc is s_gc.
New(v) ==
  /\ live # Data
  /\ live' = live \cup {Fresh}
  /\ ver' = [ver EXCEPT ![Fresh] = v]
  /\ gen' = [gen EXCEPT ![Fresh] = gc]
  /\ released' = released \ {Fresh}

\* delete data (of an object, or of nullptr).  Attributes of a dead object
\* are zero.
Delete(d) ==
  /\ live' = live \ {d}
  /\ ver' = [x \in Data |-> IF x = d THEN 0 ELSE ver[x]]
  /\ gen' = [x \in Data |-> IF x = d THEN 0 ELSE gen[x]]
  /\ released' = released \ {d}

-----------------------------------------------------------------------------
(* Calls of a thread.                                                      *)

\* A call of operation o, from where the thread is to where o begins.
Call(t, from, o, to) ==
  /\ calls < MaxCalls
  /\ calls' = calls + 1
  /\ pc[t] = from
  /\ Goto(t, to)
  /\ op' = [op EXCEPT ![t] = o]

\* mvm::getInstance(create).
GetInstance(t, create) ==
  /\ Call(t, "idle", "get", IF create THEN "make" ELSE "pop")
  /\ asked' = [asked EXCEPT ![t] = version]
  /\ UNCHANGED <<container, pool, version, gc, mvm_map, objects, ret, inst,
                 local, extra, phantom>>

\* mvm::reload.
Reload(t) ==
  /\ Call(t, "use", "reload", "pop")
  /\ UNCHANGED <<container, pool, version, gc, mvm_map, objects, ret, inst,
                 local, extra, asked, phantom>>

\* mvm::gc begins with s_gc++.
Gc(t) ==
  /\ Call(t, "use", "gc", "pop")
  /\ gc' = gc + 1
  /\ UNCHANGED <<container, pool, version, mvm_map, objects, ret, inst,
                 local, extra, asked, phantom>>

\* mvm::clear begins with s_version++.
Clear(t) ==
  /\ Call(t, "use", "clear", "empty")
  /\ version' = version + 1
  /\ UNCHANGED <<container, pool, gc, mvm_map, objects, ret, inst, local,
                 extra, asked, phantom>>

\* instance.release(), or mvm.current():release() from Lua.
Release(t) ==
  /\ pc[t] = "use"
  /\ inst[t] \notin released
  /\ released' = released \cup {inst[t]}
  /\ UNCHANGED <<container, pool, version, gc, mvm_map, live, ver, gen, pc,
                 threads, asked, phantom, calls>>

-----------------------------------------------------------------------------
(* mvm::pop, mvm::push and mvm::back, which the operations share.          *)

\* Mutant: the state stays in the container.
ContainerPop_Keep(t) ==
  /\ pc[t] = "pop"
  /\ IF container = <<>>
     THEN /\ local' = Set(local, t, NoData)
          /\ Goto(t, IF op[t] = "clear" THEN "decr" ELSE "null")
     ELSE /\ local' = Set(local, t, Head(container))
          /\ Goto(t, "decr")
  /\ UNCHANGED <<container, pool, version, gc, mvm_map, objects, op, ret,
                 inst, extra, asked, phantom, calls>>

\* container::pop.  clear calls it directly and does not look at the result.
ContainerPop(t) ==
  /\ pc[t] = "pop"
  /\ IF container = <<>>
     THEN /\ local' = Set(local, t, NoData)
          /\ Goto(t, IF op[t] = "clear" THEN "decr" ELSE "null")
          /\ UNCHANGED container
     ELSE /\ local' = Set(local, t, Head(container))
          /\ container' = Tail(container)
          /\ Goto(t, "decr")
  /\ UNCHANGED <<pool, version, gc, mvm_map, objects, op, ret, inst, extra,
                 asked, phantom, calls>>

\* s_pool--.
CountDown(t) ==
  /\ pc[t] = "decr"
  /\ pool' = (pool + Width - 1) % Width
  /\ phantom' = IF local[t] = NoData THEN phantom + 1 ELSE phantom
  /\ Goto(t, "popped")
  /\ UNCHANGED <<container, version, gc, mvm_map, objects, threads, asked,
                 calls>>

\* mvm::pop on an empty container makes a state.
PopNew(t) ==
  /\ pc[t] = "null"
  /\ New(version)
  /\ local' = Set(local, t, Fresh)
  /\ Goto(t, "popped")
  /\ UNCHANGED <<container, pool, version, gc, mvm_map, op, ret, inst, extra,
                 asked, phantom, calls>>

\* Mutant: mvm::back counts a state it deletes.
Back_CountDeleted(t) ==
  /\ pc[t] = "back"
  /\ extra' = Set(extra, t, NoData)
  /\ IF version > ver[extra[t]]
     THEN Delete(extra[t]) /\ UNCHANGED container
     ELSE container' = Append(container, extra[t]) /\ UNCHANGED objects
  /\ Goto(t, "incr")
  /\ UNCHANGED <<pool, version, gc, mvm_map, op, ret, inst, local, asked,
                 phantom, calls>>

\* mvm::back: an outdated state is deleted, another one goes to the end.
Back(t) ==
  /\ pc[t] = "back"
  /\ extra' = Set(extra, t, NoData)
  /\ IF version > ver[extra[t]]
     THEN /\ Delete(extra[t])
          /\ Goto(t, ret[t])
          /\ UNCHANGED container
     ELSE /\ container' = Append(container, extra[t])
          /\ Goto(t, "incr")
          /\ UNCHANGED objects
  /\ UNCHANGED <<pool, version, gc, mvm_map, op, ret, inst, local, asked,
                 phantom, calls>>

\* container::push puts a state in front; s_pool++ follows.
PushFront(t, d, then) ==
  /\ container' = <<d>> \o container
  /\ Goto(t, "incr")
  /\ ret' = [ret EXCEPT ![t] = then]

\* s_pool++.
CountUp(t) ==
  /\ pc[t] = "incr"
  /\ pool' = (pool + 1) % Width
  /\ Goto(t, ret[t])
  /\ UNCHANGED <<container, version, gc, mvm_map, objects, threads, asked,
                 phantom, calls>>

-----------------------------------------------------------------------------
(* mvm::getInstance, mvm::instance.                                        *)

\* Mutant: the state is used whatever its version.
GetTest_AnyVersion(t) ==
  /\ pc[t] = "popped" /\ op[t] = "get"
  /\ Goto(t, "register")
  /\ UNCHANGED <<container, pool, version, gc, mvm_map, objects, threads,
                 asked, phantom, calls>>

\* An outdated state is deleted and replaced.
GetTest(t) ==
  /\ pc[t] = "popped" /\ op[t] = "get"
  /\ IF version > ver[local[t]]
     THEN /\ Delete(local[t])
          /\ local' = Set(local, t, NoData)
          /\ Goto(t, "make")
     ELSE Goto(t, "register") /\ UNCHANGED <<objects, local>>
  /\ UNCHANGED <<container, pool, version, gc, mvm_map, op, ret, inst, extra,
                 asked, phantom, calls>>

GetNew(t) ==
  /\ pc[t] = "make"
  /\ New(version)
  /\ local' = Set(local, t, Fresh)
  /\ Goto(t, "register")
  /\ UNCHANGED <<container, pool, version, gc, mvm_map, op, ret, inst, extra,
                 asked, phantom, calls>>

\* mvm::instance::instance.
Register(t) ==
  /\ pc[t] = "register"
  /\ inst' = Set(inst, t, local[t])
  /\ mvm_map' = Set(mvm_map, t, local[t])
  /\ local' = Set(local, t, NoData)
  /\ op' = [op EXCEPT ![t] = "none"]
  /\ Goto(t, "use")
  /\ UNCHANGED <<container, pool, version, gc, objects, ret, extra, asked,
                 phantom, calls>>

\* mvm::instance::~instance up to the lock: the state is deleted or pushed.
Destroy(t) ==
  /\ pc[t] = "use"
  /\ inst' = Set(inst, t, NoData)
  /\ IF inst[t] \in released
     THEN Delete(inst[t]) /\ Goto(t, "erase") /\ UNCHANGED <<container, ret>>
     ELSE PushFront(t, inst[t], "erase") /\ UNCHANGED objects
  /\ UNCHANGED <<pool, version, gc, mvm_map, op, local, extra, asked, phantom,
                 calls>>

\* The end of ~instance: only now is the registration removed.
Erase(t) ==
  /\ pc[t] = "erase"
  /\ mvm_map' = Set(mvm_map, t, NoData)
  /\ Goto(t, "idle")
  /\ UNCHANGED <<container, pool, version, gc, objects, threads, asked,
                 phantom, calls>>

-----------------------------------------------------------------------------
(* mvm::reload: pop states and replace them by newer ones until a newer    *)
(* one is popped.                                                          *)

ReloadTest(t) ==
  /\ pc[t] = "popped" /\ op[t] = "reload"
  /\ IF ver[local[t]] > version
     THEN /\ PushFront(t, local[t], "bump")
          /\ local' = Set(local, t, NoData)
     ELSE Goto(t, "renew") /\ UNCHANGED <<container, ret, local>>
  /\ UNCHANGED <<pool, version, gc, mvm_map, objects, op, inst, extra, asked,
                 phantom, calls>>

\* Mutant: the replacement is not newer.
ReloadNew_SameVersion(t) ==
  /\ pc[t] = "renew"
  /\ New(version)
  /\ extra' = Set(extra, t, Fresh)
  /\ ret' = [ret EXCEPT ![t] = "drop"]
  /\ Goto(t, "back")
  /\ UNCHANGED <<container, pool, version, gc, mvm_map, op, inst, local,
                 asked, phantom, calls>>

ReloadNew(t) ==
  /\ pc[t] = "renew"
  /\ New(version + 1)
  /\ extra' = Set(extra, t, Fresh)
  /\ ret' = [ret EXCEPT ![t] = "drop"]
  /\ Goto(t, "back")
  /\ UNCHANGED <<container, pool, version, gc, mvm_map, op, inst, local,
                 asked, phantom, calls>>

ReloadDrop(t) ==
  /\ pc[t] = "drop"
  /\ Delete(local[t])
  /\ local' = Set(local, t, NoData)
  /\ Goto(t, "pop")
  /\ UNCHANGED <<container, pool, version, gc, mvm_map, op, ret, inst, extra,
                 asked, phantom, calls>>

ReloadBump(t) ==
  /\ pc[t] = "bump"
  /\ version' = version + 1
  /\ op' = [op EXCEPT ![t] = "none"]
  /\ Goto(t, "use")
  /\ UNCHANGED <<container, pool, gc, mvm_map, objects, ret, inst, local,
                 extra, asked, phantom, calls>>

-----------------------------------------------------------------------------
(* mvm::gc: pop, collect and put back until a collected state is popped.   *)

GcTest(t) ==
  /\ pc[t] = "popped" /\ op[t] = "gc"
  /\ IF gen[local[t]] # gc
     THEN Goto(t, "mark") /\ UNCHANGED <<op, ret, local, extra>>
     ELSE /\ extra' = Set(extra, t, local[t])
          /\ local' = Set(local, t, NoData)
          /\ ret' = [ret EXCEPT ![t] = "use"]
          /\ op' = [op EXCEPT ![t] = "none"]
          /\ Goto(t, "back")
  /\ UNCHANGED <<container, pool, version, gc, mvm_map, objects, inst, asked,
                 phantom, calls>>

\* lua_gc, then data->m_gc = s_gc.
GcMark(t) ==
  /\ pc[t] = "mark"
  /\ gen' = [gen EXCEPT ![local[t]] = gc]
  /\ extra' = Set(extra, t, local[t])
  /\ local' = Set(local, t, NoData)
  /\ ret' = [ret EXCEPT ![t] = "pop"]
  /\ Goto(t, "back")
  /\ UNCHANGED <<container, pool, version, gc, mvm_map, live, ver, released,
                 op, inst, asked, phantom, calls>>

-----------------------------------------------------------------------------
(* mvm::clear: while the container is not empty, pop and delete.           *)

ClearTest(t) ==
  /\ pc[t] = "empty"
  /\ IF container = <<>>
     THEN Goto(t, "use") /\ op' = [op EXCEPT ![t] = "none"]
     ELSE Goto(t, "pop") /\ UNCHANGED op
  /\ UNCHANGED <<container, pool, version, gc, mvm_map, objects, ret, inst,
                 local, extra, asked, phantom, calls>>

ClearDelete(t) ==
  /\ pc[t] = "popped" /\ op[t] = "clear"
  /\ Delete(local[t])
  /\ local' = Set(local, t, NoData)
  /\ Goto(t, "empty")
  /\ UNCHANGED <<container, pool, version, gc, mvm_map, op, ret, inst, extra,
                 asked, phantom, calls>>

-----------------------------------------------------------------------------

\* A step of an operation that has been called.
Continue(t) ==
  \/ ContainerPop(t) \/ CountDown(t) \/ CountUp(t) \/ Back(t)
  \/ PopNew(t) \/ GetNew(t) \/ ReloadNew(t)
  \/ GetTest(t) \/ Register(t) \/ Erase(t)
  \/ ReloadTest(t) \/ ReloadDrop(t) \/ ReloadBump(t)
  \/ GcTest(t) \/ GcMark(t)
  \/ ClearTest(t) \/ ClearDelete(t)

Next ==
  \E t \in Threads :
    \/ \E create \in BOOLEAN : GetInstance(t, create)
    \/ Reload(t) \/ Gc(t) \/ Clear(t) \/ Release(t) \/ Destroy(t)
    \/ Continue(t)

Spec == Init /\ [][Next]_vars

\* A thread inside an operation keeps running; scripts owe nothing.
LiveSpec == Spec /\ \A t \in Threads : WF_vars(Continue(t))

-----------------------------------------------------------------------------

Labels == {"idle", "pop", "null", "decr", "popped", "make", "register", "use",
           "incr", "erase", "back", "renew", "drop", "bump", "mark", "empty"}

TypeOK ==
  /\ container \in Seq(Data)
  /\ pool \in 0..(Width - 1)
  /\ version \in Nat /\ gc \in Nat /\ phantom \in Nat /\ calls \in Nat
  /\ mvm_map \in [Threads -> Data \cup {NoData}]
  /\ live \subseteq Data /\ released \subseteq Data
  /\ ver \in [Data -> Nat] /\ gen \in [Data -> Nat]
  /\ pc \in [Threads -> Labels] /\ ret \in [Threads -> Labels]
  /\ op \in [Threads -> {"none", "get", "reload", "gc", "clear"}]
  /\ inst \in [Threads -> Data \cup {NoData}]
  /\ local \in [Threads -> Data \cup {NoData}]
  /\ extra \in [Threads -> Data \cup {NoData}]
  /\ asked \in [Threads -> Nat]

Pooled == ToSet(container)
Held(t) == {inst[t], local[t], extra[t]} \ {NoData}

\* While a script runs, mvm::current() is the thread's own live state; an
\* entry mvm::inspect would follow into a state that is deleted or already
\* somebody else's exists only inside ~instance.
CurrentIsOwn ==
  \A t \in Threads :
    /\ inst[t] # NoData => mvm_map[t] = inst[t] /\ inst[t] \in live
    /\ inst[t] = NoData /\ mvm_map[t] # NoData => pc[t] \in {"incr", "erase"}

\* Every Lua state belongs to exactly one place - the pool once, or one
\* thread - in every interleaving of getInstance, ~instance, reload, gc and
\* clear: no state is used by two threads, used after delete, or leaked, and
\* mvm::current() is the state of the script that asks.
Ownership ==
  /\ TypeOK
  /\ IsInjective(container)
  /\ live = Pooled \cup UNION {Held(t) : t \in Threads}
  /\ \A t \in Threads : Held(t) \cap Pooled = {}
  /\ \A s, t \in Threads : s # t => Held(s) \cap Held(t) = {}
  /\ \A t \in Threads :
       /\ inst[t] # NoData => inst[t] \notin {local[t], extra[t]}
       /\ local[t] # NoData => local[t] # extra[t]
  /\ CurrentIsOwn

\* mvm::pool() is the size of the container up to the pushes and pops that
\* have not counted yet and the pops of an empty container that clear counted
\* between its test and its pop: those stay in s_pool for ever.
PoolCount ==
  LET up == Cardinality({t \in Threads : pc[t] = "incr"})
      down == Cardinality({t \in Threads : pc[t] = "decr" /\ local[t] # NoData})
  IN  (pool + up + phantom) % Width = (Len(container) + down) % Width

\* getInstance never returns a state older than the version at the call: a
\* script started after a reload or clear runs the new code, although
\* ~instance returns states to the pool without looking at their version.
FreshInstance ==
  \A t \in Threads : inst[t] # NoData => ver[inst[t]] >= asked[t]

\* A clear empties the pool while a reload fills it: clear deletes the newer
\* state the reload waits for, reload puts another one before clear has seen
\* the container empty.
Crossing ==
  \E s, t \in Threads : op[s] = "clear" /\ op[t] = "reload"

\* getInstance, reload, gc, clear and ~instance return, whatever the other
\* threads do to the pool meanwhile (they make finitely many calls), unless a
\* clear and a reload keep each other going for ever.
OperationReturns ==
  <>[](~Crossing) =>
    \A t \in Threads : pc[t] \notin {"idle", "use"} ~> pc[t] \in {"idle", "use"}
=============================================================================
