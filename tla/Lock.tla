-------------------------------- MODULE Lock --------------------------------
(***************************************************************************)
(* concurrent/lock.cpp and named_ptr.h.  Lock objects with the same name   *)
(* share one resource, a std::mutex, through a counted registry; each      *)
(* object counts how often it was enabled and locks the mutex with the     *)
(* first enable only.  One name is modelled, used by scripts in several    *)
(* threads, each with as many objects as it creates.                       *)
(*                                                                         *)
(* An error raised inside a script may be caught by it at any level: that  *)
(* is the choice between going on and BodyFails.  So is one that enable or *)
(* disable throws inside pcall, which the binding does not catch (LuaJIT   *)
(* makes an error of the script out of it).                                *)
(***************************************************************************)
EXTENDS Integers, Sequences, FiniteSets

CONSTANTS
  Threads,   \* running scripts
  Objects,   \* Lock objects
  MaxCount,  \* bound on m_count
  MaxMisuse, \* bound on how far below zero m_count falls
  MaxFrames, \* bound on nested bodies in a thread
  None

\* The methods that enable an object, and a call of one of them.
Kinds == {"enable", "call", "pcall"}
Calls == [lock : Objects, kind : Kinds]

ASSUME LockAssumption ==
  /\ None \notin Threads \cup Objects \cup Calls
  /\ MaxCount \in Nat /\ MaxMisuse \in Nat /\ MaxFrames \in Nat

VARIABLES
  thread,    \* the thread of each object, None before new and after __gc
  reentrant, \* m_reentrant of each object
  count,     \* m_count of each object
  owner,     \* the object that has locked the mutex of the resource
  counter,   \* named_ptr::counter() of the name, 0 when there is no resource
  frames,    \* each thread: the calls of call and pcall in progress
  waits,     \* each thread: the call that is inside m_mutex.lock(), or None
  kept,      \* enables of an object that only its script can undo (history)
  misused    \* objects on which a call has raised an error (history)

objectVars == <<thread, reentrant>>
scriptVars == <<frames, waits, kept>>
vars == <<objectVars, count, owner, counter, scriptVars, misused>>

Init ==
  /\ thread = [l \in Objects |-> None]
  /\ reentrant = [l \in Objects |-> FALSE]
  /\ count = [l \in Objects |-> 0]
  /\ owner = None
  /\ counter = 0
  /\ frames = [t \in Threads |-> <<>>]
  /\ waits = [t \in Threads |-> None]
  /\ kept = [l \in Objects |-> 0]
  /\ misused = {}

\* The frames of a thread that run under object l.
FramesOf(t, l) == {i \in 1..Len(frames[t]) : frames[t][i].lock = l}

\* A script uses the objects of its own Lua state, and only while it runs.
Uses(t, l) == thread[l] = t /\ waits[t] = None

-----------------------------------------------------------------------------

\* Mutant: the assignment of a named_ptr does not count itself.
New_NotCounted(t, l) ==
  /\ waits[t] = None /\ thread[l] = None /\ l \notin misused
  /\ count[l] = 0 /\ owner # l /\ kept[l] = 0
  /\ thread' = [thread EXCEPT ![l] = t]
  /\ \E r \in BOOLEAN : reentrant' = [reentrant EXCEPT ![l] = r]
  /\ counter' = IF counter = 0 THEN 1 ELSE counter
  /\ UNCHANGED <<count, owner, scriptVars, misused>>

\* Lock.new: constructor and copy leave one reference more in the registry;
\* the first one makes the resource.  An object that left traces (a held
\* mutex, a history) when it was collected is not made a second time.
New(t, l) ==
  /\ waits[t] = None
  /\ thread[l] = None
  /\ count[l] = 0 /\ owner # l /\ kept[l] = 0 /\ l \notin misused
  /\ thread' = [thread EXCEPT ![l] = t]
  /\ \E r \in BOOLEAN : reentrant' = [reentrant EXCEPT ![l] = r]
  /\ counter' = counter + 1
  /\ UNCHANGED <<count, owner, scriptVars, misused>>

\* __gc: the last reference deletes the resource, locked or not; otherwise a
\* mutex that the object has locked stays locked.
Gc(t, l) ==
  /\ Uses(t, l)
  /\ FramesOf(t, l) = {}
  /\ thread' = [thread EXCEPT ![l] = None]
  /\ counter' = counter - 1
  /\ owner' = IF counter = 1 THEN None ELSE owner
  /\ UNCHANGED <<reentrant, count, scriptVars, misused>>

-----------------------------------------------------------------------------

\* enable() has returned to the method that called it.
Entered(t, l, kind) ==
  IF kind = "enable"
  THEN kept' = [kept EXCEPT ![l] = @ + 1] /\ UNCHANGED frames
  ELSE /\ frames' = [frames EXCEPT ![t] = Append(@, [lock |-> l, kind |-> kind])]
       /\ UNCHANGED kept

\* Not part of the code: the bounds on an enable.
Room(t, l) ==
  /\ count[l] \in -MaxMisuse .. MaxCount - 1
  /\ kept[l] \in -MaxMisuse .. MaxCount - 1
  /\ Len(frames[t]) < MaxFrames

\* enable() of an object that is not re-entrant and is enabled: it gives the
\* lock up and throws.
EnableRefused(t, l) ==
  /\ Uses(t, l)
  /\ ~reentrant[l] /\ count[l] + 1 > 1
  /\ count' = [count EXCEPT ![l] = @ - 1]
  /\ owner' = IF count[l] - 1 = 0 THEN None ELSE owner
  /\ misused' = misused \cup {l}
  /\ UNCHANGED <<objectVars, counter, scriptVars>>

\* enable() that needs no lock: the count becomes 2 or more, or is still not
\* positive after a disable too many.
EnableNested(t, l, kind) ==
  /\ Uses(t, l) /\ Room(t, l)
  /\ reentrant[l] \/ count[l] + 1 <= 1
  /\ count[l] + 1 # 1
  /\ count' = [count EXCEPT ![l] = @ + 1]
  /\ Entered(t, l, kind)
  /\ UNCHANGED <<objectVars, owner, counter, waits, misused>>

\* enable() that locks: the count is raised before the thread has the mutex.
EnableLocks(t, l, kind) ==
  /\ Uses(t, l) /\ Room(t, l)
  /\ count[l] + 1 = 1
  /\ count' = [count EXCEPT ![l] = @ + 1]
  /\ waits' = [waits EXCEPT ![t] = [lock |-> l, kind |-> kind]]
  /\ UNCHANGED <<objectVars, owner, counter, frames, kept, misused>>

\* m_mutex.lock() returns.
Acquire(t) ==
  /\ waits[t] # None
  /\ owner = None
  /\ owner' = waits[t].lock
  /\ Entered(t, waits[t].lock, waits[t].kind)
  /\ waits' = [waits EXCEPT ![t] = None]
  /\ UNCHANGED <<objectVars, count, counter, misused>>

-----------------------------------------------------------------------------

\* disable(): it throws when the count falls below zero, and leaves it there.
Disabled(l) ==
  /\ count' = [count EXCEPT ![l] = @ - 1]
  /\ owner' = IF count[l] - 1 = 0 THEN None ELSE owner
  /\ misused' = IF count[l] - 1 < 0 THEN misused \cup {l} ELSE misused

\* A script calls disable.
Disable(t, l) ==
  /\ Uses(t, l)
  /\ count[l] > -MaxMisuse /\ kept[l] > -MaxMisuse
  /\ Disabled(l)
  /\ kept' = IF count[l] >= 1 THEN [kept EXCEPT ![l] = @ - 1] ELSE kept
  /\ UNCHANGED <<objectVars, counter, frames, waits>>

\* The innermost body of a thread.
Top(t) == frames[t][Len(frames[t])]
InBody(t) == frames[t] # <<>> /\ waits[t] = None
Pop(t) == frames' = [frames EXCEPT ![t] = SubSeq(@, 1, Len(@) - 1)]

\* The body of a call or a pcall returns: disable.
BodyReturns(t) ==
  /\ InBody(t)
  /\ Disabled(Top(t).lock)
  /\ Pop(t)
  /\ UNCHANGED <<objectVars, counter, waits, kept>>

\* Mutant: pcall, too, leaves on an error without disable.
BodyFails_Leaves(t) ==
  /\ InBody(t) /\ Pop(t)
  /\ UNCHANGED <<objectVars, count, owner, counter, waits, kept, misused>>

\* The body raises an error: pcall disables the lock, call throws at once and
\* leaves it enabled.
BodyFails(t) ==
  /\ InBody(t)
  /\ Pop(t)
  /\ \/ Top(t).kind = "pcall" /\ Disabled(Top(t).lock) /\ UNCHANGED kept
     \/ /\ Top(t).kind = "call"
        /\ kept' = [kept EXCEPT ![Top(t).lock] = @ + 1]
        /\ UNCHANGED <<count, owner, misused>>
  /\ UNCHANGED <<objectVars, counter, waits>>

-----------------------------------------------------------------------------

Enable(t, l, kind) == EnableNested(t, l, kind) \/ EnableLocks(t, l, kind)

Next ==
  \E t \in Threads :
    \/ \E l \in Objects : \/ New(t, l) \/ Gc(t, l)
                          \/ \E kind \in Kinds : Enable(t, l, kind)
                          \/ EnableRefused(t, l) \/ Disable(t, l)
    \/ Acquire(t) \/ BodyReturns(t) \/ BodyFails(t)

Spec == Init /\ [][Next]_vars

BodyEnds(t, i) == Len(frames[t]) = i /\ (BodyReturns(t) \/ BodyFails(t))

\* Every body comes to an end, however many others it runs inside, and a free
\* mutex is taken by a thread that waits.
LiveSpec ==
  /\ Spec
  /\ \A t \in Threads, i \in 1..MaxFrames : SF_vars(BodyEnds(t, i))
  /\ \A t \in Threads : WF_vars(Acquire(t))

-----------------------------------------------------------------------------

Alive == {l \in Objects : thread[l] # None}

\* How often object l has let its script in and not out again.
Depth(l) ==
  kept[l] + (IF l \in Alive THEN Cardinality(FramesOf(thread[l], l)) ELSE 0)

\* A script that was let in by enable, call or pcall of an object on which no
\* call has failed has the mutex of the name, and so excludes every other
\* such script, in other threads and through other objects, while objects of
\* the name are made and collected.  (After a failed disable, or an enable
\* refused, the object lets scripts in without the mutex.)
Protected ==
  \A l \in Alive \ misused : Depth(l) >= 1 => owner = l

\* The mutex is unlocked again, whether bodies return or fail, unless its
\* object was enabled by hand or by a call whose body failed, or its thread
\* waits for the same mutex through another object.
Released ==
  \A l \in Objects :
    owner = l ~> \/ owner # l
                 \/ kept[l] > 0
                 \/ thread[l] # None /\ waits[thread[l]] # None
=============================================================================
