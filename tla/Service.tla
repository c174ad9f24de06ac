------------------------------ MODULE Service -------------------------------
(***************************************************************************)
(* concurrent/service.cpp.  A service is a task of the pool that runs the  *)
(* script of a file until the version of the Lua states (mvm::reload)      *)
(* changes and then starts a copy of itself.  The first service to notice  *)
(* the change also scans the directory for files that have no service.     *)
(* Which files have one is kept in s_references, which every thread reads  *)
(* and writes without the mutex; the model takes each access as atomic.    *)
(*                                                                         *)
(* A slot stands for a service and the copies it restarts as.  One         *)
(* directory is modelled.                                                  *)
(***************************************************************************)
EXTENDS Integers, FiniteSets

CONSTANTS
  Files,      \* names a file of the directory may have
  FirstFiles, \* files that exist when the process starts
  Slots,      \* services at a time
  Main,       \* the thread that calls service::load
  MaxVersion, \* bound on mvm::version()
  MaxEvents,  \* bound on files that appear or disappear and on calls of
              \* service.start from Lua, together
  MaxStarts,  \* bound on the latter alone
  None

ASSUME ServiceAssumption ==
  /\ FirstFiles \subseteq Files /\ Main \notin Slots /\ None \notin Files
  /\ MaxVersion \in Nat /\ MaxEvents \in Nat /\ MaxStarts \in Nat

VARIABLES
  files,      \* files of the directory
  events,     \* files changed and services started by Lua so far
  starts,     \* services started by Lua so far
  version,    \* mvm::version()
  sVersion,   \* service::s_version
  references, \* the keys of service::s_references
  loaded,     \* s_dirName holds the directory
  pc,         \* where run() of each slot, and load() of the main thread, is
  file,       \* m_fileName of each slot
  mVersion,   \* m_version of each slot
  mStop,      \* m_stop of each slot
  list,       \* the files a scan has still to look at
  found,      \* the file a scan has found without a service, or None
  outdated,   \* scans for whose found file somebody else has started a service
              \* since they looked (history)
  doubled,    \* files that had a service when Lua, or a scan that was outdated,
              \* started one (history)
  unseen      \* files a scan passed over although no service will run them:
              \* the reference was left behind or about to be erased (history)

worldVars == <<files, events, starts, version>>
slotVars == <<file, mVersion, mStop>>
scanVars == <<list, found>>
history == <<outdated, doubled, unseen>>
vars == <<worldVars, sVersion, references, loaded, pc, slotVars, scanVars,
          history>>

Scanners == Slots \cup {Main}

Init ==
  /\ files = FirstFiles
  /\ events = 0 /\ starts = 0
  /\ version = 0 /\ sVersion = 0
  /\ references = {}
  /\ loaded = FALSE
  /\ pc = [s \in Scanners |-> IF s = Main THEN "load" ELSE "free"]
  /\ file = [s \in Slots |-> None]
  /\ mVersion = [s \in Slots |-> 0]
  /\ mStop = [s \in Slots |-> FALSE]
  /\ list = [s \in Scanners |-> {}]
  /\ found = [s \in Scanners |-> None]
  /\ outdated = {} /\ doubled = {} /\ unseen = {}

Free == {s \in Slots : pc[s] = "free"}
ServicesOf(f) == {s \in Slots \ Free : file[s] = f}

Goto(s, where) == pc' = [pc EXCEPT ![s] = where]

\* run() returns and the pool deletes the object: the slot is as it was.
Leave(s) ==
  /\ Goto(s, "free")
  /\ file' = [file EXCEPT ![s] = None]
  /\ mVersion' = [mVersion EXCEPT ![s] = 0]
  /\ mStop' = [mStop EXCEPT ![s] = FALSE]

-----------------------------------------------------------------------------

\* Files appear and disappear.
Change ==
  /\ events < MaxEvents
  /\ events' = events + 1
  /\ \E f \in Files : files' = IF f \in files THEN files \ {f}
                                              ELSE files \cup {f}
  /\ UNCHANGED <<starts, version, sVersion, references, loaded, pc, slotVars,
                 scanVars, history>>

\* mvm::reload or mvm::clear.
Bump ==
  /\ version < MaxVersion
  /\ version' = version + 1
  /\ UNCHANGED <<files, events, starts, sVersion, references, loaded, pc,
                 slotVars, scanVars, history>>

\* The scans that have found file f.
Found(f) == {p \in Scanners : found[p] = f}

\* service::start: the constructor and core::start.
StartService(f) ==
  LET s == CHOOSE x \in Free : TRUE IN
  /\ Free # {}
  /\ references' = references \cup {f}
  /\ pc' = [pc EXCEPT ![s] = "queued"]
  /\ file' = [file EXCEPT ![s] = f]
  /\ mVersion' = [mVersion EXCEPT ![s] = version]
  /\ UNCHANGED mStop

\* service.start from Lua: it does not look at the references.
LuaStart(f) ==
  /\ events < MaxEvents /\ starts < MaxStarts
  /\ events' = events + 1 /\ starts' = starts + 1
  /\ StartService(f)
  /\ outdated' = outdated \cup Found(f)
  /\ doubled' = IF ServicesOf(f) # {} THEN doubled \cup {f} ELSE doubled
  /\ UNCHANGED <<files, version, sVersion, loaded, scanVars, unseen>>

\* service::load: the directory is remembered and scanned.
Load ==
  /\ pc[Main] = "load"
  /\ loaded' = TRUE
  /\ Goto(Main, "find")
  /\ UNCHANGED <<worldVars, sVersion, references, slotVars, scanVars, history>>

-----------------------------------------------------------------------------

\* service::run(dirName): os::find.
Find(p) ==
  /\ pc[p] = "find"
  /\ list' = [list EXCEPT ![p] = files]
  /\ Goto(p, "scan")
  /\ UNCHANGED <<worldVars, sVersion, references, loaded, slotVars, found,
                 history>>

\* Mutant: the references are not looked at.
Look_Blind(p) ==
  /\ pc[p] = "scan"
  /\ found[p] = None
  /\ \E f \in list[p] :
       /\ list' = [list EXCEPT ![p] = @ \ {f}]
       /\ found' = [found EXCEPT ![p] = f]
  /\ UNCHANGED <<worldVars, sVersion, references, loaded, pc, slotVars, history>>

\* The next file of the list: does it have a service?
Look(p) ==
  /\ pc[p] = "scan"
  /\ found[p] = None
  /\ \E f \in list[p] :
       /\ list' = [list EXCEPT ![p] = @ \ {f}]
       /\ found' = [found EXCEPT ![p] = IF f \in references THEN None ELSE f]
       /\ unseen' = IF f \in references /\ \A s \in ServicesOf(f) : pc[s] = "erase"
                    THEN unseen \cup {f} ELSE unseen
  /\ UNCHANGED <<worldVars, sVersion, references, loaded, pc, slotVars,
                 outdated, doubled>>

\* It had none: start one.  Nobody looks again.
StartFound(p) ==
  /\ found[p] # None
  /\ StartService(found[p])
  /\ found' = [found EXCEPT ![p] = None]
  /\ outdated' = (outdated \cup Found(found[p])) \ {p}
  /\ doubled' = IF p \in outdated /\ ServicesOf(found[p]) # {}
                THEN doubled \cup {found[p]} ELSE doubled
  /\ UNCHANGED <<worldVars, sVersion, loaded, list, unseen>>

ScanEnds(p) ==
  /\ pc[p] = "scan"
  /\ list[p] = {} /\ found[p] = None
  /\ Goto(p, IF p = Main THEN "over" ELSE "sleep")
  /\ UNCHANGED <<worldVars, sVersion, references, loaded, slotVars, scanVars,
                 history>>

Scan(p) == Find(p) \/ Look(p) \/ StartFound(p) \/ ScanEnds(p)

-----------------------------------------------------------------------------

\* A thread of the pool runs the service.  A stopped one loads the file and
\* returns at once; its reference stays.
Begin(s) ==
  /\ pc[s] = "queued"
  /\ IF mStop[s] THEN Leave(s) ELSE Goto(s, "script") /\ UNCHANGED slotVars
  /\ UNCHANGED <<worldVars, sVersion, references, loaded, scanVars, history>>

\* The script returns; it may have called stop() of the service it was given,
\* which is not looked at before.  m_version is not looked at again.
ScriptReturns(s) ==
  /\ pc[s] = "script"
  /\ Goto(s, "check")
  /\ \E stop \in BOOLEAN : mStop' = [mStop EXCEPT ![s] = stop]
  /\ mVersion' = [mVersion EXCEPT ![s] = 0]
  /\ UNCHANGED <<worldVars, sVersion, references, loaded, file, scanVars,
                 history>>

\* Mutant: s_version is read again after it was set.
CheckReload_Late(s) ==
  /\ pc[s] = "check"
  /\ sVersion' = version
  /\ Goto(s, IF sVersion' < version /\ loaded THEN "find" ELSE "sleep")
  /\ UNCHANGED <<worldVars, references, loaded, slotVars, scanVars, history>>

\* checkReload, under the mutex, and the first step of reload.
CheckReload(s) ==
  /\ pc[s] = "check"
  /\ sVersion' = IF sVersion < version THEN version ELSE sVersion
  /\ Goto(s, IF sVersion < version /\ loaded THEN "find" ELSE "sleep")
  /\ UNCHANGED <<worldVars, references, loaded, slotVars, scanVars, history>>

\* After a second the file is still there: start a copy, which takes the
\* version of now and m_stop.
Restart(s) ==
  /\ pc[s] = "sleep"
  /\ file[s] \in files
  /\ Goto(s, "queued")
  /\ mVersion' = [mVersion EXCEPT ![s] = version]
  /\ UNCHANGED <<worldVars, sVersion, references, loaded, file, mStop,
                 scanVars, history>>

\* The file has gone.
Gone(s) ==
  /\ pc[s] = "sleep"
  /\ file[s] \notin files
  /\ Goto(s, "erase")
  /\ UNCHANGED <<worldVars, sVersion, references, loaded, slotVars, scanVars,
                 history>>

Erase(s) ==
  /\ pc[s] = "erase"
  /\ references' = references \ {file[s]}
  /\ Leave(s)
  /\ UNCHANGED <<worldVars, sVersion, loaded, scanVars, history>>

Run(s) == Begin(s) \/ CheckReload(s) \/ Restart(s) \/ Gone(s) \/ Erase(s)

-----------------------------------------------------------------------------

Next ==
  \/ Change \/ Bump \/ Load
  \/ \E f \in Files : LuaStart(f)
  \/ \E p \in Scanners : Scan(p)
  \/ \E s \in Slots : ScriptReturns(s) \/ Run(s)

Spec == Init /\ [][Next]_vars

\* A script ends when loop() returns false: the version is not its own.
Dismissed(s) == mVersion[s] # version /\ ScriptReturns(s)

\* Queued services get a thread of the pool (Core!TaskServed), threads go on.
LiveSpec ==
  /\ Spec
  /\ \A p \in Scanners : WF_vars(Scan(p))
  /\ \A s \in Slots : WF_vars(Run(s)) /\ WF_vars(Dismissed(s))

-----------------------------------------------------------------------------

\* A file has one service at most, and a reference as long as it has one,
\* through scans of several threads, restarts and files that come and go: a
\* scan that found no reference starts a second service only if somebody else
\* started one between its look and its start (service.cpp:170), and Lua if it
\* asks for a file that has one.
OneService ==
  \A f \in Files \ doubled :
    /\ Cardinality(ServicesOf(f)) <= 1
    /\ ServicesOf(f) # {} => f \in references

\* After a reload that comes while a script is in execution, a file of the
\* directory gets a service.  (When every service is between its script and
\* its restart, the copies start with the new version and nobody scans.)
\* A file stays without one when the scan met the reference of a service that
\* had seen the file missing and was about to erase it, or one that a stopped
\* service has left for good (unseen).
FileServed ==
  \A f \in Files :
    (/\ loaded /\ f \in files /\ sVersion < version
     /\ \E s \in Slots : pc[s] = "script" /\ mVersion[s] < version)
    ~> \/ ServicesOf(f) # {}
       \/ f \notin files
       \/ f \in unseen
=============================================================================
