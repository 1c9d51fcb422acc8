----------------------------- MODULE SharedMemory -----------------------------
(***************************************************************************)
(* One network for all the engines of a user: SystemWideSharedConstant of  *)
(* shm.h with its two backends.                                            *)
(*                                                                         *)
(* "unix" (shm_unix.h): the memory is a file without a name.  Each engine  *)
(* that maps it serves its descriptor on a socket <pid>.sock; an engine    *)
(* that opens it asks the sockets it finds, under a file lock, and makes   *)
(* the memory if none answers.  The objects of one process that have the   *)
(* same name share the path of their socket.                               *)
(*                                                                         *)
(* "windows" (shm.h): the memory is a mapping with a name, initialised     *)
(* under a mutex with a name; both go when their last handle is closed.    *)
(*                                                                         *)
(* Processes crash at any point, calls of the system fail, and a server    *)
(* may take longer to answer than a client waits; MaxFaults bounds how     *)
(* often.  A process number is used again after the process ended.         *)
(***************************************************************************)
EXTENDS Naturals

CONSTANTS
  Platforms,
  Processes,
  MaxObjects, \* of a process
  MaxMems,    \* the memories there may be at a time
  MaxFaults,
  Nobody

ASSUME SharedMemoryAssumption ==
  /\ Platforms \subseteq {"unix", "windows"}
  /\ MaxObjects \in Nat \ {0} /\ MaxMems \in Nat \ {0}
  /\ MaxFaults \in Nat /\ Nobody \notin Processes

\* In the order of their destruction
Objects == 1 .. MaxObjects

VARIABLES
  platform,
  at,        \* at[p]: where process p is; "off" is no process
  cur,       \* cur[p]: the object it is constructing
  todo,      \* todo[p]: the sockets it has not asked yet
  obj,       \* obj[p][o]: the objects of p
  file,      \* file[p]: the object that bound the socket file of p, 0 if there is none
  lock,      \* the holder of init_lock, or of the mutex on Windows
  mutex,     \* of Windows: abandoned by a thread that died with it, or leaked, or sound
  content,   \* content[m]: how far memory m is initialised
  faults,    \* the faults so far
  late,      \* a client gave up on a server that was alive
  failed     \* failed[p]: p failed to construct an object

sharedVars == <<platform, at, cur, todo, obj, file, lock, mutex, content, faults, late, failed>>

Absent == 0
Free == [state |-> "none", mem |-> 0, listening |-> FALSE]

Mems == 1 .. MaxMems
SharedObjects == Processes \X Objects
InUse(m) == \E s \in SharedObjects : obj[s[1]][s[2]].mem = m

Unix == platform = "unix"

\* Where a process is inside open() or initialize()
UnixSteps == {"lock", "scan", "map", "init", "half", "unlink", "bind", "listen", "unlock"}
WindowsSteps == {"create", "mutex", "wait", "check", "half", "flag", "release"}
Opening(p) == at[p] \in UnixSteps \cup WindowsSteps \cup {"destroy"}

Place == UnixSteps \cup WindowsSteps \cup {"destroy", "off", "idle", "closing", "exit"}

\* "null": the memory is mapped, but the object has no pointer to it any more
Object == [state : {"none", "shared", "local", "null"}, mem : Mems \cup {0}, listening : BOOLEAN]

SharedTypeOK ==
  /\ platform \in Platforms
  /\ at \in [Processes -> Place]
  /\ cur \in [Processes -> Objects]
  /\ todo \in [Processes -> SUBSET Processes]
  /\ obj \in [Processes -> [Objects -> Object]]
  /\ file \in [Processes -> Objects \cup {Absent}]
  /\ lock \in Processes \cup {Nobody} /\ mutex \in {"sound", "abandoned", "leaked"}
  /\ content \in [Mems -> {"empty", "half", "whole", "flagged"}]
  /\ faults \in 0 .. MaxFaults /\ late \in BOOLEAN /\ failed \in [Processes -> BOOLEAN]

SharedInit ==
  /\ platform \in Platforms
  /\ at = [p \in Processes |-> "off"]
  /\ cur = [p \in Processes |-> 1]
  /\ todo = [p \in Processes |-> {}]
  /\ obj = [p \in Processes |-> [o \in Objects |-> Free]]
  /\ file = [p \in Processes |-> Absent]
  /\ lock = Nobody /\ mutex = "sound"
  /\ content = [m \in Mems |-> "empty"]
  /\ faults = 0 /\ late = FALSE
  /\ failed = [p \in Processes |-> FALSE]

-----------------------------------------------------------------------------
Goto(p, l) == at' = [at EXCEPT ![p] = l]

Fault == faults < MaxFaults /\ faults' = faults + 1

SetObj(p, r) == obj' = [obj EXCEPT ![p][cur[p]] = r]

Mem(p) == obj[p][cur[p]].mem

Put(p, c) == content' = [content EXCEPT ![Mem(p)] = c]

Start(p) ==
  /\ at[p] = "off" /\ Goto(p, "idle")
  /\ failed' = [failed EXCEPT ![p] = FALSE]
  /\ UNCHANGED <<platform, cur, todo, obj, file, lock, mutex, content, faults, late>>

Construct(p) ==
  /\ at[p] = "idle"
  /\ \E o \in Objects :
       /\ obj[p][o] = Free /\ \A i \in 1 .. o - 1 : obj[p][i] # Free
       /\ cur' = [cur EXCEPT ![p] = o]
  /\ Goto(p, IF Unix THEN "lock" ELSE "create")
  /\ UNCHANGED <<platform, todo, obj, file, lock, mutex, content, faults, late, failed>>

-----------------------------------------------------------------------------
(***************************************************************************)
(* open()                                                                  *)
(***************************************************************************)
\* wait_for_init_lock() and get_peer_sockets()
Lock(p) ==
  /\ at[p] = "lock" /\ lock = Nobody
  /\ lock' = p
  /\ todo' = [todo EXCEPT ![p] = {q \in Processes : file[q] # Absent}]
  /\ Goto(p, "scan")
  /\ UNCHANGED <<platform, cur, obj, file, mutex, content, faults, late, failed>>

Listens(q) == file[q] # Absent /\ obj[q][file[q]].listening

(***************************************************************************)
(* try_receive_memfd(): a socket that is heard gives the memory; the file  *)
(* of one that refuses the connection is removed; if the server goes away  *)
(* or is late after it was connected to, the file stays.                   *)
(***************************************************************************)
Receive(p) ==
  /\ at[p] = "scan"
  /\ \E q \in todo[p] : Listens(q) /\ SetObj(p, [Free EXCEPT !.mem = obj[q][file[q]].mem])
  /\ Goto(p, "map")
  /\ UNCHANGED <<platform, cur, todo, file, lock, mutex, content, faults, late, failed>>

Refused(p) ==
  /\ at[p] = "scan"
  /\ \E q \in todo[p] : /\ ~Listens(q)
                        /\ todo' = [todo EXCEPT ![p] = @ \ {q}]
                        /\ file' = [file EXCEPT ![q] = Absent]
  /\ UNCHANGED <<platform, at, cur, obj, lock, mutex, content, faults, late, failed>>

HungUp(p) ==
  /\ at[p] = "scan"
  /\ \E q \in todo[p] : ~Listens(q) /\ todo' = [todo EXCEPT ![p] = @ \ {q}]
  /\ UNCHANGED <<platform, at, cur, obj, file, lock, mutex, content, faults, late, failed>>

TimedOut(p) ==
  /\ at[p] = "scan" /\ Fault
  /\ \E q \in todo[p] : Listens(q) /\ todo' = [todo EXCEPT ![p] = @ \ {q}]
  /\ late' = TRUE
  /\ UNCHANGED <<platform, at, cur, obj, file, lock, mutex, content, failed>>

\* memfd_create() and mmap() by the one that must initialise it
Create(p) ==
  /\ at[p] = "scan" /\ todo[p] = {}
  /\ \E m \in Mems :
       /\ ~InUse(m) /\ \A n \in 1 .. m - 1 : InUse(n)
       /\ SetObj(p, [Free EXCEPT !.mem = m])
       /\ content' = [content EXCEPT ![m] = "empty"]
  /\ Goto(p, "init")
  /\ UNCHANGED <<platform, cur, todo, file, lock, mutex, faults, late, failed>>

Map(p) ==
  /\ at[p] = "map" /\ Goto(p, "unlink")
  /\ UNCHANGED <<platform, cur, todo, obj, file, lock, mutex, content, faults, late, failed>>

\* *mapped_mem = initial_value, which other engines could see half done
Initialise(p) ==
  /\ Unix /\ at[p] \in {"init", "half"}
  /\ Put(p, IF at[p] = "init" THEN "half" ELSE "whole")
  /\ Goto(p, IF at[p] = "init" THEN "half" ELSE "unlink")
  /\ UNCHANGED <<platform, cur, todo, obj, file, lock, mutex, faults, late, failed>>

Unlink(p) ==
  /\ at[p] = "unlink" /\ Goto(p, "bind")
  /\ file' = [file EXCEPT ![p] = Absent]
  /\ UNCHANGED <<platform, cur, todo, obj, lock, mutex, content, faults, late, failed>>

\* Mutant of Bind: the file lock is given up before the server listens.
BindUnlocked(p) ==
  /\ at[p] = "bind" /\ Goto(p, "listen")
  /\ file' = [file EXCEPT ![p] = cur[p]]
  /\ lock' = Nobody
  /\ UNCHANGED <<platform, cur, todo, obj, mutex, content, faults, late, failed>>

Bind(p) ==
  /\ at[p] = "bind" /\ Goto(p, "listen")
  /\ file' = [file EXCEPT ![p] = cur[p]]
  /\ UNCHANGED <<platform, cur, todo, obj, lock, mutex, content, faults, late, failed>>

\* listen() and the thread that serves the descriptor
Listen(p) ==
  /\ at[p] = "listen" /\ Goto(p, "unlock")
  /\ SetObj(p, [state |-> "none", mem |-> Mem(p), listening |-> TRUE])
  /\ UNCHANGED <<platform, cur, todo, file, lock, mutex, content, faults, late, failed>>

Unlock(p) ==
  /\ at[p] = "unlock" /\ Goto(p, "idle")
  /\ lock' = IF lock = p THEN Nobody ELSE lock
  /\ obj' = [obj EXCEPT ![p][cur[p]].state = "shared"]
  /\ UNCHANGED <<platform, cur, todo, file, mutex, content, faults, late, failed>>

-----------------------------------------------------------------------------
(***************************************************************************)
(* initialize() on Windows                                                 *)
(***************************************************************************)
MutexHolders == {p \in Processes : at[p] \in {"wait", "check", "half", "flag", "release"}}

\* p closes its handle of the mutex, which is gone with the last one.
CloseMutex(p) == MutexHolders \subseteq {p}

\* CreateFileMapping() and MapViewOfFile(); the first one gets zeroed memory.
OpenMapping(p) ==
  /\ at[p] = "create" /\ Goto(p, "mutex")
  /\ SetObj(p, [Free EXCEPT !.mem = 1])
  /\ content' = IF InUse(1) THEN content ELSE [content EXCEPT ![1] = "empty"]
  /\ UNCHANGED <<platform, cur, todo, file, lock, mutex, faults, late, failed>>

OpenMutex(p) ==
  /\ at[p] = "mutex" /\ Goto(p, "wait")
  /\ UNCHANGED <<platform, cur, todo, obj, file, lock, mutex, content, faults, late, failed>>

\* WaitForSingleObject(): who gets an abandoned mutex owns it, closes its
\* handle without releasing it and falls back.  Its thread may own it again.
Wait(p) ==
  /\ at[p] = "wait" /\ (lock = Nobody \/ lock = p)
  /\ IF mutex = "abandoned"
     THEN /\ Goto(p, "destroy")
          /\ IF CloseMutex(p) THEN lock' = Nobody /\ mutex' = "sound"
                              ELSE lock' = p /\ mutex' = "leaked"
     ELSE Goto(p, "check") /\ lock' = p /\ mutex' = mutex
  /\ UNCHANGED <<platform, cur, todo, obj, file, content, faults, late, failed>>

Check(p) ==
  /\ at[p] = "check"
  /\ IF content[1] = "flagged" THEN Goto(p, "release") /\ UNCHANGED content
     ELSE Goto(p, "half") /\ Put(p, "half")
  /\ UNCHANGED <<platform, cur, todo, obj, file, lock, mutex, faults, late, failed>>

\* Mutant of Fill: the flag is set before the object is written.
FillFlagFirst(p) ==
  /\ ~Unix /\ at[p] \in {"half", "flag"}
  /\ Put(p, IF at[p] = "half" THEN "flagged" ELSE "half")
  /\ Goto(p, IF at[p] = "half" THEN "flag" ELSE "release")
  /\ UNCHANGED <<platform, cur, todo, obj, file, lock, mutex, faults, late, failed>>

\* The object, then the flag that it is initialised
Fill(p) ==
  /\ ~Unix /\ at[p] \in {"half", "flag"}
  /\ Put(p, IF at[p] = "half" THEN "whole" ELSE "flagged")
  /\ Goto(p, IF at[p] = "half" THEN "flag" ELSE "release")
  /\ UNCHANGED <<platform, cur, todo, obj, file, lock, mutex, faults, late, failed>>

Release(p) ==
  /\ at[p] = "release" /\ Goto(p, "idle")
  /\ IF mutex = "leaked" /\ ~CloseMutex(p) THEN UNCHANGED <<lock, mutex>>
     ELSE lock' = Nobody /\ mutex' = "sound"
  /\ obj' = [obj EXCEPT ![p][cur[p]].state = "shared"]
  /\ UNCHANGED <<platform, cur, todo, file, content, faults, late, failed>>

-----------------------------------------------------------------------------
(***************************************************************************)
(* Failures and ends                                                       *)
(***************************************************************************)
CanFail == {"lock", "init", "map", "unlink", "bind", "listen", "create", "mutex"}

\* Mutant of Fail: an early return keeps the file lock.
FailLocked(p) ==
  /\ at[p] \in CanFail /\ Fault
  /\ Goto(p, "destroy")
  /\ failed' = [failed EXCEPT ![p] = TRUE]
  /\ UNCHANGED <<platform, cur, todo, obj, file, lock, mutex, content, late>>

\* A call of the system fails: the file lock is given up on return.
Fail(p) ==
  /\ at[p] \in CanFail /\ Fault
  /\ Goto(p, "destroy")
  /\ lock' = IF Unix /\ lock = p THEN Nobody ELSE lock
  /\ failed' = [failed EXCEPT ![p] = TRUE]
  /\ UNCHANGED <<platform, cur, todo, obj, file, mutex, content, late>>

\* ~SharedMemory() or cleanup_partial(), then SharedMemoryBackendFallback
FallBack(p) ==
  /\ at[p] = "destroy" /\ Goto(p, "idle")
  /\ SetObj(p, [Free EXCEPT !.state = "local"])
  /\ file' = IF Unix THEN [file EXCEPT ![p] = Absent] ELSE file
  /\ UNCHANGED <<platform, cur, todo, lock, mutex, content, faults, late, failed>>

\* instances.clear() destroys the objects in their order: close(Normal)
Close(p) ==
  /\ at[p] \in {"idle", "closing"}
  /\ \E o \in Objects :
       /\ obj[p][o].state # "none" /\ \A i \in 1 .. o - 1 : obj[p][i].state = "none"
       /\ obj' = [obj EXCEPT ![p][o] = Free]
       /\ file' = IF obj[p][o].state = "shared" THEN [file EXCEPT ![p] = Absent] ELSE file
       /\ Goto(p, IF \E i \in Objects \ {o} : obj[p][i].state # "none" THEN "closing" ELSE "idle")
  /\ UNCHANGED <<platform, cur, todo, lock, mutex, content, faults, late, failed>>

\* close(AtExit): the server goes and the memory stays mapped, but reset()
\* takes the pointer to it away.  Windows has no such hook.
ClosedAtExit(x) == [x EXCEPT !.listening = FALSE, !.state = IF Unix /\ @ = "shared" THEN "null" ELSE @]

\* exit(): cleanup_at_exit() closes the objects; other threads may still search.
AtExit(p) ==
  /\ at[p] = "idle" /\ Goto(p, "exit")
  /\ obj' = [obj EXCEPT ![p] = [o \in Objects |-> ClosedAtExit(obj[p][o])]]
  /\ file' = IF \E o \in Objects : obj[p][o].listening THEN [file EXCEPT ![p] = Absent] ELSE file
  /\ UNCHANGED <<platform, cur, todo, lock, mutex, content, faults, late, failed>>

\* The system takes back what p held; a mutex that others wait for is abandoned.
Die(p) ==
  /\ Goto(p, "off")
  /\ obj' = [obj EXCEPT ![p] = [o \in Objects |-> Free]]
  /\ todo' = [todo EXCEPT ![p] = {}]
  /\ IF ~Unix /\ CloseMutex(p) THEN lock' = Nobody /\ mutex' = "sound"
     ELSE IF lock = p THEN lock' = Nobody /\ mutex' = IF Unix THEN "sound" ELSE "abandoned"
     ELSE UNCHANGED <<lock, mutex>>
  /\ UNCHANGED <<platform, cur, file, content, late, failed>>

Exit(p) == at[p] = "exit" /\ Die(p) /\ UNCHANGED faults

Crash(p) == at[p] # "off" /\ Fault /\ Die(p)

-----------------------------------------------------------------------------
Open(p) ==
  \/ Receive(p) \/ Refused(p) \/ HungUp(p) \/ Create(p) \/ Map(p) \/ Initialise(p)
  \/ Unlink(p) \/ Bind(p) \/ Listen(p) \/ Unlock(p)
  \/ OpenMapping(p) \/ OpenMutex(p) \/ Check(p) \/ Fill(p) \/ Release(p) \/ FallBack(p)

SharedNext ==
  \E p \in Processes :
    \/ Start(p) \/ Construct(p) \/ Lock(p) \/ Wait(p) \/ Open(p)
    \/ TimedOut(p) \/ Fail(p) \/ Crash(p)
    \/ Close(p) \/ AtExit(p) \/ Exit(p)

SharedSpec == SharedInit /\ [][SharedNext]_sharedVars

\* A process that opens the memory goes on, the system wakes up those that
\* wait for a lock in turn, and one that exits ends.
SharedFairSpec ==
  /\ SharedSpec
  /\ \A p \in Processes : WF_sharedVars(Open(p)) /\ SF_sharedVars(Lock(p)) /\ SF_sharedVars(Wait(p)) /\ WF_sharedVars(Exit(p))

-----------------------------------------------------------------------------
(***************************************************************************)
(* Properties                                                              *)
(***************************************************************************)
\* What the user of an object reads
Seen(s) ==
  LET o == obj[s[1]][s[2]]
  IN CASE o.state = "none" -> "none"
       [] o.state = "null" -> "null"
       [] o.state = "local" -> "whole"
       [] o.state = "shared" -> IF content[o.mem] \in {"whole", "flagged"} THEN "whole" ELSE "torn"

Promise == INSTANCE SharedConstant
             WITH Objects <- SharedObjects,
                  seen <- [s \in SharedObjects |-> Seen(s)],
                  leaving <- {s \in SharedObjects : at[s[1]] = "exit"}

\* Whatever engines are killed in whatever state, an engine that has the
\* network reads the whole network until it drops it or calls exit(): no memory
\* is mapped before it is initialised, none is initialised again while somebody
\* reads it, and no pointer to it is taken away before that.
KeepsPromise == Promise!Spec

\* What close() leaves the memory mapped for at the exit, that threads which
\* still search can read it: this does not hold, reset() has taken the pointer.
ReadableAtExit == \A s \in SharedObjects : Seen(s) # "null"

\* An object whose memory others can still be given
Counts(s) ==
  at[s[1]] \notin {"closing", "exit"} /\ ~failed[s[1]] /\ obj[s[1]][s[2]].state = "shared"

\* There is one copy of the network: all engines with shared memory that are
\* not about to drop it share the same memory, so each of them can still be
\* asked for it.  Engines that failed to construct an object may have lost
\* their socket, and a server that is too late is not heard.
OneMemory ==
  /\ SharedTypeOK
  /\ late \/ \A s, t \in SharedObjects :
       Counts(s) /\ Counts(t) => obj[s[1]][s[2]].mem = obj[t[1]][t[2]].mem

\* Every construction ends, with shared memory or without, whichever engine
\* dies in the middle of its own, unless the mutex of Windows is owned by an
\* engine that has left initialize() without releasing it.
Leaked == mutex = "leaked"

OpensReturn == \A p \in Processes : Opening(p) ~> (~Opening(p) \/ Leaked)
=============================================================================
