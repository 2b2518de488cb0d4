----------------------------- MODULE WriteLock -----------------------------
(***************************************************************************)
(* The single-writer guard of packages/atlas-mcp: openAtlasStore and its   *)
(* openDirectories (store.ts) around acquireWriteLock and release          *)
(* (write-lock.ts).  DurableAssertionLog takes for granted that one        *)
(* process at a time appends to a store; this is what is to ensure it.     *)
(*                                                                         *)
(* Every system call on the lock file is a step, so any number of          *)
(* processes may interleave between them, and a process may die between    *)
(* any two.  An open file is known by its handle: what is written to one   *)
(* that was unlinked meanwhile no longer shows at the path.                *)
(***************************************************************************)
EXTENDS Naturals, FiniteSets

CONSTANTS Procs,            \* process ids
          MaxDead,          \* bound: processes dead at the same time
          PidReuse,         \* whether a new process may get a dead one's pid
          WritesFail        \* whether writing the record may fail

ASSUME LockAssumption ==
  /\ IsFiniteSet(Procs)
  /\ MaxDead \in Nat /\ PidReuse \in BOOLEAN /\ WritesFail \in BOOLEAN

VARIABLES file,             \* what is at the path of the lock file
          pc,               \* where each process is
          existing,         \* the record acquireWriteLock judged
          handle,           \* the file a process created and has open
          openDirectories   \* processes that have the store registered

vars == <<file, pc, existing, handle, openDirectories>>
-----------------------------------------------------------------------------
\* Lock files ever created, as far as anything still refers to them.
Births == 1..(2 * Cardinality(Procs) + 2)

\* acquired_at is read off a clock that moves between two creations.
Record == [pid : Procs, acquired_at : Births]

\* A file that is empty or holds part of a record.
Unreadable == [pid |-> "none", acquired_at |-> 0]

NoFile == [handle |-> 0, record |-> Unreadable]
File   == {NoFile} \cup [handle : Births, record : Record \cup {Unreadable}]

Steps == {"unborn", "dead", "idle", "check", "read", "judge", "confirm", "unlink",
          "create", "write", "cleanup", "opening", "held", "release", "unlinkOwn"}

processIsAlive(pid) == pc[pid] \notin {"unborn", "dead"}

At(p, step) == pc[p] = step
Goto(p, step) == pc' = [pc EXCEPT ![p] = step]

\* openAtlasStore unregisters the directory and returns or throws.
Leave(p) ==
  /\ Goto(p, "idle")
  /\ existing' = [existing EXCEPT ![p] = Unreadable]
  /\ openDirectories' = openDirectories \ {p}

Proceed(p, step) == Goto(p, step) /\ UNCHANGED <<existing, openDirectories>>

\* A file nobody has met yet, the first such.
Met(n) ==
  n = file.handle \/ \E p \in Procs : n \in {handle[p], existing[p].acquired_at}
IsFresh(n) == ~Met(n) /\ \A m \in 1..(n - 1) : Met(m)

Init ==
  /\ file = NoFile
  /\ pc = [p \in Procs |-> "unborn"]
  /\ existing = [p \in Procs |-> Unreadable]
  /\ handle = [p \in Procs |-> 0]
  /\ openDirectories = {}
-----------------------------------------------------------------------------
(* Processes come and go *)

Start(p) ==
  /\ At(p, "unborn") \/ (PidReuse /\ At(p, "dead"))
  /\ Goto(p, "idle")
  /\ UNCHANGED <<file, existing, handle, openDirectories>>

\* The lock file stays behind; everything else dies with the process.
Crash(p) ==
  /\ processIsAlive(p)
  /\ Cardinality({q \in Procs : At(q, "dead")}) < MaxDead
  /\ Goto(p, "dead")
  /\ existing' = [existing EXCEPT ![p] = Unreadable]
  /\ handle' = [handle EXCEPT ![p] = 0]
  /\ openDirectories' = openDirectories \ {p}
  /\ UNCHANGED file
-----------------------------------------------------------------------------
(* openAtlasStore in read-write mode, and acquireWriteLock *)

\* A directory this process has registered is refused at once.
OpenAtlasStore(p) ==
  /\ At(p, "idle") /\ p \notin openDirectories
  /\ openDirectories' = openDirectories \cup {p}
  /\ Goto(p, "check")
  /\ UNCHANGED <<file, existing, handle>>

Check(p) ==
  /\ At(p, "check")
  /\ Goto(p, IF file = NoFile THEN "create" ELSE "read")
  /\ UNCHANGED <<file, existing, handle, openDirectories>>

\* A file that is gone by now reads like one that cannot be parsed.
Read(p) ==
  /\ At(p, "read")
  /\ IF file.record = Unreadable
     THEN Leave(p)
     ELSE /\ existing' = [existing EXCEPT ![p] = file.record]
          /\ Goto(p, "judge")
          /\ UNCHANGED openDirectories
  /\ UNCHANGED <<file, handle>>

\* Mutant: every lock file is honoured, dead holder or not.
JudgeHonoursTheDead(p) ==
  /\ At(p, "judge")
  /\ Leave(p)
  /\ UNCHANGED <<file, handle>>

Judge(p) ==
  /\ At(p, "judge")
  /\ IF processIsAlive(existing[p].pid) THEN Leave(p) ELSE Proceed(p, "confirm")
  /\ UNCHANGED <<file, handle>>

\* The record must still be the one that was judged dead.
Confirm(p) ==
  /\ At(p, "confirm")
  /\ IF file.record = existing[p] /\ ~processIsAlive(existing[p].pid)
     THEN Proceed(p, "unlink")
     ELSE Leave(p)
  /\ UNCHANGED <<file, handle>>

\* rmSync by path: whatever is there now.
Unlink(p) ==
  /\ At(p, "unlink")
  /\ file' = NoFile
  /\ Proceed(p, "create")
  /\ UNCHANGED handle

\* openSync creates an empty file.
Created(p) ==
  /\ \E n \in Births :
       /\ IsFresh(n)
       /\ file' = [handle |-> n, record |-> Unreadable]
       /\ handle' = [handle EXCEPT ![p] = n]
  /\ Proceed(p, "write")

\* Mutants: the file is opened without `x`; losing the race cleans up.
CreateOver(p) == At(p, "create") /\ Created(p)

CreateCleansUp(p) ==
  /\ At(p, "create")
  /\ IF file = NoFile THEN Created(p)
                      ELSE Leave(p) /\ file' = NoFile /\ UNCHANGED handle

\* openSync with `wx` creates the file or reports the winner.
Create(p) ==
  /\ At(p, "create")
  /\ IF file = NoFile THEN Created(p) ELSE Leave(p) /\ UNCHANGED <<file, handle>>

\* The record goes into the file this process created, which may have left the
\* path by now.
Write(p) ==
  /\ At(p, "write")
  /\ file' = IF file.handle = handle[p]
             THEN [file EXCEPT !.record = [pid |-> p, acquired_at |-> handle[p]]]
             ELSE file
  /\ handle' = [handle EXCEPT ![p] = 0]
  /\ Proceed(p, "opening")

\* A failed or short write.
WriteFails(p) ==
  /\ WritesFail /\ At(p, "write")
  /\ handle' = [handle EXCEPT ![p] = 0]
  /\ Proceed(p, "cleanup")
  /\ UNCHANGED file

\* The path is unlinked and the failure is thrown through openAtlasStore, past
\* the line that unregisters the directory.
Cleanup(p) ==
  /\ At(p, "cleanup")
  /\ file' = NoFile
  /\ Goto(p, "idle")
  /\ existing' = [existing EXCEPT ![p] = Unreadable]
  /\ UNCHANGED <<handle, openDirectories>>
-----------------------------------------------------------------------------
(* Holding and releasing *)

OpenReadWrite(p) ==
  /\ At(p, "opening")
  /\ Proceed(p, "held")
  /\ UNCHANGED <<file, handle>>

\* Opening the logs failed, or the owner closes the store: the handles are
\* closed first, then the lock is given back.
Close(p) ==
  /\ At(p, "opening") \/ At(p, "held")
  /\ Proceed(p, "release")
  /\ UNCHANGED <<file, handle>>

\* Only a record that names this process is unlinked.
Release(p) ==
  /\ At(p, "release")
  /\ IF file.record.pid = p THEN Proceed(p, "unlinkOwn") ELSE Leave(p)
  /\ UNCHANGED <<file, handle>>

UnlinkOwn(p) ==
  /\ At(p, "unlinkOwn")
  /\ file' = NoFile
  /\ Leave(p)
  /\ UNCHANGED handle
-----------------------------------------------------------------------------
\* What a process does next once it is inside a call.
Runs(p) ==
  \/ Check(p) \/ Read(p) \/ Judge(p) \/ Confirm(p) \/ Unlink(p)
  \/ Create(p) \/ Write(p) \/ Cleanup(p) \/ OpenReadWrite(p)
  \/ Release(p) \/ UnlinkOwn(p)

Next == \E p \in Procs :
  Start(p) \/ OpenAtlasStore(p) \/ Runs(p) \/ WriteFails(p) \/ Close(p) \/ Crash(p)

Spec == Init /\ [][Next]_vars

\* Processes run, are started once, and try to open the store again; a pid need
\* not be reused.
Fairness ==
  \A p \in Procs :
    /\ WF_vars(Runs(p)) /\ WF_vars(OpenAtlasStore(p))
    /\ WF_vars(At(p, "unborn") /\ Start(p))

FairSpec == Spec /\ Fairness
-----------------------------------------------------------------------------
(* Correctness *)

TypeOK ==
  /\ file \in File
  /\ pc \in [Procs -> Steps]
  /\ existing \in [Procs -> Record \cup {Unreadable}]
  /\ handle \in [Procs -> 0..(2 * Cardinality(Procs) + 2)]
  /\ openDirectories \subseteq Procs

Writers == {p \in Procs : pc[p] \in {"opening", "held"}}

\* No two processes have the store open read-write ("even if two processes both
\* reached the unlink, only one of them can create the file, and the other is
\* told the lock is held").
MutualExclusion == \A p, q \in Writers : p = q

\* The lock file names the process that has the store open, so that anyone who
\* finds it honours it and the owner can release it.
HolderIsNamed == \A p \in Writers : file.record.pid = p

Stale(p) == file.record.pid = p /\ ~processIsAlive(p)

\* A process that died, or whose record could not be written: openAtlasStore left
\* the directory registered, and refuses it for as long as the process lives.
ShutOut(p) == At(p, "dead") \/ (At(p, "idle") /\ p \in openDirectories)

\* The lock of a dead holder does not keep out of the store for ever those who can
\* still ask for it, even if a process that was reclaiming it dies as well.
StaleIsReclaimed ==
  \A p \in Procs : Stale(p) ~> (~Stale(p) \/ Writers # {} \/ \A q \in Procs : ShutOut(q))
=============================================================================
