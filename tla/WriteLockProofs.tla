-------------------------- MODULE WriteLockProofs --------------------------
(***************************************************************************)
(* For any number of processes: the guard keeps its types, and as long as  *)
(* no process dies the exclusive create alone makes it a lock, whatever    *)
(* writes fail and however opens, refusals and closes interleave.  What    *)
(* breaks it is the reclaim of a dead holder's file: TLC shows how.        *)
(***************************************************************************)
EXTENDS WriteLock, FiniteSetTheorems, TLAPS

LEMMA BirthsAreNumbers ==
  /\ Cardinality(Procs) \in Nat
  /\ \A n \in Births : n \in 0..(2 * Cardinality(Procs) + 2) /\ n # 0
<1>1. Cardinality(Procs) \in Nat
  BY LockAssumption, FS_CardinalityType
<1> QED
  BY <1>1 DEF Births

\* A process between creating the lock file and giving it back.
Owner(p) ==
  pc[p] \in {"write", "cleanup", "opening", "held", "release", "unlinkOwn"}

OneOwner == \A p, q \in Procs : Owner(p) /\ Owner(q) => p = q

\* The path holds the owner's file, with the owner's name once it is written.
OwnerHasFile ==
  \A p \in Procs :
     /\ Owner(p) => file # NoFile
     /\ pc[p] = "write" => file.handle = handle[p]
     /\ pc[p] \in {"opening", "held"} => file.record.pid = p

\* Whoever is named as a holder is alive, so nobody is reclaimed from.
NamesTheLiving ==
  /\ file.record # Unreadable => processIsAlive(file.record.pid)
  /\ \A p \in Procs :
       /\ existing[p] # Unreadable => processIsAlive(existing[p].pid)
       /\ pc[p] = "judge" => existing[p] # Unreadable
       /\ pc[p] \notin {"confirm", "unlink", "dead"}

LockInv == OneOwner /\ OwnerHasFile /\ NamesTheLiving

\* Types alone are not inductive: a record is stamped with the handle.
Typed == TypeOK /\ \A p \in Procs : pc[p] = "write" => handle[p] # 0

LEMMA InitTyped == Init => Typed
<1> SUFFICES ASSUME Init PROVE Typed
  OBVIOUS
<1>1. 0 \in 0..(2 * Cardinality(Procs) + 2)
  BY BirthsAreNumbers
<1> QED
  BY <1>1 DEF Init, Typed, TypeOK, File, Steps

LEMMA StepTyped == Typed /\ [Next]_vars => Typed'
<1> SUFFICES ASSUME Typed, [Next]_vars PROVE Typed'
  OBVIOUS
<1> USE DEF Typed, TypeOK
<1>0. 0 \in 0..(2 * Cardinality(Procs) + 2)
  BY BirthsAreNumbers
<1>1. ASSUME NEW p \in Procs, Start(p) PROVE Typed'
  BY <1>1 DEF Start, Goto, Steps
<1>2. ASSUME NEW p \in Procs, Crash(p) PROVE Typed'
  BY <1>0, <1>2 DEF Crash, Goto, Steps
<1>3. ASSUME NEW p \in Procs, OpenAtlasStore(p) PROVE Typed'
  BY <1>3 DEF OpenAtlasStore, Goto, Steps
<1>4. ASSUME NEW p \in Procs, Check(p) PROVE Typed'
  BY <1>4 DEF Check, Goto, Steps
<1>5. ASSUME NEW p \in Procs, Read(p) PROVE Typed'
  <2>1. file.record \in Record \cup {Unreadable}
    BY DEF File, NoFile
  <2> QED
    BY <1>5, <2>1 DEF Read, Leave, Goto, Steps
<1>6. ASSUME NEW p \in Procs, Judge(p) \/ Confirm(p) \/ Release(p) PROVE Typed'
  BY <1>6 DEF Judge, Confirm, Release, Leave, Proceed, Goto, Steps
<1>7. ASSUME NEW p \in Procs, Unlink(p) \/ Cleanup(p) \/ UnlinkOwn(p) PROVE Typed'
  BY <1>7 DEF Unlink, Cleanup, UnlinkOwn, Leave, Proceed, Goto, Steps, File
<1>8. ASSUME NEW p \in Procs, Create(p) PROVE Typed'
  <2>1. CASE Created(p)
    <3>1. PICK n \in Births : /\ file' = [handle |-> n, record |-> Unreadable]
                              /\ handle' = [handle EXCEPT ![p] = n]
      BY <2>1 DEF Created
    <3>2. n \in 0..(2 * Cardinality(Procs) + 2) /\ n # 0
      BY BirthsAreNumbers
    <3>3. file' \in File /\ handle' \in [Procs -> 0..(2 * Cardinality(Procs) + 2)]
      BY <3>1, <3>2 DEF File
    <3> QED
      BY <2>1, <3>1, <3>2, <3>3 DEF Created, Proceed, Goto, Steps
  <2>2. CASE Leave(p) /\ UNCHANGED <<file, handle>>
    BY <2>2 DEF Leave, Goto, Steps
  <2> QED
    BY <1>8, <2>1, <2>2 DEF Create
<1>9. ASSUME NEW p \in Procs, Write(p) PROVE Typed'
  <2>1. file' \in File
    <3>1. CASE file.handle = handle[p]
      <4>1. file # NoFile
        BY <1>9, <3>1 DEF Write, At, NoFile
      <4>2. file \in [handle : Births, record : Record \cup {Unreadable}]
        BY <4>1 DEF File
      <4>3. file' = [file EXCEPT !.record = [pid |-> p, acquired_at |-> handle[p]]]
        BY <1>9, <3>1 DEF Write
      <4> QED
        BY <3>1, <4>2, <4>3 DEF File, Record
    <3>2. CASE file.handle # handle[p]
      BY <1>9, <3>2 DEF Write
    <3> QED
      BY <3>1, <3>2
  <2> QED
    BY <1>0, <1>9, <2>1 DEF Write, Proceed, Goto, Steps
<1>10. ASSUME NEW p \in Procs, WriteFails(p) \/ OpenReadWrite(p) \/ Close(p)
       PROVE  Typed'
  BY <1>0, <1>10 DEF WriteFails, OpenReadWrite, Close, Proceed, Goto, Steps
<1>11. CASE UNCHANGED vars
  BY <1>11 DEF vars
<1> QED
  BY <1>1, <1>2, <1>3, <1>4, <1>5, <1>6, <1>7, <1>8, <1>9, <1>10, <1>11
     DEF Next, Runs

\* The guard's variables keep their types, deaths, reclaims and failed writes
\* included.
THEOREM LockTypeCorrect == Spec => []TypeOK
<1>1. Typed => TypeOK
  BY DEF Typed
<1> QED
  BY <1>1, InitTyped, StepTyped, PTL DEF Spec
-----------------------------------------------------------------------------
(* Nobody dies *)

LEMMA NobodyDies ==
  ASSUME MaxDead = 0, NEW p \in Procs
  PROVE  ~Crash(p)
<1> DEFINE Dead == {q \in Procs : At(q, "dead")}
<1>1. IsFiniteSet(Dead)
  BY LockAssumption, FS_Subset
<1>2. Cardinality(Dead) \in Nat
  BY <1>1, FS_CardinalityType
<1>3. ~(Cardinality(Dead) < MaxDead)
  BY <1>2
<1> QED
  BY <1>3 DEF Crash

LEMMA InitExclusive == Init => LockInv
BY DEF Init, LockInv, OneOwner, OwnerHasFile, NamesTheLiving, Owner, NoFile

LEMMA StepExclusive ==
  ASSUME MaxDead = 0, Typed, LockInv, [Next]_vars
  PROVE  LockInv'
<1> USE DEF LockInv, OneOwner, OwnerHasFile, NamesTheLiving, Owner, processIsAlive,
            At, Goto
<1>0. /\ pc \in [Procs -> Steps] /\ handle \in [Procs -> 0..(2 * Cardinality(Procs) + 2)]
      /\ existing \in [Procs -> Record \cup {Unreadable}]
      /\ file.record \in Record \cup {Unreadable}
      /\ \A r \in Record : r.pid \in Procs
  BY DEF Typed, TypeOK, File, NoFile, Record
<1>1. ASSUME NEW p \in Procs, Start(p) \/ OpenAtlasStore(p) \/ Check(p) PROVE LockInv'
  BY <1>0, <1>1 DEF Start, OpenAtlasStore, Check
<1>2. ASSUME NEW p \in Procs, Read(p) PROVE LockInv'
  BY <1>0, <1>2 DEF Read, Leave
<1>3. ASSUME NEW p \in Procs, Judge(p) PROVE LockInv'
  BY <1>0, <1>3 DEF Judge, Leave
<1>4. ASSUME NEW p \in Procs, Confirm(p) \/ Unlink(p) PROVE LockInv'
  BY <1>4 DEF Confirm, Unlink
<1>5. ASSUME NEW p \in Procs, Create(p) PROVE LockInv'
  <2>1. CASE file = NoFile
    <3>1. Created(p) /\ pc[p] = "create"
      BY <1>5, <2>1 DEF Create
    <3>2. PICK n \in Births : /\ file' = [handle |-> n, record |-> Unreadable]
                              /\ handle' = [handle EXCEPT ![p] = n]
      BY <3>1 DEF Created
    <3>3. file' # NoFile
      BY <3>2, BirthsAreNumbers DEF NoFile
    <3>4. file'.record = Unreadable /\ file'.handle = handle'[p]
      BY <1>0, <3>2
    <3>5. pc' = [pc EXCEPT ![p] = "write"] /\ existing' = existing
      BY <3>1 DEF Created, Proceed
    <3> QED
      BY <1>0, <2>1, <3>1, <3>3, <3>4, <3>5
  <2>2. CASE file # NoFile
    BY <1>0, <1>5, <2>2 DEF Create, Leave
  <2> QED
    BY <2>1, <2>2
<1>6. ASSUME NEW p \in Procs, Write(p) PROVE LockInv'
  <2>1. /\ pc[p] = "write" /\ pc' = [pc EXCEPT ![p] = "opening"]
        /\ existing' = existing /\ handle' = [handle EXCEPT ![p] = 0]
    BY <1>6 DEF Write, Proceed
  <2>2. file' = [file EXCEPT !.record = [pid |-> p, acquired_at |-> handle[p]]]
    BY <1>6, <2>1 DEF Write
  <2>3. file # NoFile /\ file \in [handle : Births, record : Record \cup {Unreadable}]
    BY <2>1 DEF Typed, TypeOK, File
  <2>4. file'.record.pid = p /\ file'.handle # 0
    BY <2>2, <2>3, BirthsAreNumbers
  <2>5. file' # NoFile
    BY <2>4 DEF NoFile
  <2> QED
    BY <1>0, <2>1, <2>4, <2>5
<1>7. ASSUME NEW p \in Procs, WriteFails(p) \/ OpenReadWrite(p) \/ Close(p)
      PROVE  LockInv'
  BY <1>0, <1>7 DEF WriteFails, OpenReadWrite, Close, Proceed
<1>8. ASSUME NEW p \in Procs, Cleanup(p) PROVE LockInv'
  BY <1>0, <1>8 DEF Cleanup, NoFile
<1>9. ASSUME NEW p \in Procs, Release(p) PROVE LockInv'
  BY <1>0, <1>9 DEF Release, Leave, Proceed
<1>10. ASSUME NEW p \in Procs, UnlinkOwn(p) PROVE LockInv'
  BY <1>0, <1>10 DEF UnlinkOwn, Leave, NoFile
<1>11. CASE UNCHANGED vars
  BY <1>11 DEF vars
<1> QED
  BY <1>1, <1>2, <1>3, <1>4, <1>5, <1>6, <1>7, <1>8, <1>9, <1>10, <1>11, NobodyDies
     DEF Next, Runs

\* While no process dies, openSync with `wx` lets one process at a time have the
\* store open read-write, for any number of processes and with failing writes,
\* and the lock file names that process.
THEOREM ExclusiveWhileNobodyDies ==
  ASSUME MaxDead = 0
  PROVE  Spec => [](MutualExclusion /\ HolderIsNamed)
<1>1. Init => Typed /\ LockInv
  BY InitTyped, InitExclusive
<1>2. Typed /\ LockInv /\ [Next]_vars => (Typed /\ LockInv)'
  BY StepTyped, StepExclusive
<1>3. LockInv => MutualExclusion /\ HolderIsNamed
  BY DEF LockInv, OneOwner, OwnerHasFile, Owner, Writers, MutualExclusion, HolderIsNamed
<1> QED
  BY <1>1, <1>2, <1>3, PTL DEF Spec

\* While no process dies, the lock file at the path is the one the holder wrote, in
\* acquireWriteLock as in release(): no failed write, refusal or cleanup of another
\* process takes it away or leaves the store open without it.
THEOREM HolderNamedWhileNobodyDies ==
  ASSUME MaxDead = 0
  PROVE  Spec => []HolderIsNamed
<1>1. MutualExclusion /\ HolderIsNamed => HolderIsNamed
  OBVIOUS
<1>2. Spec => [](MutualExclusion /\ HolderIsNamed)
  BY ExclusiveWhileNobodyDies
<1> QED
  BY <1>1, <1>2, PTL
=============================================================================
