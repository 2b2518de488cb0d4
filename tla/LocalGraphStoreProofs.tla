------------------------ MODULE LocalGraphStoreProofs ------------------------
(* Proofs about the local graph store, for any number of objects, contents,   *)
(* keys and mutations, one process that writes and any number that read.  The *)
(* argument: every journal entry is the step from one state of the store's    *)
(* history to the next.  The writer's own load finds all of those the         *)
(* snapshot does not cover and so walks to the history's last state; a        *)
(* reader's load may miss some, but stays on the history or throws.           *)
EXTENDS LocalGraphStore, Integers, TLAPS

\* One process writes to the directory; others may read it.
OneWriter == \E p : Writers = {p} /\ p \notin Readers
-----------------------------------------------------------------------------
(* Types *)

LEMMA VersionIsNat ==
  ASSUME NEW o \in Object \cup {Absent}
  PROVE  /\ o.version \in Nat
         /\ o # Absent => o \in Object /\ o.version > 0
  BY DEF Object, Absent, Versions

LEMMA EmptyIsState == Empty \in State
  BY DEF Empty, State, Objects, Nothing, Live

LEMMA AdvanceIsState ==
  ASSUME NEW s \in State, NEW o \in Objects, NEW r \in SUBSET Record
  PROVE  /\ Advance(s, o, r) \in State
         /\ Advance(s, o, r).journalSequence = s.journalSequence + 1
         /\ Advance(s, o, r).generation = s.generation + 1
         /\ Advance(s, o, r).objects = o
         /\ Advance(s, o, r).operationRecords = r
  BY DEF Advance, State

LEMMA RelabelIsState ==
  ASSUME NEW s \in State, NEW l \in Window \cup {Live}, NEW r \in SUBSET Sealed
  PROVE  /\ Relabel(s, l, r) \in State
         /\ Relabel(s, l, r).journalSequence = s.journalSequence
         /\ Relabel(s, l, r).generation = s.generation
         /\ Relabel(s, l, r).objects = s.objects
         /\ Relabel(s, l, r).operationRecords = s.operationRecords
  BY DEF Relabel, State

LEMMA ApplyIsState ==
  ASSUME NEW s \in State, NEW e \in Entry
  PROVE  /\ ApplyJournalEntry(s, e) \in State
         /\ ApplyJournalEntry(s, e).journalSequence = s.journalSequence + 1
         /\ ApplyJournalEntry(s, e).generation = s.generation + 1
         /\ ApplyJournalEntry(s, e).objects = [s.objects EXCEPT ![e.object_id] = e.object]
         /\ ApplyJournalEntry(s, e).operationRecords = s.operationRecords
<1>1. [s.objects EXCEPT ![e.object_id] = e.object] \in Objects
  BY DEF State, Objects, Entry
<1>2. s.operationRecords \in SUBSET Record
  BY DEF State
<1> QED BY <1>1, <1>2, AdvanceIsState DEF ApplyJournalEntry

LEMMA EntryIsEntry ==
  ASSUME NEW s \in State, NEW id \in Ids, NEW object \in Object,
         NEW op \in {"create", "update", "tombstone"}
  PROVE  MkEntry(s, op, id, object) \in Entry
<1>1. s.objects[id] \in Object \cup {Absent}
  BY DEF State, Objects
<1>2. s.objects[id].version \in Nat
  BY <1>1, VersionIsNat
<1>3. s.journalSequence \in Nat /\ s.generation \in Nat
  BY DEF State
<1> QED BY <1>2, <1>3 DEF MkEntry, Entry

\* What a journalled mutation writes: the three operations share this shape.
Mutation(s, op, id, object) ==
  /\ op \in {"create", "update", "tombstone"} /\ id \in Ids /\ object \in Object
  /\ op = "create" => s.objects[id] = Absent
  /\ op # "create" => s.objects[id] # Absent /\ object.version = s.objects[id].version + 1

LEMMA EntryApplies ==
  ASSUME NEW s \in State, NEW op, NEW id, NEW object, Mutation(s, op, id, object)
  PROVE  Applicable(s, MkEntry(s, op, id, object))
  BY DEF Mutation, Applicable, MkEntry, State

\* Every journalled mutation is one commitMutation of that shape.
Journalled(h) ==
  \E op, id, object : Mutation(mem[h], op, id, object) /\ CommitMutation(h, op, id, object)

LEMMA OperationsAreJournalled ==
  ASSUME TypeOK, NEW h \in Handles, NEW id \in Ids
  PROVE  /\ \A v \in FirstVersions, c \in Contents, t \in BOOLEAN : CreateObject(h, id, v, c, t) => Journalled(h)
         /\ \A c \in Contents, t \in BOOLEAN : UpdateObject(h, id, c, t) => Journalled(h)
         /\ TombstoneObject(h, id) => Journalled(h)
<1> DEFINE o == mem[h].objects[id]
<1>1. mem[h] \in State /\ o \in Object \cup {Absent}
  BY DEF TypeOK, State, Objects
<1>2. o.version \in Nat /\ (o # Absent => o \in Object)
  BY <1>1, VersionIsNat
<1>3. ASSUME NEW v \in FirstVersions, NEW c \in Contents, NEW t \in BOOLEAN, CreateObject(h, id, v, c, t)
      PROVE  Journalled(h)
  <2>1. MkObject(v, c, t) \in Object
    BY GraphAssumption DEF MkObject, Object, Versions
  <2>2. Mutation(mem[h], "create", id, MkObject(v, c, t))
    BY <2>1, <1>3 DEF Mutation, CreateObject
  <2> QED BY <2>2, <1>3 DEF Journalled, CreateObject
<1>4. ASSUME NEW c \in Contents, NEW t \in BOOLEAN, UpdateObject(h, id, c, t)
      PROVE  Journalled(h)
  <2>1. /\ MkObject(o.version + 1, c, t) \in Object
        /\ MkObject(o.version + 1, c, t).version = o.version + 1
    BY <1>2 DEF MkObject, Object, Versions
  <2>2. Mutation(mem[h], "update", id, MkObject(o.version + 1, c, t))
    BY <2>1, <1>4 DEF Mutation, UpdateObject
  <2> QED BY <2>2, <1>4 DEF Journalled, UpdateObject
<1>5. ASSUME TombstoneObject(h, id) PROVE Journalled(h)
  <2>1. o \in Object
    BY <1>2, <1>5 DEF TombstoneObject
  <2>2. /\ MkObject(o.version + 1, o.content, TRUE) \in Object
        /\ MkObject(o.version + 1, o.content, TRUE).version = o.version + 1
    BY <2>1, <1>2 DEF MkObject, Object, Versions
  <2>3. Mutation(mem[h], "tombstone", id, MkObject(o.version + 1, o.content, TRUE))
    BY <2>2, <1>5 DEF Mutation, TombstoneObject
  <2> QED BY <2>3, <1>5 DEF Journalled, TombstoneObject
<1> QED BY <1>3, <1>4, <1>5

\* What a transaction leaves: the state it writes and what it answers.
LEMMA TransactionShape ==
  ASSUME TypeOK, NEW h \in Handles, NEW key \in Keys, NEW request \in Requests,
         NEW ids \in SUBSET Ids, NEW writes \in [ids -> Contents],
         CommitTransaction(h, key, request, writes)
  PROVE  \E objects \in Objects, record \in Record :
           LET next == Advance(mem[h], objects, mem[h].operationRecords \cup {record})
           IN /\ next \in State
              /\ \A r \in mem[h].operationRecords : r.key # record.key
              /\ Up(h) /\ WriteSnapshot(h, next) /\ past' = Append(past, next)
              /\ answers' = answers \/ answers' = answers \cup {record}
<1> DEFINE s == mem[h]
           objects == [id \in Ids |-> IF id \in ids THEN Written(s, id, writes[id]) ELSE s.objects[id]]
           record == [key |-> key, request |-> request, generation |-> s.generation + 1]
           next == Advance(s, objects, s.operationRecords \cup {record})
<1>1. s \in State /\ s.objects \in Objects /\ s.operationRecords \in SUBSET Record /\ s.generation \in Nat
  BY DEF TypeOK, State
<1>2. record \in Record
  BY <1>1 DEF Record
<1>3. ASSUME NEW id \in ids PROVE Written(s, id, writes[id]) \in Object
  <2>1. s.objects[id] \in Object \cup {Absent}
    BY <1>1 DEF Objects
  <2>2. s.objects[id].version \in Nat
    BY <2>1, VersionIsNat
  <2> QED BY <2>1, <2>2 DEF Written, MkObject, Object, Versions
<1>4. objects \in Objects
  BY <1>1, <1>3 DEF Objects
<1>5. next \in State
  BY <1>1, <1>2, <1>4, AdvanceIsState
<1>6. \A r \in s.operationRecords : r.key # record.key
  BY DEF CommitTransaction, RecordFor
<1>7. Up(h) /\ WriteSnapshot(h, next) /\ past' = Append(past, next) /\ DOMAIN writes = ids
  BY DEF CommitTransaction
<1>8. answers' = answers \/ answers' = answers \cup {record}
  BY <1>7 DEF CommitTransaction
<1> HIDE DEF objects, record
<1> QED BY <1>2, <1>4, <1>5, <1>6, <1>7, <1>8

LEMMA LifecycleShape ==
  ASSUME TypeOK, NEW h \in Handles, OpenMigrationWindow(h) \/ SealMigrationWindow(h)
  PROVE  \E next \in State :
           /\ next.journalSequence = mem[h].journalSequence
           /\ next.generation = mem[h].generation
           /\ next.objects = mem[h].objects
           /\ next.operationRecords = mem[h].operationRecords
           /\ Up(h) /\ WriteSnapshot(h, next) /\ Revise(next) /\ UNCHANGED answers
<1> DEFINE s == mem[h]
<1>1. s \in State /\ s.generation \in Nat /\ s.migrationRecords \in SUBSET Sealed
                  /\ s.lifecycle \in Window \cup {Live}
  BY DEF TypeOK, State
<1>2. CASE OpenMigrationWindow(h)
  <2>1. [state |-> "migrating", base |-> s.generation] \in Window
    BY <1>1 DEF Window
  <2> QED BY <1>1, <1>2, <2>1, RelabelIsState DEF OpenMigrationWindow
<1>3. CASE SealMigrationWindow(h)
  <2>1. s.lifecycle.base \in Nat
    BY <1>1, <1>3 DEF SealMigrationWindow, Window
  <2>2. s.migrationRecords \cup {[base |-> s.lifecycle.base, sealed |-> s.generation]} \in SUBSET Sealed
    BY <1>1, <2>1 DEF Sealed
  <2> QED BY <1>1, <1>3, <2>2, RelabelIsState DEF SealMigrationWindow
<1> QED BY <1>2, <1>3

LEMMA ImportShape ==
  ASSUME TypeOK, NEW h \in Handles, NEW objects \in Imports, InitializeFromObjects(h, objects)
  PROVE  \E next \in State :
           /\ next.journalSequence = mem[h].journalSequence
           /\ next.generation = mem[h].generation /\ mem[h].generation = 0
           /\ next.objects = objects /\ objects \in Objects
           /\ next.operationRecords = mem[h].operationRecords
           /\ \A id \in Ids : mem[h].objects[id] = Absent
           /\ Up(h) /\ WriteSnapshot(h, next) /\ Revise(next) /\ UNCHANGED answers
<1> DEFINE s == mem[h]
           next == [generation |-> s.generation, journalSequence |-> s.journalSequence,
                    objects |-> objects, operationRecords |-> s.operationRecords,
                    lifecycle |-> s.lifecycle, migrationRecords |-> s.migrationRecords]
<1>1. objects \in Objects
  BY GraphAssumption DEF Imports, Objects, Object, Versions
<1>2. s \in State
  BY DEF TypeOK
<1>3. next \in State
  BY <1>1, <1>2 DEF State
<1> QED BY <1>1, <1>3 DEF InitializeFromObjects

\* What a process has in memory, after a write or after its death.
HandleTypes ==
  /\ at \in [Handles -> {"down", "snapshot", "replay", "up", "compacting"}]
  /\ mem \in [Handles -> State]
  /\ todo \in [Handles -> Seq(Entry)]

LEMMA DieTypes ==
  ASSUME TypeOK, NEW h \in Handles, Die(h)
  PROVE  HandleTypes'
<1>1. <<>> \in Seq(Entry)
  OBVIOUS
<1> QED BY <1>1, EmptyIsState DEF TypeOK, Die, Goto, HandleTypes

LEMMA KeepTypes ==
  ASSUME TypeOK, NEW h \in Handles, NEW s \in State,
         mem' = [mem EXCEPT ![h] = s], UNCHANGED <<at, todo>>
  PROVE  HandleTypes'
  BY DEF TypeOK, HandleTypes

LEMMA PastTypes ==
  ASSUME TypeOK, NEW s \in State, past' = Append(past, s) \/ Revise(s)
  PROVE  past' \in Seq(State) /\ past' # <<>>
<1>1. past \in Seq(State) /\ Len(past) \in Nat /\ Len(past) > 0
  BY DEF TypeOK
<1>2. CASE past' = Append(past, s)
  BY <1>1, <1>2
<1>3. CASE Revise(s)
  <2>1. past' \in Seq(State) /\ Len(past') = Len(past)
    BY <1>1, <1>3 DEF Revise
  <2> QED BY <2>1, <1>1
<1> QED BY <1>2, <1>3

LEMMA SnapshotTypes ==
  ASSUME TypeOK, NEW h \in Handles, NEW next \in State, WriteSnapshot(h, next),
         past' = Append(past, next) \/ Revise(next),
         answers' \subseteq Record
  PROVE  TypeOK'
<1>1. HandleTypes'
  BY DieTypes, KeepTypes DEF WriteSnapshot
<1>2. past' \in Seq(State) /\ past' # <<>>
  BY PastTypes
<1> QED BY <1>1, <1>2 DEF TypeOK, HandleTypes, WriteSnapshot

LEMMA JournalTypes ==
  ASSUME TypeOK, NEW h \in Handles, Journalled(h)
  PROVE  TypeOK'
<1>1. PICK op, id, object : Mutation(mem[h], op, id, object) /\ CommitMutation(h, op, id, object)
  BY DEF Journalled
<1> DEFINE e == MkEntry(mem[h], op, id, object)
           s == ApplyJournalEntry(mem[h], e)
<1>2. mem[h] \in State
  BY DEF TypeOK
<1>3. e \in Entry
  BY <1>1, <1>2, EntryIsEntry DEF Mutation
<1>4. s \in State
  BY <1>2, <1>3, ApplyIsState
<1> HIDE DEF e, s
<1>7. /\ snapshot' = snapshot /\ answers' = answers
      /\ journal' = journal \/ journal' = Append(journal, e)
      /\ tail' \in {"whole", "open", "torn"}
      /\ past' = past \/ past' = Append(past, s)
      /\ \/ mem' = [mem EXCEPT ![h] = s] /\ UNCHANGED <<at, todo>>
         \/ Die(h)
  BY <1>1 DEF CommitMutation, AppendJournalEntry, AppendCutShort, TypeOK, e, s
<1>8. HandleTypes'
  BY <1>4, <1>7, DieTypes, KeepTypes
<1>9. past' \in Seq(State) /\ past' # <<>>
  BY <1>4, <1>7, PastTypes DEF TypeOK
<1>10. journal' \in Seq(Entry)
  <2>1. journal \in Seq(Entry)
    BY DEF TypeOK
  <2>2. Append(journal, e) \in Seq(Entry)
    BY <2>1, <1>3
  <2> QED BY <1>7, <2>1, <2>2
<1> QED BY <1>7, <1>8, <1>9, <1>10 DEF TypeOK, HandleTypes

LEMMA LoadTypes ==
  ASSUME TypeOK, NEW h \in Handles, Load(h) \/ Crash(h)
  PROVE  TypeOK'
<1>1. CASE Open(h)
  <2>1. HandleTypes'
    BY <1>1 DEF Open, Goto, TypeOK, HandleTypes
  <2> QED BY <1>1, <2>1 DEF Open, disk, TypeOK, HandleTypes
<1>2. CASE ReadJournal(h)
  <2>1. CASE tail = "torn"
    BY <1>2, <2>1, DieTypes DEF ReadJournal, disk, TypeOK, HandleTypes
  <2>2. CASE tail # "torn"
    <3>1. HandleTypes'
      BY <1>2, <2>2 DEF ReadJournal, Goto, TypeOK, HandleTypes
    <3> QED BY <1>2, <3>1 DEF ReadJournal, disk, TypeOK, HandleTypes
  <2> QED BY <2>1, <2>2
<1>3. CASE Replay(h)
  <2> DEFINE e == Head(todo[h])
             s == mem[h]
             n == IF Skipped(s, e) THEN s ELSE ApplyJournalEntry(s, e)
  <2>1. todo[h] \in Seq(Entry) /\ todo[h] # <<>> /\ s \in State
    BY <1>3 DEF Replay, TypeOK
  <2>2. e \in Entry /\ Tail(todo[h]) \in Seq(Entry)
    BY <2>1
  <2>3. n \in State
    BY <2>1, <2>2, ApplyIsState
  <2>4. \/ /\ mem' = [mem EXCEPT ![h] = n]
           /\ todo' = [todo EXCEPT ![h] = Tail(todo[h])]
           /\ UNCHANGED at
        \/ Die(h)
    BY <1>3 DEF Replay
  <2> HIDE DEF n
  <2>5. HandleTypes'
    BY <2>2, <2>3, <2>4, DieTypes DEF TypeOK, HandleTypes
  <2> QED BY <1>3, <2>5 DEF Replay, disk, TypeOK, HandleTypes
<1>4. CASE FinishOpen(h)
  <2>1. HandleTypes'
    BY <1>4 DEF FinishOpen, Goto, TypeOK, HandleTypes
  <2> QED BY <1>4, <2>1 DEF FinishOpen, disk, TypeOK, HandleTypes
<1>5. CASE Crash(h)
  BY <1>5, DieTypes DEF Crash, disk, TypeOK, HandleTypes
<1> QED BY <1>1, <1>2, <1>3, <1>4, <1>5 DEF Load

LEMMA OtherTypes ==
  ASSUME TypeOK, NEW h \in Handles,
         \/ Compact(h) \/ EmptyJournal(h)
         \/ \E key \in Keys, request \in Requests : AnswerAgain(h, key, request)
  PROVE  TypeOK'
<1>1. CASE Compact(h) \/ EmptyJournal(h)
  <2>1. HandleTypes'
    BY <1>1 DEF Compact, EmptyJournal, Goto, TypeOK, HandleTypes
  <2>2. <<>> \in Seq(Entry)
    OBVIOUS
  <2>3. snapshot' \in State /\ journal' \in Seq(Entry) /\ tail' \in {"whole", "open", "torn"}
    BY <1>1, <2>2 DEF Compact, EmptyJournal, TypeOK
  <2> QED BY <1>1, <2>1, <2>3 DEF Compact, EmptyJournal, TypeOK, HandleTypes
<1>2. ASSUME NEW key \in Keys, NEW request \in Requests, AnswerAgain(h, key, request)
      PROVE  TypeOK'
  <2>1. answers' \subseteq Record
    BY <1>2 DEF AnswerAgain, RecordFor, TypeOK, State
  <2> QED BY <1>2, <2>1 DEF AnswerAgain, disk, TypeOK
<1> QED BY <1>1, <1>2

LEMMA HandlesSplit == Writers \subseteq Handles
  BY DEF Handles

LEMMA TypesStep == TypeOK /\ [Next]_vars => TypeOK'
<1> SUFFICES ASSUME TypeOK, [Next]_vars PROVE TypeOK'
  OBVIOUS
<1>1. CASE UNCHANGED vars
  BY <1>1 DEF TypeOK, vars
<1>2. ASSUME NEW h \in Handles, Load(h) \/ Crash(h) PROVE TypeOK'
  BY <1>2, LoadTypes
<1>3. ASSUME NEW h \in Writers, Mutate(h) PROVE TypeOK'
  <2>1. h \in Handles
    BY HandlesSplit
  <2>2. CASE Journalled(h)
    BY <2>1, <2>2, JournalTypes
  <2>3. ASSUME NEW key \in Keys, NEW request \in Requests, NEW ids \in SUBSET Ids,
               NEW writes \in [ids -> Contents], CommitTransaction(h, key, request, writes)
        PROVE  TypeOK'
    <3>1. PICK objects \in Objects, record \in Record :
            LET next == Advance(mem[h], objects, mem[h].operationRecords \cup {record})
            IN /\ next \in State
               /\ WriteSnapshot(h, next) /\ past' = Append(past, next)
               /\ answers' = answers \/ answers' = answers \cup {record}
      BY <2>1, <2>3, TransactionShape
    <3>2. answers' \subseteq Record
      BY <3>1 DEF TypeOK
    <3> QED BY <2>1, <3>1, <3>2, SnapshotTypes
  <2>4. ASSUME OpenMigrationWindow(h) \/ SealMigrationWindow(h) PROVE TypeOK'
    <3>1. PICK next \in State : WriteSnapshot(h, next) /\ Revise(next) /\ UNCHANGED answers
      BY <2>1, <2>4, LifecycleShape
    <3> QED BY <2>1, <3>1, SnapshotTypes DEF TypeOK
  <2>5. ASSUME NEW objects \in Imports, InitializeFromObjects(h, objects) PROVE TypeOK'
    <3>1. PICK next \in State : WriteSnapshot(h, next) /\ Revise(next) /\ UNCHANGED answers
      BY <2>1, <2>5, ImportShape
    <3> QED BY <2>1, <3>1, SnapshotTypes DEF TypeOK
  <2>6. CASE Compact(h) \/ EmptyJournal(h) \/ \E key \in Keys, request \in Requests : AnswerAgain(h, key, request)
    BY <2>1, <2>6, OtherTypes
  <2> QED BY <1>3, <2>1, <2>2, <2>3, <2>4, <2>5, <2>6, OperationsAreJournalled DEF Mutate
<1> QED BY <1>1, <1>2, <1>3 DEF Next

LEMMA TypesInit == Init => TypeOK
<1> SUFFICES ASSUME Init PROVE TypeOK
  OBVIOUS
<1>1. <<>> \in Seq(Entry)
  OBVIOUS
<1>2. <<Empty>> \in Seq(State) /\ <<Empty>> # <<>>
  BY EmptyIsState
<1> QED BY <1>1, <1>2, EmptyIsState DEF Init, TypeOK

\* The files, the memory of every process and the histories are well formed, for
\* any number of writers and readers.
THEOREM GraphTypeCorrect == Spec => []TypeOK
  BY TypesInit, TypesStep, PTL DEF Spec
-----------------------------------------------------------------------------
(* Journals that continue a state along a history *)

\* How many entries of es the state s covers already.
Covered(s, es, h) == Len(es) - ((Len(h) - 1) - s.journalSequence)

\* e leads from one state of the history h to the next.
Links(e, h) ==
  /\ Applicable(h[e.sequence], e)
  /\ h[e.sequence + 1] = ApplyJournalEntry(h[e.sequence], e)

\* s is a state of the history h, and the entries of es that it does not cover
\* lead from it to the end of h.
Chain(s, es, h) ==
  /\ s.journalSequence \in 0..(Len(h) - 1)
  /\ s = h[s.journalSequence + 1]
  /\ Covered(s, es, h) >= 0
  /\ \A i \in 1..Len(es) :
       IF i <= Covered(s, es, h)
       THEN es[i].sequence <= s.journalSequence
       ELSE /\ es[i].sequence = s.journalSequence + (i - Covered(s, es, h))
            /\ Links(es[i], h)

\* h records one state per sequence number, which is its generation too.
History(h) ==
  /\ h \in Seq(State) /\ h # <<>>
  /\ \A n \in 1..Len(h) : h[n].journalSequence = n - 1 /\ h[n].generation = n - 1

LEMMA ChainTypes ==
  ASSUME NEW h, History(h), NEW s \in State, NEW es \in Seq(Entry)
  PROVE  /\ Len(h) \in Nat /\ Len(h) > 0 /\ Len(es) \in Nat
         /\ s.journalSequence \in Nat
         /\ Covered(s, es, h) \in Int
         /\ \A i \in 1..Len(es) : es[i] \in Entry /\ es[i].sequence \in Nat
         /\ h[Len(h)] \in State /\ h[Len(h)].journalSequence = Len(h) - 1
         /\ h[Len(h)].generation = Len(h) - 1
<1>1. h \in Seq(State) /\ h # <<>> /\ Len(h) \in Nat /\ Len(h) > 0 /\ Len(es) \in Nat
  BY DEF History
<1>2. s.journalSequence \in Nat
  BY DEF State
<1>3. Covered(s, es, h) \in Int
  BY <1>1, <1>2 DEF Covered
<1>4. \A i \in 1..Len(es) : es[i] \in Entry
  OBVIOUS
<1>5. \A e \in Entry : e.sequence \in Nat
  BY DEF Entry
<1>6. h[Len(h)] \in State
  BY <1>1
<1>7. h[Len(h)].journalSequence = Len(h) - 1 /\ h[Len(h)].generation = Len(h) - 1
  BY <1>1 DEF History
<1> QED BY <1>1, <1>2, <1>3, <1>4, <1>5, <1>6, <1>7

LEMMA ChainDone ==
  ASSUME NEW h, History(h), NEW s \in State, Chain(s, <<>>, h)
  PROVE  s = h[Len(h)]
<1>1. Len(h) \in Nat /\ Len(h) > 0 /\ s.journalSequence \in Nat
  BY DEF History, State
<1>2. Len(<<>>) = 0
  OBVIOUS
<1>3. s.journalSequence = Len(h) - 1
  BY <1>1, <1>2 DEF Chain, Covered
<1> QED BY <1>1, <1>3 DEF Chain

LEMMA ChainBound ==
  ASSUME NEW h, History(h), NEW s \in State, NEW es \in Seq(Entry), Chain(s, es, h),
         NEW i \in 1..Len(es)
  PROVE  es[i].sequence \in Nat /\ es[i].sequence <= Len(h) - 1
<1>1. /\ Len(h) \in Nat /\ Len(es) \in Nat /\ s.journalSequence \in Nat
      /\ Covered(s, es, h) \in Int /\ es[i].sequence \in Nat /\ i \in Nat
  BY ChainTypes
<1>2. CASE i <= Covered(s, es, h)
  BY <1>1, <1>2 DEF Chain
<1>3. CASE ~(i <= Covered(s, es, h))
  <2>1. es[i].sequence = s.journalSequence + (i - Covered(s, es, h))
    BY <1>3 DEF Chain
  <2> QED BY <1>1, <2>1 DEF Covered
<1> QED BY <1>2, <1>3

\* The last state of a history covers every journal.
LEMMA ChainFresh ==
  ASSUME NEW h, History(h), NEW es \in Seq(Entry),
         \A i \in 1..Len(es) : es[i].sequence <= Len(h) - 1
  PROVE  Chain(h[Len(h)], es, h)
<1>1. /\ Len(h) \in Nat /\ Len(h) > 0 /\ Len(es) \in Nat
      /\ h[Len(h)].journalSequence = Len(h) - 1
  BY DEF History
<1>2. Covered(h[Len(h)], es, h) = Len(es)
  BY <1>1 DEF Covered
<1> QED BY <1>1, <1>2 DEF Chain

\* An append to the journal and to the history at once.
LEMMA ChainAppend ==
  ASSUME NEW h, History(h), NEW s \in State, NEW es \in Seq(Entry), Chain(s, es, h),
         NEW e \in Entry, Applicable(h[Len(h)], e)
  PROVE  /\ History(Append(h, ApplyJournalEntry(h[Len(h)], e)))
         /\ Chain(s, Append(es, e), Append(h, ApplyJournalEntry(h[Len(h)], e)))
<1> DEFINE n == ApplyJournalEntry(h[Len(h)], e)
           g == Append(h, n)
           fs == Append(es, e)
           k == Covered(s, es, h)
<1>1. /\ Len(h) \in Nat /\ Len(h) > 0 /\ Len(es) \in Nat /\ s.journalSequence \in Nat
      /\ k \in Int /\ h[Len(h)] \in State /\ h[Len(h)].journalSequence = Len(h) - 1
      /\ h[Len(h)].generation = Len(h) - 1 /\ h \in Seq(State)
  BY ChainTypes DEF History
<1>2. n \in State /\ n.journalSequence = Len(h) /\ n.generation = Len(h)
  <2>1. /\ n \in State /\ n.journalSequence = h[Len(h)].journalSequence + 1
        /\ n.generation = h[Len(h)].generation + 1
    BY <1>1, ApplyIsState
  <2> QED BY <1>1, <2>1
<1> HIDE DEF n
<1>3. /\ Len(g) = Len(h) + 1 /\ g[Len(h) + 1] = n /\ g \in Seq(State)
      /\ \A j \in 1..Len(h) : g[j] = h[j]
  BY <1>1, <1>2
<1>4. Len(fs) = Len(es) + 1 /\ fs[Len(es) + 1] = e /\ \A i \in 1..Len(es) : fs[i] = es[i]
  BY <1>1
<1> HIDE DEF g, fs
<1>5. History(g)
  <2>1. g # <<>>
    BY <1>1, <1>3
  <2>2. ASSUME NEW j \in 1..Len(g)
        PROVE  g[j].journalSequence = j - 1 /\ g[j].generation = j - 1
    <3>1. CASE j \in 1..Len(h)
      BY <1>3, <3>1 DEF History
    <3>2. CASE j = Len(h) + 1
      BY <1>1, <1>2, <1>3, <3>2
    <3> QED BY <1>1, <1>3, <3>1, <3>2
  <2> QED BY <1>3, <2>1, <2>2 DEF History
<1>6. Covered(s, fs, g) = k
  <2>1. PICK a \in Nat, b \in Nat, c \in Nat :
          a = Len(es) /\ b = Len(h) /\ c = s.journalSequence
    BY <1>1
  <2>2. (a + 1) - (((b + 1) - 1) - c) = a - ((b - 1) - c)
    OBVIOUS
  <2> QED BY <1>3, <1>4, <2>1, <2>2 DEF Covered
<1>7. e.sequence = Len(h)
  BY <1>1 DEF Applicable
<1>8. ASSUME NEW i \in 1..Len(fs)
      PROVE  IF i <= k THEN fs[i].sequence <= s.journalSequence
             ELSE fs[i].sequence = s.journalSequence + (i - k) /\ Links(fs[i], g)
  <2>1. CASE i \in 1..Len(es) /\ i <= k
    BY <2>1, <1>4 DEF Chain
  <2>2. CASE i \in 1..Len(es) /\ ~(i <= k)
    <3>1. es[i].sequence = s.journalSequence + (i - k) /\ Links(es[i], h)
      BY <2>2 DEF Chain
    <3>2. es[i].sequence \in 1..(Len(h) - 1)
      BY <3>1, <2>2, <1>1, ChainBound
    <3>3. g[es[i].sequence] = h[es[i].sequence] /\ g[es[i].sequence + 1] = h[es[i].sequence + 1]
      <4>1. es[i].sequence \in 1..Len(h) /\ es[i].sequence + 1 \in 1..Len(h)
        BY <3>2, <1>1
      <4> QED BY <4>1, <1>3
    <3> QED BY <2>2, <3>1, <3>3, <1>4 DEF Links
  <2>3. CASE i = Len(es) + 1
    <3>1. ~(i <= k)
      BY <2>3, <1>1 DEF Covered, Chain
    <3>2. s.journalSequence + (i - k) = Len(h)
      <4>1. k = Len(es) - ((Len(h) - 1) - s.journalSequence)
        BY DEF Covered
      <4>2. Len(es) \in Nat /\ Len(h) \in Nat /\ s.journalSequence \in Nat
        BY <1>1 DEF State
      <4>3. PICK a \in Nat, b \in Nat, c \in Nat :
              a = Len(es) /\ b = Len(h) /\ c = s.journalSequence
        BY <4>2
      <4>4. k = a - ((b - 1) - c) /\ i = a + 1
        BY <4>1, <4>3, <2>3
      <4> HIDE DEF k
      <4>5. c + (i - k) = b
        BY <4>4
      <4> QED BY <4>3, <4>5
    <3>3. Links(e, g)
      BY <1>1, <1>3, <1>7 DEF Links, n
    <3> QED BY <2>3, <3>1, <3>2, <3>3, <1>4, <1>7
  <2> QED BY <2>1, <2>2, <2>3, <1>1, <1>4
<1>9. Chain(s, fs, g)
  <2>1. s.journalSequence \in 0..(Len(g) - 1)
    BY <1>1, <1>3 DEF Chain
  <2>2. s = g[s.journalSequence + 1]
    <3>1. s.journalSequence + 1 \in 1..Len(h) /\ s = h[s.journalSequence + 1]
      BY <1>1 DEF Chain
    <3> QED BY <3>1, <1>3
  <2>3. k >= 0
    BY DEF Chain
  <2> QED BY <2>1, <2>2, <2>3, <1>6, <1>8 DEF Chain
<1> QED BY <1>5, <1>9 DEF g, fs, n

\* One round of the load: the entry is skipped or applies, and the rest is a
\* chain again.
LEMMA ChainStep ==
  ASSUME NEW h, History(h), NEW s \in State, NEW es \in Seq(Entry), Chain(s, es, h), es # <<>>
  PROVE  /\ Skipped(s, Head(es)) => Chain(s, Tail(es), h)
         /\ ~Skipped(s, Head(es)) => /\ Applicable(s, Head(es))
                                     /\ Chain(ApplyJournalEntry(s, Head(es)), Tail(es), h)
<1> DEFINE k == Covered(s, es, h)
           t == Tail(es)
<1>1. /\ Len(h) \in Nat /\ Len(h) > 0 /\ Len(es) \in Nat /\ s.journalSequence \in Nat
      /\ k \in Int /\ \A i \in 1..Len(es) : es[i] \in Entry /\ es[i].sequence \in Nat
  BY ChainTypes
<1>2. /\ Len(es) > 0 /\ Head(es) = es[1] /\ Len(t) = Len(es) - 1
      /\ \A i \in 1..Len(t) : t[i] = es[i + 1] /\ i + 1 \in 1..Len(es)
  BY <1>1
<1> HIDE DEF t
<1>3. CASE 1 <= k
  <2>1. Skipped(s, Head(es))
    BY <1>1, <1>2, <1>3 DEF Chain, Skipped
  <2>2. Covered(s, t, h) = k - 1
    BY <1>1, <1>2 DEF Covered
  <2>3. ASSUME NEW i \in 1..Len(t)
        PROVE  IF i <= k - 1 THEN t[i].sequence <= s.journalSequence
               ELSE t[i].sequence = s.journalSequence + (i - (k - 1)) /\ Links(t[i], h)
    <3>1. t[i] = es[i + 1] /\ i + 1 \in 1..Len(es) /\ (i + 1 <= k <=> i <= k - 1)
      BY <1>1, <1>2
    <3>2. (i + 1) - k = i - (k - 1)
      BY <1>1, <1>2
    <3> QED BY <3>1, <3>2 DEF Chain
  <2>4. Chain(s, t, h)
    BY <1>1, <1>3, <2>2, <2>3 DEF Chain
  <2> QED BY <2>1, <2>4 DEF t
<1>4. CASE k = 0
  <2>1. es[1].sequence = s.journalSequence + 1 /\ Links(es[1], h)
    BY <1>1, <1>2, <1>4 DEF Chain
  <2>2. s = h[s.journalSequence + 1]
    BY DEF Chain
  <2>3. ~Skipped(s, Head(es)) /\ Applicable(s, Head(es))
    BY <1>1, <1>2, <2>1, <2>2 DEF Skipped, Links
  <2> DEFINE n == ApplyJournalEntry(s, es[1])
  <2>4. n.journalSequence = s.journalSequence + 1 /\ n = h[n.journalSequence + 1]
    <3>1. es[1] \in Entry
      BY <1>1, <1>2
    <3>2. n.journalSequence = s.journalSequence + 1
      BY <3>1, ApplyIsState
    <3>3. h[es[1].sequence + 1] = ApplyJournalEntry(h[es[1].sequence], es[1])
      BY <2>1 DEF Links
    <3> QED BY <3>2, <3>3, <2>1, <2>2
  <2> HIDE DEF n
  <2>5. s.journalSequence + 1 <= Len(h) - 1
    BY <2>1, <1>1, <1>2, ChainBound
  <2>6. Covered(n, t, h) = 0
    BY <1>1, <1>2, <1>4, <2>4 DEF Covered
  <2>7. ASSUME NEW i \in 1..Len(t)
        PROVE  ~(i <= 0) /\ t[i].sequence = n.journalSequence + (i - 0) /\ Links(t[i], h)
    <3>1. t[i] = es[i + 1] /\ i + 1 \in 1..Len(es) /\ ~(i + 1 <= k)
      BY <1>1, <1>2, <1>4
    <3>2. es[i + 1].sequence = s.journalSequence + ((i + 1) - k) /\ Links(es[i + 1], h)
      BY <3>1 DEF Chain
    <3>3. i \in Nat /\ ~(i <= 0)
      BY <1>1, <1>2
    <3>4. \A a \in Nat : a + ((i + 1) - 0) = (a + 1) + (i - 0)
      BY <3>3
    <3>5. t[i].sequence = n.journalSequence + (i - 0)
      BY <3>1, <3>2, <3>4, <1>1, <1>4, <2>4
    <3> QED BY <3>1, <3>2, <3>3, <3>5
  <2>8. Chain(n, t, h)
    BY <1>1, <2>4, <2>5, <2>6, <2>7 DEF Chain
  <2> QED BY <2>3, <2>8, <1>2 DEF n, t
<1> QED BY <1>1, <1>3, <1>4 DEF Chain
-----------------------------------------------------------------------------
(* The inductive invariant, first half: the writer *)

Running == {"up", "compacting"}

\* The files continue to the end of the history unless a line is torn, and so does
\* the load of the process that writes.
StoreInv ==
  /\ History(past)
  /\ tail # "torn" => Chain(snapshot, journal, past)
  /\ \A h \in Writers :
       /\ at[h] = "snapshot" => mem[h] = snapshot
       /\ at[h] = "replay" => Chain(mem[h], todo[h], past) /\ tail # "torn"
       /\ at[h] \in Running => mem[h] = past[Len(past)]
       /\ at[h] = "compacting" => snapshot = past[Len(past)]

Newest == past[Len(past)]

AnswersInv ==
  /\ answers \subseteq Newest.operationRecords
  /\ \A r, q \in Newest.operationRecords : r.key = q.key => r = q
-----------------------------------------------------------------------------
(* Second half: what any process may have read *)

\* s has the objects of the history h at the sequence number of s, imports aside.
Along(s, h) ==
  /\ s.journalSequence < Len(h)
  /\ s.generation = h[s.journalSequence + 1].generation
  /\ \A id \in Ids : Agrees(s, h, id)

\* e writes what distinguishes two states of the history h.
Writes(e, h) ==
  /\ e.sequence \in 1..(Len(h) - 1)
  /\ h[e.sequence + 1].objects = [h[e.sequence].objects EXCEPT ![e.object_id] = e.object]

AllWrite(es, h) == \A i \in 1..Len(es) : Writes(es[i], h)

ReadInv ==
  /\ Along(snapshot, past) /\ AllWrite(journal, past)
  /\ \A h \in Handles : (at[h] # "down" => Along(mem[h], past)) /\ AllWrite(todo[h], past)

GraphInv == TypeOK /\ StoreInv /\ AnswersInv /\ ReadInv

\* The last state of a history is along it.
LEMMA AlongNewest ==
  ASSUME NEW h, History(h)
  PROVE  Along(h[Len(h)], h)
<1>1. Len(h) \in Nat /\ Len(h) > 0 /\ h[Len(h)].journalSequence = Len(h) - 1
  BY DEF History
<1>2. h[Len(h)].journalSequence + 1 = Len(h) /\ h[Len(h)].journalSequence < Len(h)
  BY <1>1
<1> QED BY <1>2 DEF Along, Agrees

\* A history that grows, or whose states get another lifecycle, takes nothing back.
LEMMA AlongKept ==
  ASSUME NEW h \in Seq(State), NEW g \in Seq(State), Len(h) > 0, Len(g) >= Len(h),
         \A n \in 1..Len(h) : g[n].objects = h[n].objects /\ g[n].generation = h[n].generation
  PROVE  /\ \A s \in State : Along(s, h) => Along(s, g)
         /\ \A e \in Entry : Writes(e, h) => Writes(e, g)
<1>1. Len(h) \in Nat /\ Len(g) \in Nat /\ 1 \in 1..Len(h)
  OBVIOUS
<1>2. ASSUME NEW s \in State, Along(s, h) PROVE Along(s, g)
  <2>1. s.journalSequence \in Nat /\ s.journalSequence < Len(h)
    BY <1>2 DEF State, Along
  <2>2. s.journalSequence + 1 \in 1..Len(h) /\ s.journalSequence < Len(g)
    BY <1>1, <2>1
  <2>3. /\ g[s.journalSequence + 1].objects = h[s.journalSequence + 1].objects
        /\ g[s.journalSequence + 1].generation = h[s.journalSequence + 1].generation
        /\ g[1].objects = h[1].objects
    BY <1>1, <2>2
  <2> QED BY <1>2, <2>2, <2>3 DEF Along, Agrees
<1>3. ASSUME NEW e \in Entry, Writes(e, h) PROVE Writes(e, g)
  <2>1. e.sequence \in 1..(Len(h) - 1)
    BY <1>3 DEF Writes
  <2>2. e.sequence \in 1..Len(h) /\ e.sequence + 1 \in 1..Len(h) /\ e.sequence \in 1..(Len(g) - 1)
    BY <1>1, <2>1
  <2> QED BY <1>3, <2>2 DEF Writes
<1> QED BY <1>2, <1>3

\* An import finds the history at its first state, from which nobody read a thing.
LEMMA AlongImport ==
  ASSUME NEW h \in Seq(State), NEW g \in Seq(State), Len(h) = 1, Len(g) = 1,
         g[1].generation = h[1].generation,
         \A id \in Ids : h[1].objects[id] = Absent
  PROVE  /\ \A s \in State : Along(s, h) => Along(s, g)
         /\ \A e \in Entry : Writes(e, h) => Writes(e, g)
<1>1. ASSUME NEW s \in State, Along(s, h) PROVE Along(s, g)
  <2>1. s.journalSequence = 0
    BY <1>1 DEF State, Along
  <2>2. s.journalSequence + 1 = 1
    BY <2>1
  <2>3. \A id \in Ids : s.objects[id] = Absent
    BY <1>1, <2>2 DEF Along, Agrees
  <2> QED BY <1>1, <2>1, <2>2, <2>3 DEF Along, Agrees
<1>2. ASSUME NEW e \in Entry, Writes(e, h) PROVE FALSE
  <2>1. e.sequence \in 1..0
    BY <1>2 DEF Writes
  <2> QED BY <2>1
<1> QED BY <1>1, <1>2

\* One round of any load.
LEMMA AlongApply ==
  ASSUME NEW h, History(h), NEW s \in State, NEW e \in Entry,
         Along(s, h), Writes(e, h), Applicable(s, e)
  PROVE  Along(ApplyJournalEntry(s, e), h)
<1> DEFINE n == ApplyJournalEntry(s, e)
           q == s.journalSequence
<1>1. q \in Nat /\ Len(h) \in Nat /\ h \in Seq(State) /\ s.generation \in Nat
  BY DEF State, History
<1>2. /\ n.journalSequence = q + 1 /\ n.generation = s.generation + 1
      /\ n.objects = [s.objects EXCEPT ![e.object_id] = e.object]
  BY ApplyIsState
<1> HIDE DEF n
<1>3. e.sequence = q + 1 /\ q + 1 \in 1..(Len(h) - 1)
  BY DEF Applicable, Writes
<1>4. q + 1 \in 1..Len(h) /\ (q + 1) + 1 \in 1..Len(h) /\ q + 1 < Len(h)
  BY <1>1, <1>3
<1>5. h[(q + 1) + 1].objects = [h[q + 1].objects EXCEPT ![e.object_id] = e.object]
  BY <1>3 DEF Writes
<1>6. n.generation = h[(q + 1) + 1].generation
  <2>1. h[(q + 1) + 1].generation = ((q + 1) + 1) - 1 /\ h[q + 1].generation = (q + 1) - 1
    BY <1>4 DEF History
  <2>2. s.generation = h[q + 1].generation
    BY DEF Along
  <2> QED BY <1>1, <1>2, <2>1, <2>2
<1>7. s.objects \in Objects /\ h[q + 1].objects \in Objects
  <2>1. h[q + 1] \in State
    BY <1>1, <1>4
  <2> QED BY <2>1 DEF State
<1>8. ASSUME NEW id \in Ids PROVE Agrees(n, h, id)
  <2>1. n.journalSequence + 1 = (q + 1) + 1
    BY <1>2
  <2>2. s.objects[id] = h[q + 1].objects[id] \/ (s.objects[id] = Absent /\ h[q + 1].objects[id] = h[1].objects[id])
    BY DEF Along, Agrees
  <2>3. \/ n.objects[id] = h[(q + 1) + 1].objects[id]
        \/ n.objects[id] = Absent /\ h[(q + 1) + 1].objects[id] = h[1].objects[id]
    BY <1>2, <1>5, <1>7, <2>2 DEF Objects
  <2> QED BY <2>1, <2>3 DEF Agrees
<1>9. n.journalSequence < Len(h) /\ n.generation = h[n.journalSequence + 1].generation
  BY <1>2, <1>4, <1>6
<1> QED BY <1>8, <1>9 DEF Along, n

\* What a step has to show of what was read.
LEMMA ReadStep ==
  ASSUME TypeOK, ReadInv,
         \A s \in State : Along(s, past) => Along(s, past'),
         \A e \in Entry : Writes(e, past) => Writes(e, past'),
         snapshot' = snapshot \/ Along(snapshot', past'),
         journal' = journal \/ AllWrite(journal', past'),
         \A h \in Handles :
           /\ at'[h] = "down" \/ (at[h] # "down" /\ mem'[h] = mem[h]) \/ Along(mem'[h], past')
           /\ todo'[h] = todo[h] \/ todo'[h] = <<>> \/ AllWrite(todo'[h], past')
  PROVE  ReadInv'
<1>1. ASSUME NEW es \in Seq(Entry), AllWrite(es, past) PROVE AllWrite(es, past')
  <2>1. \A i \in 1..Len(es) : es[i] \in Entry
    OBVIOUS
  <2> QED BY <1>1, <2>1 DEF AllWrite
<1>2. Along(snapshot', past')
  BY DEF TypeOK, ReadInv
<1>3. AllWrite(journal', past')
  BY <1>1 DEF TypeOK, ReadInv
<1>4. ASSUME NEW h \in Handles
      PROVE  (at'[h] # "down" => Along(mem'[h], past')) /\ AllWrite(todo'[h], past')
  <2>1. mem[h] \in State /\ todo[h] \in Seq(Entry) /\ AllWrite(<<>>, past')
    BY DEF TypeOK, AllWrite
  <2>2. (at[h] # "down" => Along(mem[h], past')) /\ AllWrite(todo[h], past')
    BY <1>1, <2>1 DEF ReadInv
  <2> QED BY <2>1, <2>2
<1> QED BY <1>2, <1>3, <1>4 DEF ReadInv
-----------------------------------------------------------------------------
(* The steps of the writer w *)

\* What becomes of the history when the snapshot is replaced.
LEMMA HistoryStep ==
  ASSUME History(past), NEW next \in State,
         \/ /\ past' = Append(past, next)
            /\ next.journalSequence = Newest.journalSequence + 1
            /\ next.generation = Newest.generation + 1
         \/ /\ Revise(next)
            /\ next.journalSequence = Newest.journalSequence
            /\ next.generation = Newest.generation
  PROVE  /\ History(past') /\ past'[Len(past')] = next
         /\ Len(past') \in Nat /\ Len(past') >= Len(past)
         /\ \A n \in 1..Len(past) : past'[n] = past[n] \/ (n = Len(past) /\ past'[n] = next)
<1>1. /\ past \in Seq(State) /\ Len(past) \in Nat /\ Len(past) > 0
      /\ Newest.journalSequence = Len(past) - 1 /\ Newest.generation = Len(past) - 1
      /\ \A n \in 1..Len(past) : past[n].journalSequence = n - 1 /\ past[n].generation = n - 1
  BY DEF History, Newest
<1>2. CASE /\ past' = Append(past, next)
           /\ next.journalSequence = Newest.journalSequence + 1
           /\ next.generation = Newest.generation + 1
  <2>1. /\ Len(past') = Len(past) + 1 /\ past'[Len(past) + 1] = next /\ past' \in Seq(State)
        /\ \A n \in 1..Len(past) : past'[n] = past[n]
    BY <1>1, <1>2
  <2>2. next.journalSequence = Len(past) /\ next.generation = Len(past)
    BY <1>1, <1>2
  <2>3. past' # <<>>
    BY <2>1, <1>1
  <2>4. ASSUME NEW n \in 1..Len(past')
        PROVE  past'[n].journalSequence = n - 1 /\ past'[n].generation = n - 1
    <3>1. n \in 1..Len(past) \/ n = Len(past) + 1
      BY <1>1, <2>1
    <3> QED BY <1>1, <2>1, <2>2, <3>1
  <2>5. History(past')
    BY <2>1, <2>3, <2>4 DEF History
  <2> QED BY <1>1, <2>1, <2>5
<1>3. CASE /\ Revise(next)
           /\ next.journalSequence = Newest.journalSequence
           /\ next.generation = Newest.generation
  <2>1. /\ Len(past') = Len(past) /\ past'[Len(past)] = next /\ past' \in Seq(State)
        /\ \A n \in 1..Len(past) : n # Len(past) => past'[n] = past[n]
    BY <1>1, <1>3 DEF Revise
  <2>2. past' # <<>>
    BY <2>1, <1>1
  <2>3. \A n \in 1..Len(past') : past'[n].journalSequence = n - 1 /\ past'[n].generation = n - 1
    BY <1>1, <1>3, <2>1
  <2>4. History(past')
    BY <2>1, <2>2, <2>3 DEF History
  <2> QED BY <1>1, <2>1, <2>4
<1> QED BY <1>2, <1>3

\* Nobody but w is touched by what w does to its own memory.
LEMMA OthersStay ==
  ASSUME TypeOK, NEW w \in Handles,
         \/ \E s : mem' = [mem EXCEPT ![w] = s] /\ UNCHANGED <<at, todo>>
         \/ UNCHANGED <<at, mem, todo>>
         \/ \E place : Goto(w, place) /\ UNCHANGED <<mem, todo>>
         \/ Die(w)
  PROVE  \A h \in Handles : h # w => at'[h] = at[h] /\ mem'[h] = mem[h] /\ todo'[h] = todo[h]
  BY DEF TypeOK, Die, Goto

\* The first state is the only one of generation 0.
LEMMA FirstState ==
  ASSUME NEW h, History(h), h[Len(h)].generation = 0
  PROVE  Len(h) = 1
<1>1. Len(h) \in Nat /\ Len(h) > 0
  BY DEF History
<1>2. h[Len(h)].generation = Len(h) - 1
  <2>1. Len(h) \in 1..Len(h)
    BY <1>1
  <2>2. \A n \in 1..Len(h) : h[n].generation = n - 1
    BY DEF History
  <2> QED BY <2>1, <2>2
<1>3. PICK n \in Nat : n = Len(h)
  BY <1>1
<1>4. n - 1 = 0
  BY <1>2, <1>3
<1>5. n = 1
  BY <1>4
<1> QED BY <1>3, <1>5

LEMMA SnapshotStep ==
  ASSUME GraphInv, NEW w, Writers = {w}, Up(w), NEW next \in State, WriteSnapshot(w, next),
         \/ /\ past' = Append(past, next)
            /\ next.journalSequence = mem[w].journalSequence + 1
            /\ next.generation = mem[w].generation + 1
         \/ /\ Revise(next)
            /\ next.journalSequence = mem[w].journalSequence
            /\ next.generation = mem[w].generation
            /\ \/ next.objects = mem[w].objects
               \/ mem[w].generation = 0 /\ \A id \in Ids : mem[w].objects[id] = Absent
  PROVE  StoreInv' /\ ReadInv' /\ Newest' = next /\ Newest = mem[w]
<1>1. /\ TypeOK /\ History(past) /\ (tail # "torn" => Chain(snapshot, journal, past))
      /\ mem[w] = Newest /\ snapshot \in State /\ journal \in Seq(Entry) /\ w \in Handles
  BY DEF GraphInv, StoreInv, TypeOK, Up, Running, Newest, Handles
<1>2. past \in Seq(State) /\ Len(past) \in Nat /\ Len(past) > 0 /\ Len(journal) \in Nat
  BY <1>1 DEF History
<1>3. /\ History(past') /\ past'[Len(past')] = next
      /\ Len(past') \in Nat /\ Len(past') >= Len(past)
      /\ \A n \in 1..Len(past) : past'[n] = past[n] \/ (n = Len(past) /\ past'[n] = next)
  BY <1>1, HistoryStep
<1>4. snapshot' = next /\ journal' = journal /\ tail' = tail
  BY DEF WriteSnapshot
<1>5. tail' # "torn" => Chain(snapshot', journal', past')
  <2> SUFFICES ASSUME tail' # "torn" PROVE Chain(next, journal, past')
    BY <1>4
  <2>1. \A i \in 1..Len(journal) : journal[i].sequence <= Len(past') - 1
    <3> SUFFICES ASSUME NEW i \in 1..Len(journal) PROVE journal[i].sequence <= Len(past') - 1
      OBVIOUS
    <3>1. journal[i].sequence \in Nat /\ journal[i].sequence <= Len(past) - 1
      BY <1>1, <1>4, ChainBound
    <3> QED BY <1>2, <1>3, <3>1
  <2> QED BY <1>1, <1>3, <2>1, ChainFresh
<1>6. \/ mem'[w] = next /\ at'[w] = "up" /\ todo'[w] = todo[w]
      \/ at'[w] = "down" /\ todo'[w] = <<>>
  BY <1>1 DEF WriteSnapshot, Die, Goto, TypeOK, Up
<1>7. StoreInv'
  BY <1>3, <1>5, <1>6 DEF StoreInv, Running
<1>8. ReadInv'
  <2>1. /\ \A s \in State : Along(s, past) => Along(s, past')
        /\ \A e \in Entry : Writes(e, past) => Writes(e, past')
    <3>1. past' \in Seq(State)
      BY <1>3 DEF History
    <3>2. CASE \A n \in 1..Len(past) : past'[n].objects = past[n].objects /\ past'[n].generation = past[n].generation
      BY <1>2, <1>3, <3>1, <3>2, AlongKept
    <3>3. CASE Revise(next) /\ mem[w].generation = 0 /\ \A id \in Ids : mem[w].objects[id] = Absent
      <4>1. Len(past) = 1
        <5>1. past[Len(past)].generation = 0
          BY <1>1, <3>3 DEF Newest
        <5> QED BY <1>1, <5>1, FirstState
      <4>2. Len(past') = 1 /\ past'[1].generation = past[1].generation
        BY <1>1, <1>2, <1>3, <3>3, <4>1 DEF Revise, History
      <4>3. \A id \in Ids : past[1].objects[id] = Absent
        BY <1>1, <3>3, <4>1 DEF Newest
      <4> QED BY <1>2, <3>1, <4>1, <4>2, <4>3, AlongImport
    <3>4. CASE past' = Append(past, next)
      <4>1. \A n \in 1..Len(past) : past'[n] = past[n]
        BY <1>2, <3>4
      <4> QED BY <3>2, <4>1
    <3>5. CASE Revise(next) /\ next.objects = mem[w].objects /\ next.generation = mem[w].generation
      <4>1. \A n \in 1..Len(past) : n = Len(past) => past[n] = mem[w]
        BY <1>1 DEF Newest
      <4> QED BY <1>3, <3>2, <3>5, <4>1
    <3> QED BY <3>3, <3>4, <3>5
  <2>2. Along(next, past')
    BY <1>3, AlongNewest
  <2>3. \A h \in Handles : h # w => at'[h] = at[h] /\ mem'[h] = mem[h] /\ todo'[h] = todo[h]
    BY <1>1, OthersStay DEF WriteSnapshot
  <2>4. \A h \in Handles :
          /\ at'[h] = "down" \/ (at[h] # "down" /\ mem'[h] = mem[h]) \/ Along(mem'[h], past')
          /\ todo'[h] = todo[h] \/ todo'[h] = <<>>
    BY <1>6, <2>2, <2>3
  <2> QED BY <1>1, <1>4, <2>1, <2>2, <2>4, ReadStep DEF GraphInv
<1> QED BY <1>1, <1>3, <1>7, <1>8 DEF Newest

LEMMA JournalStep ==
  ASSUME GraphInv, TypeOK', NEW w, Writers = {w}, Up(w), Journalled(w)
  PROVE  GraphInv'
<1>1. PICK op, id, object : Mutation(mem[w], op, id, object) /\ CommitMutation(w, op, id, object)
  BY DEF Journalled
<1> DEFINE e == MkEntry(mem[w], op, id, object)
           s == ApplyJournalEntry(mem[w], e)
<1>2. /\ mem[w] \in State /\ mem[w] = past[Len(past)] /\ w \in Handles /\ TypeOK
      /\ History(past) /\ (tail # "torn" => Chain(snapshot, journal, past))
      /\ snapshot \in State /\ journal \in Seq(Entry) /\ at[w] = "up"
  BY DEF GraphInv, StoreInv, TypeOK, Up, Running, Handles
<1>3. e \in Entry /\ Applicable(mem[w], e)
  BY <1>1, <1>2, EntryIsEntry, EntryApplies DEF Mutation
<1>4. /\ e.object_id = id /\ e.object = object /\ e.sequence = mem[w].journalSequence + 1
  BY DEF MkEntry
<1> HIDE DEF e
<1>5. /\ s \in State /\ s.objects = [mem[w].objects EXCEPT ![e.object_id] = e.object]
      /\ s.operationRecords = mem[w].operationRecords
      /\ s.journalSequence = Newest.journalSequence + 1 /\ s.generation = Newest.generation + 1
  BY <1>2, <1>3, ApplyIsState DEF Newest
<1>6. Chain(snapshot, journal, past) => Chain(snapshot, Append(journal, e), Append(past, s))
  BY <1>2, <1>3, ChainAppend
<1> HIDE DEF s
<1>7. past \in Seq(State) /\ Len(past) \in Nat /\ Len(past) > 0 /\ Len(journal) \in Nat
  BY <1>2 DEF History
<1>8. /\ snapshot' = snapshot /\ answers' = answers
      /\ \/ /\ past' = Append(past, s)
            /\ Die(w) \/ (mem' = [mem EXCEPT ![w] = s] /\ UNCHANGED <<at, todo>>)
         \/ past' = past /\ tail' = "torn" /\ Die(w)
      /\ \/ tail # "torn" /\ journal' = Append(journal, e) /\ past' = Append(past, s)
         \/ tail' = "torn" /\ journal' = journal
  BY <1>1, <1>2 DEF CommitMutation, AppendJournalEntry, AppendCutShort, e, s
<1>9. \/ at'[w] = "up" /\ mem'[w] = s /\ todo'[w] = todo[w] /\ past' = Append(past, s)
      \/ at'[w] = "down" /\ todo'[w] = <<>>
  BY <1>2, <1>8 DEF Die, Goto, TypeOK
<1>10. /\ \A n \in 1..Len(past) : past'[n] = past[n]
       /\ History(past') /\ Len(past') \in Nat /\ Len(past') >= Len(past)
       /\ past' = Append(past, s) => past'[Len(past')] = s /\ Len(past') = Len(past) + 1
       /\ past' = past \/ past' = Append(past, s)
  <2>1. CASE past' = past
    BY <1>2, <1>7, <2>1
  <2>2. CASE past' = Append(past, s)
    <3>1. /\ Len(past') = Len(past) + 1 /\ \A n \in 1..Len(past) : past'[n] = past[n]
          /\ past'[Len(past) + 1] = s
      BY <1>5, <1>7, <2>2
    <3>2. History(past')
      BY <1>2, <1>5, <2>2, HistoryStep
    <3> QED BY <1>7, <2>2, <3>1, <3>2
  <2> QED BY <1>8, <2>1, <2>2
<1>11. StoreInv'
  <2>1. tail' # "torn" => Chain(snapshot', journal', past')
    BY <1>2, <1>6, <1>8
  <2> QED BY <1>9, <1>10, <2>1 DEF StoreInv, Running
<1>12. AnswersInv'
  <2>1. Newest'.operationRecords = Newest.operationRecords
    BY <1>2, <1>5, <1>10 DEF Newest
  <2> QED BY <1>8, <2>1 DEF GraphInv, AnswersInv
<1>13. ReadInv'
  <2>1. past' \in Seq(State)
    BY <1>10 DEF History
  <2>2. /\ \A t \in State : Along(t, past) => Along(t, past')
        /\ \A f \in Entry : Writes(f, past) => Writes(f, past')
    BY <1>7, <1>10, <2>1, AlongKept
  <2>3. past' = Append(past, s) => Along(s, past')
    BY <1>10, AlongNewest
  <2>4. past' = Append(past, s) => Writes(e, past')
    <3> SUFFICES ASSUME past' = Append(past, s) PROVE Writes(e, past')
      OBVIOUS
    <3>1. mem[w].journalSequence = Len(past) - 1
      BY <1>2, <1>7 DEF History
    <3>2. e.sequence = Len(past) /\ e.sequence \in 1..(Len(past') - 1)
      BY <1>4, <1>7, <1>10, <3>1
    <3>3. past'[e.sequence] = mem[w] /\ past'[e.sequence + 1] = s
      BY <1>2, <1>7, <1>10, <3>2
    <3> QED BY <1>5, <3>2, <3>3 DEF Writes
  <2>5. journal' = journal \/ AllWrite(journal', past')
    <3> SUFFICES ASSUME journal' = Append(journal, e), past' = Append(past, s)
                 PROVE  AllWrite(journal', past')
      BY <1>8
    <3>1. AllWrite(journal, past)
      BY DEF GraphInv, ReadInv
    <3> SUFFICES ASSUME NEW i \in 1..Len(journal') PROVE Writes(journal'[i], past')
      BY DEF AllWrite
    <3>2. CASE i \in 1..Len(journal)
      <4>1. journal'[i] = journal[i] /\ journal[i] \in Entry
        BY <1>2, <1>7, <3>2
      <4> QED BY <2>2, <3>1, <3>2, <4>1 DEF AllWrite
    <3>3. CASE i = Len(journal) + 1
      BY <1>2, <1>7, <2>4, <3>3
    <3>4. Len(journal') = Len(journal) + 1
      BY <1>2, <1>3
    <3> QED BY <1>7, <3>2, <3>3, <3>4
  <2>6. \A h \in Handles : h # w => at'[h] = at[h] /\ mem'[h] = mem[h] /\ todo'[h] = todo[h]
    BY <1>2, <1>8, OthersStay
  <2>7. \A h \in Handles :
          /\ at'[h] = "down" \/ (at[h] # "down" /\ mem'[h] = mem[h]) \/ Along(mem'[h], past')
          /\ todo'[h] = todo[h] \/ todo'[h] = <<>>
    BY <1>9, <2>3, <2>6
  <2> QED BY <1>2, <1>8, <2>2, <2>5, <2>7, ReadStep DEF GraphInv
<1> QED BY <1>11, <1>12, <1>13 DEF GraphInv

LEMMA TransactionStep ==
  ASSUME GraphInv, TypeOK', NEW w, Writers = {w}, NEW key \in Keys, NEW request \in Requests,
         NEW ids \in SUBSET Ids, NEW writes \in [ids -> Contents],
         CommitTransaction(w, key, request, writes)
  PROVE  GraphInv'
<1>1. TypeOK /\ w \in Handles
  BY DEF GraphInv, Handles
<1>2. PICK objects \in Objects, record \in Record :
        LET next == Advance(mem[w], objects, mem[w].operationRecords \cup {record})
        IN /\ next \in State
           /\ \A r \in mem[w].operationRecords : r.key # record.key
           /\ Up(w) /\ WriteSnapshot(w, next) /\ past' = Append(past, next)
           /\ answers' = answers \/ answers' = answers \cup {record}
  BY <1>1, TransactionShape
<1> DEFINE next == Advance(mem[w], objects, mem[w].operationRecords \cup {record})
<1>3. mem[w] \in State /\ mem[w].operationRecords \in SUBSET Record
  BY <1>1 DEF TypeOK, State
<1>4. /\ next \in State /\ next.journalSequence = mem[w].journalSequence + 1
      /\ next.generation = mem[w].generation + 1
      /\ next.operationRecords = mem[w].operationRecords \cup {record}
  BY <1>2, <1>3, AdvanceIsState
<1>5. Up(w) /\ WriteSnapshot(w, next) /\ past' = Append(past, next)
  BY <1>2
<1> HIDE DEF next
<1>6. StoreInv' /\ ReadInv' /\ Newest' = next /\ Newest = mem[w]
  BY <1>4, <1>5, SnapshotStep
<1>7. AnswersInv'
  <2>1. Newest'.operationRecords = Newest.operationRecords \cup {record}
    BY <1>4, <1>6
  <2>2. \A r \in Newest.operationRecords : r.key # record.key
    BY <1>2, <1>6
  <2>3. answers' = answers \/ answers' = answers \cup {record}
    BY <1>2
  <2> QED BY <2>1, <2>2, <2>3 DEF GraphInv, AnswersInv
<1> QED BY <1>6, <1>7 DEF GraphInv

LEMMA RevisionStep ==
  ASSUME GraphInv, TypeOK', NEW w, Writers = {w},
         \/ OpenMigrationWindow(w) \/ SealMigrationWindow(w)
         \/ \E objects \in Imports : InitializeFromObjects(w, objects)
  PROVE  GraphInv'
<1>1. TypeOK /\ w \in Handles
  BY DEF GraphInv, Handles
<1>2. PICK next \in State :
        /\ next.journalSequence = mem[w].journalSequence
        /\ next.generation = mem[w].generation
        /\ \/ next.objects = mem[w].objects
           \/ mem[w].generation = 0 /\ \A id \in Ids : mem[w].objects[id] = Absent
        /\ next.operationRecords = mem[w].operationRecords
        /\ Up(w) /\ WriteSnapshot(w, next) /\ Revise(next) /\ UNCHANGED answers
  <2>1. CASE OpenMigrationWindow(w) \/ SealMigrationWindow(w)
    BY <1>1, <2>1, LifecycleShape
  <2>2. ASSUME NEW objects \in Imports, InitializeFromObjects(w, objects)
        PROVE  \E next \in State :
                 /\ next.journalSequence = mem[w].journalSequence
                 /\ next.generation = mem[w].generation
                 /\ mem[w].generation = 0 /\ \A id \in Ids : mem[w].objects[id] = Absent
                 /\ next.operationRecords = mem[w].operationRecords
                 /\ Up(w) /\ WriteSnapshot(w, next) /\ Revise(next) /\ UNCHANGED answers
    BY <1>1, <2>2, ImportShape
  <2> QED BY <2>1, <2>2
<1>3. StoreInv' /\ ReadInv' /\ Newest' = next /\ Newest = mem[w]
  BY <1>2, SnapshotStep
<1> QED BY <1>2, <1>3 DEF GraphInv, AnswersInv

LEMMA CompactStep ==
  ASSUME GraphInv, TypeOK', NEW w, Writers = {w}, Compact(w) \/ EmptyJournal(w)
  PROVE  GraphInv'
<1>1. /\ History(past) /\ mem[w] = past[Len(past)] /\ w \in Handles /\ TypeOK
      /\ (tail # "torn" => Chain(snapshot, journal, past))
      /\ snapshot \in State /\ journal \in Seq(Entry) /\ at[w] \in Running
  BY DEF GraphInv, StoreInv, TypeOK, Compact, EmptyJournal, Up, Running, Handles
<1>2. UNCHANGED <<answers, past, mem, todo>>
  BY DEF Compact, EmptyJournal
<1>3. \A h \in Handles : h # w => at'[h] = at[h]
  BY <1>1, OthersStay DEF Compact, EmptyJournal
<1>4. CASE Compact(w)
  <2>1. /\ snapshot' = past[Len(past)] /\ journal' = journal /\ tail' = tail
        /\ at'[w] = "compacting"
    BY <1>1, <1>4 DEF Compact, Goto, TypeOK
  <2>2. tail' # "torn" => Chain(snapshot', journal', past)
    <3> SUFFICES ASSUME tail # "torn" PROVE Chain(past[Len(past)], journal, past)
      BY <2>1
    <3>1. \A i \in 1..Len(journal) : journal[i].sequence <= Len(past) - 1
      BY <1>1, ChainBound
    <3> QED BY <1>1, <3>1, ChainFresh
  <2>3. StoreInv'
    BY <1>1, <1>2, <2>1, <2>2 DEF StoreInv, Running
  <2>4. Along(snapshot', past')
    BY <1>1, <1>2, <2>1, AlongNewest
  <2>5. ReadInv'
    BY <1>1, <1>2, <1>3, <2>1, <2>4 DEF ReadInv, GraphInv, Running
  <2> QED BY <1>2, <2>3, <2>5 DEF GraphInv, AnswersInv, Newest
<1>5. CASE EmptyJournal(w)
  <2>1. /\ snapshot' = past[Len(past)] /\ snapshot' = snapshot /\ journal' = <<>>
        /\ at'[w] = "up"
    BY <1>1, <1>5 DEF EmptyJournal, Goto, TypeOK, GraphInv, StoreInv
  <2>2. Chain(snapshot', journal', past)
    <3>1. <<>> \in Seq(Entry) /\ \A i \in 1..Len(<<>>) : <<>>[i].sequence <= Len(past) - 1
      OBVIOUS
    <3> QED BY <1>1, <2>1, <3>1, ChainFresh
  <2>3. StoreInv'
    BY <1>1, <1>2, <2>1, <2>2 DEF StoreInv, Running
  <2>4. AllWrite(journal', past')
    BY <2>1 DEF AllWrite
  <2>5. ReadInv'
    BY <1>1, <1>2, <1>3, <2>1, <2>4 DEF ReadInv, GraphInv, Running
  <2> QED BY <1>2, <2>3, <2>5 DEF GraphInv, AnswersInv, Newest
<1> QED BY <1>4, <1>5

LEMMA AnswerStep ==
  ASSUME GraphInv, TypeOK', NEW w, Writers = {w}, NEW key, NEW request, AnswerAgain(w, key, request)
  PROVE  GraphInv'
<1>1. mem[w] = Newest
  BY DEF GraphInv, StoreInv, AnswerAgain, Up, Running, Newest
<1>2. PICK r \in mem[w].operationRecords : answers' = answers \cup {r}
  BY DEF AnswerAgain, RecordFor
<1>3. UNCHANGED <<disk, at, mem, todo, past>>
  BY DEF AnswerAgain
<1> QED BY <1>1, <1>2, <1>3 DEF disk, GraphInv, StoreInv, AnswersInv, ReadInv, Newest
-----------------------------------------------------------------------------
(* Loads, of the writer or of a reader *)

\* A load keeps to what it reads.
LEMMA LoadReads ==
  ASSUME GraphInv, TypeOK', NEW h \in Handles, Load(h) \/ Crash(h)
  PROVE  /\ UNCHANGED <<disk, answers, past>>
         /\ \A g \in Handles : g # h => at'[g] = at[g] /\ mem'[g] = mem[g] /\ todo'[g] = todo[g]
         /\ ReadInv'
<1>1. /\ History(past) /\ TypeOK /\ ReadInv
      /\ at \in [Handles -> {"down", "snapshot", "replay", "up", "compacting"}]
      /\ mem \in [Handles -> State] /\ todo \in [Handles -> Seq(Entry)]
  BY DEF GraphInv, StoreInv, TypeOK
<1>2. UNCHANGED <<disk, answers, past>>
  BY DEF Load, Open, ReadJournal, Replay, FinishOpen, Crash
<1>3. ASSUME NEW g \in Handles, g # h
      PROVE  at'[g] = at[g] /\ mem'[g] = mem[g] /\ todo'[g] = todo[g]
  BY <1>1, <1>3 DEF Load, Open, ReadJournal, Replay, FinishOpen, Crash, Die, Goto
<1>4. /\ at'[h] = "down" \/ (at[h] # "down" /\ mem'[h] = mem[h]) \/ Along(mem'[h], past')
      /\ todo'[h] = todo[h] \/ todo'[h] = <<>> \/ AllWrite(todo'[h], past')
  <2>1. CASE Open(h)
    <3>1. mem'[h] = snapshot /\ todo'[h] = todo[h] /\ Along(snapshot, past)
      BY <1>1, <2>1 DEF Open, ReadInv
    <3> QED BY <1>2, <3>1
  <2>2. CASE ReadJournal(h)
    <3>1. \/ at'[h] = "down" /\ todo'[h] = <<>>
          \/ at[h] # "down" /\ mem'[h] = mem[h] /\ todo'[h] = journal
      BY <1>1, <2>2 DEF ReadJournal, Die, Goto
    <3>2. AllWrite(journal, past)
      BY <1>1 DEF ReadInv
    <3> QED BY <1>2, <3>1, <3>2
  <2>3. CASE Replay(h)
    <3> DEFINE es == todo[h]
               s == mem[h]
    <3>1. es \in Seq(Entry) /\ es # <<>> /\ s \in State /\ at[h] # "down"
      BY <1>1, <2>3 DEF Replay
    <3>2. Along(s, past) /\ AllWrite(es, past)
      BY <1>1, <3>1 DEF ReadInv
    <3>3. /\ Len(es) \in Nat /\ Len(es) > 0 /\ Head(es) = es[1] /\ Head(es) \in Entry
          /\ Len(Tail(es)) = Len(es) - 1
          /\ \A i \in 1..Len(Tail(es)) : Tail(es)[i] = es[i + 1] /\ i + 1 \in 1..Len(es)
      BY <3>1
    <3>4. Writes(Head(es), past) /\ AllWrite(Tail(es), past)
      BY <3>2, <3>3 DEF AllWrite
    <3>5. \/ at'[h] = "down" /\ todo'[h] = <<>>
          \/ mem'[h] = s /\ todo'[h] = Tail(es)
          \/ Applicable(s, Head(es)) /\ mem'[h] = ApplyJournalEntry(s, Head(es)) /\ todo'[h] = Tail(es)
      BY <1>1, <2>3 DEF Replay, Die, Goto
    <3>6. Applicable(s, Head(es)) => Along(ApplyJournalEntry(s, Head(es)), past)
      BY <1>1, <3>1, <3>2, <3>3, <3>4, AlongApply
    <3> QED BY <1>2, <3>1, <3>4, <3>5, <3>6
  <2>4. CASE FinishOpen(h)
    BY <1>1, <2>4 DEF FinishOpen
  <2>5. CASE Crash(h)
    BY <1>1, <2>5 DEF Crash, Die, Goto
  <2> QED BY <2>1, <2>2, <2>3, <2>4, <2>5 DEF Load
<1>5. \A g \in Handles :
        /\ at'[g] = "down" \/ (at[g] # "down" /\ mem'[g] = mem[g]) \/ Along(mem'[g], past')
        /\ todo'[g] = todo[g] \/ todo'[g] = <<>> \/ AllWrite(todo'[g], past')
  BY <1>3, <1>4
<1>6. past' = past /\ snapshot' = snapshot /\ journal' = journal
  BY <1>2 DEF disk
<1>7. ReadInv'
  BY <1>1, <1>5, <1>6, ReadStep
<1> QED BY <1>2, <1>3, <1>7

\* The writer's own load walks to the end of the history.
LEMMA WriterLoads ==
  ASSUME GraphInv, TypeOK', NEW w, Writers = {w}, Load(w) \/ Crash(w)
  PROVE  GraphInv'
<1>1. /\ History(past) /\ TypeOK /\ w \in Handles
      /\ (tail # "torn" => Chain(snapshot, journal, past))
      /\ at \in [Handles -> {"down", "snapshot", "replay", "up", "compacting"}]
      /\ mem \in [Handles -> State] /\ todo \in [Handles -> Seq(Entry)]
  BY DEF GraphInv, StoreInv, TypeOK, Handles
<1>2. UNCHANGED <<disk, answers, past>> /\ ReadInv'
  BY <1>1, LoadReads
<1>3. UNCHANGED <<snapshot, journal, tail>>
  BY <1>2 DEF disk
<1>4. \/ at'[w] = "down"
      \/ at'[w] = "snapshot" /\ mem'[w] = snapshot
      \/ at'[w] = "replay" /\ Chain(mem'[w], todo'[w], past) /\ tail # "torn"
      \/ at'[w] = "up" /\ mem'[w] = past[Len(past)]
  <2>1. CASE Open(w)
    BY <1>1, <2>1 DEF Open, Goto
  <2>2. CASE ReadJournal(w)
    <3>1. mem[w] = snapshot
      BY <2>2 DEF ReadJournal, GraphInv, StoreInv
    <3>2. \/ at'[w] = "down"
          \/ at'[w] = "replay" /\ mem'[w] = mem[w] /\ todo'[w] = journal /\ tail # "torn"
      BY <1>1, <2>2 DEF ReadJournal, Die, Goto
    <3> QED BY <1>1, <3>1, <3>2
  <2>3. CASE Replay(w)
    <3> DEFINE e == Head(todo[w])
               s == mem[w]
    <3>1. at[w] = "replay" /\ todo[w] # <<>> /\ s \in State /\ todo[w] \in Seq(Entry)
      BY <1>1, <2>3 DEF Replay
    <3>2. Chain(s, todo[w], past) /\ tail # "torn"
      BY <3>1 DEF GraphInv, StoreInv
    <3>3. /\ Skipped(s, e) => Chain(s, Tail(todo[w]), past)
          /\ ~Skipped(s, e) => /\ Applicable(s, e)
                               /\ Chain(ApplyJournalEntry(s, e), Tail(todo[w]), past)
      BY <1>1, <3>1, <3>2, ChainStep
    <3>4. /\ mem' = [mem EXCEPT ![w] = IF Skipped(s, e) THEN s ELSE ApplyJournalEntry(s, e)]
          /\ todo' = [todo EXCEPT ![w] = Tail(todo[w])]
          /\ UNCHANGED at
      BY <2>3, <3>3 DEF Replay
    <3>5. /\ mem'[w] = IF Skipped(s, e) THEN s ELSE ApplyJournalEntry(s, e)
          /\ todo'[w] = Tail(todo[w])
      BY <1>1, <3>4
    <3> QED BY <3>1, <3>2, <3>3, <3>4, <3>5
  <2>4. CASE FinishOpen(w)
    <3>1. at[w] = "replay" /\ todo[w] = <<>> /\ mem[w] \in State
      BY <1>1, <2>4 DEF FinishOpen
    <3>2. Chain(mem[w], <<>>, past)
      BY <3>1 DEF GraphInv, StoreInv
    <3>3. mem[w] = past[Len(past)]
      BY <1>1, <3>1, <3>2, ChainDone
    <3> QED BY <1>1, <2>4, <3>3 DEF FinishOpen, Goto
  <2>5. CASE Crash(w)
    BY <1>1, <2>5 DEF Crash, Die, Goto
  <2> QED BY <2>1, <2>2, <2>3, <2>4, <2>5 DEF Load
<1>5. StoreInv'
  BY <1>1, <1>2, <1>3, <1>4 DEF StoreInv, Running
<1> QED BY <1>2, <1>5 DEF GraphInv, AnswersInv, Newest

\* A reader's load is nothing to the writer.
LEMMA ReaderLoads ==
  ASSUME GraphInv, TypeOK', NEW h \in Handles, h \notin Writers, Load(h) \/ Crash(h)
  PROVE  GraphInv'
<1>1. /\ UNCHANGED <<disk, answers, past>> /\ ReadInv'
      /\ \A g \in Writers : at'[g] = at[g] /\ mem'[g] = mem[g] /\ todo'[g] = todo[g]
  BY LoadReads, HandlesSplit
<1>2. StoreInv'
  BY <1>1 DEF GraphInv, StoreInv, disk
<1> QED BY <1>1, <1>2 DEF GraphInv, AnswersInv, Newest
-----------------------------------------------------------------------------
LEMMA GraphStep ==
  ASSUME OneWriter
  PROVE  GraphInv /\ [Next]_vars => GraphInv'
<1> SUFFICES ASSUME GraphInv, [Next]_vars PROVE GraphInv'
  OBVIOUS
<1>1. TypeOK'
  BY TypesStep DEF GraphInv
<1>2. PICK w : Writers = {w}
  BY DEF OneWriter
<1>3. CASE UNCHANGED vars
  BY <1>1, <1>3 DEF GraphInv, StoreInv, AnswersInv, ReadInv, Newest, vars
<1>4. ASSUME NEW h \in Handles, Load(h) \/ Crash(h) PROVE GraphInv'
  BY <1>1, <1>2, <1>4, WriterLoads, ReaderLoads
<1>5. CASE Mutate(w)
  <2>1. TypeOK /\ w \in Handles
    BY <1>2 DEF GraphInv, Handles
  <2>2. ASSUME NEW id \in Ids,
               \/ \E v \in FirstVersions, c \in Contents, t \in BOOLEAN : CreateObject(w, id, v, c, t)
               \/ \E c \in Contents, t \in BOOLEAN : UpdateObject(w, id, c, t)
               \/ TombstoneObject(w, id)
        PROVE  GraphInv'
    <3>1. Journalled(w)
      BY <2>1, <2>2, OperationsAreJournalled
    <3>2. Up(w)
      BY <2>2 DEF CreateObject, UpdateObject, TombstoneObject
    <3> QED BY <1>1, <1>2, <3>1, <3>2, JournalStep
  <2>3. ASSUME NEW key \in Keys, NEW request \in Requests, NEW ids \in SUBSET Ids,
               NEW writes \in [ids -> Contents], CommitTransaction(w, key, request, writes)
        PROVE  GraphInv'
    BY <1>1, <1>2, <2>3, TransactionStep
  <2>4. ASSUME NEW key \in Keys, NEW request \in Requests, AnswerAgain(w, key, request)
        PROVE  GraphInv'
    BY <1>1, <1>2, <2>4, AnswerStep
  <2>5. CASE \/ OpenMigrationWindow(w) \/ SealMigrationWindow(w)
             \/ \E objects \in Imports : InitializeFromObjects(w, objects)
    BY <1>1, <1>2, <2>5, RevisionStep
  <2>6. CASE Compact(w) \/ EmptyJournal(w)
    BY <1>1, <1>2, <2>6, CompactStep
  <2> QED BY <1>5, <2>2, <2>3, <2>4, <2>5, <2>6 DEF Mutate
<1> QED BY <1>2, <1>3, <1>4, <1>5 DEF Next

LEMMA GraphStart == Init => GraphInv
<1> SUFFICES ASSUME Init PROVE GraphInv
  OBVIOUS
<1>1. TypeOK
  BY TypesInit
<1>2. History(past) /\ past[Len(past)] = Empty
  BY EmptyIsState DEF Init, History, Empty
<1>3. Chain(snapshot, journal, past)
  <2>1. journal \in Seq(Entry) /\ Len(journal) = 0 /\ snapshot = past[Len(past)]
    BY <1>2 DEF Init
  <2>2. \A i \in 1..Len(journal) : journal[i].sequence <= Len(past) - 1
    BY <2>1
  <2> QED BY <1>2, <2>1, <2>2, ChainFresh
<1>4. StoreInv
  BY <1>2, <1>3, HandlesSplit DEF Init, StoreInv, Running
<1>5. ReadInv
  <2>1. Along(snapshot, past)
    BY <1>2, AlongNewest DEF Init
  <2>2. journal = <<>> /\ \A h \in Handles : at[h] = "down" /\ todo[h] = <<>>
    BY DEF Init
  <2>3. AllWrite(<<>>, past)
    BY DEF AllWrite
  <2> QED BY <2>1, <2>2, <2>3 DEF ReadInv
<1>6. Newest.operationRecords = {} /\ answers = {}
  BY <1>2 DEF Init, Newest, Empty
<1> QED BY <1>1, <1>4, <1>5, <1>6 DEF GraphInv, AnswersInv

LEMMA GraphAlways ==
  ASSUME OneWriter
  PROVE  Spec => []GraphInv
<1>1. GraphInv /\ [Next]_vars => GraphInv'
  BY GraphStep
<1> QED BY <1>1, GraphStart, PTL DEF Spec

\* While one process writes, it comes back from any death in the state it was in,
\* whoever reads the directory meanwhile.
THEOREM GraphRestartIsInvisible ==
  ASSUME OneWriter
  PROVE  Spec => []RestartIsInvisible
<1>1. GraphInv => RestartIsInvisible
  BY DEF GraphInv, StoreInv, RestartIsInvisible, Running, Up
<1> QED BY <1>1, GraphAlways, PTL

\* While one process writes, its own load of its journal never throws.
THEOREM GraphReplayNeverThrows ==
  ASSUME OneWriter
  PROVE  Spec => []ReplayNeverThrows
<1>1. GraphInv => ReplayNeverThrows
  <2> SUFFICES ASSUME GraphInv, NEW h \in Writers, at[h] = "replay", todo[h] # <<>>
               PROVE  Skipped(mem[h], Head(todo[h])) \/ Applicable(mem[h], Head(todo[h]))
    BY DEF ReplayNeverThrows
  <2>1. /\ History(past) /\ mem[h] \in State /\ todo[h] \in Seq(Entry)
        /\ Chain(mem[h], todo[h], past)
    BY HandlesSplit DEF GraphInv, StoreInv, TypeOK
  <2> QED BY <2>1, ChainStep
<1> QED BY <1>1, GraphAlways, PTL

\* While one process writes, every load, of a reader in the midst of its mutations
\* and compactions too, has the objects of one state of the store or throws.
THEOREM GraphLoadsOneState ==
  ASSUME OneWriter
  PROVE  Spec => []LoadsOneState
<1>1. GraphInv => LoadsOneState
  BY DEF GraphInv, ReadInv, Along, LoadsOneState
<1> QED BY <1>1, GraphAlways, PTL

\* While one process writes, an idempotency key has one answer, across lost answers
\* and restarts.
THEOREM GraphOneAnswerPerKey ==
  ASSUME OneWriter
  PROVE  Spec => []OneAnswerPerKey
<1>1. GraphInv => OneAnswerPerKey
  BY DEF GraphInv, AnswersInv, OneAnswerPerKey
<1> QED BY <1>1, GraphAlways, PTL
=============================================================================
