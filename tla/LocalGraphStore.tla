--------------------------- MODULE LocalGraphStore ---------------------------
(* The local graph replica (FileLocalGraphStore): a snapshot file replaced    *)
(* whole, a journal file appended line by line, and the state a process keeps *)
(* after loading both.  Mutations of one process run one at a time            *)
(* (serializeMutation), so each is one action; what may happen inside one is  *)
(* the death of the process, between the file writes or within an append.     *)
(* Nothing guards the directory against a second process that opens it: a     *)
(* backup loads it while the sync daemon writes to it.  So a load, and the    *)
(* two writes of a compaction, are steps of their own.                        *)
EXTENDS Naturals, Sequences, FiniteSets

CONSTANTS
  Writers,       \* processes that open the directory to change it
  Readers,       \* processes with a LocalGraphMigrationSource: its mutators throw
  Ids,           \* object ids
  Contents,      \* what an envelope carries
  Keys,          \* idempotency keys of transactions
  Requests,      \* operation id, actor and fingerprint of a transaction
  FirstVersions, \* versions an object may be created with (a pulled one is not at 1)
  MaxSequence,   \* bound on journal sequence numbers
  MaxWindows     \* bound on migration windows sealed

ASSUME GraphAssumption ==
  /\ FirstVersions \subseteq Nat \ {0}
  /\ MaxSequence \in Nat /\ MaxWindows \in Nat
  /\ IsFiniteSet(Ids)

VARIABLES
  snapshot,  \* snapshot file; the empty state while there is none
  journal,   \* whole lines of the journal file
  tail,      \* how the journal file ends: "whole"; "open", its last line has no
             \* newline yet; "torn", some line does not parse
  at,        \* per process: down, or how far its load is, or up, or compacting
  mem,       \* FileLocalGraphStore.state, also while loading
  todo,      \* journal entries a load has still to look at
  answers,   \* history: answers to transactions
  past       \* history: past[n + 1] is the state at journal sequence n

Handles == Writers \cup Readers

disk == <<snapshot, journal, tail>>
vars == <<snapshot, journal, tail, at, mem, todo, answers, past>>
-----------------------------------------------------------------------------
Versions == Nat \ {0}
Object == [version : Versions, content : Contents, tombstone : BOOLEAN]
Absent == [version |-> 0]
Nothing == [i \in Ids |-> Absent]
Objects == [Ids -> Object \cup {Absent}]

Record == [key : Keys, request : Requests, generation : Nat]
Live == [state |-> "live"]
Window == [state : {"migrating"}, base : Nat]
Sealed == [base : Nat, sealed : Nat]

State == [generation : Nat, journalSequence : Nat, objects : Objects,
          operationRecords : SUBSET Record, lifecycle : Window \cup {Live},
          migrationRecords : SUBSET Sealed]

Entry == [sequence : Nat, previous_generation : Nat, generation : Nat,
          operation : {"create", "update", "tombstone"},
          object_id : Ids, base_version : Nat, object : Object]

Empty ==
  [generation |-> 0, journalSequence |-> 0, objects |-> Nothing,
   operationRecords |-> {}, lifecycle |-> Live, migrationRecords |-> {}]

Init ==
  /\ snapshot = Empty /\ journal = <<>> /\ tail = "whole"
  /\ at = [h \in Handles |-> "down"]
  /\ mem = [h \in Handles |-> Empty]
  /\ todo = [h \in Handles |-> <<>>]
  /\ answers = {}
  /\ past = <<Empty>>
-----------------------------------------------------------------------------
(* Loading *)

Up(h) == at[h] = "up"
Goto(h, where) == at' = [at EXCEPT ![h] = where]

\* The process ends, or its load throws: what it had in memory is gone.
Die(h) ==
  /\ Goto(h, "down")
  /\ mem' = [mem EXCEPT ![h] = Empty]
  /\ todo' = [todo EXCEPT ![h] = <<>>]

\* The next state of s: one more generation, one more sequence number.
Advance(s, objects, records) ==
  [generation |-> s.generation + 1, journalSequence |-> s.journalSequence + 1,
   objects |-> objects, operationRecords |-> records,
   lifecycle |-> s.lifecycle, migrationRecords |-> s.migrationRecords]

\* Mutant: an entry further on is applied where the next one is missing.
ApplicableAnywhere(s, e) ==
  /\ e.operation = "create" => s.objects[e.object_id] = Absent
  /\ e.operation # "create" =>
       /\ s.objects[e.object_id] # Absent
       /\ s.objects[e.object_id].version = e.base_version

\* What applyJournalEntry asks of an entry before it applies it.
Applicable(s, e) ==
  /\ e.sequence = s.journalSequence + 1
  /\ e.previous_generation = s.generation /\ e.generation = s.generation + 1
  /\ e.operation = "create" => s.objects[e.object_id] = Absent
  /\ e.operation # "create" =>
       /\ s.objects[e.object_id] # Absent
       /\ s.objects[e.object_id].version = e.base_version

ApplyJournalEntry(s, e) ==
  Advance(s, [s.objects EXCEPT ![e.object_id] = e.object], s.operationRecords)

\* readSnapshot
Open(h) ==
  /\ at[h] = "down"
  /\ mem' = [mem EXCEPT ![h] = snapshot]
  /\ Goto(h, "snapshot")
  /\ UNCHANGED <<disk, todo, answers, past>>

\* readJournal: a line that does not parse fails the whole load; a last line without
\* its newline is a line.
ReadJournal(h) ==
  /\ at[h] = "snapshot"
  /\ IF tail = "torn"
     THEN Die(h)
     ELSE Goto(h, "replay") /\ todo' = [todo EXCEPT ![h] = journal] /\ UNCHANGED mem
  /\ UNCHANGED <<disk, answers, past>>

\* Mutant: an entry is applied again although the snapshot covers it.
SkippedNever(s, e) == e.sequence < s.journalSequence

Skipped(s, e) == e.sequence <= s.journalSequence

\* One round of the loop in loadState.
Replay(h) ==
  /\ at[h] = "replay" /\ todo[h] # <<>>
  /\ LET e == Head(todo[h])
         s == mem[h]
     IN IF Skipped(s, e) \/ Applicable(s, e)
        THEN /\ mem' = [mem EXCEPT ![h] = IF Skipped(s, e) THEN s ELSE ApplyJournalEntry(s, e)]
             /\ todo' = [todo EXCEPT ![h] = Tail(@)]
             /\ UNCHANGED at
        ELSE Die(h)
  /\ UNCHANGED <<disk, answers, past>>

FinishOpen(h) ==
  /\ at[h] = "replay" /\ todo[h] = <<>>
  /\ Goto(h, "up")
  /\ UNCHANGED <<disk, mem, todo, answers, past>>

\* Also while the process loads, and between the two writes of a compaction.
Crash(h) ==
  /\ at[h] # "down"
  /\ Die(h)
  /\ UNCHANGED <<disk, answers, past>>
-----------------------------------------------------------------------------
(* Mutations that append to the journal.  A request that is refused (a stale  *)
(* generation or version, an object that is or is not there) changes nothing. *)

MkEntry(s, op, id, object) ==
  [sequence |-> s.journalSequence + 1, previous_generation |-> s.generation,
   generation |-> s.generation + 1, operation |-> op, object_id |-> id,
   base_version |-> s.objects[id].version, object |-> object]

\* The line is appended as it is: behind a line without newline it makes one that
\* does not parse.
AppendJournalEntry(e) ==
  IF tail = "whole" THEN journal' = Append(journal, e) /\ UNCHANGED tail
                    ELSE tail' = "torn" /\ UNCHANGED journal

\* Death within the append: all of the line but its newline, or less, is there.
AppendCutShort(e) ==
  \/ tail = "whole" /\ tail' = "open" /\ journal' = Append(journal, e)
  \/ tail' = "torn" /\ UNCHANGED journal

\* commitMutation: append and sync, then replace the state and answer.  A line that
\* parses is a mutation made, whether or not the process lives to answer.
CommitMutation(h, op, id, object) ==
  LET e == MkEntry(mem[h], op, id, object)
      s == ApplyJournalEntry(mem[h], e)
  IN /\ mem[h].journalSequence < MaxSequence
     /\ \/ /\ AppendJournalEntry(e)
           /\ mem' = [mem EXCEPT ![h] = s]
           /\ past' = Append(past, s)
           /\ UNCHANGED <<at, todo>>
        \/ /\ AppendJournalEntry(e) \/ AppendCutShort(e)
           /\ Die(h)
           /\ past' = IF tail' = "torn" THEN past ELSE Append(past, s)
     /\ UNCHANGED <<snapshot, answers>>

MkObject(v, c, t) == [version |-> v, content |-> c, tombstone |-> t]

CreateObject(h, id, v, c, t) ==
  /\ Up(h) /\ mem[h].objects[id] = Absent
  /\ CommitMutation(h, "create", id, MkObject(v, c, t))

\* updateObject takes any envelope one version on, a tombstoned one included.
UpdateObject(h, id, c, t) ==
  /\ Up(h) /\ mem[h].objects[id] # Absent
  /\ CommitMutation(h, "update", id, MkObject(mem[h].objects[id].version + 1, c, t))

TombstoneObject(h, id) ==
  LET o == mem[h].objects[id]
  IN /\ Up(h) /\ o # Absent
     /\ ~o.tombstone
     /\ CommitMutation(h, "tombstone", id, MkObject(o.version + 1, o.content, TRUE))
-----------------------------------------------------------------------------
(* Mutations that replace the snapshot *)

\* atomicWriteJson and then the state, unless the process dies in between.
WriteSnapshot(h, s) ==
  /\ snapshot' = s
  /\ \/ mem' = [mem EXCEPT ![h] = s] /\ UNCHANGED <<at, todo>>
     \/ Die(h)
  /\ UNCHANGED <<journal, tail>>

\* The same state, seen at the same sequence number.
Revise(s) == past' = [past EXCEPT ![Len(past)] = s]

\* A transaction creates the objects that are not there and updates the others.
Written(s, id, c) ==
  IF s.objects[id] = Absent THEN MkObject(1, c, FALSE)
                            ELSE MkObject(s.objects[id].version + 1, c, FALSE)

RecordFor(s, key) == {r \in s.operationRecords : r.key = key}

\* Mutant: the transaction leaves no operation record.
CommitTransactionUnrecorded(h, key, request, writes) ==
  LET s == mem[h]
      ids == DOMAIN writes
      objects == [id \in Ids |-> IF id \in ids THEN Written(s, id, writes[id]) ELSE s.objects[id]]
      record == [key |-> key, request |-> request, generation |-> s.generation + 1]
      next == Advance(s, objects, s.operationRecords)
  IN /\ Up(h) /\ RecordFor(s, key) = {}
     /\ s.journalSequence < MaxSequence
     /\ \A id \in ids : s.objects[id] # Absent => ~s.objects[id].tombstone
     /\ WriteSnapshot(h, next)
     /\ past' = Append(past, next)
     /\ answers' = IF Up(h)' THEN answers \cup {record} ELSE answers

\* commitTransaction: every write or none; it takes a sequence number but leaves
\* no journal entry.  A tombstoned object refuses the whole transaction.
CommitTransaction(h, key, request, writes) ==
  LET s == mem[h]
      ids == DOMAIN writes
      objects == [id \in Ids |-> IF id \in ids THEN Written(s, id, writes[id]) ELSE s.objects[id]]
      record == [key |-> key, request |-> request, generation |-> s.generation + 1]
      next == Advance(s, objects, s.operationRecords \cup {record})
  IN /\ Up(h) /\ RecordFor(s, key) = {}
     /\ s.journalSequence < MaxSequence
     /\ \A id \in ids : s.objects[id] # Absent => ~s.objects[id].tombstone
     /\ WriteSnapshot(h, next)
     /\ past' = Append(past, next)
     /\ answers' = IF Up(h)' THEN answers \cup {record} ELSE answers

\* A repeated request is answered from its record; a changed one is refused.
AnswerAgain(h, key, request) ==
  /\ Up(h)
  /\ \E r \in RecordFor(mem[h], key) : r.request = request /\ answers' = answers \cup {r}
  /\ UNCHANGED <<disk, at, mem, todo, past>>

\* initializeFromObjects: only a store without objects takes an import.
InitializeFromObjects(h, objects) ==
  LET s == mem[h]
      next == [generation |-> s.generation, journalSequence |-> s.journalSequence,
               objects |-> objects, operationRecords |-> s.operationRecords,
               lifecycle |-> s.lifecycle, migrationRecords |-> s.migrationRecords]
  IN /\ Up(h)
     /\ s.generation = 0 /\ \A id \in Ids : s.objects[id] = Absent
     /\ WriteSnapshot(h, next)
     /\ Revise(next)
     /\ UNCHANGED answers

\* The lifecycle of s moves on; the sequence number does not.
Relabel(s, lifecycle, records) ==
  [generation |-> s.generation, journalSequence |-> s.journalSequence,
   objects |-> s.objects, operationRecords |-> s.operationRecords,
   lifecycle |-> lifecycle, migrationRecords |-> records]

OpenMigrationWindow(h) ==
  LET s == mem[h]
      next == Relabel(s, [state |-> "migrating", base |-> s.generation], s.migrationRecords)
  IN /\ Up(h) /\ s.lifecycle = Live
     /\ Cardinality(s.migrationRecords) < MaxWindows
     /\ WriteSnapshot(h, next) /\ Revise(next)
     /\ UNCHANGED answers

SealMigrationWindow(h) ==
  LET s == mem[h]
      record == [base |-> s.lifecycle.base, sealed |-> s.generation]
      next == Relabel(s, Live, s.migrationRecords \cup {record})
  IN /\ Up(h) /\ s.lifecycle # Live
     /\ WriteSnapshot(h, next) /\ Revise(next)
     /\ UNCHANGED answers

\* Mutant: the journal is emptied and the snapshot is not there yet.
CompactJournalFirst(h) ==
  /\ Up(h)
  /\ journal' = <<>> /\ tail' = "whole"
  /\ Goto(h, "compacting")
  /\ UNCHANGED <<snapshot, mem, todo, answers, past>>

\* compact: the snapshot, and then an empty journal.
Compact(h) ==
  /\ Up(h)
  /\ snapshot' = mem[h]
  /\ Goto(h, "compacting")
  /\ UNCHANGED <<journal, tail, mem, todo, answers, past>>

EmptyJournal(h) ==
  /\ at[h] = "compacting"
  /\ journal' = <<>> /\ tail' = "whole"
  /\ Goto(h, "up")
  /\ UNCHANGED <<snapshot, mem, todo, answers, past>>
-----------------------------------------------------------------------------
Load(h) == Open(h) \/ ReadJournal(h) \/ Replay(h) \/ FinishOpen(h)

\* An import: some objects, at versions objects may be created with.
Imports == [Ids -> [version : FirstVersions, content : Contents, tombstone : {FALSE}] \cup {Absent}]

Mutate(h) ==
  \/ \E id \in Ids :
       \/ \E v \in FirstVersions, c \in Contents, t \in BOOLEAN : CreateObject(h, id, v, c, t)
       \/ \E c \in Contents, t \in BOOLEAN : UpdateObject(h, id, c, t)
       \/ TombstoneObject(h, id)
  \/ \E key \in Keys, request \in Requests :
       \/ \E ids \in SUBSET Ids \ {{}} : \E writes \in [ids -> Contents] :
            CommitTransaction(h, key, request, writes)
       \/ AnswerAgain(h, key, request)
  \/ \E objects \in Imports : InitializeFromObjects(h, objects)
  \/ OpenMigrationWindow(h) \/ SealMigrationWindow(h)
  \/ Compact(h) \/ EmptyJournal(h)

Next ==
  \/ \E h \in Handles : Load(h) \/ Crash(h)
  \/ \E h \in Writers : Mutate(h)

Spec == Init /\ [][Next]_vars
-----------------------------------------------------------------------------
(* Correctness *)

TypeOK ==
  /\ snapshot \in State /\ journal \in Seq(Entry)
  /\ tail \in {"whole", "open", "torn"}
  /\ at \in [Handles -> {"down", "snapshot", "replay", "up", "compacting"}]
  /\ mem \in [Handles -> State]
  /\ todo \in [Handles -> Seq(Entry)]
  /\ answers \subseteq Record
  /\ past \in Seq(State) /\ past # <<>>

\* A store that has loaded its files is in the state it was in before it went
\* down, the mutation it died in applied whole or not at all: after a death in an
\* append, between the two writes of a compaction, or during a load.
RestartIsInvisible == \A h \in Writers : Up(h) => mem[h] = past[Len(past)]

\* No check of applyJournalEntry fails when the one process that writes loads its
\* own journal, so that load does not end in "sequence gap", "generation gap",
\* "create collision", "missing object" or "version conflict".
ReplayNeverThrows ==
  \A h \in Writers :
    at[h] = "replay" /\ todo[h] # <<>> =>
      Skipped(mem[h], Head(todo[h])) \/ Applicable(mem[h], Head(todo[h]))

\* An idempotency key gets one answer, whoever asks again after a lost answer
\* and a restart.
OneAnswerPerKey == \A r, q \in answers : r.key = q.key => r = q

\* Whoever loads the directory, a backup in the middle of the writer's mutations
\* and compactions too, either throws or gets the objects the store had at one
\* sequence number, never a mixture of two.  It may be an old one: a load that reads
\* the snapshot before a compaction and the journal after it misses what was
\* acknowledged before it began.  Objects imported while it loads may be missing.
Agrees(s, h, id) ==
  LET was == h[s.journalSequence + 1].objects[id]
  IN s.objects[id] = was \/ (s.objects[id] = Absent /\ was = h[1].objects[id])
LoadsOneState ==
  \A h \in Handles :
    at[h] # "down" =>
      /\ mem[h].journalSequence < Len(past)
      /\ mem[h].generation = past[mem[h].journalSequence + 1].generation
      /\ \A id \in Ids : Agrees(mem[h], past, id)
=============================================================================
