--------------------------- MODULE MigrationApply ---------------------------
(* Applying a projection plan to the durable target plane, interrupted and     *)
(* resumed.  A run commits the plan's records wave by wave, each under its     *)
(* idempotency key into one of three append-only files, then writes an alias   *)
(* row for every legacy id, then one audit event.  It may die at any moment,   *)
(* and an append may throw; the operator runs it again, perhaps with another   *)
(* plan, once the target can be read.                                          *)
EXTENDS Integers, Sequences, FiniteSets

CONSTANTS
  Keys,       \* idempotency keys of records, in their sort order
  Kind,       \* key -> record_kind
  Refs,       \* key -> the records it resolves to ids: endpoints, or what it retracts
  Legacy,     \* legacy object ids, in their sort order
  Plans,      \* plans an operator may bring: records, and alias targets of legacy ids
  MaxRuns,    \* bound on runs
  MaxFaults   \* bound on deaths and failing appends

Kinds == {"entity", "absence", "provisional-block", "relationship", "retraction"}

\* What the record schemas and the projector guarantee of any plan: edges join
\* entities, a retraction names an entity, an edge or a block.
ASSUME PlanAssumption ==
  /\ Keys \subseteq Nat \ {0} /\ IsFiniteSet(Keys)
  /\ Legacy \subseteq Nat /\ IsFiniteSet(Legacy)
  /\ Kind \in [Keys -> Kinds]
  /\ Refs \in [Keys -> SUBSET Keys]
  /\ \A k \in Keys : \A j \in Refs[k] :
       \/ Kind[k] = "relationship" /\ Kind[j] = "entity"
       \/ /\ Kind[k] = "retraction"
          /\ Kind[j] \in {"entity", "relationship", "provisional-block"}
  /\ \A p \in Plans : /\ p.records \subseteq Keys
                      /\ DOMAIN p.aliases \subseteq Legacy
                      /\ p.aliases \in [DOMAIN p.aliases -> SUBSET Keys]
  /\ MaxRuns \in Nat /\ MaxFaults \in Nat

VARIABLES
  store,      \* every durable record, in the order of the appends
  torn,       \* provisional-blocks.jsonl ends without a newline
  rows,       \* alias rows of the identity log
  headless,   \* the newest segment of a log is empty or has half a header
  audit,      \* readable lines of the audit file
  auditTorn,  \* the audit file ends without a newline
  phase,      \* of the running command
  plan,       \* its plan
  known,      \* receipts the plane can answer from: submissions, entityByKey, provisionalByKey
  objects,    \* objectIdByRecordKey
  slots,      \* entityIdBySlot; a slot is named by the record that mints it
  done,       \* records behind the cursor of commitRecords
  rowsDone,   \* outcomes behind the cursor of writeAliasRows
  committed,  \* what records_committed counts
  conflicts,  \* alias rows that point elsewhere
  run, faults,
  result      \* how the last run ended

files == <<store, torn, rows, headless, audit, auditTorn>>
memory == <<known, objects, slots, done, rowsDone, committed, conflicts>>
vars == <<files, phase, plan, memory, run, faults, result>>
-----------------------------------------------------------------------------
None == 0
Unset == [k \in Keys |-> None]
Reference == [record : Keys, id : Int]
Record == [key : Keys, object : Int, refs : SUBSET Reference]
Row == [old : Legacy, to : SUBSET Int]
Outcomes == {"committed", "alias-ledger-conflict", "aborted", "torn-tail"}
Event == [run : Nat, plan : Plans, outcome : Outcomes, committed : SUBSET Keys]
Results == {"none", "completed", "alias-ledger-conflict", "reconciliation-mismatch",
            "aborted", "died"}

\* A deleted block has no published shape: its retraction is carried beside it.
IsCarried(k) ==
  \/ Kind[k] = "provisional-block"
  \/ Kind[k] = "retraction" /\ \E j \in Refs[k] : Kind[j] = "provisional-block"

\* The id of a carried line is made from its key, other ids are minted.
ObjectId(k) == IF IsCarried(k) THEN -k ELSE Len(store) + 1
-----------------------------------------------------------------------------
(* Before the first byte: the closure gate and the foreign-store guard.        *)

\* Mutant: the gate does not follow the endpoints.
EvaluateClosureGateAliases(p) ==
  \A l \in DOMAIN p.aliases : p.aliases[l] \subseteq p.records

\* evaluateClosureGate, as far as the apply relies on it
EvaluateClosureGate(p) ==
  /\ \A k \in p.records : Refs[k] \subseteq p.records
  /\ \A l \in DOMAIN p.aliases : p.aliases[l] \subseteq p.records

\* Mutant: the guard counts alias rows only.
ForeignRows(p) == \E r \in rows : r.old \notin DOMAIN p.aliases

\* checkTargetHoldsNoForeignStore
Foreign(p) ==
  \/ \E i \in DOMAIN store : store[i].key \notin p.records
  \/ \E r \in rows : r.old \notin DOMAIN p.aliases
-----------------------------------------------------------------------------
(* The audit file: nobody repairs its tail, so a line behind half a line is    *)
(* unreadable with it.                                                         *)

AppendLine(e) ==
  /\ audit' = IF auditTorn THEN audit ELSE audit \cup {e}
  /\ auditTorn' = FALSE

LineFails == UNCHANGED audit /\ auditTorn' \in {auditTorn, TRUE}

EventOf(outcome) ==
  [run |-> run, plan |-> plan, outcome |-> outcome, committed |-> committed]
-----------------------------------------------------------------------------
Init ==
  /\ store = <<>> /\ torn = FALSE /\ rows = {} /\ headless = FALSE
  /\ audit = {} /\ auditTorn = FALSE
  /\ phase = "down" /\ plan \in Plans
  /\ known = Unset /\ objects = Unset /\ slots = Unset
  /\ done = {} /\ rowsDone = {} /\ committed = {} /\ conflicts = {}
  /\ run = 0 /\ faults = 0 /\ result = "none"

\* Mutant: the carried file is not read back.
ScanWithoutCarried(k) ==
  IF \E i \in DOMAIN store : store[i].key = k /\ ~IsCarried(k)
  THEN store[CHOOSE i \in DOMAIN store : store[i].key = k].object
  ELSE None

\* The receipt of a key that the files justify.
Scan(k) ==
  IF \E i \in DOMAIN store : store[i].key = k
  THEN store[CHOOSE i \in DOMAIN store : store[i].key = k].object
  ELSE None

\* Two ids for one key: the constructor refuses to choose.
Ambiguous ==
  \E i, j \in DOMAIN store : store[i].key = store[j].key /\ store[i].object # store[j].object

\* A target that cannot be read is refused like a foreign one.
MayOpen(p) ==
  /\ phase = "down" /\ run < MaxRuns
  /\ EvaluateClosureGate(p) /\ ~headless /\ ~Foreign(p) /\ ~Ambiguous

\* Mutant: a torn tail is left where it is.
OpenUnrepaired(p) ==
  /\ MayOpen(p)
  /\ plan' = p /\ run' = run + 1
  /\ phase' = "running"
  /\ known' = [k \in Keys |-> Scan(k)]
  /\ objects' = Unset /\ slots' = Unset
  /\ done' = {} /\ rowsDone' = {} /\ committed' = {} /\ conflicts' = {}
  /\ UNCHANGED <<files, faults, result>>

\* runMigrationApply up to the call of applyProjectionPlan: both guards, then the
\* plane is opened and a torn tail of the carried file cut off.
Open(p) ==
  /\ MayOpen(p)
  /\ plan' = p /\ run' = run + 1
  /\ phase' = IF torn THEN "noting" ELSE "running"
  /\ torn' = FALSE
  /\ known' = [k \in Keys |-> Scan(k)]
  /\ objects' = Unset /\ slots' = Unset
  /\ done' = {} /\ rowsDone' = {} /\ committed' = {} /\ conflicts' = {}
  /\ UNCHANGED <<store, rows, headless, audit, auditTorn, faults, result>>

\* An operator takes a segment without a header away.
RemoveSegment ==
  /\ phase = "down" /\ headless
  /\ headless' = FALSE
  /\ UNCHANGED <<store, torn, rows, audit, auditTorn, phase, plan, memory, run, faults, result>>

\* The note of the repair, after the tail is gone and before any record.
NoteRepair ==
  /\ phase = "noting" /\ phase' = "running"
  /\ AppendLine(EventOf("torn-tail"))
  /\ UNCHANGED <<store, torn, rows, headless, plan, memory, run, faults, result>>
-----------------------------------------------------------------------------
(* commitRecords *)

\* RecordKindOrder
Wave(k) ==
  CASE Kind[k] = "entity" -> 0
    [] Kind[k] \in {"absence", "provisional-block"} -> 1
    [] Kind[k] = "relationship" -> 2
    [] Kind[k] = "retraction" -> 3

\* Mutant: records are committed in the order of their keys.
BeforeByKey(j, k) == j < k

\* orderRecords
Before(j, k) == Wave(j) < Wave(k) \/ (Wave(j) = Wave(k) /\ j < k)

Due(k) ==
  /\ phase = "running"
  /\ k \in plan.records \ done
  /\ \A j \in plan.records \ done : j = k \/ Before(k, j)

\* Endpoints are looked up by slot, the target of a retraction by key.
Lookup(k, j) == IF Kind[k] = "relationship" THEN slots[j] ELSE objects[j]
Resolved(k) == \A j \in Refs[k] : Lookup(k, j) # None

Register(k, id) ==
  /\ objects' = [objects EXCEPT ![k] = id]
  /\ slots' = IF Kind[k] = "entity" THEN [slots EXCEPT ![k] = id] ELSE slots
  /\ done' = done \cup {k}

\* Mutant: a replayed entity does not put its slot into the plane.
ReplayWithoutSlot(k) ==
  /\ Due(k) /\ known[k] # None
  /\ objects' = [objects EXCEPT ![k] = known[k]]
  /\ done' = done \cup {k}
  /\ UNCHANGED <<files, phase, plan, known, slots, rowsDone, committed, conflicts, run, faults, result>>

\* Mutant: a replay is counted as a commit.
ReplayCounted(k) ==
  /\ Due(k) /\ known[k] # None
  /\ Register(k, known[k])
  /\ committed' = committed \cup {k}
  /\ UNCHANGED <<files, phase, plan, known, rowsDone, conflicts, run, faults, result>>

\* A key with a receipt is replayed from it.
Replay(k) ==
  /\ Due(k) /\ known[k] # None
  /\ Register(k, known[k])
  /\ UNCHANGED <<files, phase, plan, known, rowsDone, committed, conflicts, run, faults, result>>

Persist(k) ==
  store' = Append(store, [key |-> k, object |-> ObjectId(k),
                          refs |-> {[record |-> j, id |-> Lookup(k, j)] : j \in Refs[k]}])

\* Mutant: the id handed out before the commit is kept, not the receipt's.
CommittedDeferred(k) ==
  /\ Persist(k)
  /\ Register(k, ObjectId(k) + 1)
  /\ known' = [known EXCEPT ![k] = ObjectId(k)]
  /\ committed' = committed \cup {k}
  /\ UNCHANGED <<torn, rows, headless, audit, auditTorn, phase, plan, rowsDone, conflicts, run,
                 faults, result>>

\* Mint and commit: mintEntity writes an entity, sink.commit everything else.
Committed(k) ==
  /\ Persist(k)
  /\ Register(k, ObjectId(k))
  /\ known' = [known EXCEPT ![k] = ObjectId(k)]
  /\ committed' = committed \cup {k}
  /\ UNCHANGED <<torn, rows, headless, audit, auditTorn, phase, plan, rowsDone, conflicts, run,
                 faults, result>>

\* The catch clause: the aborted event is written if it can be, then the throw
\* goes on.
Abort ==
  /\ phase' = "down" /\ result' = "aborted"
  /\ AppendLine(EventOf("aborted")) \/ LineFails
  /\ UNCHANGED <<plan, memory, run>>

\* An endpoint or a retracted record that this run does not know is a throw.
Commit(k) ==
  /\ Due(k) /\ known[k] = None
  /\ IF Resolved(k) THEN Committed(k)
     ELSE Abort /\ UNCHANGED <<store, torn, rows, headless, faults>>

Fault == faults < MaxFaults /\ faults' = faults + 1

\* The append of a record throws: its bytes are there, in part, or not at all, and
\* a log that was about to begin a segment leaves it without a header.
CommitFails(k) ==
  /\ Due(k) /\ known[k] = None /\ Resolved(k)
  /\ Fault /\ Abort
  /\ \/ Persist(k) /\ UNCHANGED <<torn, headless>>
     \/ /\ IF IsCarried(k) THEN torn' \in BOOLEAN /\ UNCHANGED headless
           ELSE headless' \in BOOLEAN /\ UNCHANGED torn
        /\ UNCHANGED store
  /\ UNCHANGED rows
-----------------------------------------------------------------------------
(* writeAliasRows *)

AliasDue(l) ==
  /\ phase = "running" /\ plan.records \subseteq done
  /\ l \in DOMAIN plan.aliases \ rowsDone
  /\ \A m \in DOMAIN plan.aliases \ rowsDone : l <= m

\* plannedAliasTarget: {} is no-target, one id a redirect, more an ambiguous split.
Planned(l) ==
  IF \E k \in plan.aliases[l] : objects[k] = None THEN {}
  ELSE {objects[k] : k \in plan.aliases[l]}

ReuseRow(l) ==
  /\ AliasDue(l)
  /\ [old |-> l, to |-> Planned(l)] \in rows
  /\ rowsDone' = rowsDone \cup {l}
  /\ UNCHANGED <<files, phase, plan, known, objects, slots, done, committed, conflicts, run, faults, result>>

ConflictRow(l) ==
  /\ AliasDue(l)
  /\ \E r \in rows : r.old = l /\ r.to # Planned(l)
  /\ rowsDone' = rowsDone \cup {l}
  /\ conflicts' = conflicts \cup {l}
  /\ UNCHANGED <<files, phase, plan, known, objects, slots, done, committed, run, faults, result>>

\* A redirect reads back as an entity or an edge, and a split is between entities;
\* anything else is refused, which is a throw.  The projector plans no such row.
ReadsBack(l) ==
  \A k \in plan.aliases[l] :
    Kind[k] = "entity" \/ (Kind[k] = "relationship" /\ plan.aliases[l] = {k})

AppendRow(l) ==
  /\ AliasDue(l)
  /\ \A r \in rows : r.old # l
  /\ IF ReadsBack(l)
     THEN /\ rows' = rows \cup {[old |-> l, to |-> Planned(l)]}
          /\ rowsDone' = rowsDone \cup {l}
          /\ UNCHANGED <<audit, auditTorn, phase, plan, known, objects, slots,
                         done, committed, conflicts, run, result>>
     ELSE Abort /\ UNCHANGED rows
  /\ UNCHANGED <<store, torn, headless, faults>>

RowFails(l) ==
  /\ AliasDue(l) /\ ReadsBack(l)
  /\ \A r \in rows : r.old # l
  /\ Fault /\ Abort
  /\ \/ rows' = rows \cup {[old |-> l, to |-> Planned(l)]} /\ UNCHANGED headless
     \/ UNCHANGED rows /\ headless' \in BOOLEAN
  /\ UNCHANGED <<store, torn>>
-----------------------------------------------------------------------------
(* The end of a run: its event, and the reconciliation against the files.      *)

Class(k) ==
  CASE Kind[k] = "entity" -> "entities"
    [] Kind[k] = "absence" -> "empty_submissions"
    [] Kind[k] = "provisional-block" -> "provisional_blocks"
    [] Kind[k] = "relationship" -> "assertions"
    [] Kind[k] = "retraction" -> IF IsCarried(k) THEN "provisional_retractions" ELSE "assertions"

Census(c) == Cardinality({i \in DOMAIN store : Class(store[i].key) = c})
Expected(c) == Cardinality({k \in plan.records : Class(k) = c})

\* reconcileMigrationApply
Reconciled ==
  /\ \A c \in {Class(k) : k \in Keys} : Census(c) = Expected(c)
  /\ Cardinality(rows) = Cardinality(DOMAIN plan.aliases)

Finished ==
  /\ phase = "running" /\ plan.records \subseteq done /\ DOMAIN plan.aliases \subseteq rowsDone

\* Mutant: the event says what the run was hoping for.
FinishHopeful ==
  /\ Finished
  /\ phase' = "down"
  /\ AppendLine(EventOf("committed"))
  /\ result' = IF conflicts # {} THEN "alias-ledger-conflict"
               ELSE IF Reconciled THEN "completed" ELSE "reconciliation-mismatch"
  /\ UNCHANGED <<store, torn, rows, headless, plan, memory, run, faults>>

Finish ==
  /\ Finished
  /\ phase' = "down"
  /\ AppendLine(EventOf(IF conflicts # {} THEN "alias-ledger-conflict" ELSE "committed"))
  /\ result' = IF conflicts # {} THEN "alias-ledger-conflict"
               ELSE IF Reconciled THEN "completed" ELSE "reconciliation-mismatch"
  /\ UNCHANGED <<store, torn, rows, headless, plan, memory, run, faults>>

\* The event's own append throws, outside of the try.
FinishFails ==
  /\ Finished
  /\ Fault
  /\ phase' = "down" /\ result' = "aborted"
  /\ LineFails
  /\ UNCHANGED <<store, torn, rows, headless, plan, memory, run>>

\* The process dies.  An append it was in the middle of leaves half a line in the
\* carried or the audit file; the two logs cut theirs off themselves, but not a
\* segment they were about to begin.
Die ==
  /\ phase # "down"
  /\ Fault
  /\ phase' = "down" /\ result' = "died"
  /\ \/ UNCHANGED <<torn, headless, auditTorn>>
     \/ /\ \E k \in Keys : Due(k) /\ known[k] = None /\ IsCarried(k)
        /\ torn' = TRUE /\ UNCHANGED <<headless, auditTorn>>
     \/ /\ \/ \E k \in Keys : Due(k) /\ known[k] = None /\ ~IsCarried(k)
           \/ \E l \in Legacy : AliasDue(l) /\ ReadsBack(l) /\ \A r \in rows : r.old # l
        /\ headless' = TRUE /\ UNCHANGED <<torn, auditTorn>>
     \/ /\ Finished \/ phase = "noting"
        /\ auditTorn' = TRUE /\ UNCHANGED <<torn, headless>>
  /\ UNCHANGED <<store, rows, audit, plan, memory, run>>

\* It dies while a log of a new target creates its first segment.
OpenDies(p) ==
  /\ MayOpen(p) /\ store = <<>> /\ rows = {}
  /\ Fault
  /\ headless' = TRUE /\ run' = run + 1 /\ result' = "died"
  /\ UNCHANGED <<store, torn, rows, audit, auditTorn, phase, plan, memory>>
-----------------------------------------------------------------------------
Work ==
  \/ NoteRepair
  \/ \E k \in Keys : Replay(k) \/ Commit(k)
  \/ \E l \in Legacy : ReuseRow(l) \/ ConflictRow(l) \/ AppendRow(l)
  \/ Finish

Faults ==
  \/ \E k \in Keys : CommitFails(k)
  \/ \E l \in Legacy : RowFails(l)
  \/ FinishFails
  \/ Die
  \/ \E p \in Plans : OpenDies(p)

Next == (\E p \in Plans : Open(p)) \/ RemoveSegment \/ Work \/ Faults

Spec == Init /\ [][Next]_vars

\* A process that is not killed goes on, and the operator runs the command again and
\* removes a segment the command cannot read.
FairSpec ==
  Spec /\ WF_vars(Work) /\ WF_vars(\E p \in Plans : Open(p)) /\ WF_vars(RemoveSegment)
-----------------------------------------------------------------------------
(* Properties *)

\* The types of the state; a plane that is open has no torn tail in its carried file.
TypeOK ==
  /\ store \in Seq(Record) /\ rows \subseteq Row /\ audit \subseteq Event
  /\ torn \in BOOLEAN /\ headless \in BOOLEAN /\ auditTorn \in BOOLEAN
  /\ phase \in {"down", "noting", "running"} /\ plan \in Plans
  /\ known \in [Keys -> Int] /\ objects \in [Keys -> Int] /\ slots \in [Keys -> Int]
  /\ done \subseteq Keys /\ rowsDone \subseteq Legacy
  /\ committed \subseteq Keys /\ conflicts \subseteq Legacy
  /\ run \in Nat /\ faults \in Nat /\ result \in Results
  /\ phase # "down" => ~torn

\* "Applies a plan exactly once. Re-running is safe": however often runs die or
\* fail and are repeated, no key has two records and no legacy id two rows.
AppliedOnce ==
  /\ \A i, j \in DOMAIN store : store[i].key = store[j].key => i = j
  /\ \A r, s \in rows : r.old = s.old => r = s

\* Every edge names the entities its slots became, and every retraction what its
\* target became, and those were durable first; the ids come from this run's
\* commits and from receipts of earlier runs alike.
ReferencesHold ==
  \A i \in DOMAIN store : \A ref \in store[i].refs :
    \E h \in 1..(i - 1) : store[h].key = ref.record /\ store[h].object = ref.id

\* A resumed run never stops over its own past: the endpoints of every edge and the
\* target of every retraction are known when their turn comes.
NothingUnresolved ==
  \A k \in Keys : Due(k) /\ known[k] = None => Resolved(k)

InStore(k) == \E i \in DOMAIN store : store[i].key = k
HasObject(k, id) == \E i \in DOMAIN store : store[i].key = k /\ store[i].object = id

Complete(p) ==
  /\ \A k \in p.records : InStore(k)
  /\ \A l \in DOMAIN p.aliases : \E r \in rows :
       /\ r.old = l
       /\ \A k \in p.aliases[l] : \E id \in r.to : HasObject(k, id)
       /\ \A id \in r.to : \E k \in p.aliases[l] : HasObject(k, id)

\* An event that says committed is true for ever: every record of its plan is
\* durable, and every legacy id has the row its plan called for.
CommittedIsComplete == \A e \in audit : e.outcome = "committed" => Complete(e.plan)

\* No record is reported as committed by two runs, and none that is not there.
ReportedOnce ==
  \A e \in audit :
    /\ \A k \in e.committed : InStore(k)
    /\ \A f \in audit : e.run # f.run => e.committed \cap f.committed = {}

\* A run that applied its plan without a conflict also reconciles: resumes and the
\* foreign-store guard leave nothing in the files the plan did not call for.
AlwaysReconciles == result # "reconciliation-mismatch"

\* Sooner or later a run gets through: of what the faults of earlier runs leave
\* behind, nothing but a segment without a header stops every later one, and that
\* one stops them only until an operator has removed it.
Settles == <>(result \in {"completed", "alias-ledger-conflict"})
=============================================================================
