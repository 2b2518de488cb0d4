---------------------------- MODULE SyncAuthority ----------------------------
(* The cloud side of synchronisation for one authority: a request to accept a *)
(* batch goes through a sequencer (a Durable Object with its own SQL store),  *)
(* then through D1 and R2, with no transaction over the three; writes of the  *)
(* remote MCP tools go to D1 and R2 only.  A replica pulls what D1 calls      *)
(* committed.  Every await on another store is a step of its own.             *)
EXTENDS Naturals, FiniteSets

CONSTANTS
  Requests,        \* requests the worker has in flight at one time
  Ids,             \* batch ids; the idempotency key is a digest of the same seed
  Slots,           \* object versions, (object_ref, version), the key of sync_objects
  Carries,         \* batch id -> the object versions it carries
  MaxGeneration,   \* bound on generations
  RemoteWrites     \* do the remote MCP tools write to this authority?

ASSUME SyncAssumption ==
  /\ MaxGeneration \in Nat \ {0}
  /\ Carries \in [Ids -> SUBSET Slots]
  /\ RemoteWrites \in BOOLEAN

VARIABLES
  sequenced,  \* sync_authority_batches: the sequencer's batches and their state
  latest,     \* sync_authority_state.latest_generation
  rows,       \* D1, sync_batches
  envelopes,  \* R2: batches whose envelopes are stored
  objects,    \* D1, sync_objects
  request,    \* where each request is
  accepted,   \* history: batches some client was told are accepted
  abandoned,  \* history: batches whose request died with rows of theirs stored
  cursor,     \* a replica: its generation cursor
  through,    \* the page it is fetching reaches to this generation, 0 if none
  seen        \* the object versions it was given

stores == <<rows, envelopes, objects>>
history == <<accepted, abandoned>>
replica == <<cursor, through, seen>>
vars == <<sequenced, latest, rows, envelopes, objects, request, accepted,
          abandoned, cursor, through, seen>>
-----------------------------------------------------------------------------
Generations == 0..MaxGeneration

\* A batch is told apart by its id and by its hash, which covers the base.
Batch == [id : Ids, base : 0..(MaxGeneration - 1)]
Target(b) == b.base + 1

Statuses == {"staged", "committed"}
Row == [batch : Batch, status : Statuses]
Record(b, status) == [batch |-> b, status |-> status]

Steps == {"read", "stage", "commit", "fallback", "status",
          "insert", "put", "objects", "changes", "flip"}
Routes == {"sequencer", "direct"}
Idle == [at |-> "idle"]

\* left: the object versions whose row has not been written yet.
InFlight == [at : Steps, batch : Batch, route : Routes, left : SUBSET Slots]
Start(b, route) ==
  [at |-> "read", batch |-> b, route |-> route, left |-> Carries[b.id]]

Stored == [slot : Slots, id : Ids]

Committed == {w \in rows : w.status = "committed"}

\* readSyncStatus: the largest committed generation D1 knows, 0 if none.
IsLatest(g) ==
  /\ g = 0 \/ \E w \in Committed : Target(w.batch) = g
  /\ \A w \in Committed : Target(w.batch) <= g

Init ==
  /\ sequenced = {} /\ latest = 0
  /\ rows = {} /\ envelopes = {} /\ objects = {}
  /\ request = [r \in Requests |-> Idle]
  /\ accepted = {} /\ abandoned = {}
  /\ cursor = 0 /\ through = 0 /\ seen = {}
-----------------------------------------------------------------------------
(* Requests *)

At(r, step) == request[r].at = step
Goto(r, step) == request' = [request EXCEPT ![r] = [@ EXCEPT !.at = step]]

Reply(r) == request' = [request EXCEPT ![r] = Idle]
Accept(r) == Reply(r) /\ accepted' = accepted \cup {request[r].batch}
Refuse(r) == Reply(r) /\ UNCHANGED accepted

\* POST /api/sync/batch: any base, any batch again.
Push(r, b) ==
  /\ At(r, "idle")
  /\ request' = [request EXCEPT ![r] = Start(b, "sequencer")]
  /\ UNCHANGED <<sequenced, latest, stores, history, replica>>

\* A remote MCP tool builds its batch on the generation D1 reports.
RemoteWrite(r, id) ==
  /\ RemoteWrites /\ At(r, "idle")
  /\ \E g \in 0..(MaxGeneration - 1) :
       /\ IsLatest(g)
       /\ request' = [request EXCEPT ![r] = Start([id |-> id, base |-> g], "direct")]
  /\ UNCHANGED <<sequenced, latest, stores, history, replica>>

\* The request is storing a batch whose object rows may be there already.
Storing(r) == request[r].at \in {"objects", "changes", "flip"}

\* The worker or the store it calls fails; nobody is answered.
Crash(r) ==
  /\ ~At(r, "idle")
  /\ Refuse(r)
  /\ abandoned' = abandoned \cup (IF Storing(r) THEN {request[r].batch.id} ELSE {})
  /\ UNCHANGED <<sequenced, latest, stores, replica>>

\* readCommittedBatchByIdempotency answers a repeated batch, refuses a changed one.
ReadCommitted(r) ==
  /\ At(r, "read")
  /\ LET b == request[r].batch
         known == {w \in Committed : w.batch.id = b.id}
     IN IF known = {}
        THEN /\ Goto(r, IF request[r].route = "sequencer" THEN "stage" ELSE "status")
             /\ UNCHANGED accepted
        ELSE IF \E w \in known : w.batch = b THEN Accept(r) ELSE Refuse(r)
  /\ UNCHANGED <<sequenced, latest, stores, abandoned, replica>>
-----------------------------------------------------------------------------
(* The sequencer *)

Known(b) == {s \in sequenced : s.batch.id = b.id}
Staged == {s \in sequenced : s.status = "staged"}

\* Mutant: a staged batch counts as stored.
ReplayedTrusting(b) ==
  IF \E s \in Known(b) : s.batch # b THEN "batch-conflict" ELSE "committed"

\* A batch the sequencer knows under the same id or key is replayed.
Replayed(b) ==
  IF \E s \in Known(b) : s.batch # b THEN "batch-conflict"
  ELSE IF Record(b, "committed") \in sequenced THEN "committed" ELSE "staged"

\* Mutant: a batch is staged next to another.
StageOutcomeUnguarded(b) ==
  IF Known(b) # {} THEN Replayed(b)
  ELSE IF b.base < latest THEN "stale-generation"
  ELSE IF b.base > latest THEN "generation-gap"
  ELSE "stage"

\* stageBatch: a new batch must build on the latest generation and find no other
\* batch on its way there, or arrived.
StageOutcome(b) ==
  IF Known(b) # {} THEN Replayed(b)
  ELSE IF b.base < latest THEN "stale-generation"
  ELSE IF b.base > latest THEN "generation-gap"
  ELSE IF Staged # {}
       THEN IF \E s \in Staged : Target(s.batch) = Target(b)
            THEN "batch-in-flight" ELSE "generation-gap"
  ELSE IF \E s \in sequenced : Target(s.batch) = Target(b) THEN "batch-conflict"
  ELSE "stage"

\* commitBatch: a batch committed by now is replayed, and will be stored again.
CommitOutcome(b) ==
  IF Known(b) = {} THEN "batch-in-flight"
  ELSE IF Replayed(b) # "staged" THEN Replayed(b)
  ELSE IF b.base < latest THEN "stale-generation"
  ELSE IF b.base > latest THEN "generation-gap"
  ELSE "commit"

\* The worker takes a generation gap up itself; other refusals are answered.
Rejected(r, outcome) ==
  IF outcome = "generation-gap" THEN Goto(r, "fallback") /\ UNCHANGED accepted
                                ELSE Refuse(r)

Stage(r) ==
  /\ At(r, "stage")
  /\ LET b == request[r].batch
         outcome == StageOutcome(b)
     IN /\ sequenced' = IF outcome = "stage" THEN sequenced \cup {Record(b, "staged")}
                                             ELSE sequenced
        /\ IF outcome \in {"stage", "staged"} THEN Goto(r, "commit") /\ UNCHANGED accepted
           ELSE IF outcome = "committed" THEN Accept(r)
           ELSE Rejected(r, outcome)
  /\ UNCHANGED <<latest, stores, abandoned, replica>>

Commit(r) ==
  /\ At(r, "commit")
  /\ LET b == request[r].batch
         outcome == CommitOutcome(b)
     IN /\ IF outcome = "commit"
           THEN /\ sequenced' = (sequenced \ {Record(b, "staged")}) \cup {Record(b, "committed")}
                /\ latest' = Target(b)
           ELSE UNCHANGED <<sequenced, latest>>
        /\ IF outcome \in {"commit", "committed"}
           THEN Goto(r, "insert") /\ UNCHANGED accepted
           ELSE Rejected(r, outcome)
  /\ UNCHANGED <<stores, abandoned, replica>>

\* The sequencer is behind: if D1 is not, the worker goes on without it.
Fallback(r) ==
  /\ At(r, "fallback")
  /\ IF IsLatest(request[r].batch.base)
     THEN /\ request' = [request EXCEPT ![r] = Start(@.batch, "direct")]
          /\ UNCHANGED accepted
     ELSE Refuse(r)
  /\ UNCHANGED <<sequenced, latest, stores, abandoned, replica>>
-----------------------------------------------------------------------------
(* D1 and R2 *)

\* Without a sequencer the base is checked against D1, and then trusted.
Status(r) ==
  /\ At(r, "status")
  /\ IF IsLatest(request[r].batch.base)
     THEN Goto(r, "insert") /\ UNCHANGED accepted
     ELSE Refuse(r)
  /\ UNCHANGED <<sequenced, latest, stores, abandoned, replica>>

\* Mutant: INSERT OR REPLACE.
InsertReplace(r) ==
  /\ At(r, "insert")
  /\ rows' = {w \in rows : w.batch.id # request[r].batch.id}
               \cup {Record(request[r].batch, "staged")}
  /\ Goto(r, "put")
  /\ UNCHANGED <<sequenced, latest, envelopes, objects, history, replica>>

\* INSERT OR IGNORE: a row that is there stays, whatever it says.
Insert(r) ==
  /\ At(r, "insert")
  /\ LET b == request[r].batch
     IN rows' = IF \E w \in rows : w.batch.id = b.id
                THEN rows
                ELSE rows \cup {Record(b, "staged")}
  /\ Goto(r, "put")
  /\ UNCHANGED <<sequenced, latest, envelopes, objects, history, replica>>

\* The step behind the writes of a batch's object rows.
AfterRows(left) == IF left = {} THEN "changes" ELSE "objects"

\* Mutant: the puts are not awaited and may fail unnoticed.
PutUnawaited(r) ==
  /\ At(r, "put")
  /\ envelopes' \in {envelopes, envelopes \cup {request[r].batch.id}}
  /\ Goto(r, AfterRows(request[r].left))
  /\ UNCHANGED <<sequenced, latest, rows, objects, history, replica>>

\* The envelopes of a batch have keys of their own, for they hash its id.
Put(r) ==
  /\ At(r, "put")
  /\ envelopes' = envelopes \cup {request[r].batch.id}
  /\ Goto(r, AfterRows(request[r].left))
  /\ UNCHANGED <<sequenced, latest, rows, objects, history, replica>>

\* INSERT OR REPLACE under (object_ref, version), one row at a time: the row of
\* another batch that carried the same version is gone, committed or not.
StoreObject(r, s) ==
  /\ At(r, "objects") /\ s \in request[r].left
  /\ objects' = {o \in objects : o.slot # s}
                   \cup {[slot |-> s, id |-> request[r].batch.id]}
  /\ LET left == request[r].left \ {s}
     IN request' = [request EXCEPT ![r] = [@ EXCEPT !.at = AfterRows(left), !.left = left]]
  /\ UNCHANGED <<sequenced, latest, rows, envelopes, history, replica>>

\* sync_changes, of which the worker reads no more than a count.
StoreChanges(r) ==
  /\ At(r, "changes")
  /\ Goto(r, "flip")
  /\ UNCHANGED <<sequenced, latest, stores, history, replica>>

\* UPDATE ... WHERE batch_id = ? AND status = 'staged': the row keeps the
\* generation it was inserted with.
Flip(r) ==
  /\ At(r, "flip")
  /\ rows' = {IF w.batch.id = request[r].batch.id
              THEN Record(w.batch, "committed") ELSE w : w \in rows}
  /\ Accept(r)
  /\ UNCHANGED <<sequenced, latest, envelopes, objects, abandoned, replica>>
-----------------------------------------------------------------------------
(* A replica *)

Beyond == {w \in Committed : Target(w.batch) > cursor}

\* readSyncEnvelopePull, first query: whole batches, in order, up to a limit.
PullBatches(g) ==
  /\ through = 0
  /\ \E w \in Beyond : Target(w.batch) = g
  /\ through' = g
  /\ UNCHANGED <<sequenced, latest, stores, request, history, cursor, seen>>

\* Second query: the rows of batches committed by now in that range.
Served ==
  {o \in objects : \E w \in Beyond : w.batch.id = o.id /\ Target(w.batch) <= through}

\* A missing envelope fails the request.
PullObjects ==
  /\ through # 0
  /\ IF \A o \in Served : o.id \in envelopes
     THEN seen' = seen \cup {o.slot : o \in Served} /\ cursor' = through
     ELSE UNCHANGED <<seen, cursor>>
  /\ through' = 0
  /\ UNCHANGED <<sequenced, latest, stores, request, history>>
-----------------------------------------------------------------------------
Handle(r) ==
  \/ ReadCommitted(r) \/ Stage(r) \/ Commit(r) \/ Fallback(r) \/ Status(r)
  \/ Insert(r) \/ Put(r) \/ StoreChanges(r) \/ Flip(r)
  \/ \E s \in Slots : StoreObject(r, s)

Next ==
  \/ \E r \in Requests :
       \/ \E b \in Batch : Push(r, b)
       \/ \E id \in Ids : RemoteWrite(r, id)
       \/ Handle(r)
       \/ Crash(r)
  \/ \E g \in Generations : PullBatches(g)
  \/ PullObjects

Spec == Init /\ [][Next]_vars
-----------------------------------------------------------------------------
(* Correctness *)

\* Types, and the keys of the tables: a batch id has one row in the sequencer and
\* one in D1, an object version one.
TypeOK ==
  /\ sequenced \subseteq Row /\ rows \subseteq Row
  /\ \A s, t \in sequenced : s.batch.id = t.batch.id => s = t
  /\ \A v, w \in rows : v.batch.id = w.batch.id => v = w
  /\ \A o, p \in objects : o.slot = p.slot => o = p
  /\ latest \in Generations
  /\ envelopes \subseteq Ids /\ objects \subseteq Stored
  /\ request \in [Requests -> InFlight \cup {Idle}]
  /\ accepted \subseteq Batch /\ abandoned \subseteq Ids
  /\ cursor \in Generations /\ through \in Generations
  /\ seen \subseteq Slots

\* The sequencer's committed batches are one chain of generations, and at most
\* one batch is on its way to the next: whatever requests crash or repeat.
SequencerChain ==
  /\ \A s \in sequenced :
       IF s.status = "committed" THEN Target(s.batch) <= latest ELSE s.batch.base = latest
  /\ \A s, t \in sequenced : Target(s.batch) = Target(t.batch) => s = t
  /\ \A g \in 1..latest : \E s \in sequenced : Target(s.batch) = g

\* An object version that D1 once called committed is never without a row, and no
\* row is without its envelope ("Missing sync envelope R2 object").  The row may
\* have gone to another batch that carries the version again; readers then miss
\* the version until that batch is committed, and for good if its request dies.
VersionsStayStored ==
  /\ \A w \in Committed : \A s \in Carries[w.batch.id] : \E o \in objects : o.slot = s
  /\ \A o \in objects :
       /\ o.id \in envelopes
       /\ \/ \E w \in Committed : w.batch.id = o.id
          \/ \E r \in Requests : Storing(r) /\ request[r].batch.id = o.id
          \/ o.id \in abandoned

\* A batch that clients may have pulled never becomes uncommitted again, however
\* often requests for it are repeated or interleaved.
CommittedStays == [][Committed \subseteq {w \in rows' : w.status = "committed"}]_vars

\* An accepted batch is on record: the sequencer has committed it, or D1 serves
\* a batch of its id.
AcceptedIsRecorded ==
  \A b \in accepted :
    \/ Record(b, "committed") \in sequenced
    \/ \E w \in Committed : w.batch.id = b.id

\* A replica that reached a generation was given everything up to it ("A
\* successful remote MCP mutation ... immediately makes the changed generation
\* available to linked local replicas").
PullMissesNothing ==
  \A w \in Committed : Target(w.batch) <= cursor => Carries[w.batch.id] \subseteq seen
=============================================================================
