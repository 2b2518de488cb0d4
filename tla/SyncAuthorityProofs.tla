------------------------ MODULE SyncAuthorityProofs ------------------------
(* What holds of the sync authority for any number of requests and batches,  *)
(* whatever crashes, repeats or bypasses the sequencer.                      *)
EXTENDS SyncAuthority, TLAPS

HasRow(s) == \E o \in objects : o.slot = s

\* The stores a request has gone through by the time it is at a step.
Through(r) ==
  /\ request[r].at \in {"put", "objects", "changes", "flip"} =>
       \E w \in rows : w.batch.id = request[r].batch.id
  /\ Storing(r) => request[r].batch.id \in envelopes
  /\ request[r].at = "objects" =>
       \A s \in Carries[request[r].batch.id] \ request[r].left : HasRow(s)
  /\ request[r].at = "put" => request[r].left = Carries[request[r].batch.id]
  /\ request[r].at \in {"changes", "flip"} =>
       \A s \in Carries[request[r].batch.id] : HasRow(s)
  /\ request[r].at \in {"read", "stage", "commit", "fallback", "status", "insert"} =>
       request[r].left = Carries[request[r].batch.id]

Progress == \A r \in Requests : Through(r)

\* The batch that has the row of an object version.
Owned(id) ==
  /\ id \in envelopes
  /\ \/ \E w \in Committed : w.batch.id = id
     \/ \E r \in Requests : Storing(r) /\ request[r].batch.id = id
     \/ id \in abandoned

SyncInv ==
  TypeOK /\ SequencerChain /\ Progress /\ VersionsStayStored /\ AcceptedIsRecorded
-----------------------------------------------------------------------------
(* Requests *)

\* A request that is not idle carries a batch and a route.
LEMMA CarriesBatch ==
  ASSUME TypeOK, NEW r \in Requests, ~At(r, "idle")
  PROVE  request[r] \in InFlight
  BY DEF TypeOK, At, Idle

\* Moving a request on, or answering it, keeps the requests well formed.
LEMMA GotoType ==
  ASSUME TypeOK, NEW r \in Requests, ~At(r, "idle"), NEW step \in Steps, Goto(r, step)
  PROVE  request' \in [Requests -> InFlight \cup {Idle}]
  <1>1. request[r] \in InFlight
    BY CarriesBatch
  <1>2. [request[r] EXCEPT !.at = step] \in InFlight
    BY <1>1 DEF InFlight
  <1>. QED
    BY <1>2 DEF Goto, TypeOK

LEMMA ReplyType ==
  ASSUME TypeOK, NEW r \in Requests, Reply(r)
  PROVE  request' \in [Requests -> InFlight \cup {Idle}]
  BY DEF TypeOK, Reply

LEMMA StartType ==
  ASSUME NEW b \in Batch, NEW route \in Routes
  PROVE  Start(b, route) \in InFlight
  BY SyncAssumption DEF Start, InFlight, Steps, Batch

\* The target of a batch is a generation.
LEMMA TargetType ==
  ASSUME NEW b \in Batch
  PROVE  /\ Target(b) \in Generations \ {0}
         /\ b.base \in Generations
         /\ Target(b) = b.base + 1
  BY SyncAssumption DEF Batch, Target, Generations

\* What an answer or a move leaves of the variables a rejection touches.
LEMMA RejectedType ==
  ASSUME TypeOK, NEW r \in Requests, ~At(r, "idle"), NEW outcome, Rejected(r, outcome)
  PROVE  /\ request' \in [Requests -> InFlight \cup {Idle}]
         /\ accepted' = accepted
  <1>1. CASE outcome = "generation-gap"
    BY <1>1, GotoType DEF Rejected, Steps
  <1>2. CASE outcome # "generation-gap"
    BY <1>2, ReplyType DEF Rejected, Refuse
  <1>. QED
    BY <1>1, <1>2
-----------------------------------------------------------------------------
(* Types *)

LEMMA TypeInit == Init => TypeOK
  BY SyncAssumption DEF Init, TypeOK, Generations, Idle

LEMMA TypeStep ==
  ASSUME TypeOK, [Next]_vars
  PROVE  TypeOK'
  <1>. USE DEF replica, stores, history
  <1>1. ASSUME NEW r \in Requests, NEW b \in Batch, Push(r, b)
        PROVE  TypeOK'
    <2>1. Start(b, "sequencer") \in InFlight
      BY StartType DEF Routes
    <2>. QED
      BY <1>1, <2>1 DEF Push, TypeOK
  <1>2. ASSUME NEW r \in Requests, NEW id \in Ids, RemoteWrite(r, id)
        PROVE  TypeOK'
    <2>1. PICK g \in 0..(MaxGeneration - 1) :
            request' = [request EXCEPT ![r] = Start([id |-> id, base |-> g], "direct")]
      BY <1>2 DEF RemoteWrite
    <2>2. Start([id |-> id, base |-> g], "direct") \in InFlight
      BY StartType DEF Batch, Routes
    <2>. QED
      BY <1>2, <2>1, <2>2 DEF RemoteWrite, TypeOK
  <1>3. ASSUME NEW r \in Requests, Crash(r)
        PROVE  TypeOK'
    <2>1. request[r].batch.id \in Ids
      BY <1>3, CarriesBatch DEF Crash, InFlight, Batch
    <2>. QED
      BY <1>3, <2>1, ReplyType DEF Crash, Refuse, TypeOK
  <1>4. ASSUME NEW r \in Requests, ReadCommitted(r)
        PROVE  TypeOK'
    <2>1. request[r] \in InFlight /\ request[r].batch \in Batch /\ ~At(r, "idle")
      BY <1>4, CarriesBatch DEF ReadCommitted, At, InFlight
    <2>2. request' \in [Requests -> InFlight \cup {Idle}]
      BY <1>4, <2>1, GotoType, ReplyType DEF ReadCommitted, Accept, Refuse, Steps
    <2>3. accepted' \subseteq Batch
      BY <1>4, <2>1 DEF ReadCommitted, Accept, Refuse, TypeOK
    <2>. QED
      BY <1>4, <2>2, <2>3 DEF ReadCommitted, TypeOK
  <1>5. ASSUME NEW r \in Requests, Stage(r)
        PROVE  TypeOK'
    <2>. DEFINE b == request[r].batch
                outcome == StageOutcome(b)
    <2>1. request[r] \in InFlight /\ b \in Batch /\ ~At(r, "idle")
      BY <1>5, CarriesBatch DEF Stage, At, InFlight
    <2>2. /\ request' \in [Requests -> InFlight \cup {Idle}]
          /\ accepted' \subseteq Batch
      <3>1. CASE outcome \in {"stage", "staged"}
        BY <1>5, <2>1, <3>1, GotoType DEF Stage, Steps, TypeOK
      <3>2. CASE outcome = "committed"
        BY <1>5, <2>1, <3>2, ReplyType DEF Stage, Accept, TypeOK
      <3>3. CASE outcome \notin {"stage", "staged", "committed"}
        <4>1. Rejected(r, outcome)
          BY <1>5, <3>3 DEF Stage
        <4>. QED
          BY <4>1, <2>1, RejectedType DEF TypeOK
      <3>. QED
        BY <3>1, <3>2, <3>3
    <2>3. /\ sequenced' \subseteq Row
          /\ \A s, t \in sequenced' : s.batch.id = t.batch.id => s = t
      <3>1. CASE outcome = "stage"
        <4>1. sequenced' = sequenced \cup {Record(b, "staged")}
          BY <1>5, <3>1 DEF Stage
        <4>2. \A s \in sequenced : s.batch.id # b.id
          BY <3>1 DEF StageOutcome, Known, Replayed
        <4>. QED
          BY <4>1, <4>2, <2>1 DEF Record, Row, Statuses, TypeOK
      <3>2. CASE outcome # "stage"
        BY <1>5, <3>2 DEF Stage, TypeOK
      <3>. QED
        BY <3>1, <3>2
    <2>. QED
      BY <1>5, <2>2, <2>3 DEF Stage, TypeOK
  <1>6. ASSUME NEW r \in Requests, Commit(r)
        PROVE  TypeOK'
    <2>. DEFINE b == request[r].batch
                outcome == CommitOutcome(b)
    <2>1. request[r] \in InFlight /\ b \in Batch /\ ~At(r, "idle")
      BY <1>6, CarriesBatch DEF Commit, At, InFlight
    <2>2. /\ request' \in [Requests -> InFlight \cup {Idle}]
          /\ accepted' \subseteq Batch
      <3>1. CASE outcome \in {"commit", "committed"}
        BY <1>6, <2>1, <3>1, GotoType DEF Commit, Steps, TypeOK
      <3>2. CASE outcome \notin {"commit", "committed"}
        <4>1. Rejected(r, outcome)
          BY <1>6, <3>2 DEF Commit
        <4>. QED
          BY <4>1, <2>1, RejectedType DEF TypeOK
      <3>. QED
        BY <3>1, <3>2
    <2>3. /\ sequenced' \subseteq Row
          /\ \A s, t \in sequenced' : s.batch.id = t.batch.id => s = t
          /\ latest' \in Generations
      <3>1. CASE outcome = "commit"
        <4>1. /\ sequenced' = (sequenced \ {Record(b, "staged")}) \cup {Record(b, "committed")}
              /\ latest' = Target(b)
          BY <1>6, <3>1 DEF Commit
        <4>2. \A s \in sequenced : s.batch.id = b.id => s = Record(b, "staged")
          BY <3>1, <2>1 DEF CommitOutcome, Replayed, Known, Record, Row, Statuses, TypeOK
        <4>. QED
          BY <4>1, <4>2, <2>1, TargetType DEF Record, Row, Statuses, TypeOK
      <3>2. CASE outcome # "commit"
        BY <1>6, <3>2 DEF Commit, TypeOK
      <3>. QED
        BY <3>1, <3>2
    <2>. QED
      BY <1>6, <2>2, <2>3 DEF Commit, TypeOK
  <1>7. ASSUME NEW r \in Requests, Fallback(r)
        PROVE  TypeOK'
    <2>1. request[r] \in InFlight /\ ~At(r, "idle")
      BY <1>7, CarriesBatch DEF Fallback, At
    <2>2. Start(request[r].batch, "direct") \in InFlight
      BY <2>1, StartType DEF InFlight, Routes
    <2>3. request' \in [Requests -> InFlight \cup {Idle}]
      BY <1>7, <2>2, ReplyType DEF Fallback, Refuse, TypeOK
    <2>. QED
      BY <1>7, <2>3 DEF Fallback, Refuse, TypeOK
  <1>8. ASSUME NEW r \in Requests, Status(r)
        PROVE  TypeOK'
    <2>1. ~At(r, "idle")
      BY <1>8 DEF Status, At
    <2>2. request' \in [Requests -> InFlight \cup {Idle}]
      BY <1>8, <2>1, GotoType, ReplyType DEF Status, Refuse, Steps
    <2>. QED
      BY <1>8, <2>2 DEF Status, Refuse, TypeOK
  <1>9. ASSUME NEW r \in Requests, Insert(r)
        PROVE  TypeOK'
    <2>1. request[r] \in InFlight /\ request[r].batch \in Batch /\ ~At(r, "idle")
      BY <1>9, CarriesBatch DEF Insert, At, InFlight
    <2>2. request' \in [Requests -> InFlight \cup {Idle}]
      BY <1>9, <2>1, GotoType DEF Insert, Steps
    <2>3. /\ rows' \subseteq Row
          /\ \A v, w \in rows' : v.batch.id = w.batch.id => v = w
      BY <1>9, <2>1 DEF Insert, TypeOK, Row, Statuses, Record
    <2>. QED
      BY <1>9, <2>2, <2>3 DEF Insert, TypeOK
  <1>10. ASSUME NEW r \in Requests, Put(r) \/ StoreChanges(r)
         PROVE  TypeOK'
    <2>1. request[r] \in InFlight /\ request[r].batch.id \in Ids /\ ~At(r, "idle")
      BY <1>10, CarriesBatch DEF Put, StoreChanges, At, InFlight, Batch
    <2>2. request' \in [Requests -> InFlight \cup {Idle}]
      BY <1>10, <2>1, GotoType DEF Put, StoreChanges, Steps, AfterRows
    <2>. QED
      BY <1>10, <2>1, <2>2 DEF Put, StoreChanges, TypeOK
  <1>15. ASSUME NEW r \in Requests, NEW s \in Slots, StoreObject(r, s)
         PROVE  TypeOK'
    <2>1. request[r] \in InFlight /\ request[r].batch.id \in Ids
      BY <1>15, CarriesBatch DEF StoreObject, At, InFlight, Batch
    <2>2. [request[r] EXCEPT !.at = AfterRows(request[r].left \ {s}),
                             !.left = request[r].left \ {s}] \in InFlight
      BY <2>1 DEF InFlight, AfterRows, Steps
    <2>3. request' \in [Requests -> InFlight \cup {Idle}]
      BY <1>15, <2>2 DEF StoreObject, TypeOK
    <2>4. /\ objects' \subseteq Stored
          /\ \A o, p \in objects' : o.slot = p.slot => o = p
      BY <1>15, <2>1 DEF StoreObject, Stored, TypeOK
    <2>. QED
      BY <1>15, <2>3, <2>4 DEF StoreObject, TypeOK
  <1>11. ASSUME NEW r \in Requests, Flip(r)
         PROVE  TypeOK'
    <2>1. request[r] \in InFlight /\ request[r].batch \in Batch
      BY <1>11, CarriesBatch DEF Flip, At, InFlight
    <2>2. \A w \in Row : /\ Record(w.batch, "committed") \in Row
                         /\ Record(w.batch, "committed").batch = w.batch
      BY DEF Row, Statuses, Record
    <2>3. /\ rows' \subseteq Row
          /\ \A v, w \in rows' : v.batch.id = w.batch.id => v = w
      BY <1>11, <2>2 DEF Flip, TypeOK
    <2>. QED
      BY <1>11, <2>1, <2>3, ReplyType DEF Flip, Accept, TypeOK
  <1>12. ASSUME NEW g \in Generations, PullBatches(g)
         PROVE  TypeOK'
    BY <1>12 DEF PullBatches, TypeOK
  <1>13. ASSUME PullObjects
         PROVE  TypeOK'
    <2>1. {o.slot : o \in Served} \subseteq Slots
      BY DEF TypeOK, Served, Stored
    <2>. QED
      BY <1>13, <2>1, SyncAssumption DEF PullObjects, TypeOK, Generations
  <1>14. ASSUME UNCHANGED vars
         PROVE  TypeOK'
    BY <1>14 DEF vars, TypeOK
  <1>. QED
    BY <1>1, <1>2, <1>3, <1>4, <1>5, <1>6, <1>7, <1>8, <1>9, <1>10, <1>11, <1>12,
       <1>13, <1>14, <1>15 DEF Next, Handle
-----------------------------------------------------------------------------
(* The sequencer *)

LEMMA ChainStep ==
  ASSUME TypeOK, SequencerChain, [Next]_vars
  PROVE  SequencerChain'
  <1>1. ASSUME NEW r \in Requests, Stage(r)
        PROVE  SequencerChain'
    <2>. DEFINE b == request[r].batch
    <2>1. request[r] \in InFlight /\ b \in Batch
      BY <1>1, CarriesBatch DEF Stage, At, InFlight
    <2>2. CASE StageOutcome(b) = "stage"
      <3>1. sequenced' = sequenced \cup {Record(b, "staged")} /\ latest' = latest
        BY <1>1, <2>2 DEF Stage
      <3>2. /\ ~(b.base < latest) /\ ~(b.base > latest)
            /\ \A s \in sequenced : Target(s.batch) # Target(b)
        BY <2>2 DEF StageOutcome, Replayed
      <3>3. b.base = latest
        BY <3>2, <2>1, TargetType DEF TypeOK, Generations
      <3>. QED
        BY <3>1, <3>2, <3>3 DEF SequencerChain, Record
    <2>3. CASE StageOutcome(b) # "stage"
      BY <1>1, <2>3 DEF Stage, SequencerChain
    <2>. QED
      BY <2>2, <2>3
  <1>2. ASSUME NEW r \in Requests, Commit(r)
        PROVE  SequencerChain'
    <2>. DEFINE b == request[r].batch
                old == Record(b, "staged")
                new == Record(b, "committed")
    <2>1. request[r] \in InFlight /\ b \in Batch
      BY <1>2, CarriesBatch DEF Commit, At, InFlight
    <2>2. CASE CommitOutcome(b) = "commit"
      <3>1. sequenced' = (sequenced \ {old}) \cup {new} /\ latest' = Target(b)
        BY <1>2, <2>2 DEF Commit
      <3>2. old \in sequenced
        BY <2>2 DEF CommitOutcome, Replayed, Known, Record, TypeOK, Row, Statuses
      <3>3. b.base = latest /\ Target(b) = latest + 1 /\ latest \in Nat
        BY <3>2, <2>1, TargetType DEF SequencerChain, Record, TypeOK, Generations
      <3>4. \A s \in sequenced : s # old => s.status = "committed"
        <4>. SUFFICES ASSUME NEW s \in sequenced, s # old, s.status # "committed"
                      PROVE  FALSE
          OBVIOUS
        <4>1. s.batch.base = latest
          BY DEF SequencerChain
        <4>2. Target(s.batch) = Target(old.batch)
          BY <4>1, <3>3 DEF Target, Record
        <4>. QED
          BY <4>2, <3>2 DEF SequencerChain
      <3>5. \A s \in sequenced : s # old => /\ Target(s.batch) \in Nat
                                          /\ Target(s.batch) <= latest
                                          /\ Target(s.batch) # Target(b)
        <4>. SUFFICES ASSUME NEW s \in sequenced, s # old
                      PROVE  /\ Target(s.batch) \in Nat
                             /\ Target(s.batch) <= latest
                             /\ Target(s.batch) # Target(b)
          OBVIOUS
        <4>1. s.batch \in Batch
          BY DEF TypeOK, Row
        <4>2. Target(s.batch) \in Nat
          BY <4>1, TargetType DEF Generations
        <4>3. Target(s.batch) <= latest
          BY <3>4 DEF SequencerChain
        <4>. QED
          BY <4>2, <4>3, <3>3
      <3>6. new.batch = b /\ old.batch = b /\ new.status = "committed"
        BY DEF Record
      <3>7. \A s \in sequenced' :
              IF s.status = "committed" THEN Target(s.batch) <= latest' ELSE s.batch.base = latest'
        <4>. SUFFICES ASSUME NEW s \in sequenced'
                      PROVE  s.status = "committed" /\ Target(s.batch) <= latest'
          OBVIOUS
        <4>1. CASE s = new
          BY <4>1, <3>1, <3>3, <3>6
        <4>2. CASE s # new
          <5>1. s \in sequenced /\ s # old
            BY <4>2, <3>1
          <5>2. s.status = "committed" /\ Target(s.batch) \in Nat /\ Target(s.batch) <= latest
            BY <5>1, <3>4, <3>5
          <5>. QED
            BY <5>2, <3>1, <3>3
        <4>. QED
          BY <4>1, <4>2
      <3>8. \A s, t \in sequenced' : Target(s.batch) = Target(t.batch) => s = t
        BY <3>1, <3>5, <3>6 DEF SequencerChain
      <3>9. \A g \in 1..latest' : \E s \in sequenced' : Target(s.batch) = g
        <4>. SUFFICES ASSUME NEW g \in 1..latest'
                      PROVE  \E s \in sequenced' : Target(s.batch) = g
          OBVIOUS
        <4>1. CASE g = Target(b)
          BY <4>1, <3>1, <3>6
        <4>2. CASE g # Target(b)
          <5>1. g \in 1..latest
            BY <4>2, <3>1, <3>3
          <5>2. PICK s \in sequenced : Target(s.batch) = g
            BY <5>1 DEF SequencerChain
          <5>3. s # old
            BY <5>2, <4>2, <3>6
          <5>. QED
            BY <5>2, <5>3, <3>1
        <4>. QED
          BY <4>1, <4>2
      <3>. QED
        BY <3>7, <3>8, <3>9 DEF SequencerChain
    <2>3. CASE CommitOutcome(b) # "commit"
      BY <1>2, <2>3 DEF Commit, SequencerChain
    <2>. QED
      BY <2>2, <2>3
  <1>3. ASSUME sequenced' = sequenced, latest' = latest
        PROVE  SequencerChain'
    BY <1>3 DEF SequencerChain
  <1>. QED
    BY <1>1, <1>2, <1>3 DEF Next, Handle, Push, RemoteWrite, Crash, ReadCommitted, Fallback,
       Status, Insert, Put, StoreObject, StoreChanges, Flip, PullBatches, PullObjects, vars
-----------------------------------------------------------------------------
(* D1 and R2 *)

\* The version a request has just stored has a row.
LEMMA StoredRow ==
  ASSUME NEW r \in Requests, NEW s \in Slots, StoreObject(r, s)
  PROVE  HasRow(s)'
  <1>. DEFINE new == [slot |-> s, id |-> request[r].batch.id]
  <1>1. new \in objects'
    BY DEF StoreObject
  <1>2. new.slot = s
    OBVIOUS
  <1>. QED
    BY <1>1, <1>2 DEF HasRow

\* No step takes anything back: rows stay, committed ones as they are, and what
\* is stored or committed by the sequencer stays so.
LEMMA Kept ==
  ASSUME TypeOK, [Next]_vars
  PROVE  /\ envelopes \subseteq envelopes' /\ abandoned \subseteq abandoned'
         /\ \A s : HasRow(s) => HasRow(s)'
         /\ \A w \in rows : \E v \in rows' : v.batch = w.batch
         /\ Committed \subseteq Committed'
         /\ \A b \in Batch : Record(b, "committed") \in sequenced
                             => Record(b, "committed") \in sequenced'
  <1>. USE DEF Committed, stores
  <1>1. ASSUME NEW r \in Requests, Insert(r)
        PROVE  rows \subseteq rows'
    BY <1>1 DEF Insert
  <1>2. ASSUME NEW r \in Requests, Flip(r)
        PROVE  /\ \A w \in rows : \E v \in rows' : v.batch = w.batch
               /\ Committed \subseteq rows'
    <2>1. \A w \in Row : w.status = "committed" => Record(w.batch, "committed") = w
      BY DEF Row, Record
    <2>2. \A w \in Committed : Record(w.batch, "committed") = w
      BY <2>1 DEF TypeOK
    <2>3. \A w \in rows : Record(w.batch, "committed").batch = w.batch
      BY DEF Record
    <2>. QED
      BY <1>2, <2>2, <2>3 DEF Flip
  <1>3. ASSUME NEW r \in Requests, Stage(r) \/ Commit(r)
        PROVE  \A b \in Batch : Record(b, "committed") \in sequenced
                               => Record(b, "committed") \in sequenced'
    BY <1>3 DEF Stage, Commit, Record
  <1>4. \/ \E r \in Requests : Insert(r)
        \/ \E r \in Requests : Flip(r)
        \/ rows' = rows
    BY DEF Next, Handle, Push, RemoteWrite, Crash, ReadCommitted, Stage, Commit, Fallback,
       Status, Put, StoreObject, StoreChanges, PullBatches, PullObjects, vars
  <1>5. \/ \E r \in Requests : Stage(r) \/ Commit(r)
        \/ sequenced' = sequenced
    BY DEF Next, Handle, Push, RemoteWrite, Crash, ReadCommitted, Fallback, Status, Insert,
       Put, StoreObject, StoreChanges, Flip, PullBatches, PullObjects, vars
  <1>6. envelopes \subseteq envelopes' /\ abandoned \subseteq abandoned'
    BY DEF Next, Handle, Push, RemoteWrite, Crash, ReadCommitted, Stage, Commit, Fallback,
       Status, Insert, Put, StoreObject, StoreChanges, Flip, PullBatches, PullObjects, vars,
       history
  <1>7. \/ \E r \in Requests, s \in Slots : StoreObject(r, s)
        \/ objects' = objects
    BY DEF Next, Handle, Push, RemoteWrite, Crash, ReadCommitted, Stage, Commit, Fallback,
       Status, Insert, Put, StoreChanges, Flip, PullBatches, PullObjects, vars
  <1>8. ASSUME NEW s, HasRow(s)
        PROVE  HasRow(s)'
    <2>1. CASE objects' = objects
      BY <1>8, <2>1 DEF HasRow
    <2>2. ASSUME NEW r \in Requests, NEW t \in Slots, StoreObject(r, t)
          PROVE  HasRow(s)'
      <3>1. PICK o \in objects : o.slot = s
        BY <1>8 DEF HasRow
      <3>2. CASE s = t
        BY <2>2, <3>2, StoredRow
      <3>3. CASE s # t
        <4>1. o \in objects'
          BY <2>2, <3>1, <3>3 DEF StoreObject
        <4>. QED
          BY <3>1, <4>1 DEF HasRow
      <3>. QED
        BY <3>2, <3>3
    <2>. QED
      BY <1>7, <2>1, <2>2
  <1>. QED
    BY <1>1, <1>2, <1>3, <1>4, <1>5, <1>6, <1>8

\* The only step that makes a row committed is the last one of its request.
LEMMA OnlyFlipCommits ==
  ASSUME [Next]_vars, NEW w \in Committed', w \notin Committed
  PROVE  \E r \in Requests : Flip(r) /\ w.batch.id = request[r].batch.id
  <1>1. \/ \E r \in Requests : Insert(r)
        \/ \E r \in Requests : Flip(r)
        \/ rows' = rows
    BY DEF Next, Handle, Push, RemoteWrite, Crash, ReadCommitted, Stage, Commit, Fallback,
       Status, Put, StoreObject, StoreChanges, PullBatches, PullObjects, vars, stores
  <1>2. ~\E r \in Requests : Insert(r)
    BY DEF Insert, Committed, Record
  <1>3. PICK r \in Requests : Flip(r)
    BY <1>1, <1>2 DEF Committed
  <1>4. w.batch.id = request[r].batch.id
    BY <1>3 DEF Flip, Committed, Record
  <1>. QED
    BY <1>3, <1>4

\* Answering a request or moving it to a step, as the others stay where they are.
LEMMA Moves ==
  ASSUME TypeOK, NEW r \in Requests, NEW q \in Requests
  PROVE  /\ Reply(r) => request'[q] = IF q = r THEN Idle ELSE request[q]
         /\ \A step : Goto(r, step) =>
              IF q = r THEN request'[q] = [request[q] EXCEPT !.at = step]
                       ELSE request'[q] = request[q]
         /\ \A step : Goto(r, step) /\ ~At(r, "idle") =>
              /\ request'[r].at = step /\ request'[r].batch = request[r].batch
              /\ request'[r].left = request[r].left
  <1>1. /\ Reply(r) => request'[q] = IF q = r THEN Idle ELSE request[q]
        /\ \A step : Goto(r, step) =>
             IF q = r THEN request'[q] = [request[q] EXCEPT !.at = step]
                      ELSE request'[q] = request[q]
    BY DEF TypeOK, Reply, Goto
  <1>2. ASSUME NEW step, Goto(r, step), ~At(r, "idle")
        PROVE  /\ request'[r].at = step /\ request'[r].batch = request[r].batch
               /\ request'[r].left = request[r].left
    <2>1. request[r] \in InFlight
      BY <1>2, CarriesBatch DEF At
    <2>2. request'[r] = [request[r] EXCEPT !.at = step]
      BY <1>2 DEF TypeOK, Goto
    <2>. QED
      BY <2>1, <2>2 DEF InFlight
  <1>. QED
    BY <1>1, <1>2

LEMMA ProgressStep ==
  ASSUME TypeOK, Progress, [Next]_vars
  PROVE  Progress'
  <1>. SUFFICES ASSUME NEW q \in Requests
                PROVE  Through(q)'
    BY DEF Progress
  <1>1. Through(q)
    BY DEF Progress
  <1>2. ASSUME request'[q] = request[q]
        PROVE  Through(q)'
    BY <1>1, <1>2, Kept DEF Through, Storing
  <1>3. ASSUME request'[q].at = "idle"
        PROVE  Through(q)'
    BY <1>3 DEF Through, Storing
  <1>4. CASE Insert(q)
    <2>1. /\ request'[q].at = "put" /\ request'[q].batch = request[q].batch
          /\ request'[q].left = request[q].left
      BY <1>4, Moves DEF Insert, At
    <2>3. request[q].left = Carries[request[q].batch.id]
      BY <1>1, <1>4 DEF Insert, At, Through
    <2>2. \E w \in rows' : w.batch.id = request[q].batch.id
      <3>. DEFINE new == Record(request[q].batch, "staged")
      <3>1. new.batch = request[q].batch
        BY DEF Record
      <3>2. rows' = IF \E w \in rows : w.batch.id = request[q].batch.id
                    THEN rows ELSE rows \cup {new}
        BY <1>4 DEF Insert
      <3>3. CASE \E w \in rows : w.batch.id = request[q].batch.id
        BY <3>2, <3>3
      <3>4. CASE ~\E w \in rows : w.batch.id = request[q].batch.id
        <4>1. new \in rows'
          BY <3>2, <3>4
        <4>. QED
          BY <4>1, <3>1
      <3>. QED
        BY <3>3, <3>4
    <2>. QED
      BY <2>1, <2>2, <2>3 DEF Through, Storing
  <1>5. CASE Put(q)
    <2>1. /\ request'[q].at = AfterRows(request[q].left)
          /\ request'[q].batch = request[q].batch /\ request'[q].left = request[q].left
      BY <1>5, Moves DEF Put, At
    <2>2. /\ rows' = rows /\ objects' = objects /\ request[q].batch.id \in envelopes'
          /\ request[q].at = "put"
      BY <1>5 DEF Put, At
    <2>3. request[q].left = Carries[request[q].batch.id]
      BY <1>1, <2>2 DEF Through
    <2>. QED
      BY <1>1, <2>1, <2>2, <2>3 DEF Through, Storing, AfterRows
  <1>6. ASSUME NEW s \in Slots, StoreObject(q, s)
        PROVE  Through(q)'
    <2>1. request[q] \in InFlight
      BY <1>6, CarriesBatch DEF StoreObject, At
    <2>2. /\ request'[q].at = AfterRows(request[q].left \ {s})
          /\ request'[q].batch = request[q].batch
          /\ request'[q].left = request[q].left \ {s}
      BY <1>6, <2>1 DEF StoreObject, InFlight, TypeOK
    <2>3. /\ rows' = rows /\ envelopes' = envelopes /\ request[q].at = "objects"
      BY <1>6 DEF StoreObject, At
    <2>4. HasRow(s)'
      BY <1>6, StoredRow
    <2>5. \A t \in Carries[request[q].batch.id] \ (request[q].left \ {s}) : HasRow(t)'
      BY <1>1, <2>3, <2>4, Kept DEF Through
    <2>. QED
      BY <1>1, <2>2, <2>3, <2>5 DEF Through, Storing, AfterRows
  <1>7. CASE StoreChanges(q)
    <2>1. request'[q].at = "flip" /\ request'[q].batch = request[q].batch
      BY <1>7, Moves DEF StoreChanges, At
    <2>2. /\ rows' = rows /\ envelopes' = envelopes /\ objects' = objects
          /\ request[q].at = "changes"
      BY <1>7 DEF StoreChanges, At, stores
    <2>. QED
      BY <1>1, <2>1, <2>2 DEF Through, Storing, HasRow
  <1>8. ASSUME NEW r \in Requests, r # q,
               \/ Insert(r) \/ Put(r) \/ StoreChanges(r)
               \/ \E s \in Slots : StoreObject(r, s)
        PROVE  Through(q)'
    BY <1>2, <1>8, Moves DEF Insert, Put, StoreObject, StoreChanges, TypeOK
  <1>9. ASSUME NEW r \in Requests,
               ReadCommitted(r) \/ Stage(r) \/ Commit(r) \/ Status(r) \/ Flip(r) \/ Crash(r)
        PROVE  Through(q)'
    <2>1. \/ Reply(r)
          \/ /\ \E step \in {"stage", "status", "commit", "insert", "fallback"} : Goto(r, step)
             /\ request[r].at \in {"read", "stage", "commit", "status"}
      BY <1>9 DEF ReadCommitted, Stage, Commit, Status, Flip, Crash, Accept, Refuse,
         Rejected, At
    <2>2. CASE Reply(r)
      BY <1>2, <1>3, <2>2, Moves DEF Idle
    <2>3. ASSUME NEW step \in {"stage", "status", "commit", "insert", "fallback"},
                 Goto(r, step), request[r].at \in {"read", "stage", "commit", "status"}
          PROVE  Through(q)'
      <3>1. CASE q # r
        BY <1>2, <2>3, <3>1, Moves
      <3>2. CASE q = r
        <4>1. /\ request'[q].at = step /\ request'[q].batch = request[q].batch
              /\ request'[q].left = request[q].left
          BY <2>3, <3>2, Moves DEF At
        <4>2. request[q].left = Carries[request[q].batch.id]
          BY <1>1, <2>3, <3>2 DEF Through
        <4>. QED
          BY <2>3, <4>1, <4>2 DEF Through, Storing
      <3>. QED
        BY <3>1, <3>2
    <2>. QED
      BY <2>1, <2>2, <2>3
  <1>10. ASSUME NEW r \in Requests,
                Fallback(r) \/ (\E b \in Batch : Push(r, b)) \/ (\E id \in Ids : RemoteWrite(r, id))
         PROVE  Through(q)'
    <2>1. \/ Reply(r)
          \/ \E b, route : request' = [request EXCEPT ![r] = Start(b, route)]
      BY <1>10 DEF Fallback, Push, RemoteWrite, Refuse
    <2>2. CASE Reply(r)
      BY <1>2, <1>3, <2>2, Moves DEF Idle
    <2>3. ASSUME NEW b, NEW route, request' = [request EXCEPT ![r] = Start(b, route)]
          PROVE  Through(q)'
      <3>1. CASE q # r
        BY <1>2, <2>3, <3>1 DEF TypeOK
      <3>2. CASE q = r
        <4>1. request'[q] = Start(b, route)
          BY <2>3, <3>2 DEF TypeOK
        <4>. QED
          BY <4>1 DEF Through, Storing, Start
      <3>. QED
        BY <3>1, <3>2
    <2>. QED
      BY <2>1, <2>2, <2>3
  <1>11. ASSUME (\E g \in Generations : PullBatches(g)) \/ PullObjects \/ UNCHANGED vars
         PROVE  Through(q)'
    BY <1>2, <1>11 DEF PullBatches, PullObjects, vars
  <1>. QED
    BY <1>4, <1>5, <1>6, <1>7, <1>8, <1>9, <1>10, <1>11 DEF Next, Handle

\* Whoever is storing a batch goes on storing it, commits it, or dies and abandons it.
LEMMA StoringEnds ==
  ASSUME TypeOK, Progress, [Next]_vars, NEW r \in Requests, Storing(r)
  PROVE  LET id == request[r].batch.id
         IN  \/ Storing(r)' /\ request'[r].batch = request[r].batch
             \/ \E w \in Committed' : w.batch.id = id
             \/ id \in abandoned'
  <1>1. CASE request'[r] = request[r]
    BY <1>1 DEF Storing
  <1>2. CASE StoreChanges(r)
    BY <1>2, Moves DEF StoreChanges, Storing, At
  <1>3. ASSUME NEW s \in Slots, StoreObject(r, s)
        PROVE  Storing(r)' /\ request'[r].batch = request[r].batch
    <2>1. request[r] \in InFlight
      BY <1>3, CarriesBatch DEF StoreObject, At
    <2>. QED
      BY <1>3, <2>1 DEF StoreObject, Storing, AfterRows, InFlight, TypeOK
  <1>4. CASE Crash(r)
    BY <1>4 DEF Crash
  <1>5. CASE Flip(r)
    <2>1. PICK w \in rows : w.batch.id = request[r].batch.id
      BY <1>5 DEF Flip, At, Progress, Through
    <2>2. Record(w.batch, "committed") \in rows'
      BY <1>5, <2>1 DEF Flip
    <2>. QED
      BY <2>1, <2>2 DEF Committed, Record
  <1>6. ASSUME NEW q \in Requests, q # r,
               \/ Handle(q) \/ Crash(q)
               \/ (\E b \in Batch : Push(q, b)) \/ (\E id \in Ids : RemoteWrite(q, id))
        PROVE  request'[r] = request[r]
    BY <1>6 DEF Handle, Crash, Push, RemoteWrite, ReadCommitted, Stage, Commit, Fallback,
       Status, Insert, Put, StoreObject, StoreChanges, Flip, Accept, Refuse, Rejected, Reply,
       Goto, TypeOK
  <1>7. \/ StoreChanges(r) \/ (\E s \in Slots : StoreObject(r, s)) \/ Crash(r) \/ Flip(r)
        \/ \E q \in Requests \ {r} :
             \/ Handle(q) \/ Crash(q)
             \/ (\E b \in Batch : Push(q, b)) \/ (\E id \in Ids : RemoteWrite(q, id))
        \/ request' = request
    BY DEF Next, Handle, Storing, At, Push, RemoteWrite, ReadCommitted, Stage, Commit,
       Fallback, Status, Insert, Put, PullBatches, PullObjects, vars
  <1>. QED
    BY <1>1, <1>2, <1>3, <1>4, <1>5, <1>6, <1>7

\* A batch that has a row keeps its envelope, and an excuse if it is not shown.
LEMMA OwnedStep ==
  ASSUME TypeOK, Progress, [Next]_vars, NEW id, Owned(id)
  PROVE  Owned(id)'
  <1>1. id \in envelopes'
    BY Kept DEF Owned
  <1>2. CASE id \in abandoned \/ \E w \in Committed : w.batch.id = id
    BY <1>1, <1>2, Kept DEF Owned
  <1>3. ASSUME NEW r \in Requests, Storing(r), request[r].batch.id = id
        PROVE  Owned(id)'
    BY <1>1, <1>3, StoringEnds DEF Owned
  <1>. QED
    BY <1>2, <1>3 DEF Owned

LEMMA StoredStep ==
  ASSUME TypeOK, Progress, VersionsStayStored, [Next]_vars
  PROVE  VersionsStayStored'
  <1>1. ASSUME NEW w \in Committed', NEW s \in Carries[w.batch.id]
        PROVE  HasRow(s)'
    <2>1. CASE w \in Committed
      BY <2>1, Kept DEF VersionsStayStored, HasRow
    <2>2. CASE w \notin Committed
      <3>1. PICK r \in Requests : Flip(r) /\ w.batch.id = request[r].batch.id
        BY <2>2, OnlyFlipCommits
      <3>2. HasRow(s)
        BY <3>1 DEF Flip, At, Progress, Through
      <3>. QED
        BY <3>2, Kept
    <2>. QED
      BY <2>1, <2>2
  <1>2. ASSUME NEW o \in objects'
        PROVE  Owned(o.id)'
    <2>1. CASE o \in objects
      <3>1. Owned(o.id)
        BY <2>1 DEF VersionsStayStored, Owned
      <3>. QED
        BY <3>1, OwnedStep
    <2>2. CASE o \notin objects
      <3>1. PICK r \in Requests, s \in Slots : StoreObject(r, s)
        BY <2>2 DEF Next, Handle, Push, RemoteWrite, Crash, ReadCommitted, Stage, Commit,
           Fallback, Status, Insert, Put, StoreChanges, Flip, PullBatches, PullObjects, vars,
           stores
      <3>2. Storing(r) /\ o.id = request[r].batch.id
        BY <2>2, <3>1 DEF StoreObject, Storing, At
      <3>3. Owned(o.id)
        BY <3>2 DEF Owned, Progress, Through
      <3>. QED
        BY <3>3, OwnedStep
    <2>. QED
      BY <2>1, <2>2
  <1>. QED
    BY <1>1, <1>2 DEF VersionsStayStored, HasRow, Owned

LEMMA RecordedStep ==
  ASSUME TypeOK, Progress, AcceptedIsRecorded, [Next]_vars
  PROVE  AcceptedIsRecorded'
  <1>. DEFINE OnRecord(b) == \/ Record(b, "committed") \in sequenced
                             \/ \E w \in Committed : w.batch.id = b.id
  <1>1. ASSUME NEW b \in Batch, OnRecord(b)
        PROVE  OnRecord(b)'
    BY <1>1, Kept
  <1>2. ASSUME NEW b \in accepted', b \notin accepted
        PROVE  b \in Batch /\ OnRecord(b)'
    <2>1. \E r \in Requests : /\ Accept(r) /\ b = request[r].batch
                              /\ ReadCommitted(r) \/ Stage(r) \/ Flip(r)
      BY <1>2 DEF Next, Handle, Push, RemoteWrite, Crash, ReadCommitted, Stage, Commit,
         Fallback, Status, Insert, Put, StoreObject, StoreChanges, Flip, PullBatches,
         PullObjects, vars, history, Accept, Refuse, Rejected
    <2>2. PICK r \in Requests : /\ Accept(r) /\ b = request[r].batch
                                /\ ReadCommitted(r) \/ Stage(r) \/ Flip(r)
      BY <2>1
    <2>3. request[r] \in InFlight /\ b \in Batch
      BY <2>2, CarriesBatch DEF ReadCommitted, Stage, Flip, At, InFlight
    <2>4. CASE ReadCommitted(r)
      <3>1. \E w \in Committed : w.batch.id = b.id
        BY <1>2, <2>2, <2>4 DEF ReadCommitted, Refuse
      <3>. QED
        BY <3>1, <2>3, <1>1
    <2>5. CASE Stage(r)
      <3>1. StageOutcome(b) = "committed"
        BY <1>2, <2>2, <2>5 DEF Stage, Rejected, Refuse
      <3>2. Record(b, "committed") \in sequenced
        BY <3>1 DEF StageOutcome, Replayed
      <3>. QED
        BY <3>2, <2>3, <1>1
    <2>6. CASE Flip(r)
      <3>1. request[r].at = "flip" /\ request[r].batch = b
        BY <2>2, <2>6 DEF Flip, At
      <3>2. \E w \in rows : w.batch.id = request[r].batch.id
        BY <3>1 DEF Progress, Through
      <3>3. PICK w \in rows : w.batch.id = request[r].batch.id
        BY <3>2
      <3>4. Record(w.batch, "committed") \in rows'
        BY <2>6, <3>3 DEF Flip
      <3>. QED
        BY <3>1, <3>3, <3>4, <2>3 DEF Committed, Record
    <2>. QED
      BY <2>2, <2>3, <2>4, <2>5, <2>6
  <1>3. \A b \in accepted : b \in Batch /\ OnRecord(b)
    BY DEF AcceptedIsRecorded, TypeOK
  <1>4. \A b \in accepted' : OnRecord(b)'
    BY <1>1, <1>2, <1>3
  <1>. QED
    BY <1>4 DEF AcceptedIsRecorded
-----------------------------------------------------------------------------
(* Theorems *)

LEMMA SyncInductive == Spec => []SyncInv
  <1>1. Init => SyncInv
    <2>1. Init => \A r \in Requests : request[r].at = "idle"
      BY DEF Init, Idle
    <2>2. Init => Progress
      BY <2>1 DEF Progress, Through, Storing
    <2>. QED
      BY <2>2, TypeInit DEF Init, SyncInv, SequencerChain, VersionsStayStored,
         AcceptedIsRecorded, Committed
  <1>2. SyncInv /\ [Next]_vars => SyncInv'
    BY TypeStep, ChainStep, ProgressStep, StoredStep, RecordedStep DEF SyncInv
  <1>. QED
    BY <1>1, <1>2, PTL DEF Spec

\* The stores keep their types and their keys: one row per batch id in D1 and in
\* the sequencer, whatever requests do.
THEOREM SyncTypeCorrect == Spec => []TypeOK
  BY SyncInductive, PTL DEF SyncInv

\* The batches the sequencer commits form one chain of generations with at most
\* one batch staged on top, for any number of requests that interleave or crash.
THEOREM SequencerIsAChain == Spec => []SequencerChain
  BY SyncInductive, PTL DEF SyncInv

\* persistSyncBatch: an object version D1 once called committed keeps a row with an
\* envelope, also when other batches replace it and requests crash; the row belongs
\* to a committed batch unless a request is between the two, or died there.
THEOREM CommittedVersionsStay == Spec => []VersionsStayStored
  BY SyncInductive, PTL DEF SyncInv

\* acceptSyncBatch accepts no batch that neither the sequencer nor D1 committed.
THEOREM AcceptedIsOnRecord == Spec => []AcceptedIsRecorded
  BY SyncInductive, PTL DEF SyncInv

\* A committed row of sync_batches is never changed or removed.
THEOREM CommittedIsFinal == Spec => CommittedStays
  <1>1. TypeOK /\ [Next]_vars => [Committed \subseteq {w \in rows' : w.status = "committed"}]_vars
    BY Kept DEF Committed
  <1>. QED
    BY <1>1, SyncTypeCorrect, PTL DEF Spec, CommittedStays
=============================================================================
