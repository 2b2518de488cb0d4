------------------------ MODULE DurableAssertionLog ------------------------
(***************************************************************************)
(* The append-only assertion log of packages/atlas-core: the in-memory     *)
(* AssertionLog (store.ts), its journal and compaction (durable-log.ts),   *)
(* the segment files (segment-writer.ts) and the reader that rebuilds the  *)
(* log from them (segment-reader.ts).                                      *)
(*                                                                         *)
(* A segment is represented by what the reader folds out of it.  Every     *)
(* fold of the reader is a union (bodies, stamps, receipts, notes) or a    *)
(* maximum (watermark, floor, sequence, instant), so a segment is a join   *)
(* and an append joins one more group.  What the reader treats specially   *)
(* stays explicit: the header, the records of a commit whose receipt has   *)
(* not been read yet, a torn tail, and a tail that a later append buried.  *)
(*                                                                         *)
(* All methods are synchronous, so a method is one atomic step; the only   *)
(* thing that can happen in the middle of one is the death of the process, *)
(* and every action that writes has a companion that crashes part-way.     *)
(*                                                                         *)
(* Belief time counts stamps: stampNow() is the last stamp plus one, the   *)
(* case of a clock that stands still.  The wall-clock instants that are    *)
(* not stamps (created_at, compacted_at, repaired_at) stay at 0 then.      *)
(***************************************************************************)
EXTENDS Naturals, FiniteSets

CONSTANTS Keys,             \* submission keys: client id with idempotency key
          Digests,          \* payload digests
          MaxDrafts,        \* bound: drafts of one submission
          MaxMinted,        \* bound: assertion ids minted
          MaxInstant,       \* bound: belief-time stamps
          MaxSegments,      \* bound: segment ordinals
          MaxCompactions,   \* bound: compactions that reclaim something
          MaxSafeInteger    \* the largest cursor a caller can send

ASSUME BoundsAssumption ==
  /\ {MaxDrafts, MaxMinted, MaxInstant, MaxSegments, MaxCompactions} \subseteq Nat
  /\ MaxSafeInteger \in Nat /\ MaxSafeInteger >= MaxMinted

VARIABLES
  disk,                     \* segment ordinal -> segment file
  up,                       \* a process has the log open
  ordinal,                  \* SegmentWriter.ordinal, the active segment
  assertions,               \* AssertionLog.assertions and byId
  submissions,              \* AssertionLog.submissions
  reclaimed,                \* AssertionLog.reclaimed
  nextSeq,
  lastRecordedMillis,
  publishedSeq,
  historyFloor

\* History: receipts given, pages answered or lost with the process that was
\* answering, ids used, compactions run.
VARIABLES acked, handed, minted, compactions

memory == <<up, ordinal, assertions, submissions, reclaimed, nextSeq,
            lastRecordedMillis, publishedSeq, historyFloor>>
history == <<acked, handed, minted, compactions>>
vars == <<disk, memory, history>>
-----------------------------------------------------------------------------
Ids      == 1..MaxMinted
Seqs     == 1..MaxMinted
Instants == 0..MaxInstant
Cursors  == 0..MaxSafeInteger

Body    == [id : Ids, seq : Seqs, at : Instants]
Stamp   == [id : Ids, at : Instants]
Note    == [id : Ids, seq : Seqs]
Receipt == [key : Keys, digest : Digests, at : Instants, ids : SUBSET Ids]
Believed == [id : Ids, seq : Seqs, at : Instants, sup : Instants]

\* superseded_at of an assertion no stamp has reached yet
Null == 0

\* Closed records, as the reader folds them.
Fold == [assertions : SUBSET Body, stamps : SUBSET Stamp,
         receipts : SUBSET Receipt, reclaimed : SUBSET Note,
         published : Cursors, floor : Instants, high : 0..MaxMinted,
         instant : Instants, repair : BOOLEAN]

\* Lines of a commit group whose receipt has not been written.
OpenGroup == [assertions : SUBSET Body, stamps : SUBSET Stamp]

Segment == [header : BOOLEAN, used : BOOLEAN, log : Fold, open : OpenGroup,
            torn : BOOLEAN, welded : BOOLEAN]

NoFold == [assertions |-> {}, stamps |-> {}, receipts |-> {}, reclaimed |-> {},
           published |-> 0, floor |-> 0, high |-> 0, instant |-> 0,
           repair |-> FALSE]
NoOpen == [assertions |-> {}, stamps |-> {}]

Larger(m, n) == IF m > n THEN m ELSE n

Join(f, g) == [assertions |-> f.assertions \cup g.assertions,
               stamps     |-> f.stamps \cup g.stamps,
               receipts   |-> f.receipts \cup g.receipts,
               reclaimed  |-> f.reclaimed \cup g.reclaimed,
               published  |-> Larger(f.published, g.published),
               floor      |-> Larger(f.floor, g.floor),
               high       |-> Larger(f.high, g.high),
               instant    |-> Larger(f.instant, g.instant),
               repair     |-> f.repair \/ g.repair]

IsMax(m, S) == m \in S /\ \A n \in S : n <= m
-----------------------------------------------------------------------------
(* Segment files: segment-writer.ts *)

\* createSegment: the header states the floor of the moment.
FreshSegment(floor) ==
  [header |-> TRUE, used |-> FALSE, log |-> [NoFold EXCEPT !.floor = floor],
   open |-> NoOpen, torn |-> FALSE, welded |-> FALSE]

\* A crash between creating the file and its whole header reaching the disk.  A
\* file of no bytes and one with part of a header line are refused alike (as
\* empty-segment and as missing-header).
HeaderlessSegment == [FreshSegment(0) EXCEPT !.header = FALSE]

\* Write a whole group.  A receipt closes whatever open records precede it,
\* whoever wrote them: the reader does not compare submission ids.  A group
\* that does not start with a receipt's commit, behind open records, and any
\* group behind torn bytes, are lines no reader accepts again.
AppendTo(seg, g) ==
  [header |-> seg.header, used |-> TRUE,
   log    |-> Join([seg.log EXCEPT
                      !.assertions = @ \cup seg.open.assertions,
                      !.stamps = @ \cup seg.open.stamps], g),
   open   |-> NoOpen, torn |-> FALSE,
   welded |-> seg.welded \/ seg.torn
              \/ (seg.open # NoOpen /\ g.receipts = {})]

\* Write only a prefix of a group: closed records g, open records o, perhaps
\* half a line more.
AppendPart(seg, g, o, torn) ==
  [seg EXCEPT !.used = @ \/ g # NoFold, !.log = Join(@, g),
              !.open = o, !.torn = torn]

Put(d, n, seg) == [x \in DOMAIN d \cup {n} |-> IF x = n THEN seg ELSE d[x]]

\* appendGroup's roll decision.  The byte bound is a tuning hint, so any group
\* may find the active segment full, unless it holds nothing but its header.
MayRoll(d, n, roll) == roll => d[n].used /\ n < MaxSegments

Target(n, roll) == IF roll THEN n + 1 ELSE n
TargetSegment(d, n, roll, floor) == IF roll THEN FreshSegment(floor) ELSE d[n]

Appended(d, n, roll, floor, g) ==
  Put(d, Target(n, roll), AppendTo(TargetSegment(d, n, roll, floor), g))
-----------------------------------------------------------------------------
(* Reading the segments back: segment-reader.ts *)

Bodies(d)      == UNION {d[o].log.assertions : o \in DOMAIN d}
Stamps(d)      == UNION {d[o].log.stamps : o \in DOMAIN d}
Receipts(d)    == UNION {d[o].log.receipts : o \in DOMAIN d}

\* The first stamp in the log wins; stamps are written in belief order.
StampOf(d, id) ==
  LET at == {s.at : s \in {s \in Stamps(d) : s.id = id}}
  IN  IF at = {} THEN {Null} ELSE {m \in at : \A n \in at : m <= n}

ScanAssertions(d) ==
  UNION {{[id |-> b.id, seq |-> b.seq, at |-> b.at, sup |-> s]
            : s \in StampOf(d, b.id)} : b \in Bodies(d)}

\* A body on disk outranks the announcement that it was reclaimed.
ScanReclaimed(d) ==
  {n \in UNION {d[o].log.reclaimed : o \in DOMAIN d} :
     \A b \in Bodies(d) : b.id # n.id}

ScanPublished(d) == {0} \cup {d[o].log.published : o \in DOMAIN d}
ScanFloors(d)    == {d[o].log.floor : o \in DOMAIN d}
ScanSeqs(d)      == {0} \cup {b.seq : b \in Bodies(d)}
                        \cup {d[o].log.high : o \in DOMAIN d}
\* Mutant: a restart forgets the belief time of the bodies it reads.
ScanInstantsOfMarks(d) == {0} \cup {d[o].log.instant : o \in DOMAIN d}

ScanInstants(d)  == {0} \cup {b.at : b \in Bodies(d)} \cup {s.at : s \in Stamps(d)}
                        \cup {r.at : r \in Receipts(d)}
                        \cup {d[o].log.instant : o \in DOMAIN d}

IsLast(d, n) == IsMax(n, DOMAIN d)

\* readSegment and the group check accept every segment.
Readable(d) ==
  \A o \in DOMAIN d :
     /\ d[o].header /\ ~d[o].welded
     /\ ~IsLast(d, o) => ~d[o].torn /\ d[o].open = NoOpen

Damaged(seg) == seg.torn \/ seg.open # NoOpen

\* Mutants: an open group is cut off, half a line behind it is not; everything
\* behind the header is cut off.
TruncatedLinesOnly(seg) == [seg EXCEPT !.open = NoOpen]

TruncatedToHeader(seg) == [seg EXCEPT !.log = NoFold, !.open = NoOpen, !.torn = FALSE]

\* truncateSync at the last closed record.
Truncated(seg) == [seg EXCEPT !.open = NoOpen, !.torn = FALSE]
-----------------------------------------------------------------------------
(* What a crash can leave of one appendGroup *)

\* Lines go out in order: bodies by sequence, stamps, then the receipt.
OpenPrefixes(g) ==
  {o \in [assertions : SUBSET g.assertions, stamps : SUBSET g.stamps] :
     /\ \A b \in o.assertions, c \in g.assertions :
           c.seq < b.seq => c \in o.assertions
     /\ o.stamps # {} => o.assertions = g.assertions}

\* Receipts carried by a compaction are closed one by one.
ClosedPrefixes(g) ==
  IF g.assertions = {} THEN {[NoFold EXCEPT !.receipts = R] : R \in SUBSET g.receipts}
                       ELSE {NoFold}

CrashImages(d, n, roll, floor, g) ==
  LET m == Target(n, roll)
      seg == TargetSegment(d, n, roll, floor)
  IN {d, Appended(d, n, roll, floor, g)}
     \cup {Put(d, m, AppendPart(seg, c, o, torn)) :
             c \in ClosedPrefixes(g), o \in OpenPrefixes(g), torn \in BOOLEAN}
     \cup (IF roll THEN {Put(d, m, HeaderlessSegment)} ELSE {})
-----------------------------------------------------------------------------
(* The life of a process *)

Init ==
  /\ disk = [o \in {} |-> HeaderlessSegment]
  /\ up = FALSE /\ ordinal = 0
  /\ assertions = {} /\ submissions = {} /\ reclaimed = {}
  /\ nextSeq = 1 /\ lastRecordedMillis = 0
  /\ publishedSeq = 0 /\ historyFloor = 0
  /\ acked = {} /\ handed = {} /\ minted = 0 /\ compactions = 0

\* The process is gone, and its memory with it.
Down ==
  /\ up' = FALSE /\ ordinal' = 0
  /\ assertions' = {} /\ submissions' = {} /\ reclaimed' = {}
  /\ nextSeq' = 1 /\ lastRecordedMillis' = 0
  /\ publishedSeq' = 0 /\ historyFloor' = 0

\* close(), or a crash between two calls: every append was synced already.
Crash == up /\ Down /\ UNCHANGED <<disk, history>>

\* DurableAssertionLog.open on a directory with no segments.
OpenNew ==
  /\ ~up /\ DOMAIN disk = {} /\ 1 <= MaxSegments
  /\ disk' = Put(disk, 1, FreshSegment(0))
  /\ up' = TRUE /\ ordinal' = 1
  /\ UNCHANGED <<assertions, submissions, reclaimed, nextSeq,
                 lastRecordedMillis, publishedSeq, historyFloor, history>>

OpenNewCrash ==
  /\ ~up /\ DOMAIN disk = {} /\ 1 <= MaxSegments
  /\ disk' = Put(disk, 1, HeaderlessSegment)
  /\ UNCHANGED <<memory, history>>

RepairGroup == [NoFold EXCEPT !.repair = TRUE]

\* scanSegmentLog with repair, as far as the truncation of the tail.
TailTruncated(n) == [disk EXCEPT ![n] = Truncated(@)]

\* AssertionLog's constructor on what the scan restored.
Restore(d) ==
  /\ up' = TRUE
  /\ assertions' = ScanAssertions(d)
  /\ submissions' = Receipts(d)
  /\ reclaimed' = ScanReclaimed(d)
  /\ \E s \in ScanSeqs(d) : IsMax(s, ScanSeqs(d)) /\ nextSeq' = s + 1
  /\ lastRecordedMillis' \in {t \in ScanInstants(d) : IsMax(t, ScanInstants(d))}
  /\ publishedSeq' \in {p \in ScanPublished(d) : IsMax(p, ScanPublished(d))}
  /\ historyFloor' \in {f \in ScanFloors(d) : IsMax(f, ScanFloors(d))}

\* DurableAssertionLog.open on an existing log: scan, truncate a damaged tail,
\* restore, then record that the damage was repaired.
OpenExisting(n, roll) ==
  LET d == TailTruncated(n)
  IN /\ ~up /\ IsLast(disk, n) /\ Readable(disk)
     /\ Restore(d)
     /\ IF Damaged(disk[n])
        THEN /\ MayRoll(d, n, roll)
             /\ disk' = Appended(d, n, roll, historyFloor', RepairGroup)
             /\ ordinal' = Target(n, roll)
        ELSE ~roll /\ disk' = disk /\ ordinal' = n
     /\ UNCHANGED history

OpenExistingCrash(n, roll) ==
  LET d == TailTruncated(n)
  IN /\ ~up /\ IsLast(disk, n) /\ Readable(disk) /\ Damaged(disk[n])
     /\ MayRoll(d, n, roll)
     /\ \E f \in ScanFloors(d) :
          /\ IsMax(f, ScanFloors(d))
          /\ disk' \in CrashImages(d, n, roll, f, RepairGroup)
     /\ UNCHANGED <<memory, history>>

\* The reader refuses a newest segment that has no header; of an empty one it
\* tells the operator that it holds no records and can be removed.
RemoveHeaderless(n) ==
  /\ ~up /\ IsLast(disk, n) /\ ~disk[n].header
  /\ disk' = [x \in DOMAIN disk \ {n} |-> disk[x]]
  /\ UNCHANGED <<memory, history>>
-----------------------------------------------------------------------------
(* commit() *)

Prior(k) == {r \in submissions : r.key = k}

Now == lastRecordedMillis + 1

NewBodies(n) ==
  {[id |-> minted + i, seq |-> nextSeq + i - 1, at |-> Now] : i \in 1..n}

\* Supersession is stamped once: targets that carry a stamp keep it.
Stamped(T) == {a \in assertions : a.id \in T /\ a.sup = Null}

NewReceipt(k, dg, n) ==
  [key |-> k, digest |-> dg, at |-> Now, ids |-> {minted + i : i \in 1..n}]

CommitGroup(k, dg, n, T) ==
  [NoFold EXCEPT !.assertions = NewBodies(n),
                 !.stamps = {[id |-> a.id, at |-> Now] : a \in Stamped(T)},
                 !.receipts = {NewReceipt(k, dg, n)}]

\* The submission k is new, its n drafts and their targets T are admissible.
MayCommit(k, n, T, roll) ==
  /\ up /\ Prior(k) = {}
  /\ T \subseteq {a.id : a \in assertions}
  /\ n \in 1..MaxDrafts
  /\ minted + n <= MaxMinted /\ nextSeq + n <= MaxMinted + 1
  /\ Now <= MaxInstant
  /\ MayRoll(disk, ordinal, roll)

\* Durable first, then visible, then acknowledged.
Commit(k, dg, n, T, roll) ==
  /\ MayCommit(k, n, T, roll)
  /\ disk' = Appended(disk, ordinal, roll, historyFloor, CommitGroup(k, dg, n, T))
  /\ ordinal' = Target(ordinal, roll)
  /\ assertions' = (assertions \ Stamped(T))
                     \cup {[a EXCEPT !.sup = Now] : a \in Stamped(T)}
                     \cup {[id |-> b.id, seq |-> b.seq, at |-> b.at, sup |-> Null]
                             : b \in NewBodies(n)}
  /\ submissions' = submissions \cup {NewReceipt(k, dg, n)}
  /\ nextSeq' = nextSeq + n
  /\ lastRecordedMillis' = Now
  /\ minted' = minted + n
  /\ acked' = acked \cup {[digest |-> dg, receipt |-> NewReceipt(k, dg, n)]}
  /\ UNCHANGED <<up, reclaimed, publishedSeq, historyFloor, handed, compactions>>

CommitCrash(k, dg, n, T, roll) ==
  /\ MayCommit(k, n, T, roll)
  /\ disk' \in CrashImages(disk, ordinal, roll, historyFloor, CommitGroup(k, dg, n, T))
  /\ minted' = minted + n
  /\ Down
  /\ UNCHANGED <<acked, handed, compactions>>

\* Mutant: the payload of a retry is not compared.
ReplayAnyPayload(k, dg) ==
  /\ up
  /\ \E r \in Prior(k) : acked' = acked \cup {[digest |-> dg, receipt |-> r]}
  /\ UNCHANGED <<disk, memory, handed, minted, compactions>>

\* A known key: the same payload hears the original receipt, another payload
\* hears a conflict and nothing changes.
Replay(k, dg) ==
  /\ up
  /\ \E r \in Prior(k) :
       acked' = IF r.digest = dg THEN acked \cup {[digest |-> dg, receipt |-> r]}
                                 ELSE acked
  /\ UNCHANGED <<disk, memory, handed, minted, compactions>>

\* Mutant: a refused submission burns a sequence number.
CommitUnknownTargetBurns ==
  /\ up /\ Now <= MaxInstant /\ nextSeq <= MaxMinted
  /\ lastRecordedMillis' = Now
  /\ nextSeq' = nextSeq + 1
  /\ UNCHANGED <<disk, up, ordinal, assertions, submissions, reclaimed,
                 publishedSeq, historyFloor, history>>

\* A draft names an id the store does not hold: refused, after the stamp was
\* drawn.
CommitUnknownTarget ==
  /\ up /\ Now <= MaxInstant
  /\ lastRecordedMillis' = Now
  /\ UNCHANGED <<disk, up, ordinal, assertions, submissions, reclaimed,
                 nextSeq, publishedSeq, historyFloor, history>>
-----------------------------------------------------------------------------
(* changesSince() and advanceHistoryFloor() *)

\* The first `limit` retained assertions behind the cursor.
Page(cursor, limit) ==
  LET later == {a \in assertions : a.seq > cursor}
  IN {a \in later : Cardinality({b \in later : b.seq < a.seq}) < limit}

NextCursor(page, cursor) ==
  {n \in {cursor} \cup {a.seq : a \in page} :
     IsMax(n, {cursor} \cup {a.seq : a \in page})}

WatermarkGroup(n) == [NoFold EXCEPT !.published = n, !.instant = Now]

\* Mutant: the watermark moves in memory only.
ChangesSinceUnjournalled(cursor, limit, roll) ==
  /\ up /\ ~roll
  /\ \E n \in NextCursor(Page(cursor, limit), cursor) :
       publishedSeq' = Larger(n, publishedSeq)
  /\ handed' = handed \cup {[id |-> a.id, seq |-> a.seq, at |-> a.at]
                              : a \in Page(cursor, limit)}
  /\ UNCHANGED <<disk, up, ordinal, assertions, submissions, reclaimed, nextSeq,
                 lastRecordedMillis, historyFloor, acked, minted, compactions>>

ChangesSince(cursor, limit, roll) ==
  /\ up
  /\ \E n \in NextCursor(Page(cursor, limit), cursor) :
       IF n > publishedSeq
       THEN /\ Now <= MaxInstant /\ MayRoll(disk, ordinal, roll)
            /\ disk' = Appended(disk, ordinal, roll, historyFloor, WatermarkGroup(n))
            /\ ordinal' = Target(ordinal, roll)
            /\ lastRecordedMillis' = Now
            /\ publishedSeq' = n
       ELSE /\ ~roll
            /\ UNCHANGED <<disk, ordinal, lastRecordedMillis, publishedSeq>>
  /\ handed' = handed \cup {[id |-> a.id, seq |-> a.seq, at |-> a.at]
                              : a \in Page(cursor, limit)}
  /\ UNCHANGED <<up, assertions, submissions, reclaimed, nextSeq, historyFloor,
                 acked, minted, compactions>>

ChangesSinceCrash(cursor, limit, roll) ==
  /\ up /\ Now <= MaxInstant /\ MayRoll(disk, ordinal, roll)
  /\ \E n \in NextCursor(Page(cursor, limit), cursor) :
       /\ n > publishedSeq
       /\ disk' \in CrashImages(disk, ordinal, roll, historyFloor, WatermarkGroup(n))
  /\ Down
  /\ handed' = handed \cup {[id |-> a.id, seq |-> a.seq, at |-> a.at]
                              : a \in Page(cursor, limit)}
  /\ UNCHANGED <<acked, minted, compactions>>

\* atlas.changes.read.v1 forwards whatever integer the client sent as its cursor;
\* one below 0 reads like 0.
ReadChanges(limit, roll) ==
  \E cursor \in Cursors : ChangesSince(cursor, limit, roll)

\* atlas.contract.describe.v1 reads the retention floor off an empty page at
\* the largest cursor there is.
DescribeContract(roll) == ChangesSince(MaxSafeInteger, 0, roll)

FloorGroup(to) == [NoFold EXCEPT !.floor = to, !.instant = Now]

\* Never backwards; an equal floor is a no-op.
MayAdvance(to, roll) ==
  /\ up /\ to > historyFloor /\ to \in Instants /\ Now <= MaxInstant
  /\ MayRoll(disk, ordinal, roll)

AdvanceHistoryFloor(to, roll) ==
  /\ MayAdvance(to, roll)
  /\ disk' = Appended(disk, ordinal, roll, historyFloor, FloorGroup(to))
  /\ ordinal' = Target(ordinal, roll)
  /\ lastRecordedMillis' = Now
  /\ historyFloor' = to
  /\ UNCHANGED <<up, assertions, submissions, reclaimed, nextSeq, publishedSeq,
                 history>>

AdvanceHistoryFloorCrash(to, roll) ==
  /\ MayAdvance(to, roll)
  /\ disk' \in CrashImages(disk, ordinal, roll, historyFloor, FloorGroup(to))
  /\ Down
  /\ UNCHANGED history
-----------------------------------------------------------------------------
(* compact() *)

\* Mutants: one of the refusals is missing.
ReclaimableOnceSuperseded(o) ==
  /\ o # ordinal /\ ~disk[o].log.repair
  /\ \A b \in disk[o].log.assertions :
       /\ b.seq <= publishedSeq
       /\ \E a \in ScanAssertions(disk) : a.id = b.id /\ a.sup # Null

ReclaimableUnpublished(o) ==
  /\ o # ordinal /\ ~disk[o].log.repair
  /\ \A b \in disk[o].log.assertions :
       \E a \in ScanAssertions(disk) :
         a.id = b.id /\ a.sup # Null /\ a.sup <= historyFloor

\* Everything in the segment was handed out, and stopped being believed no
\* later than the floor.  Judged on a fresh scan, not on memory.
Reclaimable(o) ==
  /\ o # ordinal /\ ~disk[o].log.repair
  /\ \A b \in disk[o].log.assertions :
       /\ b.seq <= publishedSeq
       /\ \E a \in ScanAssertions(disk) :
            a.id = b.id /\ a.sup # Null /\ a.sup <= historyFloor

Candidates == {o \in DOMAIN disk : Reclaimable(o)}

NotesOf(C) == {[id |-> b.id, seq |-> b.seq]
                 : b \in UNION {disk[o].log.assertions : o \in C}}

\* Receipts are carried forward; so are the marks the segments may be the last
\* holders of.
CompactionGroup(C, high, highAt) ==
  [NoFold EXCEPT !.receipts = UNION {disk[o].log.receipts : o \in C},
                 !.reclaimed = NotesOf(C),
                 !.high = high, !.instant = highAt,
                 !.published = publishedSeq, !.floor = historyFloor]

HighInstants == {historyFloor} \cup {b.at : b \in Bodies(disk)}

MayCompact(roll) ==
  /\ up /\ compactions < MaxCompactions
  /\ Readable(disk) /\ ~Damaged(disk[ordinal])
  /\ MayRoll(disk, ordinal, roll)
  /\ Candidates # {}

CompactionGroups ==
  {CompactionGroup(Candidates, high, highAt) :
     high \in {s \in ScanSeqs(disk) : IsMax(s, ScanSeqs(disk))},
     highAt \in {t \in HighInstants : IsMax(t, HighInstants)}}

Unlinked(d, C) == [x \in DOMAIN d \ C |-> d[x]]

\* Announce, unlink, then drop the reclaimed bodies from memory.
Compact(roll) ==
  /\ MayCompact(roll)
  /\ \E g \in CompactionGroups :
       disk' = Unlinked(Appended(disk, ordinal, roll, historyFloor, g), Candidates)
  /\ ordinal' = Target(ordinal, roll)
  /\ assertions' = {a \in assertions : \A n \in NotesOf(Candidates) : n.id # a.id}
  /\ reclaimed' = reclaimed \cup NotesOf(Candidates)
  /\ compactions' = compactions + 1
  /\ UNCHANGED <<up, submissions, nextSeq, lastRecordedMillis, publishedSeq,
                 historyFloor, acked, handed, minted>>

\* Mutant: segments are unlinked before the compaction is announced.
CompactCrashUnlinkFirst(roll) ==
  /\ MayCompact(roll)
  /\ \E x \in Candidates : disk' = Unlinked(disk, {o \in Candidates : o <= x})
  /\ compactions' = compactions + 1
  /\ Down
  /\ UNCHANGED <<acked, handed, minted>>

\* The crash comes before, within or after the ascending run of unlinks.
CompactCrash(roll) ==
  /\ MayCompact(roll)
  /\ \E g \in CompactionGroups :
       \/ disk' \in CrashImages(disk, ordinal, roll, historyFloor, g)
       \/ \E x \in Candidates :
            disk' = Unlinked(Appended(disk, ordinal, roll, historyFloor, g),
                             {o \in Candidates : o <= x})
  /\ compactions' = compactions + 1
  /\ Down
  /\ UNCHANGED <<acked, handed, minted>>
-----------------------------------------------------------------------------
Submissions(A(_, _, _, _, _)) ==
  \E k \in Keys, dg \in Digests, n \in 1..MaxDrafts, roll \in BOOLEAN :
    \E T \in SUBSET {a.id : a \in assertions} : A(k, dg, n, T, roll)

Opens ==
  \/ OpenNew
  \/ \E n \in DOMAIN disk, roll \in BOOLEAN : OpenExisting(n, roll)

\* Calls that run to their end.
Steady ==
  \/ Opens
  \/ Submissions(Commit)
  \/ \E k \in Keys, dg \in Digests : Replay(k, dg)
  \/ CommitUnknownTarget
  \/ \E limit \in 1..MaxMinted, roll \in BOOLEAN : ReadChanges(limit, roll)
  \/ \E roll \in BOOLEAN : DescribeContract(roll)
  \/ \E to \in Instants, roll \in BOOLEAN : AdvanceHistoryFloor(to, roll)
  \/ \E roll \in BOOLEAN : Compact(roll)

Removes == \E n \in DOMAIN disk : RemoveHeaderless(n)

\* Deaths of the process, in and between calls, and the one file that a human
\* has to remove after some of them.
Faults ==
  \/ Crash
  \/ OpenNewCrash
  \/ Removes
  \/ \E n \in DOMAIN disk, roll \in BOOLEAN : OpenExistingCrash(n, roll)
  \/ Submissions(CommitCrash)
  \/ \E cursor \in Cursors, limit \in 0..MaxMinted, roll \in BOOLEAN :
       ChangesSinceCrash(cursor, limit, roll)
  \/ \E to \in Instants, roll \in BOOLEAN : AdvanceHistoryFloorCrash(to, roll)
  \/ \E roll \in BOOLEAN : CompactCrash(roll)

Next == Steady \/ Faults

\* The log of a process that never dies.
SteadySpec == Init /\ [][Steady]_vars

Spec == Init /\ [][Next]_vars

\* A supervisor restarts the process again and again, and the operator removes
\* the header-less file the reader names.
FairSpec == Spec /\ SF_vars(Opens) /\ WF_vars(Removes)
-----------------------------------------------------------------------------
(* Correctness *)

TypeOK ==
  /\ DOMAIN disk \subseteq 1..MaxSegments
  /\ disk \in [DOMAIN disk -> Segment]
  /\ up \in BOOLEAN
  /\ ordinal \in 0..MaxSegments
  /\ up => ordinal \in DOMAIN disk
  /\ assertions \subseteq Believed
  /\ submissions \subseteq Receipt
  /\ reclaimed \subseteq Note
  /\ nextSeq \in 1..(MaxMinted + 1)
  /\ lastRecordedMillis \in Instants
  /\ publishedSeq \in Cursors
  /\ historyFloor \in Instants
  /\ acked \subseteq [digest : Digests, receipt : Receipt]
  /\ handed \subseteq Body
  /\ minted \in 0..MaxMinted
  /\ compactions \in 0..MaxCompactions

\* Only the newest segment can be damaged, and only in ways open() repairs or
\* the operator is told how to: segment-reader.ts, rule 2.
DamageOnlyAtTail ==
  \A o \in DOMAIN disk :
     /\ ~disk[o].welded
     /\ (up \/ ~IsLast(disk, o)) => disk[o].header /\ ~Damaged(disk[o])
     /\ ~disk[o].header => disk[o].log = NoFold /\ ~Damaged(disk[o])

\* A receipt a client was given is on disk, in a log that can be opened, through
\* every crash, repair and compaction.
AckedSurvives ==
  \A a \in acked :
     /\ a.receipt \in Receipts(disk)
     /\ \A o \in DOMAIN disk : ~disk[o].welded
                               /\ (~IsLast(disk, o) => ~Damaged(disk[o]))

\* One key names one submission for ever: whatever crashed in between, every
\* acknowledgement of a key carries the same receipt, and it was minted for the
\* payload the caller sent.
OneReceiptPerKey ==
  /\ \A a, b \in acked : a.receipt.key = b.receipt.key => a.receipt = b.receipt
  /\ \A a \in acked : a.digest = a.receipt.digest

\* The feed a consumer accumulates is one total order: a sequence number it was
\* given never comes back on another assertion, and belief time follows it.
FeedIsOneOrder ==
  LET seen == handed \cup {[id |-> a.id, seq |-> a.seq, at |-> a.at] : a \in assertions}
  IN \A a, b \in seen : /\ a.seq = b.seq => a = b
                        /\ a.seq < b.seq => a.at <= b.at

\* Gapless within the epoch: every number below the next one is a retained
\* assertion or one that compaction reclaimed.
Gapless ==
  up => 1..(nextSeq - 1) = {a.seq : a \in assertions} \cup
          {n.seq : n \in reclaimed \cup UNION {disk[o].log.reclaimed : o \in DOMAIN disk}}

\* What a restart would restore is what the process holds, leaving aside the
\* notes, which a second compaction drops, and the stamps (RestartKeepsStamps).
RestartKeepsLog ==
  up => /\ Receipts(disk) = submissions
        /\ Bodies(disk) = {[id |-> a.id, seq |-> a.seq, at |-> a.at] : a \in assertions}
        /\ IsMax(nextSeq - 1, ScanSeqs(disk))
        /\ IsMax(publishedSeq, ScanPublished(disk))
        /\ IsMax(historyFloor, ScanFloors(disk))

\* A restart does not change what is superseded ("Everything a reload has to
\* restore for a restart to be invisible").
RestartKeepsStamps == up => ScanAssertions(disk) = assertions

\* query() at the belief instant t: the ids believed then, or with
\* include_superseded all that had been recorded by then.
Query(S, t, includeSuperseded) ==
  {a.id : a \in {b \in S : b.at <= t
                            /\ (includeSuperseded \/ b.sup = Null \/ b.sup > t)}}

\* No step of a running process, compaction included, changes what was believed at
\* an instant the store still accepts; a read that includes superseded records
\* gains nothing, and loses only ids that resolve as reclaimed from then on.
AsOfStable ==
  [][up /\ up' => \A t \in historyFloor'..lastRecordedMillis :
       /\ Query(assertions', t, FALSE) = Query(assertions, t, FALSE)
       /\ Query(assertions', t, TRUE) \subseteq Query(assertions, t, TRUE)
       /\ Query(assertions, t, TRUE) \subseteq
            Query(assertions', t, TRUE) \cup {n.id : n \in reclaimed'}]_vars

\* The floor that a reopened log would enforce never moves backwards.
FloorNeverRegresses ==
  [][DOMAIN disk # {} /\ DOMAIN disk' # {} =>
       \A f \in ScanFloors(disk) : \E g \in ScanFloors(disk') : f <= g]_vars

\* Compaction reclaims nothing above the watermark: every number that was given
\* out and that no page has passed yet is a retained assertion, however many
\* compactions and restarts there were.
UnpublishedRetained ==
  up => (publishedSeq + 1)..(nextSeq - 1) \subseteq {a.seq : a \in assertions}

\* Whatever a crash leaves, a supervised process is serving the log again.
Reopens == ~up ~> up

Ledger == INSTANCE SubmissionLedger
            WITH Mintable <- Receipt, receipts <- Receipts(disk), acked <- acked
ImplementsLedger == Ledger!Spec
=============================================================================
