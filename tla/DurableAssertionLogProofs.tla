--------------------- MODULE DurableAssertionLogProofs ---------------------
(***************************************************************************)
(* For every number of keys, payloads, drafts, segments and compactions:   *)
(* the assertion log keeps its types, damage is confined to the tail of    *)
(* the newest segment, acknowledged receipts survive, a key never gets two *)
(* receipts, and the log implements SubmissionLedger.                      *)
(***************************************************************************)
EXTENDS DurableAssertionLog, TLAPS

\* A directory of segment files.
IsDisk(d) == DOMAIN d \subseteq 1..MaxSegments /\ d \in [DOMAIN d -> Segment]

\* What a process that has the log open finds in it.
Whole(d) == \A o \in DOMAIN d : d[o].header /\ ~d[o].welded /\ ~Damaged(d[o])

\* What any crash leaves.
Repairable(d) ==
  \A o \in DOMAIN d :
     /\ ~d[o].welded
     /\ ~IsLast(d, o) => d[o].header /\ ~Damaged(d[o])
     /\ ~d[o].header => d[o].log = NoFold /\ ~Damaged(d[o])

\* The receipts of e are those of d and R.
Gains(d, e, R) == Receipts(e) = Receipts(d) \cup R

\* So are those of seg, written over or behind d's segment m.
GainsAt(d, m, seg, R) ==
  /\ m \in DOMAIN d => seg.log.receipts = d[m].log.receipts \cup R
  /\ m \notin DOMAIN d => seg.log.receipts = R

LEMMA BoundsAreNumbers ==
  /\ MaxDrafts \in Nat /\ MaxMinted \in Nat /\ MaxInstant \in Nat
  /\ MaxSegments \in Nat /\ MaxCompactions \in Nat
  /\ MaxSafeInteger \in Nat /\ MaxMinted <= MaxSafeInteger
BY BoundsAssumption

LEMMA NoFoldIsFold == NoFold \in Fold
BY BoundsAreNumbers DEF NoFold, Fold, Instants, Cursors

LEMMA NoOpenIsOpen == NoOpen \in OpenGroup
BY DEF NoOpen, OpenGroup

LEMMA JoinIsFold ==
  ASSUME NEW f \in Fold, NEW g \in Fold
  PROVE  Join(f, g) \in Fold
BY BoundsAreNumbers DEF Fold, Join, Larger

LEMMA FreshIsSegment ==
  ASSUME NEW floor \in Instants
  PROVE  /\ FreshSegment(floor) \in Segment
         /\ FreshSegment(floor).header /\ ~FreshSegment(floor).welded
         /\ ~Damaged(FreshSegment(floor))
         /\ FreshSegment(floor).log.receipts = {}
<1>1. [NoFold EXCEPT !.floor = floor] \in Fold
  BY NoFoldIsFold DEF Fold
<1>2. [NoFold EXCEPT !.floor = floor].receipts = {}
  BY DEF NoFold
<1> QED
  BY <1>1, <1>2, NoOpenIsOpen DEF FreshSegment, Segment, Damaged

LEMMA HeaderlessIsSegment ==
  /\ HeaderlessSegment \in Segment
  /\ ~HeaderlessSegment.header /\ ~HeaderlessSegment.welded
  /\ ~Damaged(HeaderlessSegment) /\ HeaderlessSegment.log = NoFold
<1>1. 0 \in Instants
  BY BoundsAreNumbers DEF Instants
<1>2. [NoFold EXCEPT !.floor = 0] = NoFold
  BY DEF NoFold
<1> QED
  BY <1>1, <1>2, FreshIsSegment DEF HeaderlessSegment, FreshSegment, Segment, Damaged

LEMMA AppendToIsSegment ==
  ASSUME NEW seg \in Segment, NEW g \in Fold, ~Damaged(seg)
  PROVE  /\ AppendTo(seg, g) \in Segment
         /\ AppendTo(seg, g).header = seg.header
         /\ AppendTo(seg, g).welded = seg.welded
         /\ ~Damaged(AppendTo(seg, g))
         /\ AppendTo(seg, g).log.receipts = seg.log.receipts \cup g.receipts
<1> DEFINE f == [seg.log EXCEPT !.assertions = @ \cup seg.open.assertions,
                                !.stamps = @ \cup seg.open.stamps]
<1>1. seg.log \in Fold /\ seg.open \in OpenGroup
  BY DEF Segment
<1>2. f \in Fold /\ f.receipts = seg.log.receipts
  BY <1>1 DEF Fold, OpenGroup
<1>3. Join(f, g) \in Fold /\ Join(f, g).receipts = seg.log.receipts \cup g.receipts
  BY <1>2, JoinIsFold DEF Join
<1>4. AppendTo(seg, g) = [header |-> seg.header, used |-> TRUE, log |-> Join(f, g),
                          open |-> NoOpen, torn |-> FALSE,
                          welded |-> seg.welded \/ seg.torn
                                     \/ (seg.open # NoOpen /\ g.receipts = {})]
  BY DEF AppendTo
<1> HIDE DEF f
<1> QED
  BY <1>3, <1>4, NoOpenIsOpen DEF Segment, Damaged

LEMMA AppendPartIsSegment ==
  ASSUME NEW seg \in Segment, NEW c \in Fold, NEW o \in OpenGroup, NEW torn \in BOOLEAN
  PROVE  /\ AppendPart(seg, c, o, torn) \in Segment
         /\ AppendPart(seg, c, o, torn).header = seg.header
         /\ AppendPart(seg, c, o, torn).welded = seg.welded
         /\ AppendPart(seg, c, o, torn).log.receipts = seg.log.receipts \cup c.receipts
<1>1. seg.log \in Fold
  BY DEF Segment
<1>2. Join(seg.log, c) \in Fold
  BY <1>1, JoinIsFold
<1>3. Join(seg.log, c).receipts = seg.log.receipts \cup c.receipts
  BY DEF Join
<1> QED
  BY <1>2, <1>3 DEF AppendPart, Segment
-----------------------------------------------------------------------------
(* One segment file changes: what becomes of the directory *)

LEMMA PutIsDisk ==
  ASSUME NEW d, IsDisk(d), NEW m \in 1..MaxSegments, NEW seg \in Segment
  PROVE  /\ IsDisk(Put(d, m, seg))
         /\ DOMAIN Put(d, m, seg) = DOMAIN d \cup {m}
         /\ Put(d, m, seg)[m] = seg
         /\ \A x \in DOMAIN d \ {m} : Put(d, m, seg)[x] = d[x]
BY DEF IsDisk, Put

\* A segment that keeps its receipts and gains R adds exactly R to the log.
LEMMA PutReceipts ==
  ASSUME NEW d, IsDisk(d), NEW m \in 1..MaxSegments, NEW seg \in Segment, NEW R,
         GainsAt(d, m, seg, R)
  PROVE  Gains(d, Put(d, m, seg), R)
<1> DEFINE e == Put(d, m, seg)
<1>1. /\ DOMAIN e = DOMAIN d \cup {m}
      /\ e[m] = seg
      /\ \A x \in DOMAIN d \ {m} : e[x] = d[x]
  BY PutIsDisk
<1> HIDE DEF e
<1>2. ASSUME NEW r \in Receipts(e)
      PROVE  r \in Receipts(d) \cup R
  <2>1. PICK o \in DOMAIN e : r \in e[o].log.receipts
    BY <1>2 DEF Receipts
  <2>2. CASE o = m
    BY <2>1, <2>2, <1>1 DEF Receipts, GainsAt
  <2>3. CASE o # m
    BY <2>1, <2>3, <1>1 DEF Receipts
  <2> QED
    BY <2>2, <2>3
<1>3. ASSUME NEW r \in Receipts(d)
      PROVE  r \in Receipts(e)
  <2>1. PICK o \in DOMAIN d : r \in d[o].log.receipts
    BY <1>3 DEF Receipts
  <2>2. CASE o = m
    BY <2>1, <2>2, <1>1 DEF Receipts, GainsAt
  <2>3. CASE o # m
    BY <2>1, <2>3, <1>1 DEF Receipts
  <2> QED
    BY <2>2, <2>3
<1>4. ASSUME NEW r \in R
      PROVE  r \in Receipts(e)
  <2>1. r \in e[m].log.receipts
    BY <1>4, <1>1 DEF GainsAt
  <2> QED
    BY <2>1, <1>1 DEF Receipts
<1> QED
  BY <1>2, <1>3, <1>4 DEF e, Gains

\* Where an append writes: a segment that exists in the log and is sound, or a
\* fresh one behind all others.
LEMMA TargetFacts ==
  ASSUME NEW d, IsDisk(d), Whole(d), NEW n, IsLast(d, n),
         NEW roll \in BOOLEAN, MayRoll(d, n, roll), NEW floor \in Instants
  PROVE  /\ Target(n, roll) \in 1..MaxSegments
         /\ \A o \in DOMAIN d : o <= Target(n, roll)
         /\ roll => Target(n, roll) \notin DOMAIN d
         /\ ~roll => Target(n, roll) \in DOMAIN d
         /\ TargetSegment(d, n, roll, floor) \in Segment
         /\ TargetSegment(d, n, roll, floor).header
         /\ ~TargetSegment(d, n, roll, floor).welded
         /\ ~Damaged(TargetSegment(d, n, roll, floor))
         /\ TargetSegment(d, n, roll, floor).log.receipts
              = IF roll THEN {} ELSE d[n].log.receipts
<1>1. n \in DOMAIN d /\ n \in 1..MaxSegments /\ \A o \in DOMAIN d : o <= n /\ o \in Nat
  BY BoundsAreNumbers DEF IsLast, IsMax, IsDisk
<1>2. CASE roll
  BY <1>1, <1>2, FreshIsSegment, BoundsAreNumbers
     DEF Target, TargetSegment, MayRoll
<1>3. CASE ~roll
  BY <1>1, <1>3 DEF Target, TargetSegment, IsDisk, Whole
<1> QED
  BY <1>2, <1>3

\* A new last segment makes it the tail of the log.
LEMMA NewTail ==
  ASSUME NEW d, IsDisk(d), Whole(d), NEW m \in 1..MaxSegments, NEW seg \in Segment,
         \A o \in DOMAIN d : o <= m,
         ~seg.welded,
         ~seg.header => seg.log = NoFold /\ ~Damaged(seg)
  PROVE  /\ IsLast(Put(d, m, seg), m)
         /\ Repairable(Put(d, m, seg))
         /\ seg.header /\ ~Damaged(seg) => Whole(Put(d, m, seg))
<1> DEFINE e == Put(d, m, seg)
<1>1. /\ DOMAIN e = DOMAIN d \cup {m}
      /\ e[m] = seg
      /\ \A x \in DOMAIN d \ {m} : e[x] = d[x]
  BY PutIsDisk
<1> HIDE DEF e
<1>2. m \in Nat /\ IsLast(e, m)
  BY <1>1, BoundsAreNumbers DEF IsLast, IsMax
<1>3. Repairable(e)
  BY <1>1, <1>2 DEF Repairable, Whole
<1>4. seg.header /\ ~Damaged(seg) => Whole(e)
  BY <1>1 DEF Whole
<1> QED
  BY <1>2, <1>3, <1>4 DEF e

LEMMA AppendedFacts ==
  ASSUME NEW d, IsDisk(d), Whole(d), NEW n, IsLast(d, n),
         NEW roll \in BOOLEAN, MayRoll(d, n, roll), NEW floor \in Instants,
         NEW g \in Fold
  PROVE  /\ IsDisk(Appended(d, n, roll, floor, g))
         /\ Whole(Appended(d, n, roll, floor, g))
         /\ Repairable(Appended(d, n, roll, floor, g))
         /\ IsLast(Appended(d, n, roll, floor, g), Target(n, roll))
         /\ Gains(d, Appended(d, n, roll, floor, g), g.receipts)
         /\ DOMAIN Appended(d, n, roll, floor, g) = DOMAIN d \cup {Target(n, roll)}
         /\ g.receipts \subseteq
              Appended(d, n, roll, floor, g)[Target(n, roll)].log.receipts
         /\ \A x \in DOMAIN d \ {Target(n, roll)} :
              Appended(d, n, roll, floor, g)[x] = d[x]
<1> DEFINE m == Target(n, roll)
           old == TargetSegment(d, n, roll, floor)
           seg == AppendTo(old, g)
<1>1. /\ m \in 1..MaxSegments
      /\ \A o \in DOMAIN d : o <= m
      /\ roll => m \notin DOMAIN d
      /\ ~roll => m \in DOMAIN d
      /\ old \in Segment /\ old.header /\ ~old.welded /\ ~Damaged(old)
      /\ old.log.receipts = IF roll THEN {} ELSE d[n].log.receipts
  BY TargetFacts
<1>2. ~roll => m = n
  BY DEF Target
<1> HIDE DEF m, old
<1>3. /\ seg \in Segment /\ seg.header = old.header /\ seg.welded = old.welded
      /\ ~Damaged(seg) /\ seg.log.receipts = old.log.receipts \cup g.receipts
  BY <1>1, AppendToIsSegment
<1>4. Appended(d, n, roll, floor, g) = Put(d, m, seg)
  BY DEF Appended, m, old
<1> HIDE DEF seg
<1>5. GainsAt(d, m, seg, g.receipts)
  BY <1>1, <1>2, <1>3 DEF GainsAt
<1>6. Gains(d, Put(d, m, seg), g.receipts)
  <2>1. m \in 1..MaxSegments /\ seg \in Segment
    BY <1>1, <1>3
  <2> QED
    BY <2>1, <1>5, PutReceipts
<1>7. /\ IsLast(Put(d, m, seg), m) /\ Repairable(Put(d, m, seg))
      /\ Whole(Put(d, m, seg))
  BY <1>1, <1>3, NewTail
<1>8. /\ IsDisk(Put(d, m, seg)) /\ DOMAIN Put(d, m, seg) = DOMAIN d \cup {m}
      /\ Put(d, m, seg)[m] = seg
      /\ \A x \in DOMAIN d \ {m} : Put(d, m, seg)[x] = d[x]
  <2>1. m \in 1..MaxSegments /\ seg \in Segment
    BY <1>1, <1>3
  <2>2. IsDisk(Put(d, m, seg))
    BY <2>1, PutIsDisk
  <2> QED
    BY <2>2 DEF Put
<1>9. g.receipts \subseteq Put(d, m, seg)[m].log.receipts
  BY <1>3, <1>8
<1>10. m = Target(n, roll)
  BY DEF m
<1> QED
  BY <1>4, <1>6, <1>7, <1>8, <1>9, <1>10

\* Whatever an interrupted append leaves is repairable, and loses no receipt.
LEMMA CrashImageFacts ==
  ASSUME NEW d, IsDisk(d), Whole(d), NEW n, IsLast(d, n),
         NEW roll \in BOOLEAN, MayRoll(d, n, roll), NEW floor \in Instants,
         NEW g \in Fold, NEW e \in CrashImages(d, n, roll, floor, g)
  PROVE  /\ IsDisk(e) /\ Repairable(e)
         /\ \E R \in SUBSET g.receipts : Gains(d, e, R)
<1> DEFINE m == Target(n, roll)
           old == TargetSegment(d, n, roll, floor)
<1>1. /\ m \in 1..MaxSegments
      /\ \A o \in DOMAIN d : o <= m
      /\ roll => m \notin DOMAIN d
      /\ ~roll => m \in DOMAIN d
      /\ old \in Segment /\ old.header /\ ~old.welded /\ ~Damaged(old)
      /\ old.log.receipts = IF roll THEN {} ELSE d[n].log.receipts
  BY TargetFacts
<1>2. ~roll => m = n
  BY DEF Target
<1>3. CASE e = d
  <2>1. Repairable(d)
    BY DEF Repairable, Whole
  <2>2. {} \in SUBSET g.receipts /\ Gains(d, d, {})
    BY DEF Gains
  <2> QED
    BY <1>3, <2>1, <2>2
<1>4. CASE e = Appended(d, n, roll, floor, g)
  <2>1. /\ IsDisk(e) /\ Repairable(e)
        /\ Gains(d, e, g.receipts)
    BY <1>4, AppendedFacts
  <2> QED
    BY <2>1
<1>5. CASE \E c \in ClosedPrefixes(g), o \in OpenPrefixes(g), torn \in BOOLEAN :
             e = Put(d, m, AppendPart(old, c, o, torn))
  <2>1. PICK c \in ClosedPrefixes(g), o \in OpenPrefixes(g), torn \in BOOLEAN :
               e = Put(d, m, AppendPart(old, c, o, torn))
    BY <1>5
  <2>2. c \in Fold /\ c.receipts \subseteq g.receipts
    <3>1. NoFold \in Fold /\ NoFold.receipts = {}
      BY NoFoldIsFold DEF NoFold
    <3>2. ASSUME NEW R \in SUBSET g.receipts
          PROVE  /\ [NoFold EXCEPT !.receipts = R] \in Fold
                 /\ [NoFold EXCEPT !.receipts = R].receipts = R
      <4>1. R \subseteq Receipt
        BY <3>2 DEF Fold
      <4> QED
        BY <3>1, <4>1 DEF Fold
    <3> QED
      BY <3>1, <3>2 DEF ClosedPrefixes
  <2>3. o \in OpenGroup
    BY DEF OpenPrefixes, OpenGroup, Fold
  <2> DEFINE seg == AppendPart(old, c, o, torn)
  <2> HIDE DEF m, old
  <2>4. /\ seg \in Segment /\ seg.header = old.header /\ seg.welded = old.welded
        /\ seg.log.receipts = old.log.receipts \cup c.receipts
    <3>1. old \in Segment /\ c \in Fold
      BY <1>1, <2>2
    <3> QED
      BY <3>1, <2>3, AppendPartIsSegment
  <2> HIDE DEF seg
  <2>5. GainsAt(d, m, seg, c.receipts)
    BY <1>1, <1>2, <2>4 DEF GainsAt
  <2>6. Gains(d, Put(d, m, seg), c.receipts)
    <3>1. m \in 1..MaxSegments /\ seg \in Segment
      BY <1>1, <2>4
    <3> QED
      BY <3>1, <2>5, PutReceipts
  <2>7. IsDisk(Put(d, m, seg)) /\ Repairable(Put(d, m, seg))
    BY <1>1, <2>4, PutIsDisk, NewTail
  <2> QED
    BY <2>1, <2>2, <2>6, <2>7 DEF seg
<1>6. CASE roll /\ e = Put(d, m, HeaderlessSegment)
  <2> HIDE DEF m, old
  <2>1. HeaderlessSegment.log.receipts = {}
    BY HeaderlessIsSegment DEF NoFold
  <2>2. GainsAt(d, m, HeaderlessSegment, {})
    BY <1>1, <1>6, <2>1 DEF GainsAt
  <2>4. Gains(d, Put(d, m, HeaderlessSegment), {})
    <3>1. m \in 1..MaxSegments /\ HeaderlessSegment \in Segment
      BY <1>1, HeaderlessIsSegment
    <3> QED
      BY <3>1, <2>2, PutReceipts
  <2>3. IsDisk(Put(d, m, HeaderlessSegment)) /\ Repairable(Put(d, m, HeaderlessSegment))
    BY <1>1, HeaderlessIsSegment, PutIsDisk, NewTail
  <2>5. {} \in SUBSET g.receipts
    OBVIOUS
  <2> QED
    BY <1>6, <2>3, <2>4, <2>5
<1> QED
  BY <1>3, <1>4, <1>5, <1>6 DEF CrashImages

\* Unlinking segments whose receipts the tail carries loses no receipt.
LEMMA UnlinkedFacts ==
  ASSUME NEW e, IsDisk(e), Whole(e), NEW m, IsLast(e, m), NEW C \in SUBSET DOMAIN e,
         m \notin C, \A o \in C : e[o].log.receipts \subseteq e[m].log.receipts
  PROVE  /\ IsDisk(Unlinked(e, C)) /\ Whole(Unlinked(e, C))
         /\ Repairable(Unlinked(e, C)) /\ IsLast(Unlinked(e, C), m)
         /\ Receipts(Unlinked(e, C)) = Receipts(e)
<1> DEFINE u == Unlinked(e, C)
<1>1. DOMAIN u = DOMAIN e \ C /\ \A x \in DOMAIN u : u[x] = e[x]
  BY DEF Unlinked
<1>2. u = [x \in DOMAIN u |-> u[x]]
  BY DEF Unlinked
<1> HIDE DEF u
<1>3. IsDisk(u)
  BY <1>1, <1>2 DEF IsDisk
<1>4. Whole(u) /\ IsLast(u, m)
  BY <1>1 DEF Whole, IsLast, IsMax
<1>5. Repairable(u)
  BY <1>4 DEF Whole, Repairable
<1>6. Receipts(u) = Receipts(e)
  <2>1. ASSUME NEW r \in Receipts(e)
        PROVE  r \in Receipts(u)
    <3>1. PICK o \in DOMAIN e : r \in e[o].log.receipts
      BY <2>1 DEF Receipts
    <3>2. m \in DOMAIN u
      BY <1>4 DEF IsLast, IsMax
    <3>3. CASE o \in C
      BY <3>1, <3>2, <3>3, <1>1 DEF Receipts
    <3>4. CASE o \notin C
      BY <3>1, <3>4, <1>1 DEF Receipts
    <3> QED
      BY <3>3, <3>4
  <2>2. ASSUME NEW r \in Receipts(u)
        PROVE  r \in Receipts(e)
    BY <2>2, <1>1 DEF Receipts
  <2> QED
    BY <2>1, <2>2
<1> QED
  BY <1>3, <1>4, <1>5, <1>6 DEF u
-----------------------------------------------------------------------------
(* The inductive invariant *)

MemoryOK ==
  /\ up \in BOOLEAN /\ ordinal \in 0..MaxSegments
  /\ assertions \subseteq Believed /\ submissions \subseteq Receipt
  /\ reclaimed \subseteq Note
  /\ nextSeq \in 1..(MaxMinted + 1) /\ lastRecordedMillis \in Instants
  /\ publishedSeq \in Cursors /\ historyFloor \in Instants

HistoryOK ==
  /\ acked \subseteq [digest : Digests, receipt : Receipt]
  /\ handed \subseteq Body
  /\ minted \in 0..MaxMinted
  /\ compactions \in 0..MaxCompactions

\* A process that has the log open holds the newest segment, finds no damage,
\* and answers retries from exactly the receipts on disk.  Without a process
\* there is no memory.
Attached ==
  /\ up => Whole(disk) /\ IsLast(disk, ordinal) /\ submissions = Receipts(disk)
  /\ ~up => submissions = {}

Physical == IsDisk(disk) /\ Repairable(disk) /\ Attached /\ MemoryOK /\ HistoryOK

OneReceiptOnDisk == \A r, q \in Receipts(disk) : r.key = q.key => r = q

AckedOnDisk ==
  \A a \in acked : a.receipt \in Receipts(disk) /\ a.digest = a.receipt.digest

\* Neither half is inductive by itself: a commit mints a fresh key only because
\* the submissions it consults are the receipts on disk.
IInv == Physical /\ OneReceiptOnDisk /\ AckedOnDisk

\* The step is one the abstract ledger allows, or one it does not see.
LedgerStep == Ledger!Next \/ (Receipts(disk') = Receipts(disk) /\ acked' = acked)

LEMMA PhysicalIsTyped == Physical => TypeOK
BY DEF Physical, IsDisk, MemoryOK, HistoryOK, Attached, IsLast, IsMax, TypeOK

LEMMA PhysicalConfinesDamage == Physical => DamageOnlyAtTail
BY DEF Physical, Attached, Whole, Repairable, DamageOnlyAtTail

LEMMA WholeIsRepairable == ASSUME NEW d, Whole(d) PROVE Repairable(d)
BY DEF Whole, Repairable

\* What a segment file holds has the type of what was written to it.
LEMMA DiskContents ==
  ASSUME NEW d, IsDisk(d)
  PROVE  /\ Bodies(d) \subseteq Body /\ Stamps(d) \subseteq Stamp
         /\ Receipts(d) \subseteq Receipt
         /\ \A o \in DOMAIN d : d[o].log \in Fold
<1>1. \A o \in DOMAIN d : d[o].log \in Fold
  BY DEF IsDisk, Segment
<1>2. ASSUME NEW o \in DOMAIN d
      PROVE  /\ d[o].log.assertions \subseteq Body /\ d[o].log.stamps \subseteq Stamp
             /\ d[o].log.receipts \subseteq Receipt
  BY <1>1 DEF Fold
<1> QED
  BY <1>1, <1>2 DEF Bodies, Stamps, Receipts

LEMMA NoNewReceipts ==
  ASSUME NEW d, NEW e, Gains(d, e, {})
  PROVE  Receipts(e) = Receipts(d)
BY DEF Gains

\* Groups without a receipt.
LEMMA QuietGroups ==
  /\ RepairGroup \in Fold /\ RepairGroup.receipts = {}
  /\ \A n \in Cursors : Now \in Instants =>
        WatermarkGroup(n) \in Fold /\ WatermarkGroup(n).receipts = {}
  /\ \A to \in Instants : Now \in Instants =>
        FloorGroup(to) \in Fold /\ FloorGroup(to).receipts = {}
<1>1. NoFold \in Fold /\ NoFold.receipts = {}
  BY NoFoldIsFold DEF NoFold
<1>2. RepairGroup \in Fold /\ RepairGroup.receipts = {}
  BY <1>1 DEF RepairGroup, Fold
<1>3. ASSUME NEW n \in Cursors, Now \in Instants
      PROVE  WatermarkGroup(n) \in Fold /\ WatermarkGroup(n).receipts = {}
  BY <1>1, <1>3 DEF WatermarkGroup, Fold
<1>4. ASSUME NEW to \in Instants, Now \in Instants
      PROVE  FloorGroup(to) \in Fold /\ FloorGroup(to).receipts = {}
  BY <1>1, <1>4 DEF FloorGroup, Fold
<1> QED
  BY <1>2, <1>3, <1>4

LEMMA QuietAppend ==
  ASSUME NEW d, IsDisk(d), Whole(d), NEW n, IsLast(d, n),
         NEW roll \in BOOLEAN, MayRoll(d, n, roll), NEW floor \in Instants,
         NEW g \in Fold, g.receipts = {}
  PROVE  /\ Receipts(Appended(d, n, roll, floor, g)) = Receipts(d)
         /\ \A e \in CrashImages(d, n, roll, floor, g) :
               IsDisk(e) /\ Repairable(e) /\ Receipts(e) = Receipts(d)
<1>1. Receipts(Appended(d, n, roll, floor, g)) = Receipts(d)
  <2>1. Gains(d, Appended(d, n, roll, floor, g), g.receipts)
    BY AppendedFacts
  <2> QED
    BY <2>1 DEF Gains
<1>2. ASSUME NEW e \in CrashImages(d, n, roll, floor, g)
      PROVE  IsDisk(e) /\ Repairable(e) /\ Receipts(e) = Receipts(d)
  <2>1. PICK R \in SUBSET g.receipts : Gains(d, e, R)
    BY CrashImageFacts
  <2>2. R = {}
    BY <2>1
  <2> QED
    BY <2>1, <2>2, CrashImageFacts, NoNewReceipts
<1> QED
  BY <1>1, <1>2

\* The death of a process leaves no memory to go wrong.
LEMMA DownFacts ==
  ASSUME Down, IsDisk(disk'), Repairable(disk'), HistoryOK'
  PROVE  Physical'
<1>1. MemoryOK'
  <2>1. /\ 0 \in 0..MaxSegments /\ 1 \in 1..(MaxMinted + 1)
        /\ 0 \in Instants /\ 0 \in Cursors
    BY BoundsAreNumbers DEF Instants, Cursors
  <2> QED
    BY <2>1 DEF Down, MemoryOK
<1>2. Attached'
  BY DEF Down, Attached
<1> QED
  BY <1>1, <1>2 DEF Physical
-----------------------------------------------------------------------------
(* Opening and repairing *)

LEMMA CrashStep ==
  ASSUME Physical, Crash
  PROVE  Physical' /\ LedgerStep
<1>1. HistoryOK'
  BY DEF Physical, HistoryOK, Crash, history
<1>2. IsDisk(disk') /\ Repairable(disk') /\ disk' = disk /\ acked' = acked
  BY DEF Physical, Crash, history
<1> QED
  BY <1>1, <1>2, DownFacts DEF Crash, LedgerStep

\* A directory with one segment in it.
LEMMA FirstSegment ==
  ASSUME IsDisk(disk), DOMAIN disk = {}, 1 <= MaxSegments, NEW seg \in Segment,
         ~seg.welded, ~seg.header => seg.log = NoFold /\ ~Damaged(seg),
         seg.log.receipts = {}
  PROVE  /\ IsDisk(Put(disk, 1, seg)) /\ Repairable(Put(disk, 1, seg))
         /\ IsLast(Put(disk, 1, seg), 1)
         /\ seg.header /\ ~Damaged(seg) => Whole(Put(disk, 1, seg))
         /\ Receipts(Put(disk, 1, seg)) = {} /\ Receipts(disk) = {}
<1>1. 1 \in 1..MaxSegments
  BY BoundsAreNumbers
<1>2. Whole(disk) /\ \A o \in DOMAIN disk : o <= 1
  BY DEF Whole
<1>3. Receipts(disk) = {}
  BY DEF Receipts
<1>4. GainsAt(disk, 1, seg, {})
  BY DEF GainsAt
<1>5. Gains(disk, Put(disk, 1, seg), {})
  BY <1>1, <1>4, PutReceipts
<1>6. Receipts(Put(disk, 1, seg)) = {}
  BY <1>3, <1>5 DEF Gains
<1> QED
  BY <1>1, <1>2, <1>3, <1>6, PutIsDisk, NewTail

LEMMA OpenNewStep ==
  ASSUME Physical, OpenNew
  PROVE  Physical' /\ LedgerStep
<1>1. 0 \in Instants
  BY BoundsAreNumbers DEF Instants
<1>2. /\ IsDisk(disk') /\ Repairable(disk') /\ IsLast(disk', 1) /\ Whole(disk')
      /\ Receipts(disk') = {} /\ Receipts(disk) = {}
  BY <1>1, FreshIsSegment, FirstSegment DEF Physical, OpenNew
<1>3. ordinal' = 1 /\ 1 \in 0..MaxSegments /\ up' = TRUE
  BY BoundsAreNumbers DEF OpenNew
<1>4. Attached'
  BY <1>2, <1>3 DEF Physical, Attached, OpenNew
<1>5. MemoryOK' /\ HistoryOK' /\ acked' = acked
  BY <1>3 DEF Physical, MemoryOK, HistoryOK, OpenNew, history
<1> QED
  BY <1>2, <1>4, <1>5 DEF Physical, LedgerStep

LEMMA OpenNewCrashStep ==
  ASSUME Physical, OpenNewCrash
  PROVE  Physical' /\ LedgerStep
<1>1. HeaderlessSegment.log.receipts = {}
  BY HeaderlessIsSegment DEF NoFold
<1>2. /\ IsDisk(disk') /\ Repairable(disk')
      /\ Receipts(disk') = {} /\ Receipts(disk) = {}
  BY <1>1, HeaderlessIsSegment, FirstSegment DEF Physical, OpenNewCrash
<1>3. MemoryOK' /\ HistoryOK' /\ Attached' /\ acked' = acked
  BY DEF Physical, MemoryOK, HistoryOK, Attached, OpenNewCrash, memory, history
<1> QED
  BY <1>2, <1>3 DEF Physical, LedgerStep

\* Cutting the tail back to its last closed record makes the log whole.
LEMMA TruncationFacts ==
  ASSUME Physical, NEW n, IsLast(disk, n), Readable(disk)
  PROVE  /\ IsDisk(TailTruncated(n)) /\ Whole(TailTruncated(n))
         /\ IsLast(TailTruncated(n), n)
         /\ Receipts(TailTruncated(n)) = Receipts(disk)
         /\ ~Damaged(disk[n]) => TailTruncated(n) = disk
<1> DEFINE d == TailTruncated(n)
<1>1. n \in DOMAIN disk /\ disk[n] \in Segment
  BY DEF Physical, IsDisk, IsLast, IsMax
<1>2. /\ Truncated(disk[n]) \in Segment
      /\ Truncated(disk[n]).header = disk[n].header
      /\ Truncated(disk[n]).welded = disk[n].welded
      /\ Truncated(disk[n]).log = disk[n].log
      /\ ~Damaged(Truncated(disk[n]))
      /\ ~Damaged(disk[n]) => Truncated(disk[n]) = disk[n]
  BY <1>1, NoOpenIsOpen DEF Truncated, Segment, Damaged
<1>3. /\ DOMAIN d = DOMAIN disk
      /\ d[n] = Truncated(disk[n])
      /\ \A x \in DOMAIN disk \ {n} : d[x] = disk[x]
      /\ d = [x \in DOMAIN disk |-> d[x]]
  BY <1>1 DEF TailTruncated, Physical, IsDisk
<1> HIDE DEF d
<1>4. IsDisk(d)
  BY <1>2, <1>3 DEF Physical, IsDisk
<1>5. Whole(d)
  <2>1. ASSUME NEW o \in DOMAIN disk \ {n} PROVE ~IsLast(disk, o)
    BY <2>1, BoundsAreNumbers DEF IsLast, IsMax, Physical, IsDisk
  <2> QED
    BY <1>2, <1>3, <2>1 DEF Whole, Readable, Damaged
<1>6. IsLast(d, n)
  BY <1>3 DEF IsLast, IsMax
<1>7. Receipts(d) = Receipts(disk)
  <2>1. \A x \in DOMAIN disk : d[x].log = disk[x].log
    BY <1>2, <1>3
  <2> QED
    BY <2>1, <1>3 DEF Receipts
<1>8. ~Damaged(disk[n]) => d = disk
  BY <1>1, <1>2, <1>3 DEF Physical, IsDisk
<1> QED
  BY <1>4, <1>5, <1>6, <1>7, <1>8 DEF d

\* What the reader restores from a directory is well-typed.
LEMMA RestoreFacts ==
  ASSUME NEW d, IsDisk(d), Restore(d)
  PROVE  /\ up' = TRUE /\ submissions' = Receipts(d)
         /\ assertions' \subseteq Believed /\ submissions' \subseteq Receipt
         /\ reclaimed' \subseteq Note
         /\ nextSeq' \in 1..(MaxMinted + 1) /\ lastRecordedMillis' \in Instants
         /\ publishedSeq' \in Cursors /\ historyFloor' \in Instants
<1>1. /\ Bodies(d) \subseteq Body /\ Stamps(d) \subseteq Stamp
      /\ Receipts(d) \subseteq Receipt /\ \A o \in DOMAIN d : d[o].log \in Fold
  BY DiskContents
<1>2. 0 \in Instants /\ 0 \in Cursors /\ 0 \in 0..MaxMinted
  BY BoundsAreNumbers DEF Instants, Cursors
<1>3. assertions' \subseteq Believed
  <2>1. \A id : StampOf(d, id) \subseteq Instants
    BY <1>1, <1>2 DEF StampOf, Stamp, Null
  <2>2. ScanAssertions(d) \subseteq Believed
    BY <1>1, <2>1 DEF ScanAssertions, Body, Believed
  <2> QED
    BY <2>2 DEF Restore
<1>4. reclaimed' \subseteq Note
  <2>1. \A o \in DOMAIN d : d[o].log.reclaimed \subseteq Note
    BY <1>1 DEF Fold
  <2> QED
    BY <2>1 DEF Restore, ScanReclaimed
<1>5. nextSeq' \in 1..(MaxMinted + 1)
  <2>1. \A b \in Bodies(d) : b.seq \in 0..MaxMinted
    BY <1>1, BoundsAreNumbers DEF Body, Seqs
  <2>2. \A o \in DOMAIN d : d[o].log.high \in 0..MaxMinted
    BY <1>1 DEF Fold
  <2>3. ScanSeqs(d) \subseteq 0..MaxMinted
    BY <1>2, <2>1, <2>2 DEF ScanSeqs
  <2>4. PICK s \in ScanSeqs(d) : nextSeq' = s + 1
    BY DEF Restore
  <2> QED
    BY <2>3, <2>4, BoundsAreNumbers
<1>6. lastRecordedMillis' \in Instants
  <2>1. \A o \in DOMAIN d : d[o].log.instant \in Instants
    BY <1>1 DEF Fold
  <2>2. /\ \A b \in Bodies(d) : b.at \in Instants
        /\ \A s \in Stamps(d) : s.at \in Instants
        /\ \A r \in Receipts(d) : r.at \in Instants
    BY <1>1 DEF Body, Stamp, Receipt
  <2>3. ScanInstants(d) \subseteq Instants
    BY <1>2, <2>1, <2>2 DEF ScanInstants
  <2> QED
    BY <2>3 DEF Restore
<1>7. publishedSeq' \in Cursors /\ historyFloor' \in Instants
  <2>1. \A o \in DOMAIN d : d[o].log.published \in Cursors /\ d[o].log.floor \in Instants
    BY <1>1 DEF Fold
  <2>2. ScanPublished(d) \subseteq Cursors /\ ScanFloors(d) \subseteq Instants
    BY <1>2, <2>1 DEF ScanPublished, ScanFloors
  <2> QED
    BY <2>2 DEF Restore
<1> QED
  BY <1>1, <1>3, <1>4, <1>5, <1>6, <1>7 DEF Restore

LEMMA OpenExistingStep ==
  ASSUME Physical, NEW n, NEW roll \in BOOLEAN, OpenExisting(n, roll)
  PROVE  Physical' /\ LedgerStep
<1> DEFINE d == TailTruncated(n)
<1>1. /\ IsDisk(d) /\ Whole(d) /\ IsLast(d, n) /\ Receipts(d) = Receipts(disk)
      /\ ~Damaged(disk[n]) => d = disk
  BY TruncationFacts DEF OpenExisting
<1>2. HistoryOK' /\ acked' = acked
  BY DEF OpenExisting, Physical, HistoryOK, history
<1>3. /\ Restore(d)
      /\ Damaged(disk[n]) =>
           /\ MayRoll(d, n, roll)
           /\ disk' = Appended(d, n, roll, historyFloor', RepairGroup)
           /\ ordinal' = Target(n, roll)
      /\ ~Damaged(disk[n]) => disk' = disk /\ ordinal' = n
  BY DEF OpenExisting
<1> HIDE DEF d
<1>4. /\ up' = TRUE /\ submissions' = Receipts(d)
      /\ assertions' \subseteq Believed /\ submissions' \subseteq Receipt
      /\ reclaimed' \subseteq Note
      /\ nextSeq' \in 1..(MaxMinted + 1) /\ lastRecordedMillis' \in Instants
      /\ publishedSeq' \in Cursors /\ historyFloor' \in Instants
  BY <1>1, <1>3, RestoreFacts
<1>5. /\ IsDisk(disk') /\ Whole(disk') /\ IsLast(disk', ordinal')
      /\ Receipts(disk') = Receipts(d)
  <2>1. CASE Damaged(disk[n])
    <3>1. RepairGroup \in Fold /\ RepairGroup.receipts = {}
      BY QuietGroups
    <3>2. historyFloor' \in Instants /\ MayRoll(d, n, roll)
      BY <1>3, <1>4, <2>1
    <3>3. Receipts(Appended(d, n, roll, historyFloor', RepairGroup)) = Receipts(d)
      BY <1>1, <3>1, <3>2, QuietAppend
    <3>4. /\ IsDisk(Appended(d, n, roll, historyFloor', RepairGroup))
          /\ Whole(Appended(d, n, roll, historyFloor', RepairGroup))
          /\ IsLast(Appended(d, n, roll, historyFloor', RepairGroup), Target(n, roll))
      BY <1>1, <3>1, <3>2, AppendedFacts
    <3> QED
      BY <1>3, <2>1, <3>3, <3>4
  <2>2. CASE ~Damaged(disk[n])
    BY <1>1, <1>3, <2>2
  <2> QED
    BY <2>1, <2>2
<1>6. ordinal' \in 0..MaxSegments
  BY <1>5, BoundsAreNumbers DEF IsLast, IsMax, IsDisk
<1>7. Attached'
  BY <1>4, <1>5 DEF Attached
<1>8. MemoryOK'
  BY <1>4, <1>6 DEF MemoryOK
<1> QED
  BY <1>1, <1>2, <1>5, <1>7, <1>8, WholeIsRepairable DEF Physical, LedgerStep

LEMMA OpenExistingCrashStep ==
  ASSUME Physical, NEW n, NEW roll \in BOOLEAN, OpenExistingCrash(n, roll)
  PROVE  Physical' /\ LedgerStep
<1> DEFINE d == TailTruncated(n)
<1>1. IsDisk(d) /\ Whole(d) /\ IsLast(d, n) /\ Receipts(d) = Receipts(disk)
  BY TruncationFacts DEF OpenExistingCrash
<1>2. PICK f \in ScanFloors(d) : disk' \in CrashImages(d, n, roll, f, RepairGroup)
  BY DEF OpenExistingCrash
<1>3. MayRoll(d, n, roll)
  BY DEF OpenExistingCrash
<1>4. MemoryOK' /\ HistoryOK' /\ acked' = acked /\ up' = FALSE /\ submissions' = {}
  BY DEF OpenExistingCrash, Physical, Attached, MemoryOK, HistoryOK, memory, history
<1> HIDE DEF d
<1>5. f \in Instants
  BY <1>1, DiskContents DEF ScanFloors, Fold
<1>6. RepairGroup \in Fold /\ RepairGroup.receipts = {}
  BY QuietGroups
<1>7. IsDisk(disk') /\ Repairable(disk') /\ Receipts(disk') = Receipts(d)
  BY <1>1, <1>2, <1>3, <1>5, <1>6, QuietAppend
<1>8. Attached'
  BY <1>4 DEF Attached
<1> QED
  BY <1>1, <1>4, <1>7, <1>8 DEF Physical, LedgerStep

LEMMA RemoveHeaderlessStep ==
  ASSUME Physical, NEW n, RemoveHeaderless(n)
  PROVE  Physical' /\ LedgerStep
<1>1. /\ n \in DOMAIN disk /\ IsLast(disk, n) /\ ~disk[n].header
      /\ \A o \in DOMAIN disk : o \in Nat
  BY BoundsAreNumbers DEF RemoveHeaderless, IsLast, IsMax, Physical, IsDisk
<1>2. DOMAIN disk' = DOMAIN disk \ {n} /\ \A x \in DOMAIN disk' : disk'[x] = disk[x]
  BY DEF RemoveHeaderless
<1>3. disk' = [x \in DOMAIN disk' |-> disk'[x]]
  BY DEF RemoveHeaderless
<1>4. IsDisk(disk')
  BY <1>2, <1>3 DEF Physical, IsDisk
<1>5. ASSUME NEW o \in DOMAIN disk'
      PROVE  disk'[o].header /\ ~disk'[o].welded /\ ~Damaged(disk'[o])
  <2>1. o \in DOMAIN disk /\ o # n /\ disk'[o] = disk[o]
    BY <1>2
  <2>2. ~IsLast(disk, o)
    BY <1>1, <2>1 DEF IsLast, IsMax
  <2> QED
    BY <2>1, <2>2 DEF Physical, Repairable
<1>6. Repairable(disk')
  BY <1>5 DEF Repairable
<1>7. Receipts(disk') = Receipts(disk)
  <2>1. disk[n].log.receipts = {}
    BY <1>1 DEF Physical, Repairable, NoFold
  <2> QED
    BY <1>1, <1>2, <2>1 DEF Receipts
<1>8. MemoryOK' /\ HistoryOK' /\ Attached' /\ acked' = acked
  BY DEF RemoveHeaderless, Physical, Attached, MemoryOK, HistoryOK, memory, history
<1> QED
  BY <1>4, <1>6, <1>7, <1>8 DEF Physical, LedgerStep
-----------------------------------------------------------------------------
(* Submissions *)

LEMMA CommitGroupFacts ==
  ASSUME Physical, NEW k \in Keys, NEW dg \in Digests, NEW n \in 1..MaxDrafts,
         NEW T, NEW roll \in BOOLEAN, MayCommit(k, n, T, roll)
  PROVE  /\ NewBodies(n) \subseteq Body
         /\ NewReceipt(k, dg, n) \in Receipt
         /\ NewReceipt(k, dg, n).key = k /\ NewReceipt(k, dg, n).digest = dg
         /\ CommitGroup(k, dg, n, T) \in Fold
         /\ CommitGroup(k, dg, n, T).receipts = {NewReceipt(k, dg, n)}
         /\ Now \in Instants /\ nextSeq + n \in 1..(MaxMinted + 1)
         /\ minted + n \in 0..MaxMinted
<1>1. /\ nextSeq \in 1..(MaxMinted + 1) /\ minted \in 0..MaxMinted
      /\ lastRecordedMillis \in Instants /\ assertions \subseteq Believed
  BY DEF Physical, MemoryOK, HistoryOK
<1>2. /\ Now \in Instants /\ nextSeq + n \in 1..(MaxMinted + 1)
      /\ minted + n \in 0..MaxMinted
  BY <1>1, BoundsAreNumbers DEF MayCommit, Now, Instants
<1>3. ASSUME NEW i \in 1..n PROVE minted + i \in Ids /\ nextSeq + i - 1 \in Seqs
  BY <1>1, BoundsAreNumbers DEF MayCommit, Ids, Seqs
<1>4. NewBodies(n) \subseteq Body
  BY <1>2, <1>3 DEF NewBodies, Body
<1>5. /\ NewReceipt(k, dg, n) \in Receipt
      /\ NewReceipt(k, dg, n).key = k /\ NewReceipt(k, dg, n).digest = dg
  BY <1>2, <1>3 DEF NewReceipt, Receipt
<1>6. {[id |-> a.id, at |-> Now] : a \in Stamped(T)} \subseteq Stamp
  BY <1>1, <1>2 DEF Stamped, Stamp, Believed
<1>7. /\ CommitGroup(k, dg, n, T) \in Fold
      /\ CommitGroup(k, dg, n, T).receipts = {NewReceipt(k, dg, n)}
  <2> DEFINE B == NewBodies(n)
             S == {[id |-> a.id, at |-> Now] : a \in Stamped(T)}
             R == {NewReceipt(k, dg, n)}
  <2>1. B \subseteq Body /\ S \subseteq Stamp /\ R \subseteq Receipt
    BY <1>4, <1>5, <1>6
  <2>2. CommitGroup(k, dg, n, T)
          = [NoFold EXCEPT !.assertions = B, !.stamps = S, !.receipts = R]
    BY DEF CommitGroup
  <2> HIDE DEF B, S, R
  <2>3. /\ [NoFold EXCEPT !.assertions = B, !.stamps = S, !.receipts = R] \in Fold
        /\ [NoFold EXCEPT !.assertions = B, !.stamps = S, !.receipts = R].receipts = R
    BY <2>1, NoFoldIsFold DEF Fold
  <2> QED
    BY <2>2, <2>3 DEF R
<1> QED
  BY <1>2, <1>4, <1>5, <1>7

\* A commit records a receipt under a key no receipt on disk has.
LEMMA FreshReceipt ==
  ASSUME Physical, NEW k, NEW n, NEW T, NEW roll, MayCommit(k, n, T, roll)
  PROVE  \A q \in Receipts(disk) : q.key # k
BY DEF Physical, Attached, MayCommit, Prior

LEMMA CommitStep ==
  ASSUME Physical, NEW k \in Keys, NEW dg \in Digests, NEW n \in 1..MaxDrafts,
         NEW T, NEW roll \in BOOLEAN, Commit(k, dg, n, T, roll)
  PROVE  Physical' /\ LedgerStep
<1> DEFINE r == NewReceipt(k, dg, n)
           g == CommitGroup(k, dg, n, T)
<1>1. MayCommit(k, n, T, roll) /\ up /\ MayRoll(disk, ordinal, roll)
  BY DEF Commit, MayCommit
<1>2. /\ NewBodies(n) \subseteq Body /\ r \in Receipt /\ r.key = k /\ r.digest = dg
      /\ g \in Fold /\ g.receipts = {r}
      /\ Now \in Instants /\ nextSeq + n \in 1..(MaxMinted + 1)
      /\ minted + n \in 0..MaxMinted
  BY <1>1, CommitGroupFacts
<1>3. /\ disk' = Appended(disk, ordinal, roll, historyFloor, g)
      /\ ordinal' = Target(ordinal, roll) /\ up' = up
      /\ submissions' = submissions \cup {r}
      /\ acked' = acked \cup {[digest |-> dg, receipt |-> r]}
  BY DEF Commit
<1> HIDE DEF r, g
<1>4. IsDisk(disk) /\ Whole(disk) /\ IsLast(disk, ordinal) /\ historyFloor \in Instants
  BY <1>1 DEF Physical, Attached, MemoryOK
<1>5. /\ IsDisk(disk') /\ Whole(disk') /\ Repairable(disk')
      /\ IsLast(disk', ordinal') /\ Gains(disk, disk', g.receipts)
  <2> DEFINE e == Appended(disk, ordinal, roll, historyFloor, g)
  <2>1. g \in Fold /\ MayRoll(disk, ordinal, roll)
    BY <1>1, <1>2
  <2>2. /\ IsDisk(e) /\ Whole(e) /\ Repairable(e)
        /\ IsLast(e, Target(ordinal, roll)) /\ Gains(disk, e, g.receipts)
    BY <1>4, <2>1, AppendedFacts
  <2>3. disk' = e /\ ordinal' = Target(ordinal, roll)
    BY <1>3
  <2> HIDE DEF e
  <2> QED
    BY <2>2, <2>3
<1>6. Receipts(disk') = Receipts(disk) \cup {r}
  BY <1>2, <1>5 DEF Gains
<1>7. Attached'
  BY <1>1, <1>3, <1>5, <1>6 DEF Attached, Physical
<1>8. MemoryOK'
  <2>1. ordinal' \in 0..MaxSegments
    BY <1>5, BoundsAreNumbers DEF IsLast, IsMax, IsDisk
  <2>2. assertions' \subseteq Believed
    <3>1. {[a EXCEPT !.sup = Now] : a \in Stamped(T)} \subseteq Believed
      BY <1>2 DEF Stamped, Believed, Physical, MemoryOK
    <3>2. {[id |-> b.id, seq |-> b.seq, at |-> b.at, sup |-> Null] : b \in NewBodies(n)}
            \subseteq Believed
      BY <1>2, BoundsAreNumbers DEF Believed, Body, Null, Instants
    <3> QED
      BY <3>1, <3>2 DEF Commit, Physical, MemoryOK
  <2>3. submissions' \subseteq Receipt
    BY <1>2, <1>3 DEF Physical, MemoryOK
  <2> QED
    BY <1>1, <1>2, <2>1, <2>2, <2>3 DEF MemoryOK, Commit, Physical
<1>9. HistoryOK'
  BY <1>2, <1>3 DEF HistoryOK, Commit, Physical
<1>10. LedgerStep
  <2>1. Ledger!FreshKey(r)
    BY <1>1, <1>2, FreshReceipt DEF Ledger!FreshKey
  <2>2. Ledger!Record(r)
    BY <1>2, <1>3, <1>6, <2>1 DEF Ledger!Record, Ledger!Acknowledgement
  <2> QED
    BY <1>2, <2>2 DEF LedgerStep, Ledger!Next
<1> QED
  BY <1>5, <1>7, <1>8, <1>9, <1>10 DEF Physical

LEMMA CommitCrashStep ==
  ASSUME Physical, NEW k \in Keys, NEW dg \in Digests, NEW n \in 1..MaxDrafts,
         NEW T, NEW roll \in BOOLEAN, CommitCrash(k, dg, n, T, roll)
  PROVE  Physical' /\ LedgerStep
<1> DEFINE r == NewReceipt(k, dg, n)
           g == CommitGroup(k, dg, n, T)
<1>1. MayCommit(k, n, T, roll) /\ up /\ MayRoll(disk, ordinal, roll)
  BY DEF CommitCrash, MayCommit
<1>2. /\ r \in Receipt /\ r.key = k /\ g \in Fold /\ g.receipts = {r}
      /\ minted + n \in 0..MaxMinted
  BY <1>1, CommitGroupFacts
<1>3. /\ disk' \in CrashImages(disk, ordinal, roll, historyFloor, g)
      /\ acked' = acked /\ Down
  BY DEF CommitCrash
<1> HIDE DEF r, g
<1>4. IsDisk(disk) /\ Whole(disk) /\ IsLast(disk, ordinal) /\ historyFloor \in Instants
  BY <1>1 DEF Physical, Attached, MemoryOK
<1>5. /\ IsDisk(disk') /\ Repairable(disk')
      /\ \E R \in SUBSET g.receipts : Gains(disk, disk', R)
  BY <1>1, <1>2, <1>3, <1>4, CrashImageFacts
<1>6. HistoryOK'
  BY <1>2 DEF HistoryOK, CommitCrash, Physical
<1>7. Physical'
  BY <1>3, <1>5, <1>6, DownFacts
<1>8. LedgerStep
  <2>1. Receipts(disk') = Receipts(disk) \/ Receipts(disk') = Receipts(disk) \cup {r}
    <3>1. PICK R \in SUBSET g.receipts : Gains(disk, disk', R)
      BY <1>5
    <3>2. R = {} \/ R = {r}
      BY <1>2, <3>1
    <3> QED
      BY <3>1, <3>2 DEF Gains
  <2>2. CASE Receipts(disk') = Receipts(disk) \cup {r}
    <3>1. Ledger!FreshKey(r)
      BY <1>1, <1>2, FreshReceipt DEF Ledger!FreshKey
    <3>2. Ledger!Record(r)
      BY <1>3, <2>2, <3>1 DEF Ledger!Record
    <3> QED
      BY <1>2, <3>2 DEF LedgerStep, Ledger!Next
  <2> QED
    BY <1>3, <2>1, <2>2 DEF LedgerStep
<1> QED
  BY <1>7, <1>8

LEMMA ReplayStep ==
  ASSUME Physical, NEW k \in Keys, NEW dg \in Digests, Replay(k, dg)
  PROVE  Physical' /\ LedgerStep
<1>1. PICK r \in Prior(k) :
         acked' = IF r.digest = dg THEN acked \cup {[digest |-> dg, receipt |-> r]}
                                   ELSE acked
  BY DEF Replay
<1>2. r \in Receipts(disk) /\ r \in Receipt
  BY <1>1 DEF Prior, Replay, Physical, Attached, MemoryOK
<1>3. disk' = disk /\ MemoryOK' /\ Attached'
  BY DEF Replay, Physical, Attached, MemoryOK, memory
<1>4. HistoryOK'
  BY <1>1, <1>2 DEF Replay, Physical, HistoryOK
<1>5. LedgerStep
  <2>1. CASE r.digest = dg
    <3>1. acked' = acked \cup {Ledger!Acknowledgement(r)}
      BY <1>1, <2>1 DEF Ledger!Acknowledgement
    <3>2. Ledger!Acknowledge(r)
      BY <1>2, <1>3, <3>1 DEF Ledger!Acknowledge
    <3> QED
      BY <1>2, <3>2 DEF LedgerStep, Ledger!Next
  <2>2. CASE r.digest # dg
    BY <1>1, <1>3, <2>2 DEF LedgerStep
  <2> QED
    BY <2>1, <2>2
<1> QED
  BY <1>3, <1>4, <1>5 DEF Physical

LEMMA CommitUnknownTargetStep ==
  ASSUME Physical, CommitUnknownTarget
  PROVE  Physical' /\ LedgerStep
<1>1. lastRecordedMillis' \in Instants
  BY BoundsAreNumbers DEF CommitUnknownTarget, Physical, MemoryOK, Now, Instants
<1>2. MemoryOK' /\ HistoryOK' /\ Attached' /\ disk' = disk /\ acked' = acked
  BY <1>1 DEF CommitUnknownTarget, Physical, MemoryOK, HistoryOK, Attached, history
<1> QED
  BY <1>2 DEF Physical, LedgerStep
-----------------------------------------------------------------------------
(* The feed and the floor *)

LEMMA CursorIsTyped ==
  ASSUME Physical, NEW cursor \in Cursors, NEW limit,
         NEW n \in NextCursor(Page(cursor, limit), cursor)
  PROVE  n \in Cursors
<1>1. \A a \in Page(cursor, limit) : a.seq \in Cursors
  BY BoundsAreNumbers DEF Page, Physical, MemoryOK, Believed, Seqs, Cursors
<1> QED
  BY <1>1 DEF NextCursor

\* An append that carries no receipt, by a process that goes on.
LEMMA QuietStep ==
  ASSUME Physical, up, NEW roll \in BOOLEAN, MayRoll(disk, ordinal, roll),
         NEW g \in Fold, g.receipts = {}
  PROVE  LET e == Appended(disk, ordinal, roll, historyFloor, g)
         IN  /\ IsDisk(e) /\ Whole(e) /\ Repairable(e)
             /\ IsLast(e, Target(ordinal, roll)) /\ Receipts(e) = Receipts(disk)
             /\ Target(ordinal, roll) \in 0..MaxSegments
<1> DEFINE e == Appended(disk, ordinal, roll, historyFloor, g)
<1>1. IsDisk(disk) /\ Whole(disk) /\ IsLast(disk, ordinal) /\ historyFloor \in Instants
  BY DEF Physical, Attached, MemoryOK
<1>2. IsDisk(e) /\ Whole(e) /\ Repairable(e) /\ IsLast(e, Target(ordinal, roll))
  BY <1>1, AppendedFacts
<1>3. Receipts(e) = Receipts(disk)
  BY <1>1, QuietAppend
<1> HIDE DEF e
<1>4. Target(ordinal, roll) \in 0..MaxSegments
  BY <1>2, BoundsAreNumbers DEF IsLast, IsMax, IsDisk
<1> QED
  BY <1>2, <1>3, <1>4 DEF e

\* The same append, by a process that dies of it.
LEMMA QuietCrash ==
  ASSUME Physical, up, NEW roll \in BOOLEAN, MayRoll(disk, ordinal, roll),
         NEW g \in Fold, g.receipts = {},
         disk' \in CrashImages(disk, ordinal, roll, historyFloor, g),
         Down, HistoryOK', acked' = acked
  PROVE  Physical' /\ LedgerStep
<1>1. IsDisk(disk) /\ Whole(disk) /\ IsLast(disk, ordinal) /\ historyFloor \in Instants
  BY DEF Physical, Attached, MemoryOK
<1>2. IsDisk(disk') /\ Repairable(disk') /\ Receipts(disk') = Receipts(disk)
  BY <1>1, QuietAppend
<1> QED
  BY <1>2, DownFacts DEF LedgerStep

LEMMA PageIsBodies ==
  ASSUME Physical, NEW cursor, NEW limit
  PROVE  {[id |-> a.id, seq |-> a.seq, at |-> a.at] : a \in Page(cursor, limit)}
           \subseteq Body
<1>1. Page(cursor, limit) \subseteq assertions
  BY DEF Page
<1>2. \A a \in Page(cursor, limit) : a \in Believed
  BY <1>1 DEF Physical, MemoryOK
<1> QED
  BY <1>2 DEF Believed, Body

LEMMA ChangesSinceStep ==
  ASSUME Physical, NEW cursor \in Cursors, NEW limit, NEW roll \in BOOLEAN,
         ChangesSince(cursor, limit, roll)
  PROVE  Physical' /\ LedgerStep
<1>1. HistoryOK' /\ acked' = acked
  BY PageIsBodies DEF ChangesSince, Physical, HistoryOK
<1>2. PICK n \in NextCursor(Page(cursor, limit), cursor) :
        IF n > publishedSeq
        THEN /\ Now <= MaxInstant /\ MayRoll(disk, ordinal, roll)
             /\ disk' = Appended(disk, ordinal, roll, historyFloor, WatermarkGroup(n))
             /\ ordinal' = Target(ordinal, roll)
             /\ lastRecordedMillis' = Now
             /\ publishedSeq' = n
        ELSE /\ ~roll
             /\ UNCHANGED <<disk, ordinal, lastRecordedMillis, publishedSeq>>
  BY DEF ChangesSince
<1>3. n \in Cursors
  BY CursorIsTyped
<1>4. /\ up' = up /\ up = TRUE /\ assertions' = assertions /\ submissions' = submissions
      /\ reclaimed' = reclaimed /\ nextSeq' = nextSeq /\ historyFloor' = historyFloor
  BY DEF ChangesSince, Physical, MemoryOK
<1>5. CASE n > publishedSeq
  <2>1. /\ Now <= MaxInstant /\ MayRoll(disk, ordinal, roll)
        /\ disk' = Appended(disk, ordinal, roll, historyFloor, WatermarkGroup(n))
        /\ ordinal' = Target(ordinal, roll)
        /\ lastRecordedMillis' = Now /\ publishedSeq' = n
    BY <1>2, <1>5
  <2>2. Now \in Instants
    BY <2>1, BoundsAreNumbers DEF Now, Instants, Physical, MemoryOK
  <2>3. WatermarkGroup(n) \in Fold /\ WatermarkGroup(n).receipts = {}
    BY <1>3, <2>2, QuietGroups
  <2>4. /\ IsDisk(disk') /\ Whole(disk') /\ Repairable(disk')
        /\ IsLast(disk', ordinal') /\ Receipts(disk') = Receipts(disk)
        /\ ordinal' \in 0..MaxSegments
    <3>1. up /\ MayRoll(disk, ordinal, roll)
      BY <1>4, <2>1
    <3> QED
      BY <2>1, <2>3, <3>1, QuietStep
  <2>5. Attached'
    BY <1>4, <2>4 DEF Attached, Physical
  <2>6. MemoryOK'
    BY <1>3, <1>4, <2>1, <2>2, <2>4 DEF MemoryOK, Physical
  <2> QED
    BY <1>1, <2>4, <2>5, <2>6 DEF Physical, LedgerStep
<1>6. CASE ~(n > publishedSeq)
  <2>1. UNCHANGED <<disk, ordinal, lastRecordedMillis, publishedSeq>>
    BY <1>2, <1>6
  <2>2. MemoryOK' /\ Attached'
    BY <1>4, <2>1 DEF MemoryOK, Attached, Physical
  <2> QED
    BY <1>1, <2>1, <2>2 DEF Physical, LedgerStep
<1> QED
  BY <1>5, <1>6

LEMMA ChangesSinceCrashStep ==
  ASSUME Physical, NEW cursor \in Cursors, NEW limit, NEW roll \in BOOLEAN,
         ChangesSinceCrash(cursor, limit, roll)
  PROVE  Physical' /\ LedgerStep
<1>1. PICK n \in NextCursor(Page(cursor, limit), cursor) :
        disk' \in CrashImages(disk, ordinal, roll, historyFloor, WatermarkGroup(n))
  BY DEF ChangesSinceCrash
<1>2. Now \in Instants
  BY BoundsAreNumbers DEF ChangesSinceCrash, Now, Instants, Physical, MemoryOK
<1>3. WatermarkGroup(n) \in Fold /\ WatermarkGroup(n).receipts = {}
  BY <1>2, CursorIsTyped, QuietGroups
<1>4. up /\ MayRoll(disk, ordinal, roll) /\ Down
  BY DEF ChangesSinceCrash
<1>5. HistoryOK' /\ acked' = acked
  BY PageIsBodies DEF ChangesSinceCrash, Physical, HistoryOK
<1> QED
  BY <1>1, <1>3, <1>4, <1>5, QuietCrash

LEMMA AdvanceHistoryFloorStep ==
  ASSUME Physical, NEW to, NEW roll \in BOOLEAN, AdvanceHistoryFloor(to, roll)
  PROVE  Physical' /\ LedgerStep
<1>1. to \in Instants /\ Now \in Instants /\ up = TRUE /\ MayRoll(disk, ordinal, roll)
  BY BoundsAreNumbers
     DEF AdvanceHistoryFloor, MayAdvance, Now, Instants, Physical, MemoryOK
<1>2. FloorGroup(to) \in Fold /\ FloorGroup(to).receipts = {}
  BY <1>1, QuietGroups
<1>3. /\ disk' = Appended(disk, ordinal, roll, historyFloor, FloorGroup(to))
      /\ ordinal' = Target(ordinal, roll)
  BY DEF AdvanceHistoryFloor
<1>4. /\ IsDisk(disk') /\ Whole(disk') /\ Repairable(disk')
      /\ IsLast(disk', ordinal') /\ Receipts(disk') = Receipts(disk)
      /\ ordinal' \in 0..MaxSegments
  BY <1>1, <1>2, <1>3, QuietStep
<1>5. Attached'
  BY <1>1, <1>4 DEF Attached, Physical, AdvanceHistoryFloor
<1>6. MemoryOK' /\ HistoryOK' /\ acked' = acked
  BY <1>1, <1>4 DEF MemoryOK, HistoryOK, Physical, AdvanceHistoryFloor, history
<1> QED
  BY <1>4, <1>5, <1>6 DEF Physical, LedgerStep

LEMMA AdvanceHistoryFloorCrashStep ==
  ASSUME Physical, NEW to, NEW roll \in BOOLEAN, AdvanceHistoryFloorCrash(to, roll)
  PROVE  Physical' /\ LedgerStep
<1>1. to \in Instants /\ Now \in Instants /\ up /\ MayRoll(disk, ordinal, roll)
  BY BoundsAreNumbers
     DEF AdvanceHistoryFloorCrash, MayAdvance, Now, Instants, Physical, MemoryOK
<1>2. FloorGroup(to) \in Fold /\ FloorGroup(to).receipts = {}
  BY <1>1, QuietGroups
<1>3. /\ disk' \in CrashImages(disk, ordinal, roll, historyFloor, FloorGroup(to))
      /\ Down /\ UNCHANGED history
  BY DEF AdvanceHistoryFloorCrash
<1>4. HistoryOK' /\ acked' = acked
  BY <1>3 DEF Physical, HistoryOK, history
<1> QED
  BY <1>1, <1>2, <1>3, <1>4, QuietCrash
-----------------------------------------------------------------------------
(* Compaction *)

LEMMA CompactionGroupFacts ==
  ASSUME Physical, NEW g \in CompactionGroups
  PROVE  /\ g \in Fold /\ g.receipts \subseteq Receipts(disk)
         /\ \A o \in Candidates : disk[o].log.receipts \subseteq g.receipts
         /\ NotesOf(Candidates) \subseteq Note
<1> DEFINE R == UNION {disk[o].log.receipts : o \in Candidates}
<1>1. PICK high \in ScanSeqs(disk), highAt \in HighInstants :
        g = CompactionGroup(Candidates, high, highAt)
  BY DEF CompactionGroups
<1>2. /\ Bodies(disk) \subseteq Body /\ Receipts(disk) \subseteq Receipt
      /\ \A o \in DOMAIN disk : disk[o].log \in Fold
  BY DiskContents DEF Physical
<1>3. Candidates \subseteq DOMAIN disk
  BY DEF Candidates
<1>4. R \subseteq Receipts(disk) /\ R \subseteq Receipt
  BY <1>2, <1>3 DEF Receipts
<1>5. NotesOf(Candidates) \subseteq Note
  BY <1>2, <1>3 DEF NotesOf, Note, Body, Fold
<1>6. high \in 0..MaxMinted
  BY <1>2, BoundsAreNumbers DEF ScanSeqs, Body, Seqs, Fold
<1>7. highAt \in Instants
  BY <1>2 DEF HighInstants, Body, Physical, MemoryOK
<1>8. publishedSeq \in Cursors /\ historyFloor \in Instants
  BY DEF Physical, MemoryOK
<1>9. g = [NoFold EXCEPT !.receipts = R, !.reclaimed = NotesOf(Candidates),
                         !.high = high, !.instant = highAt,
                         !.published = publishedSeq, !.floor = historyFloor]
  BY <1>1 DEF CompactionGroup
<1>10. \A o \in Candidates : disk[o].log.receipts \subseteq R
  OBVIOUS
<1> HIDE DEF R
<1>11. g \in Fold /\ g.receipts = R
  BY <1>4, <1>5, <1>6, <1>7, <1>8, <1>9, NoFoldIsFold DEF Fold
<1> QED
  BY <1>4, <1>5, <1>10, <1>11

\* After the announcement any of the announced segments may go.
LEMMA ReclaimFacts ==
  ASSUME Physical, up, NEW roll \in BOOLEAN, MayRoll(disk, ordinal, roll),
         NEW g \in CompactionGroups, NEW C \in SUBSET Candidates
  PROVE  LET u == Unlinked(Appended(disk, ordinal, roll, historyFloor, g), C)
         IN  /\ IsDisk(u) /\ Whole(u) /\ Repairable(u)
             /\ IsLast(u, Target(ordinal, roll)) /\ Receipts(u) = Receipts(disk)
             /\ Target(ordinal, roll) \in 0..MaxSegments
<1> DEFINE e == Appended(disk, ordinal, roll, historyFloor, g)
           m == Target(ordinal, roll)
<1>1. IsDisk(disk) /\ Whole(disk) /\ IsLast(disk, ordinal) /\ historyFloor \in Instants
  BY DEF Physical, Attached, MemoryOK
<1>2. /\ g \in Fold /\ g.receipts \subseteq Receipts(disk)
      /\ \A o \in Candidates : disk[o].log.receipts \subseteq g.receipts
  BY CompactionGroupFacts
<1>3. /\ IsDisk(e) /\ Whole(e) /\ IsLast(e, m) /\ Gains(disk, e, g.receipts)
      /\ DOMAIN e = DOMAIN disk \cup {m}
      /\ g.receipts \subseteq e[m].log.receipts
      /\ \A x \in DOMAIN disk \ {m} : e[x] = disk[x]
  BY <1>1, <1>2, AppendedFacts
<1>4. Receipts(e) = Receipts(disk)
  BY <1>2, <1>3 DEF Gains
<1>5. m \notin C /\ C \subseteq DOMAIN disk
  <2>1. CASE roll
    BY <1>1, <2>1, TargetFacts DEF Candidates
  <2>2. CASE ~roll
    BY <2>2 DEF Target, Candidates, Reclaimable
  <2> QED
    BY <2>1, <2>2
<1> HIDE DEF e, m
<1>6. C \in SUBSET DOMAIN e /\ \A o \in C : e[o].log.receipts \subseteq e[m].log.receipts
  BY <1>2, <1>3, <1>5
<1>7. /\ IsDisk(Unlinked(e, C)) /\ Whole(Unlinked(e, C))
      /\ Repairable(Unlinked(e, C)) /\ IsLast(Unlinked(e, C), m)
      /\ Receipts(Unlinked(e, C)) = Receipts(e)
  BY <1>3, <1>5, <1>6, UnlinkedFacts
<1>8. m \in 0..MaxSegments
  BY <1>3, BoundsAreNumbers DEF IsLast, IsMax, IsDisk
<1> QED
  BY <1>4, <1>7, <1>8 DEF e, m

LEMMA CompactStep ==
  ASSUME Physical, NEW roll \in BOOLEAN, Compact(roll)
  PROVE  Physical' /\ LedgerStep
<1>1. up = TRUE /\ MayRoll(disk, ordinal, roll) /\ compactions < MaxCompactions
  BY DEF Compact, MayCompact, Physical, MemoryOK
<1>2. PICK g \in CompactionGroups :
        disk' = Unlinked(Appended(disk, ordinal, roll, historyFloor, g), Candidates)
  BY DEF Compact
<1>3. ordinal' = Target(ordinal, roll)
  BY DEF Compact
<1>4. /\ IsDisk(disk') /\ Whole(disk') /\ Repairable(disk')
      /\ IsLast(disk', ordinal') /\ Receipts(disk') = Receipts(disk)
      /\ ordinal' \in 0..MaxSegments
  BY <1>1, <1>2, <1>3, ReclaimFacts
<1>5. NotesOf(Candidates) \subseteq Note
  BY CompactionGroupFacts
<1>6. MemoryOK'
  BY <1>4, <1>5 DEF Compact, MemoryOK, Physical
<1>7. HistoryOK' /\ acked' = acked
  BY <1>1, BoundsAreNumbers DEF Compact, HistoryOK, Physical
<1>8. Attached'
  BY <1>1, <1>4 DEF Compact, Attached, Physical
<1> QED
  BY <1>4, <1>6, <1>7, <1>8 DEF Physical, LedgerStep

LEMMA CompactCrashStep ==
  ASSUME Physical, NEW roll \in BOOLEAN, CompactCrash(roll)
  PROVE  Physical' /\ LedgerStep
<1>1. up /\ MayRoll(disk, ordinal, roll) /\ compactions < MaxCompactions /\ Down
  BY DEF CompactCrash, MayCompact
<1>2. HistoryOK' /\ acked' = acked
  BY <1>1, BoundsAreNumbers DEF CompactCrash, HistoryOK, Physical
<1>3. PICK g \in CompactionGroups :
        \/ disk' \in CrashImages(disk, ordinal, roll, historyFloor, g)
        \/ \E x \in Candidates :
             disk' = Unlinked(Appended(disk, ordinal, roll, historyFloor, g),
                              {o \in Candidates : o <= x})
  BY DEF CompactCrash
<1>4. IsDisk(disk') /\ Repairable(disk') /\ Receipts(disk') = Receipts(disk)
  <2>1. CASE disk' \in CrashImages(disk, ordinal, roll, historyFloor, g)
    <3>1. IsDisk(disk) /\ Whole(disk) /\ IsLast(disk, ordinal)
          /\ historyFloor \in Instants
      BY <1>1 DEF Physical, Attached, MemoryOK
    <3>2. g \in Fold /\ g.receipts \subseteq Receipts(disk)
      BY CompactionGroupFacts
    <3>3. /\ IsDisk(disk') /\ Repairable(disk')
          /\ \E R \in SUBSET g.receipts : Gains(disk, disk', R)
      BY <1>1, <2>1, <3>1, <3>2, CrashImageFacts
    <3> QED
      BY <3>2, <3>3 DEF Gains
  <2>2. CASE \E x \in Candidates :
               disk' = Unlinked(Appended(disk, ordinal, roll, historyFloor, g),
                                {o \in Candidates : o <= x})
    <3>1. PICK C \in SUBSET Candidates :
            disk' = Unlinked(Appended(disk, ordinal, roll, historyFloor, g), C)
      BY <2>2
    <3> QED
      BY <1>1, <3>1, ReclaimFacts
  <2> QED
    BY <1>3, <2>1, <2>2
<1> QED
  BY <1>1, <1>2, <1>4, DownFacts DEF LedgerStep
-----------------------------------------------------------------------------
(* Every step, and the theorems *)

LEMMA InitEstablishes == Init => IInv
<1> SUFFICES ASSUME Init PROVE IInv
  OBVIOUS
<1>1. IsDisk(disk) /\ Repairable(disk) /\ Receipts(disk) = {}
  BY DEF Init, IsDisk, Repairable, Receipts
<1>2. MemoryOK
  <2>1. /\ 0 \in 0..MaxSegments /\ 1 \in 1..(MaxMinted + 1)
        /\ 0 \in Instants /\ 0 \in Cursors
    BY BoundsAreNumbers DEF Instants, Cursors
  <2> QED
    BY <2>1 DEF Init, MemoryOK
<1>3. HistoryOK /\ Attached
  BY BoundsAreNumbers DEF Init, HistoryOK, Attached
<1> QED
  BY <1>1, <1>2, <1>3 DEF Init, IInv, Physical, OneReceiptOnDisk, AckedOnDisk

\* Calls that run to their end.
LEMMA SteadyStep ==
  ASSUME Physical, Steady
  PROVE  Physical' /\ LedgerStep
<1>1. CASE Opens
  BY <1>1, OpenNewStep, OpenExistingStep DEF Opens
<1>2. CASE Submissions(Commit)
  <2>1. PICK k \in Keys, dg \in Digests, n \in 1..MaxDrafts, roll \in BOOLEAN :
          \E T \in SUBSET {a.id : a \in assertions} : Commit(k, dg, n, T, roll)
    BY <1>2 DEF Submissions
  <2>2. PICK T : Commit(k, dg, n, T, roll)
    BY <2>1
  <2> QED
    BY <2>2, CommitStep
<1>3. CASE \E k \in Keys, dg \in Digests : Replay(k, dg)
  BY <1>3, ReplayStep
<1>4. CASE CommitUnknownTarget
  BY <1>4, CommitUnknownTargetStep
<1>5. CASE \E limit \in 1..MaxMinted, roll \in BOOLEAN : ReadChanges(limit, roll)
  <2>1. PICK limit \in 1..MaxMinted, roll \in BOOLEAN, cursor \in Cursors :
          ChangesSince(cursor, limit, roll)
    BY <1>5 DEF ReadChanges
  <2> QED
    BY <2>1, ChangesSinceStep
<1>6. CASE \E roll \in BOOLEAN : DescribeContract(roll)
  <2>1. PICK roll \in BOOLEAN : ChangesSince(MaxSafeInteger, 0, roll)
    BY <1>6 DEF DescribeContract
  <2>2. MaxSafeInteger \in Cursors
    BY BoundsAreNumbers DEF Cursors
  <2> QED
    BY <2>1, <2>2, ChangesSinceStep
<1>7. CASE \E to \in Instants, roll \in BOOLEAN : AdvanceHistoryFloor(to, roll)
  BY <1>7, AdvanceHistoryFloorStep
<1>8. CASE \E roll \in BOOLEAN : Compact(roll)
  BY <1>8, CompactStep
<1> QED
  BY <1>1, <1>2, <1>3, <1>4, <1>5, <1>6, <1>7, <1>8 DEF Steady

\* Deaths of the process.
LEMMA FaultStep ==
  ASSUME Physical, Faults
  PROVE  Physical' /\ LedgerStep
<1>1. CASE Crash
  BY <1>1, CrashStep
<1>2. CASE OpenNewCrash
  BY <1>2, OpenNewCrashStep
<1>3. CASE Removes
  BY <1>3, RemoveHeaderlessStep DEF Removes
<1>4. CASE \E n \in DOMAIN disk, roll \in BOOLEAN : OpenExistingCrash(n, roll)
  BY <1>4, OpenExistingCrashStep
<1>5. CASE Submissions(CommitCrash)
  <2>1. PICK k \in Keys, dg \in Digests, n \in 1..MaxDrafts, roll \in BOOLEAN :
          \E T \in SUBSET {a.id : a \in assertions} : CommitCrash(k, dg, n, T, roll)
    BY <1>5 DEF Submissions
  <2>2. PICK T : CommitCrash(k, dg, n, T, roll)
    BY <2>1
  <2> QED
    BY <2>2, CommitCrashStep
<1>6. CASE \E cursor \in Cursors, limit \in 0..MaxMinted, roll \in BOOLEAN :
             ChangesSinceCrash(cursor, limit, roll)
  <2>1. PICK cursor \in Cursors, limit \in 0..MaxMinted, roll \in BOOLEAN :
             ChangesSinceCrash(cursor, limit, roll)
    BY <1>6
  <2> QED
    BY <2>1, ChangesSinceCrashStep
<1>7. CASE \E to \in Instants, roll \in BOOLEAN : AdvanceHistoryFloorCrash(to, roll)
  BY <1>7, AdvanceHistoryFloorCrashStep
<1>8. CASE \E roll \in BOOLEAN : CompactCrash(roll)
  BY <1>8, CompactCrashStep
<1> QED
  BY <1>1, <1>2, <1>3, <1>4, <1>5, <1>6, <1>7, <1>8 DEF Faults

\* The two halves meet: ledger steps keep keys and acknowledgements straight.
LEMMA LedgerKeepsReceipts ==
  ASSUME OneReceiptOnDisk, AckedOnDisk, LedgerStep
  PROVE  OneReceiptOnDisk' /\ AckedOnDisk'
<1>1. CASE Receipts(disk') = Receipts(disk) /\ acked' = acked
  BY <1>1 DEF OneReceiptOnDisk, AckedOnDisk
<1>2. ASSUME NEW r, Ledger!Record(r)
      PROVE  OneReceiptOnDisk' /\ AckedOnDisk'
  BY <1>2 DEF OneReceiptOnDisk, AckedOnDisk, Ledger!Record, Ledger!FreshKey,
              Ledger!Acknowledgement
<1>3. ASSUME NEW r, Ledger!Acknowledge(r)
      PROVE  OneReceiptOnDisk' /\ AckedOnDisk'
  BY <1>3 DEF OneReceiptOnDisk, AckedOnDisk, Ledger!Acknowledge, Ledger!Acknowledgement
<1> QED
  BY <1>1, <1>2, <1>3 DEF LedgerStep, Ledger!Next

LEMMA NextPreserves ==
  ASSUME IInv, [Next]_vars
  PROVE  IInv' /\ LedgerStep
<1>1. CASE Next
  <2>1. Physical' /\ LedgerStep
    BY <1>1, SteadyStep, FaultStep DEF IInv, Next
  <2> QED
    BY <2>1, LedgerKeepsReceipts DEF IInv
<1>2. CASE UNCHANGED vars
  <2>1. Physical' /\ LedgerStep
    BY <1>2 DEF IInv, Physical, Attached, MemoryOK, HistoryOK, LedgerStep,
                vars, memory, history
  <2> QED
    BY <2>1, LedgerKeepsReceipts DEF IInv
<1> QED
  BY <1>1, <1>2

\* The inductive invariant: the process and its directory agree, and so do the
\* receipts on disk and the acknowledgements given out.
THEOREM Invariance == Spec => []IInv
<1>1. IInv /\ [Next]_vars => IInv'
  BY NextPreserves
<1> QED
  BY <1>1, InitEstablishes, PTL DEF Spec

\* Every variable keeps its type, for any number of keys, payloads, segments
\* and compactions: in particular what the reader restores from a directory is
\* what the writer could have put there.
THEOREM TypeCorrect == Spec => []TypeOK
<1>1. IInv => TypeOK
  BY PhysicalIsTyped DEF IInv
<1> QED
  BY <1>1, Invariance, PTL

\* segment-reader.ts rule 2: after any crash, in any append, repair or
\* compaction, the only damage is at the tail of the newest segment.
THEOREM DamageConfined == Spec => []DamageOnlyAtTail
<1>1. IInv => DamageOnlyAtTail
  BY PhysicalConfinesDamage DEF IInv
<1> QED
  BY <1>1, Invariance, PTL

\* store.ts commit(): the journal is durable before the caller hears of it, and
\* compact() carries receipts forward, so an acknowledged receipt is never lost.
THEOREM AcknowledgedSurvive == Spec => []AckedSurvives
<1>1. IInv => AckedSurvives
  BY DEF IInv, Physical, AckedOnDisk, Repairable, AckedSurvives
<1> QED
  BY <1>1, Invariance, PTL

\* store.ts commit() and its replay: one idempotency key has one receipt for
\* ever, handed out only to the payload it was minted for.
THEOREM KeysNameOneReceipt == Spec => []OneReceiptPerKey
<1>1. IInv => OneReceiptPerKey
  BY DEF IInv, OneReceiptOnDisk, AckedOnDisk, OneReceiptPerKey
<1> QED
  BY <1>1, Invariance, PTL

\* The log with its segments, crashes, repairs and compactions implements the
\* ledger of receipts that a client may rely on.
THEOREM Refinement == Spec => ImplementsLedger
<1>1. Init => Ledger!Init
  <2> SUFFICES ASSUME Init PROVE Ledger!Init
    OBVIOUS
  <2>1. Receipts(disk) = {}
    BY DEF Init, Receipts
  <2> QED
    BY <2>1 DEF Init, Ledger!Init
<1>2. IInv /\ [Next]_vars => [Ledger!Next]_(Ledger!ledger)
  BY NextPreserves DEF LedgerStep, Ledger!ledger
<1> QED
  BY <1>1, <1>2, Invariance, PTL DEF Spec, ImplementsLedger, Ledger!Spec
=============================================================================
