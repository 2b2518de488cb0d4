------------------- MODULE DurableAssertionLogFeedProofs -------------------
(***************************************************************************)
(* For every number of drafts, ids, segments and compactions: a restart    *)
(* finds what the process held, the feed is one order, the retention floor *)
(* never regresses, as-of reads above it are stable, and sequence numbers  *)
(* leave no gap above the watermark.                                       *)
(***************************************************************************)
EXTENDS DurableAssertionLogProofs, WellFoundedInduction

\* What the reader folds out of a directory.  0 stands in every set of marks:
\* a segment that says nothing, or is not there, marks 0.
Notes(d)  == UNION {d[o].log.reclaimed : o \in DOMAIN d}
Highs(d)  == {0} \cup {d[o].log.high : o \in DOMAIN d}
Marks(d)  == {0} \cup {d[o].log.instant : o \in DOMAIN d}
Floors(d) == {0} \cup {d[o].log.floor : o \in DOMAIN d}
BodySeqs(d) == {b.seq : b \in Bodies(d)}
Tops(d)   == Highs(d) \cup BodySeqs(d)

Reaches(S, x) == \E y \in S : x <= y

\* T is S with m written over some of it: nothing but m is new, nothing below
\* the largest is lost.
Raised(S, T, m) == T \subseteq S \cup {m} /\ \A x \in S \cup {m} : Reaches(T, x)

\* Every body of e is where it was in d, or among g's in one segment.
Placed(d, e, g) ==
  \E m : \A o \in DOMAIN e : \A b \in e[o].log.assertions :
           \/ o \in DOMAIN d /\ b \in d[o].log.assertions
           \/ o = m /\ b \in g.assertions

\* The directory e reads as d joined with the group g.
Joined(d, e, g) ==
  /\ Bodies(e) = Bodies(d) \cup g.assertions
  /\ Stamps(e) = Stamps(d) \cup g.stamps
  /\ Notes(e) = Notes(d) \cup g.reclaimed
  /\ Raised(Highs(d), Highs(e), g.high)
  /\ Raised(Marks(d), Marks(e), g.instant)
  /\ Raised(Floors(d), Floors(e), g.floor)
  /\ Raised(ScanPublished(d), ScanPublished(e), g.published)
  /\ Placed(d, e, g)

\* A group with no body, stamp or note, and no sequence mark.
Quiet(g) ==
  g.assertions = {} /\ g.stamps = {} /\ g.reclaimed = {} /\ g.high = 0

Project(S) == {[id |-> a.id, seq |-> a.seq, at |-> a.at] : a \in S}
-----------------------------------------------------------------------------
(* The inductive invariant: the directory *)

\* An id names one body, which lies in one segment.
Homes(d) ==
  \A o, p \in DOMAIN d :
    \A b \in d[o].log.assertions, c \in d[p].log.assertions :
      b.id = c.id => o = p /\ b = c

InOrder(S) == \A a, b \in S : /\ a.seq = b.seq => a = b
                              /\ a.seq < b.seq => a.at <= b.at

\* Ids on disk were minted; a stamp is later than the start of time and not
\* earlier than the body it ends.
StampsFollow(d, m) ==
  /\ \A b \in Bodies(d) : b.id <= m
  /\ \A s \in Stamps(d) : s.id <= m /\ s.at >= 1
  /\ \A b \in Bodies(d), s \in Stamps(d) : s.id = b.id => b.at <= s.at

\* What was handed out is below the sequence mark, and still on disk or no later
\* than the floor and an instant mark.
Remembered(d, H) ==
  \A h \in H : /\ Reaches(Tops(d), h.seq)
               /\ h \in Bodies(d)
                    \/ (Reaches(Floors(d), h.at) /\ Reaches(Marks(d), h.at))

\* Numbers above every watermark are bodies.
Contiguous(d) ==
  \A q \in Seqs : Reaches(Tops(d), q) =>
                    q \in BodySeqs(d) \/ Reaches(ScanPublished(d), q)

\* Until a second compaction drops the notes of the first, every number is a
\* body or a note.
Noted(d, c) ==
  /\ \A n \in Notes(d) : Reaches(Tops(d), n.seq)
  /\ c = 0 => Notes(d) = {}
  /\ c <= 1 => \A q \in Seqs : Reaches(Tops(d), q) =>
                                 q \in BodySeqs(d) \/ \E n \in Notes(d) : n.seq = q

DiskInv(d, H, m, c) ==
  /\ Homes(d) /\ InOrder(H \cup Bodies(d)) /\ StampsFollow(d, m)
  /\ Remembered(d, H) /\ Contiguous(d) /\ Noted(d, c)
-----------------------------------------------------------------------------
(* The inductive invariant: memory and directory *)

\* Whatever stamp of it is on disk, a believed assertion ended no later.
Superseded(d, S) ==
  \A a \in S, s \in Stamps(d) : s.id = a.id => a.sup # Null /\ a.sup <= s.at

\* A restart would find what the process holds: the bodies and the marks.  Time
\* has passed every body, on disk or handed out.
Agrees(d, H, A, R, next, last, pub, floor) ==
  /\ Bodies(d) = Project(A)
  /\ IsMax(next - 1, Tops(d))
  /\ IsMax(pub, ScanPublished(d))
  /\ IsMax(floor, Floors(d))
  /\ Superseded(d, A)
  /\ \A b \in H \cup Bodies(d) : b.at <= last
  /\ \A a \in A : a.sup <= last
  /\ \A n \in R : n.seq <= next - 1

MemoryInv == Agrees(disk, handed, assertions, reclaimed, nextSeq,
                    lastRecordedMillis, publishedSeq, historyFloor)

\* A process that is down holds nothing.
Blank ==
  /\ assertions = {} /\ reclaimed = {} /\ nextSeq = 1 /\ lastRecordedMillis = 0
  /\ publishedSeq = 0 /\ historyFloor = 0

FeedInv ==
  /\ DiskInv(disk, handed, minted, compactions)
  /\ IF up THEN MemoryInv ELSE Blank

-----------------------------------------------------------------------------
(* Marks *)

LEMMA LargerFacts ==
  ASSUME NEW x \in Nat, NEW y \in Nat
  PROVE  /\ Larger(x, y) \in Nat /\ x <= Larger(x, y) /\ y <= Larger(x, y)
         /\ Larger(x, y) \in {x, y}
BY DEF Larger

\* One of the marks, old, is raised to x, or x is written beside it.
LEMMA RaiseOne ==
  ASSUME NEW x \in Nat, NEW S \in SUBSET Nat, NEW old \in S, NEW T,
         Larger(old, x) \in T, T \subseteq S \cup {Larger(old, x)},
         \A y \in S : y = old \/ y \in T
  PROVE  Raised(S, T, x)
<1>1. old \in Nat /\ old <= Larger(old, x) /\ x <= Larger(old, x)
      /\ Larger(old, x) \in {old, x}
  BY LargerFacts
<1>2. T \subseteq S \cup {x}
  BY <1>1
<1>3. ASSUME NEW y \in S \cup {x} PROVE Reaches(T, y)
  BY <1>1 DEF Reaches
<1> QED
  BY <1>2, <1>3 DEF Raised

\* The marks of a directory are numbers.
LEMMA MarksAreNumbers ==
  ASSUME NEW d, IsDisk(d)
  PROVE  /\ Highs(d) \subseteq 0..MaxMinted /\ ScanPublished(d) \subseteq Cursors
         /\ Marks(d) \subseteq Instants /\ Floors(d) \subseteq Instants
         /\ BodySeqs(d) \subseteq Seqs /\ BodySeqs(d) \subseteq 1..MaxMinted
         /\ Notes(d) \subseteq Note
<1>1. \A o \in DOMAIN d : d[o].log \in Fold
  BY DiskContents
<1>2. Bodies(d) \subseteq Body
  BY DiskContents
<1>3. 0 \in 0..MaxMinted /\ 0 \in Cursors /\ 0 \in Instants
  BY BoundsAreNumbers DEF Cursors, Instants
<1>4. \A o \in DOMAIN d : /\ d[o].log.high \in 0..MaxMinted
                          /\ d[o].log.published \in Cursors
                          /\ d[o].log.instant \in Instants
                          /\ d[o].log.floor \in Instants
                          /\ d[o].log.reclaimed \subseteq Note
  BY <1>1 DEF Fold
<1>5. BodySeqs(d) \subseteq Seqs
  BY <1>2 DEF BodySeqs, Body
<1> QED
  BY <1>3, <1>4, <1>5 DEF Highs, ScanPublished, Marks, Floors, Notes, Seqs

LEMMA FoldsAreNumbers ==
  ASSUME NEW f \in Fold
  PROVE  /\ f.high \in Nat /\ f.instant \in Nat /\ f.floor \in Nat
         /\ f.published \in Nat
BY BoundsAreNumbers DEF Fold, Cursors, Instants
-----------------------------------------------------------------------------
(* One segment file changes: what becomes of the scan *)

\* What a write to segment m starts from: that segment's records, or a fresh
\* segment whose header states a floor already known.
StartsFrom(d, m, old) ==
  /\ m \in DOMAIN d => old = d[m].log
  /\ m \notin DOMAIN d => \E f \in Floors(d) : old = [NoFold EXCEPT !.floor = f]

LEMMA StartFacts ==
  ASSUME NEW d, IsDisk(d), NEW m, NEW old, StartsFrom(d, m, old)
  PROVE  /\ old \in Fold
         /\ m \notin DOMAIN d =>
              /\ old.assertions = {} /\ old.stamps = {} /\ old.reclaimed = {}
              /\ old.high = 0 /\ old.instant = 0 /\ old.published = 0
              /\ old.floor \in Floors(d)
<1>1. CASE m \in DOMAIN d
  BY <1>1, DiskContents DEF StartsFrom
<1>2. CASE m \notin DOMAIN d
  <2>1. PICK f \in Floors(d) : old = [NoFold EXCEPT !.floor = f]
    BY <1>2 DEF StartsFrom
  <2>2. f \in Instants
    BY MarksAreNumbers
  <2>3. old \in Fold
    BY <2>1, <2>2, NoFoldIsFold DEF Fold
  <2> QED
    BY <1>2, <2>1, <2>3 DEF NoFold
<1> QED
  BY <1>1, <1>2

LEMMA PutJoined ==
  ASSUME NEW d, IsDisk(d), NEW m \in 1..MaxSegments, NEW seg \in Segment,
         NEW g \in Fold, NEW old, StartsFrom(d, m, old), seg.log = Join(old, g)
  PROVE  Joined(d, Put(d, m, seg), g)
<1> DEFINE e == Put(d, m, seg)
<1>1. /\ DOMAIN e = DOMAIN d \cup {m}
      /\ e[m] = seg
      /\ \A x \in DOMAIN d \ {m} : e[x] = d[x]
  BY DEF Put
<1>2. /\ old \in Fold
      /\ m \in DOMAIN d => old = d[m].log
      /\ m \notin DOMAIN d =>
           /\ old.assertions = {} /\ old.stamps = {} /\ old.reclaimed = {}
           /\ old.high = 0 /\ old.instant = 0 /\ old.published = 0
           /\ old.floor \in Floors(d)
  BY StartFacts DEF StartsFrom
<1>3. /\ e[m].log.assertions = old.assertions \cup g.assertions
      /\ e[m].log.stamps = old.stamps \cup g.stamps
      /\ e[m].log.reclaimed = old.reclaimed \cup g.reclaimed
      /\ e[m].log.high = Larger(old.high, g.high)
      /\ e[m].log.instant = Larger(old.instant, g.instant)
      /\ e[m].log.floor = Larger(old.floor, g.floor)
      /\ e[m].log.published = Larger(old.published, g.published)
  BY <1>1 DEF Join
<1>4. /\ old.high \in Nat /\ old.instant \in Nat /\ old.floor \in Nat
      /\ old.published \in Nat
      /\ g.high \in Nat /\ g.instant \in Nat /\ g.floor \in Nat /\ g.published \in Nat
      /\ \A o \in DOMAIN d : /\ d[o].log.high \in Nat /\ d[o].log.instant \in Nat
                             /\ d[o].log.floor \in Nat /\ d[o].log.published \in Nat
  BY <1>2, FoldsAreNumbers, DiskContents
<1> HIDE DEF e
<1>5. Bodies(e) = Bodies(d) \cup g.assertions
  BY <1>1, <1>2, <1>3 DEF Bodies
<1>6. Stamps(e) = Stamps(d) \cup g.stamps
  BY <1>1, <1>2, <1>3 DEF Stamps
<1>7. Notes(e) = Notes(d) \cup g.reclaimed
  BY <1>1, <1>2, <1>3 DEF Notes
<1>8. Placed(d, e, g)
  <2>1. ASSUME NEW o \in DOMAIN e, NEW b \in e[o].log.assertions
        PROVE  \/ o \in DOMAIN d /\ b \in d[o].log.assertions
               \/ o = m /\ b \in g.assertions
    <3>1. CASE o = m
      BY <3>1, <1>2, <1>3
    <3>2. CASE o # m
      BY <3>2, <1>1
    <3> QED
      BY <3>1, <3>2
  <2> QED
    BY <2>1 DEF Placed
<1>9. Raised(Highs(d), Highs(e), g.high)
  <2>1. Highs(d) \in SUBSET Nat /\ old.high \in Highs(d) /\ g.high \in Nat
    BY <1>2, <1>4 DEF Highs
  <2>2. /\ Larger(old.high, g.high) \in Highs(e)
        /\ Highs(e) \subseteq Highs(d) \cup {Larger(old.high, g.high)}
        /\ \A y \in Highs(d) : y = old.high \/ y \in Highs(e)
    BY <1>1, <1>2, <1>3 DEF Highs
  <2> QED
    BY <2>1, <2>2, RaiseOne
<1>10. Raised(Marks(d), Marks(e), g.instant)
  <2>1. Marks(d) \in SUBSET Nat /\ old.instant \in Marks(d) /\ g.instant \in Nat
    BY <1>2, <1>4 DEF Marks
  <2>2. /\ Larger(old.instant, g.instant) \in Marks(e)
        /\ Marks(e) \subseteq Marks(d) \cup {Larger(old.instant, g.instant)}
        /\ \A y \in Marks(d) : y = old.instant \/ y \in Marks(e)
    BY <1>1, <1>2, <1>3 DEF Marks
  <2> QED
    BY <2>1, <2>2, RaiseOne
<1>11. Raised(Floors(d), Floors(e), g.floor)
  <2>1. Floors(d) \in SUBSET Nat /\ old.floor \in Floors(d) /\ g.floor \in Nat
    BY <1>2, <1>4 DEF Floors
  <2>2. /\ Larger(old.floor, g.floor) \in Floors(e)
        /\ Floors(e) \subseteq Floors(d) \cup {Larger(old.floor, g.floor)}
        /\ \A y \in Floors(d) : y = old.floor \/ y \in Floors(e)
    BY <1>1, <1>2, <1>3 DEF Floors
  <2> QED
    BY <2>1, <2>2, RaiseOne
<1>12. Raised(ScanPublished(d), ScanPublished(e), g.published)
  <2>1. ScanPublished(d) \in SUBSET Nat /\ old.published \in ScanPublished(d) /\ g.published \in Nat
    BY <1>2, <1>4 DEF ScanPublished
  <2>2. /\ Larger(old.published, g.published) \in ScanPublished(e)
        /\ ScanPublished(e) \subseteq ScanPublished(d) \cup {Larger(old.published, g.published)}
        /\ \A y \in ScanPublished(d) : y = old.published \/ y \in ScanPublished(e)
    BY <1>1, <1>2, <1>3 DEF ScanPublished
  <2> QED
    BY <2>1, <2>2, RaiseOne
<1> QED
  BY <1>5, <1>6, <1>7, <1>8, <1>9, <1>10, <1>11, <1>12 DEF Joined, e

\* A whole segment, appended to.
LEMMA AppendToLog ==
  ASSUME NEW seg \in Segment, ~Damaged(seg), NEW g
  PROVE  AppendTo(seg, g).log = Join(seg.log, g)
<1>1. seg.log \in Fold /\ seg.open = NoOpen
  BY DEF Segment, Damaged
<1>2. [seg.log EXCEPT !.assertions = @ \cup seg.open.assertions,
                      !.stamps = @ \cup seg.open.stamps] = seg.log
  <2>1. /\ seg.log.assertions \cup seg.open.assertions = seg.log.assertions
        /\ seg.log.stamps \cup seg.open.stamps = seg.log.stamps
    BY <1>1 DEF NoOpen
  <2>2. ASSUME NEW f \in Fold
        PROVE  [f EXCEPT !.assertions = f.assertions, !.stamps = f.stamps] = f
    BY DEF Fold
  <2> QED
    BY <1>1, <2>1, <2>2
<1> QED
  BY <1>2 DEF AppendTo

\* Where an append starts from.
LEMMA TargetStart ==
  ASSUME NEW d, IsDisk(d), Whole(d), NEW n, IsLast(d, n),
         NEW roll \in BOOLEAN, MayRoll(d, n, roll), NEW floor \in Floors(d)
  PROVE  /\ StartsFrom(d, Target(n, roll), TargetSegment(d, n, roll, floor).log)
         /\ TargetSegment(d, n, roll, floor) \in Segment
         /\ ~Damaged(TargetSegment(d, n, roll, floor))
         /\ Target(n, roll) \in 1..MaxSegments
<1>1. floor \in Instants
  BY MarksAreNumbers
<1>2. /\ Target(n, roll) \in 1..MaxSegments
      /\ roll => Target(n, roll) \notin DOMAIN d
      /\ ~roll => Target(n, roll) \in DOMAIN d
      /\ TargetSegment(d, n, roll, floor) \in Segment
      /\ ~Damaged(TargetSegment(d, n, roll, floor))
  BY <1>1, TargetFacts
<1>3. CASE roll
  <2>1. TargetSegment(d, n, roll, floor).log = [NoFold EXCEPT !.floor = floor]
    BY <1>3 DEF TargetSegment, FreshSegment
  <2> QED
    BY <1>2, <1>3, <2>1 DEF StartsFrom
<1>4. CASE ~roll
  BY <1>2, <1>4 DEF StartsFrom, Target, TargetSegment
<1> QED
  BY <1>2, <1>3, <1>4

LEMMA AppendedJoined ==
  ASSUME NEW d, IsDisk(d), Whole(d), NEW n, IsLast(d, n),
         NEW roll \in BOOLEAN, MayRoll(d, n, roll), NEW floor \in Floors(d),
         NEW g \in Fold
  PROVE  Joined(d, Appended(d, n, roll, floor, g), g)
<1> DEFINE m == Target(n, roll)
           seg == TargetSegment(d, n, roll, floor)
           new == AppendTo(seg, g)
<1>1. /\ StartsFrom(d, m, seg.log) /\ seg \in Segment /\ ~Damaged(seg)
      /\ m \in 1..MaxSegments
  BY TargetStart
<1>2. new.log = Join(seg.log, g) /\ new \in Segment
  <2> HIDE DEF seg
  <2> QED
    BY <1>1, AppendToLog, AppendToIsSegment
<1>3. Appended(d, n, roll, floor, g) = Put(d, m, new)
  BY DEF Appended
<1> HIDE DEF m, seg, new
<1>4. Joined(d, Put(d, m, new), g)
  BY <1>1, <1>2, PutJoined
<1> QED
  BY <1>3, <1>4

\* The segment appended to holds what the group says.
LEMMA AppendedTail ==
  ASSUME NEW d, IsDisk(d), Whole(d), NEW n, IsLast(d, n),
         NEW roll \in BOOLEAN, MayRoll(d, n, roll), NEW floor \in Floors(d),
         NEW g \in Fold
  PROVE  LET f == Appended(d, n, roll, floor, g)[Target(n, roll)].log
         IN  /\ g.reclaimed \subseteq f.reclaimed
             /\ g.high <= f.high /\ g.instant <= f.instant
             /\ g.floor <= f.floor /\ g.published <= f.published
<1> DEFINE m == Target(n, roll)
           seg == TargetSegment(d, n, roll, floor)
           new == AppendTo(seg, g)
<1>1. /\ StartsFrom(d, m, seg.log) /\ seg \in Segment /\ ~Damaged(seg)
      /\ m \in 1..MaxSegments
  BY TargetStart
<1>2. new.log = Join(seg.log, g) /\ seg.log \in Fold
  <2> HIDE DEF seg
  <2> QED
    BY <1>1, AppendToLog DEF Segment
<1>3. Appended(d, n, roll, floor, g)[m] = new
  BY DEF Appended, Put
<1> HIDE DEF m, seg, new
<1>4. /\ seg.log.high \in Nat /\ seg.log.instant \in Nat
      /\ seg.log.floor \in Nat /\ seg.log.published \in Nat
      /\ g.high \in Nat /\ g.instant \in Nat /\ g.floor \in Nat /\ g.published \in Nat
  BY <1>2, FoldsAreNumbers
<1>5. /\ g.reclaimed \subseteq new.log.reclaimed
      /\ g.high <= new.log.high /\ g.instant <= new.log.instant
      /\ g.floor <= new.log.floor /\ g.published <= new.log.published
  BY <1>2, <1>4 DEF Join, Larger
<1> QED
  BY <1>3, <1>5 DEF m

\* Segments that hold nothing come and go unseen.
LEMMA NothingJoined ==
  ASSUME NEW d, IsDisk(d), NEW e,
         \A o \in DOMAIN e : \/ o \in DOMAIN d /\ e[o].log = d[o].log
                             \/ e[o].log = NoFold,
         \A o \in DOMAIN d : \/ o \in DOMAIN e /\ e[o].log = d[o].log
                             \/ d[o].log = NoFold
  PROVE  Joined(d, e, NoFold)
<1>1. /\ NoFold.assertions = {} /\ NoFold.stamps = {} /\ NoFold.reclaimed = {}
      /\ NoFold.high = 0 /\ NoFold.instant = 0 /\ NoFold.floor = 0
      /\ NoFold.published = 0
  BY DEF NoFold
<1>2. Bodies(e) = Bodies(d) /\ Stamps(e) = Stamps(d) /\ Notes(e) = Notes(d)
  BY <1>1 DEF Bodies, Stamps, Notes
<1>3. Highs(e) = Highs(d) /\ Marks(e) = Marks(d)
  BY <1>1 DEF Highs, Marks
<1>4. Floors(e) = Floors(d) /\ ScanPublished(e) = ScanPublished(d)
  BY <1>1 DEF Floors, ScanPublished
<1>5. ASSUME NEW S \in SUBSET Nat, 0 \in S PROVE Raised(S, S, 0)
  <2>1. \A x \in S \cup {0} : x \in S /\ x <= x
    BY <1>5
  <2> QED
    BY <2>1 DEF Raised, Reaches
<1>6. /\ Highs(d) \in SUBSET Nat /\ Marks(d) \in SUBSET Nat
      /\ Floors(d) \in SUBSET Nat /\ ScanPublished(d) \in SUBSET Nat
  BY MarksAreNumbers, BoundsAreNumbers DEF Instants, Cursors
<1>7. 0 \in Highs(d) /\ 0 \in Marks(d) /\ 0 \in Floors(d) /\ 0 \in ScanPublished(d)
  BY DEF Highs, Marks, Floors, ScanPublished
<1>8. Placed(d, e, NoFold)
  BY <1>1 DEF Placed
<1> QED
  BY <1>1, <1>2, <1>3, <1>4, <1>5, <1>6, <1>7, <1>8 DEF Joined

\* A crash leaves the whole group, or nothing of it that a scan reads, leaving
\* receipts aside.
LEMMA CrashImageLost ==
  ASSUME NEW d, IsDisk(d), Whole(d), NEW n, IsLast(d, n),
         NEW roll \in BOOLEAN, MayRoll(d, n, roll), NEW floor \in Floors(d),
         NEW g \in Fold, NEW e \in CrashImages(d, n, roll, floor, g)
  PROVE  e = Appended(d, n, roll, floor, g) \/ Joined(d, e, NoFold)
<1> DEFINE m == Target(n, roll)
           seg == TargetSegment(d, n, roll, floor)
<1>1. /\ StartsFrom(d, m, seg.log) /\ seg \in Segment /\ ~Damaged(seg)
      /\ m \in 1..MaxSegments
  BY TargetStart
<1>2. CASE e = d
  BY <1>2, NothingJoined
<1>3. CASE e = Appended(d, n, roll, floor, g)
  BY <1>3
<1>4. CASE \E c \in ClosedPrefixes(g), o \in OpenPrefixes(g), torn \in BOOLEAN :
             e = Put(d, m, AppendPart(seg, c, o, torn))
  <2>1. PICK c \in ClosedPrefixes(g), o \in OpenPrefixes(g), torn \in BOOLEAN :
               e = Put(d, m, AppendPart(seg, c, o, torn))
    BY <1>4
  <2>2. \E R \in SUBSET Receipt : c = [NoFold EXCEPT !.receipts = R]
    <3>1. NoFold = [NoFold EXCEPT !.receipts = {}]
      BY DEF NoFold
    <3>2. g.receipts \subseteq Receipt
      BY DEF Fold
    <3> QED
      BY <3>1, <3>2 DEF ClosedPrefixes
  <2>3. /\ c \in Fold /\ c.assertions = {} /\ c.stamps = {} /\ c.reclaimed = {}
        /\ c.high = 0 /\ c.instant = 0 /\ c.floor = 0 /\ c.published = 0
    <3>1. c \in Fold
      BY <2>2, NoFoldIsFold DEF Fold
    <3> QED
      BY <2>2, <3>1 DEF NoFold
  <2>4. o \in OpenGroup
    BY DEF OpenPrefixes, OpenGroup, Fold
  <2> DEFINE new == AppendPart(seg, c, o, torn)
  <2> HIDE DEF m, seg
  <2>5. new \in Segment /\ new.log = Join(seg.log, c)
    <3>1. seg \in Segment /\ c \in Fold
      BY <1>1, <2>3
    <3>2. new \in Segment
      BY <3>1, <2>4, AppendPartIsSegment
    <3>3. new.log = Join(seg.log, c)
      BY <3>1 DEF AppendPart, Segment
    <3> QED
      BY <3>2, <3>3
  <2> HIDE DEF new
  <2>6. Joined(d, Put(d, m, new), c)
    BY <1>1, <2>3, <2>5, PutJoined
  <2>7. Joined(d, e, NoFold)
    <3>1. e = Put(d, m, new)
      BY <2>1 DEF new
    <3>2. Placed(d, e, NoFold)
      BY <2>3, <2>6, <3>1 DEF Joined, Placed, NoFold
    <3> QED
      BY <2>3, <2>6, <3>1, <3>2 DEF Joined, NoFold
  <2> QED
    BY <2>7
<1>5. CASE roll /\ e = Put(d, m, HeaderlessSegment)
  <2>1. m \notin DOMAIN d
    BY <1>5, MarksAreNumbers, TargetFacts
  <2>2. /\ DOMAIN e = DOMAIN d \cup {m} /\ e[m].log = NoFold
        /\ \A x \in DOMAIN d : e[x] = d[x]
    BY <1>5, <2>1, HeaderlessIsSegment DEF Put
  <2> QED
    BY <2>2, NothingJoined
<1> QED
  BY <1>2, <1>3, <1>4, <1>5 DEF CrashImages

LEMMA CrashImageJoined ==
  ASSUME NEW d, IsDisk(d), Whole(d), NEW n, IsLast(d, n),
         NEW roll \in BOOLEAN, MayRoll(d, n, roll), NEW floor \in Floors(d),
         NEW g \in Fold, NEW e \in CrashImages(d, n, roll, floor, g)
  PROVE  Joined(d, e, g) \/ Joined(d, e, NoFold)
BY CrashImageLost, AppendedJoined
-----------------------------------------------------------------------------
(* Joining a group keeps what was true of the directory *)

LEMMA ReachesUp ==
  ASSUME NEW S \in SUBSET Nat, NEW T \in SUBSET Nat, NEW m, Raised(S, T, m),
         NEW x \in Nat
  PROVE  /\ Reaches(S, x) => Reaches(T, x)
         /\ m \in Nat /\ x <= m => Reaches(T, x)
         /\ Reaches(T, x) => Reaches(S, x) \/ x <= m
BY DEF Raised, Reaches

LEMMA JoinedReach ==
  ASSUME NEW d, IsDisk(d), NEW e, IsDisk(e), NEW g \in Fold, Joined(d, e, g),
         NEW x \in Nat
  PROVE  /\ Reaches(Tops(d), x) => Reaches(Tops(e), x)
         /\ Reaches(Marks(d), x) => Reaches(Marks(e), x)
         /\ Reaches(Floors(d), x) => Reaches(Floors(e), x)
         /\ Reaches(ScanPublished(d), x) => Reaches(ScanPublished(e), x)
         /\ x <= g.high => Reaches(Tops(e), x)
         /\ Reaches(Tops(e), x) => \/ Reaches(Tops(d), x) \/ x <= g.high
                                   \/ \E b \in g.assertions : x <= b.seq
         /\ Reaches(ScanPublished(e), x) =>
              Reaches(ScanPublished(d), x) \/ x <= g.published
<1>1. /\ Highs(d) \in SUBSET Nat /\ Marks(d) \in SUBSET Nat
      /\ Floors(d) \in SUBSET Nat /\ ScanPublished(d) \in SUBSET Nat
      /\ Highs(e) \in SUBSET Nat /\ Marks(e) \in SUBSET Nat
      /\ Floors(e) \in SUBSET Nat /\ ScanPublished(e) \in SUBSET Nat
  BY MarksAreNumbers, BoundsAreNumbers DEF Instants, Cursors
<1>2. g.high \in Nat
  BY FoldsAreNumbers
<1>3. /\ Reaches(Highs(d), x) => Reaches(Highs(e), x)
      /\ x <= g.high => Reaches(Highs(e), x)
      /\ Reaches(Highs(e), x) => Reaches(Highs(d), x) \/ x <= g.high
  BY <1>1, <1>2, ReachesUp DEF Joined
<1>4. /\ Reaches(Marks(d), x) => Reaches(Marks(e), x)
      /\ Reaches(Floors(d), x) => Reaches(Floors(e), x)
      /\ Reaches(ScanPublished(d), x) => Reaches(ScanPublished(e), x)
      /\ Reaches(ScanPublished(e), x) => Reaches(ScanPublished(d), x) \/ x <= g.published
  BY <1>1, ReachesUp DEF Joined
<1>5. BodySeqs(e) = BodySeqs(d) \cup {b.seq : b \in g.assertions}
  BY DEF BodySeqs, Joined
<1>6. \A S, T : Reaches(S \cup T, x) <=> Reaches(S, x) \/ Reaches(T, x)
  BY DEF Reaches
<1>7. /\ Reaches(Tops(d), x) <=> Reaches(Highs(d), x) \/ Reaches(BodySeqs(d), x)
      /\ Reaches(Tops(e), x) <=> \/ Reaches(Highs(e), x) \/ Reaches(BodySeqs(d), x)
                                 \/ Reaches({b.seq : b \in g.assertions}, x)
  BY <1>5, <1>6 DEF Tops
<1>8. Reaches({b.seq : b \in g.assertions}, x) => \E b \in g.assertions : x <= b.seq
  BY DEF Reaches
<1> QED
  BY <1>3, <1>4, <1>7, <1>8

LEMMA QuietHomes ==
  ASSUME NEW d, NEW e, NEW g, g.assertions = {}, Placed(d, e, g), Homes(d)
  PROVE  Homes(e)
BY DEF Placed, Homes

\* A group without bodies, stamps and sequence mark, and pages handed out.
LEMMA QuietKeeps ==
  ASSUME NEW d, IsDisk(d), NEW e, IsDisk(e), NEW g \in Fold, Quiet(g),
         Joined(d, e, g), NEW H \in SUBSET Body, NEW K \in SUBSET Body,
         H \subseteq K, K \subseteq H \cup Bodies(d),
         NEW m \in Nat, NEW n \in Nat, m <= n, NEW c \in Nat, NEW k \in Nat, c <= k,
         DiskInv(d, H, m, c)
  PROVE  DiskInv(e, K, n, k)
<1>1. /\ Bodies(e) = Bodies(d) /\ Stamps(e) = Stamps(d) /\ Notes(e) = Notes(d)
      /\ g.high = 0 /\ g.assertions = {}
  BY DEF Quiet, Joined
<1>2. Bodies(d) \subseteq Body /\ Stamps(d) \subseteq Stamp /\ Notes(d) \subseteq Note
  BY DiskContents, MarksAreNumbers
<1>3. Homes(e)
  BY <1>1, QuietHomes DEF DiskInv, Joined
<1>4. InOrder(K \cup Bodies(e))
  BY <1>1 DEF DiskInv, InOrder
<1>5. StampsFollow(e, n)
  <2>1. \A i \in Ids : i <= m => i <= n
    BY BoundsAreNumbers DEF Ids
  <2> QED
    BY <1>1, <1>2, <2>1 DEF DiskInv, StampsFollow, Body, Stamp
<1>6. ASSUME NEW x \in Nat
      PROVE  /\ Reaches(Tops(d), x) => Reaches(Tops(e), x)
             /\ Reaches(Marks(d), x) => Reaches(Marks(e), x)
             /\ Reaches(Floors(d), x) => Reaches(Floors(e), x)
             /\ Reaches(ScanPublished(d), x) => Reaches(ScanPublished(e), x)
             /\ x >= 1 => (Reaches(Tops(e), x) => Reaches(Tops(d), x))
  BY <1>1, JoinedReach
<1>7. Remembered(e, K)
  <2>1. ASSUME NEW h \in K
        PROVE  /\ Reaches(Tops(e), h.seq)
               /\ h \in Bodies(e)
                    \/ (Reaches(Floors(e), h.at) /\ Reaches(Marks(e), h.at))
    <3>1. h.seq \in Nat /\ h.at \in Nat
      BY BoundsAreNumbers DEF Body, Seqs, Instants
    <3>2. CASE h \in H
      BY <1>1, <1>6, <3>1, <3>2 DEF DiskInv, Remembered
    <3>3. CASE h \in Bodies(d)
      <4>1. Reaches(Tops(d), h.seq)
        BY <3>1, <3>3 DEF Reaches, Tops, BodySeqs
      <4> QED
        BY <1>1, <1>6, <3>1, <3>3, <4>1
    <3> QED
      BY <3>2, <3>3
  <2> QED
    BY <2>1 DEF Remembered
<1>8. BodySeqs(e) = BodySeqs(d)
  BY <1>1 DEF BodySeqs
<1>9. \A q \in Seqs : q \in Nat /\ q >= 1
  BY BoundsAreNumbers DEF Seqs
<1>10. Contiguous(e)
  BY <1>6, <1>8, <1>9 DEF DiskInv, Contiguous
<1>11. Noted(e, k)
  <2>1. \A x \in Notes(d) : x.seq \in Nat
    BY <1>2, <1>9 DEF Note
  <2>2. \A x \in Notes(e) : Reaches(Tops(e), x.seq)
    BY <1>1, <1>6, <2>1 DEF DiskInv, Noted
  <2>3. k = 0 => Notes(e) = {}
    BY <1>1 DEF DiskInv, Noted
  <2>4. k <= 1 => \A q \in Seqs : Reaches(Tops(e), q) =>
                    q \in BodySeqs(e) \/ \E x \in Notes(e) : x.seq = q
    BY <1>1, <1>6, <1>8, <1>9 DEF DiskInv, Noted
  <2> QED
    BY <2>2, <2>3, <2>4 DEF Noted
<1> QED
  BY <1>3, <1>4, <1>5, <1>7, <1>10, <1>11 DEF DiskInv
-----------------------------------------------------------------------------
(* A commit *)

LEMMA Typed ==
  ASSUME Physical
  PROVE  /\ minted \in Nat /\ nextSeq \in Nat /\ nextSeq >= 1
         /\ lastRecordedMillis \in Nat /\ Now \in Nat /\ publishedSeq \in Nat
         /\ historyFloor \in Nat /\ compactions \in Nat
         /\ handed \subseteq Body /\ Bodies(disk) \subseteq Body
         /\ Stamps(disk) \subseteq Stamp /\ assertions \subseteq Believed
         /\ Notes(disk) \subseteq Note /\ reclaimed \subseteq Note
<1>1. MemoryOK /\ HistoryOK /\ IsDisk(disk)
  BY DEF Physical
<1>2. /\ Bodies(disk) \subseteq Body /\ Stamps(disk) \subseteq Stamp
      /\ Notes(disk) \subseteq Note
  BY <1>1, DiskContents, MarksAreNumbers
<1>3. /\ minted \in Nat /\ nextSeq \in Nat /\ nextSeq >= 1
      /\ lastRecordedMillis \in Nat /\ Now \in Nat /\ publishedSeq \in Nat
      /\ historyFloor \in Nat /\ compactions \in Nat
  BY <1>1, BoundsAreNumbers DEF MemoryOK, HistoryOK, Instants, Cursors, Now
<1> QED
  BY <1>1, <1>2, <1>3 DEF MemoryOK, HistoryOK

LEMMA RecordsAreNumbers ==
  /\ \A b \in Body : b.id \in Nat /\ b.seq \in Nat /\ b.seq >= 1 /\ b.at \in Nat
  /\ \A b \in Body : b.seq \in Seqs
  /\ \A s \in Stamp : s.id \in Nat /\ s.at \in Nat
  /\ \A n \in Note : n.id \in Nat /\ n.seq \in Nat /\ n.seq >= 1
  /\ \A a \in Believed : /\ a.id \in Nat /\ a.seq \in Nat /\ a.seq >= 1
                         /\ a.at \in Nat /\ a.sup \in Nat
  /\ \A q \in Seqs : q \in Nat /\ q >= 1
<1>1. /\ \A x \in Ids : x \in Nat
      /\ \A x \in Seqs : x \in Nat /\ x >= 1
      /\ \A x \in Instants : x \in Nat
  BY BoundsAreNumbers DEF Ids, Seqs, Instants
<1> QED
  BY <1>1 DEF Body, Stamp, Note, Believed

\* What is on disk and what was handed out lies in the past of a running process.
LEMMA Past ==
  ASSUME Physical, FeedInv, up
  PROVE  /\ \A b \in handed \cup Bodies(disk) : b.at < Now /\ b.seq < nextSeq
         /\ \A x \in Nat : Reaches(Tops(disk), x) <=> x < nextSeq
         /\ \A x \in Nat : Reaches(ScanPublished(disk), x) <=> x <= publishedSeq
         /\ \A x \in Nat : Reaches(Floors(disk), x) <=> x <= historyFloor
<1>1. MemoryInv /\ DiskInv(disk, handed, minted, compactions)
  BY DEF FeedInv
<1>2. /\ nextSeq \in Nat /\ lastRecordedMillis \in Nat /\ publishedSeq \in Nat
      /\ historyFloor \in Nat /\ nextSeq >= 1
      /\ handed \subseteq Body /\ Bodies(disk) \subseteq Body
  BY Typed
<1>3. /\ Tops(disk) \subseteq Nat /\ ScanPublished(disk) \subseteq Nat
      /\ Floors(disk) \subseteq Nat
  BY MarksAreNumbers, BoundsAreNumbers DEF Physical, Instants, Cursors, Tops, Seqs
<1>4. \A x \in Nat : Reaches(Tops(disk), x) <=> x < nextSeq
  BY <1>1, <1>2, <1>3 DEF MemoryInv, Agrees, IsMax, Reaches
<1>5. \A x \in Nat : Reaches(ScanPublished(disk), x) <=> x <= publishedSeq
  BY <1>1, <1>2, <1>3 DEF MemoryInv, Agrees, IsMax, Reaches
<1>6. \A x \in Nat : Reaches(Floors(disk), x) <=> x <= historyFloor
  BY <1>1, <1>2, <1>3 DEF MemoryInv, Agrees, IsMax, Reaches
<1>7. ASSUME NEW b \in handed \cup Bodies(disk)
      PROVE  b.at < Now /\ b.seq < nextSeq
  <2>1. b.seq \in Nat /\ b.at \in Nat
    BY <1>2, RecordsAreNumbers
  <2>2. b.at < Now
    BY <1>1, <1>2, <2>1 DEF MemoryInv, Agrees, Now
  <2>3. Reaches(Tops(disk), b.seq)
    <3>1. CASE b \in handed
      BY <1>1, <3>1 DEF DiskInv, Remembered
    <3>2. CASE b \in Bodies(disk)
      BY <3>2, <2>1 DEF Reaches, Tops, BodySeqs
    <3> QED
      BY <3>1, <3>2
  <2> QED
    BY <1>4, <2>1, <2>2, <2>3
<1> QED
  BY <1>4, <1>5, <1>6, <1>7

LEMMA CommitGroupScan ==
  ASSUME NEW k, NEW dg, NEW n, NEW T
  PROVE  /\ CommitGroup(k, dg, n, T).assertions = NewBodies(n)
         /\ CommitGroup(k, dg, n, T).stamps
              = {[id |-> a.id, at |-> Now] : a \in Stamped(T)}
         /\ CommitGroup(k, dg, n, T).reclaimed = {}
         /\ CommitGroup(k, dg, n, T).high = 0
         /\ CommitGroup(k, dg, n, T).instant = 0
         /\ CommitGroup(k, dg, n, T).floor = 0
         /\ CommitGroup(k, dg, n, T).published = 0
BY DEF CommitGroup, NoFold

LEMMA NewBodiesFacts ==
  ASSUME Physical, NEW n \in Nat
  PROVE  /\ \A b \in NewBodies(n) :
              /\ b.id > minted /\ b.id <= minted + n /\ b.at = Now
              /\ b.seq >= nextSeq /\ b.seq < nextSeq + n
         /\ \A b, c \in NewBodies(n) : b.id = c.id \/ b.seq = c.seq => b = c
         /\ \A q \in Nat : q >= nextSeq /\ q < nextSeq + n =>
                             \E b \in NewBodies(n) : b.seq = q
<1>1. minted \in Nat /\ nextSeq \in Nat /\ nextSeq >= 1
  BY Typed
<1>2. ASSUME NEW b \in NewBodies(n)
      PROVE  \E i \in 1..n : b = [id |-> minted + i, seq |-> nextSeq + i - 1, at |-> Now]
  BY DEF NewBodies
<1>3. ASSUME NEW q \in Nat, q >= nextSeq, q < nextSeq + n
      PROVE  \E b \in NewBodies(n) : b.seq = q
  <2>1. q - nextSeq + 1 \in 1..n /\ nextSeq + (q - nextSeq + 1) - 1 = q
    BY <1>1, <1>3
  <2>2. [id |-> minted + (q - nextSeq + 1), seq |-> nextSeq + (q - nextSeq + 1) - 1,
         at |-> Now] \in NewBodies(n)
    BY <2>1 DEF NewBodies
  <2> QED
    BY <2>1, <2>2
<1>4. ASSUME NEW b \in NewBodies(n)
      PROVE  /\ b.id > minted /\ b.id <= minted + n /\ b.at = Now
             /\ b.seq >= nextSeq /\ b.seq < nextSeq + n
  BY <1>1, <1>2
<1>5. ASSUME NEW b \in NewBodies(n), NEW c \in NewBodies(n), b.id = c.id \/ b.seq = c.seq
      PROVE  b = c
  <2>1. PICK i \in 1..n : b = [id |-> minted + i, seq |-> nextSeq + i - 1, at |-> Now]
    BY <1>2
  <2>2. PICK j \in 1..n : c = [id |-> minted + j, seq |-> nextSeq + j - 1, at |-> Now]
    BY <1>2
  <2>3. i = j
    BY <1>1, <1>5, <2>1, <2>2
  <2> QED
    BY <2>1, <2>2, <2>3
<1> QED
  BY <1>3, <1>4, <1>5

\* Stamps written by a commit end bodies that are on disk.
LEMMA StampedOnDisk ==
  ASSUME Physical, FeedInv, up, NEW T, NEW a \in Stamped(T)
  PROVE  /\ a \in assertions /\ a.sup = Null
         /\ \E b \in Bodies(disk) : b.id = a.id
<1>1. a \in assertions /\ a.sup = Null
  BY DEF Stamped
<1>2. [id |-> a.id, seq |-> a.seq, at |-> a.at] \in Bodies(disk)
  BY <1>1 DEF FeedInv, MemoryInv, Agrees, Project
<1> QED
  BY <1>1, <1>2

LEMMA CommitKeeps ==
  ASSUME Physical, FeedInv, up, NEW k, NEW dg, NEW n \in Nat, NEW T,
         CommitGroup(k, dg, n, T) \in Fold,
         NEW e, IsDisk(e), Joined(disk, e, CommitGroup(k, dg, n, T))
  PROVE  DiskInv(e, handed, minted + n, compactions)
<1> DEFINE g == CommitGroup(k, dg, n, T)
<1>1. /\ g.assertions = NewBodies(n)
      /\ g.stamps = {[id |-> a.id, at |-> Now] : a \in Stamped(T)}
      /\ g.reclaimed = {} /\ g.high = 0
      /\ \A b \in NewBodies(n) :
           /\ b.id > minted /\ b.id <= minted + n /\ b.at = Now
           /\ b.seq >= nextSeq /\ b.seq < nextSeq + n
      /\ \A b, c \in NewBodies(n) : b.id = c.id \/ b.seq = c.seq => b = c
      /\ \A q \in Nat : q >= nextSeq /\ q < nextSeq + n =>
                          \E b \in NewBodies(n) : b.seq = q
  BY CommitGroupScan, NewBodiesFacts
<1>2. IsDisk(disk) /\ g \in Fold /\ Joined(disk, e, g)
  BY DEF Physical
<1> HIDE DEF g
<1>3. /\ Bodies(e) = Bodies(disk) \cup NewBodies(n)
      /\ Stamps(e) = Stamps(disk) \cup {[id |-> a.id, at |-> Now] : a \in Stamped(T)}
      /\ Notes(e) = Notes(disk)
  BY <1>1, <1>2 DEF Joined
<1>4. /\ minted \in Nat /\ nextSeq \in Nat /\ Now \in Nat /\ Now >= 1
      /\ handed \subseteq Body /\ Bodies(disk) \subseteq Body
      /\ Stamps(disk) \subseteq Stamp
  BY Typed DEF Now
<1>5. NewBodies(n) \subseteq Body
  BY <1>1, <1>2 DEF Fold
<1>6. /\ Homes(disk) /\ InOrder(handed \cup Bodies(disk)) /\ StampsFollow(disk, minted)
      /\ Remembered(disk, handed) /\ Contiguous(disk) /\ Noted(disk, compactions)
  BY DEF FeedInv, DiskInv
<1>7. /\ \A b \in handed \cup Bodies(disk) : b.at < Now /\ b.seq < nextSeq
      /\ \A x \in Nat : Reaches(Tops(disk), x) <=> x < nextSeq
  BY Past
<1>8. \A b \in Bodies(disk) : b.id <= minted /\ b.id \in Nat
  BY <1>4, <1>6, RecordsAreNumbers DEF StampsFollow
<1>9. Homes(e)
  <2>1. PICK m : \A o \in DOMAIN e : \A b \in e[o].log.assertions :
                   \/ o \in DOMAIN disk /\ b \in disk[o].log.assertions
                   \/ o = m /\ b \in g.assertions
    BY <1>2 DEF Joined, Placed
  <2>2. \A o \in DOMAIN disk : \A b \in disk[o].log.assertions : b \in Bodies(disk)
    BY DEF Bodies
  <2>3. \A b \in Bodies(disk), c \in NewBodies(n) : b.id # c.id
    BY <1>1, <1>4, <1>5, <1>8, RecordsAreNumbers
  <2>4. ASSUME NEW o \in DOMAIN e, NEW p \in DOMAIN e,
               NEW b \in e[o].log.assertions, NEW c \in e[p].log.assertions,
               b.id = c.id
        PROVE  o = p /\ b = c
    <3>1. /\ (o \in DOMAIN disk /\ b \in disk[o].log.assertions)
             \/ (o = m /\ b \in NewBodies(n))
          /\ (p \in DOMAIN disk /\ c \in disk[p].log.assertions)
             \/ (p = m /\ c \in NewBodies(n))
      BY <1>1, <2>1
    <3> QED
      BY <1>1, <1>6, <2>2, <2>3, <2>4, <3>1 DEF Homes
  <2> QED
    BY <2>4 DEF Homes
<1>10. InOrder(handed \cup Bodies(e))
  <2>1. \A a \in handed \cup Bodies(disk), b \in NewBodies(n) :
           a.seq < b.seq /\ a.at <= b.at /\ ~(b.seq < a.seq) /\ a.seq # b.seq
    BY <1>1, <1>4, <1>5, <1>7, RecordsAreNumbers
  <2>2. \A a, b \in NewBodies(n) : a.at <= b.at
    BY <1>1, <1>4
  <2> QED
    BY <1>1, <1>3, <1>6, <2>1, <2>2 DEF InOrder
<1>11. StampsFollow(e, minted + n)
  <2>1. \A b \in Bodies(e) : b.id <= minted + n
    BY <1>1, <1>3, <1>4, <1>8
  <2>2. ASSUME NEW s \in Stamps(e) PROVE s.id <= minted + n /\ s.at >= 1 /\ s.id <= minted
    <3>1. CASE s \in Stamps(disk)
      <4>1. s.id \in Nat /\ s.id <= minted /\ s.at >= 1
        BY <1>4, <1>6, <3>1, RecordsAreNumbers DEF StampsFollow
      <4> QED
        BY <1>4, <4>1
    <3>2. CASE \E a \in Stamped(T) : s = [id |-> a.id, at |-> Now]
      <4>1. PICK a \in Stamped(T) : s = [id |-> a.id, at |-> Now]
        BY <3>2
      <4>2. s.id <= minted /\ s.id \in Nat
        BY <1>8, <4>1, StampedOnDisk
      <4> QED
        BY <1>4, <4>1, <4>2
    <3> QED
      BY <1>3, <2>2, <3>1, <3>2
  <2>3. ASSUME NEW b \in Bodies(e), NEW s \in Stamps(e), s.id = b.id
        PROVE  b.at <= s.at
    <3>1. b \in Bodies(disk)
      BY <1>1, <1>3, <1>4, <1>5, <2>2, <2>3, RecordsAreNumbers
    <3>2. CASE s \in Stamps(disk)
      BY <1>6, <2>3, <3>1, <3>2 DEF StampsFollow
    <3>3. CASE s.at = Now
      BY <1>4, <1>7, <3>1, <3>3, RecordsAreNumbers
    <3> QED
      BY <1>3, <3>2, <3>3
  <2> QED
    BY <2>1, <2>2, <2>3 DEF StampsFollow
<1>12. ASSUME NEW x \in Nat
       PROVE  /\ Reaches(Tops(disk), x) => Reaches(Tops(e), x)
              /\ Reaches(Marks(disk), x) => Reaches(Marks(e), x)
              /\ Reaches(Floors(disk), x) => Reaches(Floors(e), x)
              /\ Reaches(ScanPublished(disk), x) => Reaches(ScanPublished(e), x)
              /\ x >= 1 => (Reaches(Tops(e), x) =>
                   Reaches(Tops(disk), x) \/ \E b \in NewBodies(n) : x <= b.seq)
  <2>1. x >= 1 => ~(x <= g.high)
    BY <1>1
  <2> QED
    BY <1>1, <1>2, <2>1, JoinedReach
<1>13. Remembered(e, handed)
  BY <1>3, <1>4, <1>6, <1>12, RecordsAreNumbers DEF Remembered
<1>14. BodySeqs(e) = BodySeqs(disk) \cup {b.seq : b \in NewBodies(n)}
  BY <1>3 DEF BodySeqs
\* A number below a new one is a new one or was below an old one.
<1>15. ASSUME NEW q \in Seqs, Reaches(Tops(e), q)
       PROVE  Reaches(Tops(disk), q) \/ q \in BodySeqs(e)
  <2>1. q \in Nat /\ q >= 1
    BY RecordsAreNumbers
  <2>2. CASE \E b \in NewBodies(n) : q <= b.seq
    <3>1. q < nextSeq + n
      BY <1>1, <1>4, <1>5, <2>1, <2>2, RecordsAreNumbers
    <3>2. CASE q < nextSeq
      BY <1>7, <2>1, <3>2
    <3>3. CASE q >= nextSeq
      BY <1>1, <1>14, <2>1, <3>1, <3>3
    <3> QED
      BY <1>4, <2>1, <3>2, <3>3
  <2> QED
    BY <1>12, <1>15, <2>1, <2>2
<1>16. Contiguous(e)
  BY <1>6, <1>12, <1>14, <1>15, RecordsAreNumbers DEF Contiguous
<1>17. Noted(e, compactions)
  <2>1. Notes(disk) \subseteq Note
    BY Typed
  <2>2. \A x \in Notes(e) : Reaches(Tops(e), x.seq)
    BY <1>3, <1>6, <1>12, <2>1, RecordsAreNumbers DEF Noted
  <2>3. compactions = 0 => Notes(e) = {}
    BY <1>3, <1>6 DEF Noted
  <2>4. compactions <= 1 => \A q \in Seqs : Reaches(Tops(e), q) =>
                              q \in BodySeqs(e) \/ \E x \in Notes(e) : x.seq = q
    BY <1>3, <1>6, <1>14, <1>15 DEF Noted
  <2> QED
    BY <2>2, <2>3, <2>4 DEF Noted
<1> QED
  BY <1>9, <1>10, <1>11, <1>13, <1>16, <1>17 DEF DiskInv
-----------------------------------------------------------------------------
(* Compaction *)

LEMMA TopsAreScanned == ASSUME NEW d PROVE Tops(d) = ScanSeqs(d)
BY DEF Tops, Highs, BodySeqs, ScanSeqs

LEMMA CompactionGroupScan ==
  ASSUME Physical, FeedInv, up, NEW g \in CompactionGroups
  PROVE  /\ g.assertions = {} /\ g.stamps = {} /\ g.reclaimed = NotesOf(Candidates)
         /\ g.high = nextSeq - 1
         /\ g.published = publishedSeq /\ g.floor = historyFloor
         /\ g.instant \in Nat /\ historyFloor <= g.instant
         /\ \A b \in Bodies(disk) : b.at <= g.instant
<1>1. PICK high \in ScanSeqs(disk), highAt \in HighInstants :
        /\ IsMax(high, ScanSeqs(disk)) /\ IsMax(highAt, HighInstants)
        /\ g = CompactionGroup(Candidates, high, highAt)
  BY DEF CompactionGroups
<1>2. /\ g.assertions = {} /\ g.stamps = {} /\ g.reclaimed = NotesOf(Candidates)
      /\ g.high = high /\ g.published = publishedSeq /\ g.floor = historyFloor
      /\ g.instant = highAt
  BY <1>1 DEF CompactionGroup, NoFold
<1>3. /\ IsMax(nextSeq - 1, ScanSeqs(disk))
  BY TopsAreScanned DEF FeedInv, MemoryInv, Agrees
<1>4. /\ nextSeq \in Nat /\ nextSeq >= 1 /\ historyFloor \in Nat
      /\ Bodies(disk) \subseteq Body
  BY Typed
<1>5. ScanSeqs(disk) \subseteq Nat
  BY TopsAreScanned, MarksAreNumbers DEF Physical, Tops
<1>6. high = nextSeq - 1
  BY <1>1, <1>3, <1>4, <1>5 DEF IsMax
<1>7. highAt \in Nat /\ historyFloor <= highAt /\ \A b \in Bodies(disk) : b.at <= highAt
  BY <1>1, <1>4, RecordsAreNumbers DEF HighInstants, IsMax
<1> QED
  BY <1>2, <1>6, <1>7

\* What is reclaimed was below the watermark and ended before the floor.
LEMMA ReclaimableFacts ==
  ASSUME Physical, FeedInv, up, NEW o \in Candidates, NEW b \in disk[o].log.assertions
  PROVE  /\ b \in Bodies(disk) /\ b \in Body /\ b.seq <= publishedSeq
         /\ b.at <= historyFloor
         /\ \E s \in Stamps(disk) : s.id = b.id /\ s.at <= historyFloor
         /\ [id |-> b.id, seq |-> b.seq] \in NotesOf(Candidates)
<1>1. o \in DOMAIN disk /\ b \in Bodies(disk)
  BY DEF Candidates, Bodies
<1>2. b \in Body /\ Stamps(disk) \subseteq Stamp /\ historyFloor \in Nat
  BY <1>1, Typed
<1>3. b.seq <= publishedSeq
  BY DEF Candidates, Reclaimable
<1>4. PICK a \in ScanAssertions(disk) : a.id = b.id /\ a.sup # Null /\ a.sup <= historyFloor
  BY DEF Candidates, Reclaimable
<1>5. PICK c \in Bodies(disk) : a.id = c.id /\ a.sup \in StampOf(disk, c.id)
  BY <1>4 DEF ScanAssertions
<1>6. \E s \in Stamps(disk) : s.id = b.id /\ s.at = a.sup
  BY <1>4, <1>5 DEF StampOf, Null
<1>7. \E s \in Stamps(disk) : s.id = b.id /\ s.at <= historyFloor
  BY <1>4, <1>6
<1>8. b.at <= historyFloor
  <2>1. PICK s \in Stamps(disk) : s.id = b.id /\ s.at <= historyFloor
    BY <1>7
  <2>2. b.at <= s.at
    BY <1>1, <2>1 DEF FeedInv, DiskInv, StampsFollow
  <2> QED
    BY <1>2, <2>1, <2>2, RecordsAreNumbers
<1>9. [id |-> b.id, seq |-> b.seq] \in NotesOf(Candidates)
  BY DEF NotesOf
<1> QED
  BY <1>1, <1>2, <1>3, <1>7, <1>8, <1>9

\* What a scan reads once the group is written and the segments C are gone.
LEMMA ReclaimScan ==
  ASSUME Physical, FeedInv, up, NEW roll \in BOOLEAN, MayRoll(disk, ordinal, roll),
         NEW g \in CompactionGroups, NEW C \in SUBSET Candidates,
         NEW u, u = Unlinked(Appended(disk, ordinal, roll, historyFloor, g), C)
  PROVE  /\ Bodies(u) \subseteq Bodies(disk) /\ Stamps(u) \subseteq Stamps(disk)
         /\ \A b \in Bodies(disk) :
              b \in Bodies(u) <=> \A o \in C : b \notin disk[o].log.assertions
         /\ Notes(u) \subseteq Notes(disk) \cup NotesOf(Candidates)
         /\ NotesOf(Candidates) \subseteq Notes(u)
         /\ Homes(u)
         /\ Highs(u) \subseteq Highs(disk) \cup {g.high} /\ Reaches(Highs(u), g.high)
         /\ Reaches(Marks(u), g.instant)
         /\ Floors(u) \subseteq Floors(disk) \cup {g.floor} /\ Reaches(Floors(u), g.floor)
         /\ ScanPublished(u) \subseteq ScanPublished(disk) \cup {g.published}
         /\ Reaches(ScanPublished(u), g.published)
<1> DEFINE e == Appended(disk, ordinal, roll, historyFloor, g)
           m == Target(ordinal, roll)
<1>1. /\ IsDisk(disk) /\ Whole(disk) /\ IsLast(disk, ordinal) /\ historyFloor \in Instants
      /\ historyFloor \in Floors(disk)
  BY DEF Physical, Attached, MemoryOK, FeedInv, MemoryInv, Agrees, IsMax
<1>2. g \in Fold /\ NotesOf(Candidates) \subseteq Note
  BY CompactionGroupFacts
<1>3. g.assertions = {} /\ g.stamps = {} /\ g.reclaimed = NotesOf(Candidates)
  BY CompactionGroupScan
<1>4. /\ DOMAIN e = DOMAIN disk \cup {m}
      /\ \A x \in DOMAIN disk \ {m} : e[x] = disk[x]
  BY <1>1, <1>2, AppendedFacts
<1>5. Joined(disk, e, g)
  BY <1>1, <1>2, AppendedJoined
<1>6. /\ g.reclaimed \subseteq e[m].log.reclaimed
      /\ g.high <= e[m].log.high /\ g.instant <= e[m].log.instant
      /\ g.floor <= e[m].log.floor /\ g.published <= e[m].log.published
  BY <1>1, <1>2, AppendedTail
<1>7. m \notin C /\ C \subseteq DOMAIN disk
  <2>1. CASE roll
    BY <1>1, <2>1, TargetFacts DEF Candidates
  <2>2. CASE ~roll
    BY <2>2 DEF Target, Candidates, Reclaimable
  <2> QED
    BY <2>1, <2>2
<1>8. DOMAIN u = (DOMAIN disk \cup {m}) \ C /\ \A x \in DOMAIN u : u[x] = e[x]
  BY <1>4 DEF Unlinked
<1>9. m \in DOMAIN u
  BY <1>7, <1>8
<1> HIDE DEF e, m
<1>10. Bodies(e) = Bodies(disk) /\ Stamps(e) = Stamps(disk)
  BY <1>3, <1>5 DEF Joined
<1>11. Homes(e)
  BY <1>3, <1>5, QuietHomes DEF Joined, FeedInv, DiskInv
<1>12. Homes(u)
  BY <1>4, <1>8, <1>11 DEF Homes
<1>13. Bodies(u) \subseteq Bodies(disk) /\ Stamps(u) \subseteq Stamps(disk)
  BY <1>4, <1>8, <1>10 DEF Bodies, Stamps
<1>14. ASSUME NEW b \in Bodies(disk)
       PROVE  b \in Bodies(u) <=> \A o \in C : b \notin disk[o].log.assertions
  <2>1. ASSUME b \in Bodies(u), NEW o \in C, b \in disk[o].log.assertions
        PROVE  FALSE
    <3>1. PICK p \in DOMAIN u : b \in u[p].log.assertions
      BY <2>1 DEF Bodies
    <3>2. p \in DOMAIN e /\ b \in e[p].log.assertions /\ p # o
      BY <1>4, <1>8, <3>1
    <3>3. o \in DOMAIN e /\ b \in e[o].log.assertions
      BY <1>4, <1>7, <2>1
    <3> QED
      BY <1>11, <3>2, <3>3 DEF Homes
  <2>2. ASSUME \A o \in C : b \notin disk[o].log.assertions
        PROVE  b \in Bodies(u)
    <3>1. PICK p \in DOMAIN e : b \in e[p].log.assertions
      BY <1>10 DEF Bodies
    <3>2. p \notin C
      BY <1>4, <1>7, <2>2, <3>1
    <3> QED
      BY <1>4, <1>8, <3>1, <3>2 DEF Bodies
  <2> QED
    BY <2>1, <2>2
<1>15. /\ Notes(u) \subseteq Notes(disk) \cup NotesOf(Candidates)
       /\ NotesOf(Candidates) \subseteq Notes(u)
  <2>1. Notes(u) \subseteq Notes(e)
    BY <1>4, <1>8 DEF Notes
  <2>2. Notes(e) = Notes(disk) \cup NotesOf(Candidates)
    BY <1>3, <1>5 DEF Joined
  <2>3. NotesOf(Candidates) \subseteq Notes(u)
    BY <1>3, <1>6, <1>8, <1>9 DEF Notes
  <2> QED
    BY <2>1, <2>2, <2>3
<1>16. Highs(u) \subseteq Highs(disk) \cup {g.high} /\ Reaches(Highs(u), g.high)
  <2>1. Highs(u) \subseteq Highs(e)
    BY <1>4, <1>8 DEF Highs
  <2>2. e[m].log.high \in Highs(u)
    BY <1>8, <1>9 DEF Highs
  <2> QED
    BY <1>5, <1>6, <2>1, <2>2 DEF Joined, Raised, Reaches
<1>17. Reaches(Marks(u), g.instant)
  <2>1. e[m].log.instant \in Marks(u)
    BY <1>8, <1>9 DEF Marks
  <2> QED
    BY <1>6, <2>1 DEF Reaches
<1>18. Floors(u) \subseteq Floors(disk) \cup {g.floor} /\ Reaches(Floors(u), g.floor)
  <2>1. Floors(u) \subseteq Floors(e)
    BY <1>4, <1>8 DEF Floors
  <2>2. e[m].log.floor \in Floors(u)
    BY <1>8, <1>9 DEF Floors
  <2> QED
    BY <1>5, <1>6, <2>1, <2>2 DEF Joined, Raised, Reaches
<1>19. /\ ScanPublished(u) \subseteq ScanPublished(disk) \cup {g.published}
       /\ Reaches(ScanPublished(u), g.published)
  <2>1. ScanPublished(u) \subseteq ScanPublished(e)
    BY <1>4, <1>8 DEF ScanPublished
  <2>2. e[m].log.published \in ScanPublished(u)
    BY <1>8, <1>9 DEF ScanPublished
  <2> QED
    BY <1>5, <1>6, <2>1, <2>2 DEF Joined, Raised, Reaches
<1> QED
  BY <1>12, <1>13, <1>14, <1>15, <1>16, <1>17, <1>18, <1>19

\* The marks after a compaction are what they were.
LEMMA ReclaimReach ==
  ASSUME Physical, FeedInv, up, NEW roll \in BOOLEAN, MayRoll(disk, ordinal, roll),
         NEW g \in CompactionGroups, NEW C \in SUBSET Candidates,
         NEW u, IsDisk(u),
         u = Unlinked(Appended(disk, ordinal, roll, historyFloor, g), C)
  PROVE  /\ IsMax(nextSeq - 1, Tops(u)) /\ IsMax(publishedSeq, ScanPublished(u))
         /\ IsMax(historyFloor, Floors(u))
         /\ \A x \in Nat : Reaches(Tops(u), x) <=> Reaches(Tops(disk), x)
         /\ \A x \in Nat : Reaches(ScanPublished(u), x) <=> Reaches(ScanPublished(disk), x)
         /\ \A x \in Nat : Reaches(Floors(u), x) <=> Reaches(Floors(disk), x)
<1>1. /\ Bodies(u) \subseteq Bodies(disk)
      /\ Highs(u) \subseteq Highs(disk) \cup {g.high} /\ Reaches(Highs(u), g.high)
      /\ Floors(u) \subseteq Floors(disk) \cup {g.floor} /\ Reaches(Floors(u), g.floor)
      /\ ScanPublished(u) \subseteq ScanPublished(disk) \cup {g.published}
      /\ Reaches(ScanPublished(u), g.published)
  BY ReclaimScan
<1>2. g.high = nextSeq - 1 /\ g.published = publishedSeq /\ g.floor = historyFloor
  BY CompactionGroupScan
<1>3. /\ IsMax(nextSeq - 1, Tops(disk)) /\ IsMax(publishedSeq, ScanPublished(disk))
      /\ IsMax(historyFloor, Floors(disk))
  BY DEF FeedInv, MemoryInv, Agrees
<1>4. /\ nextSeq \in Nat /\ nextSeq >= 1 /\ publishedSeq \in Nat /\ historyFloor \in Nat
  BY Typed
<1>5. /\ Tops(disk) \subseteq Nat /\ ScanPublished(disk) \subseteq Nat
      /\ Floors(disk) \subseteq Nat
      /\ Tops(u) \subseteq Nat /\ ScanPublished(u) \subseteq Nat
      /\ Floors(u) \subseteq Nat
  BY MarksAreNumbers, BoundsAreNumbers DEF Physical, Instants, Cursors, Tops, Seqs
<1>6. Tops(u) \subseteq Tops(disk) /\ Reaches(Tops(u), nextSeq - 1)
  <2>1. BodySeqs(u) \subseteq BodySeqs(disk)
    BY <1>1 DEF BodySeqs
  <2>2. nextSeq - 1 \in Tops(disk)
    BY <1>3 DEF IsMax
  <2>3. Tops(u) \subseteq Tops(disk)
    BY <1>1, <1>2, <2>1, <2>2 DEF Tops
  <2> QED
    BY <1>1, <1>2, <2>3 DEF Reaches, Tops
<1>7. /\ Floors(u) \subseteq Floors(disk) /\ ScanPublished(u) \subseteq ScanPublished(disk)
      /\ Reaches(Floors(u), historyFloor) /\ Reaches(ScanPublished(u), publishedSeq)
  BY <1>1, <1>2, <1>3 DEF IsMax
<1>8. ASSUME NEW S \in SUBSET Nat, NEW T \in SUBSET S, NEW x \in Nat,
             IsMax(x, S), Reaches(T, x)
      PROVE  IsMax(x, T) /\ \A y \in Nat : Reaches(T, y) <=> Reaches(S, y)
  BY <1>8 DEF IsMax, Reaches
<1>9. /\ IsMax(nextSeq - 1, Tops(u))
      /\ \A x \in Nat : Reaches(Tops(u), x) <=> Reaches(Tops(disk), x)
  <2>1. nextSeq - 1 \in Nat
    BY <1>4
  <2> QED
    BY <1>3, <1>5, <1>6, <1>8, <2>1
<1>10. /\ IsMax(publishedSeq, ScanPublished(u)) /\ IsMax(historyFloor, Floors(u))
       /\ \A x \in Nat : Reaches(ScanPublished(u), x) <=> Reaches(ScanPublished(disk), x)
       /\ \A x \in Nat : Reaches(Floors(u), x) <=> Reaches(Floors(disk), x)
  BY <1>3, <1>4, <1>5, <1>7, <1>8
<1> QED
  BY <1>9, <1>10

LEMMA CompactKeeps ==
  ASSUME Physical, FeedInv, up, NEW roll \in BOOLEAN, MayRoll(disk, ordinal, roll),
         NEW g \in CompactionGroups, NEW C \in SUBSET Candidates,
         NEW u, IsDisk(u),
         u = Unlinked(Appended(disk, ordinal, roll, historyFloor, g), C)
  PROVE  DiskInv(u, handed, minted, compactions + 1)
<1>1. /\ Bodies(u) \subseteq Bodies(disk) /\ Stamps(u) \subseteq Stamps(disk)
      /\ \A b \in Bodies(disk) :
           b \in Bodies(u) <=> \A o \in C : b \notin disk[o].log.assertions
      /\ Notes(u) \subseteq Notes(disk) \cup NotesOf(Candidates)
      /\ NotesOf(Candidates) \subseteq Notes(u)
      /\ Homes(u) /\ Reaches(Marks(u), g.instant)
  BY ReclaimScan
<1>2. /\ \A x \in Nat : Reaches(Tops(u), x) <=> Reaches(Tops(disk), x)
      /\ \A x \in Nat : Reaches(ScanPublished(u), x) <=> Reaches(ScanPublished(disk), x)
      /\ \A x \in Nat : Reaches(Floors(u), x) <=> Reaches(Floors(disk), x)
  BY ReclaimReach
<1>3. /\ InOrder(handed \cup Bodies(disk)) /\ StampsFollow(disk, minted)
      /\ Remembered(disk, handed) /\ Contiguous(disk) /\ Noted(disk, compactions)
  BY DEF FeedInv, DiskInv
<1>4. /\ \A x \in Nat : Reaches(Tops(disk), x) <=> x < nextSeq
      /\ \A x \in Nat : Reaches(ScanPublished(disk), x) <=> x <= publishedSeq
      /\ \A x \in Nat : Reaches(Floors(disk), x) <=> x <= historyFloor
      /\ \A b \in handed \cup Bodies(disk) : b.seq < nextSeq
  BY Past
<1>5. /\ handed \subseteq Body /\ Bodies(disk) \subseteq Body
      /\ Notes(disk) \subseteq Note /\ compactions \in Nat /\ historyFloor \in Nat
      /\ nextSeq \in Nat
  BY Typed
<1>6. /\ g.instant \in Nat /\ historyFloor <= g.instant
  BY CompactionGroupScan
<1>7. \A b \in Bodies(disk) \ Bodies(u) :
        /\ b.seq <= publishedSeq /\ b.at <= historyFloor
        /\ [id |-> b.id, seq |-> b.seq] \in NotesOf(Candidates)
  BY <1>1, ReclaimableFacts
<1>8. InOrder(handed \cup Bodies(u)) /\ StampsFollow(u, minted)
  BY <1>1, <1>3 DEF InOrder, StampsFollow
<1>9. Remembered(u, handed)
  <2>1. ASSUME NEW x \in Nat, x <= historyFloor
        PROVE  Reaches(Floors(u), x) /\ Reaches(Marks(u), x)
    <3>1. Reaches(Floors(u), x)
      BY <1>2, <1>4, <2>1
    <3>2. Marks(u) \subseteq Nat
      BY MarksAreNumbers, BoundsAreNumbers DEF Instants
    <3>3. Reaches(Marks(u), x)
      BY <1>1, <1>5, <1>6, <2>1, <3>2 DEF Reaches
    <3> QED
      BY <3>1, <3>3
  <2>2. ASSUME NEW h \in handed
        PROVE  /\ Reaches(Tops(u), h.seq)
               /\ h \in Bodies(u)
                    \/ (Reaches(Floors(u), h.at) /\ Reaches(Marks(u), h.at))
    <3>1. h.seq \in Nat /\ h.at \in Nat
      BY <1>5, RecordsAreNumbers
    <3>2. Reaches(Tops(u), h.seq)
      BY <1>2, <1>3, <3>1 DEF Remembered
    <3>3. h \in Bodies(u) \/ h.at <= historyFloor
      BY <1>3, <1>4, <1>7, <3>1 DEF Remembered
    <3> QED
      BY <2>1, <3>1, <3>2, <3>3
  <2> QED
    BY <2>2 DEF Remembered
\* A number that is no body any more has a note.
<1>10. ASSUME NEW q \in BodySeqs(disk)
       PROVE  \/ q \in BodySeqs(u)
              \/ q <= publishedSeq /\ \E n \in Notes(u) : n.seq = q
  <2>1. PICK b \in Bodies(disk) : b.seq = q
    BY DEF BodySeqs
  <2>2. CASE b \in Bodies(u)
    BY <2>1, <2>2 DEF BodySeqs
  <2>3. CASE b \notin Bodies(u)
    <3>1. [id |-> b.id, seq |-> b.seq] \in Notes(u) /\ b.seq <= publishedSeq
      BY <1>1, <1>7, <2>3
    <3> QED
      BY <2>1, <3>1
  <2> QED
    BY <2>2, <2>3
<1>11. Contiguous(u)
  <2>1. ASSUME NEW q \in Seqs, Reaches(Tops(u), q)
        PROVE  q \in BodySeqs(u) \/ Reaches(ScanPublished(u), q)
    <3>1. q \in Nat /\ Reaches(Tops(disk), q)
      BY <1>2, <2>1, RecordsAreNumbers
    <3>2. q \in BodySeqs(disk) \/ Reaches(ScanPublished(disk), q)
      BY <1>3, <3>1 DEF Contiguous
    <3> QED
      BY <1>2, <1>4, <1>10, <3>1, <3>2
  <2> QED
    BY <2>1 DEF Contiguous
<1>12. Noted(u, compactions + 1)
  <2>1. ASSUME NEW n \in Notes(u) PROVE Reaches(Tops(u), n.seq)
    <3>1. CASE n \in Notes(disk)
      BY <1>2, <1>3, <1>5, <3>1, RecordsAreNumbers DEF Noted
    <3>2. CASE n \in NotesOf(Candidates)
      <4>1. PICK o \in Candidates : \E b \in disk[o].log.assertions :
              n = [id |-> b.id, seq |-> b.seq]
        BY <3>2 DEF NotesOf
      <4>4. PICK b \in disk[o].log.assertions : n = [id |-> b.id, seq |-> b.seq]
        BY <4>1
      <4>2. b \in Bodies(disk)
        BY ReclaimableFacts
      <4>3. n.seq \in Nat /\ n.seq < nextSeq
        BY <1>4, <1>5, <4>4, <4>2, RecordsAreNumbers
      <4> QED
        BY <1>2, <1>4, <4>3
    <3> QED
      BY <1>1, <3>1, <3>2
  <2>2. compactions + 1 # 0
    BY <1>5
  <2>3. ASSUME compactions + 1 <= 1, NEW q \in Seqs, Reaches(Tops(u), q)
        PROVE  q \in BodySeqs(u) \/ \E n \in Notes(u) : n.seq = q
    <3>1. compactions = 0 /\ compactions <= 1
      BY <1>5, <2>3
    <3>2. q \in BodySeqs(disk)
      BY <1>2, <1>3, <2>3, <3>1, RecordsAreNumbers DEF Noted
    <3> QED
      BY <1>10, <3>2
  <2> QED
    BY <2>1, <2>2, <2>3 DEF Noted
<1> QED
  BY <1>1, <1>8, <1>9, <1>11, <1>12 DEF DiskInv
-----------------------------------------------------------------------------
(* Sets of numbers *)

\* A nonempty set of numbers has a least one.
LEMMA LeastExists ==
  ASSUME NEW T \in SUBSET Nat, T # {}
  PROVE  \E m \in T : \A n \in T : m <= n
<1> DEFINE L == {ss \in Nat \X Nat : ss[1] < ss[2]}
<1>1. IsWellFoundedOn(L, Nat)
  BY NatLessThanWellFounded DEF OpToRel
<1>2. \A x, y \in Nat : <<y, x>> \in L <=> y < x
  OBVIOUS
<1> HIDE DEF L
<1>3. PICK x \in T : \A y \in T : ~(<<y, x>> \in L)
  BY <1>1, WFMin
<1>4. ASSUME NEW y \in T PROVE x <= y
  <2>1. ~(y < x) /\ x \in Nat /\ y \in Nat
    BY <1>2, <1>3
  <2> QED
    BY <2>1
<1> QED
  BY <1>4
-----------------------------------------------------------------------------
(* Memory agrees with the directory *)

LEMMA RaisedMax ==
  ASSUME NEW S \in SUBSET Nat, NEW T \in SUBSET Nat, NEW m \in Nat, Raised(S, T, m),
         NEW x \in Nat, NEW y \in Nat, IsMax(x, S), x <= y, m <= y, y = x \/ y = m
  PROVE  IsMax(y, T)
<1>1. \A z \in T : z <= y
  BY DEF Raised, IsMax
<1>2. y \in S \cup {m}
  BY DEF IsMax
<1>3. PICK z \in T : y <= z
  BY <1>2 DEF Raised, Reaches
<1>4. z = y
  BY <1>1, <1>3
<1> QED
  BY <1>1, <1>3, <1>4 DEF IsMax

\* A group without bodies, stamps and sequence mark.
LEMMA QuietAgrees ==
  ASSUME NEW d, IsDisk(d), NEW e, IsDisk(e), NEW g \in Fold, Quiet(g),
         Joined(d, e, g), NEW H \in SUBSET Body, NEW K \in SUBSET Body,
         K \subseteq H \cup Bodies(d),
         NEW A \in SUBSET Believed, NEW R, NEW next \in Nat, next >= 1,
         NEW last \in Nat, NEW later \in Nat, last <= later,
         NEW pub \in Nat, NEW pub2 \in Nat, pub <= pub2, g.published <= pub2,
         pub2 = pub \/ pub2 = g.published,
         NEW floor \in Nat, NEW floor2 \in Nat, floor <= floor2, g.floor <= floor2,
         floor2 = floor \/ floor2 = g.floor,
         Agrees(d, H, A, R, next, last, pub, floor)
  PROVE  Agrees(e, K, A, R, next, later, pub2, floor2)
<1>1. /\ Bodies(e) = Bodies(d) /\ Stamps(e) = Stamps(d) /\ Bodies(d) \subseteq Body
      /\ g.high = 0
  BY DiskContents DEF Quiet, Joined
<1>2. /\ Highs(d) \in SUBSET Nat /\ Floors(d) \in SUBSET Nat
      /\ ScanPublished(d) \in SUBSET Nat /\ BodySeqs(d) \in SUBSET Nat
      /\ Highs(e) \in SUBSET Nat /\ Floors(e) \in SUBSET Nat
      /\ ScanPublished(e) \in SUBSET Nat
  BY MarksAreNumbers, BoundsAreNumbers DEF Instants, Cursors
<1>3. g.floor \in Nat /\ g.published \in Nat
  BY FoldsAreNumbers
<1>4. IsMax(pub2, ScanPublished(e)) /\ IsMax(floor2, Floors(e))
  BY <1>2, <1>3, RaisedMax DEF Joined, Agrees
<1>5. IsMax(next - 1, Tops(e))
  <2>1. BodySeqs(e) = BodySeqs(d)
    BY <1>1 DEF BodySeqs
  <2>2. Raised(Highs(d), Highs(e), 0) /\ 0 \in Highs(d)
    BY <1>1 DEF Joined, Highs
  <2>3. Raised(Tops(d), Tops(e), 0)
    BY <2>1, <2>2, <1>2 DEF Raised, Tops, Reaches
  <2>4. Tops(d) \in SUBSET Nat /\ Tops(e) \in SUBSET Nat
    BY <1>2, <2>1 DEF Tops
  <2>5. IsMax(next - 1, Tops(d)) /\ next - 1 \in Nat /\ 0 <= next - 1
    BY DEF Agrees
  <2> QED
    BY <2>3, <2>4, <2>5, RaisedMax
<1>6. Superseded(e, A)
  BY <1>1 DEF Agrees, Superseded
<1>7. \A b \in K \cup Bodies(e) : b.at <= later
  <2>1. \A b \in H \cup Bodies(d) : b.at <= last /\ b.at \in Nat
    BY <1>1, RecordsAreNumbers DEF Agrees
  <2> QED
    BY <1>1, <2>1
<1>8. \A a \in A : a.sup <= later
  <2>1. \A a \in A : a.sup <= last /\ a.sup \in Nat
    BY RecordsAreNumbers DEF Agrees
  <2> QED
    BY <2>1
<1> QED
  BY <1>1, <1>4, <1>5, <1>6, <1>7, <1>8 DEF Agrees

\* What the reader restores agrees with what it read.
LEMMA RestoreAgrees ==
  ASSUME NEW d, IsDisk(d), Restore(d), NEW H \in SUBSET Body, Remembered(d, H),
         StampsFollow(d, minted), Noted(d, compactions)
  PROVE  Agrees(d, H, assertions', reclaimed', nextSeq', lastRecordedMillis',
                publishedSeq', historyFloor')
<1>1. /\ Bodies(d) \subseteq Body /\ Stamps(d) \subseteq Stamp
      /\ Receipts(d) \subseteq Receipt
  BY DiskContents
<1>2. /\ assertions' = ScanAssertions(d) /\ reclaimed' = ScanReclaimed(d)
      /\ IsMax(publishedSeq', ScanPublished(d))
      /\ IsMax(historyFloor', ScanFloors(d))
      /\ IsMax(lastRecordedMillis', ScanInstants(d))
  BY DEF Restore
<1>10. nextSeq' \in 1..(MaxMinted + 1) /\ lastRecordedMillis' \in Instants
  BY RestoreFacts
<1>3. IsMax(nextSeq' - 1, Tops(d))
  <2>1. PICK s \in ScanSeqs(d) : IsMax(s, ScanSeqs(d)) /\ nextSeq' = s + 1
    BY DEF Restore
  <2>2. s \in Nat
    BY <2>1, TopsAreScanned, MarksAreNumbers DEF Tops
  <2>3. nextSeq' - 1 = s
    BY <2>1, <2>2
  <2> QED
    BY <2>1, <2>3, TopsAreScanned
<1>4. IsMax(historyFloor', Floors(d))
  <2>1. Floors(d) = {0} \cup ScanFloors(d) /\ Floors(d) \subseteq Nat
    BY MarksAreNumbers, BoundsAreNumbers DEF Floors, ScanFloors, Instants
  <2> QED
    BY <1>2, <2>1 DEF IsMax
<1>5. ASSUME NEW id PROVE /\ StampOf(d, id) # {}
                          /\ \A m \in StampOf(d, id), s \in Stamps(d) :
                               s.id = id => m # Null /\ m <= s.at
  <2> DEFINE at == {s.at : s \in {s \in Stamps(d) : s.id = id}}
  <2>1. StampOf(d, id) = IF at = {} THEN {Null} ELSE {m \in at : \A n \in at : m <= n}
    BY DEF StampOf
  <2>2. at \in SUBSET Nat /\ \A t \in at : t # Null
    BY <1>1, RecordsAreNumbers DEF StampsFollow, Null
  <2>3. \A s \in Stamps(d) : s.id = id => s.at \in at
    OBVIOUS
  <2> HIDE DEF at
  <2>4. CASE at = {}
    BY <2>1, <2>3, <2>4
  <2>5. CASE at # {}
    <3>1. PICK m \in at : \A n \in at : m <= n
      BY <2>2, <2>5, LeastExists
    <3> QED
      BY <2>1, <2>2, <2>3, <2>5, <3>1
  <2> QED
    BY <2>4, <2>5
<1>6. Bodies(d) = Project(assertions')
  <2>1. ASSUME NEW b \in Bodies(d) PROVE b \in Project(ScanAssertions(d))
    <3>1. PICK s \in StampOf(d, b.id) : TRUE
      BY <1>5
    <3> DEFINE a == [id |-> b.id, seq |-> b.seq, at |-> b.at, sup |-> s]
    <3>2. a \in ScanAssertions(d)
      BY DEF ScanAssertions
    <3>3. [id |-> a.id, seq |-> a.seq, at |-> a.at] = b
      BY <1>1 DEF Body
    <3> QED
      BY <3>2, <3>3 DEF Project
  <2>2. ASSUME NEW a \in ScanAssertions(d)
        PROVE  [id |-> a.id, seq |-> a.seq, at |-> a.at] \in Bodies(d)
    <3>1. PICK b \in Bodies(d) : \E s \in StampOf(d, b.id) :
                 a = [id |-> b.id, seq |-> b.seq, at |-> b.at, sup |-> s]
      BY DEF ScanAssertions
    <3>2. [id |-> a.id, seq |-> a.seq, at |-> a.at] = b
      BY <1>1, <3>1 DEF Body
    <3> QED
      BY <3>2
  <2> QED
    BY <1>2, <2>1, <2>2 DEF Project
<1>7. Superseded(d, assertions')
  <2>1. ASSUME NEW a \in ScanAssertions(d), NEW s \in Stamps(d), s.id = a.id
        PROVE  a.sup # Null /\ a.sup <= s.at
    <3>1. PICK b \in Bodies(d) : a.id = b.id /\ a.sup \in StampOf(d, b.id)
      BY DEF ScanAssertions
    <3> QED
      BY <1>5, <2>1, <3>1
  <2> QED
    BY <1>2, <2>1 DEF Superseded
<1>8. ASSUME NEW b \in H \cup Bodies(d) PROVE b.at <= lastRecordedMillis'
  <2>1. lastRecordedMillis' \in Nat
    BY <1>10, BoundsAreNumbers DEF Instants
  <2>2. Marks(d) \subseteq ScanInstants(d) /\ Marks(d) \subseteq Nat
    BY MarksAreNumbers, BoundsAreNumbers DEF Marks, ScanInstants, Instants
  <2>3. b.at \in Nat
    BY <1>1, RecordsAreNumbers
  <2>4. CASE b \in Bodies(d)
    BY <1>2, <2>4 DEF IsMax, ScanInstants
  <2>5. CASE b \notin Bodies(d)
    <3>1. Reaches(Marks(d), b.at)
      BY <2>5 DEF Remembered
    <3> QED
      BY <1>2, <2>1, <2>2, <2>3, <3>1 DEF IsMax, Reaches
  <2> QED
    BY <2>4, <2>5
<1>9. ASSUME NEW n \in reclaimed' PROVE n.seq <= nextSeq' - 1
  <2>1. n \in Notes(d) /\ n \in Note
    BY <1>2, MarksAreNumbers DEF ScanReclaimed, Notes
  <2>2. Reaches(Tops(d), n.seq)
    BY <2>1 DEF Noted
  <2>3. Tops(d) \subseteq Nat
    BY MarksAreNumbers DEF Tops
  <2>4. n.seq \in Nat
    BY <2>1, RecordsAreNumbers
  <2>5. nextSeq' - 1 \in Nat
    <3>1. \A x \in 1..(MaxMinted + 1) : x - 1 \in Nat
      BY BoundsAreNumbers
    <3> QED
      BY <1>10, <3>1
  <2> QED
    BY <1>3, <2>2, <2>3, <2>4, <2>5 DEF IsMax, Reaches
<1>11. ASSUME NEW a \in assertions' PROVE a.sup <= lastRecordedMillis'
  <2>1. PICK b \in Bodies(d) : a.sup \in StampOf(d, b.id)
    BY <1>2 DEF ScanAssertions
  <2>2. a.sup = 0 \/ \E s \in Stamps(d) : s.at = a.sup
    BY <2>1 DEF StampOf, Null
  <2>3. a.sup \in ScanInstants(d)
    BY <2>2 DEF ScanInstants
  <2> QED
    BY <1>2, <2>3 DEF IsMax
<1> QED
  BY <1>2, <1>3, <1>4, <1>6, <1>7, <1>8, <1>9, <1>11 DEF Agrees
-----------------------------------------------------------------------------
(* Every step keeps the invariant *)

\* The directory is as it reads, and no more was handed out.
LEMMA QuietDisk ==
  ASSUME Physical, FeedInv, Physical', NEW g \in Fold, Quiet(g), Joined(disk, disk', g),
         handed \subseteq handed', handed' \subseteq handed \cup Bodies(disk),
         minted <= minted', compactions <= compactions'
  PROVE  DiskInv(disk, handed, minted, compactions)'
<1>1. /\ IsDisk(disk) /\ IsDisk(disk') /\ handed \in SUBSET Body
      /\ handed' \in SUBSET Body
      /\ minted \in Nat /\ compactions \in Nat
  BY Typed DEF Physical, HistoryOK
<1>2. minted' \in Nat /\ compactions' \in Nat
  BY BoundsAreNumbers DEF Physical, HistoryOK
<1>3. DiskInv(disk, handed, minted, compactions)
  BY DEF FeedInv
<1>4. DiskInv(disk', handed', minted', compactions')
  BY <1>1, <1>2, <1>3, QuietKeeps
<1> QED
  BY <1>4

LEMMA NothingIsQuiet == Quiet(NoFold) /\ NoFold \in Fold
BY NoFoldIsFold DEF Quiet, NoFold

LEMMA DownIsBlank == Down => Blank' /\ ~up'
BY DEF Down, Blank

LEMMA FeedCrash ==
  ASSUME Physical, FeedInv, Crash
  PROVE  FeedInv'
BY DownIsBlank DEF Crash, FeedInv, history

\* Steps of a process that is down, that add or remove nothing a scan reads.
LEMMA FeedUnseen ==
  ASSUME Physical, FeedInv, Physical', ~up, UNCHANGED <<memory, history>>,
         Joined(disk, disk', NoFold)
  PROVE  FeedInv'
<1>1. /\ handed' = handed /\ minted' = minted /\ compactions' = compactions
      /\ up' = up /\ (Blank => Blank')
  BY DEF memory, history, Blank
<1>2. minted \in Nat /\ compactions \in Nat
  BY Typed
<1>3. DiskInv(disk, handed, minted, compactions)'
  BY <1>1, <1>2, NothingIsQuiet, QuietDisk
<1> QED
  BY <1>1, <1>3 DEF FeedInv

LEMMA FeedOpenNewCrash ==
  ASSUME Physical, FeedInv, OpenNewCrash
  PROVE  FeedInv'
<1>1. Physical'
  BY OpenNewCrashStep
<1>2. DOMAIN disk' = {1} /\ disk'[1].log = NoFold /\ DOMAIN disk = {}
  BY HeaderlessIsSegment DEF OpenNewCrash, Put
<1>3. Joined(disk, disk', NoFold)
  BY <1>2, NothingJoined DEF Physical
<1> QED
  BY <1>1, <1>3, FeedUnseen DEF OpenNewCrash

LEMMA FeedRemoveHeaderless ==
  ASSUME Physical, FeedInv, NEW n, RemoveHeaderless(n)
  PROVE  FeedInv' /\ Joined(disk, disk', NoFold)
<1>1. Physical'
  BY RemoveHeaderlessStep
<1>2. /\ DOMAIN disk' = DOMAIN disk \ {n} /\ \A x \in DOMAIN disk' : disk'[x] = disk[x]
      /\ n \in DOMAIN disk /\ disk[n].log = NoFold
  BY DEF RemoveHeaderless, Physical, Repairable, IsLast, IsMax
<1>3. Joined(disk, disk', NoFold)
  BY <1>2, NothingJoined DEF Physical
<1> QED
  BY <1>1, <1>3, FeedUnseen DEF RemoveHeaderless

LEMMA FeedOpenNew ==
  ASSUME Physical, FeedInv, OpenNew
  PROVE  FeedInv'
<1>1. Physical'
  BY OpenNewStep
<1>2. FreshSegment(0).log = NoFold
  BY DEF FreshSegment, NoFold
<1>3. DOMAIN disk' = {1} /\ disk'[1].log = NoFold /\ DOMAIN disk = {}
  BY <1>2 DEF OpenNew, Put
<1>4. Joined(disk, disk', NoFold)
  BY <1>3, NothingJoined DEF Physical
<1>5. /\ handed' = handed /\ minted' = minted /\ compactions' = compactions
      /\ minted \in Nat /\ compactions \in Nat
  BY Typed DEF OpenNew, history
<1>6. DiskInv(disk, handed, minted, compactions)'
  BY <1>1, <1>4, <1>5, NothingIsQuiet, QuietDisk
<1>7. /\ Blank /\ up' = TRUE /\ assertions' = {} /\ reclaimed' = {} /\ nextSeq' = 1
      /\ lastRecordedMillis' = 0 /\ publishedSeq' = 0 /\ historyFloor' = 0
  BY DEF FeedInv, OpenNew, Blank
<1>8. /\ Bodies(disk') = {} /\ Stamps(disk') = {} /\ Tops(disk') = {0}
      /\ ScanPublished(disk') = {0} /\ Floors(disk') = {0}
  BY <1>3 DEF Bodies, Stamps, Tops, Highs, BodySeqs, ScanPublished, Floors, NoFold
<1>9. handed' = {}
  <2>1. ASSUME NEW h \in handed' PROVE FALSE
    <3>1. Reaches(Tops(disk'), h.seq)
      BY <1>6 DEF DiskInv, Remembered
    <3>2. h.seq \in Nat /\ h.seq >= 1
      BY <1>5, Typed, RecordsAreNumbers
    <3> QED
      BY <1>8, <3>1, <3>2 DEF Reaches
  <2> QED
    BY <2>1
<1>10. MemoryInv'
  BY <1>7, <1>8, <1>9 DEF MemoryInv, Agrees, IsMax, Project, Superseded
<1> QED
  BY <1>6, <1>7, <1>10 DEF FeedInv

\* Cutting a damaged tail back removes nothing a scan reads.
LEMMA TruncationJoined ==
  ASSUME Physical, FeedInv, NEW n, IsLast(disk, n), Readable(disk)
  PROVE  /\ Joined(disk, TailTruncated(n), NoFold)
         /\ DiskInv(TailTruncated(n), handed, minted, compactions)
<1> DEFINE d == TailTruncated(n)
<1>1. n \in DOMAIN disk /\ disk[n] \in Segment /\ IsDisk(disk)
  BY DEF Physical, IsDisk, IsLast, IsMax
<1>2. DOMAIN d = DOMAIN disk /\ \A x \in DOMAIN disk : d[x].log = disk[x].log
  BY <1>1 DEF TailTruncated, Truncated, Segment
<1>3. IsDisk(d)
  BY TruncationFacts
<1> HIDE DEF d
<1>4. Joined(disk, d, NoFold)
  BY <1>1, <1>2, NothingJoined
<1>5. DiskInv(d, handed, minted, compactions)
  <2>1. handed \in SUBSET Body /\ minted \in Nat /\ compactions \in Nat
    BY Typed
  <2>2. DiskInv(disk, handed, minted, compactions)
    BY DEF FeedInv
  <2> QED
    BY <1>1, <1>3, <1>4, <2>1, <2>2, NothingIsQuiet, QuietKeeps
<1> QED
  BY <1>4, <1>5 DEF d

LEMMA RepairIsQuiet ==
  /\ Quiet(RepairGroup) /\ RepairGroup \in Fold
  /\ RepairGroup.published = 0 /\ RepairGroup.floor = 0
BY QuietGroups DEF Quiet, RepairGroup, NoFold

LEMMA FeedOpenExisting ==
  ASSUME Physical, FeedInv, NEW n, NEW roll \in BOOLEAN, OpenExisting(n, roll)
  PROVE  FeedInv'
<1> DEFINE d == TailTruncated(n)
<1>1. Physical'
  BY OpenExistingStep
<1>2. /\ IsDisk(d) /\ Whole(d) /\ IsLast(d, n)
      /\ ~Damaged(disk[n]) => d = disk
  BY TruncationFacts DEF OpenExisting
<1>3. Joined(disk, d, NoFold) /\ DiskInv(d, handed, minted, compactions)
  BY TruncationJoined DEF OpenExisting
<1>4. /\ Restore(d) /\ handed' = handed /\ minted' = minted /\ compactions' = compactions
      /\ Damaged(disk[n]) =>
           /\ MayRoll(d, n, roll)
           /\ disk' = Appended(d, n, roll, historyFloor', RepairGroup)
      /\ ~Damaged(disk[n]) => disk' = disk
  BY DEF OpenExisting, history
<1> HIDE DEF d
<1>5. /\ handed \in SUBSET Body /\ minted \in Nat /\ compactions \in Nat
  BY Typed
<1>6. Agrees(d, handed, assertions', reclaimed', nextSeq', lastRecordedMillis',
             publishedSeq', historyFloor')
  BY <1>2, <1>3, <1>4, <1>5, RestoreAgrees DEF DiskInv
<1>7. up' = TRUE /\ historyFloor' \in Floors(d)
  BY <1>4, <1>6 DEF Restore, Agrees, IsMax
<1>8. /\ DiskInv(disk', handed, minted, compactions)
      /\ Agrees(disk', handed, assertions', reclaimed', nextSeq', lastRecordedMillis',
                publishedSeq', historyFloor')
  <2>1. CASE ~Damaged(disk[n])
    BY <1>2, <1>3, <1>4, <1>6, <2>1
  <2>2. CASE Damaged(disk[n])
    <3>1. Joined(d, disk', RepairGroup) /\ IsDisk(disk')
      BY <1>1, <1>2, <1>4, <1>7, <2>2, RepairIsQuiet, AppendedJoined DEF Physical
    <3>2. DiskInv(disk', handed, minted, compactions)
      BY <1>2, <1>3, <1>5, <3>1, RepairIsQuiet, QuietKeeps
    <3>3. /\ nextSeq' \in Nat /\ nextSeq' >= 1 /\ lastRecordedMillis' \in Nat
          /\ publishedSeq' \in Nat /\ historyFloor' \in Nat
          /\ assertions' \in SUBSET Believed
      BY <1>1, BoundsAreNumbers DEF Physical, MemoryOK, Instants, Cursors
    <3>4. Agrees(disk', handed, assertions', reclaimed', nextSeq', lastRecordedMillis',
                 publishedSeq', historyFloor')
      <4>1. /\ RepairGroup.published <= publishedSeq' /\ RepairGroup.floor <= historyFloor'
            /\ publishedSeq' <= publishedSeq' /\ historyFloor' <= historyFloor'
            /\ lastRecordedMillis' <= lastRecordedMillis'
        BY <3>3, RepairIsQuiet
      <4> QED
        BY <1>2, <1>5, <1>6, <3>1, <3>3, <4>1, RepairIsQuiet, QuietAgrees
    <3> QED
      BY <3>2, <3>4
  <2> QED
    BY <2>1, <2>2
<1> QED
  BY <1>4, <1>7, <1>8 DEF FeedInv, MemoryInv

LEMMA FeedOpenExistingCrash ==
  ASSUME Physical, FeedInv, NEW n, NEW roll \in BOOLEAN, OpenExistingCrash(n, roll)
  PROVE  FeedInv'
<1> DEFINE d == TailTruncated(n)
<1>1. Physical'
  BY OpenExistingCrashStep
<1>2. IsDisk(d) /\ Whole(d) /\ IsLast(d, n)
  BY TruncationFacts DEF OpenExistingCrash
<1>3. DiskInv(d, handed, minted, compactions)
  BY TruncationJoined DEF OpenExistingCrash
<1>4. PICK f \in ScanFloors(d) : disk' \in CrashImages(d, n, roll, f, RepairGroup)
  BY DEF OpenExistingCrash
<1>5. MayRoll(d, n, roll) /\ ~up /\ UNCHANGED <<memory, history>>
  BY DEF OpenExistingCrash
<1> HIDE DEF d
<1>6. f \in Floors(d)
  BY DEF Floors, ScanFloors
<1>7. Joined(d, disk', RepairGroup) \/ Joined(d, disk', NoFold)
  BY <1>2, <1>4, <1>5, <1>6, RepairIsQuiet, CrashImageJoined
<1>8. handed \in SUBSET Body /\ minted \in Nat /\ compactions \in Nat /\ IsDisk(disk')
  BY <1>1, Typed DEF Physical
<1>9. DiskInv(disk', handed, minted, compactions)
  BY <1>2, <1>3, <1>7, <1>8, RepairIsQuiet, NothingIsQuiet, QuietKeeps
<1> QED
  BY <1>5, <1>9 DEF FeedInv, Blank, memory, history
-----------------------------------------------------------------------------
(* Submissions *)

LEMMA FeedReplay ==
  ASSUME Physical, FeedInv, NEW k, NEW dg, Replay(k, dg)
  PROVE  FeedInv'
BY DEF Replay, FeedInv, MemoryInv, memory

LEMMA FeedCommitUnknownTarget ==
  ASSUME Physical, FeedInv, CommitUnknownTarget
  PROVE  FeedInv'
<1>1. up /\ up' = up /\ UNCHANGED <<disk, handed, minted, compactions>>
  BY DEF CommitUnknownTarget, history
<1>2. /\ lastRecordedMillis \in Nat /\ lastRecordedMillis' = lastRecordedMillis + 1
      /\ handed \subseteq Body /\ Bodies(disk) \subseteq Body
      /\ assertions \subseteq Believed
  BY Typed DEF CommitUnknownTarget, Now
<1>3. MemoryInv
  BY <1>1 DEF FeedInv
<1>4. /\ \A b \in handed \cup Bodies(disk) : b.at <= lastRecordedMillis'
      /\ \A a \in assertions : a.sup <= lastRecordedMillis'
  BY <1>2, <1>3, RecordsAreNumbers DEF MemoryInv, Agrees
<1>5. MemoryInv'
  BY <1>1, <1>3, <1>4 DEF MemoryInv, Agrees, CommitUnknownTarget
<1> QED
  BY <1>1, <1>5 DEF FeedInv

\* The directory of a process that has the log open.
LEMMA OpenDisk ==
  ASSUME Physical, FeedInv, up
  PROVE  /\ IsDisk(disk) /\ Whole(disk) /\ IsLast(disk, ordinal)
         /\ historyFloor \in Floors(disk) /\ MemoryInv
         /\ DiskInv(disk, handed, minted, compactions)
BY DEF Physical, Attached, FeedInv, MemoryInv, Agrees, IsMax

LEMMA FeedCommit ==
  ASSUME Physical, FeedInv, NEW k \in Keys, NEW dg \in Digests, NEW n \in 1..MaxDrafts,
         NEW T, NEW roll \in BOOLEAN, Commit(k, dg, n, T, roll)
  PROVE  FeedInv'
<1> DEFINE g == CommitGroup(k, dg, n, T)
<1>1. up /\ MayCommit(k, n, T, roll) /\ MayRoll(disk, ordinal, roll)
  BY DEF Commit, MayCommit
<1>2. n \in Nat /\ n >= 1 /\ g \in Fold
  <2>1. n \in Nat /\ n >= 1
    BY BoundsAreNumbers
  <2>2. g \in Fold
    BY <1>1, CommitGroupFacts
  <2> QED
    BY <2>1, <2>2
<1>3. /\ disk' = Appended(disk, ordinal, roll, historyFloor, g) /\ up' = up
      /\ assertions' = (assertions \ Stamped(T))
                         \cup {[a EXCEPT !.sup = Now] : a \in Stamped(T)}
                         \cup {[id |-> b.id, seq |-> b.seq, at |-> b.at, sup |-> Null]
                                 : b \in NewBodies(n)}
      /\ nextSeq' = nextSeq + n /\ lastRecordedMillis' = Now /\ minted' = minted + n
      /\ reclaimed' = reclaimed /\ publishedSeq' = publishedSeq
      /\ historyFloor' = historyFloor /\ handed' = handed /\ compactions' = compactions
  BY DEF Commit
<1>4. Physical'
  BY CommitStep
<1>5. /\ IsDisk(disk) /\ Whole(disk) /\ IsLast(disk, ordinal) /\ IsDisk(disk')
      /\ historyFloor \in Floors(disk) /\ MemoryInv
  BY <1>1, <1>4, OpenDisk DEF Physical
<1>6. Joined(disk, disk', g)
  <2> HIDE DEF g
  <2> QED
    BY <1>1, <1>2, <1>3, <1>5, AppendedJoined
<1>7. DiskInv(disk', handed, minted + n, compactions)
  BY <1>1, <1>2, <1>5, <1>6, CommitKeeps
<1>8. /\ g.assertions = NewBodies(n)
      /\ g.stamps = {[id |-> a.id, at |-> Now] : a \in Stamped(T)}
      /\ g.high = 0 /\ g.floor = 0 /\ g.published = 0
  BY CommitGroupScan
<1>9. /\ \A b \in NewBodies(n) :
           /\ b.id > minted /\ b.id <= minted + n /\ b.at = Now
           /\ b.seq >= nextSeq /\ b.seq < nextSeq + n
      /\ \A q \in Nat : q >= nextSeq /\ q < nextSeq + n =>
                          \E b \in NewBodies(n) : b.seq = q
      /\ NewBodies(n) \subseteq Body
  BY <1>1, <1>2, NewBodiesFacts, CommitGroupFacts
<1> HIDE DEF g
<1>10. /\ Bodies(disk') = Bodies(disk) \cup NewBodies(n)
       /\ Stamps(disk') = Stamps(disk) \cup {[id |-> a.id, at |-> Now] : a \in Stamped(T)}
  BY <1>6, <1>8 DEF Joined
<1>11. /\ minted \in Nat /\ nextSeq \in Nat /\ nextSeq >= 1 /\ Now \in Nat /\ Now >= 1
       /\ publishedSeq \in Nat /\ historyFloor \in Nat
       /\ handed \subseteq Body /\ Bodies(disk) \subseteq Body
       /\ Stamps(disk) \subseteq Stamp /\ assertions \subseteq Believed
       /\ lastRecordedMillis \in Nat /\ Now = lastRecordedMillis + 1
       /\ reclaimed \subseteq Note
  BY Typed DEF Now
<1>12. Stamped(T) \subseteq assertions
  BY DEF Stamped
<1>13. Bodies(disk') = Project(assertions')
  <2>1. Bodies(disk) = Project(assertions)
    BY <1>5 DEF MemoryInv, Agrees
  <2>2. ASSUME NEW b \in Bodies(disk') PROVE b \in Project(assertions')
    <3>1. CASE b \in NewBodies(n)
      <4>1. b = [id |-> b.id, seq |-> b.seq, at |-> b.at]
        BY <1>9, <3>1 DEF Body
      <4>2. [id |-> b.id, seq |-> b.seq, at |-> b.at, sup |-> Null] \in assertions'
        BY <1>3, <3>1
      <4> QED
        BY <4>1, <4>2 DEF Project
    <3>2. CASE b \in Bodies(disk)
      <4>1. PICK a \in assertions : b = [id |-> a.id, seq |-> a.seq, at |-> a.at]
        BY <2>1, <3>2 DEF Project
      <4>2. CASE a \in Stamped(T)
        <5>1. [a EXCEPT !.sup = Now] \in assertions'
          BY <1>3, <4>2
        <5>2. /\ [a EXCEPT !.sup = Now].id = a.id
              /\ [a EXCEPT !.sup = Now].seq = a.seq
              /\ [a EXCEPT !.sup = Now].at = a.at
          BY <1>11 DEF Believed
        <5> QED
          BY <4>1, <5>1, <5>2 DEF Project
      <4>3. CASE a \notin Stamped(T)
        BY <1>3, <4>1, <4>3 DEF Project
      <4> QED
        BY <4>2, <4>3
    <3> QED
      BY <1>10, <3>1, <3>2
  <2>3. ASSUME NEW a \in assertions'
        PROVE  [id |-> a.id, seq |-> a.seq, at |-> a.at] \in Bodies(disk')
    <3>1. \A c \in assertions : [id |-> c.id, seq |-> c.seq, at |-> c.at] \in Bodies(disk')
      BY <1>10, <2>1 DEF Project
    <3>2. CASE a \in assertions \ Stamped(T)
      BY <3>1, <3>2
    <3>3. CASE \E c \in Stamped(T) : a = [c EXCEPT !.sup = Now]
      <4>1. PICK c \in Stamped(T) : a = [c EXCEPT !.sup = Now]
        BY <3>3
      <4>2. a.id = c.id /\ a.seq = c.seq /\ a.at = c.at /\ c \in assertions
        BY <1>11, <1>12, <4>1 DEF Believed
      <4> QED
        BY <3>1, <4>2
    <3>4. CASE \E b \in NewBodies(n) :
                 a = [id |-> b.id, seq |-> b.seq, at |-> b.at, sup |-> Null]
      <4>1. PICK b \in NewBodies(n) :
                 a = [id |-> b.id, seq |-> b.seq, at |-> b.at, sup |-> Null]
        BY <3>4
      <4>2. b = [id |-> a.id, seq |-> a.seq, at |-> a.at]
        BY <1>9, <4>1 DEF Body
      <4> QED
        BY <1>10, <4>2
    <3> QED
      BY <1>3, <3>2, <3>3, <3>4
  <2>4. Project(assertions') \subseteq Bodies(disk')
    BY <2>3 DEF Project
  <2> QED
    BY <2>2, <2>4
<1>14. IsMax(nextSeq' - 1, Tops(disk'))
  <2>1. nextSeq' - 1 \in Nat /\ nextSeq' - 1 >= nextSeq /\ nextSeq' - 1 < nextSeq + n
    BY <1>2, <1>3, <1>11
  <2>2. nextSeq' - 1 \in Tops(disk')
    BY <1>9, <1>10, <2>1 DEF Tops, BodySeqs
  <2>3. ASSUME NEW x \in Tops(disk') PROVE x <= nextSeq' - 1
    <3>1. x \in Nat
      BY <1>5, MarksAreNumbers DEF Tops
    <3>2. Reaches(Tops(disk'), x)
      BY <2>3, <3>1 DEF Reaches
    <3>3. Reaches(Tops(disk), x) \/ x <= 0 \/ \E b \in NewBodies(n) : x <= b.seq
      BY <1>2, <1>5, <1>6, <1>8, <3>1, <3>2, JoinedReach
    <3>4. Reaches(Tops(disk), x) => x < nextSeq
      BY <1>1, <3>1, Past
    <3>5. (\E b \in NewBodies(n) : x <= b.seq) => x < nextSeq + n
      BY <1>2, <1>9, <1>11, <3>1, RecordsAreNumbers
    <3> QED
      BY <1>2, <1>3, <1>11, <3>1, <3>3, <3>4, <3>5
  <2> QED
    BY <2>2, <2>3 DEF IsMax
<1>15. IsMax(publishedSeq', ScanPublished(disk')) /\ IsMax(historyFloor', Floors(disk'))
  <2>1. /\ ScanPublished(disk) \in SUBSET Nat /\ ScanPublished(disk') \in SUBSET Nat
        /\ Floors(disk) \in SUBSET Nat /\ Floors(disk') \in SUBSET Nat
    BY <1>5, MarksAreNumbers, BoundsAreNumbers DEF Instants, Cursors
  <2>2. /\ Raised(ScanPublished(disk), ScanPublished(disk'), 0)
        /\ Raised(Floors(disk), Floors(disk'), 0)
        /\ IsMax(publishedSeq, ScanPublished(disk)) /\ IsMax(historyFloor, Floors(disk))
    BY <1>5, <1>6, <1>8 DEF Joined, MemoryInv, Agrees
  <2>3. /\ 0 <= publishedSeq /\ publishedSeq <= publishedSeq
        /\ 0 <= historyFloor /\ historyFloor <= historyFloor
    BY <1>11
  <2> QED
    BY <1>3, <1>11, <2>1, <2>2, <2>3, RaisedMax
<1>16. Superseded(disk', assertions')
  <2>1. \A s \in Stamps(disk') : s.id \in Nat /\ s.id <= minted
    <3>1. ASSUME NEW s \in Stamps(disk) PROVE s.id \in Nat /\ s.id <= minted
      BY <1>11, RecordsAreNumbers DEF FeedInv, DiskInv, StampsFollow
    <3>2. ASSUME NEW a \in Stamped(T) PROVE a.id \in Nat /\ a.id <= minted
      <4>1. PICK b \in Bodies(disk) : b.id = a.id
        BY <1>1, StampedOnDisk
      <4> QED
        BY <1>11, <4>1, RecordsAreNumbers DEF FeedInv, DiskInv, StampsFollow
    <3> QED
      BY <1>10, <3>1, <3>2
  <2>2. ASSUME NEW a \in assertions, NEW s \in Stamps(disk), s.id = a.id
        PROVE  a.sup # Null /\ a.sup <= s.at
    BY <1>5, <2>2 DEF MemoryInv, Agrees, Superseded
  <2>3. ASSUME NEW a \in assertions \ Stamped(T), NEW c \in Stamped(T), c.id = a.id
        PROVE  a.sup # Null /\ a.sup <= Now
    <3>1. a.sup # Null
      BY <2>3 DEF Stamped
    <3>2. a.sup <= lastRecordedMillis /\ a.sup \in Nat
      BY <1>5, <1>11, RecordsAreNumbers DEF MemoryInv, Agrees
    <3> QED
      BY <1>11, <3>1, <3>2
  <2>4. ASSUME NEW a \in assertions', NEW s \in Stamps(disk'), s.id = a.id
        PROVE  a.sup # Null /\ a.sup <= s.at
    <3>1. CASE a \in assertions \ Stamped(T)
      <4>1. CASE s \in Stamps(disk)
        BY <2>2, <2>4, <3>1, <4>1
      <4>2. CASE \E c \in Stamped(T) : s = [id |-> c.id, at |-> Now]
        BY <2>3, <2>4, <3>1, <4>2
      <4> QED
        BY <1>10, <4>1, <4>2
    <3>2. CASE \E c \in Stamped(T) : a = [c EXCEPT !.sup = Now]
      <4>1. PICK c \in Stamped(T) : a = [c EXCEPT !.sup = Now]
        BY <3>2
      <4>2. a.id = c.id /\ a.sup = Now /\ c.sup = Null /\ c \in assertions
        BY <1>11, <4>1 DEF Believed, Stamped
      <4>3. s \notin Stamps(disk)
        BY <2>2, <2>4, <4>2
      <4>4. s.at = Now
        BY <1>10, <4>3
      <4> QED
        BY <1>11, <4>2, <4>4 DEF Null
    <3>3. CASE \E b \in NewBodies(n) :
                 a = [id |-> b.id, seq |-> b.seq, at |-> b.at, sup |-> Null]
      <4>1. PICK b \in NewBodies(n) :
                 a = [id |-> b.id, seq |-> b.seq, at |-> b.at, sup |-> Null]
        BY <3>3
      <4>2. b.id \in Nat /\ b.id > minted
        BY <1>9, RecordsAreNumbers
      <4> QED
        BY <1>11, <2>1, <2>4, <4>1, <4>2
    <3> QED
      BY <1>3, <3>1, <3>2, <3>3
  <2> QED
    BY <2>4 DEF Superseded
<1>17. \A b \in handed' \cup Bodies(disk') : b.at <= lastRecordedMillis'
  BY <1>1, <1>3, <1>9, <1>10, <1>11, Past, RecordsAreNumbers
<1>18. \A a \in assertions' : a.sup <= lastRecordedMillis'
  <2>1. \A a \in assertions : a.sup <= lastRecordedMillis /\ a.sup \in Nat
    BY <1>5, <1>11, RecordsAreNumbers DEF MemoryInv, Agrees
  <2>2. ASSUME NEW a \in assertions' PROVE a.sup <= Now
    <3>1. CASE a \in assertions \ Stamped(T)
      BY <1>11, <2>1, <3>1
    <3>2. CASE \E c \in Stamped(T) : a = [c EXCEPT !.sup = Now]
      <4>1. PICK c \in Stamped(T) : a = [c EXCEPT !.sup = Now]
        BY <3>2
      <4>2. a.sup = Now
        BY <1>11, <1>12, <4>1 DEF Believed
      <4> QED
        BY <1>11, <4>2
    <3>3. CASE \E b \in NewBodies(n) :
                 a = [id |-> b.id, seq |-> b.seq, at |-> b.at, sup |-> Null]
      <4>1. a.sup = 0
        BY <3>3 DEF Null
      <4> QED
        BY <1>11, <4>1
    <3> QED
      BY <1>3, <3>1, <3>2, <3>3
  <2> QED
    BY <1>3, <2>2
<1>19. \A x \in reclaimed' : x.seq <= nextSeq' - 1
  <2>1. \A x \in reclaimed : x.seq <= nextSeq - 1 /\ x.seq \in Nat
    BY <1>5, <1>11, RecordsAreNumbers DEF MemoryInv, Agrees
  <2> QED
    BY <1>2, <1>3, <1>11, <2>1
<1>20. MemoryInv'
  BY <1>13, <1>14, <1>15, <1>16, <1>17, <1>18, <1>19 DEF MemoryInv, Agrees
<1> QED
  BY <1>1, <1>3, <1>7, <1>20 DEF FeedInv

LEMMA FeedCommitCrash ==
  ASSUME Physical, FeedInv, NEW k \in Keys, NEW dg \in Digests, NEW n \in 1..MaxDrafts,
         NEW T, NEW roll \in BOOLEAN, CommitCrash(k, dg, n, T, roll)
  PROVE  FeedInv'
<1> DEFINE g == CommitGroup(k, dg, n, T)
<1>1. up /\ MayCommit(k, n, T, roll) /\ MayRoll(disk, ordinal, roll)
  BY DEF CommitCrash, MayCommit
<1>2. n \in Nat /\ g \in Fold
  BY <1>1, CommitGroupFacts, BoundsAreNumbers
<1>3. /\ disk' \in CrashImages(disk, ordinal, roll, historyFloor, g)
      /\ minted' = minted + n /\ handed' = handed /\ compactions' = compactions
      /\ Blank' /\ ~up'
  BY DownIsBlank DEF CommitCrash
<1>4. Physical'
  BY CommitCrashStep
<1>5. /\ IsDisk(disk) /\ Whole(disk) /\ IsLast(disk, ordinal) /\ IsDisk(disk')
      /\ historyFloor \in Floors(disk)
  BY <1>1, <1>4, OpenDisk DEF Physical
<1>6. Joined(disk, disk', g) \/ Joined(disk, disk', NoFold)
  <2> HIDE DEF g
  <2> QED
    BY <1>1, <1>2, <1>3, <1>5, CrashImageJoined
<1>7. CASE Joined(disk, disk', g)
  <2>1. DiskInv(disk', handed, minted + n, compactions)
    BY <1>1, <1>2, <1>5, <1>7, CommitKeeps
  <2> QED
    BY <1>3, <2>1 DEF FeedInv
<1>8. CASE Joined(disk, disk', NoFold)
  <2>1. minted <= minted' /\ compactions <= compactions'
    BY <1>2, <1>3, Typed
  <2>2. DiskInv(disk, handed, minted, compactions)'
    BY <1>3, <1>4, <1>8, <2>1, NothingIsQuiet, QuietDisk
  <2> QED
    BY <1>3, <2>2 DEF FeedInv
<1> QED
  BY <1>6, <1>7, <1>8

\* The running process appends a group with no body in it.
LEMMA FeedQuiet ==
  ASSUME Physical, FeedInv, Physical', up, up' = up,
         NEW g \in Fold, Quiet(g), Joined(disk, disk', g),
         handed \subseteq handed', handed' \subseteq handed \cup Bodies(disk),
         UNCHANGED <<assertions, reclaimed, nextSeq, minted, compactions>>,
         lastRecordedMillis <= lastRecordedMillis',
         publishedSeq <= publishedSeq', g.published <= publishedSeq',
         publishedSeq' = publishedSeq \/ publishedSeq' = g.published,
         historyFloor <= historyFloor', g.floor <= historyFloor',
         historyFloor' = historyFloor \/ historyFloor' = g.floor
  PROVE  FeedInv'
<1>1. /\ IsDisk(disk) /\ IsDisk(disk') /\ handed \in SUBSET Body /\ handed' \in SUBSET Body
      /\ assertions \in SUBSET Believed /\ nextSeq \in Nat /\ nextSeq >= 1
      /\ lastRecordedMillis \in Nat /\ publishedSeq \in Nat /\ historyFloor \in Nat
      /\ compactions \in Nat /\ minted \in Nat
  BY Typed DEF Physical, HistoryOK
<1>2. lastRecordedMillis' \in Nat /\ publishedSeq' \in Nat /\ historyFloor' \in Nat
  BY BoundsAreNumbers DEF Physical, MemoryOK, Instants, Cursors
<1>3. DiskInv(disk, handed, minted, compactions)'
  BY <1>1, QuietDisk
<1>4. Agrees(disk, handed, assertions, reclaimed, nextSeq, lastRecordedMillis,
             publishedSeq, historyFloor)
  BY DEF FeedInv, MemoryInv
<1>5. Agrees(disk', handed', assertions, reclaimed, nextSeq, lastRecordedMillis',
             publishedSeq', historyFloor')
  BY <1>1, <1>2, <1>4, QuietAgrees
<1>6. MemoryInv'
  BY <1>5 DEF MemoryInv
<1> QED
  BY <1>3, <1>6 DEF FeedInv

\* It dies while appending one.
LEMMA FeedQuietCrash ==
  ASSUME Physical, FeedInv, Physical', up, NEW roll \in BOOLEAN,
         MayRoll(disk, ordinal, roll), NEW g \in Fold, Quiet(g),
         disk' \in CrashImages(disk, ordinal, roll, historyFloor, g), Down,
         handed \subseteq handed', handed' \subseteq handed \cup Bodies(disk),
         UNCHANGED <<minted, compactions>>
  PROVE  FeedInv'
<1>1. /\ IsDisk(disk) /\ Whole(disk) /\ IsLast(disk, ordinal)
      /\ historyFloor \in Floors(disk)
  BY OpenDisk
<1>2. Joined(disk, disk', g) \/ Joined(disk, disk', NoFold)
  BY <1>1, CrashImageJoined
<1>3. minted <= minted' /\ compactions <= compactions'
  BY Typed
<1>4. DiskInv(disk, handed, minted, compactions)'
  BY <1>2, <1>3, QuietDisk, NothingIsQuiet
<1> QED
  BY <1>4, DownIsBlank DEF FeedInv

LEMMA WatermarkIsQuiet ==
  ASSUME NEW n
  PROVE  /\ Quiet(WatermarkGroup(n)) /\ WatermarkGroup(n).published = n
         /\ WatermarkGroup(n).floor = 0
BY DEF Quiet, WatermarkGroup, NoFold

LEMMA FloorIsQuiet ==
  ASSUME NEW to
  PROVE  /\ Quiet(FloorGroup(to)) /\ FloorGroup(to).published = 0
         /\ FloorGroup(to).floor = to
BY DEF Quiet, FloorGroup, NoFold

\* A page holds bodies of the directory.
LEMMA PageOnDisk ==
  ASSUME FeedInv, up, NEW cursor, NEW limit
  PROVE  {[id |-> a.id, seq |-> a.seq, at |-> a.at] : a \in Page(cursor, limit)}
           \subseteq Bodies(disk)
<1>1. Page(cursor, limit) \subseteq assertions
  BY DEF Page
<1> QED
  BY <1>1 DEF FeedInv, MemoryInv, Agrees, Project

LEMMA FeedChangesSince ==
  ASSUME Physical, FeedInv, NEW cursor \in Cursors, NEW limit, NEW roll \in BOOLEAN,
         ChangesSince(cursor, limit, roll)
  PROVE  FeedInv'
<1>1. up /\ up' = up /\ Physical'
  BY ChangesSinceStep DEF ChangesSince
<1>2. /\ IsDisk(disk) /\ Whole(disk) /\ IsLast(disk, ordinal)
      /\ historyFloor \in Floors(disk)
  BY <1>1, OpenDisk
<1>3. handed \subseteq handed' /\ handed' \subseteq handed \cup Bodies(disk)
  BY <1>1, PageOnDisk DEF ChangesSince
<1>4. /\ UNCHANGED <<assertions, reclaimed, nextSeq, minted, compactions>>
      /\ historyFloor' = historyFloor
  BY DEF ChangesSince
<1>5. /\ lastRecordedMillis \in Nat /\ publishedSeq \in Nat /\ historyFloor \in Nat
      /\ Now = lastRecordedMillis + 1
  BY Typed DEF Now
<1>6. PICK n \in NextCursor(Page(cursor, limit), cursor) :
       IF n > publishedSeq
       THEN /\ Now <= MaxInstant /\ MayRoll(disk, ordinal, roll)
            /\ disk' = Appended(disk, ordinal, roll, historyFloor, WatermarkGroup(n))
            /\ lastRecordedMillis' = Now
            /\ publishedSeq' = n
       ELSE UNCHANGED <<disk, lastRecordedMillis, publishedSeq>>
  BY DEF ChangesSince
<1>7. n \in Cursors /\ n \in Nat
  BY CursorIsTyped, BoundsAreNumbers DEF Cursors
<1>8. CASE n > publishedSeq
  <2>1. /\ MayRoll(disk, ordinal, roll)
        /\ disk' = Appended(disk, ordinal, roll, historyFloor, WatermarkGroup(n))
        /\ lastRecordedMillis' = Now /\ publishedSeq' = n /\ Now \in Instants
    BY <1>5, <1>6, <1>8, BoundsAreNumbers DEF Instants
  <2>2. /\ WatermarkGroup(n) \in Fold /\ Quiet(WatermarkGroup(n))
        /\ WatermarkGroup(n).published = n /\ WatermarkGroup(n).floor = 0
    BY <1>7, <2>1, QuietGroups, WatermarkIsQuiet
  <2>3. Joined(disk, disk', WatermarkGroup(n))
    BY <1>2, <2>1, <2>2, AppendedJoined
  <2>4. /\ lastRecordedMillis <= lastRecordedMillis' /\ publishedSeq <= publishedSeq'
        /\ WatermarkGroup(n).published <= publishedSeq'
        /\ WatermarkGroup(n).floor <= historyFloor' /\ historyFloor <= historyFloor'
        /\ publishedSeq' = WatermarkGroup(n).published
    BY <1>4, <1>5, <1>7, <1>8, <2>1, <2>2
  <2> QED
    BY <1>1, <1>3, <1>4, <2>2, <2>3, <2>4, FeedQuiet
<1>9. CASE ~(n > publishedSeq)
  <2>1. UNCHANGED <<disk, lastRecordedMillis, publishedSeq>>
    BY <1>6, <1>9
  <2>2. Joined(disk, disk', NoFold)
    BY <1>2, <2>1, NothingJoined
  <2>3. /\ lastRecordedMillis <= lastRecordedMillis' /\ publishedSeq <= publishedSeq'
        /\ NoFold.published <= publishedSeq'
        /\ NoFold.floor <= historyFloor' /\ historyFloor <= historyFloor'
        /\ publishedSeq' = publishedSeq
    BY <1>4, <1>5, <2>1 DEF NoFold
  <2> QED
    BY <1>1, <1>3, <1>4, <2>2, <2>3, FeedQuiet, NothingIsQuiet
<1> QED
  BY <1>8, <1>9

LEMMA FeedChangesSinceCrash ==
  ASSUME Physical, FeedInv, NEW cursor \in Cursors, NEW limit, NEW roll \in BOOLEAN,
         ChangesSinceCrash(cursor, limit, roll)
  PROVE  FeedInv'
<1>1. /\ up /\ Physical' /\ Down /\ MayRoll(disk, ordinal, roll) /\ Now <= MaxInstant
      /\ UNCHANGED <<minted, compactions>>
  BY ChangesSinceCrashStep DEF ChangesSinceCrash
<1>2. handed \subseteq handed' /\ handed' \subseteq handed \cup Bodies(disk)
  BY <1>1, PageOnDisk DEF ChangesSinceCrash
<1>3. PICK n \in NextCursor(Page(cursor, limit), cursor) :
        disk' \in CrashImages(disk, ordinal, roll, historyFloor, WatermarkGroup(n))
  BY DEF ChangesSinceCrash
<1>4. n \in Cursors /\ Now \in Instants
  BY <1>1, Typed, CursorIsTyped, BoundsAreNumbers DEF Instants
<1>5. WatermarkGroup(n) \in Fold /\ Quiet(WatermarkGroup(n))
  BY <1>4, QuietGroups, WatermarkIsQuiet
<1> QED
  BY <1>1, <1>2, <1>3, <1>5, FeedQuietCrash

LEMMA FeedAdvanceHistoryFloor ==
  ASSUME Physical, FeedInv, NEW to, NEW roll \in BOOLEAN, AdvanceHistoryFloor(to, roll)
  PROVE  FeedInv'
<1>1. /\ up /\ up' = up /\ Physical' /\ MayRoll(disk, ordinal, roll)
      /\ to > historyFloor /\ to \in Instants /\ Now <= MaxInstant
      /\ disk' = Appended(disk, ordinal, roll, historyFloor, FloorGroup(to))
      /\ lastRecordedMillis' = Now /\ historyFloor' = to /\ publishedSeq' = publishedSeq
      /\ handed' = handed
      /\ UNCHANGED <<assertions, reclaimed, nextSeq, minted, compactions>>
  BY AdvanceHistoryFloorStep DEF AdvanceHistoryFloor, MayAdvance, history
<1>2. /\ IsDisk(disk) /\ Whole(disk) /\ IsLast(disk, ordinal)
      /\ historyFloor \in Floors(disk)
  BY <1>1, OpenDisk
<1>3. /\ lastRecordedMillis \in Nat /\ publishedSeq \in Nat /\ historyFloor \in Nat
      /\ Now = lastRecordedMillis + 1
  BY Typed DEF Now
<1>4. Now \in Instants /\ to \in Nat
  BY <1>1, <1>3, BoundsAreNumbers DEF Instants
<1>5. /\ FloorGroup(to) \in Fold /\ Quiet(FloorGroup(to))
      /\ FloorGroup(to).published = 0 /\ FloorGroup(to).floor = to
  BY <1>1, <1>4, QuietGroups, FloorIsQuiet
<1>6. Joined(disk, disk', FloorGroup(to))
  BY <1>1, <1>2, <1>5, AppendedJoined
<1>7. /\ lastRecordedMillis <= lastRecordedMillis' /\ publishedSeq <= publishedSeq'
      /\ FloorGroup(to).published <= publishedSeq'
      /\ FloorGroup(to).floor <= historyFloor' /\ historyFloor <= historyFloor'
      /\ historyFloor' = FloorGroup(to).floor
  BY <1>1, <1>3, <1>4, <1>5
<1>8. handed \subseteq handed' /\ handed' \subseteq handed \cup Bodies(disk)
  BY <1>1
<1> QED
  BY <1>1, <1>5, <1>6, <1>7, <1>8, FeedQuiet

LEMMA FeedAdvanceHistoryFloorCrash ==
  ASSUME Physical, FeedInv, NEW to, NEW roll \in BOOLEAN,
         AdvanceHistoryFloorCrash(to, roll)
  PROVE  FeedInv'
<1>1. /\ up /\ Physical' /\ Down /\ MayRoll(disk, ordinal, roll)
      /\ to \in Instants /\ Now <= MaxInstant
      /\ disk' \in CrashImages(disk, ordinal, roll, historyFloor, FloorGroup(to))
      /\ handed' = handed /\ UNCHANGED <<minted, compactions>>
  BY AdvanceHistoryFloorCrashStep DEF AdvanceHistoryFloorCrash, MayAdvance, history
<1>2. Now \in Instants
  BY <1>1, Typed, BoundsAreNumbers DEF Instants
<1>3. FloorGroup(to) \in Fold /\ Quiet(FloorGroup(to))
  BY <1>1, <1>2, QuietGroups, FloorIsQuiet
<1>4. handed \subseteq handed' /\ handed' \subseteq handed \cup Bodies(disk)
  BY <1>1
<1> QED
  BY <1>1, <1>3, <1>4, FeedQuietCrash

\* Memory and directory drop the same bodies.
LEMMA CompactProjects ==
  ASSUME Physical, FeedInv, up, NEW roll \in BOOLEAN, MayRoll(disk, ordinal, roll),
         NEW g \in CompactionGroups,
         NEW u, u = Unlinked(Appended(disk, ordinal, roll, historyFloor, g), Candidates),
         NEW A, A = {a \in assertions : \A n \in NotesOf(Candidates) : n.id # a.id}
  PROVE  Bodies(u) = Project(A)
<1>1. /\ Bodies(u) \subseteq Bodies(disk)
      /\ \A b \in Bodies(disk) :
           b \in Bodies(u) <=> \A o \in Candidates : b \notin disk[o].log.assertions
  BY ReclaimScan
<1>2. Bodies(disk) = Project(assertions) /\ Homes(disk)
  BY DEF FeedInv, MemoryInv, Agrees, DiskInv
<1>3. ASSUME NEW b \in Bodies(u) PROVE b \in Project(A)
  <2>1. b \in Bodies(disk)
    BY <1>1
  <2>2. PICK a \in assertions : b = [id |-> a.id, seq |-> a.seq, at |-> a.at]
    BY <1>2, <2>1 DEF Project
  <2>3. PICK p \in DOMAIN disk : b \in disk[p].log.assertions
    BY <2>1 DEF Bodies
  <2>4. ASSUME NEW n \in NotesOf(Candidates) PROVE n.id # a.id
    <3>1. PICK o \in Candidates : \E c \in disk[o].log.assertions :
            n = [id |-> c.id, seq |-> c.seq]
      BY <2>4 DEF NotesOf
    <3>2. PICK c \in disk[o].log.assertions : n = [id |-> c.id, seq |-> c.seq]
      BY <3>1
    <3>3. o \in DOMAIN disk
      BY DEF Candidates
    <3>4. c.id = b.id => o = p /\ b = c
      BY <1>2, <2>3, <3>3 DEF Homes
    <3>5. b \notin disk[o].log.assertions
      BY <1>1, <1>3, <2>1
    <3> QED
      BY <2>2, <3>2, <3>4, <3>5
  <2> QED
    BY <2>2, <2>4 DEF Project
<1>4. ASSUME NEW a \in A
      PROVE  [id |-> a.id, seq |-> a.seq, at |-> a.at] \in Bodies(u)
  <2> DEFINE b == [id |-> a.id, seq |-> a.seq, at |-> a.at]
  <2>1. a \in assertions /\ b \in Bodies(disk)
    BY <1>2 DEF Project
  <2>2. ASSUME NEW o \in Candidates, b \in disk[o].log.assertions PROVE FALSE
    <3>1. [id |-> b.id, seq |-> b.seq] \in NotesOf(Candidates)
      BY <2>2, ReclaimableFacts
    <3> QED
      BY <3>1
  <2> QED
    BY <1>1, <2>1, <2>2
<1> QED
  BY <1>3, <1>4 DEF Project

LEMMA FeedCompact ==
  ASSUME Physical, FeedInv, NEW roll \in BOOLEAN, Compact(roll)
  PROVE  FeedInv'
<1>1. up /\ MayRoll(disk, ordinal, roll) /\ Physical'
  BY CompactStep DEF Compact, MayCompact
<1>2. PICK g \in CompactionGroups :
        disk' = Unlinked(Appended(disk, ordinal, roll, historyFloor, g), Candidates)
  BY DEF Compact
<1>3. /\ assertions' = {a \in assertions : \A n \in NotesOf(Candidates) : n.id # a.id}
      /\ reclaimed' = reclaimed \cup NotesOf(Candidates)
      /\ compactions' = compactions + 1 /\ up' = up
      /\ UNCHANGED <<nextSeq, lastRecordedMillis, publishedSeq, historyFloor, handed, minted>>
  BY DEF Compact
<1>4. IsDisk(disk') /\ MemoryInv
  BY <1>1 DEF Physical, FeedInv
<1>5. DiskInv(disk', handed, minted, compactions + 1)
  BY <1>1, <1>2, <1>4, CompactKeeps
<1>6. /\ IsMax(nextSeq - 1, Tops(disk')) /\ IsMax(publishedSeq, ScanPublished(disk'))
      /\ IsMax(historyFloor, Floors(disk'))
  BY <1>1, <1>2, <1>4, ReclaimReach
<1>7. Bodies(disk') = Project(assertions')
  BY <1>1, <1>2, <1>3, CompactProjects
<1>8. Bodies(disk') \subseteq Bodies(disk) /\ Stamps(disk') \subseteq Stamps(disk)
  BY <1>1, <1>2, ReclaimScan
<1>9. Superseded(disk', assertions')
  BY <1>3, <1>4, <1>8 DEF Superseded, MemoryInv, Agrees
<1>10. /\ \A b \in handed' \cup Bodies(disk') : b.at <= lastRecordedMillis'
       /\ \A a \in assertions' : a.sup <= lastRecordedMillis'
  BY <1>3, <1>4, <1>8 DEF MemoryInv, Agrees
<1>11. ASSUME NEW n \in NotesOf(Candidates) PROVE n.seq <= nextSeq - 1
  <2>1. PICK o \in Candidates : \E b \in disk[o].log.assertions :
          n = [id |-> b.id, seq |-> b.seq]
    BY <1>11 DEF NotesOf
  <2>2. PICK b \in disk[o].log.assertions : n = [id |-> b.id, seq |-> b.seq]
    BY <2>1
  <2>3. b \in Bodies(disk) /\ b \in Body
    BY <1>1, ReclaimableFacts
  <2>4. b.seq < nextSeq
    BY <1>1, <2>3, Past
  <2> QED
    BY <2>2, <2>3, <2>4, Typed, RecordsAreNumbers
<1>12. \A n \in reclaimed' : n.seq <= nextSeq' - 1
  BY <1>3, <1>4, <1>11 DEF MemoryInv, Agrees
<1>13. MemoryInv'
  BY <1>3, <1>6, <1>7, <1>9, <1>10, <1>12 DEF MemoryInv, Agrees
<1> QED
  BY <1>1, <1>3, <1>5, <1>13 DEF FeedInv

LEMMA FeedCompactCrash ==
  ASSUME Physical, FeedInv, NEW roll \in BOOLEAN, CompactCrash(roll)
  PROVE  FeedInv'
<1>1. /\ up /\ MayRoll(disk, ordinal, roll) /\ Physical' /\ Down
      /\ compactions' = compactions + 1 /\ handed' = handed /\ minted' = minted
  BY CompactCrashStep DEF CompactCrash, MayCompact
<1>2. PICK g \in CompactionGroups :
        \/ disk' \in CrashImages(disk, ordinal, roll, historyFloor, g)
        \/ \E x \in Candidates :
             disk' = Unlinked(Appended(disk, ordinal, roll, historyFloor, g),
                              {o \in Candidates : o <= x})
  BY DEF CompactCrash
<1>3. /\ IsDisk(disk) /\ Whole(disk) /\ IsLast(disk, ordinal) /\ IsDisk(disk')
      /\ historyFloor \in Floors(disk) /\ g \in Fold
  BY <1>1, OpenDisk, CompactionGroupFacts DEF Physical
<1>4. compactions \in Nat /\ minted \in Nat
  BY Typed
<1>5. ASSUME NEW C \in SUBSET Candidates,
             disk' = Unlinked(Appended(disk, ordinal, roll, historyFloor, g), C)
      PROVE  FeedInv'
  <2>1. DiskInv(disk', handed, minted, compactions + 1)
    BY <1>1, <1>3, <1>5, CompactKeeps
  <2> QED
    BY <1>1, <2>1, DownIsBlank DEF FeedInv
<1>6. CASE \E x \in Candidates :
             disk' = Unlinked(Appended(disk, ordinal, roll, historyFloor, g),
                              {o \in Candidates : o <= x})
  <2>1. PICK x \in Candidates :
             disk' = Unlinked(Appended(disk, ordinal, roll, historyFloor, g),
                              {o \in Candidates : o <= x})
    BY <1>6
  <2>2. {o \in Candidates : o <= x} \in SUBSET Candidates
    OBVIOUS
  <2> QED
    BY <1>5, <2>1, <2>2
<1>7. CASE disk' = Appended(disk, ordinal, roll, historyFloor, g)
  <2>1. Appended(disk, ordinal, roll, historyFloor, g)
          = Unlinked(Appended(disk, ordinal, roll, historyFloor, g), {})
    BY <1>3, <1>7 DEF Unlinked, IsDisk
  <2> QED
    BY <1>5, <1>7, <2>1
<1>8. CASE Joined(disk, disk', NoFold)
  <2>1. minted <= minted' /\ compactions <= compactions'
    BY <1>1, <1>4
  <2>2. DiskInv(disk, handed, minted, compactions)'
    BY <1>1, <1>8, <2>1, QuietDisk, NothingIsQuiet
  <2> QED
    BY <1>1, <2>2, DownIsBlank DEF FeedInv
<1>9. CASE disk' \in CrashImages(disk, ordinal, roll, historyFloor, g)
  <2>1. \/ disk' = Appended(disk, ordinal, roll, historyFloor, g)
        \/ Joined(disk, disk', NoFold)
    BY <1>1, <1>3, <1>9, CrashImageLost
  <2> QED
    BY <1>7, <1>8, <2>1
<1> QED
  BY <1>2, <1>6, <1>9
-----------------------------------------------------------------------------
(* The specification *)

LEMMA FeedInit == Init => FeedInv
<1> SUFFICES ASSUME Init PROVE FeedInv
  OBVIOUS
<1>1. /\ Bodies(disk) = {} /\ Stamps(disk) = {} /\ Notes(disk) = {}
      /\ BodySeqs(disk) = {} /\ Highs(disk) = {0} /\ DOMAIN disk = {}
  BY DEF Init, Bodies, Stamps, Notes, BodySeqs, Highs
<1>2. \A q \in Seqs : ~Reaches(Tops(disk), q)
  BY <1>1, RecordsAreNumbers DEF Tops, Reaches
<1>3. handed = {} /\ minted = 0 /\ compactions = 0 /\ ~up /\ Blank
  BY DEF Init, Blank
<1>4. Homes(disk) /\ InOrder(handed \cup Bodies(disk)) /\ StampsFollow(disk, minted)
  BY <1>1, <1>3 DEF Homes, InOrder, StampsFollow
<1>5. Remembered(disk, handed) /\ Contiguous(disk) /\ Noted(disk, compactions)
  BY <1>1, <1>2, <1>3 DEF Remembered, Contiguous, Noted
<1> QED
  BY <1>3, <1>4, <1>5 DEF FeedInv, DiskInv

\* Calls that run to their end.
LEMMA FeedSteady ==
  ASSUME Physical, FeedInv, Steady
  PROVE  FeedInv'
<1>1. CASE Opens
  BY <1>1, FeedOpenNew, FeedOpenExisting DEF Opens
<1>2. CASE Submissions(Commit)
  <2>1. PICK k \in Keys, dg \in Digests, n \in 1..MaxDrafts, roll \in BOOLEAN :
          \E T \in SUBSET {a.id : a \in assertions} : Commit(k, dg, n, T, roll)
    BY <1>2 DEF Submissions
  <2>2. PICK T : Commit(k, dg, n, T, roll)
    BY <2>1
  <2> QED
    BY <2>2, FeedCommit
<1>3. CASE \E k \in Keys, dg \in Digests : Replay(k, dg)
  BY <1>3, FeedReplay
<1>4. CASE CommitUnknownTarget
  BY <1>4, FeedCommitUnknownTarget
<1>5. CASE \E limit \in 1..MaxMinted, roll \in BOOLEAN : ReadChanges(limit, roll)
  <2>1. PICK limit \in 1..MaxMinted, roll \in BOOLEAN, cursor \in Cursors :
          ChangesSince(cursor, limit, roll)
    BY <1>5 DEF ReadChanges
  <2> QED
    BY <2>1, FeedChangesSince
<1>6. CASE \E roll \in BOOLEAN : DescribeContract(roll)
  <2>1. PICK roll \in BOOLEAN : ChangesSince(MaxSafeInteger, 0, roll)
    BY <1>6 DEF DescribeContract
  <2>2. MaxSafeInteger \in Cursors
    BY BoundsAreNumbers DEF Cursors
  <2> QED
    BY <2>1, <2>2, FeedChangesSince
<1>7. CASE \E to \in Instants, roll \in BOOLEAN : AdvanceHistoryFloor(to, roll)
  BY <1>7, FeedAdvanceHistoryFloor
<1>8. CASE \E roll \in BOOLEAN : Compact(roll)
  BY <1>8, FeedCompact
<1> QED
  BY <1>1, <1>2, <1>3, <1>4, <1>5, <1>6, <1>7, <1>8 DEF Steady

\* Deaths of the process.
LEMMA FeedFault ==
  ASSUME Physical, FeedInv, Faults
  PROVE  FeedInv'
<1>1. CASE Crash
  BY <1>1, FeedCrash
<1>2. CASE OpenNewCrash
  BY <1>2, FeedOpenNewCrash
<1>3. CASE Removes
  BY <1>3, FeedRemoveHeaderless DEF Removes
<1>4. CASE \E n \in DOMAIN disk, roll \in BOOLEAN : OpenExistingCrash(n, roll)
  BY <1>4, FeedOpenExistingCrash
<1>5. CASE Submissions(CommitCrash)
  <2>1. PICK k \in Keys, dg \in Digests, n \in 1..MaxDrafts, roll \in BOOLEAN :
          \E T \in SUBSET {a.id : a \in assertions} : CommitCrash(k, dg, n, T, roll)
    BY <1>5 DEF Submissions
  <2>2. PICK T : CommitCrash(k, dg, n, T, roll)
    BY <2>1
  <2> QED
    BY <2>2, FeedCommitCrash
<1>6. CASE \E cursor \in Cursors, limit \in 0..MaxMinted, roll \in BOOLEAN :
             ChangesSinceCrash(cursor, limit, roll)
  <2>1. PICK cursor \in Cursors, limit \in 0..MaxMinted, roll \in BOOLEAN :
             ChangesSinceCrash(cursor, limit, roll)
    BY <1>6
  <2> QED
    BY <2>1, FeedChangesSinceCrash
<1>7. CASE \E to \in Instants, roll \in BOOLEAN : AdvanceHistoryFloorCrash(to, roll)
  BY <1>7, FeedAdvanceHistoryFloorCrash
<1>8. CASE \E roll \in BOOLEAN : CompactCrash(roll)
  BY <1>8, FeedCompactCrash
<1> QED
  BY <1>1, <1>2, <1>3, <1>4, <1>5, <1>6, <1>7, <1>8 DEF Faults

LEMMA FeedPreserved ==
  ASSUME Physical, FeedInv, [Next]_vars
  PROVE  FeedInv'
<1>1. CASE Next
  BY <1>1, FeedSteady, FeedFault DEF Next
<1>2. CASE UNCHANGED vars
  BY <1>2 DEF vars, memory, history, FeedInv, MemoryInv, Blank
<1> QED
  BY <1>1, <1>2

\* The directory stays one order of bodies with the marks a restart needs, and
\* the process holds what the directory says, through every crash and compaction.
THEOREM FeedInvariance == Spec => [](Physical /\ FeedInv)
<1>1. IInv /\ FeedInv /\ [Next]_vars => FeedInv'
  BY FeedPreserved DEF IInv
<1>2. IInv => Physical
  BY DEF IInv
<1> QED
  BY <1>1, <1>2, FeedInit, Invariance, PTL DEF Spec

\* segment-reader.ts: what a restart would restore from the directory is what the
\* running process holds, its receipts, bodies, next sequence number, watermark
\* and floor, after any run of crashes, repairs and compactions.
THEOREM RestartFindsTheLog == Spec => []RestartKeepsLog
<1>1. Physical /\ FeedInv => RestartKeepsLog
  <2> SUFFICES ASSUME Physical, FeedInv, up PROVE RestartKeepsLog
    BY DEF RestartKeepsLog
  <2>1. submissions = Receipts(disk) /\ ordinal \in DOMAIN disk /\ IsDisk(disk)
    BY DEF Physical, Attached, IsLast, IsMax
  <2>2. /\ Bodies(disk) = Project(assertions) /\ IsMax(nextSeq - 1, Tops(disk))
        /\ IsMax(publishedSeq, ScanPublished(disk)) /\ IsMax(historyFloor, Floors(disk))
    BY DEF FeedInv, MemoryInv, Agrees
  <2>3. historyFloor \in ScanFloors(disk)
    <3>1. CASE historyFloor = 0
      <4>1. disk[ordinal].log.floor \in Floors(disk) /\ disk[ordinal].log.floor \in Nat
        BY <2>1, FoldsAreNumbers, DiskContents DEF Floors
      <4>2. disk[ordinal].log.floor = 0
        BY <2>2, <3>1, <4>1 DEF IsMax
      <4> QED
        BY <2>1, <3>1, <4>2 DEF ScanFloors
    <3>2. CASE historyFloor # 0
      BY <2>2, <3>2 DEF IsMax, Floors, ScanFloors
    <3> QED
      BY <3>1, <3>2
  <2>4. IsMax(historyFloor, ScanFloors(disk))
    BY <2>2, <2>3 DEF IsMax, Floors, ScanFloors
  <2> QED
    BY <2>1, <2>2, <2>4, TopsAreScanned DEF RestartKeepsLog, Project
<1> QED
  BY <1>1, FeedInvariance, PTL

\* store.ts changesSince(): a sequence number a consumer was given never comes
\* back on another assertion, and belief time follows the numbers, whatever was
\* compacted or crashed in between.
THEOREM FeedIsOrdered == Spec => []FeedIsOneOrder
<1>1. FeedInv => FeedIsOneOrder
  <2> SUFFICES ASSUME FeedInv PROVE FeedIsOneOrder
    OBVIOUS
  <2>1. InOrder(handed \cup Bodies(disk))
    BY DEF FeedInv, DiskInv
  <2>2. Project(assertions) \subseteq Bodies(disk)
    BY DEF FeedInv, MemoryInv, Agrees, Blank, Project
  <2> QED
    BY <2>1, <2>2 DEF FeedIsOneOrder, InOrder, Project
<1> QED
  BY <1>1, FeedInvariance, PTL

\* store.ts, "gapless within the epoch": until a second compaction may drop the
\* notes of the first, every number below the next is a retained assertion or one
\* that a compaction announced as reclaimed.
THEOREM SequenceIsGapless == Spec => [](compactions <= 1 => Gapless)
<1>1. Physical /\ FeedInv => (compactions <= 1 => Gapless)
  <2> SUFFICES ASSUME Physical, FeedInv, compactions <= 1, up PROVE Gapless
    BY DEF Gapless
  <2> DEFINE kept == {a.seq : a \in assertions}
             noted == {n.seq : n \in reclaimed \cup Notes(disk)}
  <2>1. kept = BodySeqs(disk)
    <3>1. Bodies(disk) = Project(assertions)
      BY DEF FeedInv, MemoryInv, Agrees
    <3>2. ASSUME NEW a \in assertions PROVE a.seq \in BodySeqs(disk)
      <4>1. [id |-> a.id, seq |-> a.seq, at |-> a.at] \in Bodies(disk)
        BY <3>1 DEF Project
      <4> QED
        BY <4>1 DEF BodySeqs
    <3>3. ASSUME NEW b \in Bodies(disk) PROVE b.seq \in kept
      BY <3>1 DEF Project
    <3> QED
      BY <3>2, <3>3 DEF BodySeqs
  <2>2. nextSeq \in 1..(MaxMinted + 1) /\ nextSeq \in Nat /\ IsDisk(disk)
    BY BoundsAreNumbers DEF Physical, MemoryOK
  <2>3. ASSUME NEW q \in 1..(nextSeq - 1) PROVE q \in kept \cup noted
    <3>1. q \in Seqs /\ q \in Nat /\ q < nextSeq
      BY <2>2, BoundsAreNumbers DEF Seqs
    <3>2. Reaches(Tops(disk), q)
      BY <3>1, Past
    <3>3. q \in BodySeqs(disk) \/ \E n \in Notes(disk) : n.seq = q
      BY <3>1, <3>2 DEF FeedInv, DiskInv, Noted
    <3> QED
      BY <2>1, <3>3
  <2>4. ASSUME NEW q \in kept \cup noted PROVE q \in 1..(nextSeq - 1)
    <3>1. CASE q \in kept
      <4>1. PICK b \in Bodies(disk) : q = b.seq
        BY <2>1, <3>1 DEF BodySeqs
      <4>2. b.seq < nextSeq /\ b.seq \in Nat /\ b.seq >= 1
        BY Past, Typed, RecordsAreNumbers
      <4> QED
        BY <2>2, <4>1, <4>2
    <3>2. CASE \E n \in Notes(disk) : q = n.seq
      <4>1. PICK n \in Notes(disk) : q = n.seq
        BY <3>2
      <4>2. n.seq \in Nat /\ n.seq >= 1 /\ Reaches(Tops(disk), n.seq)
        BY Typed, RecordsAreNumbers DEF FeedInv, DiskInv, Noted
      <4>3. n.seq < nextSeq
        BY <4>2, Past
      <4> QED
        BY <2>2, <4>1, <4>2, <4>3
    <3>3. CASE \E n \in reclaimed : q = n.seq
      <4>1. PICK n \in reclaimed : q = n.seq
        BY <3>3
      <4>2. n.seq \in Nat /\ n.seq >= 1 /\ n.seq <= nextSeq - 1
        BY Typed, RecordsAreNumbers DEF FeedInv, MemoryInv, Agrees
      <4> QED
        BY <2>2, <4>1, <4>2
    <3>4. q \in noted => \E n \in Notes(disk) \cup reclaimed : q = n.seq
      OBVIOUS
    <3> HIDE DEF kept, noted
    <3> QED
      BY <2>4, <3>1, <3>2, <3>3, <3>4
  <2>5. 1..(nextSeq - 1) = kept \cup noted
    BY <2>3, <2>4
  <2> QED
    BY <2>5 DEF Gapless, Notes
<1> QED
  BY <1>1, FeedInvariance, PTL

\* durable-log.ts compact(), which refuses a segment with an unpublished body:
\* whatever lies above the watermark is retained, however many compactions ran.
THEOREM UnpublishedStays == Spec => []UnpublishedRetained
<1>1. Physical /\ FeedInv => UnpublishedRetained
  <2> SUFFICES ASSUME Physical, FeedInv, up,
                      NEW q \in (publishedSeq + 1)..(nextSeq - 1)
               PROVE  \E a \in assertions : a.seq = q
    BY DEF UnpublishedRetained
  <2>1. nextSeq \in 1..(MaxMinted + 1) /\ nextSeq \in Nat /\ publishedSeq \in Nat
    BY Typed, BoundsAreNumbers DEF Physical, MemoryOK
  <2>2. q \in Seqs /\ q \in Nat /\ q < nextSeq /\ ~(q <= publishedSeq)
    BY <2>1, BoundsAreNumbers DEF Seqs
  <2>3. Reaches(Tops(disk), q) /\ ~Reaches(ScanPublished(disk), q)
    BY <2>2, Past
  <2>4. q \in BodySeqs(disk)
    BY <2>2, <2>3 DEF FeedInv, DiskInv, Contiguous
  <2>5. PICK b \in Bodies(disk) : b.seq = q
    BY <2>4 DEF BodySeqs
  <2> QED
    BY <2>5 DEF FeedInv, MemoryInv, Agrees, Project
<1> QED
  BY <1>1, FeedInvariance, PTL
-----------------------------------------------------------------------------
(* What one step does to the directory *)

\* Nothing a consumer of the feed sees, leaving floors and instants aside.
Unseen ==
  /\ \E g \in Fold : Quiet(g) /\ g.published = 0 /\ Joined(disk, disk', g)
  /\ handed' = handed /\ reclaimed' \subseteq reclaimed \cup Notes(disk)

\* A submission reaches the disk.
Submits ==
  /\ up /\ handed' = handed /\ reclaimed' \subseteq reclaimed
  /\ \E k \in Keys, dg \in Digests, n \in Nat : \E T :
       CommitGroup(k, dg, n, T) \in Fold /\ Joined(disk, disk', CommitGroup(k, dg, n, T))

\* A page is answered; its watermark may get lost with the process.
Publishes(cursor, limit) ==
  /\ up /\ reclaimed' \subseteq reclaimed
  /\ handed' = handed \cup {[id |-> a.id, seq |-> a.seq, at |-> a.at]
                              : a \in Page(cursor, limit)}
  /\ \E n \in NextCursor(Page(cursor, limit), cursor) :
       \/ Joined(disk, disk', NoFold)
       \/ /\ n > publishedSeq /\ WatermarkGroup(n) \in Fold
          /\ Joined(disk, disk', WatermarkGroup(n))

\* Segments are unlinked behind the announcement.
Reclaims ==
  /\ up /\ handed' = handed /\ reclaimed' \subseteq reclaimed \cup NotesOf(Candidates)
  /\ \E roll \in BOOLEAN, g \in CompactionGroups, C \in SUBSET Candidates :
       /\ MayRoll(disk, ordinal, roll)
       /\ disk' = Unlinked(Appended(disk, ordinal, roll, historyFloor, g), C)

ScanStep ==
  \/ Unseen
  \/ Submits
  \/ \E cursor \in Cursors, limit \in Nat : Publishes(cursor, limit)
  \/ Reclaims

LEMMA RaisedTwice ==
  ASSUME NEW S \in SUBSET Nat, NEW T \in SUBSET Nat, NEW U \in SUBSET Nat, 0 \in S,
         NEW m \in Nat, Raised(S, T, 0), Raised(T, U, m)
  PROVE  Raised(S, U, m)
<1>1. U \subseteq S \cup {m}
  BY DEF Raised
<1>2. ASSUME NEW x \in S \cup {m} PROVE Reaches(U, x)
  <2>1. CASE x = m
    BY <2>1 DEF Raised
  <2>2. CASE x \in S
    <3>1. PICK y \in T : x <= y
      BY <2>2 DEF Raised, Reaches
    <3>2. PICK z \in U : y <= z
      BY DEF Raised, Reaches
    <3> QED
      BY <2>2, <3>1, <3>2 DEF Reaches
  <2> QED
    BY <2>1, <2>2
<1> QED
  BY <1>1, <1>2 DEF Raised

\* A group joined behind a change that a scan does not see.
LEMMA JoinedTwice ==
  ASSUME NEW d, IsDisk(d), NEW e, IsDisk(e), NEW f, IsDisk(f), NEW g \in Fold,
         Joined(d, e, NoFold), Joined(e, f, g)
  PROVE  Joined(d, f, g)
<1>1. /\ Highs(d) \in SUBSET Nat /\ Highs(e) \in SUBSET Nat /\ Highs(f) \in SUBSET Nat
      /\ Marks(d) \in SUBSET Nat /\ Marks(e) \in SUBSET Nat /\ Marks(f) \in SUBSET Nat
      /\ Floors(d) \in SUBSET Nat /\ Floors(e) \in SUBSET Nat /\ Floors(f) \in SUBSET Nat
      /\ ScanPublished(d) \in SUBSET Nat /\ ScanPublished(e) \in SUBSET Nat
      /\ ScanPublished(f) \in SUBSET Nat
  BY MarksAreNumbers, BoundsAreNumbers DEF Instants, Cursors
<1>2. 0 \in Highs(d) /\ 0 \in Marks(d) /\ 0 \in Floors(d) /\ 0 \in ScanPublished(d)
  BY DEF Highs, Marks, Floors, ScanPublished
<1>3. /\ Bodies(e) = Bodies(d) /\ Stamps(e) = Stamps(d) /\ Notes(e) = Notes(d)
      /\ Raised(Highs(d), Highs(e), 0) /\ Raised(Marks(d), Marks(e), 0)
      /\ Raised(Floors(d), Floors(e), 0)
      /\ Raised(ScanPublished(d), ScanPublished(e), 0)
  BY DEF Joined, NoFold
<1>4. g.high \in Nat /\ g.instant \in Nat /\ g.floor \in Nat /\ g.published \in Nat
  BY FoldsAreNumbers
<1>5. /\ Raised(Highs(d), Highs(f), g.high) /\ Raised(Marks(d), Marks(f), g.instant)
      /\ Raised(Floors(d), Floors(f), g.floor)
      /\ Raised(ScanPublished(d), ScanPublished(f), g.published)
  BY <1>1, <1>2, <1>3, <1>4, RaisedTwice DEF Joined
<1>6. Placed(d, f, g)
  <2>1. \A o \in DOMAIN e : \A b \in e[o].log.assertions :
          o \in DOMAIN d /\ b \in d[o].log.assertions
    BY DEF Joined, Placed, NoFold
  <2> QED
    BY <2>1 DEF Joined, Placed
<1> QED
  BY <1>3, <1>5, <1>6 DEF Joined

\* Nothing is written, or nothing that a scan sees.
LEMMA NothingUnseen ==
  ASSUME Physical, Joined(disk, disk', NoFold), handed' = handed,
         reclaimed' \subseteq reclaimed \cup Notes(disk)
  PROVE  Unseen
BY NothingIsQuiet DEF Unseen, NoFold

LEMMA StillDisk ==
  ASSUME Physical, disk' = disk
  PROVE  Joined(disk, disk', NoFold)
BY NothingJoined DEF Physical

LEMMA OpensOnDisk ==
  ASSUME Physical, FeedInv, Opens
  PROVE  ScanStep
<1>1. CASE OpenNew
  <2>1. FreshSegment(0).log = NoFold
    BY DEF FreshSegment, NoFold
  <2>2. DOMAIN disk' = {1} /\ disk'[1].log = NoFold /\ DOMAIN disk = {}
    BY <1>1, <2>1 DEF OpenNew, Put
  <2>3. Joined(disk, disk', NoFold)
    BY <2>2, NothingJoined DEF Physical
  <2> QED
    BY <1>1, <2>3, NothingUnseen DEF OpenNew, history, ScanStep
<1>2. ASSUME NEW n \in DOMAIN disk, NEW roll \in BOOLEAN, OpenExisting(n, roll)
      PROVE  ScanStep
  <2> DEFINE d == TailTruncated(n)
  <2>1. /\ IsDisk(d) /\ Whole(d) /\ IsLast(d, n) /\ IsDisk(disk) /\ IsDisk(disk')
    BY <1>2, TruncationFacts, OpenExistingStep DEF OpenExisting, Physical
  <2>2. Joined(disk, d, NoFold) /\ DiskInv(d, handed, minted, compactions)
    BY <1>2, TruncationJoined DEF OpenExisting
  <2>3. /\ Restore(d) /\ handed' = handed
        /\ Damaged(disk[n]) =>
             /\ MayRoll(d, n, roll)
             /\ disk' = Appended(d, n, roll, historyFloor', RepairGroup)
        /\ ~Damaged(disk[n]) => disk' = disk
    BY <1>2 DEF OpenExisting, history
  <2> HIDE DEF d
  <2>4. reclaimed' \subseteq Notes(disk)
    <3>1. reclaimed' \subseteq Notes(d)
      BY <2>3 DEF Restore, ScanReclaimed, Notes
    <3>2. Notes(d) = Notes(disk)
      BY <2>2 DEF Joined, NoFold
    <3> QED
      BY <3>1, <3>2
  <2>5. CASE ~Damaged(disk[n])
    BY <2>3, <2>4, <2>5, StillDisk, NothingUnseen DEF ScanStep
  <2>6. CASE Damaged(disk[n])
    <3>1. historyFloor' \in Floors(d)
      BY <2>3 DEF Restore, ScanFloors, Floors
    <3>2. Joined(d, disk', RepairGroup)
      BY <2>1, <2>3, <2>6, <3>1, RepairIsQuiet, AppendedJoined
    <3>3. Joined(disk, disk', RepairGroup)
      BY <2>1, <2>2, <3>2, RepairIsQuiet, JoinedTwice
    <3> QED
      BY <2>3, <2>4, <3>3, RepairIsQuiet DEF ScanStep, Unseen
  <2> QED
    BY <2>5, <2>6
<1> QED
  BY <1>1, <1>2 DEF Opens

LEMMA OpenCrashOnDisk ==
  ASSUME Physical, FeedInv, NEW n, NEW roll \in BOOLEAN, OpenExistingCrash(n, roll)
  PROVE  ScanStep
<1> DEFINE d == TailTruncated(n)
<1>1. IsDisk(d) /\ Whole(d) /\ IsLast(d, n) /\ IsDisk(disk) /\ IsDisk(disk')
  BY TruncationFacts, OpenExistingCrashStep DEF OpenExistingCrash, Physical
<1>2. Joined(disk, d, NoFold)
  BY TruncationJoined DEF OpenExistingCrash
<1>3. PICK f \in ScanFloors(d) : disk' \in CrashImages(d, n, roll, f, RepairGroup)
  BY DEF OpenExistingCrash
<1>4. MayRoll(d, n, roll) /\ handed' = handed /\ reclaimed' = reclaimed
  BY DEF OpenExistingCrash, memory, history
<1> HIDE DEF d
<1>5. f \in Floors(d)
  BY DEF Floors, ScanFloors
<1>6. Joined(d, disk', RepairGroup) \/ Joined(d, disk', NoFold)
  BY <1>1, <1>3, <1>4, <1>5, RepairIsQuiet, CrashImageJoined
<1>7. Joined(disk, disk', RepairGroup) \/ Joined(disk, disk', NoFold)
  BY <1>1, <1>2, <1>6, RepairIsQuiet, NothingIsQuiet, JoinedTwice
<1> QED
  BY <1>4, <1>7, RepairIsQuiet, NothingUnseen DEF ScanStep, Unseen

LEMMA CommitOnDisk ==
  ASSUME Physical, FeedInv, NEW k \in Keys, NEW dg \in Digests, NEW n \in 1..MaxDrafts,
         NEW T, NEW roll \in BOOLEAN,
         Commit(k, dg, n, T, roll) \/ CommitCrash(k, dg, n, T, roll)
  PROVE  ScanStep
<1> DEFINE g == CommitGroup(k, dg, n, T)
<1>1. /\ up /\ MayCommit(k, n, T, roll) /\ MayRoll(disk, ordinal, roll)
      /\ handed' = handed /\ reclaimed' \subseteq reclaimed
      /\ \/ disk' = Appended(disk, ordinal, roll, historyFloor, g)
         \/ disk' \in CrashImages(disk, ordinal, roll, historyFloor, g)
  BY DEF Commit, CommitCrash, MayCommit, Down
<1>2. g \in Fold
  BY <1>1, CommitGroupFacts
<1>3. /\ IsDisk(disk) /\ Whole(disk) /\ IsLast(disk, ordinal)
      /\ historyFloor \in Floors(disk)
  BY <1>1, OpenDisk
<1>4. n \in Nat
  BY BoundsAreNumbers
<1>5. Joined(disk, disk', g) \/ Joined(disk, disk', NoFold)
  <2> HIDE DEF g
  <2> QED
    BY <1>1, <1>2, <1>3, AppendedJoined, CrashImageJoined
<1>6. CASE Joined(disk, disk', g)
  BY <1>1, <1>2, <1>4, <1>6 DEF ScanStep, Submits
<1>7. CASE Joined(disk, disk', NoFold)
  BY <1>1, <1>7, NothingUnseen DEF ScanStep
<1> QED
  BY <1>5, <1>6, <1>7

LEMMA PageOnDiskStep ==
  ASSUME Physical, FeedInv, NEW cursor \in Cursors, NEW limit, NEW roll \in BOOLEAN,
         ChangesSince(cursor, limit, roll) \/ ChangesSinceCrash(cursor, limit, roll)
  PROVE  Publishes(cursor, limit)
<1>1. /\ up /\ reclaimed' \subseteq reclaimed
      /\ handed' = handed \cup {[id |-> a.id, seq |-> a.seq, at |-> a.at]
                                  : a \in Page(cursor, limit)}
  BY DEF ChangesSince, ChangesSinceCrash, Down
<1>2. PICK n \in NextCursor(Page(cursor, limit), cursor) :
        \/ disk' = disk
        \/ /\ n > publishedSeq /\ Now <= MaxInstant /\ MayRoll(disk, ordinal, roll)
           /\ \/ disk' = Appended(disk, ordinal, roll, historyFloor, WatermarkGroup(n))
              \/ disk' \in CrashImages(disk, ordinal, roll, historyFloor, WatermarkGroup(n))
  BY DEF ChangesSince, ChangesSinceCrash
<1>3. CASE disk' = disk
  BY <1>1, <1>3, StillDisk DEF Publishes
<1>4. CASE disk' # disk
  <2>1. n \in Cursors /\ Now \in Instants
    BY <1>2, <1>4, Typed, CursorIsTyped, BoundsAreNumbers DEF Instants
  <2>2. WatermarkGroup(n) \in Fold
    BY <2>1, QuietGroups
  <2>3. /\ IsDisk(disk) /\ Whole(disk) /\ IsLast(disk, ordinal)
        /\ historyFloor \in Floors(disk)
    BY <1>1, OpenDisk
  <2>4. Joined(disk, disk', WatermarkGroup(n)) \/ Joined(disk, disk', NoFold)
    BY <1>2, <1>4, <2>2, <2>3, AppendedJoined, CrashImageJoined
  <2> QED
    BY <1>1, <1>2, <1>4, <2>2, <2>4 DEF Publishes
<1> QED
  BY <1>3, <1>4

LEMMA FloorOnDisk ==
  ASSUME Physical, FeedInv, NEW to, NEW roll \in BOOLEAN,
         AdvanceHistoryFloor(to, roll) \/ AdvanceHistoryFloorCrash(to, roll)
  PROVE  ScanStep
<1>1. /\ up /\ handed' = handed /\ reclaimed' \subseteq reclaimed
      /\ MayRoll(disk, ordinal, roll) /\ to \in Instants /\ Now <= MaxInstant
      /\ \/ disk' = Appended(disk, ordinal, roll, historyFloor, FloorGroup(to))
         \/ disk' \in CrashImages(disk, ordinal, roll, historyFloor, FloorGroup(to))
  BY DEF AdvanceHistoryFloor, AdvanceHistoryFloorCrash, MayAdvance, Down, history
<1>2. Now \in Instants
  BY <1>1, Typed, BoundsAreNumbers DEF Instants
<1>3. FloorGroup(to) \in Fold /\ Quiet(FloorGroup(to)) /\ FloorGroup(to).published = 0
  BY <1>1, <1>2, QuietGroups, FloorIsQuiet
<1>4. /\ IsDisk(disk) /\ Whole(disk) /\ IsLast(disk, ordinal)
      /\ historyFloor \in Floors(disk)
  BY <1>1, OpenDisk
<1>5. Joined(disk, disk', FloorGroup(to)) \/ Joined(disk, disk', NoFold)
  BY <1>1, <1>3, <1>4, AppendedJoined, CrashImageJoined
<1> QED
  BY <1>1, <1>3, <1>5, NothingUnseen DEF ScanStep, Unseen

LEMMA CompactOnDisk ==
  ASSUME Physical, FeedInv, NEW roll \in BOOLEAN, Compact(roll) \/ CompactCrash(roll)
  PROVE  ScanStep
<1>1. /\ up /\ MayRoll(disk, ordinal, roll) /\ handed' = handed
      /\ reclaimed' \subseteq reclaimed \cup NotesOf(Candidates)
  BY DEF Compact, CompactCrash, MayCompact, Down
<1>2. Compact(roll) \/ reclaimed' = {}
  BY DEF CompactCrash, Down
<1>3. PICK g \in CompactionGroups :
        \/ \E C \in SUBSET Candidates :
             disk' = Unlinked(Appended(disk, ordinal, roll, historyFloor, g), C)
        \/ reclaimed' = {} /\ disk' \in CrashImages(disk, ordinal, roll, historyFloor, g)
  <2>1. CASE Compact(roll)
    BY <2>1 DEF Compact
  <2>2. CASE CompactCrash(roll)
    <3>1. PICK g \in CompactionGroups :
            \/ disk' \in CrashImages(disk, ordinal, roll, historyFloor, g)
            \/ \E x \in Candidates :
                 disk' = Unlinked(Appended(disk, ordinal, roll, historyFloor, g),
                                  {o \in Candidates : o <= x})
      BY <2>2 DEF CompactCrash
    <3>2. reclaimed' = {}
      BY <2>2 DEF CompactCrash, Down
    <3>3. \A x : {o \in Candidates : o <= x} \in SUBSET Candidates
      OBVIOUS
    <3> QED
      BY <3>1, <3>2, <3>3
  <2> QED
    BY <2>1, <2>2
<1>4. /\ IsDisk(disk) /\ Whole(disk) /\ IsLast(disk, ordinal)
      /\ historyFloor \in Floors(disk) /\ g \in Fold /\ IsDisk(disk')
  BY <1>1, OpenDisk, CompactionGroupFacts, CompactStep, CompactCrashStep DEF Physical
<1>5. CASE \E C \in SUBSET Candidates :
             disk' = Unlinked(Appended(disk, ordinal, roll, historyFloor, g), C)
  BY <1>1, <1>5 DEF ScanStep, Reclaims
<1>6. CASE reclaimed' = {} /\ disk' \in CrashImages(disk, ordinal, roll, historyFloor, g)
  <2>1. \/ disk' = Appended(disk, ordinal, roll, historyFloor, g)
        \/ Joined(disk, disk', NoFold)
    BY <1>1, <1>4, <1>6, CrashImageLost
  <2>2. CASE Joined(disk, disk', NoFold)
    BY <1>1, <1>6, <2>2, NothingUnseen DEF ScanStep
  <2>3. CASE disk' = Appended(disk, ordinal, roll, historyFloor, g)
    <3>1. disk' = Unlinked(Appended(disk, ordinal, roll, historyFloor, g), {})
      BY <1>4, <2>3 DEF Unlinked, IsDisk
    <3> QED
      BY <1>5, <3>1
  <2> QED
    BY <2>1, <2>2, <2>3
<1> QED
  BY <1>3, <1>5, <1>6

LEMMA NextOnDisk ==
  ASSUME Physical, FeedInv, [Next]_vars
  PROVE  ScanStep
<1>1. CASE UNCHANGED vars
  BY <1>1, StillDisk, NothingUnseen DEF vars, memory, history, ScanStep
<1>2. CASE Steady
  <2>1. CASE Opens
    BY <2>1, OpensOnDisk
  <2>2. CASE Submissions(Commit)
    <3>1. PICK k \in Keys, dg \in Digests, n \in 1..MaxDrafts, roll \in BOOLEAN :
            \E T \in SUBSET {a.id : a \in assertions} : Commit(k, dg, n, T, roll)
      BY <2>2 DEF Submissions
    <3>2. PICK T : Commit(k, dg, n, T, roll)
      BY <3>1
    <3> QED
      BY <3>2, CommitOnDisk
  <2>3. CASE \E k \in Keys, dg \in Digests : Replay(k, dg)
    BY <2>3, StillDisk, NothingUnseen DEF Replay, memory, ScanStep
  <2>4. CASE CommitUnknownTarget
    BY <2>4, StillDisk, NothingUnseen DEF CommitUnknownTarget, history, ScanStep
  <2>5. CASE \E limit \in 1..MaxMinted, roll \in BOOLEAN : ReadChanges(limit, roll)
    <3>1. PICK limit \in 1..MaxMinted, roll \in BOOLEAN, cursor \in Cursors :
            ChangesSince(cursor, limit, roll)
      BY <2>5 DEF ReadChanges
    <3>2. limit \in Nat
      BY BoundsAreNumbers
    <3> QED
      BY <3>1, <3>2, PageOnDiskStep DEF ScanStep
  <2>6. CASE \E roll \in BOOLEAN : DescribeContract(roll)
    <3>1. PICK roll \in BOOLEAN : ChangesSince(MaxSafeInteger, 0, roll)
      BY <2>6 DEF DescribeContract
    <3>2. MaxSafeInteger \in Cursors /\ 0 \in Nat
      BY BoundsAreNumbers DEF Cursors
    <3> QED
      BY <3>1, <3>2, PageOnDiskStep DEF ScanStep
  <2>7. CASE \E to \in Instants, roll \in BOOLEAN : AdvanceHistoryFloor(to, roll)
    BY <2>7, FloorOnDisk
  <2>8. CASE \E roll \in BOOLEAN : Compact(roll)
    BY <2>8, CompactOnDisk
  <2> QED
    BY <1>2, <2>1, <2>2, <2>3, <2>4, <2>5, <2>6, <2>7, <2>8 DEF Steady
<1>3. CASE Faults
  <2>1. CASE Crash
    BY <2>1, StillDisk, NothingUnseen DEF Crash, Down, history, ScanStep
  <2>2. CASE OpenNewCrash
    <3>1. DOMAIN disk' = {1} /\ disk'[1].log = NoFold /\ DOMAIN disk = {}
      BY <2>2, HeaderlessIsSegment DEF OpenNewCrash, Put
    <3>2. Joined(disk, disk', NoFold)
      BY <3>1, NothingJoined DEF Physical
    <3> QED
      BY <2>2, <3>2, NothingUnseen DEF OpenNewCrash, memory, history, ScanStep
  <2>3. CASE Removes
    BY <2>3, FeedRemoveHeaderless, NothingUnseen
       DEF Removes, RemoveHeaderless, memory, history, ScanStep
  <2>4. CASE \E n \in DOMAIN disk, roll \in BOOLEAN : OpenExistingCrash(n, roll)
    BY <2>4, OpenCrashOnDisk
  <2>5. CASE Submissions(CommitCrash)
    <3>1. PICK k \in Keys, dg \in Digests, n \in 1..MaxDrafts, roll \in BOOLEAN :
            \E T \in SUBSET {a.id : a \in assertions} : CommitCrash(k, dg, n, T, roll)
      BY <2>5 DEF Submissions
    <3>2. PICK T : CommitCrash(k, dg, n, T, roll)
      BY <3>1
    <3> QED
      BY <3>2, CommitOnDisk
  <2>6. CASE \E cursor \in Cursors, limit \in 0..MaxMinted, roll \in BOOLEAN :
               ChangesSinceCrash(cursor, limit, roll)
    <3>1. PICK cursor \in Cursors, limit \in 0..MaxMinted, roll \in BOOLEAN :
               ChangesSinceCrash(cursor, limit, roll)
      BY <2>6
    <3>2. limit \in Nat
      BY BoundsAreNumbers
    <3> QED
      BY <3>1, <3>2, PageOnDiskStep DEF ScanStep
  <2>7. CASE \E to \in Instants, roll \in BOOLEAN : AdvanceHistoryFloorCrash(to, roll)
    BY <2>7, FloorOnDisk
  <2>8. CASE \E roll \in BOOLEAN : CompactCrash(roll)
    BY <2>8, CompactOnDisk
  <2> QED
    BY <1>3, <2>1, <2>2, <2>3, <2>4, <2>5, <2>6, <2>7, <2>8 DEF Faults
<1> QED
  BY <1>1, <1>2, <1>3 DEF Next
-----------------------------------------------------------------------------
(* The retention floor *)

LEMMA FloorsKept ==
  ASSUME Physical, FeedInv, Physical', ScanStep, NEW x \in Nat, Reaches(Floors(disk), x)
  PROVE  Reaches(Floors(disk'), x)
<1>1. IsDisk(disk) /\ IsDisk(disk')
  BY DEF Physical
<1>2. \A g \in Fold : Joined(disk, disk', g) => Reaches(Floors(disk'), x)
  BY <1>1, JoinedReach
<1>3. CASE Unseen
  BY <1>2, <1>3 DEF Unseen
<1>4. CASE Submits
  BY <1>2, <1>4 DEF Submits
<1>5. ASSUME NEW cursor, NEW limit, Publishes(cursor, limit)
      PROVE  Reaches(Floors(disk'), x)
  BY <1>2, <1>5, NothingIsQuiet DEF Publishes
<1>6. CASE Reclaims
  BY <1>1, <1>6, ReclaimReach DEF Reclaims
<1> QED
  BY <1>3, <1>4, <1>5, <1>6 DEF ScanStep

\* durable-log.ts advanceHistoryFloor() and compact(): the floor a reopened log
\* would enforce never moves backwards, whatever was compacted, lost or removed.
THEOREM FloorIsMonotone == Spec => FloorNeverRegresses
<1>1. Physical /\ FeedInv /\ Physical' /\ [Next]_vars =>
        [DOMAIN disk # {} /\ DOMAIN disk' # {} =>
           \A f \in ScanFloors(disk) : \E g \in ScanFloors(disk') : f <= g]_vars
  <2> SUFFICES ASSUME Physical, FeedInv, Physical', [Next]_vars, DOMAIN disk' # {},
                      NEW f \in ScanFloors(disk)
               PROVE  \E g \in ScanFloors(disk') : f <= g
    OBVIOUS
  <2>1. /\ Floors(disk) \subseteq Nat /\ Floors(disk') \subseteq Nat
        /\ f \in Floors(disk) /\ f \in Nat
    <3>1. Floors(disk) \subseteq Instants /\ Floors(disk') \subseteq Instants
      BY MarksAreNumbers DEF Physical
    <3> QED
      BY <3>1, BoundsAreNumbers DEF Instants, Floors, ScanFloors
  <2>2. Reaches(Floors(disk), f)
    BY <2>1 DEF Reaches
  <2>3. PICK y \in Floors(disk') : f <= y
    BY <2>1, <2>2, NextOnDisk, FloorsKept DEF Reaches
  <2>4. PICK g : g \in ScanFloors(disk')
    BY DEF ScanFloors
  <2>5. g \in Nat /\ y \in Nat /\ (y = 0 \/ y \in ScanFloors(disk'))
    BY <2>1, <2>3, <2>4 DEF Floors, ScanFloors
  <2> QED
    BY <2>1, <2>3, <2>4, <2>5
<1> QED
  BY <1>1, FeedInvariance, PTL DEF Spec, FloorNeverRegresses
-----------------------------------------------------------------------------
(* As-of reads *)

\* A submission stamps and stores later than any instant one can ask about.
LEMMA CommitAsOf ==
  ASSUME Physical, FeedInv, NEW k \in Keys, NEW dg \in Digests, NEW n \in 1..MaxDrafts,
         NEW T, NEW roll \in BOOLEAN, Commit(k, dg, n, T, roll),
         NEW t \in Nat, t <= lastRecordedMillis, NEW incl \in BOOLEAN
  PROVE  Query(assertions', t, incl) = Query(assertions, t, incl)
<1>1. assertions' = (assertions \ Stamped(T))
                      \cup {[a EXCEPT !.sup = Now] : a \in Stamped(T)}
                      \cup {[id |-> b.id, seq |-> b.seq, at |-> b.at, sup |-> Null]
                              : b \in NewBodies(n)}
  BY DEF Commit
<1>2. assertions \subseteq Believed /\ Now \in Nat /\ t < Now /\ Now # Null
  BY Typed DEF Now, Null
<1>3. Stamped(T) \subseteq assertions /\ \A a \in Stamped(T) : a.sup = Null
  BY DEF Stamped
<1>4. \A b \in NewBodies(n) : b.at = Now
  BY DEF NewBodies
<1>5. ASSUME NEW a \in Stamped(T)
      PROVE  /\ [a EXCEPT !.sup = Now].id = a.id /\ [a EXCEPT !.sup = Now].at = a.at
             /\ [a EXCEPT !.sup = Now].sup = Now
  BY <1>2, <1>3 DEF Believed
<1>6. ASSUME NEW a \in assertions', a.at <= t, incl \/ a.sup = Null \/ a.sup > t
      PROVE  \E c \in assertions : /\ c.id = a.id /\ c.at <= t
                                   /\ incl \/ c.sup = Null \/ c.sup > t
  <2>1. CASE a \in assertions
    BY <1>6, <2>1
  <2>2. CASE \E c \in Stamped(T) : a = [c EXCEPT !.sup = Now]
    <3>1. PICK c \in Stamped(T) : a = [c EXCEPT !.sup = Now]
      BY <2>2
    <3>2. c \in assertions /\ c.id = a.id /\ c.at <= t /\ c.sup = Null
      BY <1>3, <1>5, <1>6, <3>1
    <3> QED
      BY <3>2
  <2>3. CASE \E b \in NewBodies(n) :
               a = [id |-> b.id, seq |-> b.seq, at |-> b.at, sup |-> Null]
    <3>1. a.at = Now
      BY <1>4, <2>3
    <3> QED
      BY <1>2, <1>6, <3>1
  <2> QED
    BY <1>1, <2>1, <2>2, <2>3
<1>7. ASSUME NEW a \in assertions, a.at <= t, incl \/ a.sup = Null \/ a.sup > t
      PROVE  \E c \in assertions' : /\ c.id = a.id /\ c.at <= t
                                    /\ incl \/ c.sup = Null \/ c.sup > t
  <2>1. CASE a \in Stamped(T)
    <3>1. [a EXCEPT !.sup = Now] \in assertions'
      BY <1>1, <2>1
    <3>2. [a EXCEPT !.sup = Now].sup > t
      BY <1>2, <1>5, <2>1
    <3> QED
      BY <1>5, <1>7, <2>1, <3>1, <3>2
  <2>2. CASE a \notin Stamped(T)
    BY <1>1, <1>7, <2>2
  <2> QED
    BY <2>1, <2>2
<1>8. Query(assertions', t, incl) \subseteq Query(assertions, t, incl)
  BY <1>6 DEF Query
<1>9. Query(assertions, t, incl) \subseteq Query(assertions', t, incl)
  BY <1>7 DEF Query
<1> QED
  BY <1>8, <1>9

\* A step leaves the answers at t as they are.
SameAnswers(t) ==
  /\ Query(assertions', t, FALSE) = Query(assertions, t, FALSE)
  /\ Query(assertions', t, TRUE) \subseteq Query(assertions, t, TRUE)
  /\ Query(assertions, t, TRUE) \subseteq
       Query(assertions', t, TRUE) \cup {n.id : n \in reclaimed'}

\* Compaction drops only what was superseded no later than the floor, and notes it.
LEMMA CompactAsOf ==
  ASSUME Physical, FeedInv, NEW roll \in BOOLEAN, Compact(roll),
         NEW t \in Nat, historyFloor <= t
  PROVE  SameAnswers(t)
<1>1. /\ up
      /\ assertions' = {a \in assertions : \A n \in NotesOf(Candidates) : n.id # a.id}
      /\ NotesOf(Candidates) \subseteq reclaimed'
  BY DEF Compact, MayCompact
<1>2. ASSUME NEW a \in assertions, a \notin assertions'
      PROVE  /\ a.sup # Null /\ ~(a.sup > t)
             /\ \E n \in reclaimed' : n.id = a.id
  <2>1. PICK n \in NotesOf(Candidates) : n.id = a.id
    BY <1>1, <1>2
  <2>2. PICK o \in Candidates : \E b \in disk[o].log.assertions :
          n = [id |-> b.id, seq |-> b.seq]
    BY <2>1 DEF NotesOf
  <2>3. PICK b \in disk[o].log.assertions : n = [id |-> b.id, seq |-> b.seq]
    BY <2>2
  <2>4. PICK s \in Stamps(disk) : s.id = b.id /\ s.at <= historyFloor
    BY <1>1, ReclaimableFacts
  <2>5. a.sup # Null /\ a.sup <= s.at
    BY <1>1, <2>1, <2>3, <2>4 DEF FeedInv, MemoryInv, Agrees, Superseded
  <2>6. a.sup \in Nat /\ s.at \in Nat /\ historyFloor \in Nat
    BY Typed, RecordsAreNumbers
  <2> QED
    BY <1>1, <2>1, <2>4, <2>5, <2>6
<1>3. Query(assertions', t, FALSE) = Query(assertions, t, FALSE)
  BY <1>1, <1>2 DEF Query
<1>4. Query(assertions', t, TRUE) \subseteq Query(assertions, t, TRUE)
  BY <1>1 DEF Query
<1>5. Query(assertions, t, TRUE) \subseteq
        Query(assertions', t, TRUE) \cup {n.id : n \in reclaimed'}
  BY <1>2 DEF Query
<1> QED
  BY <1>3, <1>4, <1>5 DEF SameAnswers

\* store.ts query() and durable-log.ts compact(): no step of a running process,
\* compaction included, changes what was believed at an instant the store still
\* accepts; a read that includes superseded records loses only reclaimed ids.
THEOREM AsOfReadsStable == Spec => AsOfStable
<1>1. Physical /\ FeedInv /\ [Next]_vars =>
        [up /\ up' => \A t \in historyFloor'..lastRecordedMillis :
           /\ Query(assertions', t, FALSE) = Query(assertions, t, FALSE)
           /\ Query(assertions', t, TRUE) \subseteq Query(assertions, t, TRUE)
           /\ Query(assertions, t, TRUE) \subseteq
                Query(assertions', t, TRUE) \cup {n.id : n \in reclaimed'}]_vars
  <2> SUFFICES ASSUME Physical, FeedInv, Next, up, up', Physical',
                      NEW t \in historyFloor'..lastRecordedMillis
               PROVE  SameAnswers(t)
    BY SteadyStep, FaultStep DEF Next, SameAnswers
  <2>1. lastRecordedMillis \in Nat /\ historyFloor \in Nat /\ historyFloor' \in Nat
    BY Typed, BoundsAreNumbers DEF Physical, MemoryOK, Instants
  <2>2. t \in Nat /\ t <= lastRecordedMillis /\ historyFloor' <= t
    BY <2>1
  <2>3. CASE assertions' = assertions
    BY <2>3 DEF SameAnswers
  <2>4. CASE Submissions(Commit)
    <3>1. PICK k \in Keys, dg \in Digests, n \in 1..MaxDrafts, roll \in BOOLEAN :
            \E T \in SUBSET {a.id : a \in assertions} : Commit(k, dg, n, T, roll)
      BY <2>4 DEF Submissions
    <3>2. PICK T : Commit(k, dg, n, T, roll)
      BY <3>1
    <3> QED
      BY <2>2, <3>2, CommitAsOf DEF SameAnswers
  <2>5. CASE \E roll \in BOOLEAN : Compact(roll)
    <3>1. PICK roll \in BOOLEAN : Compact(roll)
      BY <2>5
    <3>2. historyFloor' = historyFloor
      BY <3>1 DEF Compact
    <3> QED
      BY <2>2, <3>1, <3>2, CompactAsOf
  <2>6. CASE Steady
    <3>1. ~Opens
      BY DEF Opens, OpenNew, OpenExisting
    <3>2. CASE \E k \in Keys, dg \in Digests : Replay(k, dg)
      BY <2>3, <3>2 DEF Replay, memory
    <3>3. CASE CommitUnknownTarget
      BY <2>3, <3>3 DEF CommitUnknownTarget
    <3>4. CASE \E limit \in 1..MaxMinted, roll \in BOOLEAN : ReadChanges(limit, roll)
      BY <2>3, <3>4 DEF ReadChanges, ChangesSince
    <3>5. CASE \E roll \in BOOLEAN : DescribeContract(roll)
      BY <2>3, <3>5 DEF DescribeContract, ChangesSince
    <3>6. CASE \E to \in Instants, roll \in BOOLEAN : AdvanceHistoryFloor(to, roll)
      BY <2>3, <3>6 DEF AdvanceHistoryFloor
    <3> QED
      BY <2>4, <2>5, <2>6, <3>1, <3>2, <3>3, <3>4, <3>5, <3>6 DEF Steady
  <2>7. CASE Faults
    <3>1. ~Submissions(CommitCrash)
      BY DEF Submissions, CommitCrash, Down
    <3>2. ~Crash /\ ~OpenNewCrash /\ ~Removes
      BY DEF Crash, OpenNewCrash, Removes, RemoveHeaderless, Down
    <3> QED
      BY <2>7, <3>1, <3>2 DEF Faults, OpenExistingCrash, ChangesSinceCrash,
         AdvanceHistoryFloorCrash, CompactCrash, Down
  <2> QED
    BY <2>6, <2>7 DEF Next
<1> QED
  BY <1>1, FeedInvariance, PTL DEF Spec, AsOfStable
=============================================================================
