------------------------ MODULE EntityRegistryProofs ------------------------
(* Theorems about the entity registry, for every number of ids, observations  *)
(* and groups.  Every operation appends one group; the proofs say what the    *)
(* scan of the log makes of one more group, what each operation puts into     *)
(* its group, and what that does to the invariant.  The second half is about  *)
(* chains of redirects: they end, at an entity, and a merge joins two.        *)
EXTENDS EntityRegistry, FiniteSetTheorems, WellFoundedInduction, TLAPS

-----------------------------------------------------------------------------
(* The scan of one more group *)

LEMMA Appended ==
  ASSUME NEW l \in Seq(Group), NEW g \in Group
  PROVE  /\ Append(l, g) \in Seq(Group)
         /\ Len(Append(l, g)) = Len(l) + 1 /\ Len(l) \in Nat
         /\ \A i \in 1..Len(l) : Append(l, g)[i] = l[i] /\ l[i] \in Group
         /\ Append(l, g)[Len(l) + 1] = g
  OBVIOUS

LEMMA ScanRowsAppend ==
  ASSUME NEW l \in Seq(Group), NEW g \in Group
  PROVE  ScanRows(Append(l, g)) = ScanRows(l) \cup g.rows
<1> DEFINE m == Append(l, g)
<1>1. /\ Len(m) = Len(l) + 1 /\ Len(l) \in Nat /\ m[Len(l) + 1] = g
      /\ \A i \in 1..Len(l) : m[i] = l[i]
  BY Appended
<1> HIDE DEF m
<1>2. \A i \in 1..Len(m) : i \in 1..Len(l) \/ i = Len(l) + 1
  BY <1>1
<1>3. \A i \in 1..Len(l) : i \in 1..Len(m)
  BY <1>1
<1>4. Len(l) + 1 \in 1..Len(m)
  BY <1>1
<1>5. ScanRows(m) = ScanRows(l) \cup g.rows
  BY <1>1, <1>2, <1>3, <1>4 DEF ScanRows
<1> QED
  BY <1>5 DEF m

LEMMA ScanEntitiesAppend ==
  ASSUME NEW l \in Seq(Group), NEW g \in Group
  PROVE  ScanEntities(Append(l, g)) =
           {e \in ScanEntities(l) : e.id \notin IdsOf(g.entities)} \cup g.entities
<1> DEFINE m == Append(l, g)
<1>1. /\ Len(m) = Len(l) + 1 /\ Len(l) \in Nat /\ m[Len(l) + 1] = g
      /\ \A i \in 1..Len(l) : m[i] = l[i]
  BY Appended
<1> HIDE DEF m
<1>2. ASSUME NEW e, e \in ScanEntities(m)
      PROVE  e \in g.entities \/ (e \in ScanEntities(l) /\ e.id \notin IdsOf(g.entities))
  <2>1. PICK i \in 1..Len(m) : /\ e \in m[i].entities
                               /\ \A j \in (i + 1)..Len(m) : \A f \in m[j].entities : f.id # e.id
    BY <1>2 DEF ScanEntities
  <2>2. CASE i = Len(l) + 1
    BY <1>1, <2>1, <2>2
  <2>3. CASE i \in 1..Len(l)
    <3>1. Len(l) + 1 \in (i + 1)..Len(m)
      BY <1>1, <2>3
    <3>2. \A f \in g.entities : f.id # e.id
      BY <1>1, <2>1, <3>1
    <3>3. \A j \in (i + 1)..Len(l) : j \in (i + 1)..Len(m) /\ j \in 1..Len(l)
      BY <1>1, <2>3
    <3>4. \A j \in (i + 1)..Len(l) : \A f \in l[j].entities : f.id # e.id
      BY <1>1, <2>1, <3>3
    <3> QED
      BY <1>1, <2>1, <2>3, <3>2, <3>4 DEF ScanEntities, IdsOf
  <2> QED
    BY <1>1, <2>2, <2>3
<1>3. ASSUME NEW e, e \in g.entities
      PROVE  e \in ScanEntities(m)
  <2>1. Len(l) + 1 \in 1..Len(m) /\ (Len(l) + 1 + 1)..Len(m) = {}
    BY <1>1
  <2> QED
    BY <1>1, <1>3, <2>1 DEF ScanEntities
<1>4. ASSUME NEW e, e \in ScanEntities(l), e.id \notin IdsOf(g.entities)
      PROVE  e \in ScanEntities(m)
  <2>1. PICK i \in 1..Len(l) : /\ e \in l[i].entities
                               /\ \A j \in (i + 1)..Len(l) : \A f \in l[j].entities : f.id # e.id
    BY <1>4 DEF ScanEntities
  <2>2. i \in 1..Len(m)
    BY <1>1
  <2>3. ASSUME NEW j \in (i + 1)..Len(m), NEW f \in m[j].entities
        PROVE  f.id # e.id
    <3>1. CASE j = Len(l) + 1
      BY <1>1, <1>4, <2>3, <3>1 DEF IdsOf
    <3>2. CASE j \in (i + 1)..Len(l)
      BY <1>1, <2>1, <2>3, <3>2
    <3> QED
      BY <1>1, <3>1, <3>2
  <2>4. e \in m[i].entities
    BY <1>1, <2>1
  <2>5. e \in UNION {m[k].entities : k \in 1..Len(m)}
    BY <2>2, <2>4
  <2> QED
    BY <2>2, <2>3, <2>4, <2>5 DEF ScanEntities
<1>5. ScanEntities(m) = {e \in ScanEntities(l) : e.id \notin IdsOf(g.entities)} \cup g.entities
  BY <1>2, <1>3, <1>4
<1> QED
  BY <1>5 DEF m

LEMMA ScanSeenAppend ==
  ASSUME NEW l \in Seq(Group), NEW g \in Group
  PROVE  ScanSeen(Append(l, g)) =
           {s \in ScanSeen(l) : s.id \notin IdsOf(g.seen)} \cup g.seen
<1> DEFINE m == Append(l, g)
<1>1. /\ Len(m) = Len(l) + 1 /\ Len(l) \in Nat /\ m[Len(l) + 1] = g
      /\ \A i \in 1..Len(l) : m[i] = l[i]
  BY Appended
<1> HIDE DEF m
<1>2. ASSUME NEW s, s \in ScanSeen(m)
      PROVE  s \in g.seen \/ (s \in ScanSeen(l) /\ s.id \notin IdsOf(g.seen))
  <2>1. PICK i \in 1..Len(m) : /\ s \in m[i].seen
                               /\ \A j \in (i + 1)..Len(m) : \A f \in m[j].seen : f.id # s.id
    BY <1>2 DEF ScanSeen
  <2>2. CASE i = Len(l) + 1
    BY <1>1, <2>1, <2>2
  <2>3. CASE i \in 1..Len(l)
    <3>1. Len(l) + 1 \in (i + 1)..Len(m)
      BY <1>1, <2>3
    <3>2. \A f \in g.seen : f.id # s.id
      BY <1>1, <2>1, <3>1
    <3>3. \A j \in (i + 1)..Len(l) : j \in (i + 1)..Len(m) /\ j \in 1..Len(l)
      BY <1>1, <2>3
    <3>4. \A j \in (i + 1)..Len(l) : \A f \in l[j].seen : f.id # s.id
      BY <1>1, <2>1, <3>3
    <3> QED
      BY <1>1, <2>1, <2>3, <3>2, <3>4 DEF ScanSeen, IdsOf
  <2> QED
    BY <1>1, <2>2, <2>3
<1>3. ASSUME NEW s, s \in g.seen
      PROVE  s \in ScanSeen(m)
  <2>1. Len(l) + 1 \in 1..Len(m) /\ (Len(l) + 1 + 1)..Len(m) = {}
    BY <1>1
  <2> QED
    BY <1>1, <1>3, <2>1 DEF ScanSeen
<1>4. ASSUME NEW s, s \in ScanSeen(l), s.id \notin IdsOf(g.seen)
      PROVE  s \in ScanSeen(m)
  <2>1. PICK i \in 1..Len(l) : /\ s \in l[i].seen
                               /\ \A j \in (i + 1)..Len(l) : \A f \in l[j].seen : f.id # s.id
    BY <1>4 DEF ScanSeen
  <2>2. i \in 1..Len(m)
    BY <1>1
  <2>3. ASSUME NEW j \in (i + 1)..Len(m), NEW f \in m[j].seen
        PROVE  f.id # s.id
    <3>1. CASE j = Len(l) + 1
      BY <1>1, <1>4, <2>3, <3>1 DEF IdsOf
    <3>2. CASE j \in (i + 1)..Len(l)
      BY <1>1, <2>1, <2>3, <3>2
    <3> QED
      BY <1>1, <3>1, <3>2
  <2>4. s \in m[i].seen
    BY <1>1, <2>1
  <2>5. s \in UNION {m[k].seen : k \in 1..Len(m)}
    BY <2>2, <2>4
  <2> QED
    BY <2>2, <2>3, <2>4, <2>5 DEF ScanSeen
<1>5. ScanSeen(m) = {s \in ScanSeen(l) : s.id \notin IdsOf(g.seen)} \cup g.seen
  BY <1>2, <1>3, <1>4
<1> QED
  BY <1>5 DEF m

LEMMA ScansTyped ==
  ASSUME NEW l \in Seq(Group)
  PROVE  /\ ScanEntities(l) \subseteq Entity /\ ScanRows(l) \subseteq Row
         /\ ScanSeen(l) \subseteq Seen
<1>1. \A i \in 1..Len(l) : l[i] \in Group
  OBVIOUS
<1> QED
  BY <1>1 DEF ScanEntities, ScanRows, ScanSeen, Group

LEMMA IndexedTyped ==
  ASSUME NEW S, S \subseteq Seen
  PROVE  Indexed(S) \subseteq Marks \X Ids
  BY RegistryAssumption DEF Indexed, Seen

-----------------------------------------------------------------------------
(* The invariant *)

\* A key has one assertion.
OneResolution == \A a, b \in resolutions : a.key = b.key => a = b

\* The scan has one observation of an entity.
SeenOnce == \A s, t \in ScanSeen(log) : s.id = t.id => s = t

\* Only entities of the log were seen.
SeenRegistered ==
  \A s \in ScanSeen(log) : \E i \in 1..Len(log) : s.id \in IdsOf(log[i].entities)

Inv ==
  /\ TypeOK /\ RestartIsInvisible /\ OneSuccessor /\ DecisionsAttributed /\ NoTwins
  /\ OneResolution /\ SeenOnce /\ SeenRegistered

\* No append of the process has failed: the memory is what the log says.
Ready == Inv /\ damage = "none"

\* What an operation appends: at most one row, of the next number, for an id that
\* has none; at most one observation, of an entity of the log or of the group.
Appendable(g) ==
  /\ g \in Group
  /\ \A r \in g.rows : r.seq = nextRowSeq /\ ~HasRow(rows, r.old)
  /\ \A r, s \in g.rows : r = s
  /\ \A s, t \in g.seen : s = t
  /\ \A s \in g.seen : s.id \in IdsOf(g.entities) \/ s.id \in IdsOf(observations)

LEMMA Grows ==
  ASSUME Ready, NEW g, NEW ids, appendIdentityGroup(g, ids)
  PROVE  up /\ (log' = log \/ log' = Append(log, g))
  BY DEF Ready, appendIdentityGroup, Commits, Dies, Throws, Leaves, Spoils, HandleClosed, disk

LEMMA KeepsTypes ==
  ASSUME Ready, NEW g, Appendable(g), NEW ids \in SUBSET Ids, appendIdentityGroup(g, ids),
         resolutions' \subseteq Resolution
  PROVE  TypeOK'
<1>0. TypeOK /\ g \in Group
  BY DEF Ready, Inv, Appendable
<1>1. log' \in Seq(Group)
  BY <1>0, Grows, Appended DEF TypeOK
<1>2. CASE Dies(g) \/ Throws(g) \/ HandleClosed
  <2>1. tail' \in BOOLEAN /\ headless' \in BOOLEAN /\ returned' = returned
    BY <1>0, <1>2 DEF TypeOK, Dies, Throws, Leaves, HandleClosed, disk
  <2>2. CASE Dies(g)
    BY <1>0, <1>1, <2>1, <2>2 DEF TypeOK, Dies, Forget
  <2>3. CASE Throws(g)
    BY <1>0, <1>1, <2>1, <2>3 DEF TypeOK, Throws, memory
  <2>4. CASE HandleClosed
    BY <1>0, <1>1, <2>1, <2>4 DEF TypeOK, HandleClosed, memory
  <2> QED
    BY <1>2, <2>2, <2>3, <2>4
<1>3. CASE Commits(g, ids)
  <2>1. g.entities \subseteq Entity /\ g.rows \subseteq Row /\ g.seen \subseteq Seen
    BY <1>0 DEF Group
  <2>2. Indexed(g.seen) \subseteq Marks \X Ids
    BY <2>1, IndexedTyped
  <2>3. entities' \subseteq Entity /\ rows' \subseteq Row /\ observations' \subseteq Seen
    BY <1>0, <1>3, <2>1 DEF TypeOK, Commits, Remember
  <2>4. traitIndex' \subseteq Marks \X Ids
    BY <1>0, <1>3, <2>2 DEF TypeOK, Commits, Remember
  <2>5. nextRowSeq' \in Nat
    BY <1>0, <1>3 DEF TypeOK, Commits, Remember
  <2> QED
    BY <1>0, <1>1, <1>3, <2>3, <2>4, <2>5 DEF TypeOK, Commits
<1> QED
  BY <1>2, <1>3 DEF Ready, appendIdentityGroup, Spoils

LEMMA KeepsRestart ==
  ASSUME Ready, NEW g, Appendable(g), NEW ids, appendIdentityGroup(g, ids)
  PROVE  RestartIsInvisible'
<1>0. /\ log \in Seq(Group) /\ g \in Group /\ nextRowSeq \in Nat /\ RestartIsInvisible
      /\ up /\ damage = "none" /\ ScanRows(log) \subseteq Row
  BY Grows, ScansTyped DEF Ready, Inv, TypeOK, Appendable
<1>1. CASE Dies(g)
  BY <1>1 DEF Dies, Forget, RestartIsInvisible
<1>3. CASE Throws(g)
  BY <1>0, <1>3 DEF Ready, Throws, RestartIsInvisible, memory
<1>4. CASE HandleClosed
  BY <1>0, <1>4 DEF HandleClosed, RestartIsInvisible, disk, memory
<1>2. CASE Commits(g, ids)
  <2>1. log' = Append(log, g) /\ tail' = tail /\ up' = up /\ damage' = damage /\ Remember(g)
    BY <1>2 DEF Commits
  <2>2. /\ ~tail
        /\ entities = ScanEntities(log) /\ rows = ScanRows(log)
        /\ observations = ScanSeen(log) /\ traitIndex = Indexed(ScanSeen(log))
        /\ NextRowSeq(ScanRows(log), nextRowSeq)
    BY <1>0 DEF RestartIsInvisible
  <2>3. entities' = ScanEntities(log') /\ rows' = ScanRows(log')
        /\ observations' = ScanSeen(log')
    BY <1>0, <2>1, <2>2, ScanEntitiesAppend, ScanRowsAppend, ScanSeenAppend DEF Remember
  \* indexObservation takes an entity's old traits out and puts the new ones in.
  <2>4. traitIndex' = Indexed(ScanSeen(log'))
    <3>1. traitIndex' =
            (Indexed(ScanSeen(log)) \ Indexed({s \in ScanSeen(log) : s.id \in IdsOf(g.seen)}))
              \cup Indexed(g.seen)
      BY <2>1, <2>2 DEF Remember
    <3>2. ScanSeen(log') = {s \in ScanSeen(log) : s.id \notin IdsOf(g.seen)} \cup g.seen
      BY <1>0, <2>1, ScanSeenAppend
    <3>3. PICK S, T, I, Old, New :
            /\ S = ScanSeen(log) /\ T = g.seen /\ I = IdsOf(g.seen)
            /\ Old = {s \in ScanSeen(log) : s.id \in IdsOf(g.seen)} /\ New = ScanSeen(log')
      OBVIOUS
    <3>4. /\ \A s : s \in Old <=> s \in S /\ s.id \in I
          /\ \A s : s \in New <=> (s \in S /\ s.id \notin I) \/ s \in T
      BY <3>2, <3>3
    <3>5. (Indexed(S) \ Indexed(Old)) \cup Indexed(T) = Indexed(New)
      <4>1. \A U : \A p : p \in Indexed(U) <=> \E s \in U : \E k \in s.observation : p = <<k, s.id>>
        BY DEF Indexed
      <4>2. ASSUME NEW p, p \in Indexed(S), p \notin Indexed(Old)
            PROVE  p \in Indexed(New)
        BY <3>4, <4>1, <4>2
      <4>3. ASSUME NEW p, p \in Indexed(T)
            PROVE  p \in Indexed(New)
        BY <3>4, <4>1, <4>3
      <4>4. ASSUME NEW p, p \in Indexed(New), p \notin Indexed(T)
            PROVE  p \in Indexed(S) /\ p \notin Indexed(Old)
        <5>1. PICK s \in S : s.id \notin I /\ \E k \in s.observation : p = <<k, s.id>>
          BY <3>4, <4>1, <4>4
        <5>2. PICK k \in s.observation : p = <<k, s.id>>
          BY <5>1
        <5>3. ASSUME NEW t \in S, t.id \in I, NEW n \in t.observation, p = <<n, t.id>>
              PROVE  FALSE
          BY <5>1, <5>2, <5>3
        <5> QED
          BY <3>4, <4>1, <5>1, <5>3
      <4> QED
        BY <4>2, <4>3, <4>4
    <3> QED
      BY <3>1, <3>3, <3>5
  <2>5. NextRowSeq(ScanRows(log'), nextRowSeq')
    <3>1. ScanRows(log') = ScanRows(log) \cup g.rows
      BY <1>0, <2>1, ScanRowsAppend
    <3>2. \A r \in ScanRows(log) : r.seq \in Nat
      BY <1>0 DEF Row
    <3>3. \A r \in ScanRows(log) : r.seq < nextRowSeq
      BY <2>2 DEF NextRowSeq
    <3>4. CASE g.rows = {}
      <4>1. nextRowSeq' = nextRowSeq /\ ScanRows(log') = ScanRows(log)
        BY <2>1, <3>1, <3>4 DEF Remember
      <4> QED
        BY <2>2, <4>1
    <3>5. CASE g.rows # {}
      <4>1. PICK r \in g.rows : r.seq = nextRowSeq /\ g.rows = {r}
        BY <3>5 DEF Appendable
      <4>2. nextRowSeq' = nextRowSeq + 1 /\ ScanRows(log') = ScanRows(log) \cup {r}
        BY <2>1, <3>1, <3>5, <4>1 DEF Remember
      <4>3. \A s \in ScanRows(log') : s.seq < nextRowSeq'
        BY <1>0, <3>2, <3>3, <4>1, <4>2
      <4>4. r \in ScanRows(log') /\ r.seq = nextRowSeq' - 1
        BY <1>0, <4>1, <4>2
      <4> QED
        BY <4>3, <4>4 DEF NextRowSeq
    <3> QED
      BY <3>4, <3>5
  <2> QED
    BY <2>1, <2>2, <2>3, <2>4, <2>5 DEF RestartIsInvisible
<1> QED
  BY <1>1, <1>2, <1>3, <1>4 DEF Ready, appendIdentityGroup, Spoils

LEMMA KeepsSuccessor ==
  ASSUME Ready, NEW g, Appendable(g), NEW ids, appendIdentityGroup(g, ids)
  PROVE  OneSuccessor'
<1>0. /\ log \in Seq(Group) /\ g \in Group /\ nextRowSeq \in Nat /\ up
      /\ rows = ScanRows(log) /\ ScanRows(log) \subseteq Row /\ OneSuccessor
      /\ NextRowSeq(ScanRows(log), nextRowSeq)
  BY Grows, ScansTyped DEF Ready, Inv, TypeOK, Appendable, RestartIsInvisible
<1>1. CASE log' = log
  BY <1>0, <1>1 DEF OneSuccessor
<1>2. CASE log' = Append(log, g)
  <2>1. ScanRows(log') = ScanRows(log) \cup g.rows
    BY <1>0, <1>2, ScanRowsAppend
  <2>2. \A r \in ScanRows(log) : r.seq \in Nat /\ r.seq < nextRowSeq
    BY <1>0 DEF NextRowSeq, Row
  <2>3. \A r \in ScanRows(log), s \in g.rows : r.seq # s.seq
    <3> SUFFICES ASSUME NEW r \in ScanRows(log), NEW s \in g.rows
                 PROVE  r.seq # s.seq
      OBVIOUS
    <3>1. s.seq = nextRowSeq
      BY DEF Appendable
    <3> QED
      BY <1>0, <2>2, <3>1
  <2>4. \A r \in ScanRows(log), s \in g.rows : r.old # s.old
    BY <1>0 DEF Appendable, HasRow
  <2>5. \A r, s \in g.rows : r = s
    BY DEF Appendable
  <2> QED
    BY <1>0, <2>1, <2>3, <2>4, <2>5 DEF OneSuccessor
<1> QED
  BY <1>1, <1>2, Grows

LEMMA KeepsSeen ==
  ASSUME Ready, NEW g, Appendable(g), NEW ids, appendIdentityGroup(g, ids)
  PROVE  SeenOnce' /\ SeenRegistered'
<1>0. /\ log \in Seq(Group) /\ g \in Group /\ up /\ SeenOnce /\ SeenRegistered
      /\ observations = ScanSeen(log)
  BY Grows DEF Ready, Inv, TypeOK, Appendable, RestartIsInvisible
<1>1. CASE log' = log
  BY <1>0, <1>1 DEF SeenOnce, SeenRegistered
<1>2. CASE log' = Append(log, g)
  <2>1. ScanSeen(log') = {s \in ScanSeen(log) : s.id \notin IdsOf(g.seen)} \cup g.seen
    BY <1>0, <1>2, ScanSeenAppend
  <2>2. SeenOnce'
    BY <1>0, <2>1 DEF SeenOnce, Appendable, IdsOf
  <2>3. /\ Len(log') = Len(log) + 1 /\ Len(log) \in Nat /\ log'[Len(log) + 1] = g
        /\ \A i \in 1..Len(log) : log'[i] = log[i]
    BY <1>0, <1>2, Appended
  <2>4. \A i \in 1..Len(log) : i \in 1..Len(log')
    BY <2>3
  <2>5. Len(log) + 1 \in 1..Len(log')
    BY <2>3
  <2>6. ASSUME NEW s \in ScanSeen(log)
        PROVE  \E i \in 1..Len(log') : s.id \in IdsOf(log'[i].entities)
    BY <1>0, <2>3, <2>4 DEF SeenRegistered
  <2>7. ASSUME NEW s \in g.seen
        PROVE  \E i \in 1..Len(log') : s.id \in IdsOf(log'[i].entities)
    <3>1. CASE s.id \in IdsOf(g.entities)
      BY <2>3, <2>5, <3>1
    <3>2. CASE s.id \in IdsOf(ScanSeen(log))
      <4>1. PICK t \in ScanSeen(log) : t.id = s.id
        BY <3>2 DEF IdsOf
      <4> QED
        BY <2>6, <4>1
    <3> QED
      BY <1>0, <2>7, <3>1, <3>2 DEF Appendable
  <2>8. SeenRegistered'
    BY <2>1, <2>6, <2>7 DEF SeenRegistered
  <2> QED
    BY <2>2, <2>8
<1> QED
  BY <1>1, <1>2, Grows

LEMMA KeepsDecisions ==
  ASSUME Ready, NEW g, Appendable(g), NEW ids, appendIdentityGroup(g, ids),
         \A r \in g.rows : r.assertion = Mechanical, resolutions \subseteq resolutions'
  PROVE  DecisionsAttributed'
<1>0. log \in Seq(Group) /\ g \in Group /\ DecisionsAttributed
  BY DEF Ready, Inv, TypeOK, Appendable
<1>1. ScanRows(log') = ScanRows(log) \/ ScanRows(log') = ScanRows(log) \cup g.rows
  BY <1>0, Grows, ScanRowsAppend
<1> SUFFICES ASSUME NEW r \in ScanRows(log'), r.assertion # Mechanical
             PROVE  /\ \E a \in resolutions' :
                         /\ a.key = r.assertion /\ a.subject = r.old
                         /\ r.disposition = "ambiguous-split" => a.names = r.to
                    /\ \A s \in ScanRows(log') : s.assertion = r.assertion => s = r
  BY DEF DecisionsAttributed
<1>2. r \in ScanRows(log)
  BY <1>1
<1>3. /\ \E a \in resolutions :
           /\ a.key = r.assertion /\ a.subject = r.old
           /\ r.disposition = "ambiguous-split" => a.names = r.to
      /\ \A s \in ScanRows(log) : s.assertion = r.assertion => s = r
  BY <1>0, <1>2 DEF DecisionsAttributed
<1> QED
  BY <1>1, <1>3

\* A retry finds its own assertion and an id without a row: the row it appends is
\* the first to cite that assertion.
LEMMA OwnerDecides ==
  ASSUME Ready, NEW g, Appendable(g), NEW ids, appendIdentityGroup(g, ids),
         NEW row \in Row, g.rows = {row},
         NEW a \in Resolution, Records(a), a.key = row.assertion, a.subject = row.old,
         row.disposition = "ambiguous-split" => a.names = row.to
  PROVE  DecisionsAttributed' /\ OneResolution' /\ resolutions' \subseteq Resolution
<1>0. /\ log \in Seq(Group) /\ g \in Group /\ DecisionsAttributed /\ OneResolution
      /\ up /\ rows = ScanRows(log) /\ resolutions \subseteq Resolution
  BY Grows DEF Ready, Inv, TypeOK, Appendable, RestartIsInvisible
<1>1. ScanRows(log') = ScanRows(log) \/ ScanRows(log') = ScanRows(log) \cup {row}
  BY <1>0, Grows, ScanRowsAppend
<1>2. /\ resolutions \subseteq resolutions' /\ a \in resolutions'
      /\ resolutions' \subseteq Resolution
  BY <1>0 DEF Records
<1>3. OneResolution'
  BY <1>0 DEF Records, OneResolution
<1>4. ASSUME NEW r \in ScanRows(log), r.assertion # Mechanical, r.assertion = row.assertion
      PROVE  FALSE
  <2>1. PICK b \in resolutions : b.key = r.assertion /\ b.subject = r.old
    BY <1>0, <1>4 DEF DecisionsAttributed
  <2>2. b = a
    BY <1>2, <1>3, <1>4, <2>1 DEF OneResolution
  <2>3. r.old = row.old
    BY <2>1, <2>2
  <2> QED
    BY <1>0, <1>4, <2>3 DEF Appendable, HasRow
<1>5. ASSUME NEW r \in ScanRows(log'), r.assertion # Mechanical
      PROVE  /\ \E b \in resolutions' :
                  /\ b.key = r.assertion /\ b.subject = r.old
                  /\ r.disposition = "ambiguous-split" => b.names = r.to
             /\ \A s \in ScanRows(log') : s.assertion = r.assertion => s = r
  <2>1. CASE r \in ScanRows(log)
    <3>1. /\ \E b \in resolutions :
               /\ b.key = r.assertion /\ b.subject = r.old
               /\ r.disposition = "ambiguous-split" => b.names = r.to
          /\ \A s \in ScanRows(log) : s.assertion = r.assertion => s = r
      BY <1>0, <1>5, <2>1 DEF DecisionsAttributed
    <3>2. r.assertion # row.assertion
      BY <1>4, <1>5, <2>1
    <3> QED
      BY <1>1, <1>2, <3>1, <3>2
  <2>2. CASE r = row
    <3>1. \A s \in ScanRows(log) : s.assertion # r.assertion
      BY <1>4, <1>5, <2>2
    <3> QED
      BY <1>1, <1>2, <2>2, <3>1
  <2> QED
    BY <1>1, <1>5, <2>1, <2>2
<1>6. DecisionsAttributed'
  BY <1>5 DEF DecisionsAttributed
<1> QED
  BY <1>2, <1>3, <1>6

-----------------------------------------------------------------------------
(* Re-imports *)

\* What a step may do to what entities were seen as.
Carries ==
  \A s \in ScanSeen(log), t \in ScanSeen(log') :
    s.id = t.id /\ s # t =>
      Cardinality(s.observation \cap t.observation) >= IDENTITY_MATCH_THRESHOLD

LEMMA Unseen ==
  ASSUME Ready, NEW g, g \in Group, NEW ids, appendIdentityGroup(g, ids), g.seen = {}
  PROVE  NoTwins' /\ Carries
<1>1. log \in Seq(Group) /\ NoTwins /\ SeenOnce
  BY DEF Ready, Inv, TypeOK
<1>2. ScanSeen(log') = ScanSeen(log)
  <2>1. CASE log' = log
    BY <2>1
  <2>2. CASE log' = Append(log, g)
    <3>1. ScanSeen(log') = {s \in ScanSeen(log) : s.id \notin IdsOf(g.seen)} \cup g.seen
      BY <1>1, <2>2, ScanSeenAppend
    <3> QED
      BY <3>1 DEF IdsOf
  <2> QED
    BY <2>1, <2>2, Grows
<1> QED
  BY <1>1, <1>2 DEF NoTwins, Carries, SeenOnce

\* The index gives an entity a vote for every trait it was last seen with.
LEMMA VotesAreShared ==
  ASSUME Ready, up, NEW o \in Observations, NEW s \in ScanSeen(log)
  PROVE  /\ Votes(o, s.id) = o \cap s.observation
         /\ Cardinality(o \cap s.observation) \in Nat
         /\ o \cap s.observation = s.observation \cap o
<1>1. traitIndex = Indexed(ScanSeen(log)) /\ SeenOnce
  BY DEF Ready, Inv, RestartIsInvisible
<1>2. \A m : <<m, s.id>> \in traitIndex <=> m \in s.observation
  BY <1>1 DEF Indexed, SeenOnce
<1>3. IsFiniteSet(o)
  BY RegistryAssumption
<1>4. IsFiniteSet(o \cap s.observation)
  BY <1>3, FS_Subset
<1> QED
  BY <1>2, <1>4, FS_CardinalityType DEF Votes

LEMMA ImportSees ==
  ASSUME Ready, NEW o \in Observations, NEW id \in Ids, NEW g, NEW ids,
         Appendable(g), appendIdentityGroup(g, ids),
         g.seen = {[id |-> id, observation |-> o]},
         \/ Candidates(o) = {id}
         \/ Candidates(o) = {} /\ IsFresh(id)
  PROVE  NoTwins' /\ Carries
<1> DEFINE new == [id |-> id, observation |-> o]
<1>0. /\ log \in Seq(Group) /\ g \in Group /\ up /\ NoTwins /\ SeenOnce /\ SeenRegistered
      /\ observations = ScanSeen(log)
  BY Grows DEF Ready, Inv, TypeOK, Appendable, RestartIsInvisible
<1>1. ASSUME NEW s \in ScanSeen(log), s.id # id
      PROVE  /\ Cardinality(o \cap s.observation) < IDENTITY_MATCH_THRESHOLD
             /\ Cardinality(s.observation \cap o) < IDENTITY_MATCH_THRESHOLD
  <2>1. s.id \notin Candidates(o)
    BY <1>1
  <2>2. s.id \in IdsOf(observations)
    BY <1>0 DEF IdsOf
  <2>3. ~(Cardinality(Votes(o, s.id)) >= IDENTITY_MATCH_THRESHOLD)
    BY <2>1, <2>2 DEF Candidates
  <2>4. /\ Votes(o, s.id) = o \cap s.observation
        /\ Cardinality(o \cap s.observation) \in Nat
        /\ o \cap s.observation = s.observation \cap o
    BY <1>0, VotesAreShared
  <2>5. Cardinality(o \cap s.observation) < IDENTITY_MATCH_THRESHOLD
    BY <2>3, <2>4 DEF IDENTITY_MATCH_THRESHOLD
  <2> QED
    BY <2>4, <2>5
<1>2. ASSUME NEW s \in ScanSeen(log), s.id = id
      PROVE  Cardinality(s.observation \cap o) >= IDENTITY_MATCH_THRESHOLD
  <2>1. CASE Candidates(o) = {id}
    <3>1. Cardinality(Votes(o, s.id)) >= IDENTITY_MATCH_THRESHOLD
      BY <1>2, <2>1 DEF Candidates
    <3>2. /\ Votes(o, s.id) = o \cap s.observation
          /\ o \cap s.observation = s.observation \cap o
      BY <1>0, VotesAreShared
    <3> QED
      BY <3>1, <3>2
  <2>2. CASE IsFresh(id)
    BY <1>0, <1>2, <2>2 DEF IsFresh, SeenRegistered
  <2> QED
    BY <2>1, <2>2
<1>3. ScanSeen(log') = ScanSeen(log)
      \/ ScanSeen(log') = {s \in ScanSeen(log) : s.id # id} \cup {new}
  <2>1. CASE log' = log
    BY <2>1
  <2>2. CASE log' = Append(log, g)
    <3>1. ScanSeen(log') = {s \in ScanSeen(log) : s.id \notin IdsOf(g.seen)} \cup {new}
      BY <1>0, <2>2, ScanSeenAppend
    <3>2. IdsOf(g.seen) = {id}
      BY DEF IdsOf
    <3> QED
      BY <3>1, <3>2
  <2> QED
    BY <2>1, <2>2, Grows
<1>4. new.id = id /\ new.observation = o
  OBVIOUS
<1> HIDE DEF new
<1>5. NoTwins'
  <2> SUFFICES ASSUME NEW s \in ScanSeen(log'), NEW t \in ScanSeen(log'), s.id # t.id
               PROVE  Cardinality(s.observation \cap t.observation) < IDENTITY_MATCH_THRESHOLD
    BY DEF NoTwins
  <2>1. CASE s \in ScanSeen(log) /\ t \in ScanSeen(log)
    BY <1>0, <2>1 DEF NoTwins
  <2>2. CASE s = new
    <3>1. t \in ScanSeen(log) /\ t.id # id
      BY <1>3, <1>4, <2>1, <2>2
    <3> QED
      BY <1>1, <1>4, <2>2, <3>1
  <2>3. CASE t = new
    <3>1. s \in ScanSeen(log) /\ s.id # id
      BY <1>3, <1>4, <2>1, <2>3
    <3> QED
      BY <1>1, <1>4, <2>3, <3>1
  <2> QED
    BY <1>3, <2>1, <2>2, <2>3
<1>6. Carries
  <2> SUFFICES ASSUME NEW s \in ScanSeen(log), NEW t \in ScanSeen(log'), s.id = t.id, s # t
               PROVE  Cardinality(s.observation \cap t.observation) >= IDENTITY_MATCH_THRESHOLD
    BY DEF Carries
  <2>1. t = new
    BY <1>0, <1>3 DEF SeenOnce
  <2> QED
    BY <1>2, <1>4, <2>1
<1> QED
  BY <1>5, <1>6

-----------------------------------------------------------------------------
(* The operations *)

LEMMA Step ==
  ASSUME Ready, NEW g, Appendable(g), NEW ids \in SUBSET Ids, appendIdentityGroup(g, ids),
         resolutions' \subseteq Resolution, OneResolution', DecisionsAttributed', NoTwins'
  PROVE  Inv'
  BY KeepsTypes, KeepsRestart, KeepsSuccessor, KeepsSeen DEF Ready, Inv

\* A group that records no owner's decision and no observation.
LEMMA PlainStep ==
  ASSUME Ready, NEW g, Appendable(g), NEW ids \in SUBSET Ids, appendIdentityGroup(g, ids),
         UNCHANGED resolutions, \A r \in g.rows : r.assertion = Mechanical, g.seen = {}
  PROVE  Inv' /\ Carries
<1>1. resolutions' \subseteq Resolution /\ OneResolution' /\ resolutions \subseteq resolutions'
  BY DEF Ready, Inv, TypeOK, OneResolution
<1>2. DecisionsAttributed'
  BY <1>1, KeepsDecisions
<1>3. NoTwins' /\ Carries
  BY Unseen DEF Appendable
<1> QED
  BY <1>1, <1>2, <1>3, Step

LEMMA RegisterStep ==
  ASSUME Ready, NEW id \in Ids, Register(id)
  PROVE  Inv' /\ Carries
<1> DEFINE g == [entities |-> {Minted(id)}, rows |-> {}, seen |-> {}]
<1>1. appendIdentityGroup(g, {id}) /\ UNCHANGED resolutions
  BY DEF Register
<1>2. Appendable(g) /\ g.rows = {} /\ g.seen = {}
  BY DEF Appendable, Group, Minted, Entity
<1> HIDE DEF g
<1> QED
  BY <1>1, <1>2, PlainStep

LEMMA RenameStep ==
  ASSUME Ready, NEW e \in entities, Rename(e)
  PROVE  Inv' /\ Carries
<1> DEFINE g == [entities |-> {[id |-> e.id, version |-> e.version + 1]}, rows |-> {},
                 seen |-> {}]
<1>1. appendIdentityGroup(g, {e.id}) /\ UNCHANGED resolutions
  BY DEF Rename
<1>2. e \in Entity
  BY DEF Ready, Inv, TypeOK
<1>3. e.id \in Ids /\ e.version + 1 \in Nat
  BY <1>2 DEF Entity
<1>4. Appendable(g) /\ g.rows = {} /\ g.seen = {}
  BY <1>3 DEF Appendable, Group, Entity
<1> HIDE DEF g
<1> QED
  BY <1>1, <1>3, <1>4, PlainStep

LEMMA ImportStep ==
  ASSUME Ready, NEW o \in Observations, NEW id \in Ids, ResolveOrMint(o, id)
  PROVE  Inv' /\ Carries
<1>1. PICK es \in SUBSET {Minted(id)} :
        /\ appendIdentityGroup(
             [entities |-> es, rows |-> {}, seen |-> {[id |-> id, observation |-> o]}], {id})
        /\ UNCHANGED resolutions
        /\ \/ Candidates(o) = {id}
           \/ Candidates(o) = {} /\ IsFresh(id) /\ es = {Minted(id)}
  <2>1. CASE /\ Candidates(o) = {id}
             /\ appendIdentityGroup(
                  [entities |-> {}, rows |-> {}, seen |-> {[id |-> id, observation |-> o]}], {id})
    BY <2>1 DEF ResolveOrMint
  <2>2. CASE /\ Candidates(o) = {} /\ IsFresh(id)
             /\ appendIdentityGroup(
                  [entities |-> {Minted(id)}, rows |-> {},
                   seen |-> {[id |-> id, observation |-> o]}], {id})
    BY <2>2 DEF ResolveOrMint
  <2> QED
    BY <2>1, <2>2 DEF ResolveOrMint
<1> DEFINE g == [entities |-> es, rows |-> {}, seen |-> {[id |-> id, observation |-> o]}]
<1>2. g \in Group
  BY DEF Group, Minted, Entity, Seen
<1>3. id \in IdsOf(es) \/ id \in IdsOf(observations)
  <2>1. CASE Candidates(o) = {id}
    BY <2>1 DEF Candidates
  <2>2. CASE es = {Minted(id)}
    BY <2>2 DEF IdsOf, Minted
  <2> QED
    BY <1>1, <2>1, <2>2
<1>4. /\ Appendable(g) /\ g.rows = {} /\ g.seen = {[id |-> id, observation |-> o]}
  BY <1>2, <1>3 DEF Appendable
<1>5. appendIdentityGroup(g, {id})
  BY <1>1
<1> HIDE DEF g
<1>6. resolutions' \subseteq Resolution /\ OneResolution' /\ resolutions \subseteq resolutions'
  BY <1>1 DEF Ready, Inv, TypeOK, OneResolution
<1>7. DecisionsAttributed'
  BY <1>4, <1>5, <1>6, KeepsDecisions
<1>8. NoTwins' /\ Carries
  BY <1>1, <1>4, <1>5, ImportSees
<1> QED
  BY <1>4, <1>5, <1>6, <1>7, <1>8, Step

LEMMA RowAppendable ==
  ASSUME Ready, NEW old \in Ids \cup Legacy, NEW disposition \in Dispositions,
         NEW to \in SUBSET Ids, NEW assertion \in Keys \cup {Mechanical},
         NEW created \in SUBSET Entity, ~HasRow(rows, old)
  PROVE  /\ LedgerRow(old, disposition, to, assertion) \in Row
         /\ Appendable([entities |-> created,
                        rows |-> {LedgerRow(old, disposition, to, assertion)}, seen |-> {}])
<1> DEFINE row == LedgerRow(old, disposition, to, assertion)
<1>1. row \in Row /\ row.seq = nextRowSeq /\ row.old = old
  BY DEF Ready, Inv, TypeOK, Row, LedgerRow
<1> HIDE DEF row
<1>2. [entities |-> created, rows |-> {row}, seen |-> {}] \in Group
  BY <1>1 DEF Group
<1>3. Appendable([entities |-> created, rows |-> {row}, seen |-> {}])
  BY <1>1, <1>2 DEF Appendable
<1> QED
  BY <1>1, <1>3 DEF row

\* A row without an owner's decision.
LEMMA MechanicalStep ==
  ASSUME Ready, NEW old \in Ids \cup Legacy, NEW disposition \in Dispositions,
         NEW to \in SUBSET Ids, NEW created \in SUBSET Entity, NEW ids \in SUBSET Ids,
         ~HasRow(rows, old),
         appendRow(LedgerRow(old, disposition, to, Mechanical), created, ids),
         UNCHANGED resolutions
  PROVE  Inv' /\ Carries
<1> DEFINE row == LedgerRow(old, disposition, to, Mechanical)
           g == [entities |-> created, rows |-> {row}, seen |-> {}]
<1>1. Appendable(g)
  BY RowAppendable
<1>2. appendIdentityGroup(g, ids)
  BY DEF appendRow
<1>3. (\A r \in g.rows : r.assertion = Mechanical) /\ g.seen = {}
  BY DEF LedgerRow
<1> HIDE DEF g
<1> QED
  BY <1>1, <1>2, <1>3, PlainStep

\* A row that cites the assertion recorded before it.
LEMMA OwnerStep ==
  ASSUME Ready, NEW old \in Ids, NEW disposition \in Dispositions, NEW to \in SUBSET Ids,
         NEW key \in Keys, NEW names \in SUBSET Ids, NEW created \in SUBSET Entity,
         NEW ids \in SUBSET Ids, ~HasRow(rows, old),
         Records([key |-> key, subject |-> old, names |-> names]),
         disposition = "ambiguous-split" => names = to,
         appendRow(LedgerRow(old, disposition, to, key), created, ids)
  PROVE  Inv' /\ Carries
<1> DEFINE row == LedgerRow(old, disposition, to, key)
           g == [entities |-> created, rows |-> {row}, seen |-> {}]
           a == [key |-> key, subject |-> old, names |-> names]
<1>1. Appendable(g) /\ row \in Row
  BY RowAppendable
<1>2. appendIdentityGroup(g, ids)
  BY DEF appendRow
<1>3. /\ a \in Resolution /\ Records(a) /\ a.key = row.assertion /\ a.subject = row.old
      /\ row.disposition = "ambiguous-split" => a.names = row.to
  BY DEF Resolution, LedgerRow
<1>4. g.rows = {row} /\ g.seen = {}
  OBVIOUS
<1> HIDE DEF g, a, row
<1>5. DecisionsAttributed' /\ OneResolution' /\ resolutions' \subseteq Resolution
  BY <1>1, <1>2, <1>3, <1>4, OwnerDecides
<1>6. NoTwins' /\ Carries
  BY <1>1, <1>2, <1>4, Unseen DEF Appendable
<1> QED
  BY <1>1, <1>2, <1>5, <1>6, Step

LEMMA DecisionsStep ==
  ASSUME Ready, Decisions
  PROVE  Inv' /\ Carries
<1>1. IdsOf(entities) \subseteq Ids
  BY DEF Ready, Inv, TypeOK, Entity, IdsOf
<1>2. /\ {} \in SUBSET Ids /\ {} \in SUBSET Entity
      /\ {"mapped", "ambiguous-split"} \subseteq Dispositions
  BY DEF Dispositions
<1>3. \A into \in Pairs : into \in SUBSET Ids /\ {Minted(id) : id \in into} \in SUBSET Entity
  BY DEF Pairs, Minted, Entity
<1>4. PICK from \in IdsOf(entities) \cup Legacy :
        \/ \E into \in IdsOf(entities) :
             MechanicalMerge(from, into) \/ \E key \in Keys : OwnerMerge(from, into, key)
        \/ \E into \in Pairs :
             MechanicalSplit(from, into) \/ \E key \in Keys : OwnerSplit(from, into, key)
  BY DEF Decisions
<1>5. from \in Ids \cup Legacy
  BY <1>1
<1>6. ASSUME NEW into \in IdsOf(entities), MechanicalMerge(from, into)
      PROVE  Inv' /\ Carries
  <2>1. /\ ~HasRow(rows, from) /\ UNCHANGED resolutions
        /\ appendRow(LedgerRow(from, "mapped", {into}, Mechanical), {}, {})
    BY <1>6 DEF MechanicalMerge, MayMerge
  <2>2. {into} \in SUBSET Ids
    BY <1>1
  <2> QED
    BY <1>2, <1>5, <2>1, <2>2, MechanicalStep
<1>7. ASSUME NEW into \in IdsOf(entities), NEW key \in Keys, OwnerMerge(from, into, key)
      PROVE  Inv' /\ Carries
  <2>1. PICK target \in IdsOf(entities) :
          /\ Records([key |-> key, subject |-> from, names |-> {target}])
          /\ appendRow(LedgerRow(from, "mapped", {into}, key), {}, {target})
    BY <1>7 DEF OwnerMerge
  <2>2. ~HasRow(rows, from) /\ from \in Ids
    BY <1>1, <1>7 DEF OwnerMerge, MayMerge
  <2>3. {into} \in SUBSET Ids /\ {target} \in SUBSET Ids /\ "mapped" # "ambiguous-split"
    BY <1>1
  <2> QED
    BY <1>2, <2>1, <2>2, <2>3, OwnerStep
<1>8. ASSUME NEW into \in Pairs, MechanicalSplit(from, into)
      PROVE  Inv' /\ Carries
  <2>1. /\ ~HasRow(rows, from) /\ UNCHANGED resolutions
        /\ appendRow(LedgerRow(from, "ambiguous-split", into, Mechanical),
                     {Minted(id) : id \in into}, into)
    BY <1>8 DEF MechanicalSplit
  <2>2. into \in SUBSET Ids /\ {Minted(id) : id \in into} \in SUBSET Entity
    BY <1>3
  <2> QED
    BY <1>2, <1>5, <2>1, <2>2, MechanicalStep
<1>9. ASSUME NEW into \in Pairs, NEW key \in Keys, OwnerSplit(from, into, key)
      PROVE  Inv' /\ Carries
  <2>1. /\ Records([key |-> key, subject |-> from, names |-> into])
        /\ appendRow(LedgerRow(from, "ambiguous-split", into, key),
                     {Minted(id) : id \in into}, into)
        /\ ~HasRow(rows, from) /\ from \in Ids
    BY <1>1, <1>9 DEF OwnerSplit
  <2>2. into \in SUBSET Ids /\ {Minted(id) : id \in into} \in SUBSET Entity
    BY <1>3
  <2> QED
    BY <1>2, <2>1, <2>2, OwnerStep
<1> QED
  BY <1>4, <1>6, <1>7, <1>8, <1>9

LEMMA MigrationStep ==
  ASSUME Ready, Migration
  PROVE  Inv' /\ Carries
<1>1. /\ {} \in SUBSET Ids /\ {} \in SUBSET Entity
      /\ {"mapped-assertion", "not-carried", "ambiguous-split"} \subseteq Dispositions
  BY DEF Dispositions
<1>2. ASSUME NEW old \in Legacy, NEW disposition \in {"mapped-assertion", "not-carried"},
             RecordMigration(old, disposition)
      PROVE  Inv' /\ Carries
  BY <1>1, <1>2, MechanicalStep DEF RecordMigration
<1>3. ASSUME NEW old \in Legacy, NEW candidates \in Pairs, RecordAmbiguousSplit(old, candidates)
      PROVE  Inv' /\ Carries
  <2>1. candidates \in SUBSET Ids
    BY DEF Pairs
  <2> QED
    BY <1>1, <1>3, <2>1, MechanicalStep DEF RecordAmbiguousSplit
<1> QED
  BY <1>2, <1>3 DEF Migration

LEMMA OpenStep ==
  ASSUME Inv, Open \/ OpenDies \/ RemoveSegment \/ Stop
  PROVE  Inv' /\ Carries
<1>0. log' = log /\ resolutions' = resolutions /\ returned' = returned
  BY DEF Open, OpenDies, RemoveSegment, Stop, disk
<1>1. /\ OneSuccessor' /\ DecisionsAttributed' /\ NoTwins' /\ OneResolution' /\ SeenOnce'
      /\ SeenRegistered' /\ Carries
  BY <1>0 DEF Inv, OneSuccessor, DecisionsAttributed, NoTwins, OneResolution, SeenOnce,
              SeenRegistered, Carries
<1>2. log \in Seq(Group) /\ TypeOK /\ RestartIsInvisible /\ 1..MaxGroups + 1 \subseteq Nat
  BY RegistryAssumption DEF Inv, TypeOK
<1>3. CASE Open
  <2>1. /\ ScanEntities(log) \subseteq Entity /\ ScanRows(log) \subseteq Row
        /\ ScanSeen(log) \subseteq Seen /\ Indexed(ScanSeen(log)) \subseteq Marks \X Ids
    BY <1>2, ScansTyped, IndexedTyped
  <2>2. TypeOK'
    BY <1>0, <1>2, <1>3, <2>1 DEF TypeOK, Open
  <2>3. RestartIsInvisible'
    BY <1>0, <1>3 DEF RestartIsInvisible, Open
  <2> QED
    BY <1>1, <2>2, <2>3 DEF Inv
<1>4. CASE OpenDies
  <2>1. TypeOK'
    BY <1>0, <1>2, <1>4 DEF TypeOK, OpenDies, memory
  <2>2. RestartIsInvisible'
    BY <1>4 DEF RestartIsInvisible, OpenDies, MayOpen
  <2> QED
    BY <1>1, <2>1, <2>2 DEF Inv
<1>6. CASE RemoveSegment
  <2>1. TypeOK'
    BY <1>0, <1>2, <1>6 DEF TypeOK, RemoveSegment, memory
  <2>2. RestartIsInvisible'
    BY <1>6 DEF RestartIsInvisible, RemoveSegment
  <2> QED
    BY <1>1, <2>1, <2>2 DEF Inv
<1>5. CASE Stop
  <2>1. TypeOK'
    BY <1>0, <1>2, <1>5 DEF TypeOK, Stop, Forget, disk
  <2>2. RestartIsInvisible'
    BY <1>5 DEF RestartIsInvisible, Stop, Forget
  <2> QED
    BY <1>1, <2>1, <2>2 DEF Inv
<1> QED
  BY <1>3, <1>4, <1>5, <1>6

\* An operation, as far as its append and its assertion go.
Attempts ==
  /\ \E g, ids : appendIdentityGroup(g, ids)
  /\ UNCHANGED resolutions \/ \E a \in Resolution : Records(a)

LEMMA OperationsAttempt ==
  ASSUME Inv,
         \/ \E id \in Ids : Register(id)
         \/ \E e \in entities : Rename(e)
         \/ Imports \/ Decisions \/ Migration
  PROVE  Attempts
<1>1. IdsOf(entities) \subseteq Ids
  BY DEF Inv, TypeOK, Entity, IdsOf
<1>2. CASE (\E id \in Ids : Register(id)) \/ (\E e \in entities : Rename(e)) \/ Imports
  BY <1>2 DEF Register, Rename, Imports, ResolveOrMint, Attempts
<1>3. CASE Migration
  BY <1>3 DEF Migration, RecordMigration, RecordAmbiguousSplit, appendRow, Attempts
<1>4. ASSUME NEW from \in IdsOf(entities) \cup Legacy, NEW into \in IdsOf(entities),
             MechanicalMerge(from, into) \/ \E key \in Keys : OwnerMerge(from, into, key)
      PROVE  Attempts
  <2>1. CASE MechanicalMerge(from, into)
    BY <2>1 DEF MechanicalMerge, appendRow, Attempts
  <2>2. ASSUME NEW key \in Keys, OwnerMerge(from, into, key)
        PROVE  Attempts
    <3>1. PICK target \in IdsOf(entities) :
            /\ Records([key |-> key, subject |-> from, names |-> {target}])
            /\ appendRow(LedgerRow(from, "mapped", {into}, key), {}, {target})
      BY <2>2 DEF OwnerMerge
    <3>2. [key |-> key, subject |-> from, names |-> {target}] \in Resolution
      BY <1>1, <2>2 DEF OwnerMerge, Resolution
    <3> QED
      BY <3>1, <3>2 DEF appendRow, Attempts
  <2> QED
    BY <1>4, <2>1, <2>2
<1>5. ASSUME NEW from \in IdsOf(entities) \cup Legacy, NEW into \in Pairs,
             MechanicalSplit(from, into) \/ \E key \in Keys : OwnerSplit(from, into, key)
      PROVE  Attempts
  <2>1. CASE MechanicalSplit(from, into)
    BY <2>1 DEF MechanicalSplit, appendRow, Attempts
  <2>2. ASSUME NEW key \in Keys, OwnerSplit(from, into, key)
        PROVE  Attempts
    <3>1. /\ Records([key |-> key, subject |-> from, names |-> into])
          /\ appendRow(LedgerRow(from, "ambiguous-split", into, key),
                       {Minted(id) : id \in into}, into)
      BY <2>2 DEF OwnerSplit
    <3>2. [key |-> key, subject |-> from, names |-> into] \in Resolution
      BY <1>1, <2>2 DEF OwnerSplit, Resolution, Pairs
    <3> QED
      BY <3>1, <3>2 DEF appendRow, Attempts
  <2> QED
    BY <1>5, <2>1, <2>2
<1> QED
  BY <1>2, <1>3, <1>4, <1>5 DEF Decisions

\* Behind an append that failed, an operation records its assertion at most.
LEMMA FailedStep ==
  ASSUME Inv, damage # "none", Attempts
  PROVE  Inv' /\ Carries /\ log' = log /\ returned' = returned
<1>1. /\ UNCHANGED <<disk, up, memory, returned>> /\ up
      /\ damage' = damage \/ damage' = "spoiled"
  BY DEF Attempts, appendIdentityGroup, Spoils, HandleClosed
<1>2. log' = log /\ returned' = returned /\ damage' # "none"
  BY <1>1 DEF disk
<1>3. /\ resolutions \subseteq resolutions' /\ resolutions' \subseteq Resolution /\ OneResolution'
  BY DEF Attempts, Records, Inv, TypeOK, OneResolution
<1>4. TypeOK'
  BY <1>1, <1>3 DEF Inv, TypeOK, disk, memory
<1>5. RestartIsInvisible'
  BY <1>2 DEF RestartIsInvisible
<1>6. DecisionsAttributed'
  BY <1>2, <1>3 DEF Inv, DecisionsAttributed
<1>7. OneSuccessor' /\ NoTwins' /\ SeenOnce' /\ SeenRegistered' /\ Carries
  BY <1>2 DEF Inv, OneSuccessor, NoTwins, SeenOnce, SeenRegistered, Carries
<1> QED
  BY <1>2, <1>3, <1>4, <1>5, <1>6, <1>7 DEF Inv
-----------------------------------------------------------------------------
(* The theorems *)

LEMMA InitInv == Init => Inv
<1> SUFFICES ASSUME Init
             PROVE  Inv
  OBVIOUS
<1>1. log = <<>> /\ Len(log) = 0 /\ 1..Len(log) = {}
  BY DEF Init
<1>2. ScanRows(log) = {} /\ ScanSeen(log) = {}
  BY <1>1 DEF ScanRows, ScanSeen
<1>3. TypeOK
  <2>1. log \in Seq(Group)
    BY <1>1
  <2>2. tail \in BOOLEAN /\ headless \in BOOLEAN
    BY DEF Init
  <2>3. nextRowSeq \in Nat /\ up \in BOOLEAN /\ damage \in {"none", "failed", "spoiled"}
    BY DEF Init
  <2> QED
    BY <2>1, <2>2, <2>3, Zenon DEF Init, TypeOK
<1>4. RestartIsInvisible
  BY DEF Init, RestartIsInvisible
<1>5. OneSuccessor /\ DecisionsAttributed /\ NoTwins /\ OneResolution /\ SeenOnce /\ SeenRegistered
  BY <1>2 DEF Init, OneSuccessor, DecisionsAttributed, NoTwins, OneResolution, SeenOnce,
              SeenRegistered
<1> QED
  BY <1>3, <1>4, <1>5 DEF Inv

LEMMA NextInv == Inv /\ [Next]_vars => Inv' /\ Carries
<1> SUFFICES ASSUME Inv, [Next]_vars
             PROVE  Inv' /\ Carries
  OBVIOUS
<1>1. CASE UNCHANGED vars
  <2>1. Inv'
    BY <1>1 DEF vars, Inv, TypeOK, RestartIsInvisible, OneSuccessor, DecisionsAttributed,
                NoTwins, OneResolution, SeenOnce, SeenRegistered
  <2>2. Carries
    BY <1>1 DEF vars, Inv, SeenOnce, Carries
  <2> QED
    BY <2>1, <2>2
<1>2. CASE Open \/ OpenDies \/ RemoveSegment \/ Stop
  BY <1>2, OpenStep
<1> DEFINE Operation == \/ \E id \in Ids : Register(id)
                        \/ \E e \in entities : Rename(e)
                        \/ Imports \/ Decisions \/ Migration
<1>3. CASE Operation /\ damage = "none"
  <2>0. Ready
    BY <1>3 DEF Ready
  <2>1. ASSUME NEW id \in Ids, Register(id)
        PROVE  Inv' /\ Carries
    BY <2>0, <2>1, RegisterStep
  <2>2. ASSUME NEW e \in entities, Rename(e)
        PROVE  Inv' /\ Carries
    BY <2>0, <2>2, RenameStep
  <2>3. CASE Imports
    BY <2>0, <2>3, ImportStep DEF Imports
  <2>4. CASE Decisions
    BY <2>0, <2>4, DecisionsStep
  <2>5. CASE Migration
    BY <2>0, <2>5, MigrationStep
  <2> QED
    BY <1>3, <2>1, <2>2, <2>3, <2>4, <2>5
<1>4. CASE Operation /\ damage # "none"
  <2>1. Attempts
    BY <1>4, OperationsAttempt
  <2> QED
    BY <1>4, <2>1, FailedStep
<1> QED
  BY <1>1, <1>2, <1>3, <1>4 DEF Next

LEMMA AlwaysInv == Spec => []Inv
  BY InitInv, NextInv, PTL DEF Spec

\* The registry's state, on disk and in memory, is well formed.
THEOREM RegistryTypes == Spec => []TypeOK
<1>1. Inv => TypeOK
  BY DEF Inv
<1> QED
  BY <1>1, AlwaysInv, PTL

\* DurableEntityRegistry.open() reads back exactly what the process had in memory,
\* the trait index included, whatever deaths preceded it.
THEOREM RegistryRestarts == Spec => []RestartIsInvisible
<1>1. Inv => RestartIsInvisible
  BY DEF Inv
<1> QED
  BY <1>1, AlwaysInv, PTL

\* appendRow never gives an id a second row or a row an old number.
THEOREM RegistryRows == Spec => []OneSuccessor
<1>1. Inv => OneSuccessor
  BY DEF Inv
<1> QED
  BY <1>1, AlwaysInv, PTL

\* recordResolution comes before appendRow: every owner's row has its assertion and
\* no assertion has two rows, retries of a decision that died in between included.
THEOREM RegistryDecisions == Spec => []DecisionsAttributed
<1>1. Inv => DecisionsAttributed
  BY DEF Inv
<1> QED
  BY <1>1, AlwaysInv, PTL

\* resolveOrMint never leaves two entities that one observation could match.
THEOREM RegistryNoTwins == Spec => []NoTwins
<1>1. Inv => NoTwins
  BY DEF Inv
<1> QED
  BY <1>1, AlwaysInv, PTL

\* resolveOrMint never carries an entity forward onto an observation that shares
\* fewer than two traits with the last one.
THEOREM RegistryNeverConflates == Spec => NeverConflates
<1>1. Inv /\ [Next]_vars => [Carries]_vars
  BY NextInv
<1>2. Spec => [][Carries]_vars
  BY <1>1, AlwaysInv, PTL DEF Spec
<1> QED
  BY <1>2 DEF NeverConflates, Carries
-----------------------------------------------------------------------------
(* Following redirects *)

LEMMA Least ==
  ASSUME NEW T \in SUBSET Nat, T # {}
  PROVE  \E m \in T : \A n \in T : m <= n
<1> DEFINE L == {ss \in Nat \X Nat : ss[1] < ss[2]}
<1>1. IsWellFoundedOn(L, Nat)
  BY NatLessThanWellFounded DEF OpToRel
<1>2. \A x, y \in Nat : <<y, x>> \in L <=> y < x
  OBVIOUS
<1> HIDE DEF L
<1>3. PICK x \in T : \A y \in T : ~(<<y, x>> \in L)
  BY <1>1, WFMin
<1>4. ASSUME NEW y \in T PROVE x <= y
  <2>1. ~(y < x) /\ x \in Nat /\ y \in Nat
    BY <1>2, <1>3
  <2> QED
    BY <2>1
<1> QED
  BY <1>4

\* One hop of resolve().
Hop(rs, x) == IF Is(rs, x, "mapped") THEN Successor(rs, x) ELSE x

\* The first n hops.
Hops(rs, id, n, w) ==
  w = [m \in 0..n |-> IF m = 0 THEN id ELSE Hop(rs, w[m - 1])]

LEMMA HopsExist ==
  ASSUME NEW rs, NEW id, NEW k \in Nat
  PROVE  \E w : Hops(rs, id, k, w)
<1> DEFINE T == {n \in Nat : ~\E w : Hops(rs, id, n, w)}
<1>1. SUFFICES ASSUME T # {} PROVE FALSE
  OBVIOUS
<1>2. PICK n \in T : \A m \in T : n <= m
  <2>1. T \in SUBSET Nat
    OBVIOUS
  <2> HIDE DEF T
  <2> QED
    BY <1>1, <2>1, Least
<1>3. n # 0
  <2>1. Hops(rs, id, 0, [m \in 0..0 |-> id])
    BY DEF Hops
  <2> QED
    BY <2>1
<1>4. n \in Nat /\ n - 1 \in Nat /\ n - 1 \notin T
  BY <1>2, <1>3
<1>5. PICK w : Hops(rs, id, n - 1, w)
  BY <1>4
<1> DEFINE v == [m \in 0..n |-> IF m = n THEN Hop(rs, w[n - 1]) ELSE w[m]]
<1>6. ASSUME NEW m \in 0..n
      PROVE  v[m] = IF m = 0 THEN id ELSE Hop(rs, v[m - 1])
  <2>1. /\ w[0] = id
        /\ \A i \in 0..(n - 1) : i # 0 => w[i] = Hop(rs, w[i - 1])
    BY <1>4, <1>5 DEF Hops
  <2>2. CASE m = n
    <3>1. v[m] = Hop(rs, w[n - 1]) /\ v[m - 1] = w[n - 1]
      BY <1>4, <2>2
    <3> QED
      BY <1>3, <2>2, <3>1
  <2>3. CASE m # n
    <3>1. m \in 0..(n - 1) /\ v[m] = w[m] /\ (m # 0 => v[m - 1] = w[m - 1])
      BY <1>4, <2>3
    <3> QED
      BY <2>1, <3>1
  <2> QED
    BY <2>2, <2>3
<1>7. Hops(rs, id, n, v)
  BY <1>6 DEF Hops
<1> QED
  BY <1>2, <1>7

\* resolve() starts at the id and makes one hop after the other.
LEMMA WalkHops ==
  ASSUME NEW rs, NEW id
  PROVE  /\ Walk(rs, id)[0] = id
         /\ \A n \in 0..MaxRedirectDepth :
              Walk(rs, id)[n + 1] = Hop(rs, Walk(rs, id)[n])
<1> DEFINE K == MaxRedirectDepth + 1
<1>1. K \in Nat /\ MaxRedirectDepth \in Nat
  BY RegistryAssumption
<1>2. Walk(rs, id) = CHOOSE w : Hops(rs, id, K, w)
  BY DEF Walk, Hops, Hop
<1>3. Hops(rs, id, K, Walk(rs, id))
  BY <1>1, <1>2, HopsExist
<1>4. \A n \in 0..MaxRedirectDepth : n + 1 \in 0..K /\ n + 1 # 0 /\ (n + 1) - 1 = n
  BY <1>1
<1>5. 0 \in 0..K
  BY <1>1
<1> HIDE DEF K
<1> QED
  BY <1>3, <1>4, <1>5 DEF Hops

Known == Ids \cup Legacy

\* The ids a mapped row leads on from, and those of them that end at t.
Mapped(rs) == {r.old : r \in {r \in rs : r.disposition = "mapped"}}
Behind(rs, e, t) == {x \in Mapped(rs) : e[x] = t}

\* Every id is f hops away from its end e, which no mapped row leads on from, and
\* no chain is longer than there are ids that lead to its end.
Ranked(rs, f, e) ==
  /\ \A r \in rs, j \in Ids :
       r.disposition = "mapped" /\ r.to = {j} => f[r.old] = f[j] + 1 /\ e[r.old] = e[j]
  /\ \A x \in Known \ Mapped(rs) : f[x] = 0 /\ e[x] = x
  /\ \A x \in Known : f[x] <= Cardinality(Behind(rs, e, e[x]))

Acyclic(rs) == \E f \in [Known -> Nat], e \in [Known -> Known] : Ranked(rs, f, e)

\* A mapped row leads to one id, of those in S.
Onward(rs, S) ==
  \A r \in rs : r.disposition = "mapped" => \E j \in S : r.to = {j}

LEMMA IsMapped ==
  ASSUME NEW rs, NEW x
  PROVE  Is(rs, x, "mapped") <=> x \in Mapped(rs)
BY DEF Is, Mapped

LEMMA HopRank ==
  ASSUME NEW rs, rs \subseteq Row, NEW S \in SUBSET Ids, Onward(rs, S),
         NEW f \in [Known -> Nat], NEW e \in [Known -> Known], Ranked(rs, f, e),
         NEW x \in Known
  PROVE  /\ Hop(rs, x) \in Known /\ e[Hop(rs, x)] = e[x]
         /\ f[Hop(rs, x)] = IF f[x] = 0 THEN 0 ELSE f[x] - 1
         /\ Hop(rs, x) = x \/ Hop(rs, x) \in S
         /\ f[x] = 0 <=> x \notin Mapped(rs)
<1>1. CASE x \notin Mapped(rs)
  <2>1. Hop(rs, x) = x
    BY <1>1, IsMapped DEF Hop
  <2>2. f[x] = 0
    BY <1>1 DEF Ranked
  <2> QED
    BY <1>1, <2>1, <2>2
<1>2. CASE x \in Mapped(rs)
  <2>1. PICK r \in rs : r.old = x /\ r.disposition = "mapped"
    BY <1>2 DEF Mapped
  <2>2. PICK j \in S : r.to = {j}
    BY <2>1 DEF Onward
  <2> DEFINE y == Successor(rs, x)
  <2>3. y \in Ids /\ \E q \in rs : q.old = x /\ q.disposition = "mapped" /\ q.to = {y}
    BY <2>1, <2>2 DEF Successor
  <2>4. Hop(rs, x) = y
    BY <1>2, IsMapped DEF Hop
  <2> HIDE DEF y
  <2>5. PICK q \in rs : q.old = x /\ q.disposition = "mapped" /\ q.to = {y}
    BY <2>3
  <2>6. f[x] = f[y] + 1 /\ e[x] = e[y] /\ y \in Known
    BY <2>3, <2>5 DEF Ranked, Known
  <2>7. y \in S
    BY <2>5 DEF Onward
  <2>8. f[y] \in Nat
    BY <2>6
  <2>9. f[x] # 0 /\ f[y] = f[x] - 1
    BY <2>6, <2>8
  <2> QED
    BY <1>2, <2>4, <2>6, <2>7, <2>9
<1> QED
  BY <1>1, <1>2

\* Each hop of the walk is one step nearer to the end.
LEMMA WalkRank ==
  ASSUME NEW rs, rs \subseteq Row, NEW S \in SUBSET Ids, Onward(rs, S),
         NEW f \in [Known -> Nat], NEW e \in [Known -> Known], Ranked(rs, f, e),
         NEW id \in Known, NEW k \in 0..MaxRedirectDepth + 1
  PROVE  /\ Walk(rs, id)[k] \in Known /\ e[Walk(rs, id)[k]] = e[id]
         /\ f[Walk(rs, id)[k]] = IF k <= f[id] THEN f[id] - k ELSE 0
         /\ Walk(rs, id)[k] = id \/ Walk(rs, id)[k] \in S
<1> DEFINE W(n) == Walk(rs, id)[n]
           P(n) == /\ W(n) \in Known /\ e[W(n)] = e[id]
                   /\ f[W(n)] = IF n <= f[id] THEN f[id] - n ELSE 0
                   /\ W(n) = id \/ W(n) \in S
           T == {n \in 0..MaxRedirectDepth + 1 : ~P(n)}
<1>1. MaxRedirectDepth \in Nat /\ f[id] \in Nat
  BY RegistryAssumption
<1>2. SUFFICES ASSUME T # {} PROVE FALSE
  OBVIOUS
<1>3. T \in SUBSET Nat
  BY <1>1
<1>4. PICK n \in T : \A m \in T : n <= m
  <2> HIDE DEF T
  <2> QED
    BY <1>2, <1>3, Least
<1>5. n \in 0..MaxRedirectDepth + 1 /\ ~P(n) /\ n \in Nat
  BY <1>1, <1>4
<1>6. P(0)
  <2>1. W(0) = id
    BY WalkHops
  <2> QED
    BY <1>1, <2>1
<1>7. n # 0
  BY <1>5, <1>6
<1>8. n - 1 \in 0..MaxRedirectDepth /\ n - 1 \notin T /\ n - 1 \in 0..MaxRedirectDepth + 1
      /\ n - 1 \in Nat /\ (n - 1) + 1 = n
  BY <1>1, <1>4, <1>5, <1>7
<1>9. P(n - 1)
  BY <1>8
<1>10. W(n) = Hop(rs, W(n - 1))
  BY <1>8, WalkHops
<1> HIDE DEF W, T
<1>11. /\ W(n) \in Known /\ e[W(n)] = e[W(n - 1)]
       /\ f[W(n)] = IF f[W(n - 1)] = 0 THEN 0 ELSE f[W(n - 1)] - 1
       /\ W(n) = W(n - 1) \/ W(n) \in S
  BY <1>9, <1>10, HopRank
<1>12. f[W(n)] = IF n <= f[id] THEN f[id] - n ELSE 0
  BY <1>1, <1>5, <1>7, <1>8, <1>9, <1>11
<1>13. P(n)
  BY <1>9, <1>11, <1>12
<1> QED
  BY <1>5, <1>13

\* The walk never comes back, and where it stops for good is the end.
LEMMA WalkEnds ==
  ASSUME NEW rs, rs \subseteq Row, NEW S \in SUBSET Ids, Onward(rs, S),
         NEW f \in [Known -> Nat], NEW e \in [Known -> Known], Ranked(rs, f, e),
         NEW id \in Known
  PROVE  /\ ~Cyclic(rs, id)
         /\ f[id] <= MaxRedirectDepth <=> ~Is(rs, Last(rs, id), "mapped")
         /\ ~Is(rs, Last(rs, id), "mapped") => Last(rs, id) = e[id]
         /\ Last(rs, id) \in Known /\ Last(rs, id) \in Chain(rs, id)
         /\ Last(rs, id) = id \/ Last(rs, id) \in S
<1> DEFINE W(n) == Walk(rs, id)[n]
<1>1. MaxRedirectDepth \in Nat /\ f[id] \in Nat
  BY RegistryAssumption
<1>2. \A n \in 0..MaxRedirectDepth + 1 :
        /\ W(n) \in Known /\ e[W(n)] = e[id]
        /\ f[W(n)] = IF n <= f[id] THEN f[id] - n ELSE 0
        /\ W(n) = id \/ W(n) \in S
  BY WalkRank
<1>3. ~Cyclic(rs, id)
  <2> SUFFICES ASSUME NEW n \in 0..MaxRedirectDepth, NEW m \in 0..n,
                      Is(rs, W(n), "mapped"), W(n + 1) = W(m)
               PROVE  FALSE
    BY DEF Cyclic
  <2>1. /\ n \in Nat /\ m \in Nat /\ m <= n /\ n \in 0..MaxRedirectDepth + 1
        /\ n + 1 \in 0..MaxRedirectDepth + 1 /\ m \in 0..MaxRedirectDepth + 1
    BY <1>1
  <2>2. f[W(n)] # 0
    <3>1. W(n) \in Known /\ W(n) \in Mapped(rs)
      BY <1>2, <2>1, IsMapped
    <3> HIDE DEF W
    <3> QED
      BY <3>1, HopRank
  <2>3. /\ f[W(n)] = IF n <= f[id] THEN f[id] - n ELSE 0
        /\ f[W(n + 1)] = IF n + 1 <= f[id] THEN f[id] - (n + 1) ELSE 0
        /\ f[W(m)] = IF m <= f[id] THEN f[id] - m ELSE 0
    BY <1>2, <2>1
  <2> HIDE DEF W
  <2> QED
    BY <1>1, <2>1, <2>2, <2>3
<1>4. Last(rs, id) = W(MaxRedirectDepth) /\ MaxRedirectDepth \in 0..MaxRedirectDepth + 1
      /\ MaxRedirectDepth \in 0..MaxRedirectDepth
  BY <1>1 DEF Last
<1>5. Last(rs, id) \in Chain(rs, id)
  BY <1>4 DEF Chain
<1> DEFINE x == Last(rs, id)
<1>6. /\ x \in Known /\ e[x] = e[id] /\ (x = id \/ x \in S)
      /\ f[x] = IF MaxRedirectDepth <= f[id] THEN f[id] - MaxRedirectDepth ELSE 0
  BY <1>2, <1>4
<1> HIDE DEF x, W
<1>7. f[x] = 0 <=> x \notin Mapped(rs)
  BY <1>6, HopRank
<1>8. x \notin Mapped(rs) => e[x] = x
  BY <1>6 DEF Ranked
<1>9. f[x] = 0 <=> f[id] <= MaxRedirectDepth
  BY <1>1, <1>6
<1> QED
  BY <1>3, <1>5, <1>6, <1>7, <1>8, <1>9, IsMapped DEF x

\* A row that redirects an id no mapped row leads on from, to an id that ends
\* elsewhere, leaves every chain with an end: what ended at the old id now goes on.
LEMMA AddMapped ==
  ASSUME NEW rs, rs \subseteq Row, NEW row \in Row, NEW into \in Ids,
         row.disposition = "mapped", row.to = {into}, row.old \notin Mapped(rs),
         IsFiniteSet(Mapped(rs)),
         NEW f \in [Known -> Nat], NEW e \in [Known -> Known], Ranked(rs, f, e),
         e[into] # row.old
  PROVE  Acyclic(rs \cup {row})
<1> DEFINE from == row.old
           new == rs \cup {row}
           g == [x \in Known |-> IF e[x] = from THEN f[x] + 1 + f[into] ELSE f[x]]
           d == [x \in Known |-> IF e[x] = from THEN e[into] ELSE e[x]]
<1>1. from \in Known /\ into \in Known
  BY DEF Row, Known
<1>2. Mapped(new) = Mapped(rs) \cup {from}
  BY DEF Mapped
<1>3. f[from] = 0 /\ e[from] = from
  BY <1>1 DEF Ranked
<1>4. g \in [Known -> Nat]
  <2>1. \A x \in Known : f[x] + 1 + f[into] \in Nat /\ f[x] \in Nat
    BY <1>1
  <2> QED
    BY <2>1
<1>5. d \in [Known -> Known]
  BY <1>1
<1>6. /\ \A x \in Known : g[x] = IF e[x] = from THEN f[x] + 1 + f[into] ELSE f[x]
      /\ \A x \in Known : d[x] = IF e[x] = from THEN e[into] ELSE e[x]
      /\ \A x \in Known : f[x] \in Nat /\ e[x] \in Known
  OBVIOUS
<1> HIDE DEF g, d, new, from
<1>7. ASSUME NEW r \in new, NEW j \in Ids, r.disposition = "mapped", r.to = {j}
      PROVE  g[r.old] = g[j] + 1 /\ d[r.old] = d[j]
  <2>1. j \in Known /\ r.old \in Known
    BY DEF Row, Known, new
  <2>2. CASE r \in rs
    <3>1. f[r.old] = f[j] + 1 /\ e[r.old] = e[j]
      BY <1>7, <2>2 DEF Ranked
    <3>2. f[j] \in Nat /\ f[into] \in Nat /\ f[r.old] \in Nat
      BY <1>1, <1>6, <2>1
    <3>3. d[r.old] = d[j]
      BY <1>6, <2>1, <3>1
    <3>4. g[r.old] = g[j] + 1
      <4>1. CASE e[j] = from
        <5>1. g[r.old] = f[r.old] + 1 + f[into] /\ g[j] = f[j] + 1 + f[into]
          BY <1>6, <2>1, <3>1, <4>1
        <5> QED
          BY <3>1, <3>2, <5>1
      <4>2. CASE e[j] # from
        BY <1>6, <2>1, <3>1, <4>2
      <4> QED
        BY <4>1, <4>2
    <3> QED
      BY <3>3, <3>4
  <2>3. CASE r = row
    <3>1. j = into /\ r.old = from
      BY <1>7, <2>3 DEF from
    <3>2. e[into] # from
      BY DEF from
    <3>3. g[from] = 0 + 1 + f[into] /\ g[into] = f[into] /\ d[from] = e[into] /\ d[into] = e[into]
      BY <1>1, <1>3, <1>6, <3>2
    <3>4. f[into] \in Nat
      BY <1>1, <1>6
    <3> QED
      BY <3>1, <3>3, <3>4
  <2> QED
    BY <2>2, <2>3 DEF new
<1>8. ASSUME NEW x \in Known \ Mapped(new)
      PROVE  g[x] = 0 /\ d[x] = x
  <2>1. x \in Known /\ x \notin Mapped(rs) /\ x # from
    BY <1>2
  <2>2. f[x] = 0 /\ e[x] = x
    BY <2>1 DEF Ranked
  <2> QED
    BY <1>6, <2>1, <2>2
<1>9. ASSUME NEW x \in Known
      PROVE  g[x] <= Cardinality(Behind(new, d, d[x]))
  <2> DEFINE B == Behind(new, d, d[x])
             A == Behind(rs, e, e[x])
             C == Behind(rs, e, e[into])
  <2>1. Mapped(rs) \subseteq Known
    BY DEF Mapped, Row, Known
  <2>2. IsFiniteSet(Mapped(new))
    BY <1>2, FS_AddElement
  <2>3. B \subseteq Mapped(new) /\ A \subseteq Mapped(rs) /\ C \subseteq Mapped(rs)
    BY DEF Behind
  <2>4. IsFiniteSet(B) /\ IsFiniteSet(A) /\ IsFiniteSet(C)
    BY <2>2, <2>3, FS_Subset
  <2>5. Cardinality(B) \in Nat /\ Cardinality(A) \in Nat /\ Cardinality(C) \in Nat
    BY <2>4, FS_CardinalityType
  <2>6. f[x] <= Cardinality(A) /\ f[into] <= Cardinality(C) /\ f[x] \in Nat /\ f[into] \in Nat
    BY <1>1, <1>6 DEF Ranked
  <2>7. /\ \A y : y \in A <=> y \in Mapped(rs) /\ e[y] = e[x]
        /\ \A y : y \in C <=> y \in Mapped(rs) /\ e[y] = e[into]
        /\ \A y : y \in B <=> y \in Mapped(new) /\ d[y] = d[x]
    BY DEF Behind
  <2> HIDE DEF A, B, C
  <2>8. CASE e[x] # from
    <3>1. \A y \in A : y \in B
      BY <1>2, <1>6, <2>1, <2>7, <2>8
    <3>2. Cardinality(A) <= Cardinality(B)
      BY <2>4, <3>1, FS_Subset
    <3>3. g[x] = f[x]
      BY <1>6, <2>8
    <3> QED
      BY <2>5, <2>6, <3>2, <3>3 DEF B
  <2>9. CASE e[x] = from
    <3>0. e[into] # from /\ d[x] = e[into]
      BY <1>6, <2>9 DEF from
    <3>1. \A y \in A : y \in B
      BY <1>2, <1>6, <2>1, <2>7, <2>9
    <3>2. \A y \in C : y \in B /\ y \notin A
      BY <1>2, <1>6, <2>1, <2>7, <2>9, <3>0
    <3>3. from \in B /\ from \notin A /\ from \notin C
      BY <1>1, <1>2, <1>3, <1>6, <2>7, <3>0 DEF from
    <3> DEFINE D == A \cup C
               E == D \cup {from}
    <3>4. A \cap C = {}
      BY <3>2
    <3>5. IsFiniteSet(D) /\ Cardinality(D) = Cardinality(A) + Cardinality(C) - Cardinality(A \cap C)
      BY <2>4, FS_Union
    <3>6. Cardinality(A \cap C) = 0
      BY <3>4, FS_EmptySet
    <3>7. from \notin D
      BY <3>3
    <3>8. E \subseteq B
      BY <3>1, <3>2, <3>3
    <3> HIDE DEF D
    <3>9. Cardinality(E) = Cardinality(D) + 1
      BY <3>5, <3>7, FS_AddElement
    <3> HIDE DEF E
    <3>10. Cardinality(E) <= Cardinality(B)
      BY <2>4, <3>8, FS_Subset
    <3>11. g[x] = f[x] + 1 + f[into]
      BY <1>6, <2>9
    <3> QED
      BY <2>5, <2>6, <3>5, <3>6, <3>9, <3>10, <3>11 DEF B
  <2> QED
    BY <2>8, <2>9
<1>10. Ranked(new, g, d)
  BY <1>7, <1>8, <1>9 DEF Ranked
<1> QED
  BY <1>4, <1>5, <1>10 DEF Acyclic, new

\* Rows that do not redirect leave every chain as it is.
LEMMA AddPlain ==
  ASSUME NEW rs, NEW more, \A r \in more : r.disposition # "mapped", Acyclic(rs)
  PROVE  Acyclic(rs \cup more) /\ Mapped(rs \cup more) = Mapped(rs)
<1>1. Mapped(rs \cup more) = Mapped(rs)
  BY DEF Mapped
<1>2. \A e, t : Behind(rs \cup more, e, t) = Behind(rs, e, t)
  BY <1>1 DEF Behind
<1>3. PICK f \in [Known -> Nat], e \in [Known -> Known] : Ranked(rs, f, e)
  BY DEF Acyclic
<1>4. Ranked(rs \cup more, f, e)
  <2>1. \A r \in rs \cup more, j \in Ids :
          r.disposition = "mapped" /\ r.to = {j} => f[r.old] = f[j] + 1 /\ e[r.old] = e[j]
    BY <1>3 DEF Ranked
  <2>2. \A x \in Known \ Mapped(rs \cup more) : f[x] = 0 /\ e[x] = x
    BY <1>1, <1>3 DEF Ranked
  <2>3. \A x \in Known : f[x] <= Cardinality(Behind(rs \cup more, e, e[x]))
    BY <1>2, <1>3 DEF Ranked
  <2> QED
    BY <2>1, <2>2, <2>3 DEF Ranked
<1> QED
  BY <1>1, <1>4 DEF Acyclic

\* resolve() answers with an entity where a chain ends at one that has no row.
LEMMA ResolvedEntity ==
  ASSUME NEW rs, NEW es, NEW id, rs \subseteq Row, Resolve(rs, es, id) = "entity"
  PROVE  ~HasRow(rs, Last(rs, id)) /\ Last(rs, id) \in IdsOf(es)
<1> DEFINE at == Last(rs, id)
           r == CHOOSE r \in rs : r.old = at
<1> HIDE DEF at
<1>1. CASE HasRow(rs, at)
  <2>1. r \in rs
    BY <1>1 DEF HasRow
  <2>2. r.disposition \in Dispositions
    BY <2>1 DEF Row
  <2> HIDE DEF r
  <2>3. Outcome(r.disposition) # "entity"
    BY <2>2 DEF Outcome, Dispositions
  <2>4. Cyclic(rs, id) \/ Resolve(rs, es, id) = Outcome(r.disposition)
    BY <1>1 DEF Resolve, at, r
  <2>5. Cyclic(rs, id) => Resolve(rs, es, id) = "redirect-cycle"
    BY DEF Resolve
  <2> QED
    BY <2>3, <2>4, <2>5
<1>2. CASE ~HasRow(rs, at)
  BY <1>2 DEF Resolve, at
<1> QED
  BY <1>1, <1>2 DEF at

\* And with one of the named outcomes wherever a chain ends.
LEMMA ResolvesAtEnd ==
  ASSUME NEW rs, NEW es, NEW id, rs \subseteq Row, ~Cyclic(rs, id),
         ~Is(rs, Last(rs, id), "mapped"), HasRow(rs, Last(rs, id)) \/ Last(rs, id) \in IdsOf(es)
  PROVE  Resolve(rs, es, id) \in Answers
<1> DEFINE at == Last(rs, id)
           r == CHOOSE r \in rs : r.old = at
<1> HIDE DEF at
<1>1. CASE HasRow(rs, at)
  <2>1. r \in rs /\ r.old = at
    BY <1>1 DEF HasRow
  <2>2. r.disposition \in Dispositions /\ r.disposition # "mapped"
    BY <2>1 DEF Row, Is, at
  <2> HIDE DEF r
  <2>3. Outcome(r.disposition) \in Answers
    BY <2>2 DEF Outcome, Dispositions, Answers
  <2>4. Resolve(rs, es, id) = Outcome(r.disposition)
    BY <1>1 DEF Resolve, at, r
  <2> QED
    BY <2>3, <2>4
<1>2. CASE ~HasRow(rs, at)
  BY <1>2 DEF Resolve, at, Answers
<1> QED
  BY <1>1, <1>2

\* What more rows lead on to is where the old ones already led.
LEMMA WalkGrows ==
  ASSUME NEW rs, rs \subseteq Row, NEW S \in SUBSET Ids, Onward(rs, S), NEW new, rs \subseteq new,
         NEW f \in [Known -> Nat], NEW e \in [Known -> Known], Ranked(new, f, e),
         NEW id \in Known, NEW k \in 0..MaxRedirectDepth
  PROVE  /\ Walk(rs, id)[k] \in Known /\ e[Walk(rs, id)[k]] = e[id]
         /\ f[Walk(rs, id)[k]] <= f[id]
<1> DEFINE W(n) == Walk(rs, id)[n]
           P(n) == W(n) \in Known /\ e[W(n)] = e[id] /\ f[W(n)] <= f[id]
           T == {n \in 0..MaxRedirectDepth : ~P(n)}
<1>1. MaxRedirectDepth \in Nat
  BY RegistryAssumption
<1>2. SUFFICES ASSUME T # {} PROVE FALSE
  OBVIOUS
<1>3. T \in SUBSET Nat
  BY <1>1
<1>4. PICK n \in T : \A m \in T : n <= m
  <2> HIDE DEF T
  <2> QED
    BY <1>2, <1>3, Least
<1>5. n \in 0..MaxRedirectDepth /\ ~P(n) /\ n \in Nat
  BY <1>1, <1>4
<1>6. W(0) = id /\ f[id] \in Nat
  BY WalkHops
<1>7. n # 0
  BY <1>5, <1>6
<1>8. n - 1 \in 0..MaxRedirectDepth /\ n - 1 \notin T /\ (n - 1) + 1 = n
  BY <1>1, <1>4, <1>5, <1>7
<1>9. P(n - 1)
  BY <1>8
<1>10. W(n) = Hop(rs, W(n - 1))
  BY <1>8, WalkHops
<1> DEFINE x == W(n - 1)
<1> HIDE DEF W, T
<1>11. CASE x \notin Mapped(rs)
  BY <1>5, <1>9, <1>10, <1>11, IsMapped DEF Hop
<1>12. CASE x \in Mapped(rs)
  <2>1. PICK r \in rs : r.old = x /\ r.disposition = "mapped"
    BY <1>12 DEF Mapped
  <2>2. PICK j \in S : r.to = {j}
    BY <2>1 DEF Onward
  <2> DEFINE y == Successor(rs, x)
  <2>3. y \in Ids /\ \E q \in rs : q.old = x /\ q.disposition = "mapped" /\ q.to = {y}
    BY <2>1, <2>2 DEF Successor
  <2>4. W(n) = y
    BY <1>10, <1>12, IsMapped DEF Hop
  <2> HIDE DEF y
  <2>5. e[x] = e[y] /\ f[x] = f[y] + 1 /\ y \in Known
    BY <2>3 DEF Ranked, Known
  <2>6. f[y] \in Nat /\ f[x] <= f[id] /\ f[id] \in Nat
    BY <1>9, <2>5
  <2> QED
    BY <1>5, <1>9, <2>4, <2>5, <2>6
<1> QED
  BY <1>11, <1>12
-----------------------------------------------------------------------------
(* Every redirect chain ends *)

Registered == IdsOf(ScanEntities(log))

\* Redirects lead to entities and never in a circle; who was returned or seen is
\* registered.
RedirectInv ==
  /\ Acyclic(ScanRows(log)) /\ IsFiniteSet(Mapped(ScanRows(log)))
  /\ Onward(ScanRows(log), Registered)
  /\ returned \subseteq Registered
  /\ \A s \in ScanSeen(log) : s.id \in Registered

\* What an operation appends: it answers with and records observations of what is
\* or becomes an entity, and redirects where merge() allows it to.
Redirects(g, ids) ==
  /\ g \in Group
  /\ ids \subseteq IdsOf(entities) \cup IdsOf(g.entities)
  /\ \A s \in g.seen : s.id \in IdsOf(entities) \cup IdsOf(g.entities)
  /\ \/ \A r \in g.rows : r.disposition # "mapped"
     \/ \E row \in Row, into \in IdsOf(entities) :
          /\ g.rows = {row} /\ row.disposition = "mapped" /\ row.to = {into}
          /\ MayMerge(row.old, into)

\* An entity that was registered stays.
LEMMA StaysRegistered ==
  ASSUME NEW l \in Seq(Group), NEW g \in Group
  PROVE  IdsOf(ScanEntities(Append(l, g))) = IdsOf(ScanEntities(l)) \cup IdsOf(g.entities)
<1>1. ScanEntities(Append(l, g)) =
        {e \in ScanEntities(l) : e.id \notin IdsOf(g.entities)} \cup g.entities
  BY ScanEntitiesAppend
<1>2. \A S, x : x \in IdsOf(S) <=> \E e \in S : x = e.id
  BY DEF IdsOf
<1>3. ASSUME NEW x \in IdsOf(ScanEntities(l))
      PROVE  x \in IdsOf(ScanEntities(Append(l, g)))
  <2>1. PICK e \in ScanEntities(l) : x = e.id
    BY <1>2
  <2>2. CASE x \in IdsOf(g.entities)
    BY <1>1, <1>2, <2>2
  <2>3. CASE x \notin IdsOf(g.entities)
    BY <1>1, <1>2, <2>1, <2>3
  <2> QED
    BY <2>2, <2>3
<1>4. ASSUME NEW x \in IdsOf(g.entities)
      PROVE  x \in IdsOf(ScanEntities(Append(l, g)))
  BY <1>1, <1>2
<1>5. ASSUME NEW x \in IdsOf(ScanEntities(Append(l, g)))
      PROVE  x \in IdsOf(ScanEntities(l)) \cup IdsOf(g.entities)
  BY <1>1, <1>2
<1> QED
  BY <1>3, <1>4, <1>5

\* merge() resolves its target first: the chain of the target ends at an entity
\* without a row, which is not the id that is merged away.
LEMMA MergeKeepsAcyclic ==
  ASSUME NEW rs, rs \subseteq Row, NEW es, NEW S \in SUBSET Ids, Onward(rs, S), Acyclic(rs),
         IsFiniteSet(Mapped(rs)), NEW row \in Row, NEW into \in Ids,
         row.disposition = "mapped", row.to = {into}, ~HasRow(rs, row.old),
         Resolve(rs, es, into) = "entity", row.old \notin Chain(rs, into)
  PROVE  Acyclic(rs \cup {row}) /\ IsFiniteSet(Mapped(rs \cup {row}))
<1>1. row.old \notin Mapped(rs)
  BY DEF HasRow, Mapped
<1>2. PICK f \in [Known -> Nat], e \in [Known -> Known] : Ranked(rs, f, e)
  BY DEF Acyclic
<1>3. into \in Known
  BY DEF Known
<1>4. ~Is(rs, Last(rs, into), "mapped")
  BY ResolvedEntity DEF HasRow, Is
<1>5. Last(rs, into) = e[into] /\ Last(rs, into) \in Chain(rs, into)
  <2>1. /\ ~Cyclic(rs, into)
        /\ f[into] <= MaxRedirectDepth <=> ~Is(rs, Last(rs, into), "mapped")
        /\ ~Is(rs, Last(rs, into), "mapped") => Last(rs, into) = e[into]
        /\ Last(rs, into) \in Known /\ Last(rs, into) \in Chain(rs, into)
        /\ Last(rs, into) = into \/ Last(rs, into) \in S
    BY <1>2, <1>3, WalkEnds
  <2> QED
    BY <1>4, <2>1
<1>6. Acyclic(rs \cup {row})
  BY <1>1, <1>2, <1>5, AddMapped
<1>7. Mapped(rs \cup {row}) = Mapped(rs) \cup {row.old}
  BY DEF Mapped
<1>8. IsFiniteSet(Mapped(rs) \cup {row.old})
  BY FS_AddElement
<1> QED
  BY <1>6, <1>7, <1>8

LEMMA KeepsRedirects ==
  ASSUME Ready, RedirectInv, NEW g, NEW ids, Redirects(g, ids), appendIdentityGroup(g, ids)
  PROVE  RedirectInv'
<1>0. /\ log \in Seq(Group) /\ g \in Group /\ up
      /\ entities = ScanEntities(log) /\ rows = ScanRows(log)
      /\ ScanRows(log) \subseteq Row /\ ScanEntities(log) \subseteq Entity
  BY Grows, ScansTyped DEF Ready, Inv, TypeOK, Redirects, RestartIsInvisible
<1>1. Registered \in SUBSET Ids
  BY <1>0 DEF Registered, IdsOf, Entity
<1>2. IdsOf(entities) = Registered
  BY <1>0 DEF Registered
<1>3. CASE log' = log
  <2>1. returned' \subseteq returned
    <3>1. CASE Dies(g) \/ Throws(g) \/ Spoils \/ HandleClosed
      BY <3>1 DEF Dies, Throws, Spoils, HandleClosed
    <3>2. CASE Commits(g, ids)
      <4>1. Len(log') = Len(log) + 1 /\ Len(log) \in Nat
        BY <1>0, <3>2, Appended DEF Commits
      <4> QED
        BY <1>3, <4>1
    <3> QED
      BY <3>1, <3>2 DEF appendIdentityGroup
  <2> QED
    BY <1>3, <2>1 DEF RedirectInv, Registered
<1>4. CASE log' = Append(log, g)
  <2>1. Registered' = Registered \cup IdsOf(g.entities)
    BY <1>0, <1>4, StaysRegistered DEF Registered
  <2>2. ScanRows(log') = ScanRows(log) \cup g.rows
    BY <1>0, <1>4, ScanRowsAppend
  <2>3. ScanSeen(log') = {s \in ScanSeen(log) : s.id \notin IdsOf(g.seen)} \cup g.seen
    BY <1>0, <1>4, ScanSeenAppend
  <2>4. \A s \in ScanSeen(log') : s.id \in Registered'
    BY <1>2, <2>1, <2>3 DEF RedirectInv, Redirects
  <2>5. returned' \subseteq Registered'
    <3>1. returned' = returned \/ returned' = returned \cup ids
      BY DEF appendIdentityGroup, Commits, Dies, Throws, Spoils, HandleClosed
    <3> QED
      BY <1>2, <2>1, <3>1 DEF RedirectInv, Redirects
  <2>6. CASE \A r \in g.rows : r.disposition # "mapped"
    <3>1. Acyclic(ScanRows(log')) /\ Mapped(ScanRows(log')) = Mapped(ScanRows(log))
      BY <2>2, <2>6, AddPlain DEF RedirectInv
    <3>2. Onward(ScanRows(log'), Registered')
      BY <2>1, <2>2, <2>6 DEF RedirectInv, Onward
    <3> QED
      BY <2>4, <2>5, <3>1, <3>2 DEF RedirectInv
  <2>7. ASSUME NEW row \in Row, NEW into \in IdsOf(entities),
               g.rows = {row}, row.disposition = "mapped", row.to = {into},
               MayMerge(row.old, into)
        PROVE  RedirectInv'
    <3>1. into \in Ids /\ into \in Registered
      BY <1>1, <1>2
    <3>2. /\ ~HasRow(ScanRows(log), row.old)
          /\ Resolve(ScanRows(log), ScanEntities(log), into) = "entity"
          /\ row.old \notin Chain(ScanRows(log), into)
      BY <1>0, <2>7 DEF MayMerge
    <3>3. /\ Onward(ScanRows(log), Registered) /\ Acyclic(ScanRows(log))
          /\ IsFiniteSet(Mapped(ScanRows(log)))
      BY DEF RedirectInv
    <3>4. ScanRows(log') = ScanRows(log) \cup {row}
      BY <2>2, <2>7
    <3>5. Acyclic(ScanRows(log')) /\ IsFiniteSet(Mapped(ScanRows(log')))
      <4>1. /\ Acyclic(ScanRows(log) \cup {row})
            /\ IsFiniteSet(Mapped(ScanRows(log) \cup {row}))
        BY <1>0, <1>1, <2>7, <3>1, <3>2, <3>3, MergeKeepsAcyclic, ZenonT(30)
      <4> QED
        BY <3>4, <4>1
    <3>6. Onward(ScanRows(log'), Registered')
      BY <2>1, <2>7, <3>1, <3>3, <3>4 DEF Onward
    <3> QED
      BY <2>4, <2>5, <3>5, <3>6 DEF RedirectInv
  <2> QED
    BY <2>6, <2>7 DEF Redirects
<1> QED
  BY <1>3, <1>4, Grows

\* Every operation that appends does it so.
Appends == \E g, ids : Redirects(g, ids) /\ appendIdentityGroup(g, ids)

LEMMA RegistersWell ==
  ASSUME Ready, NEW id \in Ids, Register(id)
  PROVE  Appends
<1> DEFINE g == [entities |-> {Minted(id)}, rows |-> {}, seen |-> {}]
<1>1. appendIdentityGroup(g, {id})
  BY DEF Register
<1>2. g \in Group /\ g.rows = {} /\ g.seen = {} /\ id \in IdsOf(g.entities)
  BY DEF Group, Minted, Entity, IdsOf
<1> HIDE DEF g
<1>3. Redirects(g, {id})
  BY <1>2 DEF Redirects
<1> QED
  BY <1>1, <1>3 DEF Appends

LEMMA RenamesWell ==
  ASSUME Ready, NEW e \in entities, Rename(e)
  PROVE  Appends
<1> DEFINE g == [entities |-> {[id |-> e.id, version |-> e.version + 1]}, rows |-> {},
                 seen |-> {}]
<1>1. appendIdentityGroup(g, {e.id})
  BY DEF Rename
<1>2. e.id \in Ids /\ e.version + 1 \in Nat /\ e.id \in IdsOf(entities)
  BY DEF Ready, Inv, TypeOK, Entity, IdsOf
<1>3. g \in Group /\ g.rows = {} /\ g.seen = {}
  BY <1>2 DEF Group, Entity
<1> HIDE DEF g
<1>4. Redirects(g, {e.id})
  BY <1>2, <1>3 DEF Redirects
<1> QED
  BY <1>1, <1>4 DEF Appends

LEMMA ImportsWell ==
  ASSUME Ready, RedirectInv, NEW o \in Observations, NEW id \in Ids, ResolveOrMint(o, id)
  PROVE  Appends
<1> DEFINE s == [id |-> id, observation |-> o]
<1>1. CASE /\ Candidates(o) = {id}
           /\ appendIdentityGroup([entities |-> {}, rows |-> {}, seen |-> {s}], {id})
  <2> DEFINE g == [entities |-> {}, rows |-> {}, seen |-> {s}]
  <2>1. up
    BY <1>1 DEF appendIdentityGroup
  <2>2. id \in IdsOf(entities)
    <3>1. observations = ScanSeen(log) /\ entities = ScanEntities(log)
      BY <2>1 DEF Ready, Inv, RestartIsInvisible
    <3>2. id \in IdsOf(observations)
      BY <1>1 DEF Candidates
    <3>3. PICK t \in ScanSeen(log) : t.id = id
      BY <3>1, <3>2 DEF IdsOf
    <3> QED
      BY <3>1, <3>3 DEF RedirectInv, Registered
  <2>3. g \in Group /\ g.rows = {} /\ g.seen = {s} /\ s.id = id
    BY DEF Group, Seen
  <2>4. appendIdentityGroup(g, {id})
    BY <1>1
  <2> HIDE DEF g, s
  <2>5. Redirects(g, {id})
    BY <2>2, <2>3 DEF Redirects
  <2> QED
    BY <2>4, <2>5 DEF Appends
<1>2. CASE appendIdentityGroup([entities |-> {Minted(id)}, rows |-> {}, seen |-> {s}], {id})
  <2> DEFINE g == [entities |-> {Minted(id)}, rows |-> {}, seen |-> {s}]
  <2>1. /\ g \in Group /\ g.rows = {} /\ g.seen = {s} /\ s.id = id
        /\ id \in IdsOf(g.entities)
    BY DEF Group, Seen, Minted, Entity, IdsOf
  <2>2. appendIdentityGroup(g, {id})
    BY <1>2
  <2> HIDE DEF g, s
  <2>3. Redirects(g, {id})
    BY <2>1 DEF Redirects
  <2> QED
    BY <2>2, <2>3 DEF Appends
<1> QED
  BY <1>1, <1>2 DEF ResolveOrMint

\* A row that splits or closes an id, and a row that redirects one.
LEMMA ClosesWell ==
  ASSUME Ready, NEW old \in Ids \cup Legacy, NEW disposition \in Dispositions,
         disposition # "mapped", NEW to \in SUBSET Ids, NEW key \in Keys \cup {Mechanical},
         NEW created \in SUBSET Entity, NEW ids, ids \subseteq IdsOf(created), ~HasRow(rows, old),
         appendRow(LedgerRow(old, disposition, to, key), created, ids)
  PROVE  Appends
<1> DEFINE row == LedgerRow(old, disposition, to, key)
           g == [entities |-> created, rows |-> {row}, seen |-> {}]
<1>1. Appendable(g)
  BY RowAppendable
<1>2. appendIdentityGroup(g, ids)
  BY DEF appendRow
<1>3. /\ g.rows = {row} /\ row.disposition # "mapped" /\ g.seen = {} /\ g.entities = created
  BY DEF LedgerRow
<1> HIDE DEF g, row
<1>4. Redirects(g, ids)
  BY <1>1, <1>3 DEF Redirects, Appendable
<1> QED
  BY <1>2, <1>4 DEF Appends

LEMMA MergesWell ==
  ASSUME Ready, NEW from \in Ids \cup Legacy, NEW into \in IdsOf(entities),
         NEW key \in Keys \cup {Mechanical}, NEW ids, ids \subseteq IdsOf(entities),
         MayMerge(from, into), appendRow(LedgerRow(from, "mapped", {into}, key), {}, ids)
  PROVE  Appends
<1> DEFINE row == LedgerRow(from, "mapped", {into}, key)
           g == [entities |-> {}, rows |-> {row}, seen |-> {}]
<1>1. {into} \in SUBSET Ids /\ "mapped" \in Dispositions /\ ~HasRow(rows, from)
  BY DEF Ready, Inv, TypeOK, Entity, IdsOf, Dispositions, MayMerge
<1>2. Appendable(g) /\ row \in Row
  <2>1. {} \in SUBSET Entity
    OBVIOUS
  <2> QED
    BY <1>1, <2>1, RowAppendable
<1>3. appendIdentityGroup(g, ids)
  BY DEF appendRow
<1>4. /\ g.rows = {row} /\ g.seen = {}
      /\ row.disposition = "mapped" /\ row.to = {into} /\ row.old = from
  BY DEF LedgerRow
<1> HIDE DEF g, row
<1>5. Redirects(g, ids)
  BY <1>2, <1>4 DEF Redirects, Appendable
<1> QED
  BY <1>3, <1>5 DEF Appends

LEMMA DecidesWell ==
  ASSUME Ready, Decisions
  PROVE  Appends
<1>1. IdsOf(entities) \subseteq Ids
  BY DEF Ready, Inv, TypeOK, Entity, IdsOf
<1>2. ASSUME NEW into \in Pairs
      PROVE  /\ into \in SUBSET Ids /\ {Minted(id) : id \in into} \in SUBSET Entity
             /\ into \subseteq IdsOf({Minted(id) : id \in into})
  <2>1. into \in SUBSET Ids /\ {Minted(id) : id \in into} \in SUBSET Entity
    BY DEF Pairs, Minted, Entity
  <2>2. ASSUME NEW x \in into
        PROVE  x \in IdsOf({Minted(id) : id \in into})
    <3>1. Minted(x) \in {Minted(id) : id \in into} /\ Minted(x).id = x
      BY DEF Minted
    <3> QED
      BY <3>1 DEF IdsOf
  <2> QED
    BY <2>1, <2>2
<1>3. "ambiguous-split" \in Dispositions /\ "ambiguous-split" # "mapped"
  BY DEF Dispositions
<1>4. PICK from \in IdsOf(entities) \cup Legacy :
        \/ \E into \in IdsOf(entities) :
             MechanicalMerge(from, into) \/ \E key \in Keys : OwnerMerge(from, into, key)
        \/ \E into \in Pairs :
             MechanicalSplit(from, into) \/ \E key \in Keys : OwnerSplit(from, into, key)
  BY DEF Decisions
<1>5. from \in Ids \cup Legacy
  BY <1>1
<1>6. ASSUME NEW into \in IdsOf(entities), MechanicalMerge(from, into)
      PROVE  Appends
  <2>1. /\ MayMerge(from, into)
        /\ appendRow(LedgerRow(from, "mapped", {into}, Mechanical), {}, {})
    BY <1>6 DEF MechanicalMerge
  <2>2. {} \subseteq IdsOf(entities)
    OBVIOUS
  <2> QED
    BY <1>5, <2>1, <2>2, MergesWell
<1>7. ASSUME NEW into \in IdsOf(entities), NEW key \in Keys, OwnerMerge(from, into, key)
      PROVE  Appends
  <2>1. PICK target \in IdsOf(entities) :
          appendRow(LedgerRow(from, "mapped", {into}, key), {}, {target})
    BY <1>7 DEF OwnerMerge
  <2>2. MayMerge(from, into) /\ {target} \subseteq IdsOf(entities)
    BY <1>7 DEF OwnerMerge
  <2> QED
    BY <1>5, <2>1, <2>2, MergesWell
<1>8. ASSUME NEW into \in Pairs, MechanicalSplit(from, into)
      PROVE  Appends
  <2>1. /\ ~HasRow(rows, from)
        /\ appendRow(LedgerRow(from, "ambiguous-split", into, Mechanical),
                     {Minted(id) : id \in into}, into)
    BY <1>8 DEF MechanicalSplit
  <2> QED
    BY <1>2, <1>3, <1>5, <2>1, ClosesWell
<1>9. ASSUME NEW into \in Pairs, NEW key \in Keys, OwnerSplit(from, into, key)
      PROVE  Appends
  <2>1. /\ ~HasRow(rows, from)
        /\ appendRow(LedgerRow(from, "ambiguous-split", into, key),
                     {Minted(id) : id \in into}, into)
    BY <1>9 DEF OwnerSplit
  <2> QED
    BY <1>2, <1>3, <1>5, <2>1, ClosesWell
<1> QED
  BY <1>4, <1>6, <1>7, <1>8, <1>9

LEMMA MigratesWell ==
  ASSUME Ready, Migration
  PROVE  Appends
<1>1. /\ {} \in SUBSET Ids /\ {} \in SUBSET Entity /\ {} \subseteq IdsOf({})
      /\ {"mapped-assertion", "not-carried", "ambiguous-split"} \subseteq Dispositions
      /\ "mapped" \notin {"mapped-assertion", "not-carried", "ambiguous-split"}
  BY DEF Dispositions
<1>2. ASSUME NEW old \in Legacy, NEW disposition \in {"mapped-assertion", "not-carried"},
             RecordMigration(old, disposition)
      PROVE  Appends
  <2>1. ~HasRow(rows, old) /\ appendRow(LedgerRow(old, disposition, {}, Mechanical), {}, {})
    BY <1>2 DEF RecordMigration
  <2>2. disposition \in Dispositions /\ disposition # "mapped"
    BY <1>1
  <2> QED
    BY <1>1, <2>1, <2>2, ClosesWell
<1>3. ASSUME NEW old \in Legacy, NEW candidates \in Pairs, RecordAmbiguousSplit(old, candidates)
      PROVE  Appends
  <2>1. /\ ~HasRow(rows, old)
        /\ appendRow(LedgerRow(old, "ambiguous-split", candidates, Mechanical), {}, {})
    BY <1>3 DEF RecordAmbiguousSplit
  <2>2. candidates \in SUBSET Ids
    BY DEF Pairs
  <2> QED
    BY <1>1, <2>1, <2>2, ClosesWell
<1> QED
  BY <1>2, <1>3 DEF Migration

LEMMA InitRedirects == Init => RedirectInv
<1> SUFFICES ASSUME Init
             PROVE  RedirectInv
  OBVIOUS
<1>1. log = <<>> /\ Len(log) = 0 /\ 1..Len(log) = {}
  BY DEF Init
<1>2. ScanRows(log) = {} /\ ScanSeen(log) = {} /\ returned = {}
  BY <1>1 DEF ScanRows, ScanSeen, Init
<1>3. Mapped(ScanRows(log)) = {} /\ IsFiniteSet(Mapped(ScanRows(log)))
  BY <1>2, FS_EmptySet DEF Mapped
<1>4. Acyclic(ScanRows(log))
  <2> DEFINE f == [x \in Known |-> 0]
             e == [x \in Known |-> x]
  <2>1. f \in [Known -> Nat] /\ e \in [Known -> Known]
    OBVIOUS
  <2>2. \A x \in Known : f[x] = 0 /\ e[x] = x
    OBVIOUS
  <2>3. \A t : Behind(ScanRows(log), e, t) = {}
    BY <1>3 DEF Behind
  <2> HIDE DEF f, e
  <2>4. Cardinality({}) = 0
    BY FS_EmptySet
  <2>5. \A x \in Known : f[x] <= Cardinality(Behind(ScanRows(log), e, e[x]))
    BY <2>2, <2>3, <2>4
  <2>6. Ranked(ScanRows(log), f, e)
    BY <1>2, <2>2, <2>5 DEF Ranked
  <2> QED
    BY <2>1, <2>6 DEF Acyclic
<1> QED
  BY <1>2, <1>3, <1>4 DEF RedirectInv, Onward

\* A step keeps every row and appends as above, or leaves the log alone.
LEMMA NextRedirects ==
  ASSUME Inv, RedirectInv, [Next]_vars
  PROVE  RedirectInv' /\ ScanRows(log) \subseteq ScanRows(log')
<1>1. CASE log' = log /\ returned' = returned
  BY <1>1 DEF RedirectInv, Registered
<1>2. CASE Ready /\ Appends
  <2>1. PICK g, ids : Redirects(g, ids) /\ appendIdentityGroup(g, ids)
    BY <1>2 DEF Appends
  <2>2. RedirectInv'
    BY <1>2, <2>1, KeepsRedirects
  <2>3. log' = log \/ log' = Append(log, g)
    BY <1>2, <2>1, Grows
  <2>4. log \in Seq(Group) /\ g \in Group
    BY <2>1 DEF Inv, TypeOK, Redirects
  <2>5. ScanRows(log) \subseteq ScanRows(log')
    BY <2>3, <2>4, ScanRowsAppend
  <2> QED
    BY <2>2, <2>5
<1>3. CASE UNCHANGED vars \/ Open \/ OpenDies \/ RemoveSegment \/ Stop
  BY <1>1, <1>3 DEF vars, Open, OpenDies, RemoveSegment, Stop, disk
<1> DEFINE Operation == \/ \E id \in Ids : Register(id)
                        \/ \E e \in entities : Rename(e)
                        \/ Imports \/ Decisions \/ Migration
<1>4. CASE Operation /\ damage = "none"
  <2>0. Ready
    BY <1>4 DEF Ready
  <2>1. ASSUME NEW id \in Ids, Register(id)
        PROVE  Appends
    BY <2>0, <2>1, RegistersWell
  <2>2. ASSUME NEW e \in entities, Rename(e)
        PROVE  Appends
    BY <2>0, <2>2, RenamesWell
  <2>3. ASSUME Imports
        PROVE  Appends
    BY <2>0, <2>3, ImportsWell DEF Imports
  <2>4. ASSUME Decisions \/ Migration
        PROVE  Appends
    BY <2>0, <2>4, DecidesWell, MigratesWell
  <2> QED
    BY <1>2, <1>4, <2>0, <2>1, <2>2, <2>3, <2>4
<1>5. CASE Operation /\ damage # "none"
  <2>1. Attempts
    BY <1>5, OperationsAttempt
  <2> QED
    BY <1>1, <1>5, <2>1, FailedStep
<1> QED
  BY <1>3, <1>4, <1>5 DEF Next

LEMMA AlwaysRedirects == Spec => [](Inv /\ RedirectInv)
<1>1. Inv /\ RedirectInv /\ [Next]_vars => (Inv /\ RedirectInv)'
  BY NextInv, NextRedirects
<1> QED
  BY <1>1, InitInv, InitRedirects, PTL DEF Spec

\* Where the walk of an id that was returned, or that a row speaks for, gets to.
LEMMA WalkLands ==
  ASSUME Inv, RedirectInv, NEW id \in returned \cup {r.old : r \in ScanRows(log)}
  PROVE  /\ id \in Known /\ ScanRows(log) \subseteq Row /\ ~Cyclic(ScanRows(log), id)
         /\ \/ HasRow(ScanRows(log), Last(ScanRows(log), id))
            \/ Last(ScanRows(log), id) \in IdsOf(ScanEntities(log))
<1> DEFINE rs == ScanRows(log)
<1>1. /\ rs \subseteq Row /\ ScanEntities(log) \subseteq Entity /\ returned \subseteq Ids
  BY ScansTyped DEF Inv, TypeOK
<1>2. Registered \in SUBSET Ids
  BY <1>1 DEF Registered, IdsOf, Entity
<1>3. id \in Known
  BY <1>1 DEF Known, Row
<1>4. Onward(rs, Registered)
  BY DEF RedirectInv
<1>5. PICK f \in [Known -> Nat], e \in [Known -> Known] : Ranked(rs, f, e)
  BY DEF RedirectInv, Acyclic
<1>6. id \in Registered \/ HasRow(rs, id)
  BY DEF RedirectInv, HasRow
<1> HIDE DEF rs
<1>7. /\ ~Cyclic(rs, id)
      /\ f[id] <= MaxRedirectDepth <=> ~Is(rs, Last(rs, id), "mapped")
      /\ ~Is(rs, Last(rs, id), "mapped") => Last(rs, id) = e[id]
      /\ Last(rs, id) \in Known /\ Last(rs, id) \in Chain(rs, id)
      /\ Last(rs, id) = id \/ Last(rs, id) \in Registered
  BY <1>1, <1>2, <1>3, <1>4, <1>5, WalkEnds
<1> QED
  BY <1>1, <1>3, <1>6, <1>7 DEF rs, Registered

\* No mapped row leads on from where resolve() stops following: no chain of
\* redirects is longer than it follows.
ChainsEnd ==
  \A id \in Known : ~Is(ScanRows(log), Last(ScanRows(log), id), "mapped")

\* resolve() follows as many redirects as there are.
FewRedirects == Cardinality(Mapped(ScanRows(log))) <= MaxRedirectDepth

\* Every id a caller was given, and every id a row speaks for, has an entity or one
\* of the named outcomes for an answer.
EverResolves ==
  \A id \in returned \cup {r.old : r \in ScanRows(log)} :
    Resolve(ScanRows(log), ScanEntities(log), id) \in Answers

\* resolve() never finds a cycle, a redirect that leads nowhere, or an id that it
\* does not know, of what a caller was given or a ledger row speaks for: merge()'s
\* checks on its target are enough, through deaths between its two appends.
THEOREM RegistryNeverLoses == Spec => []ResolvesOrTooLong
<1>1. ASSUME Inv, RedirectInv
      PROVE  ResolvesOrTooLong
  <2> SUFFICES ASSUME NEW id \in returned \cup {r.old : r \in ScanRows(log)}
               PROVE  Resolve(ScanRows(log), ScanEntities(log), id)
                        \in Answers \cup {"redirect-chain-too-long"}
    BY DEF ResolvesOrTooLong
  <2> DEFINE rs == ScanRows(log)
             es == ScanEntities(log)
             at == Last(rs, id)
             r == CHOOSE r \in rs : r.old = at
  <2>1. rs \subseteq Row /\ ~Cyclic(rs, id) /\ (HasRow(rs, at) \/ at \in IdsOf(es))
    BY <1>1, WalkLands
  <2> HIDE DEF rs, es, at
  <2>2. CASE HasRow(rs, at)
    <3>1. r \in rs
      BY <2>2 DEF HasRow
    <3>2. r.disposition \in Dispositions
      BY <2>1, <3>1 DEF Row
    <3> HIDE DEF r
    <3>3. Outcome(r.disposition) \in Answers \cup {"redirect-chain-too-long"}
      BY <3>2 DEF Outcome, Dispositions, Answers
    <3>4. Resolve(rs, es, id) = Outcome(r.disposition)
      BY <2>1, <2>2 DEF Resolve, at, r
    <3> QED
      BY <3>3, <3>4 DEF rs, es
  <2>3. CASE ~HasRow(rs, at)
    <3>1. Resolve(rs, es, id) = "entity"
      BY <2>1, <2>3 DEF Resolve, at
    <3> QED
      BY <3>1 DEF Answers, rs, es
  <2> QED
    BY <2>2, <2>3
<1> QED
  BY <1>1, AlwaysRedirects, PTL

LEMMA FewEnd ==
  ASSUME Inv, RedirectInv, FewRedirects
  PROVE  ChainsEnd
<1> DEFINE rs == ScanRows(log)
<1>1. /\ rs \subseteq Row /\ ScanEntities(log) \subseteq Entity /\ MaxRedirectDepth \in Nat
  BY ScansTyped, RegistryAssumption DEF Inv, TypeOK
<1>2. Registered \in SUBSET Ids
  BY <1>1 DEF Registered, IdsOf, Entity
<1>3. Onward(rs, Registered) /\ IsFiniteSet(Mapped(rs))
  BY DEF RedirectInv
<1>4. PICK f \in [Known -> Nat], e \in [Known -> Known] : Ranked(rs, f, e)
  BY DEF RedirectInv, Acyclic
<1>5. Cardinality(Mapped(rs)) <= MaxRedirectDepth
  BY DEF FewRedirects
<1> HIDE DEF rs
<1>6. ASSUME NEW id \in Known
      PROVE  ~Is(rs, Last(rs, id), "mapped")
  <2> DEFINE B == Behind(rs, e, e[id])
  <2>1. f[id] <= Cardinality(B)
    BY <1>4 DEF Ranked
  <2>2. B \subseteq Mapped(rs)
    BY DEF Behind
  <2> HIDE DEF B
  <2>3. /\ Cardinality(B) <= Cardinality(Mapped(rs)) /\ IsFiniteSet(B)
    BY <1>3, <2>2, FS_Subset
  <2>4. Cardinality(B) \in Nat /\ Cardinality(Mapped(rs)) \in Nat /\ f[id] \in Nat
    BY <1>3, <2>3, FS_CardinalityType
  <2>5. f[id] <= MaxRedirectDepth
    BY <1>1, <1>5, <2>1, <2>3, <2>4
  <2>6. /\ ~Cyclic(rs, id)
        /\ f[id] <= MaxRedirectDepth <=> ~Is(rs, Last(rs, id), "mapped")
        /\ ~Is(rs, Last(rs, id), "mapped") => Last(rs, id) = e[id]
        /\ Last(rs, id) \in Known /\ Last(rs, id) \in Chain(rs, id)
        /\ Last(rs, id) = id \/ Last(rs, id) \in Registered
    BY <1>1, <1>2, <1>3, <1>4, WalkEnds
  <2> QED
    BY <2>5, <2>6
<1> QED
  BY <1>6 DEF ChainsEnd, rs

\* "an id Atlas has ever returned resolves forever" as long as no chain of
\* redirects outgrows the depth resolve() follows, which takes more merges than
\* that depth: its other refusals never happen.
THEOREM RegistryEverResolves ==
  /\ Spec => [](ChainsEnd => EverResolves)
  /\ Spec => [](FewRedirects => EverResolves)
<1>1. ASSUME Inv, RedirectInv, ChainsEnd
      PROVE  EverResolves
  <2> SUFFICES ASSUME NEW id \in returned \cup {r.old : r \in ScanRows(log)}
               PROVE  Resolve(ScanRows(log), ScanEntities(log), id) \in Answers
    BY DEF EverResolves
  <2> DEFINE rs == ScanRows(log)
             es == ScanEntities(log)
  <2>1. /\ id \in Known /\ rs \subseteq Row /\ ~Cyclic(rs, id)
        /\ HasRow(rs, Last(rs, id)) \/ Last(rs, id) \in IdsOf(es)
    BY <1>1, WalkLands
  <2>2. ~Is(rs, Last(rs, id), "mapped")
    BY <1>1, <2>1 DEF ChainsEnd
  <2> HIDE DEF rs, es
  <2>3. Resolve(rs, es, id) \in Answers
    BY <2>1, <2>2, ResolvesAtEnd
  <2> QED
    BY <2>3 DEF rs, es
<1>2. Inv /\ RedirectInv => (ChainsEnd => EverResolves)
  BY <1>1
<1>3. Inv /\ RedirectInv => (FewRedirects => EverResolves)
  BY <1>1, FewEnd
<1>4. Spec => [](ChainsEnd => EverResolves)
  BY <1>2, AlwaysRedirects, PTL
<1>5. Spec => [](FewRedirects => EverResolves)
  BY <1>3, AlwaysRedirects, PTL
<1> QED
  BY <1>4, <1>5

\* A chain that resolve() does not follow to its end is refused as too long.
LEMMA TooLong ==
  ASSUME NEW rs, NEW es, NEW id, \A q, r \in rs : q.old = r.old => q = r, ~Cyclic(rs, id),
         Is(rs, Last(rs, id), "mapped")
  PROVE  Resolve(rs, es, id) = "redirect-chain-too-long"
<1> DEFINE at == Last(rs, id)
           r == CHOOSE r \in rs : r.old = at
<1> HIDE DEF at
<1>1. PICK q \in rs : q.old = at /\ q.disposition = "mapped"
  BY DEF Is, at
<1>2. r \in rs /\ r.old = at
  BY <1>1
<1>3. r.disposition = "mapped" /\ HasRow(rs, at)
  BY <1>1, <1>2 DEF HasRow
<1>4. Resolve(rs, es, id) = Outcome(r.disposition)
  BY <1>3 DEF Resolve, at, r
<1> QED
  BY <1>3, <1>4 DEF Outcome

\* What a step may do to what ids mean.
Follows ==
  \A id \in Ids \cup Legacy :
    Resolve(ScanRows(log), ScanEntities(log), id) = "entity" =>
      \/ Resolve(ScanRows(log'), ScanEntities(log'), id) = "redirect-chain-too-long"
      \/ Last(ScanRows(log'), id) = Last(ScanRows(log'), Last(ScanRows(log), id))

LEMMA NextFollows ==
  ASSUME Inv, RedirectInv, [Next]_vars
  PROVE  Follows
<1> DEFINE rs == ScanRows(log)
           new == ScanRows(log')
           es == ScanEntities(log')
<1>1. /\ rs \subseteq Row /\ ScanEntities(log) \subseteq Entity /\ MaxRedirectDepth \in Nat
  BY ScansTyped, RegistryAssumption DEF Inv, TypeOK
<1>2. Inv' /\ RedirectInv' /\ rs \subseteq new
  BY NextInv, NextRedirects
<1>3. new \subseteq Row /\ ScanEntities(log') \subseteq Entity
  BY <1>2, ScansTyped DEF Inv, TypeOK
<1>4. Registered \in SUBSET Ids /\ Registered' \in SUBSET Ids
  BY <1>1, <1>3 DEF Registered, IdsOf, Entity
<1>5. Onward(rs, Registered) /\ Onward(new, Registered')
  BY <1>2 DEF RedirectInv
<1>6. PICK f \in [Known -> Nat], e \in [Known -> Known] : Ranked(new, f, e)
  BY <1>2 DEF RedirectInv, Acyclic
<1>7. \A q, r \in new : q.old = r.old => q = r
  BY <1>2 DEF Inv, OneSuccessor
<1> HIDE DEF rs, new, es
<1>8. ASSUME NEW x \in Known
      PROVE  /\ ~Cyclic(new, x)
             /\ f[x] <= MaxRedirectDepth <=> ~Is(new, Last(new, x), "mapped")
             /\ ~Is(new, Last(new, x), "mapped") => Last(new, x) = e[x]
  <2>1. PICK S \in SUBSET Ids : S = Registered'
    BY <1>4
  <2>2. Onward(new, S)
    BY <1>5, <2>1
  <2>3. /\ ~Cyclic(new, x)
        /\ f[x] <= MaxRedirectDepth <=> ~Is(new, Last(new, x), "mapped")
        /\ ~Is(new, Last(new, x), "mapped") => Last(new, x) = e[x]
        /\ Last(new, x) \in Known /\ Last(new, x) \in Chain(new, x)
        /\ Last(new, x) = x \/ Last(new, x) \in S
    BY <1>3, <1>6, <2>2, WalkEnds
  <2> QED
    BY <2>3
<1>9. ASSUME NEW id \in Known
      PROVE  \/ Resolve(new, es, id) = "redirect-chain-too-long"
             \/ Last(new, id) = Last(new, Last(rs, id))
  <2>1. MaxRedirectDepth \in 0..MaxRedirectDepth
    BY <1>1
  <2>2. /\ Walk(rs, id)[MaxRedirectDepth] \in Known
        /\ e[Walk(rs, id)[MaxRedirectDepth]] = e[id]
        /\ f[Walk(rs, id)[MaxRedirectDepth]] <= f[id]
    BY <1>1, <1>2, <1>4, <1>5, <1>6, <2>1, WalkGrows
  <2>3. Last(rs, id) \in Known /\ e[Last(rs, id)] = e[id] /\ f[Last(rs, id)] <= f[id]
    BY <2>2 DEF Last
  <2>4. CASE Is(new, Last(new, id), "mapped")
    BY <1>7, <1>8, <2>4, TooLong
  <2>5. CASE ~Is(new, Last(new, id), "mapped")
    <3>1. f[id] <= MaxRedirectDepth /\ f[id] \in Nat /\ f[Last(rs, id)] \in Nat
      BY <1>8, <2>3, <2>5
    <3>2. f[Last(rs, id)] <= MaxRedirectDepth
      BY <1>1, <2>3, <3>1
    <3>3. Last(new, Last(rs, id)) = e[Last(rs, id)] /\ Last(new, id) = e[id]
      BY <1>8, <2>3, <2>5, <3>2
    <3> QED
      BY <2>3, <3>3
  <2> QED
    BY <2>4, <2>5
<1> QED
  BY <1>9 DEF Follows, Known, rs, new, es

\* A merge moves what an id means and never loses it: an id that meant an entity
\* means whatever resolve() says of that entity after the step, unless its chain
\* has outgrown the depth resolve() follows.
THEOREM RegistryMeaningFollows == Spec => MeaningFollows
<1>1. Inv /\ RedirectInv /\ [Next]_vars => [Follows]_vars
  BY NextFollows
<1>2. Spec => [][Follows]_vars
  BY <1>1, AlwaysRedirects, PTL DEF Spec
<1> QED
  BY <1>2 DEF MeaningFollows, Follows
=============================================================================
