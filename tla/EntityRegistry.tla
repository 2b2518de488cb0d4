--------------------------- MODULE EntityRegistry ---------------------------
(* The entity registry and the alias ledger over the identity log: ids are    *)
(* minted, renamed, merged, split, and carried forward by re-imports; every   *)
(* change is one group of records whose marker is written last.  An owner's   *)
(* decision commits an assertion in the assertion log first and its ledger    *)
(* row second.  An append may fail under the process, or the process die      *)
(* before, inside or after it.  A process that appends again behind an append *)
(* that failed with bytes in the file spoils the file, and is not followed.   *)
EXTENDS Naturals, FiniteSets, Sequences

CONSTANTS
  Ids,           \* what mintEntityId can return
  Legacy,        \* ids of the store that was migrated
  Marks,         \* a source trait with a value
  Observations,  \* what imports see: sets of marks, one of a trait
  Keys,          \* idempotency keys of owner decisions
  MaxRedirectDepth,
  MaxVersion,    \* bound on renames of one entity
  MaxGroups      \* bound on groups in the log

ASSUME RegistryAssumption ==
  /\ Ids \cap Legacy = {}
  /\ Observations \subseteq SUBSET Marks
  /\ \A o \in Observations : IsFiniteSet(o)
  /\ MaxRedirectDepth \in Nat /\ MaxVersion \in Nat /\ MaxGroups \in Nat

VARIABLES
  log,           \* identity segments: the groups closed by their marker
  tail,          \* there are bytes behind the last marker
  headless,      \* the newest segment is empty or has half a header
  resolutions,   \* resolution assertions in the assertion log
  up,            \* the process has the registry open
  damage,        \* what became of the appends that failed under a process
  entities,      \* EntityRegistry.entities
  rows,          \* EntityRegistry.rows, rowsByOldId
  observations,  \* EntityRegistry.observations
  traitIndex,    \* EntityRegistry.traitIndex
  nextRowSeq,
  returned       \* history: ids a caller was given

memory == <<entities, rows, observations, traitIndex, nextRowSeq>>
disk == <<log, tail, headless>>
vars == <<log, tail, headless, resolutions, up, damage, entities, rows, observations,
          traitIndex, nextRowSeq, returned>>
-----------------------------------------------------------------------------
Entity == [id : Ids, version : Nat]
Seen == [id : Ids, observation : Observations]

Dispositions == {"mapped", "ambiguous-split", "mapped-assertion", "not-carried"}
Mechanical == "mechanical"
Row == [seq : Nat, old : Ids \cup Legacy, disposition : Dispositions,
        to : SUBSET Ids, assertion : Keys \cup {Mechanical}]
Group == [entities : SUBSET Entity, rows : SUBSET Row, seen : SUBSET Seen]

\* One assertion for a key: who it is about and which entities it names.
Resolution == [key : Keys, subject : Ids, names : SUBSET Ids]

IDENTITY_MATCH_THRESHOLD == 2
-----------------------------------------------------------------------------
(* scanIdentityLog: later entities and observations win *)

\* Mutant: the first version of an entity wins.
ScanEntitiesFirst(l) ==
  {e \in UNION {l[i].entities : i \in 1..Len(l)} :
     \E i \in 1..Len(l) :
       /\ e \in l[i].entities
       /\ \A j \in 1..(i - 1) : \A f \in l[j].entities : f.id # e.id}

ScanEntities(l) ==
  {e \in UNION {l[i].entities : i \in 1..Len(l)} :
     \E i \in 1..Len(l) :
       /\ e \in l[i].entities
       /\ \A j \in (i + 1)..Len(l) : \A f \in l[j].entities : f.id # e.id}

ScanRows(l) == UNION {l[i].rows : i \in 1..Len(l)}

ScanSeen(l) ==
  {s \in UNION {l[i].seen : i \in 1..Len(l)} :
     \E i \in 1..Len(l) :
       /\ s \in l[i].seen
       /\ \A j \in (i + 1)..Len(l) : \A t \in l[j].seen : t.id # s.id}

\* indexObservation
Indexed(seen) == UNION {{<<m, s.id>> : m \in s.observation} : s \in seen}

\* One more than the highest row_seq.
NextRowSeq(rs, n) ==
  /\ \A r \in rs : r.seq < n
  /\ n = 1 \/ \E r \in rs : r.seq = n - 1
-----------------------------------------------------------------------------
(* resolve() *)

IdsOf(es) == {e.id : e \in es}
HasRow(rs, id) == \E r \in rs : r.old = id
Is(rs, id, disposition) == \E r \in rs : r.old = id /\ r.disposition = disposition
Successor(rs, id) ==
  CHOOSE next \in Ids : \E r \in rs : r.old = id /\ r.disposition = "mapped" /\ r.to = {next}

\* The ids visited, one hop at a time, staying where no mapped row leads on.
Walk(rs, id) ==
  LET hop[n \in 0..MaxRedirectDepth + 1] ==
        IF n = 0 THEN id
        ELSE IF Is(rs, hop[n - 1], "mapped") THEN Successor(rs, hop[n - 1]) ELSE hop[n - 1]
  IN hop

Chain(rs, id) == {Walk(rs, id)[n] : n \in 0..MaxRedirectDepth}
Last(rs, id) == Walk(rs, id)[MaxRedirectDepth]

Answers == {"entity", "ambiguous-split", "carried-as-assertion", "not-carried-forward"}

\* A hop that returns to an id already visited is a cycle.
Cyclic(rs, id) ==
  \E n \in 0..MaxRedirectDepth :
    /\ Is(rs, Walk(rs, id)[n], "mapped")
    /\ Walk(rs, id)[n + 1] \in {Walk(rs, id)[m] : m \in 0..n}

\* What a row that does not lead on says of the id; a mapped one was the last the
\* walk could follow.
Outcome(disposition) ==
  CASE disposition = "mapped" -> "redirect-chain-too-long"
    [] disposition = "ambiguous-split" -> "ambiguous-split"
    [] disposition = "mapped-assertion" -> "carried-as-assertion"
    [] disposition = "not-carried" -> "not-carried-forward"

Resolve(rs, es, id) ==
  LET at == Last(rs, id)
  IN IF Cyclic(rs, id) THEN "redirect-cycle"
     ELSE IF HasRow(rs, at)
          THEN Outcome((CHOOSE r \in rs : r.old = at).disposition)
     ELSE IF at \in IdsOf(es) THEN "entity"
     ELSE IF at = id THEN "unknown-id" ELSE "redirect-dangling"
-----------------------------------------------------------------------------
(* DurableEntityRegistry *)

Init ==
  /\ log = <<>> /\ tail = FALSE /\ headless = FALSE /\ resolutions = {}
  /\ up = FALSE /\ damage = "none"
  /\ entities = {} /\ rows = {} /\ observations = {} /\ traitIndex = {} /\ nextRowSeq = 1
  /\ returned = {}

\* The process and its file handle are gone.
Forget ==
  /\ up' = FALSE /\ damage' = IF damage = "spoiled" THEN "spoiled" ELSE "none"
  /\ entities' = {} /\ rows' = {} /\ observations' = {} /\ traitIndex' = {} /\ nextRowSeq' = 1

\* A newest segment without a header is refused.
MayOpen == ~up /\ ~headless /\ damage # "spoiled"

\* The tail is cut off and the rest is read back.
Open ==
  /\ MayOpen
  /\ up' = TRUE
  /\ tail' = FALSE
  /\ entities' = ScanEntities(log)
  /\ rows' = ScanRows(log)
  /\ observations' = ScanSeen(log)
  /\ traitIndex' = Indexed(ScanSeen(log))
  /\ nextRowSeq' \in {n \in 1..MaxGroups + 1 : NextRowSeq(ScanRows(log), n)}
  /\ UNCHANGED <<log, headless, damage, resolutions, returned>>

\* Death in open(), after the truncation and before the repair record, or while a
\* segment is created.
OpenDies ==
  /\ MayOpen /\ (tail \/ log = <<>>)
  /\ tail' = FALSE
  /\ headless' \in BOOLEAN
  /\ UNCHANGED <<log, resolutions, up, damage, memory, returned>>

\* An operator does what the refusal of an empty segment advises.
RemoveSegment ==
  /\ ~up /\ headless
  /\ headless' = FALSE
  /\ UNCHANGED <<log, tail, resolutions, up, damage, memory, returned>>

\* close(), or death between two calls.
Stop ==
  /\ up
  /\ Forget
  /\ UNCHANGED <<disk, resolutions, returned>>

\* Mutant: the traits an entity no longer has stay indexed.
RememberStale(g) ==
  /\ entities' = {e \in entities : e.id \notin IdsOf(g.entities)} \cup g.entities
  /\ rows' = rows \cup g.rows
  /\ observations' = {s \in observations : s.id \notin IdsOf(g.seen)} \cup g.seen
  /\ traitIndex' = traitIndex \cup Indexed(g.seen)
  /\ nextRowSeq' = IF g.rows = {} THEN nextRowSeq ELSE nextRowSeq + 1

\* remember, rows.push, indexObservation.
Remember(g) ==
  /\ entities' = {e \in entities : e.id \notin IdsOf(g.entities)} \cup g.entities
  /\ rows' = rows \cup g.rows
  /\ observations' = {s \in observations : s.id \notin IdsOf(g.seen)} \cup g.seen
  /\ traitIndex' = (traitIndex \ Indexed({s \in observations : s.id \in IdsOf(g.seen)}))
                     \cup Indexed(g.seen)
  /\ nextRowSeq' = IF g.rows = {} THEN nextRowSeq ELSE nextRowSeq + 1

\* appendIdentityGroup returned: the change is made in memory and answered.
Commits(g, ids) ==
  /\ log' = Append(log, g)
  /\ Remember(g)
  /\ returned' = returned \cup ids
  /\ UNCHANGED <<tail, headless, up, damage>>

\* What an append that does not return leaves: all of the group, part of it, a
\* segment it was about to begin, or nothing.
Leaves(g) ==
  \/ log' = Append(log, g) /\ UNCHANGED <<tail, headless>>
  \/ tail' = TRUE /\ UNCHANGED <<log, headless>>
  \/ headless' = TRUE /\ UNCHANGED <<log, tail>>
  \/ UNCHANGED disk

Dies(g) == Leaves(g) /\ Forget /\ UNCHANGED returned

\* The append throws and the process goes on with the memory it had.
Throws(g) ==
  /\ Leaves(g)
  /\ damage' = IF log' = log /\ tail' = tail THEN damage ELSE "failed"
  /\ UNCHANGED <<up, memory, returned>>

\* The next append lands behind what the failed one left in the file.
Spoils ==
  /\ damage = "failed" /\ damage' = "spoiled"
  /\ UNCHANGED <<disk, up, memory, returned>>

\* A roll that failed has closed the handle: every later append throws.
HandleClosed ==
  /\ headless
  /\ UNCHANGED <<disk, up, damage, memory, returned>>

appendIdentityGroup(g, ids) ==
  /\ up /\ Len(log) < MaxGroups
  /\ \/ damage = "none" /\ ~headless /\ (Commits(g, ids) \/ Dies(g) \/ Throws(g))
     \/ Spoils \/ HandleClosed
-----------------------------------------------------------------------------
(* Entities *)

\* mintEntityId draws an id that nothing refers to.
IsFresh(id) ==
  /\ id \notin returned
  /\ \A i \in 1..Len(log) : id \notin IdsOf(log[i].entities)
  /\ \A a \in resolutions : id \notin a.names
Minted(id) == [id |-> id, version |-> 0]

Register(id) ==
  /\ IsFresh(id)
  /\ appendIdentityGroup([entities |-> {Minted(id)}, rows |-> {}, seen |-> {}], {id})
  /\ UNCHANGED resolutions

\* An entity with a ledger row is refused.
Rename(e) ==
  /\ e \in entities /\ ~HasRow(rows, e.id) /\ e.version < MaxVersion
  /\ appendIdentityGroup(
       [entities |-> {[id |-> e.id, version |-> e.version + 1]}, rows |-> {}, seen |-> {}],
       {e.id})
  /\ UNCHANGED resolutions

\* Mutant: as many votes as the threshold are not enough.
CandidatesStrict(o) ==
  {id \in IdsOf(observations) :
     Cardinality({m \in o : <<m, id>> \in traitIndex}) > IDENTITY_MATCH_THRESHOLD}

Votes(o, id) == {m \in o : <<m, id>> \in traitIndex}
Candidates(o) ==
  {id \in IdsOf(observations) : Cardinality(Votes(o, id)) >= IDENTITY_MATCH_THRESHOLD}

\* An observation that matches one entity re-anchors it, one that matches none
\* mints; a thin or an ambiguous one is refused.
ResolveOrMint(o, id) ==
  /\ Cardinality(o) >= IDENTITY_MATCH_THRESHOLD
  /\ LET seen == {[id |-> id, observation |-> o]}
     IN \/ /\ Candidates(o) = {id}
           /\ appendIdentityGroup([entities |-> {}, rows |-> {}, seen |-> seen], {id})
        \/ /\ Candidates(o) = {} /\ IsFresh(id)
           /\ appendIdentityGroup([entities |-> {Minted(id)}, rows |-> {}, seen |-> seen], {id})
  /\ UNCHANGED resolutions
-----------------------------------------------------------------------------
(* The alias ledger *)

LedgerRow(old, disposition, to, assertion) ==
  [seq |-> nextRowSeq, old |-> old, disposition |-> disposition, to |-> to,
   assertion |-> assertion]
appendRow(row, created, ids) ==
  appendIdentityGroup([entities |-> created, rows |-> {row}, seen |-> {}], ids)

\* Mutant: the target is not resolved first.
MayMergeAnywhere(from, into) == from # into /\ ~HasRow(rows, from)

\* Mutant: an id that was redirected is redirected again.
MayMergeAgain(from, into) ==
  /\ from # into
  /\ Resolve(rows, entities, into) = "entity"
  /\ from \notin Chain(rows, into)

MayMerge(from, into) ==
  /\ from # into /\ ~HasRow(rows, from)
  /\ Resolve(rows, entities, into) = "entity"
  /\ from \notin Chain(rows, into)

\* AssertionLog.commit: a key is answered again for the same payload only.
Records(a) ==
  \/ a \in resolutions /\ UNCHANGED resolutions
  \/ /\ \A b \in resolutions : b.key # a.key
     /\ resolutions' = resolutions \cup {a}

MechanicalMerge(from, into) ==
  /\ up /\ MayMerge(from, into)
  /\ appendRow(LedgerRow(from, "mapped", {into}, Mechanical), {}, {})
  /\ UNCHANGED resolutions

\* A decision has to be about an entity, which an id without a row is or is not;
\* the evidence names what the target means now.
OwnerMerge(from, into, key) ==
  /\ up /\ MayMerge(from, into)
  /\ from \in IdsOf(entities)
  /\ \E target \in IdsOf(entities) :
       /\ target = Last(rows, into)
       /\ Records([key |-> key, subject |-> from, names |-> {target}])
       /\ appendRow(LedgerRow(from, "mapped", {into}, key), {}, {target})

MechanicalSplit(from, into) ==
  /\ up /\ ~HasRow(rows, from)
  /\ \A id \in into : IsFresh(id)
  /\ appendRow(LedgerRow(from, "ambiguous-split", into, Mechanical),
               {Minted(id) : id \in into}, into)
  /\ UNCHANGED resolutions

\* Mutant: the row goes without waiting for the assertion.
OwnerSplitUnrecorded(from, into, key) ==
  /\ up /\ ~HasRow(rows, from)
  /\ \A id \in into : IsFresh(id)
  /\ from \in IdsOf(entities)
  /\ appendRow(LedgerRow(from, "ambiguous-split", into, key),
               {Minted(id) : id \in into}, into)
  /\ UNCHANGED resolutions

OwnerSplit(from, into, key) ==
  /\ up /\ ~HasRow(rows, from)
  /\ \A id \in into : IsFresh(id)
  /\ from \in IdsOf(entities)
  /\ Records([key |-> key, subject |-> from, names |-> into])
  /\ appendRow(LedgerRow(from, "ambiguous-split", into, key),
               {Minted(id) : id \in into}, into)

\* Mutant: an id that has a row gets another.
RecordMigrationAgain(old, disposition) ==
  /\ up
  /\ appendRow(LedgerRow(old, disposition, {}, Mechanical), {}, {})
  /\ UNCHANGED resolutions

\* recordMigrationDisposition, recordMigrationAssertionMapping.
RecordMigration(old, disposition) ==
  /\ up /\ ~HasRow(rows, old)
  /\ appendRow(LedgerRow(old, disposition, {}, Mechanical), {}, {})
  /\ UNCHANGED resolutions

RecordAmbiguousSplit(old, candidates) ==
  /\ up /\ ~HasRow(rows, old)
  /\ Cardinality(candidates) >= 2 /\ candidates \subseteq IdsOf(entities)
  /\ appendRow(LedgerRow(old, "ambiguous-split", candidates, Mechanical), {}, {})
  /\ UNCHANGED resolutions
-----------------------------------------------------------------------------
Pairs == {{i, j} : i \in Ids, j \in Ids} \ {{i} : i \in Ids}

Decisions ==
  \E from \in IdsOf(entities) \cup Legacy :
    \/ \E into \in IdsOf(entities) :
         MechanicalMerge(from, into) \/ \E key \in Keys : OwnerMerge(from, into, key)
    \/ \E into \in Pairs :
         MechanicalSplit(from, into) \/ \E key \in Keys : OwnerSplit(from, into, key)

Migration ==
  \E old \in Legacy :
    \/ \E disposition \in {"mapped-assertion", "not-carried"} : RecordMigration(old, disposition)
    \/ \E candidates \in Pairs : RecordAmbiguousSplit(old, candidates)

Imports == \E o \in Observations, id \in Ids : ResolveOrMint(o, id)

Next ==
  \/ Open \/ OpenDies \/ RemoveSegment \/ Stop
  \/ \E id \in Ids : Register(id)
  \/ \E e \in entities : Rename(e)
  \/ Imports \/ Decisions \/ Migration

Spec == Init /\ [][Next]_vars
-----------------------------------------------------------------------------
(* Correctness *)

TypeOK ==
  /\ log \in Seq(Group) /\ tail \in BOOLEAN /\ headless \in BOOLEAN
  /\ resolutions \subseteq Resolution
  /\ up \in BOOLEAN /\ damage \in {"none", "failed", "spoiled"}
  /\ entities \subseteq Entity /\ rows \subseteq Row /\ observations \subseteq Seen
  /\ traitIndex \subseteq Marks \X Ids
  /\ nextRowSeq \in Nat
  /\ returned \subseteq Ids

\* "an id Atlas has ever returned resolves forever", to the depth resolve() follows:
\* from disk alone, every id a caller was given, and every id a row speaks for, has an
\* entity or one of the named outcomes for an answer, or a chain of redirects longer
\* than that depth; never a cycle, a redirect to nothing, or an unknown id.
ResolvesOrTooLong ==
  \A id \in returned \cup {r.old : r \in ScanRows(log)} :
    Resolve(ScanRows(log), ScanEntities(log), id) \in Answers \cup {"redirect-chain-too-long"}

\* A redirect moves what an id means and never loses it: an id that meant an entity
\* means whatever that entity means after the step, unless its chain has become
\* longer than resolve() follows.
MeaningFollows ==
  [][\A id \in Ids \cup Legacy :
       Resolve(ScanRows(log), ScanEntities(log), id) = "entity" =>
         \/ Resolve(ScanRows(log'), ScanEntities(log'), id) = "redirect-chain-too-long"
         \/ Last(ScanRows(log'), id) = Last(ScanRows(log'), Last(ScanRows(log), id))]_vars

\* "Everything a reload has to restore for a restart to be invisible": the process
\* has in memory what a restart would read, until an append fails under it and
\* leaves bytes in the file.
RestartIsInvisible ==
  up /\ damage = "none" =>
        /\ ~tail
        /\ entities = ScanEntities(log) /\ rows = ScanRows(log)
        /\ observations = ScanSeen(log) /\ traitIndex = Indexed(ScanSeen(log))
        /\ NextRowSeq(ScanRows(log), nextRowSeq)

\* One row for an id, one id for a row number, through deaths and restarts.
OneSuccessor ==
  \A r, s \in ScanRows(log) : r.old = s.old \/ r.seq = s.seq => r = s

\* A row an owner decided has its evidence, and no other row has the same.
DecisionsAttributed ==
  \A r \in ScanRows(log) :
    r.assertion # Mechanical =>
      /\ \E a \in resolutions :
           /\ a.key = r.assertion /\ a.subject = r.old
           /\ r.disposition = "ambiguous-split" => a.names = r.to
      /\ \A s \in ScanRows(log) : s.assertion = r.assertion => s = r

\* No two entities were last seen with two marks in common: re-imports do not mint
\* a second entity for what one was last seen as.
NoTwins ==
  \A s, t \in ScanSeen(log) :
    s.id # t.id => Cardinality(s.observation \cap t.observation) < IDENTITY_MATCH_THRESHOLD

\* "a wrong match produces a conflation": what an entity is seen as next has two
\* marks in common with what it was seen as before.
NeverConflates ==
  [][\A s \in ScanSeen(log), t \in ScanSeen(log') :
       s.id = t.id /\ s # t =>
         Cardinality(s.observation \cap t.observation) >= IDENTITY_MATCH_THRESHOLD]_vars
=============================================================================
