------------------------ MODULE MigrationApplyProofs ------------------------
(* Proofs about MigrationApply, for any plans, numbers of runs and faults.     *)
EXTENDS MigrationApply, FiniteSetTheorems, FunctionTheorems, TLAPS

\* What the files owe themselves.
StoreInv ==
  /\ AppliedOnce /\ ReferencesHold
  /\ \A i \in DOMAIN store : store[i].object # None

\* A run has a certified plan and a store that holds nothing else; its receipts are
\* those of the files, and what it looked up is durable.
RunInv ==
  phase # "down" =>
    /\ EvaluateClosureGate(plan) /\ ~Foreign(plan)
    /\ \A k \in Keys : known[k] = None => ~InStore(k)
    /\ \A k \in Keys : known[k] # None => HasObject(k, known[k])
    /\ \A k \in Keys : objects[k] # None => HasObject(k, objects[k])
    /\ \A k \in Keys : slots[k] # None => HasObject(k, slots[k])
    /\ \A k \in done : objects[k] # None /\ (Kind[k] = "entity" => slots[k] # None)
    /\ \A k \in committed : InStore(k)
    /\ phase = "noting" => committed = {}

\* Every outcome a run has passed has its row or is a conflict.
AliasInv ==
  phase # "down" =>
    /\ rowsDone # {} => plan.records \subseteq done
    /\ rowsDone \subseteq DOMAIN plan.aliases
    /\ \A l \in rowsDone : l \in conflicts \/ [old |-> l, to |-> Planned(l)] \in rows

\* The events are those of earlier runs, and the note of the running one.
AuditInv ==
  /\ CommittedIsComplete /\ ReportedOnce
  /\ \A e \in audit : e.run <= run
  /\ phase # "down" => \A e \in audit :
       \/ e.run < run /\ e.committed \cap committed = {}
       \/ e.run = run /\ phase = "running" /\ e.outcome = "torn-tail" /\ e.committed = {}

MigrationInv == TypeOK /\ StoreInv /\ RunInv /\ AliasInv /\ AuditInv /\ AlwaysReconciles

USE DEF None
-----------------------------------------------------------------------------
(* Facts about the plan and the order of records *)

LEMMA PlanFacts ==
  ASSUME NEW p \in Plans
  PROVE  /\ p.records \subseteq Keys
         /\ DOMAIN p.aliases \subseteq Legacy
         /\ \A l \in DOMAIN p.aliases : p.aliases[l] \subseteq Keys
BY PlanAssumption

LEMMA WaveFacts ==
  ASSUME NEW k \in Keys
  PROVE  /\ Wave(k) \in 0..3 /\ k \in Nat
         /\ \A j \in Refs[k] : j \in Keys /\ Wave(j) < Wave(k)
         /\ Kind[k] = "relationship" => \A j \in Refs[k] : Kind[j] = "entity"
<1>1. k \in Nat /\ Kind[k] \in Kinds /\ \A j \in Refs[k] : j \in Keys /\ Kind[j] \in Kinds
  BY PlanAssumption
<1>2. Wave(k) \in 0..3
  BY <1>1 DEF Wave, Kinds
<1>3. ASSUME NEW j \in Refs[k]
      PROVE  j \in Keys /\ Wave(j) < Wave(k) /\ (Kind[k] = "relationship" => Kind[j] = "entity")
  <2>1. \/ Kind[k] = "relationship" /\ Kind[j] = "entity"
        \/ Kind[k] = "retraction" /\ Kind[j] \in {"entity", "relationship", "provisional-block"}
    BY PlanAssumption
  <2> QED BY <1>1, <2>1 DEF Wave
<1> QED BY <1>1, <1>2, <1>3

\* The target of what is due has had its turn.
LEMMA TargetsDone ==
  ASSUME NEW k \in Keys, Due(k), NEW j \in Refs[k], j \in plan.records
  PROVE  j \in done
<1>1. j \in Keys /\ Wave(j) < Wave(k) /\ Wave(j) \in 0..3 /\ Wave(k) \in 0..3
  BY WaveFacts
<1>2. j # k
  BY <1>1
<1>3. ~Before(k, j)
  BY <1>1 DEF Before
<1> QED BY <1>2, <1>3 DEF Due

LEMMA DueResolves ==
  ASSUME TypeOK, RunInv, NEW k \in Keys, Due(k)
  PROVE  Resolved(k)
<1>1. SUFFICES ASSUME NEW j \in Refs[k] PROVE Lookup(k, j) # None
  BY DEF Resolved
<1>2. phase # "down" /\ k \in plan.records
  BY DEF Due
<1>3. j \in plan.records
  BY <1>2 DEF RunInv, EvaluateClosureGate
<1>4. j \in done
  BY <1>3, TargetsDone
<1>5. objects[j] # None /\ (Kind[j] = "entity" => slots[j] # None)
  BY <1>2, <1>4 DEF RunInv
<1> QED BY <1>5, WaveFacts DEF Lookup

LEMMA IdFacts ==
  ASSUME TypeOK, NEW k \in Keys
  PROVE  ObjectId(k) \in Int /\ ObjectId(k) # None
<1>1. k \in Nat \ {0} /\ Len(store) \in Nat
  BY PlanAssumption DEF TypeOK
<1> QED BY <1>1 DEF ObjectId
-----------------------------------------------------------------------------
(* What an append does to the files *)

\* Nothing durable goes away.
Grows ==
  /\ \A k : InStore(k) => InStore(k)'
  /\ \A k, id : HasObject(k, id) => HasObject(k, id)'
  /\ rows \subseteq rows'

LEMMA StaysGrows ==
  ASSUME UNCHANGED <<store, rows>>
  PROVE  Grows
BY DEF Grows, InStore, HasObject

LEMMA AppendGrows ==
  ASSUME TypeOK, NEW rec \in Record, store' = Append(store, rec), rows' = rows
  PROVE  /\ Grows
         /\ InStore(rec.key)' /\ HasObject(rec.key, rec.object)'
         /\ \A k : InStore(k)' => InStore(k) \/ k = rec.key
<1>1. store \in Seq(Record)
  BY DEF TypeOK
<1>2. /\ DOMAIN store = 1..Len(store) /\ DOMAIN store' = 1..(Len(store) + 1)
      /\ Len(store) \in Nat
      /\ store'[Len(store) + 1] = rec /\ \A i \in 1..Len(store) : store'[i] = store[i]
  BY <1>1
<1>3. Len(store) + 1 \in DOMAIN store' /\ \A i \in DOMAIN store : i \in DOMAIN store'
  BY <1>2
<1>4. \A i \in DOMAIN store' : i \in DOMAIN store \/ i = Len(store) + 1
  BY <1>2
<1> QED BY <1>2, <1>3, <1>4 DEF Grows, InStore, HasObject

LEMMA GrowsComplete ==
  ASSUME Grows, NEW p, Complete(p)
  PROVE  Complete(p)'
<1>1. \A k \in p.records : InStore(k)'
  BY DEF Grows, Complete
<1>2. ASSUME NEW l \in DOMAIN p.aliases
      PROVE  \E r \in rows' :
               /\ r.old = l
               /\ \A k \in p.aliases[l] : \E id \in r.to : HasObject(k, id)'
               /\ \A id \in r.to : \E k \in p.aliases[l] : HasObject(k, id)'
  <2>1. PICK r \in rows : /\ r.old = l
                          /\ \A k \in p.aliases[l] : \E id \in r.to : HasObject(k, id)
                          /\ \A id \in r.to : \E k \in p.aliases[l] : HasObject(k, id)
    BY DEF Complete
  <2>2. r \in rows'
    BY DEF Grows
  <2>3. \A k \in p.aliases[l] : \E id \in r.to : HasObject(k, id)'
    BY <2>1 DEF Grows
  <2>4. \A id \in r.to : \E k \in p.aliases[l] : HasObject(k, id)'
    BY <2>1 DEF Grows
  <2> QED BY <2>1, <2>2, <2>3, <2>4
<1> QED BY <1>1, <1>2 DEF Complete

LEMMA PersistFacts ==
  ASSUME TypeOK, StoreInv, RunInv, NEW k \in Keys, Due(k), known[k] = None, Resolved(k),
         Persist(k), rows' = rows, NEW id, id = ObjectId(k)
  PROVE  /\ store' \in Seq(Record) /\ StoreInv' /\ Grows
         /\ InStore(k)' /\ HasObject(k, id)'
         /\ \A j : InStore(j)' => InStore(j) \/ j = k
         /\ \A i \in DOMAIN store' : (i \in DOMAIN store /\ store'[i] = store[i]) \/ store'[i].key = k
<1> DEFINE refs == {[record |-> j, id |-> Lookup(k, j)] : j \in Refs[k]}
           rec == [key |-> k, object |-> id, refs |-> refs]
<1>1. phase # "down" /\ ~InStore(k)
  BY DEF Due, RunInv
<1>2. id \in Int /\ id # None
  BY IdFacts
<1>3. \A j \in Refs[k] : j \in Keys /\ Lookup(k, j) \in Int /\ HasObject(j, Lookup(k, j))
  <2>1. \A j \in Refs[k] : j \in Keys /\ Lookup(k, j) # None
    BY WaveFacts DEF Resolved
  <2>2. \A j \in Keys : objects[j] \in Int /\ slots[j] \in Int
    BY DEF TypeOK
  <2> QED BY <1>1, <2>1, <2>2 DEF Lookup, RunInv
<1>4. refs \subseteq Reference
  BY <1>3 DEF Reference
<1>5. rec.key = k /\ rec.object = id /\ rec.refs = refs /\ rec \in Record
  BY <1>2, <1>4 DEF Record
<1>6. store' = Append(store, rec)
  BY DEF Persist
<1>7. \A ref \in refs : HasObject(ref.record, ref.id)
  BY <1>3
<1> HIDE DEF refs, rec
<1>8. store \in Seq(Record)
  BY DEF TypeOK
<1>9. /\ DOMAIN store = 1..Len(store) /\ DOMAIN store' = 1..(Len(store) + 1)
      /\ Len(store) \in Nat
      /\ store'[Len(store) + 1] = rec /\ \A i \in 1..Len(store) : store'[i] = store[i]
      /\ store' \in Seq(Record)
  BY <1>5, <1>6, <1>8
<1>10. \A i \in DOMAIN store' : \/ i \in DOMAIN store /\ store'[i] = store[i]
                                \/ i = Len(store) + 1 /\ store'[i] = rec
  BY <1>9
<1>11. Grows /\ InStore(k)' /\ HasObject(k, id)'
       /\ \A j : InStore(j)' => InStore(j) \/ j = k
  BY <1>5, <1>6, AppendGrows
<1>12. \A i, j \in DOMAIN store' : store'[i].key = store'[j].key => i = j
  <2>1. \A i \in DOMAIN store : store[i].key # k
    BY <1>1 DEF InStore
  <2> QED BY <1>5, <1>10, <2>1 DEF StoreInv, AppliedOnce
<1>13. AppliedOnce'
  BY <1>12 DEF StoreInv, AppliedOnce
<1>14. \A i \in DOMAIN store' : store'[i].object # None
  BY <1>2, <1>5, <1>10 DEF StoreInv
<1>15. ReferencesHold'
  <2>1. SUFFICES ASSUME NEW i \in DOMAIN store', NEW ref \in store'[i].refs
                 PROVE  \E h \in 1..(i - 1) :
                          store'[h].key = ref.record /\ store'[h].object = ref.id
    BY DEF ReferencesHold
  <2>2. CASE i \in DOMAIN store /\ store'[i] = store[i]
    <3>1. PICK h \in 1..(i - 1) : store[h].key = ref.record /\ store[h].object = ref.id
      BY <2>2 DEF StoreInv, ReferencesHold
    <3>2. h \in 1..Len(store)
      BY <1>9, <2>2
    <3> QED BY <1>9, <3>1, <3>2
  <2>3. CASE i = Len(store) + 1 /\ store'[i] = rec
    <3>1. HasObject(ref.record, ref.id)
      BY <1>5, <1>7, <2>3
    <3>2. PICK h \in DOMAIN store : store[h].key = ref.record /\ store[h].object = ref.id
      BY <3>1 DEF HasObject
    <3>3. h \in 1..(i - 1) /\ store'[h] = store[h]
      BY <1>9, <2>3
    <3> QED BY <3>2, <3>3
  <2> QED BY <1>10, <2>2, <2>3
<1> QED BY <1>5, <1>9, <1>10, <1>11, <1>13, <1>14, <1>15 DEF StoreInv
-----------------------------------------------------------------------------
(* The audit file *)

\* A run goes on: what it has committed since was in no earlier event.
LEMMA AuditGoesOn ==
  ASSUME AuditInv, Grows, audit' = audit, run' = run, phase # "down", phase' = phase,
         \A k \in committed' : k \in committed \/ ~InStore(k)
  PROVE  AuditInv'
<1>1. CommittedIsComplete'
  <2>1. SUFFICES ASSUME NEW e \in audit, e.outcome = "committed" PROVE Complete(e.plan)'
    BY DEF CommittedIsComplete
  <2>2. PICK p : p = e.plan
    OBVIOUS
  <2>3. Complete(p)
    BY <2>1, <2>2 DEF AuditInv, CommittedIsComplete
  <2> QED BY <2>2, <2>3, GrowsComplete
<1>2. ReportedOnce'
  BY DEF AuditInv, ReportedOnce, Grows
<1>3. ASSUME NEW e \in audit, e.run < run
      PROVE  e.committed \cap committed' = {}
  <2>1. \A k \in e.committed : InStore(k) /\ k \notin committed
    BY <1>3 DEF AuditInv, ReportedOnce
  <2> QED BY <2>1
<1> QED BY <1>1, <1>2, <1>3 DEF AuditInv

\* A run ends with at most one event, which says committed only of a complete plan.
LEMMA AuditEnds ==
  ASSUME TypeOK, RunInv, AuditInv, Grows, phase # "down", phase' = "down", run' = run,
         NEW o, NEW p, p = plan, o = "committed" => Complete(p)',
         audit' \subseteq audit \cup {EventOf(o)}
  PROVE  AuditInv'
<1>1. PICK new : new = EventOf(o)
  OBVIOUS
<1>2. new.run = run /\ new.plan = p /\ new.outcome = o /\ new.committed = committed
  BY <1>1 DEF EventOf
<1>3. audit' \subseteq audit \cup {new}
  BY <1>1
<1>4. run \in Nat /\ \A e \in audit : e.run \in Nat
  BY DEF TypeOK, Event
<1>5. CommittedIsComplete'
  <2>1. SUFFICES ASSUME NEW e \in audit', e.outcome = "committed" PROVE Complete(e.plan)'
    BY DEF CommittedIsComplete
  <2>2. CASE e \in audit
    <3>1. PICK q : q = e.plan
      OBVIOUS
    <3>2. Complete(q)
      BY <2>1, <2>2, <3>1 DEF AuditInv, CommittedIsComplete
    <3> QED BY <3>1, <3>2, GrowsComplete
  <2>3. CASE e = new
    BY <1>2, <2>1, <2>3
  <2> QED BY <1>3, <2>2, <2>3
<1>6. \A e \in audit : (\A k \in e.committed : InStore(k)')
  BY DEF AuditInv, ReportedOnce, Grows
<1>7. \A k \in new.committed : InStore(k)'
  BY <1>2 DEF RunInv, Grows
<1>8. \A e \in audit : e.run # run => e.committed \cap committed = {}
  BY DEF AuditInv
<1>9. \A e, f \in audit' : e.run # f.run => e.committed \cap f.committed = {}
  <2>1. SUFFICES ASSUME NEW e \in audit', NEW f \in audit', e.run # f.run
                 PROVE  e.committed \cap f.committed = {}
    OBVIOUS
  <2>2. CASE e \in audit /\ f \in audit
    BY <2>1, <2>2 DEF AuditInv, ReportedOnce
  <2>3. CASE e = new /\ f \in audit
    BY <1>2, <1>8, <2>1, <2>3
  <2>4. CASE e \in audit /\ f = new
    BY <1>2, <1>8, <2>1, <2>4
  <2> QED BY <1>3, <2>1, <2>2, <2>3, <2>4
<1>10. ReportedOnce'
  BY <1>3, <1>6, <1>7, <1>9 DEF ReportedOnce
<1>11. \A e \in audit' : e.run <= run'
  BY <1>2, <1>3, <1>4 DEF AuditInv
<1> QED BY <1>5, <1>10, <1>11 DEF AuditInv
-----------------------------------------------------------------------------
(* The end of a run without conflicts *)

LEMMA FinishedComplete ==
  ASSUME TypeOK, RunInv, AliasInv, Finished, conflicts = {}
  PROVE  Complete(plan)
<1>1. phase # "down" /\ plan.records \subseteq done /\ DOMAIN plan.aliases \subseteq rowsDone
  BY DEF Finished
<1>2. plan \in Plans
  BY DEF TypeOK
<1>3. \A k \in plan.records : k \in Keys /\ objects[k] # None /\ HasObject(k, objects[k])
  BY <1>1, <1>2, PlanFacts DEF RunInv
<1>4. \A k \in plan.records : InStore(k)
  BY <1>3 DEF HasObject, InStore
<1>5. ASSUME NEW l \in DOMAIN plan.aliases
      PROVE  \E r \in rows :
               /\ r.old = l
               /\ \A k \in plan.aliases[l] : \E id \in r.to : HasObject(k, id)
               /\ \A id \in r.to : \E k \in plan.aliases[l] : HasObject(k, id)
  <2>1. plan.aliases[l] \subseteq plan.records
    BY <1>1 DEF RunInv, EvaluateClosureGate
  <2>2. Planned(l) = {objects[k] : k \in plan.aliases[l]}
    BY <1>3, <2>1 DEF Planned
  <2>3. PICK r : r = [old |-> l, to |-> Planned(l)]
    OBVIOUS
  <2>4. r \in rows /\ r.old = l /\ r.to = {objects[k] : k \in plan.aliases[l]}
    BY <1>1, <2>2, <2>3 DEF AliasInv
  <2> QED BY <1>3, <2>1, <2>4
<1> QED BY <1>4, <1>5 DEF Complete

LEMMA FinishedReconciles ==
  ASSUME TypeOK, StoreInv, RunInv, AliasInv, Finished, conflicts = {}
  PROVE  Reconciled
<1>1. plan \in Plans /\ phase # "down"
  BY DEF TypeOK, Finished
<1>2. Complete(plan)
  BY FinishedComplete
<1>3. \A i \in DOMAIN store : store[i].key \in plan.records
  BY <1>1 DEF RunInv, Foreign
<1>4. ASSUME NEW c
      PROVE  Census(c) = Expected(c)
  <2> DEFINE S == {i \in DOMAIN store : Class(store[i].key) = c}
             T == {k \in plan.records : Class(k) = c}
             f == [i \in S |-> store[i].key]
  <2>1. IsFiniteSet(T)
    <3>1. T \subseteq Keys
      BY <1>1, PlanFacts
    <3> QED BY <3>1, PlanAssumption, FS_Subset
  <2>2. f \in [S -> T]
    BY <1>3
  <2>3. \A i, j \in S : f[i] = f[j] => i = j
    BY DEF StoreInv, AppliedOnce
  <2>4. f \in Injection(S, T)
    BY <2>2, <2>3 DEF Injection, IsInjective
  <2>5. \A k \in T : \E i \in S : f[i] = k
    <3>1. \A k \in T : \E i \in DOMAIN store : store[i].key = k
      BY <1>2 DEF Complete, InStore
    <3> QED BY <3>1
  <2>6. f \in Surjection(S, T)
    BY <2>2, <2>5 DEF Surjection
  <2> HIDE DEF S, T, f
  <2>7. Cardinality(S) = Cardinality(T)
    BY <2>1, <2>4, <2>6, FS_Injection
  <2> QED BY <2>7 DEF Census, Expected, S, T
<1>5. Cardinality(rows) = Cardinality(DOMAIN plan.aliases)
  <2> DEFINE T == DOMAIN plan.aliases
             f == [r \in rows |-> r.old]
  <2>1. IsFiniteSet(T)
    BY <1>1, PlanFacts, PlanAssumption, FS_Subset
  <2>2. f \in [rows -> T]
    BY <1>1 DEF RunInv, Foreign
  <2>3. \A r, s \in rows : f[r] = f[s] => r = s
    BY DEF StoreInv, AppliedOnce
  <2>4. f \in Injection(rows, T)
    BY <2>2, <2>3 DEF Injection, IsInjective
  <2>5. \A l \in T : \E r \in rows : f[r] = l
    BY <1>2 DEF Complete
  <2>6. f \in Surjection(rows, T)
    BY <2>2, <2>5 DEF Surjection
  <2> HIDE DEF T, f
  <2>7. Cardinality(rows) = Cardinality(T)
    BY <2>1, <2>4, <2>6, FS_Injection
  <2> QED BY <2>7 DEF T
<1> QED BY <1>4, <1>5 DEF Reconciled
-----------------------------------------------------------------------------
(* One lemma per kind of step *)

\* Any end of a run: it writes at most one event, and no false one.
LEMMA RunEnds ==
  ASSUME MigrationInv, phase # "down", phase' = "down", UNCHANGED <<plan, memory, run>>,
         Grows, StoreInv', store' \in Seq(Record), rows' \subseteq Row,
         torn' \in BOOLEAN, headless' \in BOOLEAN, auditTorn' \in BOOLEAN, faults' \in Nat,
         result' \in Results \ {"reconciliation-mismatch"},
         NEW o \in Outcomes, NEW p, p = plan, o = "committed" => Complete(p)',
         audit' \subseteq audit \cup {EventOf(o)}
  PROVE  MigrationInv'
<1>1. TypeOK /\ RunInv /\ AuditInv
  BY DEF MigrationInv
<1>2. EventOf(o) \in Event
  BY <1>1 DEF TypeOK, EventOf, Event
<1>3. audit' \subseteq Event
  BY <1>1, <1>2 DEF TypeOK
<1>4. TypeOK'
  BY <1>1, <1>3 DEF TypeOK, memory
<1>5. AuditInv'
  BY <1>1, AuditEnds
<1>6. RunInv' /\ AliasInv' /\ AlwaysReconciles'
  BY DEF RunInv, AliasInv, AlwaysReconciles
<1> QED BY <1>4, <1>5, <1>6 DEF MigrationInv

LEMMA OpenStep ==
  ASSUME MigrationInv, NEW p \in Plans, Open(p)
  PROVE  MigrationInv'
<1>1. TypeOK /\ StoreInv /\ AuditInv /\ AlwaysReconciles
  BY DEF MigrationInv
<1>2. UNCHANGED <<store, rows, audit>> /\ phase = "down" /\ phase' \in {"noting", "running"}
      /\ plan' = p /\ run' = run + 1 /\ done' = {} /\ rowsDone' = {} /\ committed' = {}
      /\ objects' = Unset /\ slots' = Unset
  BY DEF Open, MayOpen
<1>3. Grows
  BY <1>2, StaysGrows
<1>4. \A i \in DOMAIN store : store[i] \in Record /\ store[i].object \in Int /\ store[i].object # None
  <2>1. store \in Seq(Record)
    BY <1>1 DEF TypeOK
  <2>2. \A i \in DOMAIN store : store[i] \in Record
    BY <2>1
  <2>3. \A rec \in Record : rec.object \in Int
    BY DEF Record
  <2>4. \A i \in DOMAIN store : store[i].object # None
    BY <1>1 DEF StoreInv
  <2> QED BY <2>2, <2>3, <2>4
<1>5. ASSUME NEW k \in Keys
      PROVE  /\ known'[k] \in Int
             /\ known'[k] = None => ~InStore(k)
             /\ known'[k] # None => HasObject(k, known'[k])
  <2>1. known'[k] = Scan(k)
    BY DEF Open
  <2>2. CASE InStore(k)
    <3>1. PICK i : i = CHOOSE h \in DOMAIN store : store[h].key = k
      OBVIOUS
    <3>2. i \in DOMAIN store /\ store[i].key = k
      BY <2>2, <3>1 DEF InStore
    <3>3. known'[k] = store[i].object
      BY <2>1, <2>2, <3>1 DEF Scan, InStore
    <3> QED BY <1>4, <2>2, <3>2, <3>3 DEF HasObject
  <2>3. CASE ~InStore(k)
    BY <2>1, <2>3 DEF Scan, InStore
  <2> QED BY <2>2, <2>3
<1>6. TypeOK'
  <2>1. known' \in [Keys -> Int]
    <3>1. known' = [k \in Keys |-> Scan(k)]
      BY DEF Open
    <3> QED BY <1>5, <3>1
  <2>2. Unset \in [Keys -> Int]
    BY DEF Unset
  <2>3. conflicts' = {} /\ torn' = FALSE /\ UNCHANGED <<headless, auditTorn, faults, result>>
    BY DEF Open
  <2>4. /\ store' \in Seq(Record) /\ rows' \subseteq Row /\ audit' \subseteq Event
        /\ headless' \in BOOLEAN /\ auditTorn' \in BOOLEAN
        /\ faults' \in Nat /\ result' \in Results /\ run' \in Nat
    BY <1>1, <1>2, <2>3 DEF TypeOK
  <2> QED BY <1>2, <2>1, <2>2, <2>3, <2>4 DEF TypeOK
<1>7. StoreInv'
  BY <1>1, <1>2 DEF StoreInv, AppliedOnce, ReferencesHold
<1>8. RunInv'
  <2>1. EvaluateClosureGate(plan)' /\ ~Foreign(plan)'
    BY <1>2 DEF Open, MayOpen, EvaluateClosureGate, Foreign
  <2>2. \A k \in Keys : /\ known'[k] = None => ~InStore(k)'
                        /\ known'[k] # None => HasObject(k, known[k])'
    BY <1>2, <1>5 DEF InStore, HasObject
  <2>3. \A k \in Keys : objects'[k] = None /\ slots'[k] = None
    BY <1>2 DEF Unset
  <2> QED BY <1>2, <2>1, <2>2, <2>3 DEF RunInv
<1>9. AliasInv'
  BY <1>2 DEF AliasInv
<1>10. AuditInv'
  <2>1. CommittedIsComplete'
    <3>1. SUFFICES ASSUME NEW e \in audit, e.outcome = "committed" PROVE Complete(e.plan)'
      BY <1>2 DEF CommittedIsComplete
    <3>2. PICK q : q = e.plan
      OBVIOUS
    <3>3. Complete(q)
      BY <1>1, <3>1, <3>2 DEF AuditInv, CommittedIsComplete
    <3> QED BY <1>3, <3>2, <3>3, GrowsComplete
  <2>2. ReportedOnce'
    BY <1>1, <1>2 DEF AuditInv, ReportedOnce, InStore
  <2>3. run \in Nat /\ \A e \in audit : e.run \in Nat /\ e.run <= run
    BY <1>1 DEF TypeOK, Event, AuditInv
  <2>4. \A e \in audit : e.run < run' /\ e.run <= run'
    BY <1>2, <2>3
  <2> QED BY <1>2, <2>1, <2>2, <2>4 DEF AuditInv
<1>11. AlwaysReconciles'
  BY <1>1 DEF AlwaysReconciles, Open
<1> QED BY <1>6, <1>7, <1>8, <1>9, <1>10, <1>11 DEF MigrationInv

LEMMA NoteRepairStep ==
  ASSUME MigrationInv, NoteRepair
  PROVE  MigrationInv'
<1>1. TypeOK /\ StoreInv /\ RunInv /\ AliasInv /\ AuditInv /\ AlwaysReconciles
  BY DEF MigrationInv
<1>2. phase = "noting" /\ phase' = "running"
      /\ UNCHANGED <<store, torn, rows, headless, plan, known, objects, slots, done, rowsDone,
                     committed, conflicts, run, faults, result>>
  BY DEF NoteRepair, memory
<1>3. PICK new : new = EventOf("torn-tail")
  OBVIOUS
<1>4. new \in Event /\ new.run = run /\ new.outcome = "torn-tail" /\ new.committed = {}
  BY <1>1, <1>2, <1>3 DEF EventOf, Event, Outcomes, TypeOK, RunInv
<1>5. audit' \subseteq audit \cup {new} /\ auditTorn' = FALSE
  BY <1>3 DEF NoteRepair, AppendLine
<1>6. TypeOK'
  BY <1>1, <1>2, <1>4, <1>5 DEF TypeOK
<1>7. StoreInv' /\ AlwaysReconciles'
  BY <1>1, <1>2 DEF StoreInv, AppliedOnce, ReferencesHold, AlwaysReconciles
<1>8. RunInv'
  BY <1>1, <1>2 DEF RunInv, EvaluateClosureGate, Foreign, InStore, HasObject
<1>9. AliasInv'
  BY <1>1, <1>2 DEF AliasInv, Planned
<1>10. AuditInv'
  <2>1. \A e \in audit : e.run < run /\ e.run <= run /\ e.committed \cap committed = {}
    BY <1>1, <1>2 DEF AuditInv
  <2>2. CommittedIsComplete'
    <3>1. SUFFICES ASSUME NEW e \in audit', e.outcome = "committed" PROVE Complete(e.plan)'
      BY DEF CommittedIsComplete
    <3>2. PICK q : q = e.plan
      OBVIOUS
    <3>3. Complete(q)
      BY <1>1, <1>4, <1>5, <3>1, <3>2 DEF AuditInv, CommittedIsComplete
    <3>4. Grows
      BY <1>2, StaysGrows
    <3> QED BY <3>2, <3>3, <3>4, GrowsComplete
  <2>3. ReportedOnce'
    BY <1>1, <1>2, <1>4, <1>5 DEF AuditInv, ReportedOnce, InStore
  <2>4. run \in Nat
    BY <1>1 DEF TypeOK
  <2>5. \A e \in audit' : \/ e.run < run /\ e.run <= run /\ e.committed \cap committed = {}
                          \/ e.run = run /\ e.outcome = "torn-tail" /\ e.committed = {}
    BY <1>4, <1>5, <2>1
  <2>6. \A e \in audit' : e.run <= run
    BY <2>4, <2>5
  <2> QED BY <1>2, <2>2, <2>3, <2>5, <2>6 DEF AuditInv
<1> QED BY <1>6, <1>7, <1>8, <1>9, <1>10 DEF MigrationInv

\* A record has had its turn, replayed from its receipt or written.
LEMMA RecordStep ==
  ASSUME MigrationInv, NEW k \in Keys, Due(k), NEW id \in Int, id # None, Register(k, id),
         UNCHANGED <<torn, rows, headless, audit, auditTorn, phase, plan, rowsDone, conflicts, run,
                     faults, result>>,
         store' \in Seq(Record), StoreInv', Grows, HasObject(k, id)',
         \A i \in DOMAIN store' : (i \in DOMAIN store /\ store'[i] = store[i]) \/ store'[i].key = k,
         \/ known' = known /\ known[k] = id /\ committed' = committed
         \/ /\ known' = [known EXCEPT ![k] = id] /\ committed' = committed \cup {k}
            /\ ~InStore(k)
  PROVE  MigrationInv'
<1>1. TypeOK /\ StoreInv /\ RunInv /\ AliasInv /\ AuditInv /\ AlwaysReconciles
  BY DEF MigrationInv
<1>2. phase = "running" /\ k \in plan.records \ done
  BY DEF Due
<1>3. /\ objects' = [objects EXCEPT ![k] = id] /\ done' = done \cup {k}
      /\ slots' = IF Kind[k] = "entity" THEN [slots EXCEPT ![k] = id] ELSE slots
  BY DEF Register
<1>4. \A j \in Keys : objects'[j] = IF j = k THEN id ELSE objects[j]
  BY <1>1, <1>3 DEF TypeOK
<1>5. \A j \in Keys : slots'[j] = slots[j] \/ (j = k /\ slots'[j] = id)
  BY <1>1, <1>3 DEF TypeOK
<1>6. Kind[k] = "entity" => slots'[k] = id
  BY <1>1, <1>3 DEF TypeOK
<1>7. known'[k] = id /\ \A j \in Keys : j # k => known'[j] = known[j]
  BY <1>1 DEF TypeOK
<1>8. objects' \in [Keys -> Int] /\ slots' \in [Keys -> Int] /\ known' \in [Keys -> Int]
  BY <1>1, <1>3 DEF TypeOK
<1>9. committed' \subseteq committed \cup {k}
  OBVIOUS
<1>10. TypeOK'
  BY <1>1, <1>3, <1>8, <1>9 DEF TypeOK
<1>11. InStore(k)'
  BY DEF HasObject, InStore
<1>12. \A j : InStore(j)' => InStore(j) \/ j = k
  BY DEF InStore
<1>13. RunInv'
  <2>1. EvaluateClosureGate(plan)'
    BY <1>1, <1>2 DEF RunInv, EvaluateClosureGate
  <2>2. ~Foreign(plan)'
    BY <1>1, <1>2 DEF RunInv, Foreign
  <2>3. \A j \in Keys : known'[j] = None => ~InStore(j)'
    BY <1>1, <1>2, <1>7, <1>12 DEF RunInv
  <2>4. \A j \in Keys : known'[j] # None => HasObject(j, known[j])'
    <3>1. SUFFICES ASSUME NEW j \in Keys, known'[j] # None PROVE HasObject(j, known[j])'
      OBVIOUS
    <3>2. CASE j = k
      BY <1>7, <3>2 DEF HasObject
    <3>3. CASE j # k
      <4>1. known'[j] = known[j] /\ HasObject(j, known[j])
        BY <1>1, <1>2, <1>7, <3>1, <3>3 DEF RunInv
      <4>2. PICK x : x = known[j]
        OBVIOUS
      <4>3. HasObject(j, x)'
        BY <4>1, <4>2 DEF Grows
      <4> QED BY <4>1, <4>2, <4>3 DEF HasObject
    <3> QED BY <3>2, <3>3
  <2>5. \A j \in Keys : objects'[j] # None => HasObject(j, objects[j])'
    <3>1. SUFFICES ASSUME NEW j \in Keys, objects'[j] # None PROVE HasObject(j, objects[j])'
      OBVIOUS
    <3>2. CASE j = k
      BY <1>4, <3>2 DEF HasObject
    <3>3. CASE j # k
      <4>1. objects'[j] = objects[j] /\ HasObject(j, objects[j])
        BY <1>1, <1>2, <1>4, <3>1, <3>3 DEF RunInv
      <4>2. PICK x : x = objects[j]
        OBVIOUS
      <4>3. HasObject(j, x)'
        BY <4>1, <4>2 DEF Grows
      <4> QED BY <4>1, <4>2, <4>3 DEF HasObject
    <3> QED BY <3>2, <3>3
  <2>6. \A j \in Keys : slots'[j] # None => HasObject(j, slots[j])'
    <3>1. SUFFICES ASSUME NEW j \in Keys, slots'[j] # None PROVE HasObject(j, slots[j])'
      OBVIOUS
    <3>2. CASE j = k /\ slots'[j] = id
      BY <3>2 DEF HasObject
    <3>3. CASE slots'[j] = slots[j]
      <4>1. HasObject(j, slots[j])
        BY <1>1, <1>2, <3>1, <3>3 DEF RunInv
      <4>2. PICK x : x = slots[j]
        OBVIOUS
      <4>3. HasObject(j, x)'
        BY <4>1, <4>2 DEF Grows
      <4> QED BY <3>3, <4>2, <4>3 DEF HasObject
    <3> QED BY <1>5, <3>2, <3>3
  <2>7. \A j \in done' : objects'[j] # None /\ (Kind[j] = "entity" => slots'[j] # None)
    <3>1. SUFFICES ASSUME NEW j \in done'
                   PROVE  objects'[j] # None /\ (Kind[j] = "entity" => slots'[j] # None)
      OBVIOUS
    <3>2. j \in Keys
      BY <1>10 DEF TypeOK
    <3>3. CASE j = k
      BY <1>4, <1>6, <3>3
    <3>4. CASE j # k
      <4>1. objects[j] # None /\ (Kind[j] = "entity" => slots[j] # None)
        BY <1>1, <1>2, <1>3, <3>4 DEF RunInv
      <4> QED BY <1>4, <1>5, <3>2, <3>4, <4>1
    <3> QED BY <3>3, <3>4
  <2>8. \A j \in committed' : InStore(j)'
    BY <1>1, <1>2, <1>9, <1>11 DEF RunInv, Grows
  <2> QED BY <1>2, <2>1, <2>2, <2>3, <2>4, <2>5, <2>6, <2>7, <2>8 DEF RunInv
<1>14. AliasInv'
  <2>1. rowsDone = {}
    BY <1>1, <1>2 DEF AliasInv
  <2> QED BY <2>1 DEF AliasInv
<1>15. AuditInv'
  BY <1>1, <1>2, AuditGoesOn
<1> QED BY <1>1, <1>10, <1>14, <1>13, <1>15 DEF MigrationInv, AlwaysReconciles

LEMMA ReplayStep ==
  ASSUME MigrationInv, NEW k \in Keys, Replay(k)
  PROVE  MigrationInv'
<1>1. TypeOK /\ StoreInv /\ RunInv
  BY DEF MigrationInv
<1>2. Due(k) /\ known[k] # None /\ phase # "down"
  BY DEF Replay, Due
<1>3. PICK id : id = known[k]
  OBVIOUS
<1>4. Register(k, id) /\ UNCHANGED <<store, torn, rows, headless, audit, auditTorn, phase, plan,
                                      known, rowsDone, committed, conflicts, run, faults, result>>
  BY <1>3 DEF Replay, files
<1>5. id \in Int /\ id # None /\ HasObject(k, id)
  BY <1>1, <1>2, <1>3 DEF TypeOK, RunInv
<1>6. store' \in Seq(Record) /\ StoreInv' /\ Grows
  <2>1. store' \in Seq(Record)
    BY <1>1, <1>4 DEF TypeOK
  <2>2. StoreInv'
    BY <1>1, <1>4 DEF StoreInv, AppliedOnce, ReferencesHold
  <2> QED BY <1>4, <2>1, <2>2, StaysGrows
<1>7. HasObject(k, id)'
  BY <1>5, <1>6 DEF Grows
<1> QED BY <1>2, <1>3, <1>4, <1>5, <1>6, <1>7, RecordStep

LEMMA CommitStep ==
  ASSUME MigrationInv, NEW k \in Keys, Commit(k)
  PROVE  MigrationInv'
<1>1. TypeOK /\ StoreInv /\ RunInv
  BY DEF MigrationInv
<1>2. Due(k) /\ known[k] = None
  BY DEF Commit
<1>3. Resolved(k) /\ Committed(k)
  BY <1>1, <1>2, DueResolves DEF Commit
<1>4. PICK id : id = ObjectId(k)
  OBVIOUS
<1>5. id \in Int /\ id # None
  BY <1>1, <1>4, IdFacts
<1>6. /\ Persist(k) /\ Register(k, id) /\ known' = [known EXCEPT ![k] = id]
      /\ committed' = committed \cup {k}
      /\ UNCHANGED <<torn, rows, headless, audit, auditTorn, phase, plan, rowsDone, conflicts,
                     run, faults, result>>
  BY <1>3, <1>4 DEF Committed
<1>7. ~InStore(k)
  BY <1>1, <1>2 DEF RunInv, Due
<1>8. /\ store' \in Seq(Record) /\ StoreInv' /\ Grows /\ HasObject(k, id)'
      /\ \A i \in DOMAIN store' : (i \in DOMAIN store /\ store'[i] = store[i]) \/ store'[i].key = k
  BY <1>1, <1>2, <1>3, <1>4, <1>6, PersistFacts
<1> QED BY <1>2, <1>5, <1>6, <1>7, <1>8, RecordStep

LEMMA CommitFailsStep ==
  ASSUME MigrationInv, NEW k \in Keys, CommitFails(k)
  PROVE  MigrationInv'
<1>1. TypeOK /\ StoreInv /\ RunInv
  BY DEF MigrationInv
<1>2. /\ Due(k) /\ known[k] = None /\ Resolved(k) /\ Fault /\ Abort /\ rows' = rows
      /\ phase # "down" /\ phase' = "down" /\ UNCHANGED <<plan, memory, run>>
      /\ result' \in Results \ {"reconciliation-mismatch"}
  BY DEF CommitFails, Abort, Due, Results
<1>3. /\ Persist(k) \/ store' = store
      /\ torn' = torn \/ torn' \in BOOLEAN
      /\ headless' = headless \/ headless' \in BOOLEAN
  BY DEF CommitFails
<1>4. store' \in Seq(Record) /\ StoreInv' /\ Grows
  <2>1. CASE Persist(k)
    BY <1>1, <1>2, <2>1, PersistFacts
  <2>2. CASE store' = store
    BY <1>1, <1>2, <2>2, StaysGrows DEF TypeOK, StoreInv, AppliedOnce, ReferencesHold
  <2> QED BY <1>3, <2>1, <2>2
<1>5. torn' \in BOOLEAN /\ headless' \in BOOLEAN
  BY <1>1, <1>3 DEF TypeOK
<1>6. audit' \subseteq audit \cup {EventOf("aborted")} /\ auditTorn' \in BOOLEAN
  BY <1>1, <1>2 DEF Abort, AppendLine, LineFails, TypeOK
<1>7. faults' \in Nat /\ rows' \subseteq Row /\ "aborted" \in Outcomes
  BY <1>1, <1>2 DEF Fault, TypeOK, Outcomes
<1> QED BY <1>2, <1>4, <1>5, <1>6, <1>7, RunEnds

LEMMA PlannedType ==
  ASSUME TypeOK, NEW l \in DOMAIN plan.aliases
  PROVE  l \in Legacy /\ Planned(l) \subseteq Int
<1>1. plan \in Plans /\ objects \in [Keys -> Int]
  BY DEF TypeOK
<1>2. l \in Legacy /\ plan.aliases[l] \subseteq Keys
  BY <1>1, PlanFacts
<1> QED BY <1>1, <1>2 DEF Planned

\* An outcome has had its turn: its row is there, old or new, or it is a conflict.
LEMMA RowStep ==
  ASSUME MigrationInv, NEW l, AliasDue(l), rowsDone' = rowsDone \cup {l},
         UNCHANGED <<store, torn, headless, audit, auditTorn, phase, plan, known, objects, slots,
                     done, committed, run, faults, result>>,
         \/ rows' = rows
         \/ (\A r \in rows : r.old # l) /\ rows' = rows \cup {[old |-> l, to |-> Planned(l)]},
         conflicts' \in {conflicts, conflicts \cup {l}},
         l \in conflicts' \/ [old |-> l, to |-> Planned(l)] \in rows'
  PROVE  MigrationInv'
<1>1. TypeOK /\ StoreInv /\ RunInv /\ AliasInv /\ AuditInv /\ AlwaysReconciles
  BY DEF MigrationInv
<1>2. phase = "running" /\ plan.records \subseteq done /\ l \in DOMAIN plan.aliases
  BY DEF AliasDue
<1>3. PICK new : new = [old |-> l, to |-> Planned(l)]
  OBVIOUS
<1>4. new \in Row /\ new.old = l /\ l \in Legacy
  BY <1>1, <1>2, <1>3, PlannedType DEF Row
<1>5. rows' = rows \/ ((\A r \in rows : r.old # l) /\ rows' = rows \cup {new})
  BY <1>3
<1>6. TypeOK'
  BY <1>1, <1>4, <1>5 DEF TypeOK
<1>7. StoreInv'
  <2>1. \A r, s \in rows' : r.old = s.old => r = s
    BY <1>1, <1>4, <1>5 DEF StoreInv, AppliedOnce
  <2> QED BY <1>1, <2>1 DEF StoreInv, AppliedOnce, ReferencesHold
<1>8. RunInv'
  <2>1. ~Foreign(plan)'
    BY <1>1, <1>2, <1>4, <1>5 DEF RunInv, Foreign
  <2> QED BY <1>1, <1>2, <2>1 DEF RunInv, EvaluateClosureGate, InStore, HasObject
<1>9. AliasInv'
  <2>1. \A m : Planned(m)' = Planned(m)
    BY DEF Planned
  <2>2. rows \subseteq rows' /\ conflicts \subseteq conflicts'
    BY <1>5
  <2>3. \A m \in rowsDone' : m \in conflicts' \/ [old |-> m, to |-> Planned(m)] \in rows'
    BY <1>1, <1>2, <2>2 DEF AliasInv
  <2>4. \A m \in rowsDone' : m \in conflicts' \/ [old |-> m, to |-> Planned(m)']  \in rows'
    BY <2>1, <2>3
  <2>5. rowsDone' \subseteq DOMAIN plan'.aliases /\ plan'.records \subseteq done'
    BY <1>1, <1>2 DEF AliasInv
  <2> QED BY <2>4, <2>5 DEF AliasInv
<1>10. AuditInv'
  <2>1. Grows
    BY <1>5 DEF Grows, InStore, HasObject
  <2> QED BY <1>1, <1>2, <2>1, AuditGoesOn
<1> QED BY <1>1, <1>6, <1>7, <1>8, <1>9, <1>10 DEF MigrationInv, AlwaysReconciles

\* A row that would not read back ends the run before it is written.
LEMMA AppendRowStep ==
  ASSUME MigrationInv, NEW l \in Legacy, AppendRow(l)
  PROVE  MigrationInv'
<1>1. TypeOK /\ StoreInv /\ AliasDue(l) /\ \A r \in rows : r.old # l
  BY DEF MigrationInv, AppendRow
<1>2. CASE ReadsBack(l)
  BY <1>1, <1>2, RowStep DEF AppendRow
<1>3. CASE ~ReadsBack(l)
  <2>1. /\ Abort /\ UNCHANGED <<store, torn, rows, headless, faults>>
        /\ UNCHANGED <<plan, memory, run>> /\ phase # "down" /\ phase' = "down"
        /\ result' \in Results \ {"reconciliation-mismatch"}
    BY <1>1, <1>3 DEF AppendRow, Abort, AliasDue, Results
  <2>2. Grows /\ StoreInv'
    BY <1>1, <2>1, StaysGrows DEF StoreInv, AppliedOnce, ReferencesHold
  <2>3. audit' \subseteq audit \cup {EventOf("aborted")} /\ auditTorn' \in BOOLEAN
    BY <1>1, <2>1 DEF Abort, AppendLine, LineFails, TypeOK
  <2>4. /\ faults' \in Nat /\ store' \in Seq(Record) /\ rows' \subseteq Row
        /\ torn' \in BOOLEAN /\ headless' \in BOOLEAN /\ "aborted" \in Outcomes
    BY <1>1, <2>1 DEF TypeOK, Outcomes
  <2> QED BY <2>1, <2>2, <2>3, <2>4, RunEnds
<1> QED BY <1>2, <1>3

LEMMA RowFailsStep ==
  ASSUME MigrationInv, NEW l \in Legacy, RowFails(l)
  PROVE  MigrationInv'
<1>1. TypeOK /\ StoreInv /\ RunInv
  BY DEF MigrationInv
<1>2. /\ AliasDue(l) /\ (\A r \in rows : r.old # l) /\ Fault /\ Abort
      /\ UNCHANGED <<store, torn>> /\ UNCHANGED <<plan, memory, run>>
      /\ phase # "down" /\ phase' = "down" /\ l \in DOMAIN plan.aliases
      /\ result' \in Results \ {"reconciliation-mismatch"}
  BY DEF RowFails, Abort, AliasDue, Results
<1>3. PICK new : new = [old |-> l, to |-> Planned(l)]
  OBVIOUS
<1>4. new \in Row /\ new.old = l
  BY <1>1, <1>2, <1>3, PlannedType DEF Row
<1>5. /\ rows' \in {rows, rows \cup {new}}
      /\ headless' = headless \/ headless' \in BOOLEAN
  BY <1>3 DEF RowFails
<1>6. rows' \subseteq Row
  BY <1>1, <1>4, <1>5 DEF TypeOK
<1>7. StoreInv'
  <2>1. \A r, s \in rows' : r.old = s.old => r = s
    BY <1>1, <1>2, <1>4, <1>5 DEF StoreInv, AppliedOnce
  <2> QED BY <1>1, <1>2, <2>1 DEF StoreInv, AppliedOnce, ReferencesHold
<1>8. Grows
  BY <1>2, <1>5 DEF Grows, InStore, HasObject
<1>9. audit' \subseteq audit \cup {EventOf("aborted")} /\ auditTorn' \in BOOLEAN
  BY <1>1, <1>2 DEF Abort, AppendLine, LineFails, TypeOK
<1>10. /\ faults' \in Nat /\ store' \in Seq(Record) /\ torn' \in BOOLEAN
       /\ headless' \in BOOLEAN /\ "aborted" \in Outcomes
  BY <1>1, <1>2, <1>5 DEF Fault, TypeOK, Outcomes
<1> QED BY <1>2, <1>6, <1>7, <1>8, <1>9, <1>10, RunEnds

LEMMA FinishStep ==
  ASSUME MigrationInv, Finish
  PROVE  MigrationInv'
<1>1. TypeOK /\ StoreInv /\ RunInv /\ AliasInv
  BY DEF MigrationInv
<1>2. PICK o : o = IF conflicts # {} THEN "alias-ledger-conflict" ELSE "committed"
  OBVIOUS
<1>3. /\ Finished /\ phase # "down" /\ phase' = "down" /\ AppendLine(EventOf(o))
      /\ UNCHANGED <<store, torn, rows, headless, faults>> /\ UNCHANGED <<plan, memory, run>>
  BY <1>2 DEF Finish, Finished
<1>4. result' \in Results \ {"reconciliation-mismatch"}
  BY <1>1, <1>3, FinishedReconciles DEF Finish, Results
<1>5. Grows /\ StoreInv'
  BY <1>1, <1>3, StaysGrows DEF StoreInv, AppliedOnce, ReferencesHold
<1>6. PICK p : p = plan
  OBVIOUS
<1>7. o = "committed" => Complete(p)'
  <2>1. o = "committed" => Complete(p)
    BY <1>1, <1>2, <1>3, <1>6, FinishedComplete
  <2> QED BY <1>5, <2>1, GrowsComplete
<1>8. audit' \subseteq audit \cup {EventOf(o)} /\ auditTorn' \in BOOLEAN
  BY <1>3 DEF AppendLine
<1>9. /\ faults' \in Nat /\ store' \in Seq(Record) /\ torn' \in BOOLEAN /\ rows' \subseteq Row
      /\ headless' \in BOOLEAN /\ o \in Outcomes
  BY <1>1, <1>2, <1>3 DEF TypeOK, Outcomes
<1> QED BY <1>3, <1>4, <1>5, <1>6, <1>7, <1>8, <1>9, RunEnds

\* The two ends without an event.
LEMMA SilentEndStep ==
  ASSUME MigrationInv, FinishFails \/ Die
  PROVE  MigrationInv'
<1>1. TypeOK /\ StoreInv
  BY DEF MigrationInv
<1>2. /\ phase # "down" /\ phase' = "down" /\ UNCHANGED <<store, rows, audit>>
      /\ UNCHANGED <<plan, memory, run>> /\ Fault
      /\ result' \in Results \ {"reconciliation-mismatch"}
  BY DEF FinishFails, Die, Finished, LineFails, Results
<1>3. torn' \in BOOLEAN /\ headless' \in BOOLEAN /\ auditTorn' \in BOOLEAN
  BY <1>1 DEF FinishFails, Die, LineFails, TypeOK
<1>4. Grows /\ StoreInv'
  BY <1>1, <1>2, StaysGrows DEF StoreInv, AppliedOnce, ReferencesHold
<1>5. /\ faults' \in Nat /\ store' \in Seq(Record) /\ rows' \subseteq Row
      /\ "aborted" \in Outcomes /\ audit' \subseteq audit \cup {EventOf("aborted")}
  BY <1>1, <1>2 DEF TypeOK, Outcomes, Fault
<1> QED BY <1>2, <1>3, <1>4, <1>5, RunEnds

\* No run is on before or after the step, and nothing durable changes but a segment
\* without a header, which comes or goes.
LEMMA NoRunStep ==
  ASSUME MigrationInv, phase = "down", headless' \in BOOLEAN, run' \in {run, run + 1},
         faults' \in Nat, result' \in Results \ {"reconciliation-mismatch"},
         UNCHANGED <<store, torn, rows, audit, auditTorn, phase, plan, memory>>
  PROVE  MigrationInv'
<1>1. TypeOK /\ StoreInv /\ AuditInv
  BY DEF MigrationInv
<1>2. run' \in Nat /\ run <= run' /\ run \in Nat
  BY <1>1 DEF TypeOK
<1>3. TypeOK'
  BY <1>1, <1>2 DEF TypeOK, memory
<1>4. StoreInv'
  BY <1>1 DEF StoreInv, AppliedOnce, ReferencesHold
<1>5. RunInv' /\ AliasInv' /\ AlwaysReconciles'
  BY DEF RunInv, AliasInv, AlwaysReconciles
<1>6. AuditInv'
  <2>1. \A e \in audit : e.run \in Nat /\ e.run <= run
    BY <1>1 DEF TypeOK, Event, AuditInv
  <2>2. \A e \in audit' : e.run <= run'
    BY <1>2, <2>1
  <2>3. CommittedIsComplete' /\ ReportedOnce'
    BY <1>1 DEF AuditInv, CommittedIsComplete, ReportedOnce, Complete, InStore, HasObject
  <2> QED BY <2>2, <2>3 DEF AuditInv
<1> QED BY <1>3, <1>4, <1>5, <1>6 DEF MigrationInv

LEMMA OpenDiesStep ==
  ASSUME MigrationInv, NEW p \in Plans, OpenDies(p)
  PROVE  MigrationInv'
<1>1. /\ phase = "down" /\ headless' = TRUE /\ run' = run + 1 /\ Fault
      /\ result' \in Results \ {"reconciliation-mismatch"}
      /\ UNCHANGED <<store, torn, rows, audit, auditTorn, phase, plan, memory>>
  BY DEF OpenDies, MayOpen, Results
<1>2. faults' \in Nat
  BY <1>1 DEF Fault, MigrationInv, TypeOK
<1> QED BY <1>1, <1>2, NoRunStep

LEMMA RemoveSegmentStep ==
  ASSUME MigrationInv, RemoveSegment
  PROVE  MigrationInv'
<1>1. /\ phase = "down" /\ headless' = FALSE
      /\ UNCHANGED <<store, torn, rows, audit, auditTorn, phase, plan, memory>>
      /\ UNCHANGED <<run, faults, result>>
  BY DEF RemoveSegment
<1>2. faults' \in Nat /\ result' \in Results \ {"reconciliation-mismatch"}
  BY <1>1 DEF MigrationInv, TypeOK, AlwaysReconciles
<1> QED BY <1>1, <1>2, NoRunStep

LEMMA StutterStep ==
  ASSUME MigrationInv, UNCHANGED vars
  PROVE  MigrationInv'
<1>1. UNCHANGED <<store, torn, rows, headless, audit, auditTorn, phase, plan, known, objects, slots,
                  done, rowsDone, committed, conflicts, run, faults, result>>
  BY DEF vars, files, memory
<1>2. TypeOK' /\ AlwaysReconciles'
  BY <1>1 DEF MigrationInv, TypeOK, AlwaysReconciles
<1>3. StoreInv'
  BY <1>1 DEF MigrationInv, StoreInv, AppliedOnce, ReferencesHold
<1>4. RunInv'
  BY <1>1 DEF MigrationInv, RunInv, EvaluateClosureGate, Foreign, InStore, HasObject
<1>5. AliasInv'
  BY <1>1 DEF MigrationInv, AliasInv, Planned
<1>6. AuditInv'
  BY <1>1 DEF MigrationInv, AuditInv, CommittedIsComplete, ReportedOnce, Complete, InStore, HasObject
<1> QED BY <1>2, <1>3, <1>4, <1>5, <1>6 DEF MigrationInv

LEMMA InitInv == Init => MigrationInv
<1>1. SUFFICES ASSUME Init PROVE MigrationInv
  OBVIOUS
<1>2. TypeOK
  <2>1. store \in Seq(Record) /\ Unset \in [Keys -> Int]
    BY <1>1 DEF Init, Unset
  <2>2. /\ torn \in BOOLEAN /\ headless \in BOOLEAN /\ auditTorn \in BOOLEAN /\ rows \subseteq Row /\ audit \subseteq Event
        /\ phase = "down" /\ plan \in Plans
    BY <1>1 DEF Init
  <2>3. /\ known = Unset /\ objects = Unset /\ slots = Unset
        /\ done \subseteq Keys /\ rowsDone \subseteq Legacy
        /\ committed \subseteq Keys /\ conflicts \subseteq Legacy
    BY <1>1 DEF Init
  <2>4. run \in Nat /\ faults \in Nat /\ result \in Results
    BY <1>1 DEF Init, Results
  <2> QED BY <2>1, <2>2, <2>3, <2>4 DEF TypeOK
<1>3. StoreInv
  BY <1>1 DEF Init, StoreInv, AppliedOnce, ReferencesHold
<1>4. RunInv /\ AliasInv /\ AlwaysReconciles
  BY <1>1 DEF Init, RunInv, AliasInv, AlwaysReconciles
<1>5. AuditInv
  BY <1>1 DEF Init, AuditInv, CommittedIsComplete, ReportedOnce
<1> QED BY <1>2, <1>3, <1>4, <1>5 DEF MigrationInv

LEMMA NextInv == MigrationInv /\ [Next]_vars => MigrationInv'
<1>1. SUFFICES ASSUME MigrationInv, [Next]_vars PROVE MigrationInv'
  OBVIOUS
<1>2. ASSUME NEW p \in Plans, Open(p) PROVE MigrationInv'
  BY <1>1, <1>2, OpenStep
<1>3. CASE NoteRepair
  BY <1>1, <1>3, NoteRepairStep
<1>4. ASSUME NEW k \in Keys, Replay(k) PROVE MigrationInv'
  BY <1>1, <1>4, ReplayStep
<1>5. ASSUME NEW k \in Keys, Commit(k) PROVE MigrationInv'
  BY <1>1, <1>5, CommitStep
<1>6. ASSUME NEW k \in Keys, CommitFails(k) PROVE MigrationInv'
  BY <1>1, <1>6, CommitFailsStep
<1>7. ASSUME NEW l \in Legacy, ReuseRow(l) PROVE MigrationInv'
  BY <1>1, <1>7, RowStep DEF ReuseRow, files
<1>8. ASSUME NEW l \in Legacy, ConflictRow(l) PROVE MigrationInv'
  BY <1>1, <1>8, RowStep DEF ConflictRow, files
<1>9. ASSUME NEW l \in Legacy, AppendRow(l) PROVE MigrationInv'
  BY <1>1, <1>9, AppendRowStep
<1>10. ASSUME NEW l \in Legacy, RowFails(l) PROVE MigrationInv'
  BY <1>1, <1>10, RowFailsStep
<1>11. CASE Finish
  BY <1>1, <1>11, FinishStep
<1>12. CASE FinishFails \/ Die
  BY <1>1, <1>12, SilentEndStep
<1>13. ASSUME NEW p \in Plans, OpenDies(p) PROVE MigrationInv'
  BY <1>1, <1>13, OpenDiesStep
<1>14. CASE RemoveSegment
  BY <1>1, <1>14, RemoveSegmentStep
<1>15. CASE UNCHANGED vars
  BY <1>1, <1>15, StutterStep
<1> QED BY <1>1, <1>2, <1>3, <1>4, <1>5, <1>6, <1>7, <1>8, <1>9, <1>10, <1>11, <1>12, <1>13,
           <1>14, <1>15
        DEF Next, Work, Faults
-----------------------------------------------------------------------------
(* Theorems *)

\* The invariant of every behaviour of interrupted and resumed runs.
THEOREM MigrationInvariant == Spec => []MigrationInv
<1> QED BY InitInv, NextInv, PTL DEF Spec

\* TypeOK: the state keeps its types, and an open plane has no torn tail left in
\* its carried file.
THEOREM MigrationTypes == Spec => []TypeOK
<1>1. MigrationInv => TypeOK
  BY DEF MigrationInv
<1> QED BY <1>1, MigrationInvariant, PTL

\* AppliedOnce: no idempotency key ever has two records and no legacy id two alias
\* rows, whatever deaths, failing appends and changes of plan there were.
THEOREM MigrationAppliedOnce == Spec => []AppliedOnce
<1>1. MigrationInv => AppliedOnce
  BY DEF MigrationInv, StoreInv
<1> QED BY <1>1, MigrationInvariant, PTL

\* ReferencesHold: what an edge or a retraction names was durable before it, under
\* the id it names.
THEOREM MigrationReferences == Spec => []ReferencesHold
<1>1. MigrationInv => ReferencesHold
  BY DEF MigrationInv, StoreInv
<1> QED BY <1>1, MigrationInvariant, PTL

\* NothingUnresolved: a certified plan never meets an endpoint or a retracted record
\* that the plane cannot resolve, on a first run or on a resumed one.
THEOREM MigrationNothingUnresolved == Spec => []NothingUnresolved
<1>1. MigrationInv => NothingUnresolved
  BY DueResolves DEF MigrationInv, NothingUnresolved
<1> QED BY <1>1, MigrationInvariant, PTL

\* CommittedIsComplete: an audit event that says committed stays true.
THEOREM MigrationCommittedIsComplete == Spec => []CommittedIsComplete
<1>1. MigrationInv => CommittedIsComplete
  BY DEF MigrationInv, AuditInv
<1> QED BY <1>1, MigrationInvariant, PTL

\* ReportedOnce: the audit events of different runs report disjoint, durable records.
THEOREM MigrationReportedOnce == Spec => []ReportedOnce
<1>1. MigrationInv => ReportedOnce
  BY DEF MigrationInv, AuditInv
<1> QED BY <1>1, MigrationInvariant, PTL

\* AlwaysReconciles: the reconciliation never refuses a run that got to its end
\* without an alias conflict.
THEOREM MigrationReconciles == Spec => []AlwaysReconciles
<1>1. MigrationInv => AlwaysReconciles
  BY DEF MigrationInv
<1> QED BY <1>1, MigrationInvariant, PTL
=============================================================================
