--------------------------- MODULE SyncAgentProofs ---------------------------
(* Proofs about SyncAgent, for any number of replicas, objects, versions,     *)
(* pages and faults.  The invariant says of each replica what its cursors     *)
(* vouch for: up to the cursor file, up to the handshake's cursor and up to   *)
(* the last whole generation of a page everything the cloud serves is in the  *)
(* store, and up to the page's end it is in the store or still on the page.   *)
(* The second half follows the versions of an object that one replica edits:  *)
(* they come in order wherever they are, so nobody meets a conflict.          *)
(* Both rest on editing programs and handshakes that take turns (TakeTurns):  *)
(* then whoever has a store open has the directory's state in memory.         *)
EXTENDS SyncAgent, TLAPS

\* A mutation of the directory.
Put(r, o, held) ==
  /\ store' = [store EXCEPT ![r] = [store[r] EXCEPT ![o] = held]]
  /\ generation' = [generation EXCEPT ![r] = generation[r] + 1]

\* Whoever has the store of a replica open has it as it is on disk, one at a time.
TurnsInv(r) ==
  /\ r \notin shut
  /\ session[r] # NoStore => session[r] = OnDisk(r) /\ at[r] = "idle"
  /\ at[r] # "idle" => loaded[r] = OnDisk(r)

\* Rows have generations of their own, none above the latest.
RowsInv ==
  /\ \A i \in rows : 0 < i.generation /\ i.generation <= latest
  /\ \A i, j \in rows : i.generation = j.generation => i = j

\* Up to generation n the replica's store has what the cloud serves.
Vouched(r, n) == \A i \in rows : i.generation <= n => Covers(r, i)

\* A page ends where its envelopes and its whole generations do, or later.
OnPage(r) ==
  /\ page[r].through <= latest /\ page[r].whole <= latest
  /\ \A i \in page[r].left : i.generation <= page[r].through

\* What a page under application says.
PageInv(r) ==
  /\ OnPage(r)
  /\ Vouched(r, page[r].whole)
  /\ \A i \in rows : i.generation <= page[r].through => Covers(r, i) \/ i \in page[r].left
  /\ \A i, j \in page[r].left : i.generation = j.generation => i = j

ReplicaInv(r) ==
  /\ cursor[r] <= latest
  /\ Vouched(r, cursor[r])
  /\ at[r] # "idle" => mem[r] <= latest /\ Vouched(r, mem[r])
  /\ at[r] = "apply" => PageInv(r)

\* A file the cloud has taken is on record there.
TakenInv(r) ==
  at[r] = "accepted" =>
    file[r].object \in Withheld \/ \E i \in sent : Carried(i) = Carried(file[r])

\* What holds whether or not they take turns.
KeptInv ==
  /\ TypeOK
  /\ \A r \in Replicas : TakenInv(r)
  /\ ChangesKept

AgentInv ==
  /\ KeptInv
  /\ RowsInv
  /\ \A r \in Replicas : TurnsInv(r) /\ ReplicaInv(r)
-----------------------------------------------------------------------------
(* Types *)

LEMMA AgentInitType == Init => TypeOK
  BY AgentAssumption DEF Init, TypeOK, Absent, Held, NoPage, Page, Places, Stages, Nobody

LEMMA CarriedType == \A f \in File : Carried(f) \in Change
  BY DEF Carried, File, Change

LEMMA FileIsRecord ==
  ASSUME NEW g \in Nat, NEW o \in Objects, NEW v \in Nat, NEW r \in Replicas
  PROVE  [generation |-> g, object |-> o, version |-> v, by |-> r] \in File
  BY DEF File

LEMMA AppendType ==
  ASSUME TypeOK, NEW r \in Replicas, NEW s \in Store, NEW o \in Objects, NEW held \in Held,
         AppendEntry(r, s, o, held)
  PROVE  /\ store' \in [Replicas -> [Objects -> Held]] /\ generation' \in [Replicas -> Nat]
         /\ shut' \subseteq Replicas
<1>1. CASE /\ store' = [store EXCEPT ![r] = [store[r] EXCEPT ![o] = held]]
           /\ generation' = [generation EXCEPT ![r] = generation[r] + 1]
           /\ shut' = shut
  BY <1>1 DEF TypeOK
<1>2. CASE UNCHANGED <<store, generation>> /\ (shut' = shut \/ shut' = shut \cup {r})
  BY <1>2 DEF TypeOK
<1> QED
  BY <1>1, <1>2 DEF AppendEntry

LEMMA WithType ==
  ASSUME NEW s \in Store, NEW o \in Objects, NEW held \in Held
  PROVE  With(s, o, held) \in Store
  BY DEF With, Store

LEMMA OnDiskType ==
  ASSUME TypeOK, NEW r \in Replicas
  PROVE  OnDisk(r) \in Store /\ InSession(r) \in Store
  BY DEF TypeOK, OnDisk, InSession, Store

\* The three variables Proceed moves keep their types, and their relation.
Placed ==
  /\ at \in [Replicas -> Places] /\ stage \in [Replicas -> Stages]
  /\ file \in [Replicas -> File \cup {NoFile}]
  /\ \A q \in Replicas :
       /\ at[q] \in {"submit", "accepted", "refused"} => stage[q] \in {"first", "second"}
       /\ stage[q] \in {"first", "second"} => file[q] \in File

LEMMA ProceedType ==
  ASSUME TypeOK, NEW r \in Replicas, at[r] \in {"status", "apply"}, Proceed(r)
  PROVE  Placed' /\ \A q \in Replicas : at'[q] # "idle" => at[q] # "idle"
<1> USE DEF TypeOK, Goto, Places, Stages, Placed
<1>1. CASE stage[r] = "initial" /\ queued[r] = {} /\ Goto(r, "write") /\ UNCHANGED <<stage, file>>
  BY <1>1
<1>2. CASE \E f \in queued[r] : /\ IsFirstFile(r, f)
                                 /\ file' = [file EXCEPT ![r] = f]
                                 /\ stage' = [stage EXCEPT ![r] = "first"]
                                 /\ Goto(r, "status")
  BY <1>2
<1>3. CASE stage[r] \in {"first", "second"} /\ Goto(r, "submit") /\ UNCHANGED <<stage, file>>
  BY <1>3
<1>4. CASE stage[r] = "confirm" /\ Goto(r, "write") /\ UNCHANGED <<stage, file>>
  BY <1>4
<1> QED
  BY <1>1, <1>2, <1>3, <1>4 DEF Proceed

\* Every action keeps the types.
LEMMA AgentTypeStep ==
  ASSUME TypeOK, [Next]_vars
  PROVE  TypeOK'
<1> USE DEF cloud, directory, outbox, handshake
<1>1. CASE UNCHANGED vars
  BY <1>1 DEF TypeOK, vars
<1>2. ASSUME NEW r \in Replicas, NEW o \in Objects, Edit(r, o)
      PROVE  TypeOK'
  <2> DEFINE s == InSession(r)
             v == s.objects[o].version + 1
             held == [version |-> v, by |-> r]
             f == [generation |-> s.generation + 1, object |-> o, version |-> v, by |-> r]
  <2>0. s \in Store
    BY OnDiskType
  <2>1. v \in Nat /\ s.generation + 1 \in Nat
    BY <2>0 DEF Store, Held
  <2>2. f \in File
    BY <2>1, FileIsRecord
  <2>3. Carried(f) \in Change
    BY <2>2, CarriedType
  <2>4. held \in Held
    BY <2>1 DEF Held
  <2>5. /\ AppendEntry(r, s, o, held)
        /\ session' = [session EXCEPT ![r] = With(s, o, held)]
        /\ owing' = [owing EXCEPT ![r] = owing[r] \cup {f}]
        /\ edits' = edits \cup {Carried(f)}
    BY <1>2 DEF Edit
  <2> HIDE DEF f, held, v, s
  <2>6. /\ store' \in [Replicas -> [Objects -> Held]] /\ generation' \in [Replicas -> Nat]
        /\ shut' \subseteq Replicas
    BY <2>0, <2>4, <2>5, AppendType
  <2>7. owing' \in [Replicas -> SUBSET File] /\ edits' \subseteq Change
    BY <2>2, <2>3, <2>5 DEF TypeOK
  <2>8. session' \in [Replicas -> Store \cup {NoStore}]
    BY <2>0, <2>4, <2>5, WithType DEF TypeOK
  <2> QED
    BY <1>2, <2>6, <2>7, <2>8 DEF Edit, TypeOK
<1>3. ASSUME NEW r \in Replicas, NEW f \in owing[r], Enqueue(r, f)
      PROVE  TypeOK'
  <2>1. f \in File
    BY <1>3 DEF TypeOK
  <2> QED
    BY <1>3, <2>1 DEF Enqueue, TypeOK
<1>4. ASSUME NEW r \in Replicas, EnqueueFails(r)
      PROVE  TypeOK'
  <2>1. {Carried(f) : f \in owing[r]} \subseteq Change
    BY CarriedType DEF TypeOK
  <2>2. faults' \in 0..MaxFaults
    BY <1>4, AgentAssumption DEF EnqueueFails, TypeOK
  <2> QED
    BY <1>4, <2>1, <2>2 DEF EnqueueFails, TypeOK
<1>5. ASSUME NEW r \in Replicas, Open(r)
      PROVE  TypeOK'
  <2>1. OnDisk(r) \in Store /\ loaded' = [loaded EXCEPT ![r] = OnDisk(r)]
    BY <1>5, OnDiskType DEF Open
  <2>2. /\ loaded' \in [Replicas -> Store \cup {NoStore}] /\ loaded'[r] \in Store
        /\ \A q \in Replicas \ {r} : loaded'[q] = loaded[q]
    BY <2>1 DEF TypeOK
  <2> QED
    BY <1>5, <2>2 DEF Open, TypeOK, Goto, Places
<1>6. ASSUME NEW r \in Replicas, Status(r)
      PROVE  TypeOK'
  <2>1. CASE latest > mem[r] /\ Goto(r, "pull") /\ UNCHANGED <<stage, file>>
    BY <1>6, <2>1 DEF Status, TypeOK, Goto, Places
  <2>2. CASE Proceed(r)
    <3>1. Placed' /\ \A q \in Replicas : at'[q] # "idle" => at[q] # "idle"
      BY <1>6, <2>2, ProceedType DEF Status
    <3> QED
      BY <1>6, <3>1 DEF Status, TypeOK, Placed
  <2> QED
    BY <1>6, <2>1, <2>2 DEF Status
<1>7. ASSUME NEW r \in Replicas, Pull(r)
      PROVE  TypeOK'
  <2> DEFINE through == IF mem[r] + PageSize < latest THEN mem[r] + PageSize ELSE latest
             p == [left |-> {i \in rows : mem[r] < i.generation /\ i.generation <= through},
                   whole |-> mem[r], through |-> through]
  <2>1. through \in Nat
    BY AgentAssumption DEF TypeOK
  <2>2. page' = [page EXCEPT ![r] = p]
    BY <1>7 DEF Pull
  <2> HIDE DEF through
  <2>3. p \in Page
    BY <2>1 DEF Page, TypeOK
  <2> HIDE DEF p
  <2>4. page' \in [Replicas -> Page]
    BY <2>2, <2>3 DEF TypeOK
  <2> QED
    BY <1>7, <2>4 DEF Pull, TypeOK, Goto, Places
<1>8. ASSUME NEW r \in Replicas, NEW i \in page[r].left, Apply(r, i)
      PROVE  TypeOK'
  <2> DEFINE held == [version |-> i.version, by |-> i.by]
  <2>1. i \in Row /\ page[r] \in Page /\ loaded[r] \in Store
    BY <1>8 DEF TypeOK, Page, Apply
  <2>2. [left |-> page[r].left \ {i}, whole |-> i.generation,
         through |-> page[r].through] \in Page
    BY <2>1 DEF Page, Row, File
  <2>3. page' \in [Replicas -> Page]
    BY <1>8, <2>2 DEF Apply, Whole, TypeOK
  <2>4. at' \in [Replicas -> Places] /\ mem' \in [Replicas -> Nat]
    BY <1>8, <2>1 DEF Apply, Conflicted, Goto, Places, TypeOK, Page
  <2>5. ASSUME NEW reason \in Reasons
        PROVE  [object |-> i.object, generation |-> i.generation,
                version |-> i.version, reason |-> reason] \in Conflict
    BY <2>1 DEF Conflict, Row, File
  <2>6. conflicts' \in [Replicas -> SUBSET Conflict]
    <3>1. CASE UNCHANGED conflicts
      BY <3>1 DEF TypeOK
    <3>2. ASSUME NEW reason \in Reasons, Conflicted(r, i, reason)
          PROVE  conflicts' \in [Replicas -> SUBSET Conflict]
      <4> DEFINE c == [object |-> i.object, generation |-> i.generation,
                       version |-> i.version, reason |-> reason]
      <4>1. c \in Conflict /\ conflicts' = [conflicts EXCEPT ![r] = conflicts[r] \cup {c}]
        BY <2>5, <3>2 DEF Conflicted
      <4> HIDE DEF c
      <4> QED
        BY <4>1 DEF TypeOK
    <3> QED
      BY <1>8, <3>1, <3>2 DEF Apply
  <2>7. \A q \in Replicas :
          /\ at'[q] \in {"submit", "accepted", "refused"} => at[q] = at'[q]
          /\ at'[q] # "idle" => at[q] # "idle"
    BY <1>8 DEF Apply, Conflicted, Goto, TypeOK
  <2>8. held \in Held /\ i.object \in Objects
    BY <2>1 DEF Held, Row, File
  <2>9. /\ store' \in [Replicas -> [Objects -> Held]] /\ generation' \in [Replicas -> Nat]
        /\ shut' \subseteq Replicas
        /\ loaded' \in [Replicas -> Store \cup {NoStore}]
        /\ \A q \in Replicas : loaded[q] \in Store => loaded'[q] \in Store
    <3>1. CASE /\ AppendEntry(r, loaded[r], i.object, held)
               /\ loaded' = [loaded EXCEPT ![r] = With(loaded[r], i.object, held)]
      <4> HIDE DEF held
      <4>1. With(loaded[r], i.object, held) \in Store
        BY <2>1, <2>8, WithType
      <4> QED
        BY <2>1, <2>8, <3>1, <4>1, AppendType DEF TypeOK
    <3>2. CASE UNCHANGED <<directory, loaded>>
      BY <3>2 DEF TypeOK
    <3> QED
      BY <1>8, <3>1, <3>2 DEF Apply
  <2>10. UNCHANGED <<cloud, outbox, cursor, torn, stage, file, faults>>
    BY <1>8 DEF Apply
  <2> QED
    BY <2>3, <2>4, <2>6, <2>7, <2>9, <2>10 DEF TypeOK
<1>9. ASSUME NEW r \in Replicas, Compact(r)
      PROVE  TypeOK'
  <2>1. loaded[r] \in Store
    BY <1>9 DEF Compact, TypeOK
  <2>2. loaded[r].objects \in [Objects -> Held] /\ loaded[r].generation \in Nat
    BY <2>1 DEF Store
  <2>3. /\ store' \in [Replicas -> [Objects -> Held]] /\ generation' \in [Replicas -> Nat]
        /\ shut' \subseteq Replicas
    BY <1>9, <2>2 DEF Compact, TypeOK
  <2> QED
    BY <1>9, <2>3 DEF Compact, Close, TypeOK, Goto, Places, Stages, NoPage, Page
<1>10. ASSUME NEW r \in Replicas, PageDone(r)
       PROVE  TypeOK'
  <2>1. Placed' /\ \A q \in Replicas : at'[q] # "idle" => at[q] # "idle"
    BY <1>10, ProceedType DEF PageDone
  <2>2. NoPage \in Page /\ page[r].through \in Nat
    BY DEF NoPage, Page, TypeOK
  <2> QED
    BY <1>10, <2>1, <2>2 DEF PageDone, TypeOK, Placed
<1>11. ASSUME NEW r \in Replicas, Submit(r)
       PROVE  TypeOK'
  <2> DEFINE f == file[r]
             row == [generation |-> latest + 1, object |-> f.object,
                     version |-> f.version, by |-> f.by]
  <2>1. f \in File /\ latest + 1 \in Nat
    BY <1>11 DEF Submit, TypeOK
  <2>2. row \in Row
    BY <2>1 DEF File, Row
  <2>3. latest' \in Nat
    BY <1>11, <2>1 DEF Submit, TypeOK, cloud
  <2>4. rows' \subseteq rows \cup {row} /\ sent' \subseteq sent \cup {row}
    BY <1>11 DEF Submit
  <2>5. rows' \subseteq Row /\ sent' \subseteq Row
    BY <2>2, <2>4 DEF TypeOK
  <2>6. at' = [at EXCEPT ![r] = "accepted"] \/ at' = [at EXCEPT ![r] = "refused"]
    BY <1>11 DEF Submit, Goto
  <2>7. stage[r] \in {"first", "second"}
    BY <1>11 DEF Submit, TypeOK
  <2>8. /\ at' \in [Replicas -> Places]
        /\ \A q \in Replicas :
             at'[q] \in {"submit", "accepted", "refused"} => stage[q] \in {"first", "second"}
    BY <2>6, <2>7 DEF TypeOK, Places
  <2>9. UNCHANGED <<directory, outbox, cursor, torn, conflicts, loaded, stage, mem, page,
                    file, faults>>
    BY <1>11 DEF Submit
  <2>10. \A q \in Replicas : at'[q] # "idle" => at[q] # "idle"
    BY <1>11, <2>6 DEF Submit, TypeOK
  <2> QED
    BY <2>3, <2>5, <2>8, <2>9, <2>10 DEF TypeOK
<1>12. ASSUME NEW r \in Replicas, Accepted(r)
       PROVE  TypeOK'
  BY <1>12 DEF Accepted, TypeOK, Goto, Places, Stages
<1>13. ASSUME NEW r \in Replicas, Refused(r)
       PROVE  TypeOK'
  BY <1>13 DEF Refused, TypeOK, Goto, Places, Stages
<1>14. ASSUME NEW r \in Replicas, WriteCursor(r)
       PROVE  TypeOK'
  BY <1>14 DEF WriteCursor, TypeOK, Goto, Places
<1>15. ASSUME NEW r \in Replicas, RequestFails(r)
       PROVE  TypeOK'
  <2>1. faults' \in 0..MaxFaults
    BY <1>15, AgentAssumption DEF RequestFails, TypeOK
  <2> QED
    BY <1>15, <2>1 DEF RequestFails, TypeOK, Goto, Places
<1>16. ASSUME NEW r \in Replicas, Crash(r)
       PROVE  TypeOK'
  <2>1. faults' \in 0..MaxFaults
    BY <1>16, AgentAssumption DEF Crash, TypeOK
  <2> QED
    BY <1>16, <2>1 DEF Crash, Close, TypeOK, Goto, Places, Stages, NoPage, Page
<1>17. ASSUME NEW r \in Replicas, CursorTorn(r)
       PROVE  TypeOK'
  <2>1. faults' \in 0..MaxFaults
    BY <1>17, AgentAssumption DEF CursorTorn, TypeOK
  <2> QED
    BY <1>17, <2>1 DEF CursorTorn, Close, TypeOK, Goto, Places, Stages, NoPage, Page
<1>18. ASSUME NEW r \in Replicas, Leave(r) \/ RemoveCursor(r)
       PROVE  TypeOK'
  BY <1>18 DEF Leave, RemoveCursor, TypeOK
<1> QED
  BY <1>1, <1>2, <1>3, <1>4, <1>5, <1>6, <1>7, <1>8, <1>9, <1>10, <1>11, <1>12, <1>13,
     <1>14, <1>15, <1>16, <1>17, <1>18 DEF Next, Handshake

\* Every variable of the model keeps its type, and a push has a file.
THEOREM AgentTypeCorrect == Spec => []TypeOK
  BY AgentInitType, AgentTypeStep, PTL DEF Spec
-----------------------------------------------------------------------------
(* Taking turns *)

\* A program whose store is as on disk appends what follows.
LEMMA AppendPuts ==
  ASSUME TypeOK, NEW r \in Replicas, r \notin shut, NEW o \in Objects, NEW held,
         AppendEntry(r, OnDisk(r), o, held)
  PROVE  /\ Put(r, o, held) /\ shut' = shut
         /\ OnDisk(r)' = With(OnDisk(r), o, held)
         /\ \A q \in Replicas \ {r} : OnDisk(q)' = OnDisk(q)
<1>1. Put(r, o, held) /\ shut' = shut
  BY DEF AppendEntry, OnDisk, Put
<1> QED
  BY <1>1 DEF Put, OnDisk, With, TypeOK

\* An edit in such a session.
Edited(r, o) ==
  LET v == store[r][o].version + 1
      f == [generation |-> generation[r] + 1, object |-> o, version |-> v, by |-> r]
  IN /\ \A g \in owing[r] : g.object # o
     /\ Put(r, o, [version |-> v, by |-> r])
     /\ owing' = [owing EXCEPT ![r] = owing[r] \cup {f}]
     /\ edits' = edits \cup {Carried(f)}
     /\ UNCHANGED <<latest, rows, sent, queued, lost, cursor, conflicts, at, stage, mem,
                    page, file>>

LEMMA EditPuts ==
  ASSUME TypeOK, NEW r \in Replicas, TurnsInv(r), NEW o \in Objects, Edit(r, o)
  PROVE  /\ Edited(r, o) /\ shut' = shut
         /\ session'[r] = OnDisk(r)'
         /\ \A q \in Replicas \ {r} : OnDisk(q)' = OnDisk(q) /\ session'[q] = session[q]
<1> DEFINE held == [version |-> OnDisk(r).objects[o].version + 1, by |-> r]
<1>1. InSession(r) = OnDisk(r) /\ r \notin shut
  BY DEF InSession, TurnsInv
<1>2. /\ AppendEntry(r, OnDisk(r), o, held)
      /\ session' = [session EXCEPT ![r] = With(OnDisk(r), o, held)]
  BY <1>1 DEF Edit
<1>3. OnDisk(r).objects = store[r] /\ OnDisk(r).generation = generation[r]
  BY DEF OnDisk
<1>4. Edited(r, o)
  <2>1. Put(r, o, held)
    BY <1>1, <1>2, AppendPuts
  <2> QED
    BY <1>1, <1>3, <2>1 DEF Edit, Edited, cloud, handshake
<1> HIDE DEF held
<1>5. /\ shut' = shut /\ OnDisk(r)' = With(OnDisk(r), o, held)
      /\ \A q \in Replicas \ {r} : OnDisk(q)' = OnDisk(q)
  BY <1>1, <1>2, AppendPuts
<1> QED
  BY <1>2, <1>4, <1>5 DEF TypeOK

\* An envelope on such a handshake's page.
Applied(r, i) ==
  LET outcome == Outcome(store[r][i.object], i, mem[r])
  IN /\ at[r] = "apply" /\ IsNext(r, i)
     /\ \/ /\ outcome = "skip"
           /\ Whole(r, i)
           /\ UNCHANGED <<store, generation, at, mem, conflicts>>
        \/ /\ outcome = "apply"
           /\ Put(r, i.object, [version |-> i.version, by |-> i.by])
           /\ Whole(r, i)
           /\ UNCHANGED <<at, mem, conflicts>>
        \/ /\ outcome \in Reasons
           /\ Conflicted(r, i, outcome)
           /\ UNCHANGED <<store, generation, page>>
     /\ UNCHANGED <<latest, rows, sent, owing, queued, lost, edits, cursor, stage, file>>

LEMMA ApplyPuts ==
  ASSUME TypeOK, NEW r \in Replicas, TurnsInv(r), NEW i \in page[r].left, Apply(r, i)
  PROVE  /\ Applied(r, i) /\ shut' = shut
         /\ loaded'[r] = OnDisk(r)'
         /\ \A q \in Replicas \ {r} : OnDisk(q)' = OnDisk(q) /\ loaded'[q] = loaded[q]
<1> USE DEF cloud, directory, outbox
<1> DEFINE held == [version |-> i.version, by |-> i.by]
           outcome == Outcome(store[r][i.object], i, mem[r])
<1>1. loaded[r] = OnDisk(r) /\ r \notin shut /\ at[r] = "apply" /\ IsNext(r, i)
  BY DEF TurnsInv, Apply
<1>2. loaded[r].objects[i.object] = store[r][i.object]
  BY <1>1 DEF OnDisk
<1>3. i.object \in Objects
  BY DEF TypeOK, Page, Row, File
<1>4. UNCHANGED <<latest, rows, sent, owing, queued, lost, edits, cursor, stage, file>>
  BY DEF Apply
<1>5. CASE /\ outcome = "apply" /\ AppendEntry(r, loaded[r], i.object, held)
           /\ loaded' = [loaded EXCEPT ![r] = With(loaded[r], i.object, held)]
           /\ Whole(r, i) /\ UNCHANGED <<at, mem, conflicts>>
  <2> HIDE DEF held, outcome
  <2>1. /\ Put(r, i.object, held) /\ shut' = shut
        /\ OnDisk(r)' = With(OnDisk(r), i.object, held)
        /\ \A q \in Replicas \ {r} : OnDisk(q)' = OnDisk(q)
    BY <1>1, <1>3, <1>5, AppendPuts
  <2>2. loaded'[r] = OnDisk(r)' /\ \A q \in Replicas \ {r} : loaded'[q] = loaded[q]
    BY <1>1, <1>5, <2>1 DEF TypeOK
  <2>3. Applied(r, i)
    BY <1>1, <1>4, <1>5, <2>1 DEF Applied, held, outcome
  <2> QED
    BY <2>1, <2>2, <2>3
<1>6. CASE /\ outcome = "skip" /\ Whole(r, i)
           /\ UNCHANGED <<store, generation, shut, at, loaded, mem, conflicts>>
  <2>1. Applied(r, i)
    BY <1>1, <1>4, <1>6 DEF Applied
  <2> QED
    BY <1>1, <1>6, <2>1 DEF OnDisk
<1>7. CASE /\ outcome \in Reasons /\ Conflicted(r, i, outcome)
           /\ UNCHANGED <<store, generation, shut, loaded, page>>
  <2>1. Applied(r, i)
    BY <1>1, <1>4, <1>7 DEF Applied
  <2> QED
    BY <1>1, <1>7, <2>1 DEF OnDisk
<1> QED
  BY <1>2, <1>5, <1>6, <1>7 DEF Apply

\* Such a handshake leaves the directory as it is when it compacts it.
LEMMA CompactKeeps ==
  ASSUME TypeOK, NEW r \in Replicas, TurnsInv(r), Compact(r)
  PROVE  store' = store /\ generation' = generation /\ shut' = shut
<1>1. loaded[r] = OnDisk(r) /\ r \notin shut
  BY DEF TurnsInv, Compact
<1>2. loaded[r].objects = store[r] /\ loaded[r].generation = generation[r]
  BY <1>1 DEF OnDisk
<1> QED
  BY <1>1, <1>2 DEF Compact, TypeOK

LEMMA TurnsStep ==
  ASSUME TakeTurns, TypeOK, [Next]_vars, \A q \in Replicas : TurnsInv(q)
  PROVE  \A q \in Replicas : TurnsInv(q)'
<1> USE DEF cloud, directory, outbox, handshake
\* A step of one replica, r, that leaves the others alone.
<1>1. ASSUME NEW r \in Replicas, TurnsInv(r)', shut' = shut,
             \A q \in Replicas \ {r} :
               /\ OnDisk(q)' = OnDisk(q) /\ session'[q] = session[q]
               /\ at'[q] = at[q] /\ loaded'[q] = loaded[q]
      PROVE  \A q \in Replicas : TurnsInv(q)'
  BY <1>1 DEF TurnsInv
<1>2. ASSUME NEW r \in Replicas, NEW o \in Objects, Edit(r, o)
      PROVE  \A q \in Replicas : TurnsInv(q)'
  <2>1. /\ shut' = shut /\ session'[r] = OnDisk(r)'
        /\ \A q \in Replicas \ {r} : OnDisk(q)' = OnDisk(q) /\ session'[q] = session[q]
    BY <1>2, EditPuts
  <2>2. at[r] = "idle" /\ at' = at /\ loaded' = loaded
    BY <1>2 DEF Edit
  <2>3. TurnsInv(r)'
    BY <2>1, <2>2 DEF TurnsInv
  <2> QED
    BY <1>1, <2>1, <2>2, <2>3
<1>3. ASSUME NEW r \in Replicas, NEW i \in page[r].left, Apply(r, i)
      PROVE  \A q \in Replicas : TurnsInv(q)'
  <2>1. /\ shut' = shut /\ loaded'[r] = OnDisk(r)'
        /\ \A q \in Replicas \ {r} : OnDisk(q)' = OnDisk(q) /\ loaded'[q] = loaded[q]
    BY <1>3, ApplyPuts
  <2>2. /\ session' = session /\ at[r] = "apply"
        /\ \A q \in Replicas \ {r} : at'[q] = at[q]
    BY <1>3 DEF Apply, Conflicted, Goto, TypeOK
  <2>3. TurnsInv(r)'
    BY <2>1, <2>2 DEF TurnsInv
  <2> QED
    BY <1>1, <2>1, <2>2, <2>3
<1>4. ASSUME NEW r \in Replicas, Open(r)
      PROVE  \A q \in Replicas : TurnsInv(q)'
  <2>1. /\ store' = store /\ generation' = generation /\ shut' = shut
        /\ session' = session /\ session[r] = NoStore /\ loaded'[r] = OnDisk(r)
        /\ \A q \in Replicas \ {r} : at'[q] = at[q] /\ loaded'[q] = loaded[q]
    BY <1>4 DEF Open, Goto, TypeOK
  <2>2. \A q \in Replicas : OnDisk(q)' = OnDisk(q)
    BY <2>1 DEF OnDisk
  <2>3. TurnsInv(r)'
    BY <2>1, <2>2 DEF TurnsInv
  <2> QED
    BY <1>1, <2>1, <2>2, <2>3
\* The other steps leave the directories alone, and leave or close what is open.
<1>5. ASSUME store' = store, generation' = generation, shut' = shut,
             \A q \in Replicas :
               /\ session'[q] = session[q] \/ session'[q] = NoStore
               /\ \/ at'[q] = "idle"
                  \/ at[q] # "idle" /\ loaded'[q] = loaded[q]
      PROVE  \A q \in Replicas : TurnsInv(q)'
  <2>1. \A q \in Replicas : OnDisk(q)' = OnDisk(q)
    BY <1>5 DEF OnDisk
  <2> QED
    BY <1>5, <2>1 DEF TurnsInv
<1>6. CASE UNCHANGED vars
  BY <1>5, <1>6 DEF vars
<1>7. ASSUME NEW r \in Replicas, NEW f \in owing[r], Enqueue(r, f)
      PROVE  \A q \in Replicas : TurnsInv(q)'
  BY <1>5, <1>7 DEF Enqueue
<1>8. ASSUME NEW r \in Replicas, EnqueueFails(r) \/ Leave(r) \/ RemoveCursor(r)
      PROVE  \A q \in Replicas : TurnsInv(q)'
  <2>1. /\ store' = store /\ generation' = generation /\ shut' = shut
        /\ at' = at /\ loaded' = loaded
        /\ \A q \in Replicas : session'[q] = session[q] \/ session'[q] = NoStore
    BY <1>8 DEF EnqueueFails, Leave, RemoveCursor, TypeOK
  <2> QED
    BY <1>5, <2>1
<1>9. ASSUME NEW r \in Replicas,
             \/ Pull(r) \/ Status(r) \/ PageDone(r) \/ Submit(r) \/ Accepted(r) \/ Refused(r)
             \/ WriteCursor(r) \/ RequestFails(r)
      PROVE  \A q \in Replicas : TurnsInv(q)'
  <2>1. /\ store' = store /\ generation' = generation /\ shut' = shut
        /\ session' = session /\ loaded' = loaded /\ at[r] # "idle"
    BY <1>9 DEF Pull, Status, PageDone, Submit, Accepted, Refused, WriteCursor, RequestFails
  <2>2. \A q \in Replicas \ {r} : at'[q] = at[q]
    BY <1>9 DEF Pull, Status, PageDone, Proceed, Submit, Accepted, Refused, WriteCursor,
                RequestFails, Goto, TypeOK
  <2> QED
    BY <1>5, <2>1, <2>2
<1>10. ASSUME NEW r \in Replicas, Compact(r) \/ Crash(r) \/ CursorTorn(r)
       PROVE  \A q \in Replicas : TurnsInv(q)'
  <2>1. store' = store /\ generation' = generation /\ shut' = shut
    BY <1>10, CompactKeeps DEF Crash, CursorTorn
  <2>2. session' = session /\ Close(r)
    BY <1>10 DEF Compact, Crash, CursorTorn
  <2>3. at'[r] = "idle" /\ \A q \in Replicas \ {r} : at'[q] = at[q] /\ loaded'[q] = loaded[q]
    BY <2>2 DEF Close, Goto, TypeOK
  <2> QED
    BY <1>5, <2>1, <2>2, <2>3
<1> QED
  BY <1>2, <1>3, <1>4, <1>6, <1>7, <1>8, <1>9, <1>10 DEF Next, Handshake
-----------------------------------------------------------------------------
(* What the cursors vouch for *)

\* A step that leaves a replica and the cloud alone.
Same(q) ==
  /\ store'[q] = store[q] /\ cursor'[q] = cursor[q]
  /\ at'[q] = at[q] /\ mem'[q] = mem[q] /\ page'[q] = page[q]

LEMMA Frame ==
  ASSUME NEW q \in Replicas, ReplicaInv(q), Same(q), rows' = rows, latest' = latest
  PROVE  ReplicaInv(q)'
  BY DEF ReplicaInv, Same, Vouched, Covers, PageInv, OnPage

\* What a store vouches for it goes on vouching for while versions grow.
LEMMA VouchedGrows ==
  ASSUME TypeOK, TypeOK', NEW r \in Replicas, NEW n \in Nat, Vouched(r, n), rows' = rows,
         \A o \in Objects : store[r][o].version <= store'[r][o].version
  PROVE  Vouched(r, n)'
<1> SUFFICES ASSUME NEW i \in rows, i.generation <= n
             PROVE  store'[r][i.object].version >= i.version
  BY DEF Vouched, Covers
<1>1. i.object \in Objects /\ i.version \in Nat
  BY DEF TypeOK, Row, File
<1>2. store[r][i.object].version \in Nat /\ store'[r][i.object].version \in Nat
  BY <1>1 DEF TypeOK, Held
<1>3. store[r][i.object].version >= i.version
  BY DEF Vouched, Covers
<1> QED
  BY <1>1, <1>2, <1>3

\* The replica whose daemon or server takes a step.
LEMMA EditVouches ==
  ASSUME TypeOK, TypeOK', NEW r \in Replicas, NEW o \in Objects, Edited(r, o), at[r] = "idle",
         ReplicaInv(r)
  PROVE  ReplicaInv(r)'
<1>1. rows' = rows /\ latest' = latest /\ cursor' = cursor /\ at' = at
  BY DEF Edited
<1>2. ASSUME NEW p \in Objects
      PROVE  store[r][p].version <= store'[r][p].version
  <2>1. store[r][p].version \in Nat
    BY DEF TypeOK, Held
  <2>2. CASE p = o
    <3>1. store'[r][p] = [version |-> store[r][p].version + 1, by |-> r]
      BY <2>2 DEF Edited, Put, TypeOK
    <3> QED
      BY <2>1, <3>1
  <2>3. CASE p # o
    <3>1. store'[r][p] = store[r][p]
      BY <2>3 DEF Edited, Put, TypeOK
    <3> QED
      BY <2>1, <3>1
  <2> QED
    BY <2>2, <2>3
<1>3. Vouched(r, cursor[r])'
  BY <1>1, <1>2, VouchedGrows DEF ReplicaInv, TypeOK
<1> QED
  BY <1>1, <1>3 DEF ReplicaInv

LEMMA PullVouches ==
  ASSUME TypeOK, NEW r \in Replicas, Pull(r), ReplicaInv(r), RowsInv
  PROVE  ReplicaInv(r)'
<1> DEFINE through == IF mem[r] + PageSize < latest THEN mem[r] + PageSize ELSE latest
<1>1. /\ rows' = rows /\ latest' = latest /\ cursor' = cursor /\ mem' = mem /\ store' = store
      /\ at'[r] = "apply"
  BY DEF Pull, cloud, directory, Goto, TypeOK
<1>2. /\ page'[r].left = {i \in rows : mem[r] < i.generation /\ i.generation <= through}
      /\ page'[r].whole = mem[r] /\ page'[r].through = through
  BY DEF Pull, TypeOK
<1>3. through <= latest
  BY AgentAssumption DEF TypeOK
<1> HIDE DEF through
<1>4. mem[r] <= latest /\ Vouched(r, mem[r]) /\ mem[r] \in Nat
  BY DEF ReplicaInv, Pull, TypeOK
<1>5. ASSUME NEW i \in rows, i.generation <= through
      PROVE  Covers(r, i) \/ i \in page'[r].left
  <2>1. i.generation \in Nat
    BY DEF TypeOK, Row, File
  <2> QED
    BY <1>2, <1>4, <1>5, <2>1 DEF Vouched
<1>6. \A i, j \in page'[r].left : i.generation = j.generation => i = j
  BY <1>2 DEF RowsInv
<1>7. PageInv(r)'
  BY <1>1, <1>2, <1>3, <1>4, <1>5, <1>6 DEF PageInv, Vouched, Covers, OnPage
<1> QED
  BY <1>1, <1>4, <1>7 DEF ReplicaInv, Vouched, Covers

\* The next envelope of the page, once the store has that version or a later one,
\* makes its generation whole.
LEMMA WholeVouches ==
  ASSUME TypeOK, TypeOK', NEW r \in Replicas, PageInv(r), rows' = rows, latest' = latest,
         NEW i \in page[r].left, IsNext(r, i), Whole(r, i),
         \A o \in Objects : store[r][o].version <= store'[r][o].version,
         store'[r][i.object].version >= i.version
  PROVE  PageInv(r)'
<1>1. /\ page'[r].left = page[r].left \ {i} /\ page'[r].whole = i.generation
      /\ page'[r].through = page[r].through
  BY DEF Whole, TypeOK
<1>2. ASSUME NEW j \in rows, Covers(r, j)
      PROVE  Covers(r, j)'
  <2>1. j.object \in Objects /\ j.version \in Nat
    BY DEF TypeOK, Row, File
  <2>2. store[r][j.object].version \in Nat /\ store'[r][j.object].version \in Nat
    BY <2>1 DEF TypeOK, Held
  <2> QED
    BY <2>1, <2>2, <1>2 DEF Covers
<1>3. ASSUME NEW j \in rows, j.generation <= page[r].through
      PROVE  Covers(r, j)' \/ j \in page[r].left \ {i}
  BY <1>2, <1>3 DEF PageInv, Covers
<1>4. ASSUME NEW j \in rows, j.generation <= i.generation
      PROVE  Covers(r, j)'
  <2>1. i.generation \in Nat /\ j.generation \in Nat /\ page[r].through \in Nat
    BY DEF TypeOK, Page, Row, File
  <2>2. CASE j.generation <= page[r].through
    <3>1. CASE j \in page[r].left \ {i}
      <4>1. j.generation = i.generation
        BY <1>4, <2>1, <3>1 DEF IsNext
      <4> QED
        BY <4>1, <3>1 DEF PageInv
    <3> QED
      BY <1>3, <2>2, <3>1
  <2>3. CASE ~(j.generation <= page[r].through)
    <3>1. i.generation <= page[r].through
      BY DEF OnPage, PageInv
    <3> QED
      BY <1>4, <2>1, <2>3, <3>1
  <2> QED
    BY <2>2, <2>3
<1>5. OnPage(r)'
  <2>1. i.generation \in Nat /\ page[r].through \in Nat /\ latest \in Nat
    BY DEF TypeOK, Page, Row, File
  <2> QED
    BY <1>1, <2>1 DEF PageInv, OnPage
<1> QED
  BY <1>1, <1>3, <1>4, <1>5 DEF PageInv, Vouched, Covers

LEMMA ApplyVouches ==
  ASSUME TypeOK, TypeOK', NEW r \in Replicas, NEW i \in page[r].left, Applied(r, i), ReplicaInv(r)
  PROVE  ReplicaInv(r)'
<1> DEFINE have == store[r][i.object]
           outcome == Outcome(have, i, mem[r])
<1>1. rows' = rows /\ latest' = latest /\ cursor' = cursor
  BY DEF Applied
<1>2. at[r] = "apply" /\ IsNext(r, i) /\ PageInv(r)
  BY DEF Applied, ReplicaInv
<1>3. i.object \in Objects /\ i.version \in Nat /\ have.version \in Nat
  BY DEF TypeOK, Page, Row, File, Held
<1>4. ASSUME NEW o \in Objects
      PROVE  store[r][o].version \in Nat
  BY DEF TypeOK, Held
<1>5. CASE outcome = "skip" /\ Whole(r, i) /\ UNCHANGED <<store, at, mem>>
  <2>1. have.version >= i.version
    BY <1>5, <1>3 DEF Outcome
  <2>2. \A o \in Objects : store[r][o].version <= store'[r][o].version
    BY <1>4, <1>5
  <2>3. PageInv(r)'
    BY <1>1, <1>2, <1>3, <1>5, <2>1, <2>2, WholeVouches
  <2> QED
    BY <1>1, <1>2, <1>5, <2>3 DEF ReplicaInv, Vouched, Covers
<1>6. CASE /\ outcome = "apply" /\ Whole(r, i)
           /\ Put(r, i.object, [version |-> i.version, by |-> i.by])
           /\ UNCHANGED <<at, mem>>
  <2>1. have.version < i.version
    BY <1>6, <1>3 DEF Outcome
  <2>2. store'[r][i.object].version = i.version
    BY <1>3, <1>6 DEF Put, TypeOK
  <2>3. ASSUME NEW o \in Objects
        PROVE  store[r][o].version <= store'[r][o].version
    <3>1. CASE o = i.object
      BY <3>1, <1>3, <2>1, <2>2
    <3>2. CASE o # i.object
      <4>1. store'[r][o] = store[r][o]
        BY <1>6, <3>2 DEF Put, TypeOK
      <4> QED
        BY <1>4, <4>1
    <3> QED
      BY <3>1, <3>2
  <2>4. PageInv(r)'
    <3>1. store'[r][i.object].version >= i.version
      BY <1>3, <2>2
    <3> QED
      BY <1>1, <1>2, <1>6, <2>3, <3>1, WholeVouches
  <2>5. Vouched(r, cursor[r])' /\ Vouched(r, mem[r])'
    BY <1>1, <1>2, <1>6, <2>3, VouchedGrows DEF ReplicaInv, TypeOK
  <2> QED
    BY <1>1, <1>2, <1>6, <2>4, <2>5 DEF ReplicaInv
<1>7. CASE Conflicted(r, i, outcome) /\ UNCHANGED <<store, page>>
  <2>1. at'[r] = "write" /\ mem'[r] = page[r].whole
    BY <1>7 DEF Conflicted, Goto, TypeOK
  <2>2. page[r].whole <= latest
    BY <1>2 DEF PageInv, OnPage
  <2> QED
    BY <1>1, <1>2, <1>7, <2>1, <2>2 DEF ReplicaInv, PageInv, Vouched, Covers
<1> QED
  BY <1>5, <1>6, <1>7 DEF Applied

LEMMA ProceedLeaves ==
  ASSUME TypeOK, NEW r \in Replicas, Proceed(r)
  PROVE  at'[r] \in {"write", "status", "submit"}
  BY DEF Proceed, Goto, TypeOK

LEMMA PageDoneVouches ==
  ASSUME TypeOK, NEW r \in Replicas, PageDone(r), ReplicaInv(r)
  PROVE  ReplicaInv(r)'
<1>1. rows' = rows /\ latest' = latest /\ cursor' = cursor /\ store' = store
  BY DEF PageDone, cloud, directory
<1>2. PageInv(r) /\ page[r].left = {}
  BY DEF PageDone, ReplicaInv
<1>3. mem'[r] = page[r].through
  BY DEF PageDone, TypeOK
<1>4. page[r].through <= latest /\ Vouched(r, page[r].through)
  BY <1>2 DEF PageInv, OnPage, Vouched
<1>5. at'[r] \in {"write", "status", "submit"}
  BY ProceedLeaves DEF PageDone
<1> QED
  BY <1>1, <1>3, <1>4, <1>5 DEF ReplicaInv, Vouched, Covers

\* A push moves rows to a generation no cursor has reached.
LEMMA SubmitVouches ==
  ASSUME TypeOK, NEW r \in Replicas, Submit(r), NEW q \in Replicas, ReplicaInv(q)
  PROVE  ReplicaInv(q)'
<1> DEFINE row == [generation |-> latest + 1, object |-> file[r].object,
                   version |-> file[r].version, by |-> file[r].by]
<1>1. rows' \subseteq rows \cup {row} /\ latest' \in {latest, latest + 1}
  BY DEF Submit, cloud
<1>2. store' = store /\ cursor' = cursor /\ mem' = mem /\ page' = page
  BY DEF Submit, directory
<1>3. /\ at[q] # "idle" <=> at'[q] # "idle"
      /\ at'[q] = "apply" => at'[q] = at[q]
  BY DEF Submit, Goto, TypeOK
<1>4. latest \in Nat /\ cursor[q] \in Nat /\ mem[q] \in Nat /\ page[q] \in Page
  BY DEF TypeOK
<1>5. ASSUME NEW n \in Nat, n <= latest, NEW i \in rows', i.generation <= n
      PROVE  i \in rows
  <2>1. row.generation = latest + 1
    OBVIOUS
  <2> HIDE DEF row
  <2> QED
    BY <1>1, <1>4, <1>5, <2>1
<1>6. ASSUME NEW n \in Nat, n <= latest, Vouched(q, n)
      PROVE  Vouched(q, n)'
  BY <1>2, <1>5, <1>6 DEF Vouched, Covers
<1>7. cursor[q] <= latest' /\ Vouched(q, cursor[q])'
  <2>1. cursor[q] <= latest /\ Vouched(q, cursor[q])
    BY DEF ReplicaInv
  <2> QED
    BY <1>1, <1>2, <1>4, <1>6, <2>1 DEF Vouched
<1>8. at'[q] # "idle" => mem[q] <= latest' /\ Vouched(q, mem[q])'
  <2>1. at'[q] # "idle" => mem[q] <= latest /\ Vouched(q, mem[q])
    BY <1>3 DEF ReplicaInv
  <2> QED
    BY <1>1, <1>2, <1>4, <1>6, <2>1 DEF Vouched
<1>9. at'[q] = "apply" => PageInv(q)'
  <2> SUFFICES ASSUME at[q] = "apply"
               PROVE  PageInv(q)'
    BY <1>3
  <2>1. PageInv(q) /\ page[q].whole \in Nat /\ page[q].through \in Nat
    BY <1>4 DEF ReplicaInv, Page
  <2>2. page[q].whole <= latest /\ page[q].through <= latest
    BY <2>1 DEF PageInv, OnPage
  <2>3. Vouched(q, page[q].whole)'
    <3>1. Vouched(q, page[q].whole)
      BY <2>1 DEF PageInv
    <3> QED
      BY <1>2, <1>6, <2>1, <2>2, <3>1 DEF Vouched
  <2>4. OnPage(q)'
    BY <1>1, <1>2, <1>4, <2>1, <2>2 DEF PageInv, OnPage
  <2>5. \A i \in rows' : i.generation <= page[q].through => Covers(q, i) \/ i \in page[q].left
    BY <1>5, <2>1, <2>2 DEF PageInv
  <2> QED
    BY <1>2, <2>1, <2>3, <2>4, <2>5 DEF PageInv, Vouched, Covers
<1> QED
  BY <1>2, <1>7, <1>8, <1>9 DEF ReplicaInv, Vouched, Covers

\* Every step of any replica.
LEMMA ReplicaStep ==
  ASSUME TakeTurns, TypeOK, TypeOK', [Next]_vars, RowsInv,
         \A q \in Replicas : TurnsInv(q) /\ ReplicaInv(q)
  PROVE  \A q \in Replicas : ReplicaInv(q)'
<1> USE DEF cloud, directory, outbox, handshake
<1>1. CASE UNCHANGED vars
  BY <1>1, Frame DEF Same, vars
<1>2. ASSUME NEW r \in Replicas, Submit(r)
      PROVE  \A q \in Replicas : ReplicaInv(q)'
  BY <1>2, SubmitVouches
<1>3. ASSUME NEW r \in Replicas, rows' = rows, latest' = latest, ReplicaInv(r)',
             \A q \in Replicas \ {r} : Same(q)
      PROVE  \A q \in Replicas : ReplicaInv(q)'
  BY <1>3, Frame
<1>4. ASSUME NEW r \in Replicas, NEW o \in Objects, Edit(r, o)
      PROVE  \A q \in Replicas : ReplicaInv(q)'
  <2>0. Edited(r, o) /\ at[r] = "idle"
    BY <1>4, EditPuts DEF Edit
  <2>1. ReplicaInv(r)'
    BY <2>0, EditVouches
  <2>2. \A q \in Replicas \ {r} : Same(q)
    BY <2>0 DEF Edited, Put, Same, TypeOK
  <2> QED
    BY <1>3, <2>0, <2>1, <2>2 DEF Edited
<1>5. ASSUME NEW r \in Replicas,
             \/ \E f \in owing[r] : Enqueue(r, f)
             \/ EnqueueFails(r) \/ Leave(r) \/ RemoveCursor(r)
      PROVE  \A q \in Replicas : ReplicaInv(q)'
  <2>1. rows' = rows /\ latest' = latest /\ \A q \in Replicas : Same(q)
    BY <1>5 DEF Enqueue, EnqueueFails, Leave, RemoveCursor, Same
  <2> QED
    BY <2>1, Frame
<1>6. ASSUME NEW r \in Replicas, Pull(r)
      PROVE  \A q \in Replicas : ReplicaInv(q)'
  <2>1. ReplicaInv(r)'
    BY <1>6, PullVouches
  <2>2. \A q \in Replicas \ {r} : Same(q)
    BY <1>6 DEF Pull, Goto, Same, TypeOK
  <2> QED
    BY <1>3, <1>6, <2>1, <2>2 DEF Pull
<1>7. ASSUME NEW r \in Replicas, NEW i \in page[r].left, Apply(r, i)
      PROVE  \A q \in Replicas : ReplicaInv(q)'
  <2>0. Applied(r, i)
    BY <1>7, ApplyPuts
  <2>1. ReplicaInv(r)'
    BY <2>0, ApplyVouches
  <2>2. \A q \in Replicas \ {r} : Same(q)
    BY <2>0 DEF Applied, Put, Whole, Conflicted, Goto, Same, TypeOK
  <2> QED
    BY <1>3, <2>0, <2>1, <2>2 DEF Applied
<1>9. ASSUME NEW r \in Replicas, PageDone(r)
      PROVE  \A q \in Replicas : ReplicaInv(q)'
  <2>1. ReplicaInv(r)'
    BY <1>9, PageDoneVouches
  <2>2. \A q \in Replicas \ {r} : Same(q)
    BY <1>9 DEF PageDone, Proceed, Goto, Same, TypeOK
  <2> QED
    BY <1>3, <1>9, <2>1, <2>2 DEF PageDone
<1>10. ASSUME NEW r \in Replicas,
              \/ Open(r) \/ Status(r) \/ Accepted(r) \/ Refused(r) \/ WriteCursor(r)
              \/ Compact(r) \/ RequestFails(r) \/ Crash(r) \/ CursorTorn(r)
       PROVE  \A q \in Replicas : ReplicaInv(q)'
  <2>1. rows' = rows /\ latest' = latest /\ store' = store
    BY <1>10, CompactKeeps
    DEF Open, Status, Accepted, Refused, WriteCursor, Compact, RequestFails, Crash, CursorTorn
  <2>2. /\ at'[r] # "apply"
        /\ \/ at'[r] = "idle" /\ cursor'[r] \in {cursor[r], 0}
           \/ mem'[r] = cursor[r] /\ cursor'[r] = cursor[r]
           \/ mem'[r] = mem[r] /\ cursor'[r] \in {cursor[r], mem[r]} /\ at[r] # "idle"
    BY <1>10, ProceedLeaves
    DEF Open, Status, Accepted, Refused, WriteCursor, Compact, RequestFails, Crash, CursorTorn,
        Close, Goto, TypeOK
  <2>3. 0 <= latest /\ Vouched(r, 0)
    BY DEF TypeOK, RowsInv, Vouched, Row, File
  <2>4. ReplicaInv(r)'
    BY <2>1, <2>2, <2>3 DEF ReplicaInv, Vouched, Covers
  <2>5. \A q \in Replicas \ {r} : Same(q)
    BY <1>10, <2>1 DEF Open, Status, Proceed, Accepted, Refused, WriteCursor, Compact,
                 RequestFails, Crash, CursorTorn, Close, Goto, Same, TypeOK
  <2> QED
    BY <1>3, <2>1, <2>4, <2>5
<1> QED
  BY <1>1, <1>2, <1>4, <1>5, <1>6, <1>7, <1>9, <1>10 DEF Next, Handshake
-----------------------------------------------------------------------------
(* The cloud, and the changes on their way to it *)

\* Only a push changes the cloud.
LEMMA CloudMoves ==
  ASSUME [Next]_vars
  PROVE  UNCHANGED <<latest, rows, sent>> \/ \E r \in Replicas : Submit(r)
<1> USE DEF cloud
<1>1. CASE UNCHANGED vars
  BY <1>1 DEF vars
<1>2. ASSUME NEW r \in Replicas, NEW o \in Objects, Edit(r, o)
      PROVE  UNCHANGED <<latest, rows, sent>>
  BY <1>2 DEF Edit
<1>3. ASSUME NEW r \in Replicas, NEW f \in owing[r], Enqueue(r, f)
      PROVE  UNCHANGED <<latest, rows, sent>>
  BY <1>3 DEF Enqueue
<1>4. ASSUME NEW r \in Replicas, NEW i \in page[r].left, Apply(r, i)
      PROVE  UNCHANGED <<latest, rows, sent>>
  BY <1>4 DEF Apply
<1>5. ASSUME NEW r \in Replicas,
             \/ EnqueueFails(r) \/ Leave(r) \/ Open(r) \/ Status(r) \/ Pull(r) \/ PageDone(r)
             \/ Accepted(r) \/ Refused(r) \/ WriteCursor(r) \/ Compact(r) \/ RequestFails(r)
             \/ Crash(r) \/ CursorTorn(r) \/ RemoveCursor(r)
      PROVE  UNCHANGED <<latest, rows, sent>>
  BY <1>5 DEF EnqueueFails, Leave, Open, Status, Pull, PageDone, Accepted, Refused,
              WriteCursor, Compact, RequestFails, Crash, CursorTorn, RemoveCursor
<1> QED
  BY <1>1, <1>2, <1>3, <1>4, <1>5 DEF Next, Handshake

LEMMA RowsStep ==
  ASSUME TypeOK, RowsInv, [Next]_vars
  PROVE  RowsInv'
<1>1. CASE UNCHANGED <<latest, rows, sent>>
  BY <1>1 DEF RowsInv
<1>2. ASSUME NEW r \in Replicas, Submit(r)
      PROVE  RowsInv'
  <2> DEFINE row == [generation |-> latest + 1, object |-> file[r].object,
                     version |-> file[r].version, by |-> file[r].by]
  <2>1. CASE rows' = rows /\ latest' \in {latest, latest + 1}
    <3>1. latest \in Nat /\ \A i \in rows : i.generation \in Nat
      BY DEF TypeOK, Row, File
    <3> QED
      BY <2>1, <3>1 DEF RowsInv
  <2>2. CASE rows' \subseteq rows \cup {row} /\ latest' = latest + 1
    <3>1. latest \in Nat /\ \A i \in rows : i.generation \in Nat
      BY DEF TypeOK, Row, File
    <3>2. row.generation = latest + 1
      OBVIOUS
    <3> HIDE DEF row
    <3> QED
      BY <2>2, <3>1, <3>2 DEF RowsInv
  <2> QED
    BY <1>2, <2>1, <2>2 DEF Submit, cloud
<1> QED
  BY <1>1, <1>2, CloudMoves

LEMMA SentGrows ==
  ASSUME [Next]_vars
  PROVE  sent \subseteq sent'
<1>1. CASE UNCHANGED <<latest, rows, sent>>
  BY <1>1
<1>2. ASSUME NEW r \in Replicas, Submit(r)
      PROVE  sent \subseteq sent'
  BY <1>2 DEF Submit, cloud
<1> QED
  BY <1>1, <1>2, CloudMoves

\* A push that is accepted leaves its file's change with the cloud.
LEMMA SubmitTakes ==
  ASSUME TypeOK, NEW r \in Replicas, Submit(r), at'[r] = "accepted"
  PROVE  \/ file[r].object \in Withheld
         \/ \E i \in sent' : Carried(i) = Carried(file[r])
<1> DEFINE row == [generation |-> latest + 1, object |-> file[r].object,
                   version |-> file[r].version, by |-> file[r].by]
<1>1. Carried(row) = Carried(file[r])
  BY DEF Carried
<1>2. file[r].object \in Withheld \/ sent' = sent \cup {row}
  BY DEF Submit, Goto, TypeOK
<1> QED
  BY <1>1, <1>2

LEMMA TakenStep ==
  ASSUME TypeOK, [Next]_vars, \A q \in Replicas : TakenInv(q)
  PROVE  \A q \in Replicas : TakenInv(q)'
<1> SUFFICES ASSUME NEW q \in Replicas, at'[q] = "accepted"
             PROVE  \/ file'[q].object \in Withheld
                    \/ \E i \in sent' : Carried(i) = Carried(file'[q])
  BY DEF TakenInv
<1>1. CASE at[q] = "accepted" /\ file'[q] = file[q]
  BY <1>1, SentGrows DEF TakenInv
<1>2. CASE Submit(q)
  <2>1. file' = file
    BY <1>2 DEF Submit
  <2> QED
    BY <1>2, <2>1, SubmitTakes
<1> USE DEF Goto, TypeOK, cloud, directory, outbox, handshake
<1>3. CASE UNCHANGED vars
  BY <1>1, <1>3 DEF vars
<1>4. ASSUME NEW r \in Replicas, NEW o \in Objects, Edit(r, o)
      PROVE  at[q] = "accepted" /\ file'[q] = file[q]
  BY <1>4 DEF Edit
<1>5. ASSUME NEW r \in Replicas, NEW f \in owing[r], Enqueue(r, f)
      PROVE  at[q] = "accepted" /\ file'[q] = file[q]
  BY <1>5 DEF Enqueue
<1>6. ASSUME NEW r \in Replicas, NEW i \in page[r].left, Apply(r, i)
      PROVE  at[q] = "accepted" /\ file'[q] = file[q]
  BY <1>6 DEF Apply, Conflicted
<1>7. ASSUME NEW r \in Replicas, Status(r) \/ PageDone(r)
      PROVE  at[q] = "accepted" /\ file'[q] = file[q]
  <2>1. CASE q = r
    BY <1>7, <2>1, ProceedLeaves DEF Status, PageDone
  <2>2. CASE q # r
    BY <1>7, <2>2 DEF Status, PageDone, Proceed
  <2> QED
    BY <2>1, <2>2
<1>8. ASSUME NEW r \in Replicas,
             \/ EnqueueFails(r) \/ Leave(r) \/ Open(r) \/ Pull(r) \/ Accepted(r) \/ Refused(r)
             \/ WriteCursor(r) \/ Compact(r) \/ RequestFails(r) \/ Crash(r) \/ CursorTorn(r)
             \/ RemoveCursor(r)
      PROVE  at[q] = "accepted" /\ file'[q] = file[q]
  BY <1>8 DEF EnqueueFails, Leave, Open, Pull, Accepted, Refused, WriteCursor, Compact,
              RequestFails, Crash, CursorTorn, RemoveCursor, Close
<1>9. ASSUME NEW r \in Replicas, Submit(r)
      PROVE  Submit(q) \/ (at[q] = "accepted" /\ file'[q] = file[q])
  BY <1>9 DEF Submit
<1> QED
  BY <1>1, <1>2, <1>3, <1>4, <1>5, <1>6, <1>7, <1>8, <1>9 DEF Next, Handshake

\* What ChangesKept says of one change.
Kept(e) ==
  \/ e \in lost \/ e.object \in Withheld
  \/ \E r \in Replicas : \E f \in owing[r] \cup queued[r] : Carried(f) = e
  \/ \E i \in sent : Carried(i) = e

LEMMA KeptStep ==
  ASSUME TypeOK, [Next]_vars, ChangesKept, \A q \in Replicas : TakenInv(q)
  PROVE  ChangesKept'
<1>1. \A e \in edits : Kept(e)
  BY DEF ChangesKept, Kept
<1>2. SUFFICES \A e \in edits' : Kept(e)'
  BY DEF ChangesKept, Kept
<1>3. sent \subseteq sent'
  BY SentGrows
<1> USE DEF cloud, outbox, handshake
<1>4. ASSUME UNCHANGED <<owing, queued, lost, edits>>
      PROVE  \A e \in edits' : Kept(e)'
  BY <1>1, <1>3, <1>4 DEF Kept
<1>5. ASSUME NEW r \in Replicas, NEW o \in Objects, Edit(r, o)
      PROVE  \A e \in edits' : Kept(e)'
  <2>1. PICK f : /\ owing' = [owing EXCEPT ![r] = owing[r] \cup {f}]
                 /\ edits' = edits \cup {Carried(f)} /\ queued' = queued /\ lost' = lost
    BY <1>5 DEF Edit
  <2>2. f \in owing'[r] /\ \A q \in Replicas : owing[q] \subseteq owing'[q]
    BY <2>1 DEF TypeOK
  <2>3. Kept(Carried(f))'
    BY <2>2 DEF Kept
  <2>4. ASSUME NEW e \in edits
        PROVE  Kept(e)'
    BY <1>1, <1>3, <2>1, <2>2 DEF Kept
  <2> QED
    BY <2>1, <2>3, <2>4
<1>6. ASSUME NEW r \in Replicas, NEW f \in owing[r], Enqueue(r, f)
      PROVE  \A e \in edits' : Kept(e)'
  <2>1. /\ \A q \in Replicas : owing[q] \cup queued[q] \subseteq owing'[q] \cup queued'[q]
        /\ edits' = edits /\ lost' = lost
    BY <1>6 DEF Enqueue, TypeOK
  <2> QED
    BY <1>1, <1>3, <2>1 DEF Kept
<1>7. ASSUME NEW r \in Replicas, EnqueueFails(r)
      PROVE  \A e \in edits' : Kept(e)'
  <2>1. /\ edits' = edits /\ queued' = queued /\ lost \subseteq lost'
        /\ \A f \in owing[r] : Carried(f) \in lost'
        /\ \A q \in Replicas \ {r} : owing'[q] = owing[q]
    BY <1>7 DEF EnqueueFails, TypeOK
  <2> QED
    BY <1>1, <1>3, <2>1 DEF Kept
<1>8. ASSUME NEW r \in Replicas, Accepted(r)
      PROVE  \A e \in edits' : Kept(e)'
  <2>1. /\ edits' = edits /\ owing' = owing /\ lost' = lost
        /\ \A q \in Replicas : \A f \in queued[q] : f \in queued'[q] \/ (q = r /\ f = file[r])
    BY <1>8 DEF Accepted, TypeOK
  <2>2. file[r].object \in Withheld \/ \E i \in sent : Carried(i) = Carried(file[r])
    BY <1>8 DEF Accepted, TakenInv
  <2>3. Carried(file[r]).object = file[r].object
    BY DEF Carried
  <2> QED
    BY <1>1, <1>3, <2>1, <2>2, <2>3 DEF Kept
<1>9. ASSUME NEW r \in Replicas, NEW i \in page[r].left, Apply(r, i)
      PROVE  UNCHANGED <<owing, queued, lost, edits>>
  BY <1>9 DEF Apply
<1>10. ASSUME NEW r \in Replicas,
              \/ Leave(r) \/ Open(r) \/ Status(r) \/ Pull(r) \/ PageDone(r) \/ Submit(r)
              \/ Refused(r) \/ WriteCursor(r) \/ Compact(r) \/ RequestFails(r) \/ Crash(r)
              \/ CursorTorn(r) \/ RemoveCursor(r)
       PROVE  UNCHANGED <<owing, queued, lost, edits>>
  BY <1>10 DEF Leave, Open, Status, Pull, PageDone, Submit, Refused, WriteCursor, Compact,
               RequestFails, Crash, CursorTorn, RemoveCursor
<1>11. CASE UNCHANGED vars
  BY <1>4, <1>11 DEF vars
<1> QED
  BY <1>4, <1>5, <1>6, <1>7, <1>8, <1>9, <1>10, <1>11 DEF Next, Handshake
-----------------------------------------------------------------------------
(* The theorems *)

LEMMA KeptInvariance == Spec => []KeptInv
<1>1. Init => KeptInv
  BY AgentInitType DEF Init, KeptInv, TakenInv, ChangesKept
<1>2. KeptInv /\ [Next]_vars => KeptInv'
  BY AgentTypeStep, TakenStep, KeptStep DEF KeptInv
<1> QED
  BY <1>1, <1>2, PTL DEF Spec

LEMMA AgentInitInv == Init => AgentInv
<1> SUFFICES ASSUME Init PROVE AgentInv
  OBVIOUS
<1>1. KeptInv
  BY AgentInitType DEF Init, KeptInv, TakenInv, ChangesKept
<1>2. \A r \in Replicas : TurnsInv(r)
  BY DEF Init, TurnsInv
<1>3. RowsInv /\ \A r \in Replicas : ReplicaInv(r)
  BY DEF Init, RowsInv, ReplicaInv, Vouched
<1> QED
  BY <1>1, <1>2, <1>3 DEF AgentInv

LEMMA AgentInvStep ==
  ASSUME TakeTurns, AgentInv, [Next]_vars
  PROVE  AgentInv'
<1>1. TypeOK /\ TypeOK'
  BY AgentTypeStep DEF AgentInv, KeptInv
<1>2. RowsInv'
  BY <1>1, RowsStep DEF AgentInv
<1>3. \A r \in Replicas : TurnsInv(r)'
  BY <1>1, TurnsStep DEF AgentInv
<1>4. \A r \in Replicas : ReplicaInv(r)'
  BY <1>1, ReplicaStep DEF AgentInv
<1>5. KeptInv'
  BY <1>1, TakenStep, KeptStep DEF AgentInv, KeptInv
<1> QED
  BY <1>2, <1>3, <1>4, <1>5 DEF AgentInv

LEMMA AgentInvariance ==
  ASSUME TakeTurns
  PROVE  Spec => []AgentInv
  BY AgentInitInv, AgentInvStep, PTL DEF Spec

\* No cursor file passes an envelope the directory lacks, for any number of replicas,
\* whatever dies, fails or is repeated, as long as editing programs and handshakes of
\* a replica take turns (applyPulledEnvelopes, writeCursor, compact).
THEOREM AgentCursorNeverSkips ==
  ASSUME TakeTurns
  PROVE  Spec => []CursorNeverSkips
<1>1. AgentInv => CursorNeverSkips
  BY DEF AgentInv, ReplicaInv, Vouched, CursorNeverSkips
<1> QED
  BY <1>1, AgentInvariance, PTL

\* A change that was queued stays in its outbox until the cloud has it, also when
\* programs and handshakes overlap (runFileOutboxPushHandshake renames a file only
\* after its push was accepted).
THEOREM AgentChangesKept == Spec => []ChangesKept
<1>1. KeptInv => ChangesKept
  BY DEF KeptInv
<1> QED
  BY <1>1, KeptInvariance, PTL

\* The cloud's generation moves only with a push from a replica that has
\* everything the cloud serves, as long as programs and handshakes take turns
\* (pullRemoteThrough before submitSyncBatch, and the sequencer's check of the base).
THEOREM AgentPushOnTop ==
  ASSUME TakeTurns
  PROVE  Spec => PushOnTop
<1>1. AgentInv /\ [Next]_vars =>
        [latest' > latest =>
           \E r \in Replicas : at[r] = "submit" /\ \A i \in rows : Covers(r, i)]_vars
  <2> SUFFICES ASSUME AgentInv, [Next]_vars, latest' > latest
               PROVE  \E r \in Replicas : at[r] = "submit" /\ \A i \in rows : Covers(r, i)
    OBVIOUS
  <2>1. latest' # latest
    BY DEF AgentInv, KeptInv, TypeOK
  <2>2. PICK r \in Replicas : Submit(r)
    BY <2>1, CloudMoves
  <2>3. at[r] = "submit" /\ mem[r] = latest
    BY <2>1, <2>2 DEF Submit, Accepts, cloud
  <2>4. Vouched(r, latest)
    BY <2>3 DEF AgentInv, ReplicaInv
  <2> QED
    BY <2>3, <2>4 DEF AgentInv, RowsInv, Vouched
<1> QED
  BY <1>1, AgentInvariance, PTL DEF Spec, PushOnTop
-----------------------------------------------------------------------------
(* Objects of one editor *)

\* The daemon has taken up a file.
Pushing(r) == stage[r] \in {"first", "second"}
Files(r) == owing[r] \cup queued[r]

\* What a store holds of an object.
HeldChange(r, o) ==
  [object |-> o, version |-> store[r][o].version, by |-> store[r][o].by]

\* Everything on its way was edited, and its editor's store has it or a later version.
Written ==
  /\ \A i \in rows \cup sent : Carried(i) \in edits
  /\ \A r \in Replicas : \A i \in page[r].left : Carried(i) \in edits
  /\ \A r \in Replicas, o \in Objects :
       store[r][o].version = 0 \/ HeldChange(r, o) \in edits
  /\ \A e \in edits : 1 <= e.version /\ e.version <= store[e.by][e.object].version
  /\ \A i \in sent : \E j \in rows : j.object = i.object /\ j.version = i.version

\* An outbox holds its replica's own changes, one of an object still to be queued,
\* and the file that is being pushed.
Outbox(r) ==
  /\ \A f \in Files(r) : Carried(f) \in edits /\ f.by = r /\ f.generation <= generation[r]
  /\ \A f, g \in owing[r] : f.object = g.object => f = g
  /\ Pushing(r) => file[r] \in queued[r]

\* The versions of an object that one replica edits come one after the other: in the
\* history, in the outbox, in the cloud and on a page.
EditsFollow(o) ==
  \A e \in edits : e.object = o /\ e.version > 1 =>
    \E d \in edits : d.object = o /\ d.version + 1 = e.version

FilesFollow(o) ==
  \A r \in Replicas :
    /\ \A f, g \in Files(r) :
         f.object = o /\ g.object = o /\ f.version < g.version => f.generation < g.generation
    /\ \A f \in queued[r], g \in owing[r] : f.object = o /\ g.object = o => f.version < g.version
    /\ Pushing(r) /\ file[r].object = o =>
         \A g \in Files(r) : g.object = o => file[r].version <= g.version

RowsFollow(o) ==
  /\ \A i \in rows : i.object = o /\ i.version > 1 =>
       \E j \in rows : j.object = o /\ j.version + 1 = i.version /\ j.generation < i.generation
  /\ \A i \in rows, r \in Replicas : \A f \in Files(r) :
       i.object = o /\ f.object = o => i.version <= f.version

PageFollows(r, o) ==
  \A i \in page[r].left : i.object = o /\ i.version > 1 =>
    \/ i.version <= store[r][o].version + 1
    \/ \E j \in page[r].left :
         j.object = o /\ j.version + 1 = i.version /\ j.generation < i.generation

Follow(o) ==
  /\ EditsFollow(o) /\ FilesFollow(o) /\ RowsFollow(o)
  /\ \A r \in Replicas : PageFollows(r, o)

SoloInv ==
  /\ Written
  /\ \A r \in Replicas : Outbox(r)
  /\ lost = {} => \A o \in Objects : ~Shared(o) => Follow(o)
  /\ OnlySharedConflict

\* File names sort as the generations in them do.
NamesSort ==
  \A r \in Replicas : \A f, g \in queued[r] :
    f.generation < g.generation => NameBefore(f.generation, g.generation)

LEMMA NamesDiffer ==
  ASSUME NEW g \in Nat, NEW h \in Nat, NameBefore(g, h)
  PROVE  ~NameBefore(h, g)
  BY DEF NameBefore

\* The first file of an outbox is the first of its object.
LEMMA FirstFile ==
  ASSUME TypeOK, NamesSort, NEW o, FilesFollow(o), NEW r \in Replicas, NEW f, IsFirstFile(r, f),
         f.object = o, NEW g \in Files(r), g.object = o
  PROVE  f.version <= g.version
<1>1. f \in queued[r] /\ f \in Files(r)
  BY DEF IsFirstFile, Files
<1>2. f \in File /\ g \in File
  BY <1>1 DEF TypeOK, Files
<1>3. /\ f.version \in Nat /\ f.generation \in Nat
      /\ g.version \in Nat /\ g.generation \in Nat
  BY <1>2 DEF File
<1>4. CASE g \in owing[r]
  <2>1. f.version < g.version
    BY <1>1, <1>4 DEF FilesFollow
  <2> QED
    BY <1>3, <2>1
<1>5. CASE g \in queued[r] /\ g.version < f.version
  <2>1. g.generation < f.generation
    BY <1>1, <1>5 DEF FilesFollow
  <2>2. NameBefore(g.generation, f.generation)
    BY <1>1, <1>5, <2>1 DEF NamesSort
  <2>3. NameBefore(f.generation, g.generation)
    BY <1>3, <1>5, <2>1 DEF IsFirstFile
  <2> QED
    BY <1>3, <2>2, <2>3, NamesDiffer
<1> QED
  BY <1>3, <1>4, <1>5 DEF Files

\* An object that is not shared has one editor.
LEMMA OneEditor ==
  ASSUME NEW o, ~Shared(o), NEW c \in edits, NEW d \in edits, c.object = o, d.object = o
  PROVE  c.by = d.by
  BY DEF Shared

\* Steps that leave the files, the stores and the cloud alone.
Idles ==
  /\ UNCHANGED <<rows, sent, store, generation, owing, queued, lost, edits, conflicts>>
  /\ \A q \in Replicas :
       /\ page'[q].left \in {page[q].left, {}}
       /\ Pushing(q)' => (Pushing(q) /\ file'[q] = file[q]) \/ IsFirstFile(q, file'[q])

LEMMA IdleStep ==
  ASSUME TypeOK, NamesSort, SoloInv, Idles
  PROVE  SoloInv'
<1>0. /\ rows' = rows /\ sent' = sent /\ store' = store
      /\ generation' = generation /\ owing' = owing /\ queued' = queued /\ lost' = lost
      /\ edits' = edits /\ conflicts' = conflicts
  BY DEF Idles
<1>1. Written'
  BY <1>0 DEF SoloInv, Written, HeldChange, Idles
<1>2. ASSUME NEW q \in Replicas
      PROVE  Outbox(q)'
  <2>1. Outbox(q) /\ Files(q)' = Files(q)
    BY <1>0 DEF SoloInv, Files
  <2>2. Pushing(q)' => file'[q] \in queued[q]
    BY <2>1 DEF Idles, Outbox, IsFirstFile
  <2> QED
    BY <1>0, <2>1, <2>2 DEF Outbox
<1>3. ASSUME lost' = {}, NEW o \in Objects, ~Shared(o)'
      PROVE  Follow(o)'
  <2>1. Follow(o)
    BY <1>0, <1>3 DEF SoloInv, Shared
  <2>2. EditsFollow(o)' /\ RowsFollow(o)'
    BY <1>0, <2>1 DEF Follow, EditsFollow, RowsFollow, Files
  <2>3. ASSUME NEW q \in Replicas
        PROVE  PageFollows(q, o)'
    BY <1>0, <2>1 DEF Follow, PageFollows, Idles
  <2>4. ASSUME NEW q \in Replicas, Pushing(q)', file'[q].object = o, NEW g \in Files(q), g.object = o
        PROVE  file'[q].version <= g.version
    <3>1. CASE Pushing(q) /\ file'[q] = file[q]
      BY <2>1, <2>4, <3>1 DEF Follow, FilesFollow
    <3>2. CASE IsFirstFile(q, file'[q])
      BY <2>1, <2>4, <3>2, FirstFile DEF Follow
    <3> QED
      BY <2>4, <3>1, <3>2 DEF Idles
  <2>5. FilesFollow(o)'
    BY <1>0, <2>1, <2>4 DEF Follow, FilesFollow, Files
  <2> QED
    BY <2>2, <2>3, <2>5 DEF Follow
<1>4. OnlySharedConflict'
  BY <1>0 DEF SoloInv, OnlySharedConflict, Shared
<1> QED
  BY <1>1, <1>2, <1>3, <1>4 DEF SoloInv

LEMMA IdleSteps ==
  ASSUME TypeOK, \A q \in Replicas : TurnsInv(q),
         \/ UNCHANGED vars
         \/ \E r \in Replicas :
              \/ Leave(r) \/ Open(r) \/ Status(r) \/ PageDone(r) \/ Refused(r)
              \/ WriteCursor(r) \/ Compact(r) \/ RequestFails(r) \/ Crash(r)
              \/ CursorTorn(r) \/ RemoveCursor(r)
  PROVE  Idles
<1> USE DEF cloud, directory, outbox, handshake
<1>1. CASE UNCHANGED vars
  BY <1>1 DEF vars, Idles, Pushing
<1>2. ASSUME NEW r \in Replicas,
             \/ Leave(r) \/ Open(r) \/ Status(r) \/ PageDone(r) \/ Refused(r)
             \/ WriteCursor(r) \/ Compact(r) \/ RequestFails(r) \/ Crash(r)
             \/ CursorTorn(r) \/ RemoveCursor(r)
      PROVE  Idles
  <2>1. UNCHANGED <<rows, sent, store, generation, owing, queued, lost, edits, conflicts>>
    BY <1>2, CompactKeeps
    DEF Leave, Open, Status, PageDone, Refused, WriteCursor, Compact, RequestFails, Crash,
        CursorTorn, RemoveCursor
  <2>2. \A q \in Replicas : page'[q] = page[q] \/ page'[q] = NoPage
    BY <1>2 DEF Leave, Open, Status, PageDone, Refused, WriteCursor, Compact, RequestFails,
                Crash, CursorTorn, RemoveCursor, Close, TypeOK
  <2>3. \A q \in Replicas : page'[q].left \in {page[q].left, {}}
    BY <2>2 DEF NoPage
  <2>4. ASSUME NEW q \in Replicas, Pushing(q)'
        PROVE  (Pushing(q) /\ file'[q] = file[q]) \/ IsFirstFile(q, file'[q])
    <3>1. CASE Proceed(r)
      <4>1. CASE UNCHANGED <<stage, file>>
        BY <2>4, <4>1 DEF Pushing
      <4>2. CASE \E f \in queued[r] :
                   /\ IsFirstFile(r, f)
                   /\ file' = [file EXCEPT ![r] = f]
                   /\ stage' = [stage EXCEPT ![r] = "first"]
        BY <2>4, <4>2 DEF Pushing, TypeOK
      <4> QED
        BY <3>1, <4>1, <4>2 DEF Proceed
    <3>2. CASE UNCHANGED <<stage, file>>
      BY <2>4, <3>2 DEF Pushing
    <3>3. CASE Close(r)
      BY <2>4, <3>3 DEF Close, Pushing, TypeOK
    <3>4. CASE Refused(r)
      BY <2>4, <3>4 DEF Refused, Pushing, TypeOK
    <3> QED
      BY <1>2, <3>1, <3>2, <3>3, <3>4 DEF Leave, Open, Status, PageDone, WriteCursor, Compact,
         RequestFails, Crash, CursorTorn, RemoveCursor
  <2> QED
    BY <2>1, <2>3, <2>4 DEF Idles
<1> QED
  BY <1>1, <1>2

\* Steps that leave the stores and the history of edits alone, and keep what is on
\* its way.
LEMMA EnqueueStep ==
  ASSUME TypeOK, SoloInv, NEW r \in Replicas, NEW f \in owing[r], Enqueue(r, f)
  PROVE  SoloInv'
<1> USE DEF cloud, directory, handshake
<1>0. /\ latest' = latest /\ rows' = rows /\ sent' = sent /\ store' = store
      /\ generation' = generation /\ lost' = lost /\ edits' = edits /\ conflicts' = conflicts
      /\ page' = page /\ file' = file /\ stage' = stage
  BY DEF Enqueue
<1>1. /\ \A q \in Replicas : Files(q)' = Files(q) /\ queued[q] \subseteq queued'[q]
      /\ \A q \in Replicas : owing'[q] \subseteq owing[q]
      /\ \A q \in Replicas : q # r => queued'[q] = queued[q]
      /\ queued'[r] = queued[r] \cup {f} /\ owing'[r] = owing[r] \ {f}
  BY DEF Enqueue, Files, TypeOK
<1>2. Written'
  BY <1>0 DEF SoloInv, Written, HeldChange
<1>3. ASSUME NEW q \in Replicas
      PROVE  Outbox(q)'
  <2>1. Outbox(q)
    BY DEF SoloInv
  <2> QED
    BY <1>0, <1>1, <2>1 DEF Outbox, Pushing
<1>4. ASSUME lost' = {}, NEW o \in Objects, ~Shared(o)'
      PROVE  Follow(o)'
  <2>1. Follow(o)
    BY <1>0, <1>4 DEF SoloInv, Shared
  <2>2. EditsFollow(o)' /\ RowsFollow(o)' /\ \A q \in Replicas : PageFollows(q, o)'
    BY <1>0, <1>1, <2>1 DEF Follow, EditsFollow, RowsFollow, PageFollows
  <2>3. ASSUME NEW q \in Replicas, NEW g \in queued'[q], NEW h \in owing'[q],
               g.object = o, h.object = o
        PROVE  g.version < h.version
    <3>1. CASE g \in queued[q]
      BY <1>1, <2>1, <2>3, <3>1 DEF Follow, FilesFollow
    <3>2. CASE q = r /\ g = f
      BY <1>1, <2>3, <3>2 DEF SoloInv, Outbox
    <3> QED
      BY <1>1, <3>1, <3>2
  <2>4. FilesFollow(o)'
    BY <1>0, <1>1, <2>1, <2>3 DEF Follow, FilesFollow, Pushing
  <2> QED
    BY <2>2, <2>4 DEF Follow
<1>5. OnlySharedConflict'
  BY <1>0 DEF SoloInv, OnlySharedConflict, Shared
<1> QED
  BY <1>2, <1>3, <1>4, <1>5 DEF SoloInv

LEMMA EnqueueFailsStep ==
  ASSUME TypeOK, SoloInv, NEW r \in Replicas, EnqueueFails(r)
  PROVE  SoloInv'
<1> USE DEF cloud, directory, handshake
<1>0. /\ latest' = latest /\ rows' = rows /\ sent' = sent /\ store' = store
      /\ generation' = generation /\ edits' = edits /\ queued' = queued
      /\ page' = page /\ file' = file /\ stage' = stage
  BY DEF EnqueueFails
<1>1. \A q \in Replicas : owing'[q] \subseteq owing[q]
  BY DEF EnqueueFails, TypeOK
<1>2. Written'
  BY <1>0 DEF SoloInv, Written, HeldChange
<1>3. ASSUME NEW q \in Replicas
      PROVE  Outbox(q)'
  <2>1. Outbox(q)
    BY DEF SoloInv
  <2> QED
    BY <1>0, <1>1, <2>1 DEF Outbox, Pushing, Files
<1>4. lost' # {}
  <2>1. PICK f \in owing[r] : TRUE
    BY DEF EnqueueFails
  <2>2. Carried(f) \in lost'
    BY <2>1 DEF EnqueueFails
  <2> QED
    BY <2>2
<1> QED
  BY <1>2, <1>3, <1>4 DEF SoloInv, OnlySharedConflict

LEMMA AcceptedStep ==
  ASSUME TypeOK, SoloInv, NEW r \in Replicas, Accepted(r)
  PROVE  SoloInv'
<1> USE DEF cloud, directory
<1>0. /\ latest' = latest /\ rows' = rows /\ sent' = sent /\ store' = store
      /\ generation' = generation /\ edits' = edits /\ lost' = lost /\ conflicts' = conflicts
      /\ page' = page /\ owing' = owing
  BY DEF Accepted
<1>1. /\ \A q \in Replicas : queued'[q] \subseteq queued[q] /\ Files(q)' \subseteq Files(q)
      /\ \A q \in Replicas :
           Pushing(q)' => Pushing(q) /\ file'[q] = file[q] /\ queued'[q] = queued[q]
  BY DEF Accepted, Files, Pushing, TypeOK
<1>2. Written'
  BY <1>0 DEF SoloInv, Written, HeldChange
<1>3. ASSUME NEW q \in Replicas
      PROVE  Outbox(q)'
  <2>1. Outbox(q)
    BY DEF SoloInv
  <2> QED
    BY <1>0, <1>1, <2>1 DEF Outbox
<1>4. ASSUME lost' = {}, NEW o \in Objects, ~Shared(o)'
      PROVE  Follow(o)'
  <2>1. Follow(o)
    BY <1>0, <1>4 DEF SoloInv, Shared
  <2>2. EditsFollow(o)' /\ RowsFollow(o)' /\ \A q \in Replicas : PageFollows(q, o)'
    BY <1>0, <1>1, <2>1 DEF Follow, EditsFollow, RowsFollow, PageFollows
  <2>3. FilesFollow(o)'
    BY <1>0, <1>1, <2>1 DEF Follow, FilesFollow
  <2> QED
    BY <2>2, <2>3 DEF Follow
<1>5. OnlySharedConflict'
  BY <1>0 DEF SoloInv, OnlySharedConflict, Shared
<1> QED
  BY <1>2, <1>3, <1>4, <1>5 DEF SoloInv

\* A page has, of every version of such an object, the version before it or a store
\* that has that one.
LEMMA PullStep ==
  ASSUME AgentInv, SoloInv, NEW r \in Replicas, Pull(r)
  PROVE  SoloInv'
<1> USE DEF cloud, directory, outbox
<1>0. /\ latest' = latest /\ rows' = rows /\ sent' = sent /\ store' = store
      /\ generation' = generation /\ edits' = edits /\ lost' = lost /\ conflicts' = conflicts
      /\ owing' = owing /\ queued' = queued /\ stage' = stage /\ file' = file
  BY DEF Pull
<1>1. PICK through \in Nat :
        page'[r].left = {i \in rows : mem[r] < i.generation /\ i.generation <= through}
  <2> DEFINE t == IF mem[r] + PageSize < latest THEN mem[r] + PageSize ELSE latest
  <2>1. t \in Nat
    BY AgentAssumption DEF AgentInv, KeptInv, TypeOK
  <2>2. page'[r] = [left |-> {i \in rows : mem[r] < i.generation /\ i.generation <= t},
                    whole |-> mem[r], through |-> t]
    BY DEF Pull, AgentInv, KeptInv, TypeOK
  <2>3. page'[r].left = {i \in rows : mem[r] < i.generation /\ i.generation <= t}
    BY <2>2
  <2> HIDE DEF t
  <2> QED
    BY <2>1, <2>3
<1>2. \A q \in Replicas : q # r => page'[q] = page[q]
  BY DEF Pull, AgentInv, KeptInv, TypeOK
<1>3. Written'
  BY <1>0, <1>1, <1>2 DEF SoloInv, Written, HeldChange
<1>4. \A q \in Replicas : Outbox(q)'
  BY <1>0 DEF SoloInv, Outbox, Files, Pushing
<1>5. ASSUME lost' = {}, NEW o \in Objects, ~Shared(o)'
      PROVE  Follow(o)'
  <2>1. Follow(o)
    BY <1>0, <1>5 DEF SoloInv, Shared
  <2>2. EditsFollow(o)' /\ RowsFollow(o)' /\ FilesFollow(o)'
    BY <1>0, <2>1 DEF Follow, EditsFollow, RowsFollow, FilesFollow, Files, Pushing
  <2>3. ASSUME NEW q \in Replicas, q # r
        PROVE  PageFollows(q, o)'
    BY <1>0, <1>2, <2>1, <2>3 DEF Follow, PageFollows
  <2>4. ASSUME NEW i \in page'[r].left, i.object = o, i.version > 1
        PROVE  \/ i.version <= store[r][o].version + 1
               \/ \E j \in page'[r].left :
                    j.object = o /\ j.version + 1 = i.version /\ j.generation < i.generation
    <3>1. i \in rows /\ mem[r] < i.generation /\ i.generation <= through
      BY <1>1
    <3>2. PICK j \in rows :
            j.object = o /\ j.version + 1 = i.version /\ j.generation < i.generation
      BY <2>1, <2>4, <3>1 DEF Follow, RowsFollow
    <3>3. /\ i.generation \in Nat /\ j.generation \in Nat /\ j.version \in Nat /\ mem[r] \in Nat
          /\ store[r][o].version \in Nat
      BY <3>1 DEF AgentInv, KeptInv, TypeOK, Row, File, Held
    <3>4. CASE mem[r] < j.generation
      <4>1. j.generation <= through
        BY <3>1, <3>2, <3>3
      <4> QED
        BY <1>1, <3>2, <3>4, <4>1
    <3>5. CASE j.generation <= mem[r]
      <4>1. Covers(r, j)
        BY <3>5 DEF AgentInv, ReplicaInv, Vouched, Pull
      <4>2. store[r][o].version >= j.version
        BY <3>2, <4>1 DEF Covers
      <4> QED
        BY <3>2, <3>3, <4>2
    <3> QED
      BY <3>3, <3>4, <3>5
  <2>5. PageFollows(r, o)'
    BY <1>0, <2>4 DEF PageFollows
  <2> QED
    BY <2>2, <2>3, <2>5 DEF Follow
<1>6. OnlySharedConflict'
  BY <1>0 DEF SoloInv, OnlySharedConflict, Shared
<1> QED
  BY <1>3, <1>4, <1>5, <1>6 DEF SoloInv

\* An envelope leaves the page with its version in the store.
LEMMA WholeFollows ==
  ASSUME TypeOK, TypeOK', NEW r \in Replicas, NEW o \in Objects, PageFollows(r, o),
         NEW i \in page[r].left, page'[r].left = page[r].left \ {i},
         store[r][o].version <= store'[r][o].version,
         i.object = o => i.version <= store'[r][o].version
  PROVE  PageFollows(r, o)'
<1> SUFFICES ASSUME NEW k \in page'[r].left, k.object = o, k.version > 1
             PROVE  \/ k.version <= store'[r][o].version + 1
                    \/ \E j \in page'[r].left :
                         j.object = o /\ j.version + 1 = k.version /\ j.generation < k.generation
  BY DEF PageFollows
<1>1. /\ store[r][o].version \in Nat /\ store'[r][o].version \in Nat
      /\ \A j \in page[r].left : j.version \in Nat
  BY DEF TypeOK, Held, Page, Row, File
<1>2. k \in page[r].left
  OBVIOUS
<1>3. CASE k.version <= store[r][o].version + 1
  BY <1>1, <1>2, <1>3
<1>4. ASSUME NEW j \in page[r].left,
             j.object = o, j.version + 1 = k.version, j.generation < k.generation
      PROVE  \/ k.version <= store'[r][o].version + 1
             \/ \E m \in page'[r].left :
                  m.object = o /\ m.version + 1 = k.version /\ m.generation < k.generation
  <2>1. CASE j = i
    BY <1>1, <1>4, <2>1
  <2>2. CASE j # i
    BY <1>4, <2>2
  <2> QED
    BY <2>1, <2>2
<1> QED
  BY <1>2, <1>3, <1>4 DEF PageFollows

\* Of an object with one editor, applyPulledEnvelopes meets no version it cannot
\* place and no other replica's version.
LEMMA NoConflict ==
  ASSUME TypeOK, SoloInv, lost = {}, NEW r \in Replicas, NEW i \in page[r].left, IsNext(r, i),
         ~Shared(i.object)
  PROVE  Outcome(store[r][i.object], i, mem[r]) \in {"skip", "apply"}
<1> DEFINE o == i.object
           have == store[r][o]
<1>1. /\ i \in Row /\ o \in Objects /\ i.version \in Nat /\ i.generation \in Nat
      /\ have.version \in Nat /\ mem[r] \in Nat
      /\ \A j \in page[r].left : j.generation \in Nat
  BY DEF TypeOK, Page, Row, File, Held
<1>2. Carried(i) \in edits /\ Carried(i).object = o /\ Carried(i).version = i.version
      /\ Carried(i).by = i.by
  BY DEF SoloInv, Written, Carried
<1>3. 1 <= i.version
  BY <1>2 DEF SoloInv, Written
<1>4. ~(have.version = i.version /\ have.by # i.by)
  <2> SUFFICES ASSUME have.version = i.version
               PROVE  have.by = i.by
    OBVIOUS
  <2>1. HeldChange(r, o) \in edits
    BY <1>1, <1>3 DEF SoloInv, Written
  <2>2. HeldChange(r, o).object = o /\ HeldChange(r, o).by = have.by
    BY DEF HeldChange
  <2> QED
    BY <1>2, <2>1, <2>2, OneEditor
<1>5. i.version <= have.version + 1
  <2>1. PageFollows(r, o)
    BY <1>1 DEF SoloInv, Follow
  <2>2. CASE i.version > 1
    <3>1. \A j \in page[r].left : ~(j.generation < i.generation)
      BY <1>1 DEF IsNext
    <3> QED
      BY <2>1, <2>2, <3>1 DEF PageFollows
  <2>3. CASE ~(i.version > 1)
    BY <1>1, <2>3
  <2> QED
    BY <2>2, <2>3
<1> HIDE DEF o, have
<1>6. Outcome(have, i, mem[r]) \in {"skip", "apply"}
  <2>1. CASE have.version >= i.version
    BY <1>4, <2>1 DEF Outcome
  <2>2. CASE have.version < i.version
    <3>1. i.version = have.version + 1 /\ have.version # i.version /\ ~(have.version >= i.version)
      BY <1>1, <1>5, <2>2
    <3>2. have.version = 0 => ~(i.version > 1)
      BY <3>1
    <3> QED
      BY <3>1, <3>2 DEF Outcome
  <2> QED
    BY <1>1, <2>1, <2>2
<1> QED
  BY <1>6 DEF o, have

LEMMA ApplyStep ==
  ASSUME TypeOK, TypeOK', SoloInv, NEW r \in Replicas, NEW i \in page[r].left, Applied(r, i)
  PROVE  SoloInv'
<1> DEFINE outcome == Outcome(store[r][i.object], i, mem[r])
<1>0. /\ rows' = rows /\ sent' = sent /\ edits' = edits /\ lost' = lost /\ owing' = owing
      /\ queued' = queued /\ stage' = stage /\ file' = file
  BY DEF Applied
<1>1. /\ i.object \in Objects /\ i.version \in Nat /\ store[r][i.object].version \in Nat
      /\ Carried(i) \in edits /\ IsNext(r, i)
  BY DEF TypeOK, Page, Row, File, Held, SoloInv, Written, Applied
\* The envelope is conflicting and everything stays, or its version is in the store.
<1>2. CASE outcome \in Reasons
  <2>1. store' = store /\ generation' = generation /\ page' = page
    BY <1>2 DEF Applied, Reasons
  <2>2. \A q \in Replicas : \A c \in conflicts'[q] : c \in conflicts[q] \/ c.object = i.object
    <3> DEFINE c == [object |-> i.object, generation |-> i.generation,
                     version |-> i.version, reason |-> outcome]
    <3>1. conflicts' = [conflicts EXCEPT ![r] = conflicts[r] \cup {c}] /\ c.object = i.object
      BY <1>2 DEF Applied, Conflicted, Reasons
    <3> HIDE DEF c
    <3> QED
      BY <3>1 DEF TypeOK
  <2>3. Written' /\ \A q \in Replicas : Outbox(q)'
    BY <1>0, <2>1 DEF SoloInv, Written, HeldChange, Outbox, Files, Pushing
  <2>4. ASSUME lost' = {}, NEW o \in Objects, ~Shared(o)'
        PROVE  Follow(o)'
    <3>1. Follow(o)
      BY <1>0, <2>4 DEF SoloInv, Shared
    <3>2. EditsFollow(o)' /\ RowsFollow(o)' /\ FilesFollow(o)'
      BY <1>0, <3>1 DEF Follow, EditsFollow, RowsFollow, FilesFollow, Files, Pushing
    <3>3. \A q \in Replicas : PageFollows(q, o)'
      BY <2>1, <3>1 DEF Follow, PageFollows
    <3> QED
      BY <3>2, <3>3 DEF Follow
  <2>5. ASSUME lost = {}
        PROVE  Shared(i.object)
    <3>1. outcome \notin {"skip", "apply"}
      BY <1>2 DEF Reasons
    <3> QED
      BY <1>1, <2>5, <3>1, NoConflict
  <2>6. OnlySharedConflict'
    BY <1>0, <2>2, <2>5 DEF SoloInv, OnlySharedConflict, Shared
  <2> QED
    BY <2>3, <2>4, <2>6 DEF SoloInv
<1>3. CASE outcome \in {"skip", "apply"}
  <2>1. /\ Whole(r, i) /\ conflicts' = conflicts
        /\ \/ outcome = "skip" /\ store' = store /\ generation' = generation
           \/ outcome = "apply" /\ Put(r, i.object, [version |-> i.version, by |-> i.by])
    BY <1>3 DEF Applied, Reasons
  <2>2. /\ page'[r].left = page[r].left \ {i}
        /\ \A q \in Replicas : q # r => page'[q] = page[q]
    BY <2>1 DEF Whole, TypeOK
  <2>3. /\ outcome = "skip" => i.version <= store[r][i.object].version
        /\ outcome = "apply" => store[r][i.object].version < i.version
    BY <1>1 DEF Outcome
  <2>4. /\ store'[r][i.object] \in {store[r][i.object], [version |-> i.version, by |-> i.by]}
        /\ store[r][i.object].version <= store'[r][i.object].version
        /\ i.version <= store'[r][i.object].version
        /\ \A q \in Replicas, o \in Objects : q # r \/ o # i.object => store'[q][o] = store[q][o]
        /\ \A q \in Replicas : generation'[q] \in {generation[q], generation[q] + 1}
    <3> HIDE DEF outcome
    <3>1. CASE outcome = "skip" /\ store' = store /\ generation' = generation
      BY <1>1, <2>3, <3>1
    <3>2. CASE outcome = "apply" /\ Put(r, i.object, [version |-> i.version, by |-> i.by])
      <4>1. /\ store'[r][i.object] = [version |-> i.version, by |-> i.by]
            /\ \A q \in Replicas, o \in Objects :
                 q # r \/ o # i.object => store'[q][o] = store[q][o]
            /\ \A q \in Replicas : generation'[q] \in {generation[q], generation[q] + 1}
        BY <1>1, <3>2 DEF Put, TypeOK
      <4> QED
        BY <1>1, <2>3, <3>2, <4>1
    <3> QED
      BY <2>1, <3>1, <3>2
  <2>5. \A q \in Replicas, o \in Objects : store[q][o].version <= store'[q][o].version
    <3> SUFFICES ASSUME NEW q \in Replicas, NEW o \in Objects
                 PROVE  store[q][o].version <= store'[q][o].version
      OBVIOUS
    <3>1. store[q][o].version \in Nat
      BY DEF TypeOK, Held
    <3>2. CASE q = r /\ o = i.object
      BY <2>4, <3>2
    <3>3. CASE q # r \/ o # i.object
      BY <2>4, <3>1, <3>3
    <3> QED
      BY <3>2, <3>3
  <2>6. Written'
    <3>1. ASSUME NEW q \in Replicas, NEW o \in Objects
          PROVE  store'[q][o].version = 0 \/ HeldChange(q, o)' \in edits
      <4>1. CASE q = r /\ o = i.object /\ store'[q][o] # store[q][o]
        <5>1. HeldChange(q, o)' = Carried(i)
          BY <2>4, <4>1 DEF HeldChange, Carried
        <5> QED
          BY <1>1, <5>1
      <4>2. CASE store'[q][o] = store[q][o]
        BY <4>2 DEF SoloInv, Written, HeldChange
      <4> QED
        BY <2>4, <4>1, <4>2
    <3>2. ASSUME NEW e \in edits
          PROVE  1 <= e.version /\ e.version <= store'[e.by][e.object].version
      <4>1. /\ e.by \in Replicas /\ e.object \in Objects /\ e.version \in Nat
            /\ 1 <= e.version /\ e.version <= store[e.by][e.object].version
        BY DEF TypeOK, Change, SoloInv, Written
      <4>2. store[e.by][e.object].version \in Nat /\ store'[e.by][e.object].version \in Nat
        BY <4>1 DEF TypeOK, Held
      <4>3. store[e.by][e.object].version <= store'[e.by][e.object].version
        BY <2>5, <4>1
      <4> QED
        BY <4>1, <4>2, <4>3
    <3>3. \A q \in Replicas : \A k \in page'[q].left : Carried(k) \in edits
      BY <2>2 DEF SoloInv, Written
    <3> QED
      BY <1>0, <3>1, <3>2, <3>3 DEF SoloInv, Written
  <2>7. ASSUME NEW q \in Replicas
        PROVE  Outbox(q)'
    <3>1. Outbox(q) /\ generation[q] \in Nat /\ \A f \in Files(q) : f.generation \in Nat
      BY DEF SoloInv, TypeOK, Files, File
    <3>2. \A f \in Files(q) : f.generation <= generation'[q]
      BY <2>4, <3>1 DEF Outbox
    <3> QED
      BY <1>0, <3>1, <3>2 DEF Outbox, Files, Pushing
  <2>8. ASSUME lost' = {}, NEW o \in Objects, ~Shared(o)'
        PROVE  Follow(o)'
    <3>1. Follow(o)
      BY <1>0, <2>8 DEF SoloInv, Shared
    <3>2. EditsFollow(o)' /\ RowsFollow(o)' /\ FilesFollow(o)'
      BY <1>0, <3>1 DEF Follow, EditsFollow, RowsFollow, FilesFollow, Files, Pushing
    <3>3. ASSUME NEW q \in Replicas, q # r
          PROVE  PageFollows(q, o)'
      BY <2>2, <2>4, <3>1, <3>3 DEF Follow, PageFollows
    <3>4. PageFollows(r, o)'
      <4>1. PageFollows(r, o)
        BY <3>1 DEF Follow
      <4>2. i.object = o => i.version <= store'[r][o].version
        BY <2>4
      <4> QED
        BY <2>2, <2>5, <4>1, <4>2, WholeFollows
    <3> QED
      BY <3>2, <3>3, <3>4 DEF Follow
  <2>9. OnlySharedConflict'
    BY <1>0, <2>1 DEF SoloInv, OnlySharedConflict, Shared
  <2> QED
    BY <2>6, <2>7, <2>8, <2>9 DEF SoloInv
<1> QED
  BY <1>2, <1>3 DEF Applied

\* An edit is the next version of what the editor has, and of an object nobody else
\* edits that is the next version there is.
LEMMA EditStep ==
  ASSUME TypeOK, SoloInv, NEW r \in Replicas, NEW o \in Objects, Edited(r, o)
  PROVE  SoloInv'
<1> DEFINE v == store[r][o].version + 1
           f == [generation |-> generation[r] + 1, object |-> o, version |-> v, by |-> r]
<1>0. /\ rows' = rows /\ sent' = sent /\ lost' = lost /\ queued' = queued /\ page' = page
      /\ stage' = stage /\ file' = file /\ conflicts' = conflicts
      /\ edits' = edits \cup {Carried(f)}
  BY DEF Edited
<1>1. /\ store[r][o].version \in Nat /\ v \in Nat /\ v > store[r][o].version
      /\ generation[r] \in Nat
  BY DEF TypeOK, Held
<1>2. /\ f.generation = generation[r] + 1 /\ f.object = o /\ f.version = v /\ f.by = r
      /\ Carried(f).object = o /\ Carried(f).version = v /\ Carried(f).by = r
      /\ Carried(f) = [object |-> o, version |-> v, by |-> r]
  BY DEF Carried
<1>3. /\ store'[r][o] = [version |-> v, by |-> r]
      /\ \A q \in Replicas, x \in Objects : q # r \/ x # o => store'[q][x] = store[q][x]
      /\ \A q \in Replicas : generation'[q] = IF q = r THEN generation[q] + 1 ELSE generation[q]
  BY DEF Edited, Put, TypeOK
<1>4. /\ owing'[r] = owing[r] \cup {f}
      /\ \A q \in Replicas : q # r => owing'[q] = owing[q]
      /\ \A g \in owing[r] : g.object # o
  BY DEF Edited, TypeOK
<1>5. v - 1 = store[r][o].version
  BY <1>1
<1> HIDE DEF f, v
<1>6. /\ \A q \in Replicas : q # r => Files(q)' = Files(q)
      /\ Files(r)' = Files(r) \cup {f}
  BY <1>0, <1>4 DEF Files
<1>7. \A q \in Replicas, x \in Objects : store[q][x].version <= store'[q][x].version
  <2> SUFFICES ASSUME NEW q \in Replicas, NEW x \in Objects
               PROVE  store[q][x].version <= store'[q][x].version
    OBVIOUS
  <2>1. store[q][x].version \in Nat
    BY DEF TypeOK, Held
  <2>2. CASE q = r /\ x = o
    BY <1>1, <1>3, <2>1, <2>2
  <2>3. CASE q # r \/ x # o
    BY <1>3, <2>1, <2>3
  <2> QED
    BY <2>2, <2>3
<1>8. Written'
  <2>1. ASSUME NEW q \in Replicas, NEW x \in Objects
        PROVE  store'[q][x].version = 0 \/ HeldChange(q, x)' \in edits'
    <3>1. CASE q = r /\ x = o
      <4>1. HeldChange(q, x)' = Carried(f)
        BY <1>2, <1>3, <3>1 DEF HeldChange
      <4> QED
        BY <1>0, <4>1
    <3>2. CASE q # r \/ x # o
      BY <1>0, <1>3, <3>2 DEF SoloInv, Written, HeldChange
    <3> QED
      BY <3>1, <3>2
  <2>2. ASSUME NEW e \in edits
        PROVE  1 <= e.version /\ e.version <= store'[e.by][e.object].version
    <3>1. /\ e.by \in Replicas /\ e.object \in Objects /\ e.version \in Nat
          /\ 1 <= e.version /\ e.version <= store[e.by][e.object].version
      BY DEF TypeOK, Change, SoloInv, Written
    <3>2. store[e.by][e.object].version \in Nat
      BY <3>1 DEF TypeOK, Held
    <3>3. CASE e.by = r /\ e.object = o
      BY <1>1, <1>3, <3>1, <3>3
    <3>4. CASE e.by # r \/ e.object # o
      BY <1>3, <3>1, <3>4
    <3> QED
      BY <3>1, <3>3, <3>4
  <2>3. 1 <= Carried(f).version
        /\ Carried(f).version <= store'[Carried(f).by][Carried(f).object].version
    BY <1>1, <1>2, <1>3 DEF v
  <2>4. \A e \in edits' : 1 <= e.version /\ e.version <= store'[e.by][e.object].version
    BY <1>0, <2>2, <2>3
  <2> QED
    BY <1>0, <2>1, <2>4 DEF SoloInv, Written
<1>9. ASSUME NEW q \in Replicas
      PROVE  Outbox(q)'
  <2>1. Outbox(q) /\ generation[q] \in Nat /\ \A g \in Files(q) : g.generation \in Nat
    BY DEF SoloInv, TypeOK, Files, File
  <2>2. \A g \in Files(q) : g.generation <= generation'[q]
    BY <1>3, <2>1 DEF Outbox
  <2>3. CASE q # r
    BY <1>0, <1>4, <1>6, <2>1, <2>2, <2>3 DEF Outbox, Pushing
  <2>4. CASE q = r
    <3>1. Carried(f) \in edits' /\ f.by = r /\ f.generation <= generation'[r]
      BY <1>0, <1>1, <1>2, <1>3
    <3>2. \A g, h \in owing'[r] : g.object = h.object => g = h
      BY <1>2, <1>4, <2>1, <2>4 DEF Outbox
    <3> QED
      BY <1>0, <1>6, <2>1, <2>2, <2>4, <3>1, <3>2 DEF Outbox, Pushing
  <2> QED
    BY <2>3, <2>4
<1>10. ASSUME lost' = {}, NEW x \in Objects, ~Shared(x)'
       PROVE  Follow(x)'
  <2>1. Follow(x)
    BY <1>0, <1>10 DEF SoloInv, Shared
  \* Of this object every change so far is the editor's own, and older.
  <2>2. ASSUME x = o, NEW e \in edits, e.object = x
        PROVE  e.version \in Nat /\ e.version < v /\ e.by = r
    <3>1. e.by = r
      BY <1>0, <1>2, <1>10, <2>2 DEF Shared
    <3>2. e.version \in Nat /\ e.version <= store[r][o].version
      BY <2>2, <3>1 DEF TypeOK, Change, SoloInv, Written
    <3> QED
      BY <1>1, <3>1, <3>2
  <2>3. ASSUME NEW i, Carried(i) \in edits, i.object = x, x = o
        PROVE  i.version \in Nat /\ i.version < v
    <3>1. Carried(i).object = i.object /\ Carried(i).version = i.version
      BY DEF Carried
    <3> QED
      BY <2>2, <2>3, <3>1
  <2>4. EditsFollow(x)'
    <3> SUFFICES ASSUME NEW e \in edits', e.object = x, e.version > 1
                 PROVE  \E d \in edits' : d.object = x /\ d.version + 1 = e.version
      BY DEF EditsFollow
    <3>1. CASE e \in edits
      BY <1>0, <2>1, <3>1 DEF Follow, EditsFollow
    <3>2. CASE e = Carried(f)
      <4>1. x = o /\ v > 1
        BY <1>2, <3>2
      <4>2. store[r][o].version # 0
        BY <1>1, <4>1 DEF v
      <4>3. HeldChange(r, o) \in edits
        BY <4>2 DEF SoloInv, Written
      <4>4. HeldChange(r, o).object = o /\ HeldChange(r, o).version + 1 = v
        BY DEF HeldChange, v
      <4> QED
        BY <1>0, <1>2, <3>2, <4>1, <4>3, <4>4
    <3> QED
      BY <1>0, <3>1, <3>2
  <2>5. RowsFollow(x)'
    <3>1. ASSUME NEW i \in rows, i.object = x, x = o
          PROVE  i.version <= v
      BY <1>1, <2>3, <3>1 DEF SoloInv, Written
    <3>2. \A i \in rows, q \in Replicas : \A g \in Files(q)' :
            i.object = x /\ g.object = x => i.version <= g.version
      BY <1>2, <1>6, <2>1, <3>1 DEF Follow, RowsFollow
    <3> QED
      BY <1>0, <2>1, <3>2 DEF Follow, RowsFollow
  <2>6. FilesFollow(x)'
    <3>1. ASSUME NEW g \in Files(r), g.object = x, x = o
          PROVE  /\ g.version \in Nat /\ g.version < v /\ g.generation < f.generation
                 /\ ~(v < g.version)
      <4>1. Carried(g) \in edits /\ g.generation <= generation[r] /\ g.generation \in Nat
        BY DEF SoloInv, Outbox, TypeOK, Files, File
      <4>2. g.version \in Nat /\ g.version < v
        BY <2>3, <3>1, <4>1
      <4> QED
        BY <1>1, <1>2, <4>1, <4>2
    <3>2. ASSUME NEW q \in Replicas, NEW g \in Files(q)', NEW h \in Files(q)',
                 g.object = x, h.object = x, g.version < h.version
          PROVE  g.generation < h.generation
      <4>1. CASE g \in Files(q) /\ h \in Files(q)
        BY <2>1, <3>2, <4>1 DEF Follow, FilesFollow
      <4>2. CASE q = r /\ h = f /\ g \in Files(r)
        BY <1>2, <3>1, <3>2, <4>2
      <4>3. CASE q = r /\ g = f
        BY <1>1, <1>2, <1>6, <3>1, <3>2, <4>3
      <4> QED
        BY <1>6, <4>1, <4>2, <4>3
    <3>3. ASSUME NEW q \in Replicas, NEW g \in queued'[q], NEW h \in owing'[q],
                 g.object = x, h.object = x
          PROVE  g.version < h.version
      <4>1. g \in queued[q] /\ g \in Files(q)
        BY <1>0 DEF Files
      <4>2. CASE h \in owing[q]
        BY <2>1, <3>3, <4>1, <4>2 DEF Follow, FilesFollow
      <4>3. CASE q = r /\ h = f
        BY <1>2, <3>1, <3>3, <4>1, <4>3
      <4> QED
        BY <1>4, <4>2, <4>3
    <3>4. ASSUME NEW q \in Replicas, Pushing(q), file[q].object = x, NEW g \in Files(q)',
                 g.object = x
          PROVE  file[q].version <= g.version
      <4>1. CASE g \in Files(q)
        BY <2>1, <3>4, <4>1 DEF Follow, FilesFollow
      <4>2. CASE q = r /\ g = f
        <5>1. file[r] \in Files(r) /\ x = o
          BY <1>2, <3>4, <4>2 DEF SoloInv, Outbox, Files
        <5>2. file[r].version \in Nat /\ file[r].version < v
          BY <3>1, <3>4, <4>2, <5>1
        <5> QED
          BY <1>1, <1>2, <4>2, <5>2
      <4> QED
        BY <1>6, <4>1, <4>2
    <3> QED
      BY <1>0, <3>2, <3>3, <3>4 DEF FilesFollow, Pushing
  <2>7. ASSUME NEW q \in Replicas
        PROVE  PageFollows(q, x)'
    <3> SUFFICES ASSUME NEW i \in page[q].left, i.object = x, i.version > 1
                 PROVE  \/ i.version <= store'[q][x].version + 1
                        \/ \E j \in page[q].left :
                             /\ j.object = x /\ j.version + 1 = i.version
                             /\ j.generation < i.generation
      BY <1>0 DEF PageFollows
    <3>1. store[q][x].version \in Nat /\ i.version \in Nat
      BY DEF TypeOK, Held, Page, Row, File
    <3>2. store'[q][x].version \in Nat
      BY <1>1, <1>3, <3>1
    <3>3. store[q][x].version <= store'[q][x].version
      BY <1>7
    <3>4. CASE i.version <= store[q][x].version + 1
      BY <3>1, <3>2, <3>3, <3>4
    <3> QED
      BY <2>1, <3>4 DEF Follow, PageFollows
  <2> QED
    BY <2>4, <2>5, <2>6, <2>7 DEF Follow
<1>11. OnlySharedConflict'
  BY <1>0 DEF SoloInv, OnlySharedConflict, Shared
<1> QED
  BY <1>8, <1>9, <1>10, <1>11 DEF SoloInv

\* A push that is taken puts the version next to the last there is on top, or the
\* last once more.
LEMMA SubmitStep ==
  ASSUME AgentInv, NamesSort, SoloInv, NEW r \in Replicas, Submit(r)
  PROVE  SoloInv'
<1> DEFINE f == file[r]
           o == f.object
           row == [generation |-> latest + 1, object |-> o, version |-> f.version, by |-> f.by]
<1>0. /\ store' = store /\ generation' = generation /\ edits' = edits /\ lost' = lost
      /\ conflicts' = conflicts /\ owing' = owing /\ queued' = queued
      /\ stage' = stage /\ file' = file /\ page' = page
  BY DEF Submit, directory, outbox
<1>1. CASE UNCHANGED <<rows, sent>>
  <2>1. Idles
    BY <1>0, <1>1 DEF Idles, Pushing
  <2> QED
    BY <2>1, IdleStep DEF AgentInv, KeptInv
<1>2. CASE /\ rows' = {i \in rows : i.object # o \/ i.version # f.version} \cup {row}
           /\ sent' = sent \cup {row} /\ o \notin Withheld
  <2>1. TypeOK /\ Pushing(r) /\ f \in queued[r] /\ f \in Files(r)
    BY DEF AgentInv, KeptInv, TypeOK, Submit, Pushing, SoloInv, Outbox, Files
  <2>2. /\ f \in File /\ o \in Objects /\ f.version \in Nat /\ latest \in Nat
        /\ Carried(f) \in edits /\ f.by = r
    BY <2>1 DEF TypeOK, File, SoloInv, Outbox
  <2>3. /\ Carried(row) = Carried(f)
        /\ row.object = o /\ row.version = f.version /\ row.generation = latest + 1
        /\ Carried(f).object = o /\ Carried(f).version = f.version /\ Carried(f).by = r
    BY <2>2 DEF Carried
  <2> HIDE DEF f, o, row
  <2>4. Written'
    <3>1. \A i \in rows' \cup sent' : Carried(i) \in edits
      BY <1>2, <2>2, <2>3 DEF SoloInv, Written
    <3>2. ASSUME NEW i \in sent'
          PROVE  \E j \in rows' : j.object = i.object /\ j.version = i.version
      <4>1. CASE i = row
        BY <1>2, <4>1
      <4>2. CASE i \in sent
        <5>1. PICK j \in rows : j.object = i.object /\ j.version = i.version
          BY <4>2 DEF SoloInv, Written
        <5>2. CASE j \in rows'
          BY <5>1, <5>2
        <5>3. CASE j \notin rows'
          BY <1>2, <2>3, <5>1, <5>3
        <5> QED
          BY <5>2, <5>3
      <4> QED
        BY <1>2, <4>1, <4>2
    <3> QED
      BY <1>0, <3>1, <3>2 DEF SoloInv, Written, HeldChange
  <2>5. \A q \in Replicas : Outbox(q)'
    BY <1>0 DEF SoloInv, Outbox, Files, Pushing
  <2>6. ASSUME lost' = {}, NEW x \in Objects, ~Shared(x)'
        PROVE  Follow(x)'
    <3>1. Follow(x) /\ ~Shared(x)
      BY <1>0, <2>6 DEF SoloInv, Shared
    <3>2. EditsFollow(x)' /\ FilesFollow(x)' /\ \A q \in Replicas : PageFollows(q, x)'
      BY <1>0, <3>1 DEF Follow, EditsFollow, FilesFollow, PageFollows, Files, Pushing
    <3>3. RowsFollow(x)'
      <4>1. CASE x # o
        <5>1. \A i : i.object = x => (i \in rows' <=> i \in rows)
          BY <1>2, <2>3, <4>1
        <5>2. \A q \in Replicas : Files(q)' = Files(q)
          BY <1>0 DEF Files
        <5> QED
          BY <3>1, <5>1, <5>2 DEF Follow, RowsFollow
      <4>2. CASE x = o
        \* Only this replica has files of the object, and this is the first of them.
        <5>1. ASSUME NEW q \in Replicas, NEW g \in Files(q), g.object = o
              PROVE  f.version <= g.version
          <6>1. Carried(g) \in edits /\ g.by = q
            BY DEF SoloInv, Outbox
          <6>2. Carried(g).object = o /\ Carried(g).by = q
            BY <5>1, <6>1 DEF Carried
          <6>3. q = r
            BY <2>2, <2>3, <3>1, <4>2, <6>1, <6>2, OneEditor
          <6> QED
            BY <2>1, <3>1, <4>2, <5>1, <6>3 DEF Follow, FilesFollow, f, o
        <5>2. ASSUME NEW i \in rows', i.object = x, NEW q \in Replicas, NEW g \in Files(q),
                     g.object = x
              PROVE  i.version <= g.version
          BY <1>2, <2>3, <3>1, <4>2, <5>1, <5>2 DEF Follow, RowsFollow
        <5>3. ASSUME NEW i \in rows', i.object = x, i.version > 1
              PROVE  \E j \in rows' : /\ j.object = x /\ j.version + 1 = i.version
                                      /\ j.generation < i.generation
          <6>1. CASE i = row
            <7>1. PICK d \in edits : d.object = x /\ d.version + 1 = f.version
              BY <2>2, <2>3, <3>1, <4>2, <5>3, <6>1 DEF Follow, EditsFollow
            <7>2. d.version \in Nat
              BY <2>1 DEF TypeOK, Change
            <7>3. ASSUME NEW q \in Replicas, NEW g \in Files(q), Carried(g) = d
                  PROVE  FALSE
              <8>1. g.object = o /\ g.version = d.version
                BY <4>2, <7>1, <7>3 DEF Carried
              <8>2. f.version <= g.version
                BY <5>1, <8>1
              <8> QED
                BY <2>2, <7>1, <7>2, <8>1, <8>2
            <7>4. PICK s \in sent : Carried(s) = d
              BY <1>0, <1>2, <2>6, <4>2, <7>1, <7>3 DEF AgentInv, KeptInv, ChangesKept, Files
            <7>5. s.object = x /\ s.version = d.version
              BY <7>1, <7>4 DEF Carried
            <7>6. PICK j \in rows : j.object = x /\ j.version = d.version
              BY <7>5 DEF SoloInv, Written
            <7>7. j.generation \in Nat /\ j.generation <= latest
              BY <2>1 DEF TypeOK, Row, File, AgentInv, RowsInv
            <7>8. j.version # f.version
              BY <7>1, <7>2, <7>6
            <7>9. j \in rows' /\ j.version + 1 = i.version
              BY <1>2, <2>3, <6>1, <7>1, <7>6, <7>8
            <7>10. j.generation < i.generation
              BY <2>2, <2>3, <6>1, <7>7
            <7> QED
              BY <7>6, <7>9, <7>10
          <6>2. CASE i \in rows /\ i.version # f.version
            <7>1. PICK j \in rows :
                    j.object = x /\ j.version + 1 = i.version /\ j.generation < i.generation
              BY <3>1, <5>3, <6>2 DEF Follow, RowsFollow
            <7>2. i.version \in Nat /\ j.version \in Nat
              BY <2>1, <6>2 DEF TypeOK, Row, File
            <7>3. i.version <= f.version
              BY <2>1, <3>1, <4>2, <5>3, <6>2 DEF Follow, RowsFollow, o
            <7>4. j.version # f.version
              BY <2>2, <6>2, <7>1, <7>2, <7>3
            <7> QED
              BY <1>2, <7>1, <7>4
          <6> QED
            BY <1>2, <4>2, <5>3, <6>1, <6>2
        <5>4. \A q \in Replicas : Files(q)' = Files(q)
          BY <1>0 DEF Files
        <5> QED
          BY <5>2, <5>3, <5>4 DEF RowsFollow
      <4> QED
        BY <4>1, <4>2
    <3> QED
      BY <3>2, <3>3 DEF Follow
  <2>7. OnlySharedConflict'
    BY <1>0 DEF SoloInv, OnlySharedConflict, Shared
  <2> QED
    BY <2>4, <2>5, <2>6, <2>7 DEF SoloInv
<1> QED
  BY <1>1, <1>2 DEF Submit, cloud

LEMMA SoloInit == Init => SoloInv
<1> SUFFICES ASSUME Init PROVE SoloInv
  OBVIOUS
<1>1. Written
  BY DEF Init, Written, NoPage, Absent
<1>2. \A r \in Replicas : Outbox(r)
  BY DEF Init, Outbox, Files, Pushing
<1>3. \A o \in Objects : Follow(o)
  BY DEF Init, Follow, EditsFollow, FilesFollow, RowsFollow, PageFollows, Files, Pushing, NoPage
<1>4. OnlySharedConflict
  BY DEF Init, OnlySharedConflict
<1> QED
  BY <1>1, <1>2, <1>3, <1>4 DEF SoloInv

LEMMA SoloStep ==
  ASSUME TakeTurns, AgentInv, NamesSort, SoloInv, [Next]_vars
  PROVE  SoloInv'
<1>0. TypeOK /\ TypeOK' /\ \A q \in Replicas : TurnsInv(q)
  BY AgentTypeStep DEF AgentInv, KeptInv
<1>1. CASE UNCHANGED vars
  BY <1>0, <1>1, IdleSteps, IdleStep
<1>2. ASSUME NEW r \in Replicas,
             \/ Leave(r) \/ Open(r) \/ Status(r) \/ PageDone(r) \/ Refused(r)
             \/ WriteCursor(r) \/ Compact(r) \/ RequestFails(r) \/ Crash(r)
             \/ CursorTorn(r) \/ RemoveCursor(r)
      PROVE  SoloInv'
  BY <1>0, <1>2, IdleSteps, IdleStep
<1>3. ASSUME NEW r \in Replicas, NEW o \in Objects, Edit(r, o)
      PROVE  SoloInv'
  BY <1>0, <1>3, EditPuts, EditStep
<1>4. ASSUME NEW r \in Replicas, NEW f \in owing[r], Enqueue(r, f)
      PROVE  SoloInv'
  BY <1>0, <1>4, EnqueueStep
<1>5. ASSUME NEW r \in Replicas, EnqueueFails(r) \/ Accepted(r)
      PROVE  SoloInv'
  BY <1>0, <1>5, EnqueueFailsStep, AcceptedStep
<1>6. ASSUME NEW r \in Replicas, Pull(r) \/ Submit(r)
      PROVE  SoloInv'
  BY <1>6, PullStep, SubmitStep
<1>7. ASSUME NEW r \in Replicas, NEW i \in page[r].left, Apply(r, i)
      PROVE  SoloInv'
  BY <1>0, <1>7, ApplyPuts, ApplyStep
<1> QED
  BY <1>1, <1>2, <1>3, <1>4, <1>5, <1>6, <1>7 DEF Next, Handshake

\* Names of the same number of digits sort as numbers do.
SameWidth ==
  \A r \in Replicas :
    \/ \A f \in queued[r] : f.generation < 10
    \/ \A f \in queued[r] : 10 <= f.generation /\ f.generation < 100

LEMMA WidthSorts ==
  ASSUME TypeOK, SameWidth
  PROVE  NamesSort
<1> SUFFICES ASSUME NEW r \in Replicas, NEW f \in queued[r], NEW g \in queued[r],
                    f.generation < g.generation
             PROVE  NameBefore(f.generation, g.generation)
  BY DEF NamesSort
<1>1. f.generation \in Nat /\ g.generation \in Nat
  BY DEF TypeOK, File
<1>2. \/ f.generation < 10 /\ g.generation < 10
      \/ 10 <= f.generation /\ 10 <= g.generation
  BY DEF SameWidth
<1> QED
  BY <1>1, <1>2 DEF NameBefore

\* applyPulledEnvelopes finds no gap and no conflict of versions in an object that
\* one replica edits, whatever dies, fails or is pushed again, for any number of
\* replicas, as long as programs and handshakes take turns, the file names of an
\* outbox sort as its generations do, as names of one width do (queuedOutboxFiles),
\* and no file is lost.
THEOREM AgentOnlySharedConflict ==
  ASSUME TakeTurns
  PROVE  /\ Spec /\ []NamesSort => []OnlySharedConflict
         /\ Spec /\ []SameWidth => []OnlySharedConflict
<1>1. AgentInv /\ NamesSort /\ SoloInv /\ [Next]_vars => SoloInv'
  BY SoloStep
<1>2. SoloInv => OnlySharedConflict
  BY DEF SoloInv
<1>3. Spec /\ []NamesSort => []OnlySharedConflict
  BY <1>1, <1>2, SoloInit, AgentInvariance, PTL DEF Spec
<1>4. AgentInv /\ SameWidth => NamesSort
  BY WidthSorts DEF AgentInv, KeptInv
<1>5. Spec /\ []SameWidth => []NamesSort
  BY <1>4, AgentInvariance, PTL
<1>6. Spec /\ []SameWidth => []OnlySharedConflict
  BY <1>3, <1>5, PTL
<1> QED
  BY <1>3, <1>6
=============================================================================
