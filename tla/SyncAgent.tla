------------------------------ MODULE SyncAgent ------------------------------
(* Replicas of one authority that synchronise through the cloud.  Each has a  *)
(* graph directory, an outbox of files the local MCP server queues after a    *)
(* mutation, a cursor file, and a daemon that runs the push handshake: pull   *)
(* what the cloud has, apply it, push the first queued file on top, write the *)
(* cursor, compact the directory.  The server and every handshake open a      *)
(* store of their own on the directory, with its state in memory.  Every      *)
(* request and every mutation of a store is a step of its own; the daemon may *)
(* die, or a request fail, at each of them.  The cloud is abstract: it        *)
(* accepts a batch that builds on its latest generation and serves committed  *)
(* rows in pages.                                                             *)
EXTENDS Naturals, FiniteSets

CONSTANTS
  Replicas,
  Objects,
  Editors,          \* Editors[o]: the replicas whose users edit object o
  Withheld,         \* objects policy or plaintext keeps out of every batch
  PageSize,         \* batches in one page of a pull
  FirstGeneration,  \* generation of every local store when the model starts
  TakeTurns,        \* no handshake runs while an editing program has its store open
  MaxVersion,       \* MaxVersion[o]: bound on the version of object o
  MaxFaults         \* bound on deaths and failed requests

ASSUME AgentAssumption ==
  /\ Editors \in [Objects -> SUBSET Replicas]
  /\ Withheld \subseteq Objects
  /\ PageSize \in Nat \ {0}
  /\ FirstGeneration \in Nat /\ MaxFaults \in Nat
  /\ TakeTurns \in BOOLEAN
  /\ MaxVersion \in [Objects -> Nat]

VARIABLES
  latest,      \* cloud: latest committed generation
  rows,        \* cloud: sync_objects, joined with its batch's generation
  sent,        \* history: what accepted batches carried
  store,       \* store[r][o]: what the directory holds, a version and who wrote it
  generation,  \* generation of the directory
  shut,        \* replicas whose directory does not load
  session,     \* the editing program's store
  owing,       \* mutations committed and not yet queued
  queued,      \* outbox files queued
  lost,        \* history: mutations whose file was never written
  edits,       \* history: every local mutation
  cursor,      \* cursor file, or 0 where there is none
  torn,        \* replicas whose cursor file does not parse
  conflicts,   \* conflict ledger
  at,          \* where the daemon is
  loaded,      \* the handshake's store
  stage,       \* which pull of the handshake it is in
  mem,         \* the handshake's cursor
  page,        \* the page being applied
  file,        \* the outbox file being pushed
  faults

cloud == <<latest, rows, sent>>
directory == <<store, generation, shut>>
outbox == <<session, owing, queued, lost, edits>>
handshake == <<at, loaded, stage, mem, page, file>>
vars == <<cloud, directory, outbox, cursor, torn, conflicts, handshake, faults>>
-----------------------------------------------------------------------------
Nobody == "nobody"
Held == [version : Nat, by : Replicas \cup {Nobody}]
Absent == [version |-> 0, by |-> Nobody]

\* A store in memory.
Store == [objects : [Objects -> Held], generation : Nat]
NoStore == [none |-> TRUE]

\* An object at a version, as written by one replica: content is told apart by
\* its writer, for a replica writes each version once.
Change == [object : Objects, version : Nat, by : Replicas]
File == [generation : Nat, object : Objects, version : Nat, by : Replicas]
Row == File
Carried(f) == [object |-> f.object, version |-> f.version, by |-> f.by]

NoFile == [none |-> TRUE]
Page == [left : SUBSET Row, whole : Nat, through : Nat]
NoPage == [left |-> {}, whole |-> 0, through |-> 0]

Places == {"idle", "status", "pull", "apply", "submit", "accepted", "refused",
           "write", "compact"}
Stages == {"initial", "first", "second", "confirm"}

\* A mutation is refused by nobody: a handshake is the only user of its store.
Reasons == {"version-gap", "version-conflict"}
Conflict == [object : Objects, generation : Nat, version : Nat, reason : Reasons]

Init ==
  /\ latest = 0 /\ rows = {} /\ sent = {}
  /\ store = [r \in Replicas |-> [o \in Objects |-> Absent]]
  /\ generation = [r \in Replicas |-> FirstGeneration]
  /\ shut = {} /\ torn = {}
  /\ session = [r \in Replicas |-> NoStore]
  /\ loaded = [r \in Replicas |-> NoStore]
  /\ owing = [r \in Replicas |-> {}]
  /\ queued = [r \in Replicas |-> {}]
  /\ lost = {} /\ edits = {}
  /\ cursor = [r \in Replicas |-> 0]
  /\ conflicts = [r \in Replicas |-> {}]
  /\ at = [r \in Replicas |-> "idle"]
  /\ stage = [r \in Replicas |-> "initial"]
  /\ mem = [r \in Replicas |-> 0]
  /\ page = [r \in Replicas |-> NoPage]
  /\ file = [r \in Replicas |-> NoFile]
  /\ faults = 0
-----------------------------------------------------------------------------
(* Stores on the graph directory *)

\* FileLocalGraphStore.open, of a directory that loads.
OnDisk(r) == [objects |-> store[r], generation |-> generation[r]]

\* commitMutation in memory.
With(s, o, held) ==
  [objects |-> [s.objects EXCEPT ![o] = held], generation |-> s.generation + 1]

\* commitMutation on disk, by what a load makes of the entry: one whose sequence is
\* taken already is skipped, one that does not follow on the directory's state makes
\* every load throw.
AppendEntry(r, s, o, held) ==
  LET follows == /\ r \notin shut /\ s.generation = generation[r]
                 /\ s.objects[o].version = store[r][o].version
  IN IF follows
     THEN /\ store' = [store EXCEPT ![r] = [store[r] EXCEPT ![o] = held]]
          /\ generation' = [generation EXCEPT ![r] = generation[r] + 1]
          /\ UNCHANGED shut
     ELSE /\ shut' = IF s.generation < generation[r] THEN shut ELSE shut \cup {r}
          /\ UNCHANGED <<store, generation>>
-----------------------------------------------------------------------------
(* The local MCP server, or any other program that edits *)

\* The program opens its store when it comes to its first edit.
InSession(r) == IF session[r] = NoStore THEN OnDisk(r) ELSE session[r]

\* object_create, object_update: the store commits, the file is still to come.  A
\* user edits an object again when the last edit of it was answered.
Edit(r, o) ==
  /\ TakeTurns => at[r] = "idle"
  /\ session[r] = NoStore => r \notin shut
  /\ r \in Editors[o]
  /\ \A f \in owing[r] : f.object # o
  /\ LET s == InSession(r)
         v == s.objects[o].version + 1
         held == [version |-> v, by |-> r]
         f == [generation |-> s.generation + 1, object |-> o, version |-> v, by |-> r]
     IN /\ v <= MaxVersion[o]
        /\ AppendEntry(r, s, o, held)
        /\ session' = [session EXCEPT ![r] = With(s, o, held)]
        /\ owing' = [owing EXCEPT ![r] = owing[r] \cup {f}]
        /\ edits' = edits \cup {Carried(f)}
  /\ UNCHANGED <<cloud, queued, lost, cursor, torn, conflicts, handshake, faults>>

\* FileLocalMcpMutationOutboxSink.enqueue.
Enqueue(r, f) ==
  /\ f \in owing[r]
  /\ owing' = [owing EXCEPT ![r] = owing[r] \ {f}]
  /\ queued' = [queued EXCEPT ![r] = queued[r] \cup {f}]
  /\ UNCHANGED <<cloud, directory, session, lost, edits, cursor, torn, conflicts,
                 handshake, faults>>

\* The server dies, or the file cannot be written: nothing queues it again.
EnqueueFails(r) ==
  /\ faults < MaxFaults /\ faults' = faults + 1
  /\ owing[r] # {}
  /\ owing' = [owing EXCEPT ![r] = {}]
  /\ lost' = lost \cup {Carried(f) : f \in owing[r]}
  /\ UNCHANGED <<cloud, directory, session, queued, edits, cursor, torn, conflicts,
                 handshake>>

\* The program ends.
Leave(r) ==
  /\ session[r] # NoStore /\ owing[r] = {}
  /\ session' = [session EXCEPT ![r] = NoStore]
  /\ UNCHANGED <<cloud, directory, owing, queued, lost, edits, cursor, torn, conflicts,
                 handshake, faults>>
-----------------------------------------------------------------------------
(* The push handshake *)

Goto(r, place) == at' = [at EXCEPT ![r] = place]

\* The handshake is over and its variables with it.
Close(r) ==
  /\ Goto(r, "idle")
  /\ loaded' = [loaded EXCEPT ![r] = NoStore]
  /\ stage' = [stage EXCEPT ![r] = "initial"]
  /\ mem' = [mem EXCEPT ![r] = 0]
  /\ page' = [page EXCEPT ![r] = NoPage]
  /\ file' = [file EXCEPT ![r] = NoFile]

\* Mutant: the names are ordered as numbers are, from the last.
NameBeforeReversed(g, h) == g > h

\* Names are sorted as strings, "queued-g10-..." before "queued-g9-...": the order
\* of generations below 100.
NameBefore(g, h) ==
  LET padded(n) == IF n < 10 THEN 10 * n ELSE n
  IN padded(g) < padded(h) \/ (padded(g) = padded(h) /\ g < h)

\* queuedOutboxFiles()[0]
IsFirstFile(r, f) ==
  /\ f \in queued[r]
  /\ \A other \in queued[r] \ {f} : NameBefore(f.generation, other.generation)

\* FileLocalGraphStore.open and readCursor, each of which may throw.
Open(r) ==
  /\ at[r] = "idle"
  /\ TakeTurns => session[r] = NoStore
  /\ r \notin shut /\ r \notin torn
  /\ Goto(r, "status")
  /\ loaded' = [loaded EXCEPT ![r] = OnDisk(r)]
  /\ mem' = [mem EXCEPT ![r] = cursor[r]]
  /\ UNCHANGED <<cloud, directory, outbox, cursor, torn, conflicts, stage, page, file,
                 faults>>

\* What follows a pull that met no conflict.
Proceed(r) ==
  \/ /\ stage[r] = "initial"
     /\ \/ queued[r] = {} /\ Goto(r, "write") /\ UNCHANGED <<stage, file>>
        \/ \E f \in queued[r] :
             /\ IsFirstFile(r, f)
             /\ file' = [file EXCEPT ![r] = f]
             /\ stage' = [stage EXCEPT ![r] = "first"]
             /\ Goto(r, "status")
  \/ /\ stage[r] \in {"first", "second"}
     /\ Goto(r, "submit") /\ UNCHANGED <<stage, file>>
  \/ /\ stage[r] = "confirm"
     /\ Goto(r, "write") /\ UNCHANGED <<stage, file>>

\* fetchSyncStatus
Status(r) ==
  /\ at[r] = "status"
  /\ IF latest > mem[r] THEN Goto(r, "pull") /\ UNCHANGED <<stage, file>> ELSE Proceed(r)
  /\ UNCHANGED <<cloud, directory, outbox, cursor, torn, conflicts, loaded, mem, page,
                 faults>>

\* fetchSyncEnvelopes: the rows of the next batches, as they are now.
Pull(r) ==
  /\ at[r] = "pull"
  /\ LET through == IF mem[r] + PageSize < latest THEN mem[r] + PageSize ELSE latest
     IN page' = [page EXCEPT ![r] =
          [left |-> {i \in rows : mem[r] < i.generation /\ i.generation <= through},
           whole |-> mem[r], through |-> through]]
  /\ Goto(r, "apply")
  /\ UNCHANGED <<cloud, directory, outbox, cursor, torn, conflicts, loaded, stage, mem,
                 file, faults>>
-----------------------------------------------------------------------------
(* applyPulledEnvelopes *)

IsNext(r, i) ==
  /\ i \in page[r].left
  /\ \A j \in page[r].left : i.generation <= j.generation

\* One generation of the page is dealt with.
Whole(r, i) ==
  page' = [page EXCEPT ![r] =
    [left |-> page[r].left \ {i}, whole |-> i.generation,
     through |-> page[r].through]]

\* The first envelopes of an object are taken as they are in a pull from 0 only.
Outcome(have, i, from) ==
  IF have.version = i.version /\ have.by # i.by THEN "version-conflict"
  ELSE IF have.version >= i.version THEN "skip"
  ELSE IF have.version = 0
       THEN IF i.version > 1 /\ from > 0 THEN "version-gap" ELSE "apply"
  ELSE IF i.version # have.version + 1 THEN "version-gap" ELSE "apply"

\* recordConflict, and the handshake fails with the cursor of the last whole
\* generation; the ledger has one entry for a conflict however often it is met.
Conflicted(r, i, reason) ==
  /\ conflicts' = [conflicts EXCEPT ![r] = conflicts[r] \cup
       {[object |-> i.object, generation |-> i.generation,
         version |-> i.version, reason |-> reason]}]
  /\ mem' = [mem EXCEPT ![r] = page[r].whole]
  /\ Goto(r, "write")

\* An envelope is compared with the handshake's store, and store.createObject or
\* store.updateObject applies it there.
Apply(r, i) ==
  /\ at[r] = "apply" /\ IsNext(r, i)
  /\ LET outcome == Outcome(loaded[r].objects[i.object], i, mem[r])
         held == [version |-> i.version, by |-> i.by]
     IN \/ /\ outcome = "skip"
           /\ Whole(r, i)
           /\ UNCHANGED <<directory, at, loaded, mem, conflicts>>
        \/ /\ outcome = "apply"
           /\ AppendEntry(r, loaded[r], i.object, held)
           /\ loaded' = [loaded EXCEPT ![r] = With(loaded[r], i.object, held)]
           /\ Whole(r, i)
           /\ UNCHANGED <<at, mem, conflicts>>
        \/ /\ outcome \in Reasons
           /\ Conflicted(r, i, outcome)
           /\ UNCHANGED <<directory, loaded, page>>
  /\ UNCHANGED <<cloud, outbox, cursor, torn, stage, file, faults>>

\* Mutant: the cursor is that of the last envelope.
PageDoneWhole(r) ==
  /\ at[r] = "apply" /\ page[r].left = {}
  /\ mem' = [mem EXCEPT ![r] = page[r].whole]
  /\ page' = [page EXCEPT ![r] = NoPage]
  /\ Proceed(r)
  /\ UNCHANGED <<cloud, directory, outbox, cursor, torn, conflicts, loaded, faults>>

\* The page met no conflict: the cursor is the cloud's.  One page ends the pull,
\* whatever has_more says, for next_cursor is now the cursor.
PageDone(r) ==
  /\ at[r] = "apply" /\ page[r].left = {}
  /\ mem' = [mem EXCEPT ![r] = page[r].through]
  /\ page' = [page EXCEPT ![r] = NoPage]
  /\ Proceed(r)
  /\ UNCHANGED <<cloud, directory, outbox, cursor, torn, conflicts, loaded, faults>>
-----------------------------------------------------------------------------
(* The push *)

\* Mutant: the cloud takes a batch on any base.
AcceptsAny(r) == TRUE

\* The sequencer takes a batch that builds on the latest generation.
Accepts(r) == mem[r] = latest

\* A batch of one file; INSERT OR REPLACE moves a version that is there already to
\* the new generation.  An object withheld leaves the batch empty.
Submit(r) ==
  LET f == file[r]
      row == [generation |-> latest + 1, object |-> f.object,
              version |-> f.version, by |-> f.by]
  IN /\ at[r] = "submit"
     /\ IF Accepts(r)
        THEN /\ latest' = latest + 1
             /\ IF f.object \in Withheld
                THEN UNCHANGED <<rows, sent>>
                ELSE /\ rows' = {i \in rows : i.object # f.object \/ i.version # f.version}
                                  \cup {row}
                     /\ sent' = sent \cup {row}
             /\ Goto(r, "accepted")
        ELSE Goto(r, "refused") /\ UNCHANGED cloud
     /\ UNCHANGED <<directory, outbox, cursor, torn, conflicts, loaded, stage, mem, page,
                    file, faults>>

\* The file is renamed and the generation pulled back.
Accepted(r) ==
  /\ at[r] = "accepted"
  /\ queued' = [queued EXCEPT ![r] = queued[r] \ {file[r]}]
  /\ stage' = [stage EXCEPT ![r] = "confirm"]
  /\ file' = [file EXCEPT ![r] = NoFile]
  /\ Goto(r, "status")
  /\ UNCHANGED <<cloud, directory, session, owing, lost, edits, cursor, torn, conflicts,
                 loaded, mem, page, faults>>

\* Mutant: a file refused twice is set aside.
RefusedDrops(r) ==
  /\ at[r] = "refused"
  /\ \/ /\ stage[r] = "first"
        /\ stage' = [stage EXCEPT ![r] = "second"] /\ Goto(r, "status")
        /\ UNCHANGED queued
     \/ /\ stage[r] = "second"
        /\ queued' = [queued EXCEPT ![r] = queued[r] \ {file[r]}]
        /\ Goto(r, "write") /\ UNCHANGED stage
  /\ UNCHANGED <<cloud, directory, session, owing, lost, edits, cursor, torn, conflicts,
                 loaded, mem, page, file, faults>>

\* 409: once more from the status, then the handshake gives up.
Refused(r) ==
  /\ at[r] = "refused"
  /\ \/ /\ stage[r] = "first"
        /\ stage' = [stage EXCEPT ![r] = "second"] /\ Goto(r, "status")
     \/ /\ stage[r] = "second"
        /\ Goto(r, "write") /\ UNCHANGED stage
  /\ UNCHANGED <<cloud, directory, outbox, cursor, torn, conflicts, loaded, mem, page,
                 file, faults>>

\* A request is answered with an error, of a committed push too: the handshake
\* fails and its cursor is written.
RequestFails(r) ==
  /\ faults < MaxFaults /\ faults' = faults + 1
  /\ at[r] \in {"status", "pull", "submit", "accepted"}
  /\ Goto(r, "write")
  /\ UNCHANGED <<cloud, directory, outbox, cursor, torn, conflicts, loaded, stage, mem,
                 page, file>>

\* Mutant: the cursor written is the one asked for.
WriteCursorThrough(r) ==
  /\ at[r] = "write"
  /\ cursor' = [cursor EXCEPT ![r] =
       IF page[r].through > mem[r] THEN page[r].through ELSE mem[r]]
  /\ Goto(r, "compact")
  /\ UNCHANGED <<cloud, directory, outbox, torn, conflicts, loaded, stage, mem, page,
                 file, faults>>

\* writeCursor, whatever the handshake's result.
WriteCursor(r) ==
  /\ at[r] = "write"
  /\ cursor' = [cursor EXCEPT ![r] = mem[r]]
  /\ Goto(r, "compact")
  /\ UNCHANGED <<cloud, directory, outbox, torn, conflicts, loaded, stage, mem, page,
                 file, faults>>

\* writeFile truncates the file before it writes: death in between.
CursorTorn(r) ==
  /\ faults < MaxFaults /\ faults' = faults + 1
  /\ at[r] = "write"
  /\ cursor' = [cursor EXCEPT ![r] = 0]
  /\ torn' = torn \cup {r}
  /\ Close(r)
  /\ UNCHANGED <<cloud, directory, outbox, conflicts>>

\* An operator removes the file no daemon can read.
RemoveCursor(r) ==
  /\ r \in torn
  /\ torn' = torn \ {r}
  /\ UNCHANGED <<cloud, directory, outbox, cursor, conflicts, handshake, faults>>

\* store.compact: the directory is what the handshake's store has in memory.
Compact(r) ==
  /\ at[r] = "compact"
  /\ store' = [store EXCEPT ![r] = loaded[r].objects]
  /\ generation' = [generation EXCEPT ![r] = loaded[r].generation]
  /\ shut' = shut \ {r}
  /\ Close(r)
  /\ UNCHANGED <<cloud, outbox, cursor, torn, conflicts, faults>>

\* The daemon dies, or a request throws: the handshake's cursor is forgotten.
Crash(r) ==
  /\ faults < MaxFaults /\ faults' = faults + 1
  /\ at[r] # "idle"
  /\ Close(r)
  /\ UNCHANGED <<cloud, directory, outbox, cursor, torn, conflicts>>
-----------------------------------------------------------------------------
Handshake(r) ==
  \/ Status(r) \/ Pull(r) \/ PageDone(r)
  \/ \E i \in page[r].left : Apply(r, i)
  \/ Submit(r) \/ Accepted(r) \/ Refused(r) \/ WriteCursor(r) \/ Compact(r)

Next ==
  \E r \in Replicas :
    \/ \E o \in Objects : Edit(r, o)
    \/ \E f \in owing[r] : Enqueue(r, f)
    \/ EnqueueFails(r) \/ Leave(r)
    \/ Open(r)
    \/ Handshake(r)
    \/ RequestFails(r) \/ Crash(r)
    \/ CursorTorn(r) \/ RemoveCursor(r)

Spec == Init /\ [][Next]_vars

\* The daemon's loop opens a handshake again and goes on with one; a file once
\* owed is written, an editing program ends, and an operator sees to a cursor file
\* that stops every cycle of the daemon.
Fairness ==
  \A r \in Replicas :
    /\ WF_vars(Open(r)) /\ WF_vars(Handshake(r))
    /\ WF_vars(\E f \in owing[r] : Enqueue(r, f)) /\ WF_vars(Leave(r))
    /\ WF_vars(RemoveCursor(r))

FairSpec == Spec /\ Fairness
-----------------------------------------------------------------------------
(* Correctness *)

TypeOK ==
  /\ latest \in Nat /\ rows \subseteq Row /\ sent \subseteq Row
  /\ store \in [Replicas -> [Objects -> Held]]
  /\ generation \in [Replicas -> Nat] /\ shut \subseteq Replicas
  /\ session \in [Replicas -> Store \cup {NoStore}]
  /\ owing \in [Replicas -> SUBSET File] /\ queued \in [Replicas -> SUBSET File]
  /\ lost \subseteq Change /\ edits \subseteq Change
  /\ cursor \in [Replicas -> Nat] /\ torn \subseteq Replicas
  /\ loaded \in [Replicas -> Store \cup {NoStore}]
  /\ conflicts \in [Replicas -> SUBSET Conflict]
  /\ at \in [Replicas -> Places] /\ stage \in [Replicas -> Stages]
  /\ mem \in [Replicas -> Nat] /\ page \in [Replicas -> Page]
  /\ file \in [Replicas -> File \cup {NoFile}]
  /\ \A r \in Replicas :
       /\ at[r] # "idle" => loaded[r] \in Store
       /\ at[r] \in {"submit", "accepted", "refused"} => stage[r] \in {"first", "second"}
       /\ stage[r] \in {"first", "second"} => file[r] \in File
  /\ faults \in 0..MaxFaults

\* A replica that reached a generation has, in its directory, of every object the
\* cloud serves up to there that version or a later one: no crash between the
\* mutations, the cursor file and the compaction, no failed page and no row moved
\* meanwhile lets the cursor jump.
Covers(r, i) == store[r][i.object].version >= i.version
CursorNeverSkips ==
  \A r \in Replicas, i \in rows : i.generation <= cursor[r] => Covers(r, i)

\* "the local agent does not discard local changes": a mutation of which a file was
\* written is in the outbox until the cloud has taken it.
ChangesKept ==
  \A e \in edits :
    \/ e \in lost \/ e.object \in Withheld
    \/ \E r \in Replicas : \E f \in owing[r] \cup queued[r] : Carried(f) = e
    \/ \E i \in sent : Carried(i) = e

\* A push is accepted only from a replica whose store has everything the cloud
\* serves: pull before push, and a base that is checked.
PushOnTop ==
  [][latest' > latest =>
       \E r \in Replicas : at[r] = "submit" /\ \A i \in rows : Covers(r, i)]_vars

\* Objects that one replica edits never conflict, whatever fails (while the names
\* of its files sort as its generations do, and none is lost).
Shared(o) == \E e, f \in edits : e.object = o /\ f.object = o /\ e.by # f.by
OnlySharedConflict ==
  lost = {} =>
    \A r \in Replicas : \A c \in conflicts[r] : Shared(c.object)

\* "conflicts are explicit and auditable, not silently overwritten": what the cloud
\* took as a version of an object is not replaced by another replica's.
NothingOverwritten ==
  \A i, j \in sent : i.object = j.object /\ i.version = j.version => i.by = j.by

\* "independent-object concurrent edits should converge without operator review".
Converged ==
  /\ \A r \in Replicas : queued[r] = {} /\ cursor[r] = latest
  /\ \A r, s \in Replicas, o \in Objects \ Withheld : store[r][o] = store[s][o]
Independent == lost = {} /\ \A o \in Objects : ~Shared(o)
Converges == []Independent => <>[]Converged
=============================================================================
