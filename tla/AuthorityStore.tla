--------------------------- MODULE AuthorityStore ---------------------------
(***************************************************************************)
(* The authority database of one workspace                                 *)
(* (packages/store-sqlite/src/sqlite-authority.ts): the workspace stream,  *)
(* the run streams, the command deduplication ledger, the authority        *)
(* consumption ledger and the versioned grant record, together with the    *)
(* callers that observe it, compose a request and submit it in a           *)
(* BEGIN IMMEDIATE transaction.                                            *)
(*                                                                         *)
(* What is abstracted.  An envelope hash is represented by the id of its   *)
(* event: the database holds one event per id, and a hash only occurs in a *)
(* cursor after it was read from the database.  A request digest is the    *)
(* request itself.  A context epoch is a function of the sequence of the   *)
(* head.  A grant record is the set of operations that issued a grant.     *)
(***************************************************************************)
EXTENDS Integers, Sequences, FiniteSets

CONSTANTS
  Workspace,      \* the workspace, and the name of its stream
  Runs,           \* the run streams
  Commands,       \* command (operation) ids
  Connections,    \* database connections, each driven by one caller
  AuthorityKeys,  \* keys of the authority consumption ledger
  Kinds,          \* the kinds of request the callers of this instance make
  BatchSizes,     \* how many events a run append may carry
  MaxEvents,      \* bound: the longest stream
  MaxCrashes,     \* bound: crashes of a process inside a transaction
  NoHash,         \* "no envelope hash"
  NoCommand,      \* "no command"
  NoConnection,   \* "no connection holds the write lock"
  NoRequest       \* "no request", also "no row"

AllKinds == {"bootstrap", "runGenesis", "taskCreate", "execution", "progress",
             "admission", "noop", "result", "consume", "grants"}

ASSUME StreamsAssumption == Workspace \notin Runs
ASSUME KindsAssumption == Kinds \subseteq AllKinds
ASSUME BoundsAssumption ==
  /\ BatchSizes \subseteq Nat \ {0}
  /\ MaxEvents \in Nat
  /\ MaxCrashes \in Nat
ASSUME SentinelsAssumption ==
  /\ NoCommand \notin Commands
  /\ NoConnection \notin Connections

Streams == {Workspace} \cup Runs

VARIABLES
  db,       \* the committed database
  writer,   \* the connection inside a BEGIN IMMEDIATE transaction
  staged,   \* the database as the open transaction will leave it
  call,     \* what each connection's caller is doing
  crashes   \* crashes so far

vars == <<db, writer, staged, call, crashes>>

-----------------------------------------------------------------------------
(* The kinds of request, by what the transaction checks and writes.        *)

AppendsWorkspace  == {"bootstrap", "admission"}
AppendsRun        == {"runGenesis", "taskCreate", "execution", "progress", "admission"}
ObservesWorkspace == AppendsWorkspace \cup
                     {"runGenesis", "taskCreate", "execution", "progress", "noop", "consume"}
ObservesRun       == AppendsRun \cup {"noop", "consume"}
ObservesGrants    == {"execution", "noop", "consume", "grants"}
Deduplicated      == AllKinds \ {"consume", "grants"}

\* Requests a caller keeps and sends again unchanged: their cursor is the one
\* the client sent, so the repeated request has the same digest.
Retained == {"runGenesis", "taskCreate", "consume"}

-----------------------------------------------------------------------------
(* Data.                                                                   *)

EmptyHead == [sequence |-> 0, hash |-> NoHash]

EventIds == [family : {"genesis", "execution", "task", "admission"},
             scope : Streams \cup {"any", "workspace", "run"}, command : Commands, at : Nat]
Heads == [sequence : Nat, hash : EventIds \cup {NoHash}]
Events == [id : EventIds, prior : EventIds \cup {NoHash}]
GrantRecords == [revision : Nat, issued : SUBSET Commands]
Requests == [kind : AllKinds, scope : Streams, command : Commands, n : Nat,
             workspaceHead : Heads, runHead : Heads, grants : GrantRecords,
             key : AuthorityKeys]

ASSUME NoRequestAssumption == NoRequest \notin Requests

Databases ==
  [events   : [Streams -> Seq(Events)],
   heads    : [Streams -> Heads],
   dedup    : [Streams -> [Commands -> Requests \cup {NoRequest}]],
   consumed : [Runs -> [AuthorityKeys -> Commands \cup {NoCommand}]],
   grants   : GrantRecords]

Outcomes == {"none", "committed", "deduplicated", "recovered", "conflict", "busy"}
Phases == {"idle", "observed", "composed", "writing", "lost", "answered"}

Calls == [phase : Phases, workspaceHead : Heads, grants : GrantRecords,
          request : Requests \cup {NoRequest}, outcome : Outcomes]

NoGrants == [revision |-> 0, issued |-> {}]

EmptyDatabase ==
  [events   |-> [s \in Streams |-> << >>],
   heads    |-> [s \in Streams |-> EmptyHead],
   dedup    |-> [s \in Streams |-> [c \in Commands |-> NoRequest]],
   consumed |-> [r \in Runs |-> [k \in AuthorityKeys |-> NoCommand]],
   grants   |-> NoGrants]

IdleCall == [phase |-> "idle", workspaceHead |-> EmptyHead, grants |-> NoGrants,
             request |-> NoRequest, outcome |-> "none"]

-----------------------------------------------------------------------------
(* The events of a request.  Genesis events are named `${commandId}:1` in  *)
(* both streams, execution events by command and index (without the run),  *)
(* task creation by run and command, admission events by stream kind,      *)
(* command and sequence.                                                   *)

BatchSize(q, s) ==
  CASE s = Workspace /\ q.kind \in AppendsWorkspace -> 1
    [] s # Workspace /\ s = q.scope /\ q.kind \in AppendsRun -> q.n
    [] OTHER -> 0

Base(q, s) == IF s = Workspace THEN q.workspaceHead ELSE q.runHead

EventId(q, s, i) ==
  CASE q.kind \in {"bootstrap", "runGenesis"} ->
         [family |-> "genesis", scope |-> "any", command |-> q.command, at |-> 1]
    [] q.kind = "taskCreate" ->
         [family |-> "task", scope |-> s, command |-> q.command, at |-> 1]
    [] q.kind = "admission" ->
         [family |-> "admission", scope |-> IF s = Workspace THEN "workspace" ELSE "run",
          command |-> q.command, at |-> Base(q, s).sequence + i]
    [] OTHER ->
         [family |-> "execution", scope |-> "any", command |-> q.command, at |-> i]

Batch(q, s) ==
  [i \in 1 .. BatchSize(q, s) |->
     [id |-> EventId(q, s, i),
      prior |-> IF i = 1 THEN Base(q, s).hash ELSE EventId(q, s, i - 1)]]

-----------------------------------------------------------------------------
(* What a transaction checks (every early throw is a missing conjunct) and *)
(* what it writes.                                                         *)

\* Slips of this kind stand beside the definition they would spoil.
\* The heads compared before the stored result is looked up:
ReplaysAtItsHead(d, q) ==
  /\ q.kind \in Deduplicated /\ d.dedup[q.scope][q.command] = q
  /\ d.heads[Workspace] = q.workspaceHead

\* The stored result returned without comparing the request digest:
ReplaysAnyDigest(d, q) ==
  q.kind \in Deduplicated /\ d.dedup[q.scope][q.command] # NoRequest

Replays(d, q) ==
  \/ q.kind \in Deduplicated /\ d.dedup[q.scope][q.command] = q
  \/ q.kind = "consume" /\ d.consumed[q.scope][q.key] = q.command

\* The run head compared without the workspace head:
OnlyRunCurrent(d, q) ==
  q.kind \in ObservesRun => d.heads[q.scope] = q.runHead

\* The heads compared without the grant record:
OnlyHeadsCurrent(d, q) ==
  /\ q.kind \in ObservesWorkspace => d.heads[Workspace] = q.workspaceHead
  /\ q.kind \in ObservesRun => d.heads[q.scope] = q.runHead

\* The heads and the grant record the request was composed from are current.
ObservationCurrent(d, q) ==
  /\ q.kind \in ObservesWorkspace => d.heads[Workspace] = q.workspaceHead
  /\ q.kind \in ObservesRun => d.heads[q.scope] = q.runHead
  /\ q.kind \in ObservesGrants => d.grants = q.grants /\ d.grants.revision > 0

\* The row of another request replaced (INSERT OR REPLACE):
CommandReplaced(d, q) == q.kind \in Deduplicated => d.dedup[q.scope][q.command] # q

CommandUnused(d, q) ==
  q.kind \in Deduplicated => d.dedup[q.scope][q.command] = NoRequest

\* writeRunGenesis: the workspace exists and the run has no authority rows.
RunAbsent(d, r) ==
  /\ d.heads[Workspace].sequence > 0
  /\ d.heads[r] = EmptyHead
  /\ \A c \in Commands : d.dedup[r][c] = NoRequest
  /\ \A k \in AuthorityKeys : d.consumed[r][k] = NoCommand

RunPresent(d, r) == d.heads[r].sequence > 0

\* A consumed authority key taken again:
KeyTakenAgain(d, q) ==
  /\ q.kind = "bootstrap" => d.heads[Workspace] = EmptyHead /\ d.grants.revision = 0
  /\ q.kind = "runGenesis" => RunAbsent(d, q.scope)
  /\ q.kind \in (ObservesRun \cup {"result"}) \ {"runGenesis"} => RunPresent(d, q.scope)

RunStateFits(d, q) ==
  /\ q.kind = "bootstrap" => d.heads[Workspace] = EmptyHead /\ d.grants.revision = 0
  /\ q.kind = "runGenesis" => RunAbsent(d, q.scope)
  /\ q.kind \in (ObservesRun \cup {"result"}) \ {"runGenesis"} => RunPresent(d, q.scope)
  /\ q.kind = "consume" => d.consumed[q.scope][q.key] = NoCommand

\* Event ids unique in their stream, not in the workspace:
FreshInStream(d, q) ==
  \A s \in Streams : \A i \in DOMAIN Batch(q, s), j \in DOMAIN d.events[s] :
    Batch(q, s)[i].id # d.events[s][j].id

\* UNIQUE(workspace_id,event_id): no id of any stream, nor twice in the request.
EventIdsFresh(d, q) ==
  /\ \A s, t \in Streams : \A i \in DOMAIN Batch(q, s), j \in DOMAIN d.events[t] :
       Batch(q, s)[i].id # d.events[t][j].id
  /\ \A s, t \in Streams : \A i \in DOMAIN Batch(q, s), j \in DOMAIN Batch(q, t) :
       Batch(q, s)[i].id = Batch(q, t)[j].id => s = t /\ i = j

\* The observation checked when the request was composed, not in the transaction:
AcceptsUnobserved(d, q) ==
  /\ CommandUnused(d, q)
  /\ RunStateFits(d, q)
  /\ EventIdsFresh(d, q)

Accepts(d, q) ==
  /\ CommandUnused(d, q)
  /\ ObservationCurrent(d, q)
  /\ RunStateFits(d, q)
  /\ EventIdsFresh(d, q)

AppendEvents(d, q) == [s \in Streams |-> d.events[s] \o Batch(q, s)]

AdvanceHeads(d, q) ==
  [s \in Streams |->
     IF BatchSize(q, s) = 0 THEN d.heads[s]
     ELSE [sequence |-> Base(q, s).sequence + BatchSize(q, s),
           hash |-> EventId(q, s, BatchSize(q, s))]]

RecordCommand(d, q) ==
  IF q.kind \in Deduplicated THEN [d.dedup EXCEPT ![q.scope][q.command] = q] ELSE d.dedup

RecordConsumption(d, q) ==
  IF q.kind = "consume" THEN [d.consumed EXCEPT ![q.scope][q.key] = q.command] ELSE d.consumed

\* Bootstrap writes revision 1; a later write replaces the record it observed.
ReplaceGrants(d, q) ==
  CASE q.kind = "bootstrap" -> [revision |-> 1, issued |-> {}]
    [] q.kind = "grants" -> [revision |-> d.grants.revision + 1,
                             issued |-> q.grants.issued \cup {q.command}]
    [] OTHER -> d.grants

Apply(d, q) ==
  [events   |-> AppendEvents(d, q),
   heads    |-> AdvanceHeads(d, q),
   dedup    |-> RecordCommand(d, q),
   consumed |-> RecordConsumption(d, q),
   grants   |-> ReplaceGrants(d, q)]

-----------------------------------------------------------------------------
(* The callers.                                                            *)

Init ==
  /\ db = EmptyDatabase
  /\ writer = NoConnection
  /\ staged = EmptyDatabase
  /\ call = [c \in Connections |-> IdleCall]
  /\ crashes = 0

Become(c, changes) == call' = [call EXCEPT ![c] = changes]
Answer(c, outcome) == Become(c, [call[c] EXCEPT !.phase = "answered", !.outcome = outcome])

\* The caller reads the grant record and the workspace head: one replay.
Observe(c) ==
  /\ call[c].phase = "idle"
  /\ Become(c, [call[c] EXCEPT !.phase = "observed",
                               !.workspaceHead = db.heads[Workspace],
                               !.grants = db.grants])
  /\ UNCHANGED <<db, writer, staged, crashes>>

Request(c, kind, scope, command, n, key) ==
  [kind |-> kind, scope |-> scope, command |-> command, n |-> n,
   workspaceHead |-> call[c].workspaceHead,
   runHead |-> IF scope = Workspace THEN EmptyHead ELSE db.heads[scope],
   grants |-> call[c].grants, key |-> key]

\* What the caller itself refuses before it opens a transaction.
CallerComposes(c, q) ==
  /\ q.kind \in {"bootstrap", "grants"} <=> q.scope = Workspace
  /\ q.kind \notin {"execution", "progress", "admission"} => q.n = 1
  /\ \A s \in Streams : Base(q, s).sequence + BatchSize(q, s) <= MaxEvents
  /\ q.kind = "bootstrap" => q.workspaceHead = EmptyHead
  /\ q.kind = "grants" => q.command \notin q.grants.issued /\ q.grants.revision > 0
  /\ q.kind = "runGenesis" => q.workspaceHead # EmptyHead /\ q.runHead = EmptyHead
  /\ q.kind \notin {"bootstrap", "grants", "runGenesis"} => q.runHead # EmptyHead
  /\ q.kind \in {"execution", "progress", "noop", "result"} =>
       db.dedup[q.scope][q.command] = NoRequest

\* The second read: the run is replayed after the workspace was, and the
\* request is built from both.
Compose(c) ==
  /\ call[c].phase = "observed"
  /\ \E kind \in Kinds, scope \in Streams, command \in Commands,
        n \in BatchSizes, key \in AuthorityKeys :
       LET q == Request(c, kind, scope, command, n, key)
       IN  /\ CallerComposes(c, q)
           /\ Become(c, [call[c] EXCEPT !.phase = "composed", !.request = q])
  /\ UNCHANGED <<db, writer, staged, crashes>>

\* recoveredMutationCursor: the operation already committed, its stored result
\* is the answer; a row of another request is OPERATION_ID_REUSED.
Recall(c) ==
  /\ call[c].phase = "observed"
  /\ \E run \in Runs, command \in Commands, n \in BatchSizes :
       LET row == db.dedup[run][command]
       IN  /\ row # NoRequest
           /\ IF row.kind \in {"execution", "noop", "result"} /\ row.n = n
              THEN Become(c, [call[c] EXCEPT !.phase = "answered", !.request = row,
                                             !.outcome = "recovered"])
              ELSE Answer(c, "conflict")
  /\ UNCHANGED <<db, writer, staged, crashes>>

\* A deferred BEGIN, which takes no lock before the checks:
BeginDeferred(c) ==
  /\ call[c].phase = "composed"
  /\ Accepts(db, call[c].request)
  /\ writer' = c
  /\ staged' = Apply(db, call[c].request)
  /\ Become(c, [call[c] EXCEPT !.phase = "writing"])
  /\ UNCHANGED <<db, crashes>>

\* BEGIN IMMEDIATE, the checks, and either the stored answer, a rollback, or
\* the writes of the transaction.
Begin(c) ==
  /\ call[c].phase = "composed"
  /\ writer = NoConnection
  /\ LET q == call[c].request
     IN  \/ /\ Replays(db, q)
            /\ Answer(c, "deduplicated")
            /\ UNCHANGED <<writer, staged>>
         \/ /\ ~Replays(db, q)
            /\ Accepts(db, q)
            /\ writer' = c
            /\ staged' = Apply(db, q)
            /\ Become(c, [call[c] EXCEPT !.phase = "writing"])
         \/ /\ ~Replays(db, q)
            /\ ~Accepts(db, q)
            /\ Answer(c, "conflict")
            /\ UNCHANGED <<writer, staged>>
  /\ UNCHANGED <<db, crashes>>

\* The connection has no busy timeout: BEGIN IMMEDIATE throws at once while
\* another connection holds the write lock.
Busy(c) ==
  /\ call[c].phase = "composed"
  /\ writer # NoConnection
  /\ Answer(c, "busy")
  /\ UNCHANGED <<db, writer, staged, crashes>>

Commit(c) ==
  /\ writer = c
  /\ db' = staged
  /\ writer' = NoConnection
  /\ Answer(c, "committed")
  /\ UNCHANGED <<staged, crashes>>

\* The process dies after COMMIT and before it answers.
CommitUnanswered(c) ==
  /\ writer = c
  /\ crashes < MaxCrashes
  /\ db' = staged
  /\ writer' = NoConnection
  /\ crashes' = crashes + 1
  /\ Become(c, [call[c] EXCEPT !.phase = "lost"])
  /\ UNCHANGED staged

\* Events and result written in two transactions, a crash between them:
CrashBeforeResult(c) ==
  /\ writer = c
  /\ crashes < MaxCrashes
  /\ db' = [staged EXCEPT !.dedup = db.dedup]
  /\ staged' = db'
  /\ writer' = NoConnection
  /\ crashes' = crashes + 1
  /\ Become(c, [call[c] EXCEPT !.phase = "lost"])

\* The process dies before COMMIT: SQLite rolls the transaction back.
CrashInTransaction(c) ==
  /\ writer = c
  /\ crashes < MaxCrashes
  /\ writer' = NoConnection
  /\ staged' = db
  /\ crashes' = crashes + 1
  /\ Become(c, [call[c] EXCEPT !.phase = "lost"])
  /\ UNCHANGED db

\* The client repeats the request it retained.
Resubmit(c) ==
  /\ call[c].phase = "lost"
  /\ call[c].request.kind \in Retained
  /\ Become(c, [call[c] EXCEPT !.phase = "composed"])
  /\ UNCHANGED <<db, writer, staged, crashes>>

\* The caller is done, or starts again from a new observation.
Finish(c) ==
  /\ call[c].phase \in {"lost", "answered"}
  /\ Become(c, IdleCall)
  /\ UNCHANGED <<db, writer, staged, crashes>>

Next ==
  \E c \in Connections :
    \/ Observe(c)
    \/ Compose(c)
    \/ Recall(c)
    \/ Begin(c)
    \/ Busy(c)
    \/ Commit(c)
    \/ CommitUnanswered(c)
    \/ CrashInTransaction(c)
    \/ Resubmit(c)
    \/ Finish(c)

Spec == Init /\ [][Next]_vars

-----------------------------------------------------------------------------
(* Properties.                                                             *)

\* Every variable keeps its type; one transaction holds the lock, and only the
\* connection that holds it is writing (BEGIN IMMEDIATE, l. 264 and 368).
TypeOK ==
  /\ db \in Databases
  /\ staged \in Databases
  /\ writer \in Connections \cup {NoConnection}
  /\ call \in [Connections -> Calls]
  /\ crashes \in 0 .. MaxCrashes
  /\ \A c \in Connections :
       /\ call[c].phase \in {"composed", "writing", "lost"} => call[c].request \in Requests
       /\ call[c].phase = "writing" <=> writer = c

\* The open transaction: what it will leave is what its request makes of the
\* committed database, and the request is still acceptable there, because the
\* lock is held from the checks to the commit.
TransactionIsolated ==
  IF writer = NoConnection THEN staged = db
  ELSE /\ staged = Apply(db, call[writer].request)
       /\ Accepts(db, call[writer].request)

\* Every stream is a hash chain that starts at sequence 1 and ends at the head
\* recorded in the streams table: what authenticatedRows (l. 310) throws about
\* never happens, however appends, crashes and retries interleave.
Authenticates(d, s) ==
  LET log == d.events[s]
  IN  /\ d.heads[s] = IF log = << >> THEN EmptyHead
                      ELSE [sequence |-> Len(log), hash |-> log[Len(log)].id]
      /\ \A i \in DOMAIN log : log[i].prior = IF i = 1 THEN NoHash ELSE log[i - 1].id

StreamsAuthenticate == \A s \in Streams : Authenticates(db, s)

\* No event id is stored twice in the workspace, in one stream or in two: a
\* command whose event ids leave out the run (execution/service.ts l. 99, the
\* genesis ids) never becomes durable in two runs.
IdsUnique(d) ==
  \A s, t \in Streams :
    \A i \in DOMAIN d.events[s], j \in DOMAIN d.events[t] :
      d.events[s][i].id = d.events[t][j].id => s = t /\ i = j

EventIdsUnique == IdsUnique(db)

\* Request q owns the event at position i of stream s: it is part of its batch.
Owns(d, q, s, i) ==
  /\ i - Base(q, s).sequence \in 1 .. BatchSize(q, s)
  /\ d.events[s][i] = Batch(q, s)[i - Base(q, s).sequence]

\* A stored command result and the events of the command are durable together:
\* a row of command_dedup whose command appends owns its whole batch, in the
\* run and in the workspace (an admission writes both), and every event is
\* owned by a row.  A retry can then never append a second time (l. 266-267).
RowsOwnTheirEvents(d) ==
  \A s \in Streams, scope \in Streams, c \in Commands :
    LET q == d.dedup[scope][c]
    IN  q # NoRequest =>
          \A i \in 1 .. BatchSize(q, s) :
            /\ Base(q, s).sequence + i \in DOMAIN d.events[s]
            /\ Owns(d, q, s, Base(q, s).sequence + i)

EventsHaveTheirRow(d) ==
  \A s \in Streams : \A i \in DOMAIN d.events[s] :
    \E scope \in Streams, c \in Commands :
      /\ d.dedup[scope][c] # NoRequest
      /\ Owns(d, d.dedup[scope][c], s, i)

ResultsMatchEvents == RowsOwnTheirEvents(db) /\ EventsHaveTheirRow(db)

\* No grant update is lost: the record holds one issued grant for every
\* revision after the bootstrap, whatever two grant stores observed and wrote
\* (grant-store.ts replace, compareAndSwapAuthorityState l. 302-309).
NoGrantUpdateLost ==
  db.grants.revision > 0 => db.grants.revision = 1 + Cardinality(db.grants.issued)

\* An answer that says the command took effect is never given before its row
\* is durable, and the row stays: also after a crash of another process.
AnswersAreDurable ==
  \A c \in Connections :
    LET q == call[c].request
    IN  call[c].outcome \in {"committed", "deduplicated", "recovered"} =>
          /\ q.kind \in Deduplicated => db.dedup[q.scope][q.command] = q
          /\ q.kind = "consume" => db.consumed[q.scope][q.key] = q.command
          /\ q.kind = "grants" => q.command \in db.grants.issued

\* What is committed is never rewritten: a step only extends the streams, adds
\* rows to the ledgers and replaces the grant record by a later revision.
CommittedIsImmutable ==
  [][/\ \A s \in Streams :
          /\ Len(db.events[s]) <= Len(db'.events[s])
          /\ \A i \in DOMAIN db.events[s] : db'.events[s][i] = db.events[s][i]
          /\ \A c \in Commands : db.dedup[s][c] # NoRequest => db'.dedup[s][c] = db.dedup[s][c]
     /\ \A r \in Runs, k \in AuthorityKeys :
          db.consumed[r][k] # NoCommand => db'.consumed[r][k] = db.consumed[r][k]
     /\ db'.grants = db.grants \/ db'.grants.revision > db.grants.revision]_vars

\* A transaction commits only against the very heads and the very grant record
\* its caller observed, although the caller read them in two separate steps
\* and other connections committed in between: a revoked or replaced grant and
\* a moved head always refuse the command (l. 185-191, 241-256).
NoStaleCommit ==
  [][db' # db => \E c \in Connections :
       /\ call[c].phase = "writing"
       /\ ObservationCurrent(db, call[c].request)]_vars

=============================================================================
