# A verification project for Horseness

Horseness coordinates coding agents: a daemon owns a *workspace* and its *runs*,
clients create tasks and start workflows, native worker processes (pi, omp,
Claude Code, Codex) do the work, and everything that happened is an event in a
SQLite database whose streams are hash chains. This directory holds TLA+ models
of the parts of that code where order, failure and concurrency decide whether
it is right, the configurations that check them with TLC, and proofs of the
results that matter most, checked by the TLA+ proof system.

`PROJECT.json` is the index: components and their state of modelling, the runs,
for every property a mutation of the model that breaks it, the source lines each
definition stands for, the hazards found in the code, and the theorems.

Paths below are relative to the repository (`packages/...`, `apps/...`).

## 1. Inventory

| Component | State it keeps | Operations | Hard behaviour | What makes it correct |
|---|---|---|---|---|
| **Authority store** `packages/store-sqlite/src/sqlite-authority.ts` | streams and their heads, events, `command_dedup`, `authority_consumption`, the versioned grant record, snapshots, projection metadata | `appendAtomic`, `bootstrapWorkspaceAuthorityAtomic`, `compareAndSwapAuthorityState`, `recordAuthorityConsumption`, `publishAndAppendAtomic`, `persistDispatchAuthorityAtomic`, reads | several connections, optimistic observation, crash inside and after a transaction, retry after a lost answer, reuse of command ids | chains end at their heads; a result row and its events are durable together; nothing commits on a stale observation; nothing committed is rewritten |
| **Artifact store and retention** `artifact-store.ts`, `retention/index.ts` | files under `objects/` and `stage/`, catalog, references, pins, retention intents, tombstones | publish, register, reference, plan and resume retention, staging recovery | files are outside the transaction; publication races collection; a crash between the two commits of a deletion | referenced content has its bytes; a tombstone means the bytes are gone; nothing referenced is collected |
| **Task execution service** `packages/orchestrator/src/execution/service.ts`, reducers in `packages/domain/src/{tasks,execution}.ts` | in the run stream: task lifecycle, attempts, receipts, workflows; in memory: sessions, the pump, wake-ups | start, dispatch, receipt submit, cancel, revoke; pump round, drive, prepare, launch, reconcile, collect, resolve; boot, close | awaits between check and use, two drivers of one attempt, crash between launch intent, handoff and receipt, a process that outlives the daemon | one worker in the directory at a time; work neither lost nor started after a cancel; outcomes final and consistent; workflows end |
| **Task planning** (same service) | adopted graphs, breakdown proposals | breakdown, automatic planner, adopt, revise | plan produced while the graph changes | an adopted graph is acyclic and its closure is closed |
| **Native task runtime** `packages/adapter-kit/src/task-runtime.ts`, `adapters/*/src/task-runtime.ts` | spool: handoff marker, terminal record; the child process | launch, reconcile | the process dies or outlives its parent; output that cannot be observed | an attempt is handed off at most once |
| **Grant store** `apps/daemon/src/grant-store.ts` | the grant record in the store | issue, revoke, observe | two issuers, expiry, revoked ancestor | no grant update is lost |
| **Admission** `orchestrator/src/{admission,revisions,authorization,forks}`, `packages/policy`, `domain/src/{delta,receipt,context,policy}.ts` | in the run stream: proposals, deltas, decisions; the snapshot `admission-current`; pins of forks | pin, seal, evaluate, decide | revision, heads, policy and snapshot are read one after the other; two services | a delta is applied to the revision it was judged on, under the policy that was in force |
| **Projections** `orchestrator/src/{receipts,tasks,scheduler}` | generations of an attempt; tasks, dependencies, evidence | register, project, resolve; add, evaluate a join, schedule | facts authenticated at one head arrive later, in any order | the outcome does not depend on the order; an authorized task waits for nothing more |
| **Dispatch** `orchestrator/src/{dispatch,leases,attempts,recovery}` | lease and record of an attempt, one row of the store | acquire, dispatch, look up, cancel, reconcile, accept a receipt | a process sleeps through its lease; two copies of a row | calls to the provider are fenced; nothing stored is taken back |
| **Daemon** `apps/daemon/src`, `apps/cli/src/lifecycle.ts` | the bootstrap capability, socket, endpoint file | bootstrap, rebind, start, serve, stop | death between two steps of the ceremony; a stop beside the next start | the capability is not lost before it is used; the endpoint leads to a server |
| **Backup, restore, import** `store-sqlite/src/{backup,restore,import,recovery,migrations}` | the restore journal, old and staged siblings | backup, restore, recover, rollback, import, promote, upgrade | a crash between any two renames | the old unit or the new one, never a mixture |
| **Installer** `packages/installer/src` | generations, markers, lifecycle states, the journal and its lock, the home | install, upgrade, downgrade, rollback, retry, uninstall, repair, migrate, recover | a death or a failure between a record and the file operation it describes; abandoned locks | no generation is lost; the marker names what is there; the journal keeps its records |
| **Worker contributions** `adapters/*/src/index.ts`, `packages/adapter-kit` | the retained record and lock of an attempt; sessions, branches, claims; operations | deliver, start, bind, batch, revoke; launch, look up, cancel | two processes of a host, death of one, a batch across awaits, repeated calls | one delivery at a time; a session speaks for its claim; an operation is made once |
| **SDK** `packages/sdk/src/index.ts` | phase, evidence, receipts, subscriptions of a worker | publish, submit, propose, subscribe | calls that overlap, lost answers, a worker that begins again | a proposal names only what was accepted |
| **Command line** `apps/cli/src` | the lock, the saved request and result of a command | run create, task add, task start, enable execution | a killed command, a lost answer, a restarted daemon | what took effect is found by repeating the command |
| **Protocol** `packages/protocol` | framing buffers | request, response | partial frames, disconnects | one answer per request |

How they interact. A client's request reaches the daemon over a local transport;
the server authorises it against the grant record and calls the execution
service or the admission service. These read heads and the grant record,
compose events and call the authority store, which checks the observation again
inside `BEGIN IMMEDIATE`. The execution service calls a worker adapter to open a
session; the adapter writes the handoff marker and spawns the native process;
its terminal record comes back as a receipt, appended to the run. Artifacts
(context manifests, receipts, proposals) are published as files first and
referenced in the transaction that appends the event. Beside that path a worker
inside a host returns its work through the host's contribution (retained record,
receipt, proposal) or through the SDK. The daemon's grant store and the command
line open connections of their own to the same database. The projections, the
admission service and the dispatch modules of the orchestrator are libraries
over the store: the daemon registers none of their methods yet, and their
environment in the models is whatever their interfaces allow.

The hazards this leads to, each at its line and with the properties that cover
it, are the `hazards` of `PROJECT.json`.

## 2. Plan

Done, in order of importance: the store with its abstract ledger and proofs; the
execution service; artifacts and retention with proofs; restore; then what is
built on the store (task ledger, dispatch), around it (receipts, joins,
admission, daemon, installer) and on the clients' side (deliveries, sessions,
adapters, SDK, command line).

Next, by what it would add:

1. TaskExecution over TaskLedger: planning beside the pump.
2. TaskExecution over CommandLedger: which of its retries the store answers how.
3. Import, promotion and upgrade, and the verification all three share with
   backup (`store-sqlite/src/recovery/index.ts`).
4. Lineage and expiry of grants over the record of grants of AuthorityStore.

## 3. The modules

| Module | Of | Run by |
|---|---|---|
| `AuthorityStore`, `CommandLedger`, `AuthorityStoreRefinement`, `AuthorityStoreProofs`, `AuthorityStoreRefinementProofs` | the database and its callers | `MCAuthorityStore`, `MCServices` |
| `TaskLedger` | tasks, plans, attempts and workflows as replay builds them | `MCServices` |
| `DispatchAuthority` | lease, record and row of a dispatched attempt | `MCWorkers` |
| `TaskExecution`, `TaskExecutionProofs` | the execution service with its processes | `MCTaskExecution` |
| `ArtifactRetention`, `ArtifactRetentionProofs` | files and rows of artifacts | `MCWorkers` |
| `NativeTask`, `NativeTaskProofs` | sessions, spool and native process of one attempt | `MCWorkers` |
| `InstallLifecycle`, `InstallJournal`, `InstallMigration` | the installer | `MCServices` |
| `AuthorityRestore` | restores and their recovery | `MCServices` |
| `DaemonLife` | processes of the daemon and the bootstrap ceremony | `MCServices` |
| `ReceiptArbitration`, `DeltaAdmission` | the orchestrator's receipt projection and admission | `MCServices` |
| `TaskJoin` | its task projection, joins and scheduler | `MCServices` |
| `WorkerDelivery`, `HostSessions` | the contributions of the hosts | `MCWorkers` |
| `WorkerClient`, `CliWorkspace` | the SDK and the command line | `MCWorkers` |
| `TaskDispatchProofs` | proofs about `TaskLedger` and `DispatchAuthority` | |
| `ServiceProofs` | proofs about the services that `MCServices` runs | |
| `WorkerProofs` | proofs about deliveries, sessions, client and command line | |

`MCServices` and `MCWorkers` put modules that share no state side by side: a variable
`part` chooses in the initial state which of them moves, and the others stay in one of
their initial states. The state space is the sum of the parts, not their product, and
nothing is claimed of their interaction. Interchangeable model values of different parts
are the same ones, which keeps the group of symmetries small.

### AuthorityStore, CommandLedger, AuthorityStoreRefinement

`AuthorityStore` is the database of one workspace and the callers of it.

| Variable | In the code |
|---|---|
| `db.events`, `db.heads` | tables `events` and `streams`: the workspace stream and the run streams |
| `db.dedup` | table `command_dedup`: the request a command id was used for, per scope |
| `db.consumed` | table `authority_consumption` |
| `db.grants` | the grant record in `workspace_authority_state` with its revision |
| `writer`, `staged` | the connection inside `BEGIN IMMEDIATE` and what its transaction will leave |
| `call[c]` | what the caller on connection `c` observed, composed and was answered |
| `crashes` | crashes so far (bounded) |

A caller observes the workspace head and the grant record in one step
(`Observe`), composes a request in a later one (`Compose`), and submits it: the
checks and writes of the transaction are `Begin`, and `Commit`,
`CommitUnanswered` (the process dies with the commit durable and the answer
lost) or `CrashInTransaction` end it. A caller whose answer was lost repeats the
request (`Resubmit`) or asks for its result (`Recall`). `Busy` is what `BEGIN
IMMEDIATE` answers while another connection writes. The kinds of request
(`AllKinds`) differ in what they observe, append and deduplicate, and are the
real callers: bootstrap, run creation, task creation, execution appends,
progress, admission, no-ops, results, consumptions and grants.

`CommandLedger` is what the store promises to its clients: a command takes
effect at most once, with the answer it will always be given. The refinement
mapping is in `AuthorityStoreRefinement`, and the run `store_commands` checks
`ImplementsLedger`.

Abstractions: an envelope hash is the id of its event, a request digest is the
request, a context epoch is a function of the head's sequence, the grant record
is the set of operations that issued a grant.

### TaskExecution

The execution service of one workspace, its native processes and its daemon.

| Variable | In the code |
|---|---|
| `lifecycle`, `attempt`, `owner`, `receipt`, `reconciled`, `workflow` | the projection of the run stream: task resolution, dispatch state of the attempt, workflow of the attempt, its receipt, use of the command `${attemptId}:reconcile`, workflow authorisation and state |
| `granted` | the issuer's grant is active |
| `spool`, `native` | the adapter's handoff marker and terminal record; the child process |
| `sessions` | the map `sessions` of the service |
| `driver` | what the pump and every request in flight is doing, and on which task |
| `loop` | the driver in the middle of a section between two awaits |
| `requested`, `todo`, `stopping` | the fields of `wake` and `close` |

JavaScript runs one section between two awaits at a time. A section that appends
several events is several actions, because the daemon can die between two
appends, and while it lasts its driver holds `loop`, so no other driver runs.
`PumpStep` is `wake` and `driveWorkflow`, `AttemptStep(d)` is `runAttempt` as
run by the pump or by a request, `ClientStep` the requests of clients
(start, dispatch, submit a receipt, cancel) and the end of the grant. `Crash`
loses the memory of the daemon and keeps the run, the spool and the processes;
`Shutdown` is `close`; `Restart` is the daemon's `start` with `boot`.

The environment is assumed to behave as follows: a receipt is submitted by a
request only for an attempt whose process has ended; a start operation is one of
`Operations`; every edge of the adopted graph demands success; the runs of a
workspace are merged; the choice among ready tasks is open. Append conflicts
other than the reuse of the `:reconcile` command are left out: the daemon is the
only writer of the run in this model.

### ArtifactRetention

Files outside the database and rows inside it.

| Variable | In the code |
|---|---|
| `seen`, `durable` | the file of a digest as a process finds it, and as it is after a power failure |
| `staging` | staging files, by the process that made them |
| `catalog`, `holds` | tables `artifacts`; `artifact_refs` and `artifact_pins` |
| `intent` | table `retention_intents`; `deleted` is written in the transaction that writes the tombstone |
| `committed` | the events that publications appended |
| `process` | the operation each process is in the middle of |

`PublishStep` is `publish` followed by `publishAndAppendAtomic` or
`publishAndRegister`, and `addReference`, `pin`, `removeReference`, `unpin`.
`CollectStep` is `planRetention` and `resumeRetention`. `RecoverStaging` is what
every opening of the store does. `Die` ends a process anywhere; `PowerFailure`
ends all and leaves of every entry that was not synced either what was on disk
or what had been done to it. Each digest has a directory of its own; files are
complete when they are renamed; the two checks `existsSync` and `rmSync` of an
unlink are one step (a process that finds the file gone in between throws, which
is as if it had died).

### AuthorityRestore

Replacing a live authority by a backup, and the recovery that every opening of
the authority begins with.

| Variable | In the code |
|---|---|
| `seen` | the directory: the database file and the artifact directory with their `.old-<token>` and `.restore-<token>` siblings, the restore journal, the commit evidence |
| `outcomes` | the directories a power failure may leave: a sync reduces them to what is seen, an operation without one adds to them |
| `retained` | the generations a restore kept a backup of before replacing them |
| `begun` | history: the generations each restore is from and over |
| `process` | the place each process is at: preparing, recovering, inspecting, or a step of a program |

The straight-line code of `restoreBackup`, `rollback` and `finishForward` is
three programs (`RestoreProgram`, `RollbackProgram`, `FinishProgram`), the
sequences of the calls they make; every call is an action (`Displace`,
`Activate`, `WriteJournal`, `Remove`, ...), so that a process can die and another
can run between any two. `rollback` tests for an old path, removes the live one
and renames in three steps (`Look`, `Clear`, `Return`). A call that changes the
directory and the sync after it are one action with two ends, the second of
which is the death between them (`Durably`).

`Open` is a start of the daemon: `Prepare` makes the artifact directory before
recovery runs, `Serve` creates what is missing after it. `Restore` is an
operator's restore from a backup or from what an earlier restore kept; `Inspect`
backs up what is live. Contents are known by their generation; the two flags
`hadDatabase` and `hadArtifacts` are one, because a restore refuses a live unit
of which one half is missing. The write-ahead log of SQLite beside the database
is left out: `restoreBackup` opens and closes the live database before it moves
it, which folds the log in as long as no other process has it open.

### TaskLedger

`reduceTaskExecutionV1` as the run's replay applies it; an action is an event the
reducer accepts. `lifecycles`, `edges`, `tries` are the tasks, dependencies and attempts
of the projection; `plans`, `planned`, `latestPlan`, `adopted` its `plans`,
`plansByPlanner` with `planRejectionsByPlanner`, `latestPlansByTask` and `adopted`;
`flows` its workflows. `Closure`, `Graph` and `Mutable` are `taskDependencyClosureV1`
(the least set that `visit` cannot leave), the graph digest (the closure itself) and the
guard `mutable`. Events that the service appends in one batch are one action.

### DispatchAuthority

`dispatchRow` is the row of `persistDispatchAuthorityAtomic`, `copies` what each
process holds of it, `provider` what the provider was last asked, `leaseClock` and
`runHead` the time and the head a lease is bound to. Acquiring, the reducer of
the record, the calls to the provider and the reconciliation after a restart are
actions; storing a copy is one that compares the digests of lease and record.
Assumed: `IsStored`, a process stores a step before it takes the next, as
`docs/architecture.md:362` asks; the code leaves it to callers that do not exist yet.

### ReceiptArbitration, TaskJoin, DeltaAdmission

*ReceiptArbitration*: `runLog` the receipts and cancellations of the run,
`unspent` the capabilities issued at some head and not yet used, `projected` the
`AttemptReceiptProjectionV1`. A capability may be used long after it was issued
(a receipt), or only at the head it was issued at (a decision, a cancellation).

*TaskJoin*: `head` and `settled` are the run, `evidence` the events authenticated
while they were its head, `projection` and `joinEdges` the `TaskProjectionV1`,
`join` the latest evaluation that found a task ready, `authorized` what
`selectReadyTasks` authorized.

*DeltaAdmission*: `canonical` is what the run replays to, `heads` both heads,
`inForce` the policy, `snapshot` the `admission-current` of the head, `forkRight`
and `pins` the fork, `proposals`, `decisions`, and for each service what it has
read (`admitters`). `LoadRevision`, `EvaluateAndApply` and `RecordDecision` are the
three reads and writes of `evaluateAndApply`; each may have another service, a
policy change or an append before it. Assumed: `ReadsAlone`, nothing is accepted
between the first two; it holds in one process, where they are synchronous, and
section 6 says what happens in two.

### DaemonLife

`capability` is the pair of capability files, `workspace` what exists of private
state, genesis event and grant reference, `socket` and `endpoint` whose socket
and whose name are published, `daemon` the step of every process. `bootstrap`,
`rebind`, `start` (raw and by the command line), serving, closing and death are
actions of one file operation each. Assumed: `StartsAlone`, the start of a daemon
is not given twice before the endpoint is published: `start` takes no lock
(`apps/cli/src/lifecycle.ts:72`).

### InstallLifecycle, InstallJournal, InstallMigration

*InstallLifecycle*: `target`, `marker`, `aside`, `killSwitch`, `stagedPath`, `kept`
are files, `lifecycle` and `versions` the durable states, `issued` and `revoked` the
grants, `command` the step of the running command; its field `retains` is history:
the generation the command took aside, or found aside when it resumed. The points at
which a command can die or fail are constants (`DeathPoints`, `FailPoints`), and
`services` has all of them. A command starts whatever the one before it left, as in the
code: an upgrade over an unfinished one, over an unfinished uninstall and its kill
switch, and the other way round. Assumed: one command at a time works on a host; the
code takes no lock, and only the appends to the journal are serialized. *InstallJournal*:
`journalLock` and `records` are the directory and the file, `append` the step of each
process, and the two reads of the file in an append are one. Assumed in `services`:
`EvictionsAlone`, takeovers of an abandoned lock come one at a time; `journal_takeover`
is without it. *InstallMigration*: `home`, `backup`, `nextHome` and `state` are
directories and `state.json`, `origin` is history: the home the last migration started
from. The compensation and the recovery can fail and die as the migration can
(`MigrationFails`, `MigrationDies`): what fails of the compensation is recorded as
`repair-required`, unless recording it fails too.

### NativeTask

One attempt below the execution service. `TaskExecution` knows of it a marker, an
outcome and a process; here are the files and the promises they are made of.

| Variable | In the code |
|---|---|
| `taskHost` | the adapter: `adapters/{pi,omp,claude,codex}/src/task-runtime.ts` |
| `spool`, `record` | the files of the attempt in `stateDirectory`, each absent, made and not filled, or whole; the outcome that the terminal record names |
| `native` | the child process of `runNativeProcessV1`, the session that spawned it, what it printed |
| `session[s]` | a session: its abort signal, the promise of its launch and the place that has reached (`launch`, `outcome`), the query for the outcome (`query`, `asked`, `found`), the map `#seen` and the attempt of `SecureWorkerAdapterV1` |
| `spawned`, `told` | history: processes spawned, outcomes that calls were answered with |
| `deaths` | deaths of the daemon (bounded) |

`LookBeforeLaunch`, `Configure`, `Begin`, `Spawn`, `ObserveOutcome`, `PublishOutcome`
and `Save` are the launch of a runtime in the order of its awaits; `FollowLaunch`
and `Look` its reconcile, cancel and receipt; `AskLaunch`, `AskOutcome` and the
`Answer...` actions the worker adapter in front of it. `Begin`, `PublishOutcome` and
`Save` make a file that must not exist and fill it in a second step, so that a
death leaves it torn and another session can read it so. pi and omp write the
configuration of their identity guard before the marker, look for the marker before
they open and refuse a cancel; claude and codex do not. `Close` aborts, which kills
the process; a death of the daemon (`DaemonDies`) does not. Power failures are left
out: every file and its directory are synced before the next step. A publication is
one file for its bytes and its media type, and resuming an attempt is what
reconciling it is.

### WorkerDelivery, HostSessions

*WorkerDelivery*: `lock` and `retained` are the lock directory and the durable
record of an attempt, `delivery` the step of each process, `done` the calls that
took effect. The four hosts differ in what they do under the lock and when they
write the record (`PiPerform`, `OMPPerform`, ...). Assumed in the passing run:
`TakeoversAlone`, which the run `delivery_race` does without.
*HostSessions*: `memory` and `disk` are the tables of sessions, branches and
claims, `batch` the batch in delivery, `binding` a session started and not yet
recorded.

### WorkerClient, CliWorkspace

*WorkerClient*: `worker` is the phase and the maps of the SDK's client, `inFlight`
the calls not answered, `taken` what the coordinator accepted. *CliWorkspace*:
`workspaceLock` and `saved` are the files of the command line, `terminal` the step
of the command in each terminal, `wire` the requests not answered, `authority`
the head and operations of the daemon, whose handlers answer late, twice or never.

## 4. The runs

| Run | Instance | Properties | States |
|---|---|---|---|
| `store_commands` | 2 runs, 3 commands reused between them, 2 connections, batches of 1 or 2, streams up to 2, 1 crash | `TypeOK`, `StreamsAuthenticate`, `ResultsMatchEvents`, `ImplementsLedger` | 224,780 |
| `execution_pump` | 3 tasks (b needs a), 2 workflows, 1 crash or shutdown, no requests | `OneWorker`, `NothingForgotten`, `NoStartAfterCancel`, `WorkflowsEnd` | 468,858 |
| `execution_requests` | 2 tasks, 1 workflow, 2 requests racing the pump | `NativeIsAccountedFor`, `ResolutionAgrees`, `TerminalIsFinal` | 842,970 |
| `execution_cancel` | 2 tasks, 1 request | `NoStartAfterCancel` is violated | |
| `workers` | retention: 2 digests, 1 event, 1 pin, 2 processes, 2 deaths or power failures; native task: 4 hosts, 2 sessions, 1 death; dispatch: 2 processes, 1 move of the clock and of the head; deliveries: 2 processes, 1 death each, 4 hosts; sessions: 2 sessions, 2 capabilities, 1 claim, 2 restarts; client: 2 calls in flight, 2 workers; command line: 2 terminals, 4 commands, 3 faults | `ReferencedBytesPresent`, `CollectedIsUnreferenced`, `DeletionIsCommittedFirst`; `NativeRunsOnce`, `OutcomeIsOnRecord`; `CallsAreFenced`, `DispatchNeverGoesBack`; `OneDelivery`; `SessionStaysInItsClaim`, `BindingsAreDurable`; `ProposalNamesWhatWasAccepted`; `AppendsAreRecovered` | 2,967,806 |
| `delivery_race` | 2 processes of omp, 1 death each | `OneDelivery` is violated | |
| `services` | store: grant record, consumption, executions, results, 2 commands; ledger: source and one other task, 2 workflows, 2 plans; lifecycle: 3 releases, 2 deaths or failures at any step; journal: 2 installers, 3 records, 2 deaths; migration: 2 versions, 4 deaths or failures; restore: 2 restores, 2 backups, 3 deaths; daemon: 2 processes, 5 launches, 3 kills; receipts: 2 generations, 3 events; joins: 2 tasks, 3 events; admission: 2 services, 2 proposals, 2 pins | `NoGrantUpdateLost`, `AnswersAreDurable`, `CommittedIsImmutable`, `NoStaleCommit`; `BoundGraphsHold`, `WorkIsReady`; `GenerationsAreKept`; `JournalKeepsRecords`; `HomeIsKept`; `UnitIsRecoverable`, `SwitchIsAtomic`, `RecoveryNeverGetsStuck`; `CapabilityIsNotLost`, `EndpointLeadsToServer`; `ArbitrationAgrees`; `JoinIsStable`; `AcceptedAsJudged` | 1,652,295 |
| `install_loss` | 2 releases, 1 failure of an upgrade or death at `moved` | `PriorIsKept` is violated | |
| `migration_backup` | 2 versions, 1 failure | `HomeMatchesState` is violated | |
| `journal_takeover` | 2 installers, 2 appends, 1 death | `JournalKeepsRecords` is violated | |
| `receipts_cancel` | 2 generations, 2 events | `CancellationWaits` is violated | |
| `cli_repeat` | 2 terminals, `task start`, 1 fault | `RepeatsAreRecovered` is violated | |

What the passing runs show:

* **The store is exactly-once.** However two connections interleave, crash and retry, a
  result row and the events of its command are durable together and belong to each other
  (`ResultsMatchEvents`), the chain of every stream ends at its head
  (`StreamsAuthenticate`), an answer is durable when it is given (`AnswersAreDurable`),
  nothing committed is rewritten (`CommittedIsImmutable`), nothing commits on a stale
  observation (`NoStaleCommit`), no grant update is lost (`NoGrantUpdateLost`), and the
  whole implements the ledger of commands (`ImplementsLedger`).
* **What replay accepts is coherent.** The graph a running workflow was authorized with
  stays its graph (`BoundGraphsHold`), and work starts only when all it waits for, added
  since or not, is satisfied (`WorkIsReady`).
* **A dispatched attempt has one caller.** The provider is called by the holder of the
  stored lease only, and not to launch after a stored cancellation (`CallsAreFenced`);
  no older copy takes back what is stored (`DispatchNeverGoesBack`).
* **The pump keeps its promises** as long as it alone drives attempts: one native
  process at a time, even across a crash that leaves one behind (`OneWorker`); no
  wake-up is lost (`NothingForgotten`); nothing starts after a durable cancel
  (`NoStartAfterCancel`); a workflow ends or waits for an attempt that only an operator
  can settle (`WorkflowsEnd`).
* **Requests beside the pump** keep the record straight: a running process always has a
  live attempt (`NativeIsAccountedFor`), the task's resolution agrees with its attempt
  and its receipt (`ResolutionAgrees`), outcomes never change (`TerminalIsFinal`).
* **References hold.** Referenced bytes are catalogued and survive a power failure
  (`ReferencedBytesPresent`), content under retention is never referenced again
  (`CollectedIsUnreferenced`), bytes go only after their deletion is committed
  (`DeletionIsCommittedFirst`).
* **A native task runs once.** Whoever asks for its launch, and however often the daemon
  begins again, one process is spawned for an attempt (`NativeRunsOnce`); an outcome
  that a call was answered with is what that process printed, and the next session reads
  it from the record (`OutcomeIsOnRecord`).
* **A restore is a switch**, as long as one process at a time opens or restores:
  whatever step a death or a power failure cuts off, what is on disk can be carried to
  the old unit before the committed marker and is the new unit after it
  (`UnitIsRecoverable`); when the journal goes, that unit is live and no sibling is left
  (`SwitchIsAtomic`); no recovery runs into a rename it cannot make
  (`RecoveryNeverGetsStuck`).
* **Judgements survive their delay.** However late receipts, decisions and cancellations
  reach the projection, a task is settled once and as the facts that have reached it
  say: by the earliest of their successes, as cancelled only by a cancellation, as
  failed only when nothing runs and nothing may be retried (`ArbitrationAgrees`). It is
  not settled the same in every order: a cancellation settles it at once and a success
  that comes later is only a finding, against what `docs/architecture.md` says
  (`receipts_cancel`). A task once authorized waits for nothing more (`JoinIsStable`);
  an accepted delta applies to the revision it was judged on, under a policy that allows
  it (`AcceptedAsJudged`).
* **The daemon can be started**: the only capability of a workspace without genesis is
  never lost (`CapabilityIsNotLost`), and the endpoint file leads to a server or to
  nobody (`EndpointLeadsToServer`).
* **The installer** dies and fails at every step here. What the record of an upgrade
  says was retained is there for the retry, and a command that took a generation aside
  puts these bytes and the marker back (`GenerationsAreKept`); that is less than
  `docs/install.md` promises, which `install_loss` shows not to hold. Where the backup
  is copied to its end, no death or failure of a migration, a compensation or a recovery
  costs the home (`HomeIsKept`). The journal keeps every record while takeovers come one
  at a time (`JournalKeepsRecords`).
* **Clients do things once**: one delivery of an attempt works at a time
  (`OneDelivery`), a session never speaks for a claim that is not its own
  (`SessionStaysInItsClaim`) and keeps its bindings over a restart
  (`BindingsAreDurable`), a proposal names what was accepted
  (`ProposalNamesWhatWasAccepted`), and a repeated command finds what its first try
  appended (`AppendsAreRecovered`).

What the violation runs show, with the lines and the quoted documents in the
`findings` of `PROJECT.json`:

* `execution_cancel`: a `dispatch.reconcile.v1` request replaces the pump's session
  in the map; a cancel then aborts only the request's session and the pump spawns
  the process after the cancel is durable.
* `delivery_race`: two processes take over the lock of one that died; the slower one
  removes the lock the faster one has just made, and both deliver.
* `install_loss`: an ordinary failure while the new generation is staged makes the
  compensation remove the only copy of the installed one. The same run without its
  failure points shows the other window: after a death between the rename of the
  installed generation and the record of it (`moved`), the retry removes that copy.
* `migration_backup`: a failure while the home is being backed up makes the
  compensation replace it by the unfinished backup. With failures at `complete` and
  `restoring` in their place (`MaxMigrationStops = 2`) the property fails after a whole
  backup: when the record of a completed migration cannot be appended and the
  compensation fails too, the recovery puts the old home back and settles on the version
  of the new one. `HomeIsKept`, which `services` checks with all these failures, says
  what is left: the home itself is not lost.
* `journal_takeover`: two processes take over the lock of one that died; the slower one
  renames away the lock the faster one has just named, and both append.
* `receipts_cancel`: a cancellation settles a task while a generation of it has an unknown
  outcome.
* `cli_repeat`: a start repeated while the first try still waits for its host is
  rejected, the saved request is dropped, and the first try takes effect.

### Bounds

Two connections, processes, services or drivers are enough for every race between an
observation and the step that uses it; a third party adds only a second competitor of
the same kind. Three commands allow a lost answer, its retry and another command in
between; streams of two events allow a batch and what follows genesis. Of the kinds of
request, `store_commands` makes those that bring a workspace to work with, and
`services` the grant updates, the consumptions and an append of progress between
them; progress checks what an execution checks but for the grants. A no-op is an
execution without events, and a result checks less than a no-op: both are left to the
theorems, which hold for every choice of `Kinds`. Three tasks allow a dependency and an
independent competitor for the directory. One crash separates any two steps; retention
has two for its files, so that a recovery can itself be interrupted, with one event and
one pin as the holders of two contents, and the journal; the lifecycle has two for a
command and the one that resumes it, at all of its steps; the daemon and the restore
have three: a restore, its recovery and the recovery of that; the migration four, since
its compensation may fail beside. Two restores and two backups let a second restore
start from what the first kept. Three releases let an upgrade and a downgrade follow one
another. Two pins and two proposals let a proposal be sealed on a base that another one
moves. The ledger of tasks has a source, its planner, one planned item and one task
beside them: the least in which an adoption changes a graph another workflow waits for.
`TaskJoin` has contracts with the receipt predicate only in the run; the module allows
both, and three events: the evidence of a task, its resolution and the change that
authorizes what waits for it. Two receipts or one and a cancellation are enough for
`ReceiptArbitration` to meet two facts in either order. One move of the clock and a
lease of one tick let a lease expire, and another be taken, in the middle of every step.

Power failures keep a prefix of the operations that were not synced, as file
systems with a metadata journal do; on one that reorders them, `UnitIsRecoverable`
does not hold, because recovery acts on a committed marker whose rename it has
not synced. `execution_requests` has no crash (the pump run has) and
`execution_pump` has no requests: the two together exceed what TLC finishes in
minutes. The absence of requests is also why `NoStartAfterCancel` and
`NothingForgotten` hold there; the run `execution_cancel` shows what requests do
to the first, and a receipt request (`service.ts:469`) does not wake the pump,
which the second would show. All mutations named in `PROJECT.json` are found
within these bounds.

Constraints cut behaviours off and are named. Three of them are conditions of what
is claimed: `OneAtATime` (`EvictionsAlone` and `ReadsAlone`) in `services`,
`TakeoversAlone` (with `NoLongPause`: no living process needs a second to name a lock
it made) in `workers`, `NoLongPause` in `delivery_race`. What the properties do
without them is said in section 6 and in the findings. The others only keep the runs
short, and no theorem needs them:

| Constraint | Run | Cut off, and why it may be |
|---|---|---|
| `PlansInOrder`, `OneDirection`, `ProposalsInOrder` | `services` | plans, tasks of a join and proposals have interchangeable names |
| `FewChanges` | `services` | a dependency by request beside a revised plan; each is there without the other |
| `OneBreakdown` | `services` | a second breakdown of the same source |
| `MovesBesideShortRecords` | `workers` | a move of the run beside a dispatch of three or more events; the clock moves beside all |
| `OneGrantUpdateBesideCrash` | `services` | two updates of the grants and a crash; each pair is there |
| `CrashesApart` | `execution_pump` | a crash beside the workflow of the task that another workflow needs; two workflows that do not overlap meet it |
| `DiesOncePerTaskKind`, `DiesOncePerKind` | `workers` | deaths under `pi` and `claude`: a native task of `pi` runs the code of `omp`, and one of `claude` that of `codex` but for a verdict; a delivery of `claude` the code of `omp`, and one of `pi` the same but for the revocation |
| `RunGoesOnEarly` | `workers` | a move of the run under a second client, which starts with no cursor |
| `OneSettles` | `services` | a second task resolved: three events leave it without evidence |
| `EvidenceIsIssued` | `services` | events whose evidence is never issued: they reach no projection |
| `OneMove` | `services` | a policy change or an event of the run beside a refreshed lineage, or two of them; each is there beside decisions |

In `services` every step of the lifecycle is a point of death, and every step of an
upgrade or its compensation one of failure. Of the migration three points are left out,
with `BackupIsWhole`: a death or a failure at `copying`, where the backup is not whole,
and a failure at `begun`, before there is one. `HomeIsKept` fails there;
`migration_backup` shows the failure at `copying`.

`services` has parts with long narrow behaviours and parts with short wide ones.
TLC goes through all behaviours of one length before the next, so the wide parts
(`LateParts`) rest for 40 steps (`rest`) before they begin: a faulty mutation of a
narrow part is then met before the wide ones are searched. Resting changes no
variable of a modelled module.

Deadlock checking is off where `CHECK_DEADLOCK FALSE` is set: each of those
instances comes to rest when its bounds are spent or all is done (every task
resolved, every command finished, no lock to wait for).

### Fairness

Only `TaskExecution` states fairness. `PumpStep` and `AttemptStep(d)` are weakly
fair because the event loop runs every continuation that is ready; `NativeEnds(t)`
is weakly fair because `runNativeProcessV1` kills a process at the deadline of
its profile. Clients, the end of a grant, a crash, a shutdown and a restart are
not fair: nothing obliges them to happen. After a crash without a restart
nothing is owed, which `WorkflowsEnd` says with `stopping`. The other modules
state no fairness and no liveness: the client of a lock may always give up, and
nothing obliges an operator to run a command again.


## 5. The theorems

All are proved with TLAPS for every value of the constants.

`AuthorityStoreProofs`. The argument goes through the open transaction. The
inductive core is `TransactionIsolated`: what the transaction will leave is
`Apply` of its request to the committed database, and the request is still
acceptable there. It is needed because the checks are made at `Begin` and the
writes become visible at `Commit`; between them only the holder of the lock may
change the database. `TypeCorrect` and `TransactionsAreIsolated` establish it;
`CommitsAreCurrent` (`NoStaleCommit`) follows at once. `CommittedIsKept`
(`CommittedIsImmutable`) rests on the lemma that `Apply` of an acceptable
request extends the database. `CommandsAreExactlyOnce` is proved with the
invariant `Consistent`: chains, unique event ids, rows own their events and events
have their rows; the lemmas `ApplyAuthenticates`, `ApplyIdsUnique` and
`ApplyResultsMatch` show that `Apply` keeps each part.

`ArtifactRetentionProofs`. The properties are not inductive by themselves.
`RetentionInv` adds what the operations in progress know: content that was never
under retention is backed by a durable file from the moment its publisher synced
it (`PublicationIsBacked`, `CatalogIsBacked`), and whoever is about to unlink a
file, or holds a list that says it may, has a committed deletion
(`DeletionIsCommitted`). From it follow `ReferencesHaveBytes`,
`CollectionIsExclusive` and `DeletionsAreCommitted`.

`NativeTaskProofs`. `NativeRunsOnce` is not inductive: it needs that nobody else can
be on the way to a spawn. `OneDriver` says that at most one session is past the
marker, `MarkerComesFirst` that without a marker there is no driver and between the
marker and the process nothing was spawned. `DriverPublishes` says what the driver
has read and published at each place, from which a whole record is of what was
printed (`RecordIsBacked`) and what is answered is on record (`AnswersAreRecorded`).
Their conjunction `TaskInv` with the types is inductive for any number of sessions,
deaths and hosts; `SpawnedOnce` and `AnswersStay` follow.

`AuthorityStoreProofs` goes on with three invariants. `Orderly` adds to the
consistency of the database what callers bring to it (a composed request names the
grant record its caller observed, the revision counts the grants that were issued);
`GrantUpdatesAreKept` (`NoGrantUpdateLost`) follows. `StreamsStayAuthentic`
(`StreamsAuthenticate`) is a part of `Consistent`. `AnswersStayDurable`
(`AnswersAreDurable`) needs `AnswersAreTrue`: what a caller was told is an effect that
the committed database has, and by `EffectStays` no later transaction takes it back.

`AuthorityStoreRefinementProofs` proves the refinement `StoreImplementsLedger`
(`ImplementsLedger`). The committed database maps to the abstract ledger, so each
step but a commit maps to a stutter or to an answer, and a commit to the one step of
the command it carries. The mapping of a commit rests on `Consistent` (a row that is
there has its events), on `Orderly` and, for answers, on `AnswersAreTrue` after the
step.

`TaskDispatchProofs` is about two modules that share no state. The ledger of tasks: what
`taskDependencyClosureV1` reaches is the least set that has the target and nothing to go
on to, so a dependency outside of it changes neither the closure nor the graph digest
(`BeforeIsClosed`, `BeforeIsLeast`, `GraphStays`). `LedgerInv` adds to `BoundGraphsHold`
that dependencies join created tasks only, that a workflow awaiting its plan is the
source's, and that work was started only where all it waits for was resolved
(`LedgerIsSound`); `GraphsStayBound` (`BoundGraphsHold`) and `ReadyWorkStarts`
(`WorkIsReady`) follow, for any tasks, requested dependencies, plans, attempts and
workflows.

The dispatch of an attempt: a process acts on a copy of a row, so the invariant
`DispatchInv` orders copies and row. No copy was made from a later row than the stored
one (`BasesAreOld`); a copy that is not stored yet changed either the lease or the
record, in the ways `ChangesAreOrdered` lists; and a holder of a lease that lasts knows
of every stored cancellation (`HolderIsTold`). `CallsFenced` (`CallsAreFenced`)
follows from the invariant, `StoredStays` (`DispatchNeverGoesBack`) from it and the
compare-and-swap of the row.

`TaskExecutionProofs`: between two awaits a driver relies on what it saw although other
drivers, cancels, receipts and crashes come in between. `ExecutionInv` says what it may
rely on: what holds at each place of a driver of the task it works on (`DriversFit`),
that one driver at most is between the handoff and the end of a task (`OneHandsOff`),
that one task at most is live (`OneLive`), and how attempt, spool, process, receipt and
resolution of a task go together (`TasksFit`). It is inductive for any number of tasks,
workflows, requests and crashes; `OneWorkerAtATime` (`OneWorker`), `WorkIsAccountedFor`
(`NativeIsAccountedFor`), `ResolutionsAgree` (`ResolutionAgrees`) and
`OutcomesAreFinal` (`TerminalIsFinal`) follow. Here `OneWorker` and the others are
proved for the pump together with requests and crashes, which no run combines.

Without requests the pump is the one driver, and `PumpInv` says more: a session is its
own and only while it drives (`SessionsArePumps`), whatever it has left to do is on its
list, woken for or at hand (`PumpOwes`), and what it is about to launch was not
cancelled, or its session is aborted (`LaunchesAreWanted`). From it
`NothingIsForgotten` (`NothingForgotten`) and `CancelsStopLaunches`
(`NoStartAfterCancel`).

`ServiceProofs` has a section for each module it is about, none of which shares state
with another:

* `DaemonInv`: what a process saw of the genesis event stays so, the capability is
  created once and by the one `init`, and one daemon at most is on its way to serve
  or serves (`OneServer`). From it `CapabilitySurvives` (`CapabilityIsNotLost`) and
  `ServersAreFound` (`EndpointLeadsToServer`).
* `JoinInv`: every judgement that was authorized still holds (`StillHolds`), since no
  dependency is added to a task that is no draft and a resolution is for good. It is
  `AuthorizedStays` (`JoinIsStable`).
* `ReceiptInv` and the lemmas on the arbitration of one more fact:
  `ReceiptsAreArbitrated` (`ArbitrationAgrees`).
* `AdmissionInv`: what a service decided holds of the revision it read, and while the
  heads are those it observed that is the current one (`DecidedIsTrue`). From it
  `AcceptedStaysJudged` (`AcceptedAsJudged`), under `ReadsAlone`.
* `LifecycleInv`: the phase on record at each step of an upgrade and of its compensation
  (`PhaseIs`), what the command holds of its transaction and of the bytes it took aside
  (`UpgradeHolds`), and where the kill switch stands and which grants a marker may still
  be written with (`SwitchStands`). From it `GenerationsStay` (`GenerationsAreKept`) and
  `RevokedStayDisabled` (`RevokedStaysDisabled`: a contribution with a revoked grant
  stays switched off whatever comes after its uninstall), for any points of death and
  failure. No run checks the second.
* `MigrationInv`: the home the migration started from is in its place until the backup is
  whole, in the backup from then on, and in its place again once restored
  (`OriginIsKept`), with the phase on record that goes with it (`PhaseFits`). From it
  `HomeStays` (`HomeIsKept`), under `BackupIsWhole`.
* `JournalInv`: a lock is of the process that made it from its naming to its release,
  who takes one over found a dead owner in it, and an append that goes on has written
  its record not at all or once. From it `RecordsSurvive` (`JournalKeepsRecords`),
  under `EvictionsAlone`.
* `RestoreInv`: every directory that a power failure may leave fits its journal
  (`DirectoryFits`): what was moved aside is of the restore that it names, and before the
  committed marker the old unit, after it the new one, is where recovery takes it from.
  Beside that stands what a process relies on at each step of its program: the phase and
  both halves in a restore (`SwitchFits`), what was found, cleared and returned of each
  half in a rollback (`RollbackFits`), the live unit and what is removed already in
  `finishForward` (`FinishFits`). From it `UnitStaysRecoverable` (`UnitIsRecoverable`),
  `SwitchesAreAtomic` (`SwitchIsAtomic`) and `RecoveriesGoOn`
  (`RecoveryNeverGetsStuck`), under `WorksAlone`, for any number of restores, backups,
  deaths and power failures.

`WorkerProofs` likewise:

* `DeliveryInv`: a delivery at work owns the lock, and one that takes a lock over has
  seen that its owner died or that nobody named it in time. From it
  `DeliveriesAreSerial` (`OneDelivery`), under `TakeoversAlone`.
* `SessionsInv`: tables in memory and on disk hold only claims whose capabilities are
  permitted to their session, and what a batch lends was permitted before it began.
  From it `SessionsSpeakForTheirs` (`SessionStaysInItsClaim`) and
  `RestartsFindBindings` (`BindingsAreDurable`).
* `ClientInv`: what the client counts as accepted the coordinator has, and a proposal on
  its way rests on that. From it `ProposalsRest` (`ProposalNamesWhatWasAccepted`).
* `CliInv`: a request on the wire is still saved, done, or one the authority must
  refuse, and who has the workspace's lock is the only command between its check and its
  last save. From it `CommandsAreRecovered` (`AppendsAreRecovered`).

Hypotheses. Most theorems assume only the named `ASSUME`s of the modules: bounds are
natural numbers, the names for "none" are not among what they stand beside, different
names are different. Ten theorems say more, each what its run says by a constraint or a
constant, and false without it as section 6 and the violation runs show:

| Theorem | Assumes | Otherwise |
|---|---|---|
| `RecordsSurvive` | `[]EvictionsAlone`: no two processes take over an abandoned journal lock at one time | `journal_takeover` |
| `AcceptedStaysJudged` | `[]ReadsAlone`: nobody accepts between the two reads of an evaluation | section 6 |
| `DeliveriesAreSerial` | `[]TakeoversAlone`: no two processes take over an abandoned lock at one time, and none pauses for a second before it names its own | `delivery_race` |
| `HomeStays` | `BackupIsWhole`: no death and no failure while the home is copied to its backup, and no failure before the copy begins | `migration_backup` |
| `NothingIsForgotten`, `CancelsStopLaunches` | no request drives an attempt beside the pump (`Requests = {}`) | section 6, `execution_cancel` |
| `UnitStaysRecoverable`, `SwitchesAreAtomic`, `RecoveriesGoOn` | `[]WorksAlone`: one process at a time opens or restores the authority | section 6 |
| `ReadyWorkStarts` | a task has one attempt at most: `prepare` returns the one it retains (service.ts, l. 403-408) | section 6 |

Every property of the passing runs is proved but one: `WorkflowsEnd` is liveness under
fairness, out of the prover's reach, and stays model-checked.

## 6. Observations, and what is not modelled

What was met while modelling and no passing run shows, by component. A constraint,
a bound or a point that a run leaves out because of one of these is named in it.

**Store.** No busy timeout is set (`sqlite-authority.ts:89`), so a writer that finds
the lock taken is refused at once, while `docs/architecture.md:145` lists a busy
timeout; `Busy` is that refusal.

**Artifacts.** `publishAndRegister` verifies the file and inserts its row in two
steps (`artifact-store.ts:53`); a collection in between leaves a row without
bytes, which nothing references yet. `resumeRetention` skips the sync of the
directory when the file is already gone (`retention/index.ts:33`).

**Restore.** The commit evidence is written after the committed marker
(`restore/index.ts:387`) and not at all by recovery (line 309). Two processes
that recover at once test, move and remove each other's files (line 276):
`UnitIsRecoverable`, `SwitchIsAtomic` and `RecoveryNeverGetsStuck` hold with one
process at a time, and fail with two.

**Execution.** The command `${attemptId}:reconcile` can be used once
(`service.ts:544`): after a cancel of an unknown attempt a second failed lookup
conflicts and the attempt stays `cancel_requested`. A submitted receipt does not
wake the pump (469). An error outside a single workflow stops the pump for good
(624). An unknown attempt keeps all tasks waiting until an operator settles it
(242), which is intended.

**Admission.** `evaluateAndApply` reads the revision before the heads
(`admission/service.ts:160`). With two processes on one store, a delta accepted
in between is followed by one judged on the older revision; its append, at the
fresh heads, succeeds, and every later replay fails with `STALE_BASE`
(`domain/src/receipt.ts:53`). TLC shows it in twelve states without `ReadsAlone`;
one process runs the two reads synchronously, and nothing in production runs two.
A quarantined or approval-required proposal whose base moved cannot become
`conflicted`: `ADMISSION_TRANSITIONS` (`receipt.ts:63`) has no such transition and
the evaluation throws. No production code but the service writes the snapshots
the service reads, every workspace event makes them stale, and consumption never
changes the quota they hold. Backup verification does not accept the workspace
event that every decision appends.

**Receipts and joins.** An explicit cancellation resolves at once
(`receipt-projection.ts:245`), whatever generations are live or unknown, while
`docs/architecture.md:306` and 308 have it wait for them (`receipts_cancel`); a receipt
whose capability was issued earlier but which is projected later loses to it. A retry
decision need not cite a receipt of its own generation (148), and registering again puts
a settled generation back (179). In the projection of tasks, evidence can be issued only
while its event is the head, so an event that was passed over can never be projected; an
evaluation is not tied to how far the projection has come; one snapshot per head carries
the authority of one task only. `ReceiptArbitration` therefore states agreement with the
facts the projection has, and `TaskJoin` stability from an authorization on.

**Plans.** A proposal made after an adoption moves `latestPlansByTask`; the event
`DependencyAddedV1` is accepted by the reducer and appended by no production code.
The reducer accepts a second attempt of an active task whose first one succeeded
(`execution.ts:184`), and the task's resolution then leaves it running; only `prepare`
(`service.ts:403`) keeps a task to one attempt (`MaxTries`).

**Dispatch.** `adoptStoredTerminalReceiptAtomic` always fails, because the store refuses
a row whose attempt has changed (`sqlite-authority.ts:145`) and adoption seals it anew,
while `docs/architecture.md:362` has it adopted; the outcome and the cancellation of an
attempt cannot be stored for the same reason. A stored row is unreadable once the head
it is bound to moves. Receipts and late handles ask for no lease. Nothing in production
calls these modules yet.

**Daemon.** A start that is told to stop before it serves closes the authority while
the start goes on (`entry.ts:76`); two raw `start`s can both serve
(`lifecycle.ts:72`; hence `StartsAlone`). A death after genesis and before the
grant file loses the only reference to the issuer's grant (`entry.ts:55`), and one
between creating and writing a capability file leaves a torn one. After an older
backup is restored the saved current run may be missing, and every command but
`run create` refuses.

**Installer.** A failure before the old generation is retained, and a death between its
rename and the record of it followed by a retry, cost the only copy of that generation
(`install_loss`). A retry takes the marker it finds for the one to
put back: when the new one was written already (`marked`, `recorded`), its compensation
puts back the old bytes with the new marker. A command in the state `compensating` is
reported as succeeded by `retry-install` without any work. An upgrade over an unfinished
lifecycle replaces its record (`operations/index.ts:191`) and so forgets the generation
that one had retained. Uninstall leaves its kill switch behind when it dies after the
marker is gone, and a later install stays switched off. A death between making the
journal's lock directory and naming its owner makes all later appends time out. Two
takeovers at once can steal a live lock (`journal_takeover`); besides the lost record
the chain of digests may then break, since an append reads the file twice
(`journal/index.ts:276`, 288), which the model has as one read. A migration that fails
before its backup exists removes the home and asks for a repair
(`migrations/index.ts:126`). After a migration that was compensated, `migrate` always
refuses.

**Hosts and clients.** Shutting a host down in the tail of a batch persists the
emptied tables of the session. The SDK goes back to `accepting-receipts` whatever
its phase was (`sdk/src/index.ts:253`), and an older answer to a subscription can
replace a newer scope. A start that is repeated after the pump has stopped is
rejected and forgotten by the command line; a grant revoked meanwhile fails in
the handshake, and the saved request stays for ever.

Not modelled, with the reasons in the components of `PROJECT.json`: canonical
encoding, digests and validation (`packages/domain`, `packages/protocol`), which are
represented by identity; the rules behind a policy's result; the parsing of what
hosts print; framing of messages; import, promotion and upgrade, and the
verification of backups; the lineage and expiry of grants; the reconstruction of
contexts; release trust, consent and the doctor of the installer; request routing,
configuration and discovery of the daemon; the launcher and the release scripts.
