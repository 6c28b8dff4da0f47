---------------------------- MODULE TaskExecution ----------------------------
(***************************************************************************)
(* Execution of the tasks of one workspace                                 *)
(* (packages/orchestrator/src/execution/service.ts): workflows authorise   *)
(* tasks, a pump drives one workflow at a time, an attempt of a task is    *)
(* prepared, its launch intent is made durable, a native process is handed *)
(* off to and its receipt resolves the task.  The same attempt can also be *)
(* driven by dispatch.launch.v1 / dispatch.reconcile.v1 requests, tasks    *)
(* can be cancelled, grants revoked, and the daemon can crash or be shut   *)
(* down at any point while the native process lives on.                    *)
(*                                                                         *)
(* JavaScript runs one section between two awaits at a time; a section     *)
(* that appends several times is several actions here (the daemon may      *)
(* crash between two appends) during which it holds the event loop.        *)
(*                                                                         *)
(* Abstracted: the graph of adopted plans is the constant Requires (every  *)
(* edge is requires_success); the runs of the workspace are merged; a      *)
(* start or cancel request carries the cursor its client observed, so the  *)
(* state it is checked against is the state it is applied to; all          *)
(* workflows have one issuer, whose grant is valid until it is revoked or  *)
(* expires.  There is one attempt per task: prepare returns the retained   *)
(* one (l. 402) and no event brings an attempt back to planned.            *)
(***************************************************************************)
EXTENDS Integers, FiniteSets

CONSTANTS
  Tasks,        \* task contracts of the workspace
  Requires,     \* Requires[t]: the tasks t depends on
  Workflows,    \* workflow ids (one per start operation)
  Operations,   \* the start operations clients may request: <<workflow, kind, task>>
  Pump,         \* the driver that wake() starts
  Requests,     \* drivers of dispatch.launch/reconcile and receipt.submit requests
  MaxCrashes,   \* bound: crashes and shutdowns of the daemon
  NoTask, NoWorkflow, NoDriver

Drivers == {Pump} \cup Requests

ASSUME RequiresAssumption == Requires \in [Tasks -> SUBSET Tasks]
ASSUME OperationsAssumption ==
  Operations \subseteq Workflows \X {"dispatch", "execute"} \X Tasks
ASSUME PumpAssumption == Pump \notin Requests
ASSUME CrashAssumption == MaxCrashes \in Nat
ASSUME NoneAssumption ==
  NoTask \notin Tasks /\ NoWorkflow \notin Workflows /\ NoDriver \notin Drivers

VARIABLES
  \* the projection of the run stream (domain/execution.ts)
  lifecycle,   \* task -> draft, active, succeeded, failed, cancelled
  attempt,     \* task -> dispatch state of its attempt, or "none"
  owner,       \* task -> the workflow that prepared the attempt
  receipt,     \* task -> the attempt's receipt: who submitted it and its outcome
  reconciled,  \* task -> the command `${attemptId}:reconcile` has been used
  workflow,    \* workflow -> its authorization and state
  \* the grant record and the host
  granted,     \* the issuer's grant is active
  spool,       \* task -> the adapter's records: none, the handoff marker, a terminal
  native,      \* task -> the native process
  \* the memory of the daemon
  sessions,    \* task -> the driver whose session the map holds
  driver,      \* what each driver is doing
  loop,        \* the driver in the middle of a section, if any
  requested,   \* a wake-up is pending
  todo,        \* workflows the pump still has to drive in this round
  stopping,    \* the service is closing
  crashes      \* crashes and shutdowns so far

run == <<lifecycle, attempt, owner, receipt, reconciled, workflow>>
host == <<spool, native>>
memory == <<sessions, driver, loop, requested, todo, stopping>>
vars == <<run, granted, host, memory, crashes>>

-----------------------------------------------------------------------------
(* Data.                                                                   *)

Outcomes == {"succeeded", "failed", "cancelled"}
AttemptStates == Outcomes \cup
  {"none", "planned", "launch_intent_committed", "provider_handle_recorded",
   "cancel_requested", "reconciliation_required", "unknown_outcome"}
WorkflowStates == {"absent", "running", "succeeded", "stopped", "cancelled", "revoked"}
NoReceipt == <<"none", "none">>
Receipts == {"adapter", "request"} \X Outcomes

Places == {"idle", "sweeping", "round", "driving", "preparing", "entering", "opening", "launching",
           "spawning", "awaiting", "recording", "reconciling", "collecting",
           "resolving", "answering", "failing", "closing"}

Idle == [at |-> "idle", task |-> NoTask, workflow |-> NoWorkflow, fresh |-> FALSE,
         aborted |-> FALSE, failed |-> FALSE]

DriverStates == [at : Places, task : Tasks \cup {NoTask},
                 workflow : Workflows \cup {NoWorkflow},
                 fresh : BOOLEAN, aborted : BOOLEAN, failed : BOOLEAN]

Terminal(state) == state \in Outcomes

\* Every task the target needs, itself included: the least closed set.
Closure(t) ==
  {u \in Tasks : \A S \in SUBSET Tasks :
     t \in S /\ (\A v \in S : Requires[v] \subseteq S) => u \in S}

WorkflowTasks(w) ==
  IF workflow[w].kind = "execute" THEN Closure(workflow[w].target) ELSE {workflow[w].target}

Satisfied(t) == \A p \in Requires[t] : lifecycle[p] = "succeeded"

\* An attempt that may have a native process: neither planned nor terminal.
Live(t) == ~Terminal(attempt[t]) /\ attempt[t] \notin {"none", "planned"}

\* assertWorkspaceAvailable: a worker writes in the shared directory, so no
\* other task may have a live attempt.
WorkspaceAvailableIfUnknown(t) ==
  \A u \in Tasks \ {t} : Live(u) => attempt[u] = "unknown_outcome"
WorkspaceAvailable(t) == \A u \in Tasks \ {t} : ~Live(u)

Running(w) == w # NoWorkflow /\ workflow[w].state = "running"
CancelledTarget(w) == lifecycle[workflow[w].target] = "cancelled"

\* workflowAuthority: every reason for which a workflow may not go on.
Authorised(w) == Running(w) /\ granted /\ ~CancelledTarget(w)

\* stopWorkflow does nothing when the workflow is not running.
Stopped(w, state) ==
  IF Running(w) THEN [workflow EXCEPT ![w].state = state] ELSE workflow

-----------------------------------------------------------------------------
(* The drivers' program counters.                                          *)

Free == loop = NoDriver
Moves(d, changes) == driver' = [driver EXCEPT ![d] = changes]
Goes(d, place) == Moves(d, [driver[d] EXCEPT !.at = place])
Holds(d) == loop' = d
Yields == loop' = NoDriver

\* Where a driver goes when its request is answered or its workflow waits.
Leave(d) ==
  IF d = Pump THEN [Idle EXCEPT !.at = "round"] ELSE Idle

Init ==
  /\ lifecycle = [t \in Tasks |-> "draft"]
  /\ attempt = [t \in Tasks |-> "none"]
  /\ owner = [t \in Tasks |-> NoWorkflow]
  /\ receipt = [t \in Tasks |-> NoReceipt]
  /\ reconciled = [t \in Tasks |-> FALSE]
  /\ workflow = [w \in Workflows |-> [state |-> "absent", kind |-> "none", target |-> NoTask]]
  /\ granted = TRUE
  /\ spool = [t \in Tasks |-> "none"]
  /\ native = [t \in Tasks |-> "none"]
  /\ sessions = [t \in Tasks |-> NoDriver]
  /\ driver = [d \in Drivers |-> Idle]
  /\ loop = NoDriver
  /\ requested = FALSE
  /\ todo = {}
  /\ stopping = FALSE
  /\ crashes = 0

-----------------------------------------------------------------------------
(* Requests of clients.                                                    *)

\* start: a workflow is authorised; a dispatch also activates its task.
Start(w, kind, t) ==
  /\ Free /\ ~stopping /\ granted
  /\ workflow[w].state = "absent"
  /\ ~Terminal(lifecycle[t])
  /\ \A v \in Workflows : Running(v) => workflow[v].target # t
  /\ kind = "dispatch" => Satisfied(t)
  /\ workflow' = [workflow EXCEPT ![w] = [state |-> "running", kind |-> kind, target |-> t]]
  /\ lifecycle' = IF kind = "dispatch" THEN [lifecycle EXCEPT ![t] = "active"] ELSE lifecycle
  /\ requested' = TRUE
  /\ UNCHANGED <<attempt, owner, receipt, reconciled, granted, host, sessions, driver, loop,
                 todo, stopping, crashes>>

\* cancel: AfterCancel and CancelResolves say what becomes of attempt and task.
\* In one transaction the workflows that target the task stop, a planned
\* attempt is aborted, a live one is asked to cancel, and the task is resolved
\* when nothing is live; then the sessions of the task and of those workflows
\* are closed, which aborts their native process.
AfterCancelAborted(t) == IF Terminal(attempt[t]) THEN attempt[t] ELSE "cancelled"
AfterCancel(t) ==
  CASE attempt[t] = "planned" -> "cancelled"
    [] Live(t) -> "cancel_requested"
    [] OTHER -> attempt[t]

CancelResolvesLive(state) == IF state = "succeeded" THEN "succeeded" ELSE "cancelled"
\* resolveTask with an explicit cancellation; "active" when an attempt is live.
CancelResolves(state) ==
  CASE state = "succeeded" -> "succeeded"
    [] state \in {"none", "failed", "cancelled"} -> "cancelled"
    [] OTHER -> "active"

ClosedByCancelOfTask(d, t, stops) == sessions[t] = d
\* The sessions that are closed: the task's and those of the stopped workflows.
ClosedByCancel(d, t, stops) ==
  \E u \in Tasks : sessions[u] = d /\ (u = t \/ owner[u] \in stops)

Cancel(t) ==
  LET stops == {w \in Workflows : Running(w) /\ workflow[w].target = t}
      state == AfterCancel(t)
  IN  /\ Free
      /\ ~Terminal(lifecycle[t])
      /\ workflow' = [w \in Workflows |->
                        IF w \in stops THEN [workflow[w] EXCEPT !.state = "cancelled"]
                        ELSE workflow[w]]
      /\ attempt' = [attempt EXCEPT ![t] = state]
      /\ lifecycle' = [lifecycle EXCEPT ![t] = CancelResolves(state)]
      /\ driver' = [d \in Drivers |->
                      IF ClosedByCancel(d, t, stops) THEN [driver[d] EXCEPT !.aborted = TRUE] ELSE driver[d]]
      /\ UNCHANGED <<owner, receipt, reconciled, granted, host, sessions, loop, requested,
                     todo, stopping, crashes>>

\* dispatchExisting: a request drives a prepared attempt whose session is not open.
Dispatch(d, t, action) ==
  /\ Free
  /\ driver[d].at = "idle"
  /\ granted
  /\ attempt[t] # "none"
  /\ sessions[t] = NoDriver
  /\ action = "reconcile" => attempt[t] # "planned"
  /\ Moves(d, [Idle EXCEPT !.at = "entering", !.task = t, !.workflow = owner[t]])
  /\ Holds(d)
  /\ UNCHANGED <<run, granted, host, sessions, requested, todo, stopping, crashes>>

\* receipt.submit.v1: the producer reports an operation that has ended; the
\* receipt terminalises the attempt, the task is resolved by a second append.
SubmitReceipt(d, t, outcome) ==
  /\ Free
  /\ driver[d].at = "idle"
  /\ granted
  /\ Live(t) /\ native[t] = "ended"
  /\ receipt' = [receipt EXCEPT ![t] = <<"request", outcome>>]
  /\ attempt' = [attempt EXCEPT ![t] = outcome]
  /\ Moves(d, [Idle EXCEPT !.at = "answering", !.task = t])
  /\ Holds(d)
  /\ UNCHANGED <<lifecycle, owner, reconciled, workflow, granted, host, sessions, requested,
                 todo, stopping, crashes>>

\* The issuer's grant is revoked, or it expires.
Revoke ==
  /\ Free /\ granted
  /\ granted' = FALSE
  /\ UNCHANGED <<run, host, memory, crashes>>

-----------------------------------------------------------------------------
(* The pump: wake() starts a round, the round drives every running workflow. *)

PumpBegin ==
  /\ Free /\ requested /\ ~stopping
  /\ driver[Pump].at = "idle"
  /\ requested' = FALSE
  /\ Goes(Pump, "sweeping")
  /\ Holds(Pump)
  /\ UNCHANGED <<run, granted, host, sessions, todo, stopping, crashes>>

Unresolved(t) == lifecycle[t] = "active" /\ Terminal(attempt[t])

\* A receipt whose resolution was lost in a crash is resolved first.
PumpSweep(t) ==
  /\ driver[Pump].at = "sweeping"
  /\ Unresolved(t)
  /\ lifecycle' = [lifecycle EXCEPT ![t] = attempt[t]]
  /\ UNCHANGED <<attempt, owner, receipt, reconciled, workflow, granted, host, memory, crashes>>

PumpList ==
  /\ driver[Pump].at = "sweeping"
  /\ \A t \in Tasks : ~Unresolved(t)
  /\ todo' = {w \in Workflows : Running(w)}
  /\ Goes(Pump, "round")
  /\ Yields
  /\ UNCHANGED <<run, granted, host, sessions, requested, stopping, crashes>>

PumpTake(w) ==
  /\ Free /\ ~stopping
  /\ driver[Pump].at = "round"
  /\ w \in todo
  /\ todo' = todo \ {w}
  /\ Moves(Pump, [Idle EXCEPT !.at = "driving", !.workflow = w])
  /\ UNCHANGED <<run, granted, host, sessions, loop, requested, stopping, crashes>>

\* The round is over, or the service is closing: the promise settles.
PumpRestForgets ==
  /\ Free
  /\ driver[Pump].at = "round"
  /\ todo = {} \/ stopping
  /\ todo' = {} /\ requested' = FALSE
  /\ Moves(Pump, Idle)
  /\ UNCHANGED <<run, granted, host, sessions, loop, stopping, crashes>>
PumpRest ==
  /\ Free
  /\ driver[Pump].at = "round"
  /\ todo = {} \/ stopping
  /\ todo' = {}
  /\ Moves(Pump, Idle)
  /\ UNCHANGED <<run, granted, host, sessions, loop, requested, stopping, crashes>>

-----------------------------------------------------------------------------
(* driveWorkflow: one turn of its loop.                                    *)

Driving(w) ==
  /\ Free
  /\ driver[Pump].at = "driving"
  /\ w = driver[Pump].workflow

\* The pump leaves the workflow as it is: it ended, or the service is closing.
DriveEnded(w) ==
  /\ Driving(w)
  /\ stopping \/ ~Running(w)
  /\ Moves(Pump, Leave(Pump))
  /\ UNCHANGED <<run, granted, host, sessions, loop, requested, todo, stopping, crashes>>

BlockedBySources(w) ==
  \E t \in WorkflowTasks(w) : lifecycle[t] \in {"failed", "cancelled"}

CandidatesUnordered(w) == {t \in WorkflowTasks(w) : lifecycle[t] # "succeeded"}
Candidates(w) == {t \in WorkflowTasks(w) : lifecycle[t] # "succeeded" /\ Satisfied(t)}

SessionsOpen == \E t \in Tasks : sessions[t] # NoDriver

VerdictWaits(w) ==
  CASE ~granted -> "revoked"
    [] granted /\ CancelledTarget(w) -> "cancelled"
    [] granted /\ lifecycle[workflow[w].target] = "succeeded" -> "succeeded"
    [] granted /\ lifecycle[workflow[w].target] = "failed" -> "stopped"
    [] OTHER -> "running"
\* The state in which a turn stops the workflow, or "running" if it goes on.
Verdict(w) ==
  CASE ~granted -> "revoked"
    [] granted /\ CancelledTarget(w) -> "cancelled"
    [] granted /\ lifecycle[workflow[w].target] = "succeeded" -> "succeeded"
    [] granted /\ lifecycle[workflow[w].target] = "failed" -> "stopped"
    [] OTHER -> IF BlockedBySources(w) /\ ~SessionsOpen THEN "stopped" ELSE "running"

DriveStop(w) ==
  /\ Driving(w) /\ ~stopping /\ Running(w)
  /\ Verdict(w) # "running"
  /\ workflow' = Stopped(w, Verdict(w))
  /\ Moves(Pump, Leave(Pump))
  /\ UNCHANGED <<lifecycle, attempt, owner, receipt, reconciled, granted, host, sessions, loop,
                 requested, todo, stopping, crashes>>

\* EXECUTION_WORKSPACE_BUSY, or TASK_NOT_READY while a session is open: the
\* workflow stays running and is left to the next wake-up.
DriveWait(w) ==
  /\ Driving(w) /\ ~stopping /\ Running(w)
  /\ Verdict(w) = "running"
  /\ \/ BlockedBySources(w)
     \/ \E t \in Candidates(w) : ~WorkspaceAvailable(t)
  /\ Moves(Pump, Leave(Pump))
  /\ UNCHANGED <<run, granted, host, sessions, loop, requested, todo, stopping, crashes>>

\* prepare: the candidate is activated ...
DriveActivate(w, t) ==
  /\ Driving(w) /\ ~stopping /\ Running(w)
  /\ Verdict(w) = "running" /\ ~BlockedBySources(w)
  /\ t \in Candidates(w) /\ WorkspaceAvailable(t)
  /\ lifecycle' = [lifecycle EXCEPT ![t] = "active"]
  /\ Moves(Pump, [driver[Pump] EXCEPT !.at = "preparing", !.task = t])
  /\ Holds(Pump)
  /\ UNCHANGED <<attempt, owner, receipt, reconciled, workflow, granted, host, sessions,
                 requested, todo, stopping, crashes>>

\* ... and an attempt is prepared, or the retained one is taken.
DrivePrepare(w, t) ==
  /\ driver[Pump].at = "preparing"
  /\ w = driver[Pump].workflow /\ t = driver[Pump].task
  /\ attempt[t] = "planned" => owner[t] = w
  /\ attempt' = IF attempt[t] = "none" THEN [attempt EXCEPT ![t] = "planned"] ELSE attempt
  /\ owner' = IF attempt[t] = "none" THEN [owner EXCEPT ![t] = w] ELSE owner
  /\ Goes(Pump, "entering")
  /\ UNCHANGED <<lifecycle, receipt, reconciled, workflow, granted, host, sessions, loop,
                 requested, todo, stopping, crashes>>

\* A planned attempt of another workflow is not taken over (AUTHORIZATION_DENIED);
\* policy, quota, profile or context may refuse the preparation too.
DriveRefuse(w, t, state) ==
  /\ driver[Pump].at = "preparing"
  /\ w = driver[Pump].workflow /\ t = driver[Pump].task
  /\ state = IF attempt[t] = "planned" /\ owner[t] # w THEN "revoked" ELSE "stopped"
  /\ workflow' = Stopped(w, state)
  /\ Moves(Pump, Leave(Pump))
  /\ Yields
  /\ UNCHANGED <<lifecycle, attempt, owner, receipt, reconciled, granted, host, sessions,
                 requested, todo, stopping, crashes>>

-----------------------------------------------------------------------------
(* runAttempt.                                                             *)

Entering(d, t) == driver[d].at = "entering" /\ t = driver[d].task

\* The attempt is terminal already: its task is resolved and the call returns.
EnterTerminal(d, t) ==
  /\ Entering(d, t)
  /\ Terminal(attempt[t])
  /\ lifecycle' = IF Unresolved(t) THEN [lifecycle EXCEPT ![t] = attempt[t]] ELSE lifecycle
  /\ Moves(d, IF d = Pump THEN [driver[d] EXCEPT !.at = "driving", !.task = NoTask] ELSE Idle)
  /\ Yields
  /\ UNCHANGED <<attempt, owner, receipt, reconciled, workflow, granted, host, sessions,
                 requested, todo, stopping, crashes>>

MayLaunch(d, t) == Authorised(driver[d].workflow)

\* A planned attempt: the authority is verified again and the launch intent is
\* durable before the host is touched.
CommitIntent(d, t) ==
  /\ Entering(d, t)
  /\ attempt[t] = "planned" /\ WorkspaceAvailable(t)
  /\ MayLaunch(d, t)
  /\ attempt' = [attempt EXCEPT ![t] = "launch_intent_committed"]
  /\ Moves(d, [driver[d] EXCEPT !.at = "opening", !.fresh = TRUE])
  /\ Yields
  /\ UNCHANGED <<lifecycle, owner, receipt, reconciled, workflow, granted, host, sessions,
                 requested, todo, stopping, crashes>>

\* Authority, lease, policy or the producer's grant refuse the handoff of a planned
\* attempt, or a request finds the workspace busy (the pump has looked in prepare).
EnterRefused(d, t) ==
  /\ Entering(d, t)
  /\ ~Terminal(attempt[t])
  /\ Live(t) => ~WorkspaceAvailable(t)
  /\ workflow' = IF d = Pump THEN Stopped(driver[d].workflow, "stopped") ELSE workflow
  /\ Moves(d, Leave(d))
  /\ Yields
  /\ UNCHANGED <<lifecycle, attempt, owner, receipt, reconciled, granted, host, sessions,
                 requested, todo, stopping, crashes>>

\* An attempt handed off before is only looked up, never launched.
EnterHandedOff(d, t) ==
  /\ Entering(d, t)
  /\ Live(t) /\ WorkspaceAvailable(t)
  /\ Goes(d, "opening")
  /\ Yields
  /\ UNCHANGED <<run, granted, host, sessions, requested, todo, stopping, crashes>>

-----------------------------------------------------------------------------
(* The session: the host adapter is opened and the native process started  *)
(* or looked up.                                                           *)

At(d, t, place) == driver[d].at = place /\ t = driver[d].task

\* The host has opened a session, which enters the map whatever the map holds.
\* A launch re-reads the state of the attempt and the authority first.
MayHandOffUnread(d, t) == Authorised(driver[d].workflow)
MayHandOff(d, t) == Authorised(driver[d].workflow) /\ attempt[t] = "launch_intent_committed"

Open(d, t) ==
  /\ Free /\ At(d, t, "opening")
  /\ granted
  /\ driver[d].fresh => MayHandOff(d, t)
  /\ sessions' = [sessions EXCEPT ![t] = d]
  /\ Goes(d, IF driver[d].fresh THEN "launching" ELSE "reconciling")
  /\ UNCHANGED <<run, granted, host, loop, requested, todo, stopping, crashes>>

\* The host, the producer's capability or the recheck before a launch refuses.
OpenFails(d, t) ==
  /\ Free /\ At(d, t, "opening")
  /\ Goes(d, "failing")
  /\ Holds(d)
  /\ UNCHANGED <<run, granted, host, sessions, requested, todo, stopping, crashes>>

\* spool.begin: the handoff marker is created exclusively and synced before the
\* process is spawned.
HandOff(d, t) ==
  /\ Free /\ At(d, t, "launching")
  /\ spool[t] = "none"
  /\ spool' = [spool EXCEPT ![t] = "handed"]
  /\ Goes(d, "spawning")
  /\ UNCHANGED <<run, granted, native, sessions, loop, requested, todo, stopping, crashes>>

\* The native executable is not the verified one, or the spool has a record.
LaunchFails(d, t) ==
  /\ Free /\ At(d, t, "launching")
  /\ Goes(d, "failing")
  /\ Holds(d)
  /\ UNCHANGED <<run, granted, host, sessions, requested, todo, stopping, crashes>>

\* A session that was closed meanwhile kills the process as it is spawned.
Spawn(d, t) ==
  /\ Free /\ At(d, t, "spawning")
  /\ native' = [native EXCEPT ![t] = IF driver[d].aborted THEN "ended" ELSE "running"]
  /\ Goes(d, "awaiting")
  /\ UNCHANGED <<run, granted, spool, sessions, loop, requested, todo, stopping, crashes>>

\* A process ends by itself, at its deadline or because its session was closed.
NativeEnds(t) ==
  /\ native[t] = "running"
  /\ native' = [native EXCEPT ![t] = "ended"]
  /\ UNCHANGED <<run, granted, spool, memory, crashes>>

\* The terminal record is saved, exclusively and synced ...
Settle(d, t, outcome) ==
  /\ Free /\ At(d, t, "awaiting")
  /\ native[t] = "ended"
  /\ spool' = [spool EXCEPT ![t] = outcome]
  /\ Goes(d, "recording")
  /\ UNCHANGED <<run, granted, native, sessions, loop, requested, todo, stopping, crashes>>

\* ... unless the process was killed or its result cannot be observed.
Unobservable(d, t) ==
  /\ Free /\ At(d, t, "awaiting")
  /\ native[t] = "ended"
  /\ Goes(d, "failing")
  /\ Holds(d)
  /\ UNCHANGED <<run, granted, host, sessions, requested, todo, stopping, crashes>>

\* record-handle moves an attempt that waits for its handle, and only that one.
Record(d, t) ==
  /\ Free /\ At(d, t, "recording")
  /\ attempt' = IF attempt[t] \in {"launch_intent_committed", "reconciliation_required"}
                THEN [attempt EXCEPT ![t] = "provider_handle_recorded"] ELSE attempt
  /\ Goes(d, "collecting")
  /\ UNCHANGED <<lifecycle, owner, receipt, reconciled, workflow, granted, host, sessions,
                 loop, requested, todo, stopping, crashes>>

\* reconcile: the retained terminal record is the only proof of an outcome.
FoundByHandoff(t) == spool[t] # "none"
Found(t) == spool[t] \in Outcomes

ReconcileFound(d, t) ==
  /\ Free /\ At(d, t, "reconciling")
  /\ Found(t)
  /\ Goes(d, "collecting")
  /\ UNCHANGED <<run, granted, host, sessions, loop, requested, todo, stopping, crashes>>

\* No handoff, a handoff without a terminal record, or a lookup that fails.
ReconcileFails(d, t) ==
  /\ Free /\ At(d, t, "reconciling")
  /\ Goes(d, "failing")
  /\ Holds(d)
  /\ UNCHANGED <<run, granted, host, sessions, requested, todo, stopping, crashes>>

-----------------------------------------------------------------------------
(* The receipt, the resolution of the task and the end of the session.     *)

Collected(t) == <<"adapter", spool[t]>>

\* The first receipt terminalises the attempt.
Collect(d, t) ==
  /\ Free /\ At(d, t, "collecting")
  /\ granted /\ receipt[t] = NoReceipt
  /\ receipt' = [receipt EXCEPT ![t] = Collected(t)]
  /\ attempt' = [attempt EXCEPT ![t] = spool[t]]
  /\ Goes(d, "resolving")
  /\ Holds(d)
  /\ UNCHANGED <<lifecycle, owner, reconciled, workflow, granted, host, sessions, requested,
                 todo, stopping, crashes>>

\* The session leaves the map - the map's entry, whoever put it there.
Closing(d, t, failed) ==
  /\ Moves(d, [driver[d] EXCEPT !.at = "closing", !.failed = failed])
  /\ sessions' = [sessions EXCEPT ![t] = NoDriver]
  /\ Yields

\* The same receipt was submitted by another session of the attempt.
CollectAgain(d, t) ==
  /\ Free /\ At(d, t, "collecting")
  /\ granted /\ receipt[t] = Collected(t)
  /\ Closing(d, t, FALSE)
  /\ UNCHANGED <<run, granted, host, requested, todo, stopping, crashes>>

\* RECEIPT_CONFLICT, a revoked producer or an artifact that does not match.
CollectFails(d, t) ==
  /\ Free /\ At(d, t, "collecting")
  /\ Goes(d, "failing")
  /\ Holds(d)
  /\ UNCHANGED <<run, granted, host, sessions, requested, todo, stopping, crashes>>

\* resolveTaskResult, the second append of submitReceipt.
Resolution(t) == IF Unresolved(t) THEN [lifecycle EXCEPT ![t] = attempt[t]] ELSE lifecycle

Resolve(d, t) ==
  /\ At(d, t, "resolving")
  /\ lifecycle' = Resolution(t)
  /\ Closing(d, t, FALSE)
  /\ UNCHANGED <<attempt, owner, receipt, reconciled, workflow, granted, host, requested,
                 todo, stopping, crashes>>

Acknowledge(d, t) ==
  /\ At(d, t, "answering")
  /\ lifecycle' = Resolution(t)
  /\ Moves(d, Idle)
  /\ Yields
  /\ UNCHANGED <<attempt, owner, receipt, reconciled, workflow, granted, host, sessions,
                 requested, todo, stopping, crashes>>

\* The catch block: an attempt that is not terminal requires reconciliation and
\* then has an unknown outcome.  The first transition is the command
\* `${attemptId}:reconcile`, which an attempt can use once: later it is a
\* conflict and the attempt stays as it is.
AmbiguousTerminal(t) == attempt[t] # "unknown_outcome"
Ambiguous(t) == ~Terminal(attempt[t]) /\ attempt[t] # "unknown_outcome"

RequireReconciliation(d, t) ==
  /\ At(d, t, "failing")
  /\ Ambiguous(t) /\ attempt[t] # "reconciliation_required" /\ ~reconciled[t]
  /\ attempt' = [attempt EXCEPT ![t] = "reconciliation_required"]
  /\ reconciled' = [reconciled EXCEPT ![t] = TRUE]
  /\ UNCHANGED <<lifecycle, owner, receipt, workflow, granted, host, memory, crashes>>

FailAttempt(d, t) ==
  /\ At(d, t, "failing")
  /\ attempt[t] = "reconciliation_required"
  /\ attempt' = [attempt EXCEPT ![t] = "unknown_outcome"]
  /\ Closing(d, t, TRUE)
  /\ UNCHANGED <<lifecycle, owner, receipt, reconciled, workflow, granted, host, requested,
                 todo, stopping, crashes>>

FailOnly(d, t) ==
  /\ At(d, t, "failing")
  /\ \/ ~Ambiguous(t)
     \/ attempt[t] # "reconciliation_required" /\ reconciled[t]
  /\ Closing(d, t, TRUE)
  /\ UNCHANGED <<run, granted, host, requested, todo, stopping, crashes>>

\* The session is closed and a wake-up requested; the pump then takes another
\* turn, or stops its workflow if the attempt failed.
Close(d, t) ==
  /\ Free /\ At(d, t, "closing")
  /\ requested' = TRUE
  /\ IF d = Pump /\ ~driver[d].failed
     THEN /\ Moves(d, [Idle EXCEPT !.at = "driving", !.workflow = driver[d].workflow])
          /\ UNCHANGED workflow
     ELSE /\ Moves(d, Leave(d))
          /\ workflow' = IF d = Pump /\ ~stopping
                         THEN Stopped(driver[d].workflow, "stopped") ELSE workflow
  /\ UNCHANGED <<lifecycle, attempt, owner, receipt, reconciled, granted, host, sessions,
                 loop, todo, stopping, crashes>>

-----------------------------------------------------------------------------
(* The daemon.                                                             *)

\* What a new process starts with; startExecution wakes the pump.
Boot ==
  /\ sessions' = [t \in Tasks |-> NoDriver]
  /\ driver' = [d \in Drivers |-> Idle]
  /\ loop' = NoDriver
  /\ requested' = TRUE
  /\ todo' = {}
  /\ stopping' = FALSE

\* The process dies between any two appends; native processes live on.
Crash ==
  /\ crashes < MaxCrashes
  /\ crashes' = crashes + 1
  /\ Boot
  /\ UNCHANGED <<run, granted, host>>

\* close: sessions are aborted and the pump is awaited.
Shutdown ==
  /\ Free /\ ~stopping
  /\ crashes < MaxCrashes
  /\ crashes' = crashes + 1
  /\ stopping' = TRUE
  /\ driver' = [d \in Drivers |->
                  IF \E t \in Tasks : sessions[t] = d
                  THEN [driver[d] EXCEPT !.aborted = TRUE] ELSE driver[d]]
  /\ UNCHANGED <<run, granted, host, sessions, loop, requested, todo>>

\* The process has exited (requests it still served end with it) and runs again.
Restart ==
  /\ Free /\ stopping
  /\ driver[Pump].at = "idle"
  /\ Boot
  /\ UNCHANGED <<run, granted, host, crashes>>

-----------------------------------------------------------------------------
PumpStep ==
  \/ PumpBegin \/ PumpList \/ PumpRest
  \/ \E t \in Tasks : PumpSweep(t)
  \/ \E w \in Workflows :
       \/ PumpTake(w) \/ DriveEnded(w) \/ DriveStop(w) \/ DriveWait(w)
       \/ \E t \in Tasks :
            \/ DriveActivate(w, t) \/ DrivePrepare(w, t)
            \/ \E state \in {"revoked", "stopped"} : DriveRefuse(w, t, state)

AttemptStep(d) ==
  \E t \in Tasks :
    \/ EnterTerminal(d, t) \/ CommitIntent(d, t) \/ EnterRefused(d, t)
    \/ EnterHandedOff(d, t)
    \/ Open(d, t) \/ OpenFails(d, t) \/ HandOff(d, t) \/ LaunchFails(d, t) \/ Spawn(d, t)
    \/ \E outcome \in Outcomes : Settle(d, t, outcome)
    \/ Unobservable(d, t) \/ Record(d, t) \/ ReconcileFound(d, t) \/ ReconcileFails(d, t)
    \/ Collect(d, t) \/ CollectAgain(d, t) \/ CollectFails(d, t)
    \/ Resolve(d, t) \/ Acknowledge(d, t)
    \/ RequireReconciliation(d, t) \/ FailAttempt(d, t) \/ FailOnly(d, t)
    \/ Close(d, t)

ClientStep ==
  \/ \E o \in Operations : Start(o[1], o[2], o[3])
  \/ \E t \in Tasks : Cancel(t)
  \/ \E d \in Requests, t \in Tasks :
       \/ \E action \in {"launch", "reconcile"} : Dispatch(d, t, action)
       \/ \E outcome \in Outcomes : SubmitReceipt(d, t, outcome)
  \/ Revoke

Next ==
  \/ PumpStep
  \/ \E d \in Drivers : AttemptStep(d)
  \/ \E t \in Tasks : NativeEnds(t)
  \/ ClientStep
  \/ Crash \/ Shutdown \/ Restart

\* The event loop runs every section that is ready, and a native process is
\* killed at its deadline.  Nothing obliges clients, crashes or a restart.
Fairness ==
  /\ WF_vars(PumpStep)
  /\ \A d \in Drivers : WF_vars(AttemptStep(d))
  /\ \A t \in Tasks : WF_vars(NativeEnds(t))

Spec == Init /\ [][Next]_vars /\ Fairness

-----------------------------------------------------------------------------
(* Properties.                                                             *)

\* Every variable has its type, and the loop is held exactly by a driver in the
\* middle of a section.
TypeOK ==
  /\ lifecycle \in [Tasks -> {"draft", "active"} \cup Outcomes]
  /\ attempt \in [Tasks -> AttemptStates]
  /\ owner \in [Tasks -> Workflows \cup {NoWorkflow}]
  /\ receipt \in [Tasks -> Receipts \cup {NoReceipt}]
  /\ reconciled \in [Tasks -> BOOLEAN]
  /\ workflow \in [Workflows -> [state : WorkflowStates,
                                 kind : {"none", "dispatch", "execute"},
                                 target : Tasks \cup {NoTask}]]
  /\ granted \in BOOLEAN
  /\ spool \in [Tasks -> {"none", "handed"} \cup Outcomes]
  /\ native \in [Tasks -> {"none", "running", "ended"}]
  /\ sessions \in [Tasks -> Drivers \cup {NoDriver}]
  /\ driver \in [Drivers -> DriverStates]
  /\ loop \in Drivers \cup {NoDriver}
  /\ requested \in BOOLEAN /\ stopping \in BOOLEAN
  /\ todo \subseteq Workflows
  /\ crashes \in 0..MaxCrashes

\* Two native processes never write in the workspace directory at once, the ones
\* a crash has left behind included (assertWorkspaceAvailable).
OneWorker ==
  \A t, u \in Tasks : native[t] = "running" /\ native[u] = "running" => t = u

\* A running process is accounted for by a live attempt, and a handoff marker by
\* a durable launch intent: whatever crashes, the run knows that work may go on.
NativeIsAccountedFor ==
  \A t \in Tasks :
    /\ native[t] = "running" => Live(t)
    /\ spool[t] # "none" => attempt[t] \notin {"none", "planned"}

\* A task is resolved the way its attempt ended; without an attempt it can only be
\* cancelled, and stays without one (resolveTask, submitReceipt, cancel).
ResolutionAgrees ==
  \A t \in Tasks :
    /\ Terminal(lifecycle[t]) =>
         \/ attempt[t] = "none" /\ lifecycle[t] = "cancelled"
         \/ /\ Terminal(attempt[t])
            /\ lifecycle[t] \in {attempt[t], "cancelled"}
            /\ attempt[t] = "succeeded" => lifecycle[t] = "succeeded"
    /\ receipt[t] # NoReceipt => attempt[t] = receipt[t][2]

\* When the pump rests with no wake-up pending, a workflow that is still running
\* waits for a live attempt: no wake-up was lost (wake, driveWorkflow).
NothingForgotten ==
  driver[Pump].at = "idle" /\ ~requested /\ ~stopping
    => \A w \in Workflows : Running(w) => \E t \in Tasks : Live(t)

\* No step changes the outcome of an attempt or of a task, or takes back a receipt.
TerminalIsFinal ==
  [][\A t \in Tasks :
       /\ Terminal(attempt[t]) => attempt'[t] = attempt[t]
       /\ Terminal(lifecycle[t]) => lifecycle'[t] = lifecycle[t]
       /\ receipt[t] # NoReceipt => receipt'[t] = receipt[t]]_vars

\* Once a cancel is durable for an attempt or for the workflow that prepared it,
\* no process is started for it and left to run (docs/cli.md: cancel durably stops
\* the target/workflow's future launches).
NoStartAfterCancel ==
  [][\A t \in Tasks :
       native[t] # "running" /\ native'[t] = "running"
         => attempt[t] # "cancel_requested" /\ workflow[owner[t]].state # "cancelled"]_vars

\* An attempt whose outcome nothing in the daemon will find out any more.
Stuck(t) ==
  /\ Live(t)
  /\ \/ attempt[t] \in {"unknown_outcome", "reconciliation_required", "cancel_requested"}
     \/ ~Running(owner[t])

\* A running workflow ends, unless an attempt is left for the operator to settle
\* or the daemon is being shut down (driveWorkflow, wake).
WorkflowsEnd ==
  \A w \in Workflows :
    Running(w) ~> ~Running(w) \/ stopping \/ \E t \in Tasks : Stuck(t)

=============================================================================
