------------------------------ MODULE CliWorkspace ------------------------------
(***************************************************************************)
(* The workspace commands of the command line (apps/cli/src/workspace.ts   *)
(* and workflows.ts) and the handlers of the daemon they call              *)
(* (apps/daemon/src/server.ts and TaskExecutionService.startWorkflow).     *)
(* A command takes a lock file, saves the whole request it is about to     *)
(* send, sends it, and saves what the answer says.  What it saved lets the *)
(* user repeat a command whose outcome is unknown.                         *)
(*                                                                         *)
(* What is abstracted.  A command stands for its exact options, so two     *)
(* invocations of one command have one title, run and fingerprint.  The    *)
(* heads of the workspace and the run are one counter; a saved file is     *)
(* written, synced and renamed in one step, since a reader sees the old    *)
(* or the new one.  Refusals that change nothing (WORKSPACE_BUSY, a file   *)
(* with wrong permissions) are disabled steps.  The selected run is not    *)
(* modelled; a pending operation blocks its change as it blocks a command. *)
(***************************************************************************)
EXTENDS Integers, FiniteSets

CONSTANTS
  Terminals,    \* where commands are run, one at a time in each
  Commands,     \* the mutations users want: a subset of CommandKinds
  MaxRequests,  \* bound: operation identities
  MaxMoves,     \* bound: changes of the head by other clients
  MaxFaults,    \* bound: deaths, interruptions and daemon failures
  Nobody, Gone, NoOperation

CommandKinds == {"run create", "task add", "task start", "enable-execution"}

ASSUME CommandsAssumption == Commands \subseteq CommandKinds
ASSUME CliBoundsAssumption == MaxRequests \in Nat /\ MaxMoves \in Nat /\ MaxFaults \in Nat
ASSUME NamesAssumption ==
  Nobody # Gone /\ {Nobody, Gone} \cap Terminals = {} /\ NoOperation \notin CommandKinds

VARIABLES
  workspaceLock, \* cli-workspace.v1.lock: the terminal whose command holds it, Gone or Nobody
  saved,         \* cli-workspace.v1.json and the grant reference file
  terminal,      \* what the command in each terminal is doing
  wire,          \* requests sent and not answered
  authority,     \* the head, the operations applied, and whether execution has stopped
  recorded,      \* history: operations whose result was saved
  bounds         \* identities used, moves and faults so far

cliVars == <<workspaceLock, saved, terminal, wire, authority, recorded, bounds>>

-----------------------------------------------------------------------------
Heads == 0 .. MaxRequests + MaxMoves
Requests == [id : 1 .. MaxRequests, command : Commands, cursor : Heads]
NoRequest == [id |-> 0, command |-> NoOperation, cursor |-> 0]

NoCommand == [at |-> "idle", wants |-> NoOperation, pending |-> NoRequest]
TerminalStates ==
  [at : {"idle", "checking", "observing", "saving", "sending", "waiting", "accepted",
         "granted", "rejected", "leaving"},
   wants : Commands \cup {"query", NoOperation}, pending : Requests \cup {NoRequest}]

CliInit ==
  /\ workspaceLock = Nobody
  /\ saved = [pending |-> NoRequest, grant |-> 0]
  /\ terminal = [t \in Terminals |-> NoCommand]
  /\ wire = {}
  /\ authority = [head |-> 0, applied |-> {}, stopped |-> FALSE]
  /\ recorded = {}
  /\ bounds = [ids |-> 0, moves |-> 0, faults |-> 0]

At(t, phase) == terminal[t].at = phase
Comes(t, phase) == terminal' = [terminal EXCEPT ![t].at = phase]
Fault == bounds.faults < MaxFaults /\ bounds' = [bounds EXCEPT !.faults = @ + 1]

-----------------------------------------------------------------------------
(* The command.                                                            *)

\* lockWorkspace: whoever finds a lock fails, also when its owner is gone.
TakeLock(t, wants) ==
  /\ At(t, "idle")
  /\ workspaceLock = Nobody
  /\ workspaceLock' = t
  /\ terminal' = [terminal EXCEPT ![t] = [NoCommand EXCEPT !.at = "checking", !.wants = wants]]
  /\ UNCHANGED <<saved, wire, authority, recorded, bounds>>

\* pendingOperation: the saved request is used again for the same command and blocks
\* any other mutation; a query goes on.
CheckPending(t) ==
  LET wants == terminal[t].wants
      pending == saved.pending
  IN  /\ At(t, "checking")
      /\ \/ /\ wants = "query" \/ pending = NoRequest
            /\ Comes(t, "observing")
         \/ /\ wants # "query" /\ pending.command = wants
            /\ terminal' = [terminal EXCEPT ![t].at = "saving", ![t].pending = pending]
         \/ /\ wants # "query" /\ pending # NoRequest /\ pending.command # wants
            /\ Comes(t, "leaving")
      /\ UNCHANGED <<workspaceLock, saved, wire, authority, recorded, bounds>>

\* A new request: an identity of its own, and the head it was told as its cursor.
NewRequest(wants) == [id |-> bounds.ids + 1, command |-> wants, cursor |-> authority.head]

\* observeWorkspace and observeRun, and for a mutation the request it makes of what it is
\* told; without an identity left it ends here.
Observe(t) ==
  LET wants == terminal[t].wants
  IN  /\ At(t, "observing")
      /\ \/ /\ wants = "query" \/ bounds.ids = MaxRequests
            /\ Comes(t, "leaving")
            /\ UNCHANGED bounds
         \/ /\ wants # "query" /\ bounds.ids < MaxRequests
            /\ bounds' = [bounds EXCEPT !.ids = @ + 1]
            /\ terminal' = [terminal EXCEPT ![t].at = "saving", ![t].pending = NewRequest(wants)]
      /\ UNCHANGED <<workspaceLock, saved, wire, authority, recorded>>

\* Mutant: the request is saved with its answer only.
SavePendingLate(t) ==
  /\ At(t, "saving")
  /\ Comes(t, "sending")
  /\ UNCHANGED <<workspaceLock, saved, wire, authority, recorded, bounds>>

\* commitOperation, up to the call.
SavePending(t) ==
  /\ At(t, "saving")
  /\ saved' = [saved EXCEPT !.pending = terminal[t].pending]
  /\ Comes(t, "sending")
  /\ UNCHANGED <<workspaceLock, wire, authority, recorded, bounds>>

Send(t) ==
  /\ At(t, "sending")
  /\ wire' = wire \cup {[from |-> t, request |-> terminal[t].pending, preflight |-> FALSE]}
  /\ Comes(t, "waiting")
  /\ UNCHANGED <<workspaceLock, saved, authority, recorded, bounds>>

\* The answer does not come, or is not one that can be verified: the request stays saved.
Unheard(t) == {IF r.from = t THEN [r EXCEPT !.from = Nobody] ELSE r : r \in wire}

Interrupt(t) ==
  /\ At(t, "observing") \/ At(t, "waiting")
  /\ Fault
  /\ wire' = Unheard(t)
  /\ Comes(t, "leaving")
  /\ UNCHANGED <<workspaceLock, saved, authority, recorded>>

\* enable-execution puts the issued grant in place first.
ReplaceGrant(t) ==
  /\ At(t, "accepted")
  /\ terminal[t].pending.command = "enable-execution"
  /\ saved' = [saved EXCEPT !.grant = terminal[t].pending.id]
  /\ Comes(t, "granted")
  /\ UNCHANGED <<workspaceLock, wire, authority, recorded, bounds>>

SaveResult(t) ==
  LET pending == terminal[t].pending
  IN  /\ At(t, IF pending.command = "enable-execution" THEN "granted" ELSE "accepted")
      /\ saved' = [saved EXCEPT !.pending = NoRequest]
      /\ recorded' = recorded \cup {pending}
      /\ Comes(t, "leaving")
      /\ UNCHANGED <<workspaceLock, wire, authority, bounds>>

\* A definitive rejection permits a new operation identity.
GiveUp(t) ==
  /\ At(t, "rejected")
  /\ saved' = [saved EXCEPT !.pending = NoRequest]
  /\ Comes(t, "leaving")
  /\ UNCHANGED <<workspaceLock, wire, authority, recorded, bounds>>

LeaveCommand(t) ==
  /\ At(t, "leaving")
  /\ workspaceLock' = Nobody
  /\ terminal' = [terminal EXCEPT ![t] = NoCommand]
  /\ UNCHANGED <<saved, wire, authority, recorded, bounds>>

-----------------------------------------------------------------------------
(* The daemon.                                                             *)

\* The answer reaches the terminal that still waits for it.
Responds(r, verdict, left) ==
  /\ wire' = left
  /\ terminal' = IF r.from \in Terminals THEN [terminal EXCEPT ![r.from].at = verdict] ELSE terminal

Applied(request) == request \in authority.applied
Applies(request, moves) ==
  authority' = [authority EXCEPT !.applied = @ \cup {request},
                                 !.head = @ + moves]

\* The handlers that end in one append (run.create.v1, task.create.v1, and the adoption,
\* revision and cancellation of the service): the store looks for the identity before
\* it compares heads.
AppendHandler(r) ==
  /\ r.request.command \in {"run create", "task add"}
  /\ \/ Applied(r.request) /\ UNCHANGED authority /\ Responds(r, "accepted", wire \ {r})
     \/ /\ ~Applied(r.request) /\ r.request.cursor = authority.head
        /\ Applies(r.request, 1) /\ Responds(r, "accepted", wire \ {r})
     \/ /\ ~Applied(r.request) /\ r.request.cursor # authority.head
        /\ UNCHANGED authority /\ Responds(r, "rejected", wire \ {r})
  /\ UNCHANGED <<workspaceLock, saved, recorded, bounds>>

\* grant.issue.v1: the identity again, and no head.
GrantHandler(r) ==
  /\ r.request.command = "enable-execution"
  /\ IF Applied(r.request) THEN UNCHANGED authority ELSE Applies(r.request, 0)
  /\ Responds(r, "accepted", wire \ {r})
  /\ UNCHANGED <<workspaceLock, saved, recorded, bounds>>

\* startWorkflow up to its wait for the host: a stopped service, then the identity,
\* then the head.
StartHandler(r) ==
  LET stale == r.request.cursor # authority.head
  IN  /\ r.request.command = "task start" /\ ~r.preflight
      /\ \/ /\ authority.stopped \/ (~Applied(r.request) /\ stale)
            /\ Responds(r, "rejected", wire \ {r})
         \/ /\ ~authority.stopped /\ Applied(r.request)
            /\ Responds(r, "accepted", wire \ {r})
         \/ /\ ~authority.stopped /\ ~Applied(r.request) /\ ~stale
            /\ wire' = (wire \ {r}) \cup {[r EXCEPT !.preflight = TRUE]}
            /\ UNCHANGED terminal
      /\ UNCHANGED <<workspaceLock, saved, authority, recorded, bounds>>

\* startWorkflow after its wait: the head again, and not the identity.  The host may
\* also refuse.
Preflighted(r) ==
  /\ r.preflight
  /\ \/ /\ ~authority.stopped /\ r.request.cursor = authority.head
        /\ Applies(r.request, 1) /\ Responds(r, "accepted", wire \ {r})
     \/ UNCHANGED authority /\ Responds(r, "rejected", wire \ {r})
  /\ UNCHANGED <<workspaceLock, saved, recorded, bounds>>

\* Other clients, and the execution of tasks, move the head.
OthersMove ==
  /\ bounds.moves < MaxMoves
  /\ bounds' = [bounds EXCEPT !.moves = @ + 1]
  /\ authority' = [authority EXCEPT !.head = @ + 1]
  /\ UNCHANGED <<workspaceLock, saved, terminal, wire, recorded>>

\* An error of the authority stops execution; the daemon goes on serving.
ExecutionStops ==
  /\ ~authority.stopped
  /\ Fault
  /\ authority' = [authority EXCEPT !.stopped = TRUE]
  /\ UNCHANGED <<workspaceLock, saved, terminal, wire, recorded>>

\* The daemon dies or is stopped, and another is started.
DaemonRestarts ==
  /\ Fault
  /\ wire' = {}
  /\ terminal' = [t \in Terminals |-> IF At(t, "waiting") THEN [terminal[t] EXCEPT !.at = "leaving"]
                                      ELSE terminal[t]]
  /\ authority' = [authority EXCEPT !.stopped = FALSE]
  /\ UNCHANGED <<workspaceLock, saved, recorded>>

-----------------------------------------------------------------------------
\* A command is killed; its lock stays and its request is handled all the same.
Kill(t) ==
  /\ ~At(t, "idle")
  /\ Fault
  /\ terminal' = [terminal EXCEPT ![t] = NoCommand]
  /\ workspaceLock' = Gone
  /\ wire' = Unheard(t)
  /\ UNCHANGED <<saved, authority, recorded>>

\* The user removes a lock that was left behind, when no command is active.
RemoveLock ==
  /\ workspaceLock = Gone
  /\ \A t \in Terminals : At(t, "idle")
  /\ workspaceLock' = Nobody
  /\ UNCHANGED <<saved, terminal, wire, authority, recorded, bounds>>

Handle(r) == AppendHandler(r) \/ GrantHandler(r) \/ StartHandler(r) \/ Preflighted(r)

CliNext ==
  \/ \E t \in Terminals :
       \/ \E wants \in Commands \cup {"query"} : TakeLock(t, wants)
       \/ CheckPending(t) \/ Observe(t) \/ SavePending(t) \/ Send(t) \/ Interrupt(t)
       \/ ReplaceGrant(t) \/ SaveResult(t) \/ GiveUp(t) \/ LeaveCommand(t) \/ Kill(t)
  \/ \E r \in wire : Handle(r)
  \/ OthersMove \/ ExecutionStops \/ DaemonRestarts \/ RemoveLock

CliSpec == CliInit /\ [][CliNext]_cliVars

-----------------------------------------------------------------------------
(* Properties.                                                             *)

\* Every variable has its type; one command at a time has the lock, and it is the one
\* whose request may be waited for.
CliTypeOK ==
  /\ workspaceLock \in Terminals \cup {Nobody, Gone}
  /\ saved \in [pending : Requests \cup {NoRequest}, grant : 0 .. MaxRequests]
  /\ terminal \in [Terminals -> TerminalStates]
  /\ \A t \in Terminals : ~At(t, "idle") => workspaceLock = t
  /\ wire \subseteq [from : Terminals \cup {Nobody}, request : Requests, preflight : BOOLEAN]
  /\ \A r \in wire : r.from # Nobody => At(r.from, "waiting") /\ terminal[r.from].pending = r.request
  /\ authority \in [head : Heads, applied : SUBSET Requests, stopped : BOOLEAN]
  /\ recorded \subseteq authority.applied
  /\ bounds \in [ids : 0 .. MaxRequests, moves : 0 .. MaxMoves, faults : 0 .. MaxFaults]

\* A repeat sends the operation again, or its result was saved, with the grant it issued
\* in place.
Retained(request) ==
  \/ saved.pending = request
  \/ request \in recorded /\ (request.command = "enable-execution" => saved.grant >= request.id)

\* Whatever is killed, interrupted, delayed or restarted between the saved request and
\* the saved result, an operation of one append or of a grant that took effect is never
\* forgotten: the same command, repeated, sends the same request and finds its result
\* (commitOperation; docs/cli.md:125).
AppendsAreRecovered ==
  \A request \in authority.applied : request.command # "task start" => Retained(request)

\* The same of every operation: "explicitly repeat the exact command/options to recover
\* its result without duplicating authorization or external work" (docs/cli.md:125).
RepeatsAreRecovered == \A request \in authority.applied : Retained(request)

=============================================================================
