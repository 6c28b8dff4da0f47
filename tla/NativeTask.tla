------------------------------- MODULE NativeTask -------------------------------
(***************************************************************************)
(* One attempt between the execution service and the native process of a   *)
(* host: the sessions a daemon opens for it, one after another or beside   *)
(* each other, and the private directory they share.  A session is the     *)
(* adapter of adapters/*/src/task-runtime.ts behind SecureWorkerAdapterV1  *)
(* (packages/adapter-kit/src/index.ts); the directory is the spool of      *)
(* packages/adapter-kit/src/task-runtime.ts.                               *)
(*                                                                         *)
(* What is abstracted.  The process prints an outcome or something no      *)
(* outcome can be read from; output limits and timeouts are ends of the    *)
(* second kind.  A publication is one file for its bytes and media type.   *)
(* Bindings are those of the attempt: a call for another is refused and    *)
(* changes nothing.  Resuming is what reconcile does, or refused.          *)
(***************************************************************************)
EXTENDS Integers

CONSTANTS
  TaskHosts,     \* of "pi", "omp", "claude" and "codex"
  TaskSessions,  \* sessions of the attempt
  MaxDaemonDeaths      \* bound: deaths of the daemon

ASSUME MaxDaemonDeathsAssumption == MaxDaemonDeaths \in Nat

VARIABLES
  taskHost,  \* the host of the attempt; it does not change
  spool,     \* the files of the attempt: absent, torn (made, not filled) or whole
  record,    \* the outcome that the terminal record holds
  native,    \* the native process: its state, whose it is, what it printed
  session,   \* what each session of the attempt is doing
  spawned,   \* history: native processes spawned
  told,      \* history: outcomes that calls were answered with
  deaths

taskVars == <<taskHost, spool, record, native, session, spawned, told, deaths>>

Files == {"config", "marker", "output", "evidence", "terminal"}
Closed == [open |-> FALSE, aborted |-> FALSE, active |-> FALSE, launch |-> "none", outcome |-> "none",
           query |-> "none", asked |-> "none", found |-> "none", seen |-> {}, attempt |-> "none"]
Prints == {"succeeded", "failed", "unobservable"} \cup (IF taskHost = "codex" THEN {"cancelled"} ELSE {})
Guarded == taskHost \in {"pi", "omp"}

InProgress == {"marker", "fresh", "handed", "configuring", "beginning", "marking", "starting",
               "running", "output", "output-made", "evidence", "evidence-made", "saving", "terminal-made"}
Settled(place) == place \in {"done", "failed"}
-----------------------------------------------------------------------------
(* The spool. *)

\* load reads the marker and then the terminal record; a marker that is not the
\* whole identity of the attempt is a mismatch.
ReadMarker == CASE spool["marker"] = "absent" -> "fresh" [] spool["marker"] = "torn" -> "failed" [] OTHER -> "handed"

\* The publications that a record of the outcome names can be read.
Published(outcome) == spool["evidence"] = "whole" /\ (outcome = "succeeded" => spool["output"] = "whole")

\* What load comes to when it has read the record: nothing, an error or the outcome.
ReadTerminal(marker) ==
  CASE spool["terminal"] = "absent" -> IF marker = "handed" THEN "failed" ELSE "nothing"
    [] spool["terminal"] = "torn" -> "failed"
    [] OTHER -> IF marker = "handed" /\ Published(record) THEN record ELSE "failed"

\* exclusive makes the file, which must not exist, and then fills and syncs it.
Makes(s, file, from, to) ==
  /\ session[s].launch = from
  /\ IF spool[file] = "absent"
     THEN spool' = [spool EXCEPT ![file] = "torn"] /\ session' = [session EXCEPT ![s].launch = to]
     ELSE session' = [session EXCEPT ![s].launch = "failed"] /\ UNCHANGED spool

Fills(s, file, from, to) ==
  /\ session[s].launch = from
  /\ spool' = [spool EXCEPT ![file] = "whole"]
  /\ session' = [session EXCEPT ![s].launch = to]
-----------------------------------------------------------------------------
(* The runtime of a session: launching. *)

\* What is on record is the answer; without a handoff the executable must still be the
\* one of the profile.
LookBeforeLaunch(s) ==
  /\ \/ session[s].launch = "marker" /\ session' = [session EXCEPT ![s].launch = ReadMarker]
     \/ /\ session[s].launch \in {"fresh", "handed"}
        /\ LET read == ReadTerminal(session[s].launch)
           IN \/ read = "nothing" /\ session' = [session EXCEPT ![s].launch = IF Guarded THEN "configuring" ELSE "beginning"]
              \/ read \in {"nothing", "failed"} /\ session' = [session EXCEPT ![s].launch = "failed"]
              \/ read \notin {"nothing", "failed"} /\ session' = [session EXCEPT ![s].launch = "done", ![s].outcome = read]
  /\ UNCHANGED <<taskHost, spool, record, native, spawned, told, deaths>>

\* pi and omp write the configuration of their identity guard, with the flag "wx".
Configure(s) ==
  /\ session[s].launch = "configuring"
  /\ IF spool["config"] = "absent"
     THEN spool' = [spool EXCEPT !["config"] = "whole"] /\ session' = [session EXCEPT ![s].launch = "beginning"]
     ELSE session' = [session EXCEPT ![s].launch = "failed"] /\ UNCHANGED spool
  /\ UNCHANGED <<taskHost, record, native, spawned, told, deaths>>

\* Mutant: the marker is written whether or not there is one.
BeginAgain(s) ==
  /\ \/ session[s].launch = "beginning" /\ spool' = [spool EXCEPT !["marker"] = "torn"]
        /\ session' = [session EXCEPT ![s].launch = "marking"]
     \/ Fills(s, "marker", "marking", "starting")
  /\ UNCHANGED <<taskHost, record, native, spawned, told, deaths>>

Begin(s) ==
  /\ Makes(s, "marker", "beginning", "marking") \/ Fills(s, "marker", "marking", "starting")
  /\ UNCHANGED <<taskHost, record, native, spawned, told, deaths>>

\* The process is spawned, or cannot be; an aborted session kills it as it starts.
Spawn(s) ==
  /\ session[s].launch = "starting"
  /\ \/ /\ native' = [state |-> "running", of |-> s, printed |-> "none"]
        /\ spawned' = IF spawned = 2 THEN 2 ELSE spawned + 1
        /\ session' = [session EXCEPT ![s].launch = "running", ![s].active = TRUE]
     \/ session' = [session EXCEPT ![s].launch = "failed", ![s].active = TRUE] /\ UNCHANGED <<native, spawned>>
  /\ UNCHANGED <<taskHost, spool, record, told, deaths>>

\* The process ends; one whose session is aborted is killed.
NativeEnds ==
  /\ native.state = "running"
  /\ \E out \in Prints :
       /\ native.of \in TaskSessions /\ session[native.of].aborted => out = "unobservable"
       /\ native' = [native EXCEPT !.state = "ended", !.printed = out]
  /\ UNCHANGED <<taskHost, spool, record, session, spawned, told, deaths>>

\* The outcome is read from what was printed, unless the session was aborted before.
ObserveOutcome(s) ==
  /\ session[s].launch = "running" /\ native.state = "ended"
  /\ session' = [session EXCEPT ![s] =
       IF session[s].aborted \/ native.printed = "unobservable" THEN [@ EXCEPT !.launch = "failed"]
       ELSE [@ EXCEPT !.outcome = native.printed,
                      !.launch = IF native.printed = "succeeded" THEN "output" ELSE "evidence"]]
  /\ UNCHANGED <<taskHost, spool, record, native, spawned, told, deaths>>

PublishOutcome(s) ==
  /\ \/ Makes(s, "output", "output", "output-made") \/ Fills(s, "output", "output-made", "evidence")
     \/ Makes(s, "evidence", "evidence", "evidence-made") \/ Fills(s, "evidence", "evidence-made", "saving")
  /\ UNCHANGED <<taskHost, record, native, spawned, told, deaths>>

\* Mutant: the call is answered when the record is made, before it is filled.
SaveUnawaited(s) ==
  /\ Makes(s, "terminal", "saving", "done")
  /\ record' = session[s].outcome
  /\ UNCHANGED <<taskHost, native, spawned, told, deaths>>

\* save refuses a record whose publications cannot be read.
Save(s) ==
  /\ \/ Published(session[s].outcome) /\ Makes(s, "terminal", "saving", "terminal-made") /\ record' = session[s].outcome
     \/ /\ session[s].launch = "saving" /\ ~Published(session[s].outcome)
        /\ session' = [session EXCEPT ![s].launch = "failed"] /\ UNCHANGED <<spool, record>>
     \/ Fills(s, "terminal", "terminal-made", "done") /\ UNCHANGED record
  /\ UNCHANGED <<taskHost, native, spawned, told, deaths>>

Launches(s) == LookBeforeLaunch(s) \/ Configure(s) \/ Begin(s) \/ Spawn(s) \/ ObserveOutcome(s) \/ PublishOutcome(s) \/ Save(s)

(* The runtime of a session: looking for the outcome.  A launch that is under way *)
(* or was is asked itself; otherwise, and after a cancel, the record is loaded.   *)

FollowLaunch(s) ==
  /\ session[s].query = "following" /\ Settled(session[s].launch)
  /\ session' = [session EXCEPT ![s] =
       CASE session[s].asked = "cancel" -> [@ EXCEPT !.query = "marker"]
         [] session[s].launch = "done" -> [@ EXCEPT !.query = "done", !.found = session[s].outcome]
         [] OTHER -> [@ EXCEPT !.query = "failed"]]
  /\ UNCHANGED <<taskHost, spool, record, native, spawned, told, deaths>>

Look(s) ==
  /\ \/ session[s].query = "marker" /\ session' = [session EXCEPT ![s].query = ReadMarker]
     \/ /\ session[s].query \in {"fresh", "handed"}
        /\ LET read == ReadTerminal(session[s].query)
           IN session' = [session EXCEPT ![s] =
                IF read \in {"nothing", "failed"} THEN [@ EXCEPT !.query = "failed"]
                ELSE [@ EXCEPT !.query = "done", !.found = read]]
  /\ UNCHANGED <<taskHost, spool, record, native, spawned, told, deaths>>

PiTask(s) == taskHost = "pi" /\ (Launches(s) \/ FollowLaunch(s) \/ Look(s))
OMPTask(s) == taskHost = "omp" /\ (Launches(s) \/ FollowLaunch(s) \/ Look(s))
ClaudeTask(s) == taskHost = "claude" /\ (Launches(s) \/ FollowLaunch(s) \/ Look(s))
CodexTask(s) == taskHost = "codex" /\ (Launches(s) \/ FollowLaunch(s) \/ Look(s))
-----------------------------------------------------------------------------
(* The worker adapter of a session, behind the map of promises. *)

\* pi and omp look for the marker before they open, and probe the model without one.
OpenSession(s) ==
  /\ ~session[s].open
  /\ Guarded => spool["marker"] # "torn"
  /\ session' = [session EXCEPT ![s] = [Closed EXCEPT !.open = TRUE]]
  /\ UNCHANGED <<taskHost, spool, record, native, spawned, told, deaths>>

AskLaunch(s) ==
  /\ session[s].open /\ session[s].launch = "none"
  /\ session' = [session EXCEPT ![s].launch = "marker"]
  /\ UNCHANGED <<taskHost, spool, record, native, spawned, told, deaths>>

\* reconcile and cancel are made once, except that pi and omp look for the record
\* themselves before they ask for a reconcile, and may fail there; they refuse a
\* cancel.  A receipt is collected by a caller that was answered.
AskOutcome(s, op) ==
  /\ session[s].open /\ session[s].query \in {"none", "done", "failed"} /\ session[s].found = "none"
  /\ CASE op = "collect" -> session[s].attempt # "none"
       [] op = "cancel" -> ~Guarded /\ op \notin session[s].seen
       [] OTHER -> op \notin session[s].seen \/ (Guarded /\ session[s].query = "failed")
  /\ session' = [session EXCEPT ![s] =
       [@ EXCEPT !.asked = op, !.seen = session[s].seen \cup ({op} \ {"collect"}),
                 !.aborted = session[s].aborted \/ op = "cancel",
                 !.query = IF session[s].active THEN "following" ELSE "marker"]]
  /\ UNCHANGED <<taskHost, spool, record, native, spawned, told, deaths>>

\* The call is answered, and the adapter holds the attempt.
AnswerLaunch(s) ==
  /\ session[s].launch = "done" /\ session[s].outcome # session[s].attempt
  /\ session' = [session EXCEPT ![s].attempt = session[s].outcome]
  /\ told' = told \cup {session[s].outcome}
  /\ UNCHANGED <<taskHost, spool, record, native, spawned, deaths>>

AnswerOutcome(s) ==
  /\ session[s].found # "none"
  /\ session' = [session EXCEPT ![s] =
       [@ EXCEPT !.attempt = IF session[s].asked = "collect" THEN session[s].attempt ELSE session[s].found, !.found = "none"]]
  /\ told' = told \cup {session[s].found}
  /\ UNCHANGED <<taskHost, spool, record, native, spawned, deaths>>

WorkerCalls(s) ==
  AskLaunch(s) \/ AnswerLaunch(s) \/ AnswerOutcome(s) \/ \E op \in {"reconcile", "cancel", "collect"} : AskOutcome(s, op)

PiWorker(s) == taskHost = "pi" /\ WorkerCalls(s)
OMPWorker(s) == taskHost = "omp" /\ WorkerCalls(s)
ClaudeWorker(s) == taskHost = "claude" /\ WorkerCalls(s)
CodexWorker(s) == taskHost = "codex" /\ WorkerCalls(s)

\* close aborts, which kills a process that runs, and waits for a launch under way.
Close(s) ==
  /\ session[s].open /\ ~session[s].aborted
  /\ session' = [session EXCEPT ![s].aborted = TRUE]
  /\ UNCHANGED <<taskHost, spool, record, native, spawned, told, deaths>>

\* Nothing of a closed session is under way any more; it is forgotten.
Forget(s) ==
  /\ session[s].open /\ session[s].aborted
  /\ session[s].launch \notin InProgress /\ session[s].query \in {"none", "done", "failed"}
  /\ session' = [session EXCEPT ![s] = Closed]
  /\ UNCHANGED <<taskHost, spool, record, native, spawned, told, deaths>>

\* The daemon dies.  The process is in a group of its own and goes on.
DaemonDies ==
  /\ deaths < MaxDaemonDeaths
  /\ deaths' = deaths + 1
  /\ session' = [s \in TaskSessions |-> Closed]
  /\ native' = [native EXCEPT !.of = "nobody"]
  /\ UNCHANGED <<taskHost, spool, record, spawned, told>>
-----------------------------------------------------------------------------
TaskInit ==
  /\ taskHost \in TaskHosts
  /\ spool = [f \in Files |-> "absent"]
  /\ record = "none"
  /\ native = [state |-> "none", of |-> "nobody", printed |-> "none"]
  /\ session = [s \in TaskSessions |-> Closed]
  /\ spawned = 0
  /\ told = {}
  /\ deaths = 0

SessionStep(s) ==
  \/ PiTask(s) \/ OMPTask(s) \/ ClaudeTask(s) \/ CodexTask(s)
  \/ PiWorker(s) \/ OMPWorker(s) \/ ClaudeWorker(s) \/ CodexWorker(s)
  \/ OpenSession(s) \/ Close(s) \/ Forget(s)

TaskNext == NativeEnds \/ DaemonDies \/ \E s \in TaskSessions : SessionStep(s)

TaskSpec == TaskInit /\ [][TaskNext]_taskVars
-----------------------------------------------------------------------------
Outcomes == {"succeeded", "failed", "cancelled"}
LaunchPlaces == InProgress \cup {"none", "done", "failed"}
QueryPlaces == {"none", "following", "marker", "fresh", "handed", "done", "failed"}

SessionStates ==
  [open : BOOLEAN, aborted : BOOLEAN, active : BOOLEAN, launch : LaunchPlaces, outcome : Outcomes \cup {"none"},
   query : QueryPlaces, asked : {"none", "reconcile", "cancel", "collect"}, found : Outcomes \cup {"none"},
   seen : SUBSET {"reconcile", "cancel"}, attempt : Outcomes \cup {"none"}]

TaskTypeOK ==
  /\ taskHost \in TaskHosts
  /\ spool \in [Files -> {"absent", "torn", "whole"}]
  /\ record \in Outcomes \cup {"none"}
  /\ native \in [state : {"none", "running", "ended"}, of : TaskSessions \cup {"nobody"},
                 printed : Outcomes \cup {"none", "unobservable"}]
  /\ session \in [TaskSessions -> SessionStates]
  /\ spawned \in 0 .. 2
  /\ told \subseteq Outcomes \cup {"none"}
  /\ deaths \in 0 .. MaxDaemonDeaths

\* However many sessions are opened for an attempt, beside each other or after a
\* death of the daemon, and whatever they are asked, its native process is spawned
\* once: the marker is made before the process and never made again.
NativeRunsOnce == spawned <= 1

\* An outcome that any call was ever answered with is what the process printed, and
\* stays on record: the terminal record holds it and its publications can be read.
OutcomeIsOnRecord ==
  \A outcome \in told :
     /\ native.state = "ended" /\ native.printed = outcome
     /\ spool["terminal"] = "whole" /\ record = outcome
     /\ Published(outcome)
=============================================================================
