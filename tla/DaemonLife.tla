------------------------------- MODULE DaemonLife -------------------------------
(***************************************************************************)
(* The life of the daemon's processes in one workspace: the bootstrap      *)
(* ceremony (apps/daemon/src/bootstrap.ts) that turns a one-time           *)
(* capability file into the workspace's genesis event, the entry point     *)
(* that runs it or serves (entry.ts, daemon.ts), the socket a serving      *)
(* daemon listens on (packages/protocol/src/transports/server.ts), the     *)
(* endpoint file that says who serves, and the commands that start and     *)
(* stop them (apps/cli/src/lifecycle.ts and the init of workspace.ts).     *)
(* Two processes may run at once, and each may die between two steps.      *)
(*                                                                         *)
(* What is abstracted.  There is one capability and one secret.  The tests *)
(* of owners and permissions never fail.  A file that is written aside,    *)
(* synced and renamed changes in one step.  The CLI process and the daemon *)
(* it waits for die together.  The readiness timeout of a start does not   *)
(* expire, and a process identity is not used again.                       *)
(***************************************************************************)
EXTENDS Integers, FiniteSets

CONSTANTS
  Daemons,      \* process identities
  NoDaemon,
  MaxLaunches,  \* bound: processes started
  MaxKills      \* bound: processes that die before their end

ASSUME NoDaemonAssumption == NoDaemon \notin Daemons
ASSUME DaemonBoundsAssumption == MaxLaunches \in Nat /\ MaxKills \in Nat

VARIABLES
  capability,    \* the files bootstrap-capability.v1.json and ….consuming
  workspace,     \* what exists: private state, the genesis event, the grant reference file
  socket,        \* whose socket is at the endpoint path
  endpoint,      \* whom daemon-endpoint.v1.json names
  daemon,        \* what each process is doing
  written,       \* history: a capability was written in full
  daemonBounds   \* launches and kills so far

daemonVars == <<capability, workspace, socket, endpoint, daemon, written, daemonBounds>>

-----------------------------------------------------------------------------
CapabilityCopies == {"absent", "torn", "whole"}
NotRunning == [at |-> "none", kind |-> "none", saw |-> FALSE]

DaemonInit ==
  /\ capability = [ready |-> "absent", consuming |-> "absent"]
  /\ workspace = [used |-> FALSE, genesis |-> FALSE, granted |-> FALSE]
  /\ socket = NoDaemon
  /\ endpoint = NoDaemon
  /\ daemon = [d \in Daemons |-> NotRunning]
  /\ written = FALSE
  /\ daemonBounds = [launches |-> 0, kills |-> 0]

Alive(d) == d # NoDaemon /\ daemon[d].at # "none"
Is(d, step) == daemon[d].at = step
NowIs(d, step) == daemon' = [daemon EXCEPT ![d].at = step]
ProcessEnds(d) == daemon' = [daemon EXCEPT ![d] = NotRunning]

(* The files a step leaves alone.                                          *)
KeepsBootstrap == UNCHANGED <<capability, workspace, written>>
KeepsEndpoint == UNCHANGED <<socket, endpoint>>

-----------------------------------------------------------------------------
(* The commands.                                                           *)

Launch(d, kind) ==
  /\ ~Alive(d)
  /\ endpoint # d  \* a process identity is not used again
  /\ daemonBounds.launches < MaxLaunches
  /\ daemonBounds' = [daemonBounds EXCEPT !.launches = @ + 1]
  /\ daemon' = [daemon EXCEPT ![d] = [at |-> "opening", kind |-> kind, saw |-> FALSE]]
  /\ KeepsBootstrap /\ KeepsEndpoint

(* `horseness init` under the workspace lock, in a directory with no state *)
LaunchInit(d) ==
  /\ ~workspace.used
  /\ \A e \in Daemons : daemon[e].kind # "init"
  /\ Launch(d, "init")

(* `horseness bootstrap`, which reads the secret of either file            *)
LaunchBootstrap(d) ==
  /\ "whole" \in {capability.ready, capability.consuming}
  /\ Launch(d, "bootstrap")

(* The start of a daemon: refused while the process the endpoint names is  *)
(* alive.  The command waits until the endpoint names the new process, and *)
(* StartsAlone says that nobody gives the command meanwhile.               *)
StartsAlone ==
  \A e \in Daemons :
    daemon[e].kind = "start" => daemon[e].at \in {"serving", "closing", "stopping", "exiting"}

LaunchStart(d) ==
  /\ workspace.granted
  /\ ~Alive(endpoint)
  /\ StartsAlone
  /\ Launch(d, "start")

(* `horseness restore-rebind`: refused while there is an endpoint file     *)
LaunchRebind(d) ==
  /\ workspace.used
  /\ endpoint = NoDaemon
  /\ Launch(d, "rebind")

\* Mutant: stop removes the endpoint file before it closes the transport.
TerminateUnpublished(d) ==
  /\ endpoint = d
  /\ Is(d, "serving")
  /\ endpoint' = NoDaemon
  /\ NowIs(d, "closing")
  /\ KeepsBootstrap /\ UNCHANGED <<socket, daemonBounds>>

(* `horseness stop`: SIGTERM to the process the endpoint names             *)
Terminate(d) ==
  /\ endpoint = d
  /\ Is(d, "serving")
  /\ NowIs(d, "closing")
  /\ KeepsBootstrap /\ KeepsEndpoint /\ UNCHANGED daemonBounds

-----------------------------------------------------------------------------
(* Daemon's constructor: directories, credential and database, then the    *)
(* recovery of a bootstrap that was interrupted.                           *)

Construct(d) ==
  /\ Is(d, "opening")
  /\ workspace' = [workspace EXCEPT !.used = TRUE]
  /\ daemon' = [daemon EXCEPT ![d].at = "recovering", ![d].saw = workspace.genesis]
  /\ UNCHANGED <<capability, written, daemonBounds>> /\ KeepsEndpoint

Recovered(d) ==
  CASE daemon[d].kind = "init" -> IF daemon[d].saw THEN "leaving" ELSE "creating"
    [] daemon[d].kind = "bootstrap" -> "consuming"
    [] daemon[d].kind = "rebind" -> "leaving"
    [] OTHER -> "clearing"

PutsBack == [ready |-> capability.consuming, consuming |-> "absent"]

RecoverInterruptedConsumption(d) ==
  /\ Is(d, "recovering")
  /\ capability' = CASE daemon[d].saw -> [capability EXCEPT !.consuming = "absent"]
                     [] ~daemon[d].saw /\ capability.consuming # "absent" -> PutsBack
                     [] OTHER -> capability
  /\ NowIs(d, Recovered(d))
  /\ KeepsEndpoint /\ UNCHANGED <<workspace, written, daemonBounds>>

-----------------------------------------------------------------------------
(* The ceremony.                                                           *)

(* The file is opened "wx" and then written                                *)
CreateCapability(d) ==
  /\ Is(d, "creating")
  /\ IF capability.ready = "absent"
       THEN /\ capability' = [capability EXCEPT !.ready = "torn"]
            /\ NowIs(d, "writing")
       ELSE /\ NowIs(d, "leaving")
            /\ UNCHANGED capability
  /\ KeepsEndpoint /\ UNCHANGED <<workspace, written, daemonBounds>>

WriteCapability(d) ==
  /\ Is(d, "writing")
  /\ capability' = [capability EXCEPT !.ready = "whole"]
  /\ written' = TRUE
  /\ NowIs(d, "consuming")
  /\ KeepsEndpoint /\ UNCHANGED <<workspace, daemonBounds>>

TakeCapability(d) ==
  /\ Is(d, "consuming")
  /\ IF capability.ready = "absent"
       THEN NowIs(d, "leaving") /\ UNCHANGED capability
       ELSE /\ capability' = [ready |-> "absent", consuming |-> capability.ready]
            /\ NowIs(d, "checking")
  /\ KeepsEndpoint /\ UNCHANGED <<workspace, written, daemonBounds>>

CheckCapability(d) ==
  /\ Is(d, "checking")
  /\ NowIs(d, IF capability.consuming = "whole" /\ ~workspace.genesis THEN "appending" ELSE "failing")
  /\ KeepsBootstrap /\ KeepsEndpoint /\ UNCHANGED daemonBounds

(* Genesis and grant in one transaction, at sequence 0                     *)
AppendGenesis(d) ==
  /\ Is(d, "appending")
  /\ workspace' = [workspace EXCEPT !.genesis = TRUE]
  /\ NowIs(d, IF workspace.genesis THEN "failing" ELSE "cleaning")
  /\ KeepsEndpoint /\ UNCHANGED <<capability, written, daemonBounds>>

\* Mutant: the consumption removes the file it took however it ends.
FinishRemoving(d) ==
  /\ daemon[d].at \in {"cleaning", "failing"}
  /\ capability' = [capability EXCEPT !.consuming = "absent"]
  /\ NowIs(d, IF Is(d, "cleaning") THEN "granting" ELSE "leaving")
  /\ KeepsEndpoint /\ UNCHANGED <<workspace, written, daemonBounds>>

(* The `finally` of the consumption                                        *)
FinishOpening(d) ==
  /\ daemon[d].at \in {"cleaning", "failing"}
  /\ capability' = CASE Is(d, "cleaning") -> [capability EXCEPT !.consuming = "absent"]
                     [] Is(d, "failing") /\ capability.consuming # "absent" -> PutsBack
                     [] OTHER -> capability
  /\ NowIs(d, IF Is(d, "cleaning") THEN "granting" ELSE "leaving")
  /\ KeepsEndpoint /\ UNCHANGED <<workspace, written, daemonBounds>>

(* The grant reference is written "wx", by the daemon of an init and by    *)
(* the command of a bootstrap                                              *)
WriteGrantReference(d) ==
  /\ Is(d, "granting")
  /\ workspace' = [workspace EXCEPT !.granted = TRUE]
  /\ NowIs(d, "leaving")
  /\ KeepsEndpoint /\ UNCHANGED <<capability, written, daemonBounds>>

-----------------------------------------------------------------------------
(* Daemon.start and Daemon.stop.                                           *)

(* A socket found at the path is removed, whoever listens on it            *)
ClearSocket(d) ==
  /\ Is(d, "clearing")
  /\ socket' = NoDaemon
  /\ NowIs(d, "listening")
  /\ KeepsBootstrap /\ UNCHANGED <<endpoint, daemonBounds>>

Listen(d) ==
  /\ Is(d, "listening")
  /\ socket = NoDaemon
  /\ socket' = d
  /\ NowIs(d, "publishing")
  /\ KeepsBootstrap /\ UNCHANGED <<endpoint, daemonBounds>>

(* The endpoint file is replaced, and execution starts                     *)
Publish(d) ==
  /\ Is(d, "publishing")
  /\ endpoint' = d
  /\ NowIs(d, "serving")
  /\ KeepsBootstrap /\ UNCHANGED <<socket, daemonBounds>>

(* A start that fails once it listens closes its transport and removes     *)
(* the endpoint file                                                       *)
StartFails(d) ==
  /\ Is(d, "publishing")
  /\ daemonBounds.kills < MaxKills
  /\ daemonBounds' = [daemonBounds EXCEPT !.kills = @ + 1]
  /\ socket' = NoDaemon
  /\ endpoint' = NoDaemon
  /\ ProcessEnds(d)
  /\ KeepsBootstrap

(* stop: the transport first, which removes the socket file; then          *)
(* execution; the endpoint file last                                       *)
CloseTransport(d) ==
  /\ Is(d, "closing")
  /\ socket' = NoDaemon
  /\ NowIs(d, "stopping")
  /\ KeepsBootstrap /\ UNCHANGED <<endpoint, daemonBounds>>

StopExecution(d) ==
  /\ Is(d, "stopping")
  /\ endpoint' = NoDaemon
  /\ NowIs(d, "exiting")
  /\ KeepsBootstrap /\ UNCHANGED <<socket, daemonBounds>>

Exit(d) ==
  /\ daemon[d].at \in {"leaving", "exiting"}
  /\ ProcessEnds(d)
  /\ KeepsBootstrap /\ KeepsEndpoint /\ UNCHANGED daemonBounds

(* A process dies: killed, or by an error nobody catches, when the exit    *)
(* handler of a transport that listens removes the socket file             *)
ProcessDies(d) ==
  /\ Alive(d)
  /\ daemonBounds.kills < MaxKills
  /\ daemonBounds' = [daemonBounds EXCEPT !.kills = @ + 1]
  /\ ProcessEnds(d)
  /\ \/ UNCHANGED socket
     \/ daemon[d].at \in {"publishing", "serving"} /\ socket' = NoDaemon
  /\ KeepsBootstrap /\ UNCHANGED endpoint

-----------------------------------------------------------------------------
DaemonNext ==
  \E d \in Daemons :
    \/ LaunchInit(d) \/ LaunchBootstrap(d) \/ LaunchStart(d) \/ LaunchRebind(d)
    \/ Construct(d) \/ RecoverInterruptedConsumption(d)
    \/ CreateCapability(d) \/ WriteCapability(d)
    \/ TakeCapability(d) \/ CheckCapability(d) \/ AppendGenesis(d) \/ FinishOpening(d)
    \/ WriteGrantReference(d)
    \/ ClearSocket(d) \/ Listen(d) \/ Publish(d) \/ StartFails(d)
    \/ Terminate(d) \/ CloseTransport(d) \/ StopExecution(d)
    \/ Exit(d) \/ ProcessDies(d)

DaemonSpec == DaemonInit /\ [][DaemonNext]_daemonVars

-----------------------------------------------------------------------------
(* Properties.                                                             *)

DaemonTypeOK ==
  /\ capability \in [ready : CapabilityCopies, consuming : CapabilityCopies]
  /\ workspace \in [used : BOOLEAN, genesis : BOOLEAN, granted : BOOLEAN]
  /\ {socket, endpoint} \subseteq Daemons \cup {NoDaemon}
  /\ written \in BOOLEAN
  /\ daemonBounds \in [launches : 0 .. MaxLaunches, kills : 0 .. MaxKills]

(* Until the workspace has its genesis event, the capability that can give *)
(* it one is in one of its two files, whole: however many processes take   *)
(* it, fail, die, and put each other's interrupted consumption back        *)
(* (bootstrap.ts:48-56 and 78-81).                                         *)
CapabilityIsNotLost ==
  written /\ ~workspace.genesis => "whole" \in {capability.ready, capability.consuming}

(* A client finds the daemon that serves: while one does, the endpoint     *)
(* file names it and the socket at the path is its own, although the       *)
(* daemon before it removes both by their names while it stops, and        *)
(* although a daemon that died left both behind (daemon.ts:98-104,         *)
(* transports/server.ts:58 and 88-93, lifecycle.ts:72).                    *)
EndpointLeadsToServer ==
  \A d \in Daemons : Is(d, "serving") => endpoint = d /\ socket = d
=============================================================================
