------------------------------- MODULE MCWorkers -------------------------------
(* Small instances for TLC of processes that meet in files or leases, or    *)
(* that remember what they did.  They share no state: a behaviour is one of *)
(* the artifacts of a workspace, of the directory of a native task, whose   *)
(* publications become artifacts, of the leased dispatch of an attempt, of  *)
(* the delivery, of the sessions, of a worker's client or of the command    *)
(* line.                                                                    *)
EXTENDS ArtifactRetention, NativeTask, DispatchAuthority, WorkerDelivery, HostSessions,
  WorkerClient, CliWorkspace, TLC

VARIABLE part  \* the part that moves

WorkersInit ==
  /\ part \in {"retention", "task", "dispatch", "delivery", "sessions", "client", "cli"}
  /\ Init /\ TaskInit /\ DispatchInit /\ DeliveryInit /\ SessionsInit /\ ClientInit /\ CliInit
  /\ part # "task" => taskHost = CHOOSE h \in TaskHosts : TRUE
  /\ part # "delivery" => host = CHOOSE h \in Hosts : TRUE
  /\ part # "sessions" => sessionHost = CHOOSE h \in SessionHosts : TRUE

WorkersNext ==
  /\ UNCHANGED part
  /\ \/ part = "retention" /\ Next
     \/ part # "retention" /\ UNCHANGED vars
  /\ \/ part = "task" /\ TaskNext
     \/ part # "task" /\ UNCHANGED taskVars
  /\ \/ part = "dispatch" /\ DispatchNext
     \/ part # "dispatch" /\ UNCHANGED dispatchVars
  /\ \/ part = "delivery" /\ DeliveryNext
     \/ part # "delivery" /\ UNCHANGED deliveryVars
  /\ \/ part = "sessions" /\ SessionsNext
     \/ part # "sessions" /\ UNCHANGED sessionVars
  /\ \/ part = "client" /\ ClientNext
     \/ part # "client" /\ UNCHANGED clientVars
  /\ \/ part = "cli" /\ CliNext
     \/ part # "cli" /\ UNCHANGED cliVars

WorkersSpec ==
  WorkersInit /\ [][WorkersNext]_<<part, vars, taskVars, dispatchVars, deliveryVars, sessionVars,
                                  clientVars, cliVars>>

\* Digests are interchangeable, and outputs, which have the same names here; so are
\* processes, sessions of a task or a host, dispatchers, receipts and terminals.
WorkersSymmetry ==
  Permutations(Digests \cup Outputs)
    \cup Permutations(Processes \cup TaskSessions \cup Dispatchers \cup DeliveryHosts \cup Sessions
                        \cup WorkReceipts \cup Terminals)

\* pi runs a task by the code of omp, and claude by that of codex but for a verdict:
\* the daemon does not die under them.
DiesOncePerTaskKind == taskHost \in {"pi", "claude"} => deaths = 0

\* claude delivers by the code of omp, and pi by the same but for the revocation: their
\* processes do not die.
DiesOncePerKind == host \in {"pi", "claude"} => \A p \in DeliveryHosts : life[p] = 0

\* The run goes on under the first client.  A later one begins with no cursor.
RunGoesOnEarly == runSequence > 0 => workers = 1

\* The run moves beside dispatches of at most two events.
MovesBesideShortRecords ==
  runHead > 0 => \A p \in Dispatchers : copies[p] # NoCopy => copies[p].record.events <= 2

WorkersBounds ==
  /\ DiesOncePerTaskKind /\ MovesBesideShortRecords
  /\ TakeoversAlone /\ DiesOncePerKind /\ RunGoesOnEarly
=============================================================================
