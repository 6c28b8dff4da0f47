---------------------------- MODULE NativeTaskProofs ----------------------------
(***************************************************************************)
(* The native process of an attempt is spawned once, and an outcome that   *)
(* was answered stays on record, for any number of sessions and deaths.    *)
(***************************************************************************)
EXTENDS NativeTask, TLAPS

-----------------------------------------------------------------------------
(* Types. *)

\* A session that goes on to another state keeps the types.
LEMMA SessionMoves ==
  ASSUME TaskTypeOK, NEW s \in TaskSessions, NEW state \in SessionStates,
         session' = [session EXCEPT ![s] = state]
  PROVE  session' \in [TaskSessions -> SessionStates]
BY DEF TaskTypeOK

\* A session that asks its own launch keeps its type.
LEMMA FollowTyped ==
  ASSUME TaskTypeOK, NEW s \in TaskSessions, FollowLaunch(s)
  PROVE  session' \in [TaskSessions -> SessionStates]
<1> DEFINE old == session[s]
<1>1. old \in SessionStates
  BY DEF TaskTypeOK
<1>2. CASE old.asked = "cancel"
  BY <1>1, <1>2, SessionMoves DEF FollowLaunch, SessionStates, QueryPlaces
<1>3. CASE old.asked # "cancel" /\ old.launch = "done"
  BY <1>1, <1>3, SessionMoves DEF FollowLaunch, SessionStates, QueryPlaces
<1>4. CASE old.asked # "cancel" /\ old.launch # "done"
  BY <1>1, <1>4, SessionMoves DEF FollowLaunch, SessionStates, QueryPlaces
<1> QED
  BY <1>2, <1>3, <1>4

\* So does one that is closed,
LEMMA CloseTyped ==
  ASSUME TaskTypeOK, NEW s \in TaskSessions, Close(s)
  PROVE  session' \in [TaskSessions -> SessionStates]
<1> DEFINE state == [session[s] EXCEPT !.aborted = TRUE]
<1>1. session[s] \in SessionStates
  BY DEF TaskTypeOK
<1>2. state \in SessionStates
  BY <1>1 DEF SessionStates
<1>3. session' = [session EXCEPT ![s] = state]
  BY DEF Close
<1> QED
  BY <1>2, <1>3, SessionMoves

\* one that answers what it found,
LEMMA AnswerTyped ==
  ASSUME TaskTypeOK, NEW s \in TaskSessions, AnswerOutcome(s)
  PROVE  session' \in [TaskSessions -> SessionStates]
<1> DEFINE old == session[s]
           new == IF old.asked = "collect" THEN old.attempt ELSE old.found
           state == [old EXCEPT !.attempt = new, !.found = "none"]
<1>0. old \in SessionStates
  BY DEF TaskTypeOK
<1>1. state \in SessionStates
  BY <1>0 DEF SessionStates
<1>2. session' = [session EXCEPT ![s] = state]
  BY <1>0 DEF AnswerOutcome, SessionStates
<1> QED
  BY <1>1, <1>2, SessionMoves

\* one that loads the record,
LEMMA LookTyped ==
  ASSUME TaskTypeOK, NEW s \in TaskSessions, Look(s)
  PROVE  session' \in [TaskSessions -> SessionStates]
<1> DEFINE old == session[s]
           read == ReadTerminal(old.query)
<1>0. old \in SessionStates
  BY DEF TaskTypeOK
<1>1. CASE old.query = "marker"
  <2>1. ReadMarker \in QueryPlaces
    BY DEF ReadMarker, QueryPlaces
  <2> QED
    BY <1>0, <1>1, <2>1, SessionMoves DEF Look, SessionStates
<1>2. CASE old.query # "marker"
  <2>1. read \in Outcomes \cup {"none", "nothing", "failed"}
    BY DEF ReadTerminal, TaskTypeOK, Outcomes
  <2> HIDE DEF read
  <2>2. session' = [session EXCEPT ![s] =
                IF read \in {"nothing", "failed"} THEN [old EXCEPT !.query = "failed"]
                ELSE [old EXCEPT !.query = "done", !.found = read]]
    BY <1>2 DEF Look, read
  <2> HIDE DEF old
  <2>3. CASE read \in {"nothing", "failed"}
    <3>1. [old EXCEPT !.query = "failed"] \in SessionStates
      BY <1>0 DEF SessionStates, QueryPlaces
    <3> QED
      BY <2>2, <2>3, <3>1, SessionMoves
  <2>4. CASE read \notin {"nothing", "failed"}
    <3>1. [old EXCEPT !.query = "done", !.found = read] \in SessionStates
      BY <1>0, <2>4, <2>1 DEF SessionStates, QueryPlaces
    <3> QED
      BY <2>2, <2>4, <3>1, SessionMoves
  <2> QED
    BY <2>3, <2>4
<1> QED
  BY <1>1, <1>2

\* one that reads the outcome from what was printed,
LEMMA ObserveTyped ==
  ASSUME TaskTypeOK, NEW s \in TaskSessions, ObserveOutcome(s)
  PROVE  session' \in [TaskSessions -> SessionStates]
<1> DEFINE old == session[s]
<1>0. old \in SessionStates
  BY DEF TaskTypeOK
<1>1. CASE old.aborted \/ native.printed = "unobservable"
  <2>1. [old EXCEPT !.launch = "failed"] \in SessionStates
    BY <1>0 DEF SessionStates, LaunchPlaces
  <2>2. session' = [session EXCEPT ![s] = [old EXCEPT !.launch = "failed"]]
    BY <1>1 DEF ObserveOutcome
  <2> QED
    BY <2>1, <2>2, SessionMoves
<1>2. CASE ~(old.aborted \/ native.printed = "unobservable")
  <2> DEFINE at == IF native.printed = "succeeded" THEN "output" ELSE "evidence"
             state == [old EXCEPT !.outcome = native.printed, !.launch = at]
  <2>1. native.printed \in Outcomes \cup {"none"} /\ at \in LaunchPlaces
    BY <1>2 DEF LaunchPlaces, InProgress, TaskTypeOK
  <2>2. session' = [session EXCEPT ![s] = state]
    BY <1>2 DEF ObserveOutcome
  <2> HIDE DEF old, at
  <2>3. state \in SessionStates
    BY <1>0, <2>1 DEF SessionStates
  <2> QED
    BY <2>2, <2>3, SessionMoves
<1> QED
  BY <1>1, <1>2

\* and one that is asked for the outcome.
LEMMA AskTyped ==
  ASSUME TaskTypeOK, NEW s \in TaskSessions, NEW op \in {"reconcile", "cancel", "collect"}, AskOutcome(s, op)
  PROVE  session' \in [TaskSessions -> SessionStates]
<1> DEFINE old == session[s]
           ended == old.aborted \/ op = "cancel"
           saw == old.seen \cup ({op} \ {"collect"})
           next == IF old.active THEN "following" ELSE "marker"
           state == [old EXCEPT !.asked = op, !.seen = saw, !.aborted = ended, !.query = next]
<1>0. old \in SessionStates
  BY DEF TaskTypeOK
<1>1. ended \in BOOLEAN /\ saw \in SUBSET {"reconcile", "cancel"} /\ next \in QueryPlaces
  BY <1>0 DEF SessionStates, QueryPlaces
<1>2. session' = [session EXCEPT ![s] = state]
  BY DEF AskOutcome
<1> HIDE DEF ended, saw, next
<1>3. state \in SessionStates
  BY <1>0, <1>1 DEF SessionStates
<1> QED
  BY <1>2, <1>3, SessionMoves

\* Every step of the daemon and of the process keeps the types.
LEMMA TypeNext ==
  ASSUME TaskTypeOK, TaskNext
  PROVE  TaskTypeOK'
<1> USE DEF TaskTypeOK
<1>1. ASSUME NEW s \in TaskSessions, LookBeforeLaunch(s)
      PROVE  TaskTypeOK'
  BY <1>1 DEF LookBeforeLaunch, ReadMarker, ReadTerminal, SessionStates, Files, LaunchPlaces, InProgress, QueryPlaces, Outcomes
<1>2. ASSUME NEW s \in TaskSessions, Configure(s)
      PROVE  TaskTypeOK'
  BY <1>2 DEF Configure, SessionStates, Files, LaunchPlaces, InProgress, QueryPlaces, Outcomes
<1>3. ASSUME NEW s \in TaskSessions, Begin(s)
      PROVE  TaskTypeOK'
  BY <1>3 DEF Begin, Makes, Fills, SessionStates, Files, LaunchPlaces, InProgress, QueryPlaces, Outcomes
<1>4. ASSUME NEW s \in TaskSessions, Spawn(s)
      PROVE  TaskTypeOK'
  BY <1>4 DEF Spawn, SessionStates, Files, LaunchPlaces, InProgress, QueryPlaces, Outcomes
<1>5. ASSUME NEW s \in TaskSessions, ObserveOutcome(s)
      PROVE  TaskTypeOK'
  BY <1>5, ObserveTyped DEF ObserveOutcome, SessionStates
<1>6. ASSUME NEW s \in TaskSessions, PublishOutcome(s)
      PROVE  TaskTypeOK'
  BY <1>6 DEF PublishOutcome, Makes, Fills, SessionStates, Files, LaunchPlaces, InProgress, QueryPlaces, Outcomes
<1>7. ASSUME NEW s \in TaskSessions, Save(s)
      PROVE  TaskTypeOK'
  BY <1>7 DEF Save, Makes, Fills, SessionStates, Files, LaunchPlaces, InProgress, QueryPlaces, Outcomes
<1>8. ASSUME NEW s \in TaskSessions, FollowLaunch(s)
      PROVE  TaskTypeOK'
  BY <1>8, FollowTyped DEF FollowLaunch, SessionStates
<1>9. ASSUME NEW s \in TaskSessions, Look(s)
      PROVE  TaskTypeOK'
  BY <1>9, LookTyped DEF Look, SessionStates
<1>10. ASSUME NEW s \in TaskSessions, OpenSession(s)
      PROVE  TaskTypeOK'
  BY <1>10 DEF OpenSession, Closed, SessionStates, Files, LaunchPlaces, InProgress, QueryPlaces, Outcomes
<1>11. ASSUME NEW s \in TaskSessions, AskLaunch(s)
      PROVE  TaskTypeOK'
  BY <1>11 DEF AskLaunch, SessionStates, Files, LaunchPlaces, InProgress, QueryPlaces, Outcomes
<1>12. ASSUME NEW s \in TaskSessions, NEW op \in {"reconcile", "cancel", "collect"}, AskOutcome(s, op)
      PROVE  TaskTypeOK'
  BY <1>12, AskTyped DEF AskOutcome
<1>13. ASSUME NEW s \in TaskSessions, AnswerLaunch(s)
      PROVE  TaskTypeOK'
  BY <1>13 DEF AnswerLaunch, SessionStates, Files, LaunchPlaces, InProgress, QueryPlaces, Outcomes
<1>14. ASSUME NEW s \in TaskSessions, AnswerOutcome(s)
      PROVE  TaskTypeOK'
  <2>1. session' \in [TaskSessions -> SessionStates]
    BY <1>14, AnswerTyped
  <2>2. session[s].found \in Outcomes \cup {"none"}
    BY DEF SessionStates
  <2> QED
    BY <1>14, <2>1, <2>2 DEF AnswerOutcome
<1>15. ASSUME NEW s \in TaskSessions, Close(s)
      PROVE  TaskTypeOK'
  BY <1>15, CloseTyped DEF Close, SessionStates
<1>16. ASSUME NEW s \in TaskSessions, Forget(s)
      PROVE  TaskTypeOK'
  BY <1>16 DEF Forget, Closed, SessionStates, Files, LaunchPlaces, InProgress, QueryPlaces, Outcomes
<1>17. CASE NativeEnds
  BY ZenonT(60), <1>17 DEF NativeEnds, Prints, Outcomes
<1>18. CASE DaemonDies
  BY SMTT(30), <1>18, MaxDaemonDeathsAssumption DEF DaemonDies, Closed, SessionStates, LaunchPlaces, QueryPlaces
<1> QED
  BY <1>1, <1>2, <1>3, <1>4, <1>5, <1>6, <1>7, <1>8, <1>9,
     <1>10, <1>11, <1>12, <1>13, <1>14, <1>15, <1>16, <1>17, <1>18
  DEF TaskNext, SessionStep, Launches, PiTask, OMPTask, ClaudeTask, CodexTask, WorkerCalls,
         PiWorker, OMPWorker, ClaudeWorker, CodexWorker

\* Types of NativeTask: taskVars holds what the definitions say at every moment.
THEOREM TypeCorrect == TaskSpec => []TaskTypeOK
<1>1. TaskInit => TaskTypeOK
  BY MaxDaemonDeathsAssumption
  DEF TaskInit, TaskTypeOK, Closed, SessionStates, LaunchPlaces, QueryPlaces
<1>2. TaskTypeOK /\ [TaskNext]_taskVars => TaskTypeOK'
  BY TypeNext DEF taskVars, TaskTypeOK
<1> QED
  BY <1>1, <1>2, PTL DEF TaskSpec
-----------------------------------------------------------------------------
(* The inductive invariant: the marker has one maker, which alone drives   *)
(* the process and the publications, and what is answered is on record.    *)

\* The sessions that have made the marker, or spawned the process and not yet settled.
Handing == {"marking", "starting"}
Driving == Handing \cup {"running", "output", "output-made", "evidence", "evidence-made", "saving", "terminal-made"}

\* Whoever makes the marker is the only one to go on from it.
OneDriver ==
  \A s, t \in TaskSessions : session[s].launch \in Driving /\ session[t].launch \in Driving => s = t

\* Before the marker there is no driver, no process and no other file of the attempt;
\* between the marker and the process there is one driver and nothing else.
MarkerComesFirst ==
  /\ spool["marker"] = "absent" => spawned = 0 /\ \A s \in TaskSessions : session[s].launch \notin Driving
  /\ \A s \in TaskSessions : session[s].launch \in Handing => spawned = 0
  /\ \A s \in TaskSessions : session[s].launch \in Driving \ Handing => spawned = 1
  /\ native.state = "ended" => native.printed # "none"
  /\ spawned = 0 => native.state = "none" /\ \A f \in {"output", "evidence", "terminal"} : spool[f] = "absent"

\* What the driver has read and published so far, and what of it is on record.
DriverPublishes ==
  \A s \in TaskSessions :
     LET at == session[s].launch  outcome == session[s].outcome IN
     /\ at \in {"output", "output-made", "evidence", "evidence-made", "saving", "terminal-made"}
          => native.state = "ended" /\ native.printed = outcome /\ outcome \in Outcomes
     /\ at \in {"evidence", "evidence-made", "saving", "terminal-made"} /\ outcome = "succeeded" => spool["output"] = "whole"
     /\ at \in {"saving", "terminal-made"} => spool["evidence"] = "whole"
     /\ at \in Driving \ {"terminal-made"} => spool["terminal"] = "absent"
     /\ at = "terminal-made" => spool["terminal"] = "torn" /\ record = outcome

\* A whole record is of what was printed, and names publications that are whole.
RecordIsBacked ==
  spool["terminal"] = "whole" =>
     /\ native.state = "ended" /\ native.printed = record /\ record \in Outcomes
     /\ Published(record)

\* What is about to be answered, or was, is on record.
AnswersAreRecorded ==
  /\ \A s \in TaskSessions :
       /\ session[s].launch = "done" => spool["terminal"] = "whole" /\ record = session[s].outcome
       /\ session[s].found # "none" => spool["terminal"] = "whole" /\ record = session[s].found
  /\ \A outcome \in told : spool["terminal"] = "whole" /\ record = outcome

TaskInv == NativeRunsOnce /\ OneDriver /\ MarkerComesFirst /\ DriverPublishes /\ RecordIsBacked /\ AnswersAreRecorded

\* A session that loads the record finds what is on record.
LEMMA LookFinds ==
  ASSUME TaskTypeOK, NEW s \in TaskSessions, Look(s)
  PROVE  /\ \A t \in TaskSessions :
              session'[t].launch = session[t].launch /\ session'[t].outcome = session[t].outcome
         /\ \A t \in TaskSessions :
              \/ session'[t].found = session[t].found
              \/ spool["terminal"] = "whole" /\ record = session'[t].found
<1> DEFINE old == session[s]
           read == ReadTerminal(old.query)
<1>0. old \in SessionStates /\ session \in [TaskSessions -> SessionStates]
  BY DEF TaskTypeOK
<1>1. CASE old.query = "marker"
  BY <1>0, <1>1 DEF Look, SessionStates
<1>2. CASE old.query # "marker"
  <2>1. read \notin {"nothing", "failed"} => spool["terminal"] = "whole" /\ record = read
    BY DEF ReadTerminal, TaskTypeOK, Files
  <2> HIDE DEF read
  <2>2. session' = [session EXCEPT ![s] =
                      IF read \in {"nothing", "failed"} THEN [old EXCEPT !.query = "failed"]
                      ELSE [old EXCEPT !.query = "done", !.found = read]]
    BY <1>2 DEF Look, read
  <2>3. CASE read \in {"nothing", "failed"}
    BY <1>0, <2>2, <2>3 DEF SessionStates
  <2>4. CASE read \notin {"nothing", "failed"}
    BY SMTT(30), <1>0, <2>1, <2>2, <2>4 DEF SessionStates
  <2> QED
    BY <2>3, <2>4
<1> QED
  BY <1>1, <1>2

LEMMA InvNext ==
  ASSUME TaskTypeOK, TaskInv, TaskNext
  PROVE  TaskInv'
<1> USE DEF TaskInv, NativeRunsOnce, OneDriver, MarkerComesFirst, DriverPublishes, RecordIsBacked, AnswersAreRecorded,
            Published, Driving, Handing
<1>1. ASSUME NEW s \in TaskSessions, LookBeforeLaunch(s)
      PROVE  TaskInv'
  BY <1>1 DEF LookBeforeLaunch, ReadMarker, ReadTerminal, TaskTypeOK, SessionStates, Files
<1>2. ASSUME NEW s \in TaskSessions, Configure(s)
      PROVE  TaskInv'
  BY <1>2 DEF Configure, TaskTypeOK, SessionStates, Files
<1>3. ASSUME NEW s \in TaskSessions, Begin(s)
      PROVE  TaskInv'
  BY SMTT(30), <1>3 DEF Begin, Makes, Fills, TaskTypeOK, SessionStates, Files
<1>4. ASSUME NEW s \in TaskSessions, Spawn(s)
      PROVE  TaskInv'
  <2>1. spawned = 0 /\ spawned' \in {0, 1}
    BY <1>4 DEF Spawn
  <2>2. NativeRunsOnce'
    BY <2>1
  <2>3. OneDriver' /\ MarkerComesFirst'
    BY <1>4 DEF Spawn, TaskTypeOK, SessionStates, Files
  <2>4. DriverPublishes'
    BY <1>4 DEF Spawn, TaskTypeOK, SessionStates, Files
  <2>5. RecordIsBacked' /\ AnswersAreRecorded'
    BY <1>4 DEF Spawn, TaskTypeOK, SessionStates, Files
  <2> QED
    BY <2>2, <2>3, <2>4, <2>5
<1>5. ASSUME NEW s \in TaskSessions, ObserveOutcome(s)
      PROVE  TaskInv'
  BY <1>5 DEF ObserveOutcome, TaskTypeOK, SessionStates, Files
<1>6. ASSUME NEW s \in TaskSessions, PublishOutcome(s)
      PROVE  TaskInv'
  BY <1>6 DEF PublishOutcome, Makes, Fills, TaskTypeOK, SessionStates, Files
<1>7. ASSUME NEW s \in TaskSessions, Save(s)
      PROVE  TaskInv'
  BY <1>7 DEF Save, Makes, Fills, TaskTypeOK, SessionStates, Files
<1>8. ASSUME NEW s \in TaskSessions, FollowLaunch(s)
      PROVE  TaskInv'
  BY <1>8 DEF FollowLaunch, Settled, TaskTypeOK, SessionStates, Files
<1>9. ASSUME NEW s \in TaskSessions, Look(s)
      PROVE  TaskInv'
  <2>1. UNCHANGED <<spool, record, native, spawned, told>>
    BY <1>9 DEF Look
  <2>2. NativeRunsOnce' /\ OneDriver' /\ MarkerComesFirst' /\ DriverPublishes' /\ RecordIsBacked'
    BY <1>9, <2>1, LookFinds
  <2>3. AnswersAreRecorded'
    BY <1>9, <2>1, LookFinds
  <2> QED
    BY <2>2, <2>3
<1>10. ASSUME NEW s \in TaskSessions, OpenSession(s)
      PROVE  TaskInv'
  BY <1>10 DEF OpenSession, Closed, TaskTypeOK, SessionStates, Files
<1>11. ASSUME NEW s \in TaskSessions, AskLaunch(s)
      PROVE  TaskInv'
  BY <1>11 DEF AskLaunch, TaskTypeOK, SessionStates, Files
<1>12. ASSUME NEW s \in TaskSessions, NEW op \in {"reconcile", "cancel", "collect"}, AskOutcome(s, op)
      PROVE  TaskInv'
  BY <1>12 DEF AskOutcome, TaskTypeOK, SessionStates, Files
<1>13. ASSUME NEW s \in TaskSessions, AnswerLaunch(s)
      PROVE  TaskInv'
  BY <1>13 DEF AnswerLaunch, TaskTypeOK, SessionStates, Files
<1>14. ASSUME NEW s \in TaskSessions, AnswerOutcome(s)
      PROVE  TaskInv'
  BY <1>14 DEF AnswerOutcome, TaskTypeOK, SessionStates, Files
<1>15. ASSUME NEW s \in TaskSessions, Close(s)
      PROVE  TaskInv'
  BY <1>15 DEF Close, TaskTypeOK, SessionStates, Files
<1>16. ASSUME NEW s \in TaskSessions, Forget(s)
      PROVE  TaskInv'
  BY <1>16 DEF Forget, Closed, TaskTypeOK, SessionStates, Files
<1>17. CASE NativeEnds
  BY <1>17 DEF NativeEnds, Prints, TaskTypeOK
<1>18. CASE DaemonDies
  BY <1>18 DEF DaemonDies, Closed, TaskTypeOK
<1> QED
  BY <1>1, <1>2, <1>3, <1>4, <1>5, <1>6, <1>7, <1>8, <1>9,
     <1>10, <1>11, <1>12, <1>13, <1>14, <1>15, <1>16, <1>17, <1>18
  DEF TaskNext, SessionStep, Launches, PiTask, OMPTask, ClaudeTask, CodexTask, WorkerCalls,
         PiWorker, OMPWorker, ClaudeWorker, CodexWorker

\* TaskTypeOK and TaskInv together are inductive.
LEMMA TaskInvariant == TaskSpec => [](TaskTypeOK /\ TaskInv)
<1>1. TaskInit => TaskTypeOK /\ TaskInv
  <2>1. TaskInit => TaskTypeOK
    BY MaxDaemonDeathsAssumption
    DEF TaskInit, TaskTypeOK, Closed, SessionStates, LaunchPlaces, QueryPlaces
  <2>2. TaskInit => TaskInv
    BY DEF TaskInit, Closed, Files, TaskInv, NativeRunsOnce, OneDriver, MarkerComesFirst, DriverPublishes,
           RecordIsBacked, AnswersAreRecorded, Driving, Handing
  <2> QED
    BY <2>1, <2>2
<1>2. TaskTypeOK /\ TaskInv /\ [TaskNext]_taskVars => (TaskTypeOK /\ TaskInv)'
  <2>1. CASE TaskNext
    BY <2>1, TypeNext, InvNext
  <2>2. CASE UNCHANGED taskVars
    BY <2>2 DEF taskVars, TaskTypeOK, TaskInv, NativeRunsOnce, OneDriver, MarkerComesFirst,
                DriverPublishes, RecordIsBacked, AnswersAreRecorded, Published
  <2> QED
    BY <2>1, <2>2
<1> QED
  BY <1>1, <1>2, PTL DEF TaskSpec

\* The native process of an attempt is spawned at most once, whoever asks for its launch
\* and however often the daemon dies (begin of the spool, which runs before every spawn).
THEOREM SpawnedOnce == TaskSpec => []NativeRunsOnce
BY TaskInvariant, PTL DEF TaskInv

\* An outcome that a session answered with is what the process printed and is on record
\* with its publications (save and load of the spool).
THEOREM AnswersStay == TaskSpec => []OutcomeIsOnRecord
<1>1. TaskTypeOK /\ TaskInv => OutcomeIsOnRecord
  BY DEF TaskInv, RecordIsBacked, AnswersAreRecorded, OutcomeIsOnRecord
<1> QED
  BY <1>1, TaskInvariant, PTL
=============================================================================
