------------------------- MODULE TaskExecutionProofs -------------------------
(***************************************************************************)
(* Proofs about TaskExecution: whatever the drivers, the clients and the   *)
(* crashes do, one worker at most runs in the workspace, the run accounts  *)
(* for it, and what was resolved stays as it was resolved.                 *)
(*                                                                         *)
(* The inductive invariant ties what a driver is about to do to what the   *)
(* run and the spool hold: it is what the sections between two awaits may  *)
(* rely on although other drivers, cancels and receipts come in between.   *)
(***************************************************************************)
EXTENDS TaskExecution, TLAPS

(* The places at which a driver is in the middle of a section, and those   *)
(* at which it has a session, from the launch intent on.                   *)
Sections == {"sweeping", "preparing", "entering", "resolving", "answering", "failing"}
InSession ==
  {"opening", "launching", "spawning", "awaiting", "recording", "reconciling", "collecting",
   "resolving", "failing", "closing"}
Launched == {"spawning", "awaiting"}

HandedOver(t) == attempt[t] \notin {"none", "planned"}

(* A driver in the middle of a section holds the loop.                     *)
LoopIsHeld == \A d \in Drivers : driver[d].at \in Sections => loop = d

(* What a driver at a place may rely on of the task it works on.           *)
Fits(place, t) ==
  /\ place \in InSession => t \in Tasks /\ HandedOver(t) /\ (Live(t) \/ native[t] = "ended")
  /\ place = "spawning" => spool[t] = "handed" /\ native[t] = "none"
  /\ place = "awaiting" => spool[t] = "handed" /\ native[t] # "none"
  /\ place \in {"recording", "collecting"} => spool[t] \in Outcomes
  /\ place = "preparing" => t \in Tasks /\ lifecycle[t] = "active"

DriversFit == \A d \in Drivers : Fits(driver[d].at, driver[d].task)

(* One driver at most is between the handoff of a task and its end.        *)
OneHandsOff ==
  \A d, e \in Drivers :
    /\ driver[d].at \in Launched /\ driver[e].at \in Launched
    /\ driver[d].task = driver[e].task
    => d = e

(* What run and spool hold of a task: the host acts on what was handed     *)
(* over; an attempt that ends without a receipt was cancelled before its   *)
(* launch; and the task is resolved as its attempt ended.                  *)
TaskFits(t) ==
  /\ spool[t] = "none" => native[t] = "none"
  /\ spool[t] \in Outcomes => native[t] = "ended"
  /\ spool[t] # "none" => HandedOver(t)
  /\ native[t] = "running" => Live(t)
  /\ Terminal(attempt[t]) /\ receipt[t] = NoReceipt => native[t] = "none"
  /\ receipt[t] # NoReceipt => attempt[t] = receipt[t][2]
  /\ Terminal(lifecycle[t]) =>
       \/ attempt[t] = "none" /\ lifecycle[t] = "cancelled"
       \/ /\ Terminal(attempt[t])
          /\ lifecycle[t] \in {attempt[t], "cancelled"}
          /\ attempt[t] = "succeeded" => lifecycle[t] = "succeeded"

TasksFit == \A t \in Tasks : TaskFits(t)

OneLive == \A t, u \in Tasks : Live(t) /\ Live(u) => t = u

Kept == LoopIsHeld /\ DriversFit /\ OneHandsOff /\ OneLive /\ TasksFit

ExecutionInv == TypeOK /\ Kept

(* What TerminalIsFinal says of a step and a task.                         *)
FinalAt(t) ==
  /\ Terminal(attempt[t]) => attempt'[t] = attempt[t]
  /\ Terminal(lifecycle[t]) => lifecycle'[t] = lifecycle[t]
  /\ receipt[t] # NoReceipt => receipt'[t] = receipt[t]

Final == \A t \in Tasks : FinalAt(t)

-------------------------------------------------------------------------------
(* The moves of a driver.                                                  *)

(* Driver d comes to a place, for a task, and no other driver moves.       *)
Turn(d, place, t) ==
  /\ driver' \in [Drivers -> DriverStates]
  /\ driver'[d].at = place /\ driver'[d].task = t
  /\ \A e \in Drivers \ {d} : driver'[e] = driver[e]

(* A driver moves to a record of its type.                                 *)
LEMMA MovesTurn ==
  ASSUME TypeOK, NEW d \in Drivers, NEW r \in DriverStates, Moves(d, r)
  PROVE  Turn(d, r.at, r.task)
BY DEF TypeOK, Moves, Turn

(* A driver changes its place only.                                        *)
LEMMA GoesTurn ==
  ASSUME TypeOK, NEW d \in Drivers, NEW place \in Places, Goes(d, place)
  PROVE  Turn(d, place, driver[d].task)
<1> DEFINE r == [driver[d] EXCEPT !.at = place]
<1>1. driver[d] \in DriverStates
  BY DEF TypeOK
<1>2. r \in DriverStates /\ r.at = place /\ r.task = driver[d].task
  BY <1>1 DEF DriverStates
<1>3. Moves(d, r)
  BY DEF Goes
<1> HIDE DEF r
<1> QED
  BY <1>2, <1>3, MovesTurn

(* The record of a driver that is at rest, or starts.                      *)
LEMMA IdleFits ==
  ASSUME NEW place \in Places, NEW t \in Tasks \cup {NoTask},
         NEW w \in Workflows \cup {NoWorkflow}
  PROVE  /\ Idle \in DriverStates /\ Idle.at = "idle" /\ Idle.task = NoTask
         /\ LET r == [Idle EXCEPT !.at = place]
            IN  r \in DriverStates /\ r.at = place /\ r.task = NoTask
         /\ LET r == [Idle EXCEPT !.at = place, !.workflow = w]
            IN  r \in DriverStates /\ r.at = place /\ r.task = NoTask
         /\ LET r == [Idle EXCEPT !.at = place, !.task = t]
            IN  r \in DriverStates /\ r.at = place /\ r.task = t
         /\ LET r == [Idle EXCEPT !.at = place, !.task = t, !.workflow = w]
            IN  r \in DriverStates /\ r.at = place /\ r.task = t
<1>1. Idle \in DriverStates /\ Idle.at = "idle" /\ Idle.task = NoTask
  BY DEF Idle, DriverStates, Places
<1>2. LET r == [Idle EXCEPT !.at = place]
      IN  r \in DriverStates /\ r.at = place /\ r.task = NoTask
  BY <1>1 DEF DriverStates
<1>3. LET r == [Idle EXCEPT !.at = place, !.workflow = w]
      IN  r \in DriverStates /\ r.at = place /\ r.task = NoTask
  BY <1>1 DEF DriverStates
<1>4. LET r == [Idle EXCEPT !.at = place, !.task = t]
      IN  r \in DriverStates /\ r.at = place /\ r.task = t
  BY <1>1 DEF DriverStates
<1>5. LET r == [Idle EXCEPT !.at = place, !.task = t, !.workflow = w]
      IN  r \in DriverStates /\ r.at = place /\ r.task = t
  BY <1>1 DEF DriverStates
<1> QED
  BY <1>1, <1>2, <1>3, <1>4, <1>5

(* A driver leaves its request, or its workflow.                           *)
LEMMA LeaveTurn ==
  ASSUME TypeOK, NEW d \in Drivers, Moves(d, Leave(d))
  PROVE  \E place \in {"round", "idle"} : Turn(d, place, NoTask)
<1>0. NoTask \in Tasks \cup {NoTask} /\ NoWorkflow \in Workflows \cup {NoWorkflow}
  OBVIOUS
<1>1. Leave(d) \in DriverStates /\ Leave(d).task = NoTask /\ Leave(d).at \in {"round", "idle"}
  <2>1. "round" \in Places
    BY DEF Places
  <2>2. CASE d = Pump
    <3>1. Leave(d) = [Idle EXCEPT !.at = "round"]
      BY <2>2 DEF Leave
    <3>2. Idle \in DriverStates /\ Idle.task = NoTask
      BY <1>0, <2>1, IdleFits
    <3> QED
      BY <2>1, <3>1, <3>2 DEF DriverStates
  <2>3. CASE d # Pump
    <3>1. Leave(d) = Idle
      BY <2>3 DEF Leave
    <3> QED
      BY <1>0, <2>1, <3>1, IdleFits
  <2> QED
    BY <2>2, <2>3
<1>2. Turn(d, Leave(d).at, Leave(d).task)
  BY <1>1, MovesTurn
<1> QED
  BY <1>1, <1>2

(* After a move the loop is held as it should.                             *)
LEMMA LoopStays ==
  ASSUME LoopIsHeld, NEW d \in Drivers, NEW place, NEW t, Turn(d, place, t),
         loop = NoDriver \/ loop = d, place \in Sections => loop' = d
  PROVE  LoopIsHeld'
<1>1. \A e \in Drivers \ {d} : driver'[e].at \notin Sections
  BY NoneAssumption DEF LoopIsHeld, Turn, Drivers
<1> QED
  BY <1>1 DEF LoopIsHeld, Turn

(* A driver that is not between the handoff and the end is no second one.  *)
LEMMA HandOffsStay ==
  ASSUME OneHandsOff, NEW d \in Drivers, NEW place, NEW t, Turn(d, place, t),
         place \in Launched => driver[d].at \in Launched /\ t = driver[d].task
  PROVE  OneHandsOff'
BY DEF OneHandsOff, Turn

(* A move that leaves run and host as they are.                            *)
QuietTurn(d) ==
  /\ UNCHANGED <<lifecycle, attempt, receipt, spool, native>>
  /\ loop = NoDriver \/ loop = d
  /\ \E place \in Places, t \in Tasks \cup {NoTask} :
       /\ Turn(d, place, t)
       /\ Fits(place, t)
       /\ place \in Sections => loop' = d
       /\ place \in Launched => driver[d].at \in Launched /\ t = driver[d].task

(* Such a move keeps the invariant.                                        *)
LEMMA QuietTurnKeeps ==
  ASSUME ExecutionInv, NEW d \in Drivers, QuietTurn(d)
  PROVE  Kept' /\ Final
<1>1. PICK place \in Places, t \in Tasks \cup {NoTask} :
       /\ Turn(d, place, t)
       /\ Fits(place, t)
       /\ place \in Sections => loop' = d
       /\ place \in Launched => driver[d].at \in Launched /\ t = driver[d].task
  BY DEF QuietTurn
<1>2. UNCHANGED <<lifecycle, attempt, receipt, spool, native>> /\ (loop = NoDriver \/ loop = d)
  BY DEF QuietTurn
<1>3. LoopIsHeld'
  BY <1>1, <1>2, LoopStays DEF ExecutionInv, Kept
<1>4. OneHandsOff'
  BY <1>1, HandOffsStay DEF ExecutionInv, Kept
<1>5. DriversFit'
  <2>1. Fits(place, t)' 
    BY <1>1, <1>2 DEF Fits, HandedOver, Live, Terminal
  <2> SUFFICES ASSUME NEW e \in Drivers
               PROVE  Fits(driver[e].at, driver[e].task)'
    BY DEF DriversFit
  <2>2. CASE e = d
    BY <2>1, <2>2, <1>1 DEF Turn
  <2>3. CASE e # d
    <3>1. driver'[e] = driver[e]
      BY <2>3, <1>1 DEF Turn
    <3>2. Fits(driver[e].at, driver[e].task)
      BY DEF ExecutionInv, Kept, DriversFit
    <3> QED
      BY <3>1, <3>2, <1>2 DEF Fits, HandedOver, Live, Terminal
  <2> QED
    BY <2>2, <2>3
<1>6. TasksFit' /\ OneLive'
  BY <1>2 DEF ExecutionInv, Kept, TasksFit, TaskFits, OneLive, HandedOver, Live, Terminal
<1>7. Final
  BY <1>2 DEF Final, FinalAt
<1> QED
  BY <1>3, <1>4, <1>5, <1>6, <1>7 DEF Kept

-------------------------------------------------------------------------------
(* The steps that leave run and host as they are.                          *)

(* The workflows keep their type when one is stopped.                      *)
LEMMA StoppedIsTyped ==
  ASSUME TypeOK, NEW w \in Workflows \cup {NoWorkflow}, NEW state \in WorkflowStates
  PROVE  Stopped(w, state) \in [Workflows -> [state : WorkflowStates,
                                              kind : {"none", "dispatch", "execute"},
                                              target : Tasks \cup {NoTask}]]
BY DEF TypeOK, Stopped, Running

(* The verdict of a turn is a state of workflows.                          *)
LEMMA VerdictIsTyped ==
  ASSUME NEW w \in Workflows
  PROVE  Verdict(w) \in WorkflowStates
BY DEF Verdict, WorkflowStates

(* What the type invariant says of one driver.                             *)
LEMMA DriverIsTyped ==
  ASSUME TypeOK, NEW d \in Drivers
  PROVE  /\ driver[d] \in DriverStates
         /\ driver[d].at \in Places /\ driver[d].task \in Tasks \cup {NoTask}
         /\ driver[d].workflow \in Workflows \cup {NoWorkflow}
BY DEF TypeOK, DriverStates

(* A driver holds the loop in its sections.                                *)
LEMMA InSectionHolds ==
  ASSUME ExecutionInv, NEW d \in Drivers, driver[d].at \in Sections
  PROVE  loop = d
BY DEF ExecutionInv, Kept, LoopIsHeld

(* What the invariant says of one driver.                                  *)
LEMMA FitsHere ==
  ASSUME ExecutionInv, NEW d \in Drivers
  PROVE  Fits(driver[d].at, driver[d].task)
BY DEF ExecutionInv, Kept, DriversFit

(* The steps of a session that only move its driver.                       *)
SessionMoves(d, t) ==
  \/ EnterHandedOff(d, t) \/ Open(d, t) \/ OpenFails(d, t) \/ LaunchFails(d, t)
  \/ Unobservable(d, t) \/ ReconcileFound(d, t) \/ ReconcileFails(d, t) \/ CollectFails(d, t)

(* The moves of a session keep the invariant.                              *)
LEMMA SessionMovesKeep ==
  ASSUME ExecutionInv, NEW d \in Drivers, NEW t \in Tasks, SessionMoves(d, t)
  PROVE  TypeOK' /\ Kept' /\ Final
<1> DEFINE places == {"opening", "launching", "reconciling", "collecting", "failing"}
<1>1. PICK place \in places :
        /\ Goes(d, place)
        /\ place = "failing" => loop' = d
        /\ place = "collecting" => spool[t] \in Outcomes
  BY DEF SessionMoves, EnterHandedOff, Open, OpenFails, LaunchFails, Unobservable,
         ReconcileFound, ReconcileFails, CollectFails, Holds, Found
<1>2. t = driver[d].task /\ driver[d].at \in InSession \cup {"entering"}
  BY DEF SessionMoves, EnterHandedOff, Open, OpenFails, LaunchFails, Unobservable,
         ReconcileFound, ReconcileFails, CollectFails, At, Entering, InSession
<1>3. driver[d].at = "entering" => Live(t)
  BY DEF SessionMoves, EnterHandedOff, Open, OpenFails, LaunchFails, Unobservable,
         ReconcileFound, ReconcileFails, CollectFails, At, Entering
<1>4. place \in Places /\ place \notin Launched /\ (place \in Sections => place = "failing")
  BY DEF Places, Launched, Sections
<1>5. Turn(d, place, t)
  BY <1>1, <1>2, <1>4, GoesTurn DEF ExecutionInv
<1>6. loop = NoDriver \/ loop = d
  <2>1. driver[d].at = "entering" => loop = d
    BY InSectionHolds DEF Sections
  <2> QED
    BY <2>1 DEF SessionMoves, EnterHandedOff, Open, OpenFails, LaunchFails, Unobservable,
         ReconcileFound, ReconcileFails, CollectFails, Free, Entering
<1>7. Fits(place, t)
  <2>1. Fits(driver[d].at, t)
    BY <1>2, FitsHere
  <2>2. HandedOver(t) /\ (Live(t) \/ native[t] = "ended")
    BY <2>1, <1>2, <1>3 DEF Fits, Live, HandedOver
  <2> QED
    BY <2>2, <1>1 DEF Fits
<1>8. UNCHANGED <<run, granted, host, requested, todo, stopping, crashes>>
  BY DEF SessionMoves, EnterHandedOff, Open, OpenFails, LaunchFails, Unobservable,
         ReconcileFound, ReconcileFails, CollectFails, memory
<1>9. QuietTurn(d)
  BY <1>1, <1>4, <1>5, <1>6, <1>7, <1>8 DEF QuietTurn, run, host
<1>10. sessions' \in [Tasks -> Drivers \cup {NoDriver}] /\ loop' \in Drivers \cup {NoDriver}
  BY <1>6 DEF ExecutionInv, TypeOK, SessionMoves, EnterHandedOff, Open, OpenFails, LaunchFails,
         Unobservable, ReconcileFound, ReconcileFails, CollectFails, Holds, Yields
<1>11. TypeOK'
  BY <1>5, <1>8, <1>10 DEF ExecutionInv, TypeOK, Turn, run, host
<1> QED
  BY <1>9, <1>11, QuietTurnKeeps

(* The session of a driver is closed, whatever came of it.                 *)
LEMMA ClosingTurn ==
  ASSUME TypeOK, NEW d \in Drivers, NEW t \in Tasks, NEW failed \in BOOLEAN, Closing(d, t, failed)
  PROVE  /\ Turn(d, "closing", driver[d].task)
         /\ loop' = NoDriver
         /\ sessions' \in [Tasks -> Drivers \cup {NoDriver}]
<1>1. PICK r : r = [driver[d] EXCEPT !.at = "closing", !.failed = failed]
  OBVIOUS
<1>2. r \in DriverStates /\ r.at = "closing" /\ r.task = driver[d].task
  BY <1>1, DriverIsTyped DEF DriverStates, Places
<1>3. Moves(d, r)
  BY <1>1 DEF Closing
<1>4. Turn(d, "closing", driver[d].task)
  BY <1>2, <1>3, MovesTurn
<1> QED
  BY <1>4 DEF Closing, TypeOK, Yields

(* So do the two ways to close a session without an append.                *)
LEMMA ClosingKeeps ==
  ASSUME ExecutionInv, NEW d \in Drivers, NEW t \in Tasks, CollectAgain(d, t) \/ FailOnly(d, t)
  PROVE  TypeOK' /\ Kept' /\ Final
<1>1. PICK failed \in BOOLEAN : Closing(d, t, failed)
  BY DEF CollectAgain, FailOnly
<1>2. t = driver[d].task /\ driver[d].at \in {"collecting", "failing"}
  BY DEF CollectAgain, FailOnly, At
<1>3. Turn(d, "closing", t) /\ loop' = NoDriver /\ sessions' \in [Tasks -> Drivers \cup {NoDriver}]
  BY <1>1, <1>2, ClosingTurn DEF ExecutionInv
<1>4. loop = NoDriver \/ loop = d
  BY InSectionHolds DEF CollectAgain, FailOnly, Free, At, Sections
<1>5. Fits("closing", t)
  BY <1>2, FitsHere DEF Fits, InSession
<1>6. UNCHANGED <<run, granted, host, requested, todo, stopping, crashes>>
  BY DEF CollectAgain, FailOnly
<1>7. QuietTurn(d)
  BY <1>3, <1>4, <1>5, <1>6 DEF QuietTurn, run, host, Sections, Launched, Places
<1>8. TypeOK'
  BY <1>3, <1>6 DEF ExecutionInv, TypeOK, Turn, run, host
<1> QED
  BY <1>7, <1>8, QuietTurnKeeps

(* The steps of a driver that goes back to rest, to a round or to driving. *)
Settles(d) ==
  \E place \in {"sweeping", "round", "idle", "driving"}, t \in Tasks \cup {NoTask} :
    /\ Turn(d, place, t)
    /\ place = "sweeping" => loop' = d

(* Such a step keeps the invariant: at rest a driver relies on nothing.    *)
LEMMA SettlesKeeps ==
  ASSUME ExecutionInv, NEW d \in Drivers, Settles(d), loop = NoDriver \/ loop = d,
         UNCHANGED <<lifecycle, attempt, receipt, host>>
  PROVE  Kept' /\ Final
<1>1. QuietTurn(d)
  BY DEF QuietTurn, Settles, Fits, Places, Sections, Launched, InSession, host
<1> QED
  BY <1>1, QuietTurnKeeps

(* The end of a request, or of the turn of a workflow, is such a step.     *)
LEMMA LeaveSettles ==
  ASSUME ExecutionInv, NEW d \in Drivers, Moves(d, Leave(d))
  PROVE  Settles(d) /\ driver' \in [Drivers -> DriverStates]
BY LeaveTurn DEF ExecutionInv, Settles, Turn

DrivingTurn(d, w) == Moves(d, [Idle EXCEPT !.at = "driving", !.workflow = w])

(* And so is the start of the next turn.                                   *)
LEMMA DrivingSettles ==
  ASSUME ExecutionInv, NEW d \in Drivers, NEW w \in Workflows \cup {NoWorkflow},
         DrivingTurn(d, w)
  PROVE  Settles(d) /\ driver' \in [Drivers -> DriverStates]
<1>1. PICK r : r = [Idle EXCEPT !.at = "driving", !.workflow = w]
  OBVIOUS
<1>2. Idle \in DriverStates /\ Idle.task = NoTask
  BY DEF Idle, DriverStates, Places
<1>3. r \in DriverStates /\ r.at = "driving" /\ r.task = NoTask
  BY <1>1, <1>2 DEF DriverStates, Places
<1>4. Turn(d, "driving", NoTask)
  BY <1>1, <1>3, MovesTurn DEF ExecutionInv, DrivingTurn
<1> QED
  BY <1>4 DEF Settles, Turn

(* The steps of the pump and of the requests that leave run and host.      *)
PumpSettles ==
  \/ PumpBegin \/ PumpList \/ PumpRest
  \/ \E w \in Workflows :
       \/ PumpTake(w) \/ DriveEnded(w) \/ DriveStop(w) \/ DriveWait(w)
       \/ \E t \in Tasks, state \in {"revoked", "stopped"} : DriveRefuse(w, t, state)

(* They keep the invariant.                                                *)
LEMMA PumpSettlesKeeps ==
  ASSUME ExecutionInv, PumpSettles
  PROVE  TypeOK' /\ Kept' /\ Final
<1> USE DEF ExecutionInv
<1>1. Pump \in Drivers
  BY DEF Drivers
<1>2. CASE PumpBegin
  <2>1. Turn(Pump, "sweeping", driver[Pump].task) /\ driver[Pump].task \in Tasks \cup {NoTask}
    BY <1>1, <1>2, GoesTurn, DriverIsTyped DEF PumpBegin, Places
  <2>2. Settles(Pump)
    BY <1>2, <2>1 DEF PumpBegin, Settles, Holds
  <2>3. TypeOK'
    BY <1>1, <1>2, <2>1 DEF TypeOK, PumpBegin, Turn, Holds, run, host
  <2> QED
    BY <1>1, <1>2, <2>2, <2>3, SettlesKeeps DEF PumpBegin, Free, run
<1>3. CASE PumpList
  <2>1. Turn(Pump, "round", driver[Pump].task) /\ driver[Pump].task \in Tasks \cup {NoTask}
    BY <1>1, <1>3, GoesTurn, DriverIsTyped DEF PumpList, Places
  <2>2. Settles(Pump)
    BY <1>3, <2>1 DEF Settles
  <2>3. TypeOK'
    BY <1>1, <1>3, <2>1 DEF TypeOK, PumpList, Turn, Yields, run, host
  <2>4. loop = Pump
    BY <1>1, <1>3, InSectionHolds DEF PumpList, Sections
  <2> QED
    BY <1>1, <1>3, <2>2, <2>3, <2>4, SettlesKeeps DEF PumpList, run
<1>4. CASE PumpRest
  <2>1. Turn(Pump, "idle", NoTask)
    <3>1. Idle \in DriverStates /\ Idle.at = "idle" /\ Idle.task = NoTask
      BY DEF Idle, DriverStates, Places
    <3>2. Moves(Pump, Idle)
      BY <1>4 DEF PumpRest
    <3> QED
      BY <1>1, <3>1, <3>2, MovesTurn
  <2>2. Settles(Pump)
    BY <2>1 DEF Settles
  <2>3. TypeOK'
    BY <1>1, <1>4, <2>1 DEF TypeOK, PumpRest, Turn, run, host
  <2> QED
    BY <1>1, <1>4, <2>2, <2>3, SettlesKeeps DEF PumpRest, Free, run
<1>5. ASSUME NEW w \in Workflows, PumpTake(w)
      PROVE  TypeOK' /\ Kept' /\ Final
  <2>1. Settles(Pump) /\ driver' \in [Drivers -> DriverStates]
    BY <1>1, <1>5, DrivingSettles DEF PumpTake, DrivingTurn
  <2>2. TypeOK'
    BY <1>1, <1>5, <2>1 DEF TypeOK, PumpTake, run, host
  <2> QED
    BY <1>1, <1>5, <2>1, <2>2, SettlesKeeps DEF PumpTake, Free, run
<1>6. ASSUME NEW w \in Workflows, DriveEnded(w) \/ DriveWait(w) \/ DriveStop(w)
      PROVE  TypeOK' /\ Kept' /\ Final
  <2>1. Settles(Pump) /\ driver' \in [Drivers -> DriverStates]
    BY <1>1, <1>6, LeaveSettles DEF DriveEnded, DriveWait, DriveStop
  <2>2. Stopped(w, Verdict(w)) \in [Workflows -> [state : WorkflowStates,
                                              kind : {"none", "dispatch", "execute"},
                                              target : Tasks \cup {NoTask}]]
    BY StoppedIsTyped, VerdictIsTyped
  <2>3. TypeOK'
    BY <1>1, <1>6, <2>1, <2>2 DEF TypeOK, DriveEnded, DriveWait, DriveStop, run, host
  <2> QED
    BY <1>1, <1>6, <2>1, <2>3, SettlesKeeps DEF DriveEnded, DriveWait, DriveStop, Driving, Free, run
<1>7. ASSUME NEW w \in Workflows, NEW t \in Tasks, NEW state \in {"revoked", "stopped"},
             DriveRefuse(w, t, state)
      PROVE  TypeOK' /\ Kept' /\ Final
  <2>1. Settles(Pump) /\ driver' \in [Drivers -> DriverStates]
    BY <1>1, <1>7, LeaveSettles DEF DriveRefuse
  <2>2. Stopped(w, state) \in [Workflows -> [state : WorkflowStates,
                                              kind : {"none", "dispatch", "execute"},
                                              target : Tasks \cup {NoTask}]]
    BY StoppedIsTyped DEF WorkflowStates
  <2>3. loop = Pump
    BY <1>1, <1>7, InSectionHolds DEF DriveRefuse, Sections
  <2>4. TypeOK'
    BY <1>1, <1>7, <2>1, <2>2 DEF TypeOK, DriveRefuse, Yields, host
  <2> QED
    BY <1>1, <1>7, <2>1, <2>3, <2>4, SettlesKeeps DEF DriveRefuse
<1> QED
  BY <1>2, <1>3, <1>4, <1>5, <1>6, <1>7 DEF PumpSettles

(* A handoff that is refused, and the end of a session.                    *)
LEMMA EnterRefusedKeeps ==
  ASSUME ExecutionInv, NEW d \in Drivers, NEW t \in Tasks, EnterRefused(d, t)
  PROVE  TypeOK' /\ Kept' /\ Final
<1>1. Settles(d) /\ driver' \in [Drivers -> DriverStates]
  BY LeaveSettles DEF EnterRefused
<1>2. Stopped(driver[d].workflow, "stopped") \in
        [Workflows -> [state : WorkflowStates, kind : {"none", "dispatch", "execute"},
                       target : Tasks \cup {NoTask}]]
  BY StoppedIsTyped, DriverIsTyped DEF WorkflowStates, ExecutionInv
<1>3. loop = d
  BY InSectionHolds DEF EnterRefused, Entering, Sections
<1>4. TypeOK'
  BY <1>1, <1>2 DEF ExecutionInv, TypeOK, EnterRefused, Yields, host
<1> QED
  BY <1>1, <1>3, <1>4, SettlesKeeps DEF EnterRefused

(* The end of a session and the wake-up it requests (Close).               *)
LEMMA CloseKeeps ==
  ASSUME ExecutionInv, NEW d \in Drivers, NEW t \in Tasks, Close(d, t)
  PROVE  TypeOK' /\ Kept' /\ Final
<1>1. Settles(d) /\ driver' \in [Drivers -> DriverStates]
  <2>1. DrivingTurn(d, driver[d].workflow) \/ Moves(d, Leave(d))
    BY DEF Close, DrivingTurn
  <2> QED
    BY <2>1, DrivingSettles, LeaveSettles, DriverIsTyped DEF ExecutionInv
<1>2. Stopped(driver[d].workflow, "stopped") \in
        [Workflows -> [state : WorkflowStates, kind : {"none", "dispatch", "execute"},
                       target : Tasks \cup {NoTask}]]
  BY StoppedIsTyped, DriverIsTyped DEF WorkflowStates, ExecutionInv
<1>3. TypeOK'
  BY <1>1, <1>2 DEF ExecutionInv, TypeOK, Close, host
<1> QED
  BY <1>1, <1>3, SettlesKeeps DEF Close, Free

(* A request takes up an attempt.                                          *)
LEMMA DispatchKeeps ==
  ASSUME ExecutionInv, NEW d \in Drivers, NEW t \in Tasks, NEW action, Dispatch(d, t, action)
  PROVE  TypeOK' /\ Kept' /\ Final
<1>1. PICK r : r = [Idle EXCEPT !.at = "entering", !.task = t, !.workflow = owner[t]]
  OBVIOUS
<1>2. Idle \in DriverStates
  BY DEF Idle, DriverStates, Places
<1>3. owner[t] \in Workflows \cup {NoWorkflow}
  BY DEF ExecutionInv, TypeOK
<1>4. r \in DriverStates /\ r.at = "entering" /\ r.task = t
  BY <1>1, <1>2, <1>3 DEF DriverStates, Places
<1>5. Turn(d, "entering", t)
  BY <1>1, <1>4, MovesTurn DEF ExecutionInv, Dispatch
<1>6. QuietTurn(d)
  BY <1>5 DEF QuietTurn, Dispatch, Free, Holds, Fits, InSession, Sections, Launched, Places, run, host
<1>7. TypeOK'
  BY <1>5 DEF ExecutionInv, TypeOK, Turn, Dispatch, Holds, run, host
<1> QED
  BY <1>6, <1>7, QuietTurnKeeps

-------------------------------------------------------------------------------
(* The steps that move no driver.                                          *)

(* Every driver stays where it is, for the task it had.                    *)
Stays == \A e \in Drivers : driver'[e].at = driver[e].at /\ driver'[e].task = driver[e].task

(* Such a step keeps the invariant when it leaves loop, run and host.      *)
LEMMA StaysKeeps ==
  ASSUME ExecutionInv, Stays, loop' = loop, UNCHANGED <<lifecycle, attempt, receipt, host>>
  PROVE  Kept' /\ Final
<1>1. LoopIsHeld' /\ OneHandsOff'
  BY DEF ExecutionInv, Kept, LoopIsHeld, OneHandsOff, Stays
<1>2. DriversFit'
  <2> SUFFICES ASSUME NEW e \in Drivers
               PROVE  Fits(driver[e].at, driver[e].task)'
    BY DEF DriversFit
  <2> QED
    BY FitsHere DEF Stays, Fits, HandedOver, Live, Terminal, host
<1>3. TasksFit' /\ OneLive'
  BY DEF ExecutionInv, Kept, TasksFit, TaskFits, OneLive, HandedOver, Live, Terminal, host
<1> QED
  BY <1>1, <1>2, <1>3 DEF Kept, Final, FinalAt

(* The revocation of the grant.                                            *)
LEMMA RevokeKeeps ==
  ASSUME ExecutionInv, Revoke
  PROVE  TypeOK' /\ Kept' /\ Final
<1>1. TypeOK'
  BY DEF ExecutionInv, TypeOK, Revoke, run, host, memory
<1> QED
  BY <1>1, StaysKeeps DEF Revoke, run, memory, Stays

(* A driver is told that its session is closed.                            *)
LEMMA AbortStays ==
  ASSUME TypeOK, NEW closed \in SUBSET Drivers,
         driver' = [d \in Drivers |->
                      IF d \in closed THEN [driver[d] EXCEPT !.aborted = TRUE] ELSE driver[d]]
  PROVE  driver' \in [Drivers -> DriverStates] /\ Stays
<1>1. ASSUME NEW d \in Drivers
      PROVE  LET r == [driver[d] EXCEPT !.aborted = TRUE]
             IN  r \in DriverStates /\ r.at = driver[d].at /\ r.task = driver[d].task
  BY DriverIsTyped DEF DriverStates
<1> QED
  BY <1>1, DriverIsTyped DEF Stays

(* The daemon begins to close.                                             *)
LEMMA ShutdownKeeps ==
  ASSUME ExecutionInv, Shutdown
  PROVE  TypeOK' /\ Kept' /\ Final
<1> DEFINE closed == {d \in Drivers : \E t \in Tasks : sessions[t] = d}
<1>1. driver' = [d \in Drivers |->
                      IF d \in closed THEN [driver[d] EXCEPT !.aborted = TRUE] ELSE driver[d]]
  BY DEF Shutdown
<1>2. driver' \in [Drivers -> DriverStates] /\ Stays
  BY <1>1, AbortStays DEF ExecutionInv
<1>3. TypeOK'
  BY <1>2, CrashAssumption DEF ExecutionInv, TypeOK, Shutdown, run, host
<1> QED
  BY <1>2, <1>3, StaysKeeps DEF Shutdown, run

(* A new process knows nothing of the sessions of the one before.          *)
LEMMA BootKeeps ==
  ASSUME ExecutionInv, Crash \/ Restart
  PROVE  TypeOK' /\ Kept' /\ Final
<1>1. Idle \in DriverStates /\ Idle.at = "idle"
  BY DEF Idle, DriverStates, Places
<1>2. Boot /\ UNCHANGED <<run, granted, host>> /\ crashes' \in 0..MaxCrashes
  BY CrashAssumption DEF Crash, Restart, ExecutionInv, TypeOK
<1>3. \A d \in Drivers : driver'[d] = Idle
  BY <1>2 DEF Boot
<1>4. driver' \in [Drivers -> DriverStates]
  BY <1>1, <1>2 DEF Boot
<1>5. TypeOK'
  BY <1>2, <1>4 DEF ExecutionInv, TypeOK, Boot, run, host
<1>6. LoopIsHeld' /\ OneHandsOff' /\ DriversFit'
  BY <1>1, <1>3 DEF LoopIsHeld, OneHandsOff, DriversFit, Fits, Sections, InSession, Launched
<1>7. TasksFit' /\ OneLive'
  BY <1>2 DEF ExecutionInv, Kept, TasksFit, TaskFits, OneLive, HandedOver, Live, Terminal, host,
         run
<1> QED
  BY <1>2, <1>5, <1>6, <1>7 DEF Kept, Final, FinalAt, run

-------------------------------------------------------------------------------
(* The steps that change what run and host hold of one task.               *)

Only(t) ==
  \A s \in Tasks \ {t} :
    /\ lifecycle'[s] = lifecycle[s] /\ attempt'[s] = attempt[s] /\ receipt'[s] = receipt[s]
    /\ spool'[s] = spool[s] /\ native'[s] = native[s]

(* The other tasks stay as they fit, and the one live attempt stays one.   *)
LEMMA OnlyKeeps ==
  ASSUME ExecutionInv, NEW t \in Tasks, Only(t), TaskFits(t)', FinalAt(t),
         Live(t)' => Live(t) \/ WorkspaceAvailable(t)
  PROVE  TasksFit' /\ OneLive' /\ Final
<1>1. TasksFit'
  <2> SUFFICES ASSUME NEW s \in Tasks \ {t}
               PROVE  TaskFits(s)'
    BY DEF TasksFit
  <2>1. TaskFits(s)
    BY DEF ExecutionInv, Kept, TasksFit
  <2> QED
    BY <2>1 DEF Only, TaskFits, HandedOver, Live, Terminal
<1>2. \A s \in Tasks \ {t} : Live(s)' <=> Live(s)
  BY DEF Only, Live, Terminal
<1>3. OneLive'
  BY <1>2 DEF ExecutionInv, Kept, OneLive, WorkspaceAvailable
<1>4. Final
  BY DEF Final, FinalAt, Only
<1> QED
  BY <1>1, <1>3, <1>4

(* The other drivers still may rely on what they relied on.                *)
OthersFit(d, t) ==
  \A e \in Drivers \ {d}, p \in Places :
    driver[e].at = p /\ driver[e].task = t /\ Fits(p, t) => Fits(p, t)'

(* The drivers fit after the move of one of them.                          *)
LEMMA OnlyFits ==
  ASSUME ExecutionInv, NEW t \in Tasks, Only(t), NEW d \in Drivers, NEW place, NEW u,
         Turn(d, place, u), Fits(place, u)', OthersFit(d, t)
  PROVE  DriversFit'
<1> SUFFICES ASSUME NEW e \in Drivers
             PROVE  Fits(driver[e].at, driver[e].task)'
  BY DEF DriversFit
<1>1. CASE e = d
  BY <1>1 DEF Turn
<1>2. CASE e # d
  <2>1. driver'[e] = driver[e] /\ driver[e].at \in Places
    BY <1>2, DriverIsTyped DEF Turn, ExecutionInv
  <2>2. Fits(driver[e].at, driver[e].task)
    BY FitsHere
  <2>3. CASE driver[e].task = t
    <3>1. PICK p \in Places : p = driver[e].at
      BY <2>1
    <3>2. Fits(p, t)'
      BY <1>2, <2>2, <2>3, <3>1 DEF OthersFit
    <3> QED
      BY <2>1, <2>3, <3>1, <3>2
  <2>4. CASE driver[e].task # t
    <3> DEFINE u1 == driver[e].task
    <3>1. CASE u1 \in Tasks
      BY <2>1, <2>2, <2>4, <3>1 DEF Fits, Only, HandedOver, Live, Terminal
    <3>2. CASE u1 \notin Tasks
      BY <2>1, <2>2, <3>2 DEF Fits, InSession
    <3> QED
      BY <3>1, <3>2
  <2> QED
    BY <2>3, <2>4
<1> QED
  BY <1>1, <1>2

(* What is known of a task, of its types and of what is kept.              *)
LEMMA TaskIsTyped ==
  ASSUME ExecutionInv, NEW t \in Tasks
  PROVE  /\ lifecycle[t] \in {"draft", "active"} \cup Outcomes
         /\ attempt[t] \in AttemptStates
         /\ receipt[t] \in Receipts \cup {NoReceipt}
         /\ spool[t] \in {"none", "handed"} \cup Outcomes
         /\ native[t] \in {"none", "running", "ended"}
         /\ TaskFits(t)
BY DEF ExecutionInv, TypeOK, Kept, TasksFit

(* No other driver is in a section while this one is, or while none is.    *)
LEMMA OthersOutside ==
  ASSUME ExecutionInv, NEW d \in Drivers, loop = NoDriver \/ loop = d, NEW e \in Drivers \ {d}
  PROVE  driver[e].at \notin Sections
BY NoneAssumption DEF ExecutionInv, Kept, LoopIsHeld

(* The candidate is activated: it was neither ended nor blocked.           *)
LEMMA ActivateKeeps ==
  ASSUME ExecutionInv, NEW w \in Workflows, NEW t \in Tasks, DriveActivate(w, t)
  PROVE  TypeOK' /\ Kept' /\ Final
<1> USE DEF ExecutionInv
<1>1. Pump \in Drivers /\ loop = NoDriver /\ loop' = Pump
  BY DEF Drivers, DriveActivate, Driving, Free, Holds
<1>2. PICK r : r = [driver[Pump] EXCEPT !.at = "preparing", !.task = t]
  OBVIOUS
<1>3. r \in DriverStates /\ r.at = "preparing" /\ r.task = t
  BY <1>1, <1>2, DriverIsTyped DEF DriverStates, Places
<1>4. Turn(Pump, "preparing", t)
  BY <1>1, <1>2, <1>3, MovesTurn DEF DriveActivate
<1>5. lifecycle[t] \in {"draft", "active"}
  BY TaskIsTyped DEF DriveActivate, Candidates, BlockedBySources, Outcomes
<1>6. lifecycle' \in [Tasks -> {"draft", "active"} \cup Outcomes] /\ lifecycle'[t] = "active"
  BY DEF DriveActivate, TypeOK
<1>7. UNCHANGED <<attempt, owner, receipt, reconciled, workflow, granted, host, sessions,
                 requested, todo, stopping, crashes>>
  BY DEF DriveActivate
<1>8. Only(t)
  BY <1>7 DEF DriveActivate, Only, TypeOK, host
<1>9. TaskFits(t)' /\ FinalAt(t) /\ (Live(t)' => Live(t))
  BY <1>5, <1>6, <1>7, TaskIsTyped DEF TaskFits, FinalAt, Live, HandedOver, Terminal, host, Outcomes
<1>10. OthersFit(Pump, t) /\ Fits("preparing", t)'
  BY <1>6, <1>7 DEF OthersFit, Fits, HandedOver, Live, Terminal, host, InSession
<1>11. LoopIsHeld' /\ OneHandsOff'
  BY <1>1, <1>4, LoopStays, HandOffsStay DEF Kept, Launched
<1>12. TypeOK'
  BY <1>1, <1>4, <1>6, <1>7 DEF TypeOK, Turn, host
<1>13. DriversFit' /\ TasksFit' /\ OneLive' /\ Final
  BY <1>1, <1>4, <1>8, <1>9, <1>10, OnlyKeeps, OnlyFits
<1> QED
  BY <1>11, <1>12, <1>13 DEF Kept

(* An attempt is prepared for the task the pump holds the loop for.        *)
LEMMA PrepareKeeps ==
  ASSUME ExecutionInv, NEW w \in Workflows, NEW t \in Tasks, DrivePrepare(w, t)
  PROVE  TypeOK' /\ Kept' /\ Final
<1> USE DEF ExecutionInv
<1>1. Pump \in Drivers
  BY DEF Drivers
<1>2. loop = Pump /\ lifecycle[t] = "active" /\ driver[Pump].task = t
  BY <1>1, InSectionHolds, FitsHere DEF DrivePrepare, Sections, Fits
<1>3. Turn(Pump, "entering", t)
  BY <1>1, <1>2, GoesTurn DEF DrivePrepare, Places
<1>4. UNCHANGED <<lifecycle, receipt, reconciled, workflow, granted, host, sessions, loop,
                 requested, todo, stopping, crashes>>
  BY DEF DrivePrepare
<1>5. /\ attempt' \in [Tasks -> AttemptStates]
      /\ owner' \in [Tasks -> Workflows \cup {NoWorkflow}]
      /\ attempt[t] # "none" => attempt'[t] = attempt[t]
      /\ attempt[t] = "none" => attempt'[t] = "planned"
      /\ \A s \in Tasks \ {t} : attempt'[s] = attempt[s]
  BY DEF DrivePrepare, TypeOK, AttemptStates
<1>6. Only(t)
  BY <1>4, <1>5 DEF Only, host
<1>7. receipt[t] # NoReceipt => attempt[t] # "none"
  BY TaskIsTyped DEF TaskFits, Receipts, Outcomes
<1>8. TaskFits(t)' /\ FinalAt(t) /\ (Live(t)' => Live(t))
  BY <1>2, <1>4, <1>5, <1>7, TaskIsTyped DEF TaskFits, FinalAt, Live, HandedOver, Terminal, host,
    Outcomes
<1>9. OthersFit(Pump, t) /\ Fits("entering", t)'
  BY <1>4, <1>5 DEF OthersFit, Fits, HandedOver, Live, Terminal, host, InSession, Outcomes
<1>10. LoopIsHeld' /\ OneHandsOff'
  BY <1>1, <1>2, <1>3, <1>4, LoopStays, HandOffsStay DEF Kept, Launched
<1>11. TypeOK'
  BY <1>3, <1>4, <1>5 DEF TypeOK, Turn, host
<1>12. DriversFit' /\ TasksFit' /\ OneLive' /\ Final
  BY <1>1, <1>3, <1>6, <1>8, <1>9, OnlyKeeps, OnlyFits
<1> QED
  BY <1>10, <1>11, <1>12 DEF Kept

(* The resolution of a task changes an active task whose attempt has ended. *)
ResolvedAt(t) ==
  /\ lifecycle' \in [Tasks -> {"draft", "active"} \cup Outcomes]
  /\ lifecycle'[t] # lifecycle[t] =>
       Terminal(attempt[t]) /\ lifecycle'[t] = attempt[t] /\ lifecycle[t] = "active"
  /\ \A s \in Tasks \ {t} : lifecycle'[s] = lifecycle[s]

(* The resolution of a task is one.                                        *)
LEMMA ResolutionResolves ==
  ASSUME TypeOK, NEW t \in Tasks, lifecycle' = Resolution(t)
  PROVE  ResolvedAt(t)
<1>1. CASE Unresolved(t)
  BY <1>1 DEF TypeOK, Resolution, ResolvedAt, Unresolved, Terminal
<1>2. CASE ~Unresolved(t)
  BY <1>2 DEF TypeOK, Resolution, ResolvedAt
<1> QED
  BY <1>1, <1>2

(* A driver enters an attempt that has ended already.                      *)
LEMMA EnterTerminalKeeps ==
  ASSUME ExecutionInv, NEW d \in Drivers, NEW t \in Tasks, EnterTerminal(d, t)
  PROVE  TypeOK' /\ Kept' /\ Final
<1> USE DEF ExecutionInv
<1>1. loop = d /\ loop' = NoDriver
  BY InSectionHolds DEF EnterTerminal, Entering, Sections, Yields
<1>2. \E place \in {"driving", "idle"} : Turn(d, place, NoTask)
  <2>1. PICK r : r = [driver[d] EXCEPT !.at = "driving", !.task = NoTask]
    OBVIOUS
  <2>2. r \in DriverStates /\ r.at = "driving" /\ r.task = NoTask
    BY <2>1, DriverIsTyped DEF DriverStates, Places
  <2>3. Idle \in DriverStates /\ Idle.at = "idle" /\ Idle.task = NoTask
    BY DEF Idle, DriverStates, Places
  <2>4. Moves(d, r) \/ Moves(d, Idle)
    BY <2>1 DEF EnterTerminal
  <2> QED
    BY <2>2, <2>3, <2>4, MovesTurn
<1>3. PICK place \in {"driving", "idle"} : Turn(d, place, NoTask)
  BY <1>2
<1>4. UNCHANGED <<attempt, owner, receipt, reconciled, workflow, granted, host, sessions,
                 requested, todo, stopping, crashes>>
  BY DEF EnterTerminal
<1>5. Terminal(attempt[t]) /\ ResolvedAt(t)
  BY ResolutionResolves DEF EnterTerminal, Resolution
<1>6. Only(t)
  BY <1>4, <1>5 DEF Only, ResolvedAt, host
<1>7. TaskFits(t)' /\ FinalAt(t) /\ (Live(t)' => Live(t))
  BY <1>4, <1>5, TaskIsTyped DEF ResolvedAt, TaskFits, FinalAt, Live, HandedOver, Terminal, host, Outcomes
<1>8. OthersFit(d, t)
  <2> SUFFICES ASSUME NEW e \in Drivers \ {d}, NEW p \in Places, driver[e].at = p, Fits(p, t)
               PROVE  Fits(p, t)'
    BY DEF OthersFit
  <2>1. p # "preparing"
    BY <1>1, OthersOutside DEF Sections
  <2> QED
    BY <1>4, <2>1 DEF Fits, HandedOver, Live, Terminal, host
<1>9. Fits(place, NoTask)'
  BY <1>3 DEF Fits, InSession
<1>10. LoopIsHeld' /\ OneHandsOff'
  BY <1>1, <1>3, LoopStays, HandOffsStay DEF Kept, Launched, Sections
<1>11. TypeOK'
  BY <1>1, <1>3, <1>4, <1>5 DEF ResolvedAt, TypeOK, Turn, host
<1>12. DriversFit' /\ TasksFit' /\ OneLive' /\ Final
  BY <1>3, <1>6, <1>7, <1>8, <1>9, OnlyKeeps, OnlyFits
<1> QED
  BY <1>10, <1>11, <1>12 DEF Kept

(* The launch intent is committed while no other attempt is live.          *)
LEMMA CommitIntentKeeps ==
  ASSUME ExecutionInv, NEW d \in Drivers, NEW t \in Tasks, CommitIntent(d, t)
  PROVE  TypeOK' /\ Kept' /\ Final
<1> USE DEF ExecutionInv
<1>1. loop = d /\ loop' = NoDriver
  BY InSectionHolds DEF CommitIntent, Entering, Sections, Yields
<1>2. PICK r : r = [driver[d] EXCEPT !.at = "opening", !.fresh = TRUE]
  OBVIOUS
<1>3. r \in DriverStates /\ r.at = "opening" /\ r.task = t
  BY <1>2, DriverIsTyped DEF DriverStates, Places, CommitIntent, Entering
<1>4. Turn(d, "opening", t)
  BY <1>2, <1>3, MovesTurn DEF CommitIntent
<1>5. UNCHANGED <<lifecycle, owner, receipt, reconciled, workflow, granted, host, sessions,
                 requested, todo, stopping, crashes>>
  BY DEF CommitIntent
<1>6. /\ attempt[t] = "planned" /\ WorkspaceAvailable(t)
      /\ attempt' \in [Tasks -> AttemptStates] /\ attempt'[t] = "launch_intent_committed"
      /\ \A s \in Tasks \ {t} : attempt'[s] = attempt[s]
  BY DEF CommitIntent, TypeOK, AttemptStates
<1>7. Only(t)
  BY <1>5, <1>6 DEF Only, host
<1>8. receipt[t] = NoReceipt /\ native[t] = "none" /\ ~Terminal(lifecycle[t])
  BY <1>6, TaskIsTyped DEF TaskFits, HandedOver, Terminal, Receipts, Outcomes
<1>9. TaskFits(t)' /\ FinalAt(t)
  BY <1>5, <1>6, <1>8, TaskIsTyped DEF TaskFits, FinalAt, Live, HandedOver, Terminal, host, Outcomes
<1>10. Fits("opening", t)'
  BY <1>6 DEF Fits, HandedOver, Live, Terminal, Outcomes
<1>11. OthersFit(d, t)
  BY <1>5, <1>6 DEF OthersFit, Fits, HandedOver, Live, Terminal, host, InSession, Outcomes
<1>12. LoopIsHeld'
  BY <1>1, <1>4, LoopStays DEF Kept, Sections
<1>13. OneHandsOff'
  BY <1>4, HandOffsStay DEF Kept, Launched
<1>14. TypeOK'
  BY <1>1, <1>4, <1>5, <1>6 DEF TypeOK, Turn, host
<1>15. DriversFit' /\ TasksFit' /\ OneLive' /\ Final
  BY <1>4, <1>6, <1>7, <1>9, <1>10, <1>11, OnlyKeeps, OnlyFits
<1> QED
  BY <1>12, <1>13, <1>14, <1>15 DEF Kept

(* The handoff marker is created where there was none.                     *)
LEMMA HandOffKeeps ==
  ASSUME ExecutionInv, NEW d \in Drivers, NEW t \in Tasks, HandOff(d, t)
  PROVE  TypeOK' /\ Kept' /\ Final
<1> USE DEF ExecutionInv
<1>1. loop = NoDriver /\ loop' = NoDriver /\ driver[d].at = "launching" /\ driver[d].task = t
  BY DEF HandOff, Free, At
<1>2. Turn(d, "spawning", t)
  BY <1>1, GoesTurn DEF HandOff, Places
<1>3. UNCHANGED <<run, granted, native, sessions, loop, requested, todo, stopping, crashes>>
  BY DEF HandOff
<1>4. /\ spool[t] = "none" /\ native[t] = "none"
      /\ spool' \in [Tasks -> {"none", "handed"} \cup Outcomes] /\ spool'[t] = "handed"
      /\ \A s \in Tasks \ {t} : spool'[s] = spool[s]
  BY TaskIsTyped DEF HandOff, TypeOK, TaskFits
<1>5. Only(t)
  BY <1>3, <1>4 DEF Only, run
<1>6. HandedOver(t) /\ (Live(t) \/ native[t] = "ended")
  BY <1>1, FitsHere DEF Fits, InSession
<1>7. TaskFits(t)' /\ FinalAt(t) /\ (Live(t)' => Live(t))
  BY <1>3, <1>4, <1>6, TaskIsTyped DEF TaskFits, FinalAt, Live, HandedOver, Terminal, run, Outcomes
<1>8. Fits("spawning", t)'
  BY <1>3, <1>4, <1>6 DEF Fits, HandedOver, Live, Terminal, run
<1>9. OthersFit(d, t)
  BY <1>3, <1>4 DEF OthersFit, Fits, HandedOver, Live, Terminal, run, Outcomes
<1>10. LoopIsHeld'
  BY <1>1, <1>2, LoopStays DEF Kept, Sections
<1>11. OneHandsOff'
  <2>1. ASSUME NEW e \in Drivers \ {d}, driver[e].at \in Launched
        PROVE  driver[e].task # t
    BY <1>4, <2>1, FitsHere DEF Fits, Launched
  <2> QED
    BY <1>2, <2>1 DEF Kept, OneHandsOff, Turn
<1>12. TypeOK'
  BY <1>2, <1>3, <1>4 DEF TypeOK, Turn, run
<1>13. DriversFit' /\ TasksFit' /\ OneLive' /\ Final
  BY <1>2, <1>5, <1>7, <1>8, <1>9, OnlyKeeps, OnlyFits
<1> QED
  BY <1>10, <1>11, <1>12, <1>13 DEF Kept

(* While a driver is between the handoff and the end, no other one is.     *)
LEMMA NoSecondHandOff ==
  ASSUME ExecutionInv, NEW d \in Drivers, driver[d].at \in Launched, NEW e \in Drivers \ {d},
         driver[e].task = driver[d].task
  PROVE  driver[e].at \notin Launched
BY DEF ExecutionInv, Kept, OneHandsOff

(* The process is spawned by the one driver that handed off.               *)
LEMMA SpawnKeeps ==
  ASSUME ExecutionInv, NEW d \in Drivers, NEW t \in Tasks, Spawn(d, t)
  PROVE  TypeOK' /\ Kept' /\ Final
<1> USE DEF ExecutionInv
<1>1. loop = NoDriver /\ loop' = NoDriver /\ driver[d].at = "spawning" /\ driver[d].task = t
  BY DEF Spawn, Free, At
<1>2. Turn(d, "awaiting", t)
  BY <1>1, GoesTurn DEF Spawn, Places
<1>3. UNCHANGED <<run, granted, spool, sessions, loop, requested, todo, stopping, crashes>>
  BY DEF Spawn
<1>4. /\ native' \in [Tasks -> {"none", "running", "ended"}] /\ native'[t] \in {"running", "ended"}
      /\ \A s \in Tasks \ {t} : native'[s] = native[s]
  BY DEF Spawn, TypeOK
<1>5. Only(t)
  BY <1>3, <1>4 DEF Only, run
<1>6. HandedOver(t) /\ Live(t) /\ native[t] = "none" /\ spool[t] = "handed"
  BY <1>1, FitsHere DEF Fits, InSession
<1>7. TaskFits(t)' /\ FinalAt(t) /\ (Live(t)' => Live(t))
  BY <1>3, <1>4, <1>6, TaskIsTyped DEF TaskFits, FinalAt, Live, HandedOver, Terminal, run, Outcomes
<1>8. Fits("awaiting", t)'
  BY <1>3, <1>4, <1>6 DEF Fits, HandedOver, Live, Terminal, run
<1>9. OthersFit(d, t)
  <2> SUFFICES ASSUME NEW e \in Drivers \ {d}, NEW p \in Places, driver[e].at = p,
                      driver[e].task = t, Fits(p, t)
               PROVE  Fits(p, t)'
    BY DEF OthersFit
  <2>1. p \notin Launched
    BY <1>1, NoSecondHandOff DEF Launched
  <2> QED
    BY <1>3, <1>6, <2>1 DEF Fits, HandedOver, Live, Terminal, run, Launched
<1>10. LoopIsHeld'
  BY <1>1, <1>2, LoopStays DEF Kept, Sections
<1>11. OneHandsOff'
  BY <1>1, <1>2, HandOffsStay DEF Kept, Launched
<1>12. TypeOK'
  BY <1>2, <1>3, <1>4 DEF TypeOK, Turn, run
<1>13. DriversFit' /\ TasksFit' /\ OneLive' /\ Final
  BY <1>2, <1>5, <1>7, <1>8, <1>9, OnlyKeeps, OnlyFits
<1> QED
  BY <1>10, <1>11, <1>12, <1>13 DEF Kept

(* The terminal record is saved by the one driver that handed off.         *)
LEMMA SettleKeeps ==
  ASSUME ExecutionInv, NEW d \in Drivers, NEW t \in Tasks, NEW outcome \in Outcomes,
         Settle(d, t, outcome)
  PROVE  TypeOK' /\ Kept' /\ Final
<1> USE DEF ExecutionInv
<1>1. loop = NoDriver /\ loop' = NoDriver /\ driver[d].at = "awaiting" /\ driver[d].task = t
  BY DEF Settle, Free, At
<1>2. Turn(d, "recording", t)
  BY <1>1, GoesTurn DEF Settle, Places
<1>3. UNCHANGED <<run, granted, native, sessions, loop, requested, todo, stopping, crashes>>
  BY DEF Settle
<1>4. /\ spool' \in [Tasks -> {"none", "handed"} \cup Outcomes] /\ spool'[t] = outcome
      /\ native[t] = "ended"
      /\ \A s \in Tasks \ {t} : spool'[s] = spool[s]
  BY DEF Settle, TypeOK
<1>5. Only(t)
  BY <1>3, <1>4 DEF Only, run
<1>6. HandedOver(t)
  BY <1>1, FitsHere DEF Fits, InSession
<1>7. TaskFits(t)' /\ FinalAt(t) /\ (Live(t)' => Live(t))
  BY <1>3, <1>4, <1>6, TaskIsTyped DEF TaskFits, FinalAt, Live, HandedOver, Terminal, run, Outcomes
<1>8. Fits("recording", t)'
  BY <1>3, <1>4, <1>6 DEF Fits, HandedOver, Live, Terminal, run
<1>9. OthersFit(d, t)
  <2> SUFFICES ASSUME NEW e \in Drivers \ {d}, NEW p \in Places, driver[e].at = p,
                      driver[e].task = t, Fits(p, t)
               PROVE  Fits(p, t)'
    BY DEF OthersFit
  <2>1. p \notin Launched
    BY <1>1, NoSecondHandOff DEF Launched
  <2> QED
    BY <1>3, <1>4, <2>1 DEF Fits, HandedOver, Live, Terminal, run, Launched
<1>10. LoopIsHeld'
  BY <1>1, <1>2, LoopStays DEF Kept, Sections
<1>11. OneHandsOff'
  BY <1>2, HandOffsStay DEF Kept, Launched
<1>12. TypeOK'
  BY <1>2, <1>3, <1>4 DEF TypeOK, Turn, run
<1>13. DriversFit' /\ TasksFit' /\ OneLive' /\ Final
  BY <1>2, <1>5, <1>7, <1>8, <1>9, OnlyKeeps, OnlyFits
<1> QED
  BY <1>10, <1>11, <1>12, <1>13 DEF Kept

(* A live attempt stays live: what its drivers rely on is not disturbed.   *)
LEMMA LiveStaysLive ==
  ASSUME ExecutionInv, NEW d \in Drivers, NEW t \in Tasks, NEW place, NEW state \in AttemptStates,
         Turn(d, place, t), Live(t),
         state \notin Outcomes \cup {"none", "planned"},
         attempt' = [attempt EXCEPT ![t] = state],
         UNCHANGED <<lifecycle, receipt, host>>,
         Fits(place, t)
  PROVE  /\ attempt' \in [Tasks -> AttemptStates]
         /\ DriversFit' /\ TasksFit' /\ OneLive' /\ Final
<1>1. /\ attempt' \in [Tasks -> AttemptStates] /\ attempt'[t] = state
      /\ \A s \in Tasks \ {t} : attempt'[s] = attempt[s]
  BY DEF ExecutionInv, TypeOK
<1>2. Only(t)
  BY <1>1 DEF Only, host
<1>3. ~Terminal(attempt[t]) /\ attempt[t] \notin {"none", "planned"} /\ receipt[t] = NoReceipt
  BY TaskIsTyped DEF Live, TaskFits, Receipts, Terminal
<1>4. TaskFits(t)' /\ FinalAt(t) /\ (Live(t)' => Live(t))
  BY <1>1, <1>3, TaskIsTyped DEF TaskFits, FinalAt, Live, HandedOver, Terminal, host, Outcomes
<1>5. Fits(place, t)' /\ OthersFit(d, t)
  BY <1>1 DEF OthersFit, Fits, HandedOver, Live, Terminal, host
<1> QED
  BY <1>1, <1>2, <1>4, <1>5, OnlyKeeps, OnlyFits

(* The handle is recorded.                                                 *)
LEMMA RecordKeeps ==
  ASSUME ExecutionInv, NEW d \in Drivers, NEW t \in Tasks, Record(d, t)
  PROVE  TypeOK' /\ Kept' /\ Final
<1> USE DEF ExecutionInv
<1>1. loop = NoDriver /\ loop' = NoDriver /\ driver[d].at = "recording" /\ driver[d].task = t
  BY DEF Record, Free, At
<1>2. Turn(d, "collecting", t)
  BY <1>1, GoesTurn DEF Record, Places
<1>3. UNCHANGED <<lifecycle, owner, receipt, reconciled, workflow, granted, host, sessions,
                 loop, requested, todo, stopping, crashes>>
  BY DEF Record
<1>4. Fits("collecting", t)
  BY <1>1, FitsHere DEF Fits, InSession
<1>5. LoopIsHeld'
  BY <1>1, <1>2, LoopStays DEF Kept, Sections
<1>6. OneHandsOff'
  BY <1>2, HandOffsStay DEF Kept, Launched
<1>7. CASE attempt[t] \in {"launch_intent_committed", "reconciliation_required"}
  <2>1. Live(t) /\ attempt' = [attempt EXCEPT ![t] = "provider_handle_recorded"]
    BY <1>7 DEF Record, Live, Terminal, Outcomes
  <2>2. /\ attempt' \in [Tasks -> AttemptStates]
        /\ DriversFit' /\ TasksFit' /\ OneLive' /\ Final
    BY <1>2, <1>3, <1>4, <2>1, LiveStaysLive DEF AttemptStates, Outcomes
  <2>3. TypeOK'
    BY <1>2, <1>3, <2>2 DEF TypeOK, Turn, host
  <2> QED
    BY <1>5, <1>6, <2>2, <2>3 DEF Kept
<1>8. CASE attempt[t] \notin {"launch_intent_committed", "reconciliation_required"}
  <2>1. attempt' = attempt
    BY <1>8 DEF Record
  <2>2. QuietTurn(d)
    BY <1>1, <1>2, <1>3, <1>4, <2>1 DEF QuietTurn, Places, Sections, Launched, host
  <2>3. TypeOK'
    BY <1>2, <1>3, <2>1 DEF TypeOK, Turn, host
  <2> QED
    BY <2>2, <2>3, QuietTurnKeeps
<1> QED
  BY <1>7, <1>8

(* The receipt that ends a live attempt, from the session or a request.    *)
LEMMA ReceiptEnds ==
  ASSUME ExecutionInv, NEW d \in Drivers, NEW t \in Tasks, NEW place, NEW r \in Receipts,
         Turn(d, place, t), ~Terminal(attempt[t]), HandedOver(t), native[t] = "ended",
         receipt' = [receipt EXCEPT ![t] = r], attempt' = [attempt EXCEPT ![t] = r[2]],
         UNCHANGED <<lifecycle, host>>,
         place \in {"resolving", "answering"}
  PROVE  /\ attempt' \in [Tasks -> AttemptStates]
         /\ receipt' \in [Tasks -> Receipts \cup {NoReceipt}]
         /\ DriversFit' /\ TasksFit' /\ OneLive' /\ Final
<1>1. r[2] \in Outcomes /\ r # NoReceipt
  BY DEF Receipts, NoReceipt, Outcomes
<1>2. /\ attempt' \in [Tasks -> AttemptStates] /\ attempt'[t] = r[2]
      /\ receipt' \in [Tasks -> Receipts \cup {NoReceipt}] /\ receipt'[t] = r
      /\ \A s \in Tasks \ {t} : attempt'[s] = attempt[s] /\ receipt'[s] = receipt[s]
  BY <1>1 DEF ExecutionInv, TypeOK, AttemptStates
<1>3. Only(t)
  BY <1>2 DEF Only, host
<1>4. receipt[t] = NoReceipt /\ ~Terminal(lifecycle[t])
  BY TaskIsTyped DEF TaskFits, HandedOver, Terminal, Receipts
<1>5. TaskFits(t)' /\ FinalAt(t) /\ (Live(t)' => Live(t))
  BY <1>1, <1>2, <1>4, TaskIsTyped DEF TaskFits, FinalAt, Live, HandedOver, Terminal, host, Outcomes
<1>6. HandedOver(t)'
  BY <1>1, <1>2 DEF HandedOver, Outcomes
<1>7. Fits(place, t)' /\ OthersFit(d, t)
  BY <1>6 DEF OthersFit, Fits, Live, host, InSession
<1> QED
  BY <1>2, <1>3, <1>5, <1>7, OnlyKeeps, OnlyFits

(* The receipt of the session.                                             *)
LEMMA CollectKeeps ==
  ASSUME ExecutionInv, NEW d \in Drivers, NEW t \in Tasks, Collect(d, t)
  PROVE  TypeOK' /\ Kept' /\ Final
<1> USE DEF ExecutionInv
<1>1. loop = NoDriver /\ loop' = d /\ driver[d].at = "collecting" /\ driver[d].task = t
  BY DEF Collect, Free, At, Holds
<1>2. Turn(d, "resolving", t)
  BY <1>1, GoesTurn DEF Collect, Places
<1>3. UNCHANGED <<lifecycle, owner, reconciled, workflow, granted, host, sessions, requested,
                 todo, stopping, crashes>>
  BY DEF Collect
<1>4. spool[t] \in Outcomes /\ HandedOver(t) /\ native[t] = "ended"
  BY <1>1, FitsHere, TaskIsTyped DEF Fits, InSession, TaskFits
<1>5. ~Terminal(attempt[t])
  BY <1>4, TaskIsTyped DEF Collect, TaskFits
<1>6. PICK r \in Receipts : r = Collected(t) /\ r[2] = spool[t]
  <2>1. Collected(t) \in Receipts /\ Collected(t)[2] = spool[t]
    BY <1>4 DEF Collected, Receipts
  <2> QED
    BY <2>1
<1>7. /\ attempt' \in [Tasks -> AttemptStates]
      /\ receipt' \in [Tasks -> Receipts \cup {NoReceipt}]
      /\ DriversFit' /\ TasksFit' /\ OneLive' /\ Final
  BY <1>2, <1>3, <1>4, <1>5, <1>6, ReceiptEnds DEF Collect
<1>8. LoopIsHeld'
  BY <1>1, <1>2, LoopStays DEF Kept
<1>9. OneHandsOff'
  BY <1>2, HandOffsStay DEF Kept, Launched
<1>10. TypeOK'
  BY <1>1, <1>2, <1>3, <1>7 DEF TypeOK, Turn, host
<1> QED
  BY <1>7, <1>8, <1>9, <1>10 DEF Kept

(* The receipt of a request.                                               *)
LEMMA SubmitKeeps ==
  ASSUME ExecutionInv, NEW d \in Drivers, NEW t \in Tasks, NEW outcome \in Outcomes,
         SubmitReceipt(d, t, outcome)
  PROVE  TypeOK' /\ Kept' /\ Final
<1> USE DEF ExecutionInv
<1>1. loop = NoDriver /\ loop' = d
  BY DEF SubmitReceipt, Free, Holds
<1>2. PICK r : r = [Idle EXCEPT !.at = "answering", !.task = t]
  OBVIOUS
<1>3. Idle \in DriverStates
  BY DEF Idle, DriverStates, Places
<1>4. r \in DriverStates /\ r.at = "answering" /\ r.task = t
  BY <1>2, <1>3 DEF DriverStates, Places
<1>5. Turn(d, "answering", t)
  BY <1>2, <1>4, MovesTurn DEF SubmitReceipt
<1>6. UNCHANGED <<lifecycle, owner, reconciled, workflow, granted, host, sessions, requested,
                 todo, stopping, crashes>>
  BY DEF SubmitReceipt
<1>7. ~Terminal(attempt[t]) /\ HandedOver(t) /\ native[t] = "ended"
  BY DEF SubmitReceipt, Live, HandedOver
<1>8. PICK q \in Receipts : q = <<"request", outcome>> /\ q[2] = outcome
  <2>1. <<"request", outcome>> \in Receipts /\ <<"request", outcome>>[2] = outcome
    BY DEF Receipts
  <2> QED
    BY <2>1
<1>9. /\ attempt' \in [Tasks -> AttemptStates]
      /\ receipt' \in [Tasks -> Receipts \cup {NoReceipt}]
      /\ DriversFit' /\ TasksFit' /\ OneLive' /\ Final
  BY <1>5, <1>6, <1>7, <1>8, ReceiptEnds DEF SubmitReceipt
<1>10. LoopIsHeld'
  BY <1>1, <1>5, LoopStays DEF Kept
<1>11. OneHandsOff'
  BY <1>5, HandOffsStay DEF Kept, Launched
<1>12. TypeOK'
  BY <1>1, <1>5, <1>6, <1>9 DEF TypeOK, Turn, host
<1> QED
  BY <1>9, <1>10, <1>11, <1>12 DEF Kept

(* The end of a task that a driver in a section resolves.                  *)
LEMMA ResolvedKeeps ==
  ASSUME ExecutionInv, NEW d \in Drivers, NEW t \in Tasks, NEW place, NEW u,
         Turn(d, place, u), ResolvedAt(t), loop = d, Fits(place, u),
         place \notin Sections, place \notin Launched,
         UNCHANGED <<attempt, receipt, host>>
  PROVE  Kept' /\ Final
<1>1. Only(t)
  BY DEF Only, ResolvedAt, host
<1>2. TaskFits(t)' /\ FinalAt(t) /\ (Live(t)' => Live(t))
  BY TaskIsTyped DEF ResolvedAt, TaskFits, FinalAt, Live, HandedOver, Terminal, host, Outcomes
<1>3. OthersFit(d, t)
  <2> SUFFICES ASSUME NEW e \in Drivers \ {d}, NEW p \in Places, driver[e].at = p, Fits(p, t)
               PROVE  Fits(p, t)'
    BY DEF OthersFit
  <2>1. p # "preparing"
    BY OthersOutside DEF Sections
  <2> QED
    BY <2>1 DEF Fits, HandedOver, Live, Terminal, host
<1>4. Fits(place, u)'
  BY DEF Fits, HandedOver, Live, Terminal, host, Sections
<1>5. LoopIsHeld'
  BY LoopStays DEF ExecutionInv, Kept
<1>6. OneHandsOff'
  BY HandOffsStay DEF ExecutionInv, Kept
<1>7. DriversFit' /\ TasksFit' /\ OneLive' /\ Final
  BY <1>1, <1>2, <1>3, <1>4, OnlyKeeps, OnlyFits
<1> QED
  BY <1>5, <1>6, <1>7 DEF Kept

(* The second append of a receipt, by the session ...                      *)
LEMMA ResolveKeeps ==
  ASSUME ExecutionInv, NEW d \in Drivers, NEW t \in Tasks, Resolve(d, t)
  PROVE  TypeOK' /\ Kept' /\ Final
<1>1. driver[d].at = "resolving" /\ driver[d].task = t /\ loop = d
  BY InSectionHolds DEF Resolve, At, Sections
<1>2. Turn(d, "closing", t) /\ loop' = NoDriver /\ sessions' \in [Tasks -> Drivers \cup {NoDriver}]
  BY <1>1, ClosingTurn DEF ExecutionInv, Resolve
<1>3. ResolvedAt(t)
  BY ResolutionResolves DEF ExecutionInv, Resolve
<1>4. Fits("closing", t)
  BY <1>1, FitsHere DEF Fits, InSession
<1>5. Kept' /\ Final
  BY <1>1, <1>2, <1>3, <1>4, ResolvedKeeps DEF Resolve, Sections, Launched
<1>6. TypeOK'
  BY <1>2, <1>3 DEF ExecutionInv, TypeOK, Turn, ResolvedAt, Resolve, host
<1> QED
  BY <1>5, <1>6

(* ... or by the request.                                                  *)
LEMMA AcknowledgeKeeps ==
  ASSUME ExecutionInv, NEW d \in Drivers, NEW t \in Tasks, Acknowledge(d, t)
  PROVE  TypeOK' /\ Kept' /\ Final
<1>1. loop = d /\ loop' = NoDriver
  BY InSectionHolds DEF Acknowledge, At, Sections, Yields
<1>2. Idle \in DriverStates /\ Idle.at = "idle" /\ Idle.task = NoTask
  BY DEF Idle, DriverStates, Places
<1>3. Turn(d, "idle", NoTask)
  BY <1>2, MovesTurn DEF ExecutionInv, Acknowledge
<1>4. ResolvedAt(t)
  BY ResolutionResolves DEF ExecutionInv, Acknowledge
<1>5. Fits("idle", NoTask)
  BY DEF Fits, InSession
<1>6. Kept' /\ Final
  BY <1>1, <1>3, <1>4, <1>5, ResolvedKeeps DEF Acknowledge, Sections, Launched
<1>7. TypeOK'
  BY <1>1, <1>3, <1>4 DEF ExecutionInv, TypeOK, Turn, ResolvedAt, Acknowledge, host
<1> QED
  BY <1>6, <1>7

(* The two appends of the catch block.                                     *)
LEMMA RequireKeeps ==
  ASSUME ExecutionInv, NEW d \in Drivers, NEW t \in Tasks, RequireReconciliation(d, t)
  PROVE  TypeOK' /\ Kept' /\ Final
<1> USE DEF ExecutionInv
<1>1. driver[d].at = "failing" /\ driver[d].task = t /\ loop = d /\ driver' = driver /\ loop' = loop
  BY InSectionHolds DEF RequireReconciliation, At, Sections, memory
<1>2. Turn(d, "failing", t) /\ Stays
  BY <1>1 DEF Turn, TypeOK, Stays
<1>3. Fits("failing", t)
  BY <1>1, FitsHere
<1>4. Live(t)
  BY <1>3 DEF RequireReconciliation, Ambiguous, Fits, InSession, HandedOver, Live
<1>5. UNCHANGED <<lifecycle, receipt, host>>
  BY DEF RequireReconciliation
<1>6. /\ attempt' \in [Tasks -> AttemptStates]
      /\ DriversFit' /\ TasksFit' /\ OneLive' /\ Final
  BY <1>2, <1>3, <1>4, <1>5, LiveStaysLive DEF RequireReconciliation, AttemptStates, Outcomes
<1>7. LoopIsHeld' /\ OneHandsOff'
  BY <1>1 DEF Kept, LoopIsHeld, OneHandsOff
<1>8. TypeOK'
  BY <1>1, <1>6 DEF TypeOK, RequireReconciliation, host, memory
<1> QED
  BY <1>6, <1>7, <1>8 DEF Kept

(* The second append leaves the outcome unknown.                           *)
LEMMA FailAttemptKeeps ==
  ASSUME ExecutionInv, NEW d \in Drivers, NEW t \in Tasks, FailAttempt(d, t)
  PROVE  TypeOK' /\ Kept' /\ Final
<1> USE DEF ExecutionInv
<1>1. driver[d].at = "failing" /\ driver[d].task = t /\ loop = d
  BY InSectionHolds DEF FailAttempt, At, Sections
<1>2. Turn(d, "closing", t) /\ loop' = NoDriver /\ sessions' \in [Tasks -> Drivers \cup {NoDriver}]
  BY <1>1, ClosingTurn DEF FailAttempt
<1>3. Fits("closing", t)
  BY <1>1, FitsHere DEF Fits, InSession
<1>4. Live(t)
  BY DEF FailAttempt, Live, Terminal, Outcomes
<1>5. UNCHANGED <<lifecycle, receipt, host>>
  BY DEF FailAttempt
<1>6. /\ attempt' \in [Tasks -> AttemptStates]
      /\ DriversFit' /\ TasksFit' /\ OneLive' /\ Final
  BY <1>2, <1>3, <1>4, <1>5, LiveStaysLive DEF FailAttempt, AttemptStates, Outcomes
<1>7. LoopIsHeld'
  BY <1>1, <1>2, LoopStays DEF Kept, Sections
<1>8. OneHandsOff'
  BY <1>2, HandOffsStay DEF Kept, Launched
<1>9. TypeOK'
  BY <1>2, <1>6 DEF TypeOK, FailAttempt, Turn, host
<1> QED
  BY <1>6, <1>7, <1>8, <1>9 DEF Kept

(* A process ends, whatever the daemon is doing.                           *)
LEMMA NativeEndsKeeps ==
  ASSUME ExecutionInv, NEW t \in Tasks, NativeEnds(t)
  PROVE  TypeOK' /\ Kept' /\ Final
<1> USE DEF ExecutionInv
<1>1. UNCHANGED <<run, granted, spool, memory, crashes>>
  BY DEF NativeEnds
<1>2. /\ native[t] = "running" /\ native'[t] = "ended"
      /\ native' \in [Tasks -> {"none", "running", "ended"}]
      /\ \A s \in Tasks \ {t} : native'[s] = native[s]
  BY DEF NativeEnds, TypeOK
<1>3. Only(t)
  BY <1>1, <1>2 DEF Only, run
<1>4. TaskFits(t)' /\ FinalAt(t) /\ (Live(t)' => Live(t))
  BY <1>1, <1>2, TaskIsTyped DEF TaskFits, FinalAt, Live, HandedOver, Terminal, run, Outcomes
<1>5. ASSUME NEW p, NEW u, Fits(p, u)
      PROVE  Fits(p, u)'
  <2>1. CASE u \in Tasks
    BY <1>1, <1>2, <1>5, <2>1 DEF Fits, HandedOver, Live, Terminal, run
  <2>2. CASE u \notin Tasks
    BY <1>1, <1>5, <2>2 DEF Fits, InSession
  <2> QED
    BY <2>1, <2>2
<1>6. LoopIsHeld' /\ OneHandsOff'
  BY <1>1 DEF Kept, LoopIsHeld, OneHandsOff, memory
<1>7. DriversFit'
  <2> SUFFICES ASSUME NEW e \in Drivers
               PROVE  Fits(driver[e].at, driver[e].task)'
    BY DEF DriversFit
  <2>1. PICK p, u : p = driver[e].at /\ u = driver[e].task
    OBVIOUS
  <2>2. Fits(p, u)'
    BY <1>5, <2>1, FitsHere
  <2>3. (p = driver[e].at /\ u = driver[e].task)'
    BY <1>1, <2>1 DEF memory
  <2> QED
    BY <2>2, <2>3
<1>8. TasksFit' /\ OneLive' /\ Final
  BY <1>3, <1>4, OnlyKeeps
<1>9. TypeOK'
  BY <1>1, <1>2 DEF TypeOK, run, memory
<1> QED
  BY <1>6, <1>7, <1>8, <1>9 DEF Kept

-------------------------------------------------------------------------------
(* The sweep of the pump and the requests of clients.                      *)

(* With no driver preparing a task, its lifecycle may change.              *)
LEMMA UnmovedFit ==
  ASSUME ExecutionInv, NEW t \in Tasks, Only(t), Stays,
         \A e \in Drivers, p \in Places : driver[e].at = p /\ Fits(p, t) => Fits(p, t)'
  PROVE  DriversFit'
<1> SUFFICES ASSUME NEW e \in Drivers
             PROVE  Fits(driver[e].at, driver[e].task)'
  BY DEF DriversFit
<1>1. PICK p, u : p = driver[e].at /\ u = driver[e].task /\ p \in Places
  BY DriverIsTyped DEF ExecutionInv
<1>2. (p = driver[e].at /\ u = driver[e].task)'
  BY <1>1 DEF Stays
<1>3. Fits(p, u)
  BY <1>1, FitsHere
<1>4. Fits(p, u)'
  <2>1. CASE u = t
    BY <1>1, <1>3, <2>1
  <2>2. CASE u \in Tasks \ {t}
    BY <1>3, <2>2 DEF Only, Fits, HandedOver, Live, Terminal
  <2>3. CASE u \notin Tasks
    BY <1>3, <2>3 DEF Fits, InSession
  <2> QED
    BY <2>1, <2>2, <2>3
<1> QED
  BY <1>2, <1>4

(* The sweep resolves what a crash left unresolved.                        *)
LEMMA SweepKeeps ==
  ASSUME ExecutionInv, NEW t \in Tasks, PumpSweep(t)
  PROVE  TypeOK' /\ Kept' /\ Final
<1> USE DEF ExecutionInv
<1>1. Pump \in Drivers
  BY DEF Drivers
<1>2. loop = Pump /\ driver[Pump].at = "sweeping"
  BY <1>1, InSectionHolds DEF PumpSweep, Sections
<1>3. UNCHANGED <<attempt, owner, receipt, reconciled, workflow, granted, host, memory, crashes>>
  BY DEF PumpSweep
<1>4. Stays
  BY <1>3 DEF Stays, memory
<1>5. ResolvedAt(t)
  BY ResolutionResolves DEF PumpSweep, Resolution
<1>6. Only(t)
  BY <1>3, <1>5 DEF Only, ResolvedAt, host
<1>7. TaskFits(t)' /\ FinalAt(t) /\ (Live(t)' => Live(t))
  BY <1>3, <1>5, TaskIsTyped DEF ResolvedAt, TaskFits, FinalAt, Live, HandedOver, Terminal, host,
    Outcomes
<1>8. DriversFit'
  <2> SUFFICES ASSUME NEW e \in Drivers, NEW p \in Places, driver[e].at = p, Fits(p, t)
               PROVE  Fits(p, t)'
    BY <1>4, <1>6, UnmovedFit
  <2>1. p # "preparing"
    BY <1>1, <1>2, OthersOutside DEF Sections
  <2> QED
    BY <1>3, <2>1 DEF Fits, HandedOver, Live, Terminal, host
<1>9. LoopIsHeld' /\ OneHandsOff'
  BY <1>3 DEF Kept, LoopIsHeld, OneHandsOff, memory
<1>10. TypeOK'
  BY <1>3, <1>5 DEF ResolvedAt, TypeOK, host, memory
<1>11. TasksFit' /\ OneLive' /\ Final
  BY <1>6, <1>7, OnlyKeeps
<1> QED
  BY <1>8, <1>9, <1>10, <1>11 DEF Kept

(* A start may activate a task that has not ended.                         *)
LEMMA StartKeeps ==
  ASSUME ExecutionInv, NEW w \in Workflows, NEW kind \in {"dispatch", "execute"}, NEW t \in Tasks,
         Start(w, kind, t)
  PROVE  TypeOK' /\ Kept' /\ Final
<1> USE DEF ExecutionInv
<1>1. UNCHANGED <<attempt, owner, receipt, reconciled, granted, host, sessions, driver, loop,
                 todo, stopping, crashes>>
  BY DEF Start
<1>2. /\ lifecycle' \in [Tasks -> {"draft", "active"} \cup Outcomes]
      /\ ~Terminal(lifecycle[t])
      /\ lifecycle'[t] = lifecycle[t] \/ lifecycle'[t] = "active"
      /\ \A s \in Tasks \ {t} : lifecycle'[s] = lifecycle[s]
  BY DEF Start, TypeOK
<1>3. Stays /\ Only(t)
  BY <1>1, <1>2 DEF Stays, Only, host
<1>4. TaskFits(t)' /\ FinalAt(t) /\ (Live(t)' => Live(t))
  BY <1>1, <1>2, TaskIsTyped DEF TaskFits, FinalAt, Live, HandedOver, Terminal, host, Outcomes
<1>5. DriversFit'
  <2> SUFFICES ASSUME NEW e \in Drivers, NEW p \in Places, driver[e].at = p, Fits(p, t)
               PROVE  Fits(p, t)'
    BY <1>3, UnmovedFit
  <2> QED
    BY <1>1, <1>2 DEF Fits, HandedOver, Live, Terminal, host
<1>6. LoopIsHeld' /\ OneHandsOff'
  BY <1>1 DEF Kept, LoopIsHeld, OneHandsOff
<1>7. workflow' \in [Workflows -> [state : WorkflowStates,
                                   kind : {"none", "dispatch", "execute"},
                                   target : Tasks \cup {NoTask}]]
  BY DEF Start, TypeOK, WorkflowStates
<1>8. TypeOK'
  BY <1>1, <1>2, <1>7 DEF TypeOK, Start, host
<1>9. TasksFit' /\ OneLive' /\ Final
  BY <1>3, <1>4, OnlyKeeps
<1> QED
  BY <1>5, <1>6, <1>8, <1>9 DEF Kept

(* A cancel finds no driver in a section, and no process of a planned attempt.*)
LEMMA CancelKeeps ==
  ASSUME ExecutionInv, NEW t \in Tasks, Cancel(t)
  PROVE  TypeOK' /\ Kept' /\ Final
<1> USE DEF ExecutionInv
<1> DEFINE stops == {w \in Workflows : Running(w) /\ workflow[w].target = t}
           closed == {d \in Drivers : ClosedByCancel(d, t, stops)}
<1>1. /\ loop = NoDriver /\ ~Terminal(lifecycle[t])
      /\ workflow' = [w \in Workflows |->
                        IF w \in stops THEN [workflow[w] EXCEPT !.state = "cancelled"]
                        ELSE workflow[w]]
      /\ attempt' = [attempt EXCEPT ![t] = AfterCancel(t)]
      /\ lifecycle' = [lifecycle EXCEPT ![t] = CancelResolves(AfterCancel(t))]
      /\ driver' = [d \in Drivers |->
                      IF d \in closed THEN [driver[d] EXCEPT !.aborted = TRUE] ELSE driver[d]]
      /\ UNCHANGED <<owner, receipt, reconciled, granted, host, sessions, loop, requested,
                     todo, stopping, crashes>>
  BY DEF Cancel, Free
<1>2. driver' \in [Drivers -> DriverStates] /\ Stays
  <2>1. closed \in SUBSET Drivers
    OBVIOUS
  <2> QED
    BY <1>1, <2>1, AbortStays
<1>3. workflow' \in [Workflows -> [state : WorkflowStates,
                                   kind : {"none", "dispatch", "execute"},
                                   target : Tasks \cup {NoTask}]]
  <2> SUFFICES ASSUME NEW w \in Workflows
               PROVE  [workflow[w] EXCEPT !.state = "cancelled"] \in
                        [state : WorkflowStates, kind : {"none", "dispatch", "execute"},
                         target : Tasks \cup {NoTask}]
    BY <1>1 DEF TypeOK
  <2> QED
    BY DEF TypeOK, WorkflowStates
<1> HIDE DEF stops, closed
<1>4. /\ attempt[t] = "planned" => AfterCancel(t) = "cancelled"
      /\ Live(t) => AfterCancel(t) = "cancel_requested"
      /\ attempt[t] # "planned" /\ ~Live(t) => AfterCancel(t) = attempt[t]
  BY DEF AfterCancel, Live
<1>5. AfterCancel(t) \in AttemptStates
  <2>1. "cancelled" \in AttemptStates /\ "cancel_requested" \in AttemptStates
    BY DEF AttemptStates, Outcomes
  <2>2. AfterCancel(t) \in {"cancelled", "cancel_requested", attempt[t]}
    BY <1>4
  <2> QED
    BY <2>1, <2>2, TaskIsTyped
<1>6. /\ attempt' \in [Tasks -> AttemptStates] /\ attempt'[t] = AfterCancel(t)
      /\ \A s \in Tasks \ {t} : attempt'[s] = attempt[s]
  BY <1>1, <1>5 DEF TypeOK
<1>7. /\ AfterCancel(t) = "succeeded" => CancelResolves(AfterCancel(t)) = "succeeded"
      /\ AfterCancel(t) \in {"none", "failed", "cancelled"} =>
           CancelResolves(AfterCancel(t)) = "cancelled"
      /\ AfterCancel(t) \notin {"none", "failed", "cancelled", "succeeded"} =>
           CancelResolves(AfterCancel(t)) = "active"
  BY DEF CancelResolves
<1>8. CancelResolves(AfterCancel(t)) \in {"active", "succeeded", "cancelled"}
  BY <1>7
<1>9. /\ lifecycle' \in [Tasks -> {"draft", "active"} \cup Outcomes]
      /\ lifecycle'[t] = CancelResolves(AfterCancel(t))
      /\ \A s \in Tasks \ {t} : lifecycle'[s] = lifecycle[s]
  BY <1>1, <1>8 DEF TypeOK, Outcomes
<1>10. Only(t)
  BY <1>1, <1>6, <1>9 DEF Only, host
<1>11. receipt[t] # NoReceipt => Terminal(attempt[t])
  BY TaskIsTyped DEF TaskFits, Receipts, Terminal
<1>12. attempt[t] = "planned" => native[t] = "none" /\ spool[t] = "none"
  BY TaskIsTyped DEF TaskFits, HandedOver
<1>13. /\ Terminal(attempt[t]) => AfterCancel(t) = attempt[t]
       /\ attempt[t] = "none" => AfterCancel(t) = "none"
       /\ attempt[t] \in {"none", "planned"} \/ Terminal(attempt[t]) \/ Live(t)
  BY <1>4 DEF Live, Terminal, Outcomes
<1>14. TaskFits(t)'
  <2>1. CASE Live(t)
    <3>1. attempt'[t] = "cancel_requested" /\ lifecycle'[t] = "active"
      BY <1>4, <1>6, <1>7, <1>9, <2>1
    <3> QED
      BY <1>1, <1>11, <2>1, <3>1, TaskIsTyped DEF TaskFits, Live, HandedOver, Terminal, host, Outcomes
  <2>2. CASE attempt[t] = "planned"
    <3>1. attempt'[t] = "cancelled" /\ lifecycle'[t] = "cancelled"
      BY <1>4, <1>6, <1>7, <1>9, <2>2
    <3> QED
      BY <1>1, <1>11, <1>12, <2>2, <3>1 DEF TaskFits, Live, HandedOver, Terminal, host, Outcomes
  <2>3. CASE attempt[t] = "none"
    <3>1. attempt'[t] = "none" /\ lifecycle'[t] = "cancelled"
      BY <1>13, <1>6, <1>7, <1>9, <2>3
    <3> QED
      BY <1>1, <2>3, <3>1, TaskIsTyped DEF TaskFits, Live, HandedOver, Terminal, host, Outcomes
  <2>4. CASE Terminal(attempt[t])
    <3>1. /\ attempt'[t] = attempt[t] /\ lifecycle'[t] \in {"succeeded", "cancelled"}
          /\ lifecycle'[t] = "succeeded" <=> attempt[t] = "succeeded"
      BY <1>13, <1>6, <1>7, <1>9, <2>4 DEF Terminal, Outcomes
    <3> QED
      BY <1>1, <2>4, <3>1, TaskIsTyped DEF TaskFits, Live, HandedOver, Terminal, host, Outcomes
  <2> QED
    BY <1>13, <2>1, <2>2, <2>3, <2>4
<1>15. FinalAt(t)
  BY <1>1, <1>6, <1>13 DEF FinalAt
<1>16. Live(t)' <=> Live(t)
  BY <1>4, <1>6, <1>13 DEF Live, Terminal, Outcomes
<1>17. DriversFit'
  <2> SUFFICES ASSUME NEW e \in Drivers, NEW p \in Places, driver[e].at = p, Fits(p, t)
               PROVE  Fits(p, t)'
    BY <1>2, <1>10, UnmovedFit
  <2>1. p # "preparing"
    BY <1>1, NoneAssumption DEF Kept, LoopIsHeld, Sections
  <2>2. HandedOver(t) => HandedOver(t)'
    BY <1>4, <1>6, <1>13 DEF HandedOver
  <2> QED
    BY <1>1, <1>16, <2>1, <2>2 DEF Fits, host
<1>18. LoopIsHeld' /\ OneHandsOff'
  BY <1>1, <1>2 DEF Kept, LoopIsHeld, OneHandsOff, Stays
<1>19. TypeOK'
  BY <1>1, <1>2, <1>3, <1>6, <1>9 DEF TypeOK, host
<1>20. TasksFit' /\ OneLive' /\ Final
  BY <1>10, <1>14, <1>15, <1>16, OnlyKeeps
<1> QED
  BY <1>17, <1>18, <1>19, <1>20 DEF Kept

-------------------------------------------------------------------------------
(* The invariant, and the theorems.                                        *)

(* The first state satisfies the invariant.                                *)
LEMMA InitKeeps ==
  Init => ExecutionInv
<1> SUFFICES ASSUME Init PROVE ExecutionInv
  OBVIOUS
<1>1. Idle \in DriverStates /\ Idle.at = "idle"
  BY DEF Idle, DriverStates, Places
<1>2. driver \in [Drivers -> DriverStates]
  BY <1>1 DEF Init
<1>3. TypeOK
  <2>1. workflow \in [Workflows -> [state : WorkflowStates,
                                    kind : {"none", "dispatch", "execute"},
                                    target : Tasks \cup {NoTask}]]
    <3>1. [state |-> "absent", kind |-> "none", target |-> NoTask] \in
            [state : WorkflowStates, kind : {"none", "dispatch", "execute"},
             target : Tasks \cup {NoTask}]
      BY DEF WorkflowStates
    <3> QED
      BY <3>1 DEF Init
  <2>2. "none" \in AttemptStates
    BY DEF AttemptStates
  <2>3. crashes \in 0..MaxCrashes
    BY CrashAssumption DEF Init
  <2>4. /\ lifecycle \in [Tasks -> {"draft", "active"} \cup Outcomes]
        /\ attempt \in [Tasks -> AttemptStates]
        /\ owner \in [Tasks -> Workflows \cup {NoWorkflow}]
        /\ receipt \in [Tasks -> Receipts \cup {NoReceipt}]
        /\ reconciled \in [Tasks -> BOOLEAN]
    BY <2>2 DEF Init
  <2>5. /\ spool \in [Tasks -> {"none", "handed"} \cup Outcomes]
        /\ native \in [Tasks -> {"none", "running", "ended"}]
        /\ sessions \in [Tasks -> Drivers \cup {NoDriver}]
        /\ loop \in Drivers \cup {NoDriver}
        /\ granted \in BOOLEAN /\ requested \in BOOLEAN /\ stopping \in BOOLEAN
        /\ todo \subseteq Workflows
    BY DEF Init
  <2> QED
    BY <1>2, <2>1, <2>3, <2>4, <2>5 DEF TypeOK
<1>4. LoopIsHeld /\ DriversFit /\ OneHandsOff
  BY <1>1 DEF Init, LoopIsHeld, DriversFit, OneHandsOff, Fits, Sections, InSession, Launched
<1>5. OneLive /\ TasksFit
  BY DEF Init, OneLive, TasksFit, TaskFits, Live, HandedOver, Terminal, Outcomes
<1> QED
  BY <1>3, <1>4, <1>5 DEF ExecutionInv, Kept

(* The steps of an attempt, of the pump and of clients, by their cases.    *)
LEMMA AttemptStepKeeps ==
  ASSUME ExecutionInv, NEW d \in Drivers, AttemptStep(d)
  PROVE  TypeOK' /\ Kept' /\ Final
<1>1. PICK t \in Tasks :
        \/ SessionMoves(d, t) \/ CollectAgain(d, t) \/ FailOnly(d, t)
        \/ EnterTerminal(d, t) \/ CommitIntent(d, t) \/ EnterRefused(d, t)
        \/ HandOff(d, t) \/ Spawn(d, t)
        \/ \E outcome \in Outcomes : Settle(d, t, outcome)
        \/ Record(d, t) \/ Collect(d, t) \/ Resolve(d, t) \/ Acknowledge(d, t)
        \/ RequireReconciliation(d, t) \/ FailAttempt(d, t) \/ Close(d, t)
  BY DEF AttemptStep, SessionMoves
<1> QED
  BY <1>1, SessionMovesKeep, ClosingKeeps, EnterTerminalKeeps, CommitIntentKeeps, EnterRefusedKeeps,
     HandOffKeeps, SpawnKeeps, SettleKeeps, RecordKeeps, CollectKeeps, ResolveKeeps, AcknowledgeKeeps,
     RequireKeeps, FailAttemptKeeps, CloseKeeps

(* The steps of the pump.                                                  *)
LEMMA PumpStepKeeps ==
  ASSUME ExecutionInv, PumpStep
  PROVE  TypeOK' /\ Kept' /\ Final
BY PumpSettlesKeeps, SweepKeeps, ActivateKeeps, PrepareKeeps DEF PumpStep, PumpSettles

(* The steps of clients.                                                   *)
LEMMA ClientStepKeeps ==
  ASSUME ExecutionInv, ClientStep
  PROVE  TypeOK' /\ Kept' /\ Final
<1>1. ASSUME NEW o \in Operations, Start(o[1], o[2], o[3])
      PROVE  TypeOK' /\ Kept' /\ Final
  BY <1>1, OperationsAssumption, StartKeeps
<1>2. ASSUME NEW d \in Requests, NEW t \in Tasks, NEW action, Dispatch(d, t, action)
      PROVE  TypeOK' /\ Kept' /\ Final
  BY <1>2, DispatchKeeps DEF Drivers
<1>3. ASSUME NEW d \in Requests, NEW t \in Tasks, NEW outcome \in Outcomes,
             SubmitReceipt(d, t, outcome)
      PROVE  TypeOK' /\ Kept' /\ Final
  BY <1>3, SubmitKeeps DEF Drivers
<1> QED
  BY <1>1, <1>2, <1>3, CancelKeeps, RevokeKeeps DEF ClientStep

(* Every step keeps the invariant, and what was final before it.           *)
LEMMA NextKeeps ==
  ASSUME ExecutionInv, [Next]_vars
  PROVE  ExecutionInv' /\ Final
<1>1. CASE Next
  BY <1>1, PumpStepKeeps, AttemptStepKeeps, NativeEndsKeeps, ClientStepKeeps, BootKeeps,
     ShutdownKeeps DEF Next, ExecutionInv
<1>2. CASE UNCHANGED vars
  <2>1. TypeOK'
    BY <1>2 DEF ExecutionInv, TypeOK, vars, run, host, memory
  <2> QED
    BY <1>2, <2>1, StaysKeeps DEF ExecutionInv, Stays, vars, run, memory
<1> QED
  BY <1>1, <1>2

(* Every reachable state satisfies the inductive invariant.                *)
THEOREM ExecutionIsSound == Spec => []ExecutionInv
<1>1. ExecutionInv /\ [Next]_vars => ExecutionInv'
  BY NextKeeps
<1> QED
  BY <1>1, InitKeeps, PTL DEF Spec

(* Two native processes never write in the workspace at once, the ones a   *)
(* crash has left behind included (assertWorkspaceAvailable).              *)
THEOREM OneWorkerAtATime == Spec => []OneWorker
<1>1. ExecutionInv => OneWorker
  BY DEF ExecutionInv, Kept, TasksFit, TaskFits, OneLive, OneWorker
<1> QED
  BY <1>1, ExecutionIsSound, PTL

(* Whatever crashes, a running process has a live attempt and a handoff    *)
(* marker a durable launch intent (runAttempt, spool.begin).               *)
THEOREM WorkIsAccountedFor == Spec => []NativeIsAccountedFor
<1>1. ExecutionInv => NativeIsAccountedFor
  BY DEF ExecutionInv, Kept, TasksFit, TaskFits, HandedOver, NativeIsAccountedFor
<1> QED
  BY <1>1, ExecutionIsSound, PTL

(* A task is resolved the way its attempt ended (resolveTask, cancel,      *)
(* submitReceipt and the sweep of the pump).                               *)
THEOREM ResolutionsAgree == Spec => []ResolutionAgrees
<1>1. ExecutionInv => ResolutionAgrees
  BY DEF ExecutionInv, Kept, TasksFit, TaskFits, ResolutionAgrees
<1> QED
  BY <1>1, ExecutionIsSound, PTL

(* No step changes the outcome of an attempt or of a task, or takes back   *)
(* a receipt: a late answer, a cancel or a restart finds it as it was.     *)
THEOREM OutcomesAreFinal == Spec => TerminalIsFinal
<1> DEFINE A == \A t \in Tasks :
                  /\ Terminal(attempt[t]) => attempt'[t] = attempt[t]
                  /\ Terminal(lifecycle[t]) => lifecycle'[t] = lifecycle[t]
                  /\ receipt[t] # NoReceipt => receipt'[t] = receipt[t]
<1>1. ExecutionInv /\ [Next]_vars => A
  BY NextKeeps DEF Final, FinalAt
<1>2. TerminalIsFinal <=> [][A]_vars
  BY DEF TerminalIsFinal
<1> HIDE DEF A
<1> QED
  BY <1>1, <1>2, ExecutionIsSound, PTL DEF Spec

-------------------------------------------------------------------------------
(* The pump alone.  While no request drives an attempt beside it, the pump *)
(* forgets no workflow and starts nothing that was cancelled: what follows *)
(* is for behaviours without requests, any number of crashes included.     *)

(* The places at which the pump may have its session in the map, and those *)
(* between two sessions.                                                   *)
WithSession ==
  {"launching", "spawning", "awaiting", "recording", "reconciling", "collecting", "resolving",
   "failing"}
OnWorkflow == {"driving", "preparing", "entering"}

(* The map holds the pump's session for the task it works on, and no other.*)
SessionsArePumps ==
  /\ \A t \in Tasks : sessions[t] # NoDriver =>
       driver[Pump].at \in WithSession /\ driver[Pump].task = t
  /\ driver[Pump].at \in {"launching", "spawning"} => sessions[driver[Pump].task] = Pump
  /\ driver[Pump].at # "answering"

(* A workflow that runs is still to be driven, or is being driven, or      *)
(* waits for a live attempt, unless the pump is to be woken anyway.        *)
PumpOwes ==
  /\ driver[Pump].at = "idle" => todo = {}
  /\ ~requested /\ ~stopping /\ driver[Pump].at \in {"idle", "round"} \cup OnWorkflow =>
       \A w \in Workflows : Running(w) =>
         \/ w \in todo
         \/ driver[Pump].at \in OnWorkflow /\ driver[Pump].workflow = w
         \/ \E t \in Tasks : Live(t)

(* What is on its way to a launch is of the workflow that is driven, and   *)
(* no cancel has come since, or the session was told.                      *)
LaunchesAreWanted ==
  LET t == driver[Pump].task
  IN  /\ driver[Pump].at \in OnWorkflow => ~driver[Pump].fresh
      /\ driver[Pump].at = "entering" /\ attempt[t] = "planned" => owner[t] = driver[Pump].workflow
      /\ driver[Pump].at = "opening" /\ driver[Pump].fresh => owner[t] = driver[Pump].workflow
      /\ driver[Pump].at \in {"launching", "spawning"} /\ ~driver[Pump].aborted =>
           /\ attempt[t] = "launch_intent_committed"
           /\ owner[t] \in Workflows /\ workflow[owner[t]].state # "cancelled"

PumpInv == SessionsArePumps /\ PumpOwes /\ LaunchesAreWanted

(* The pump comes to a place and keeps the rest of its record.             *)
PumpGoes(place) ==
  /\ driver'[Pump].at = place /\ driver'[Pump].task = driver[Pump].task
  /\ driver'[Pump].workflow = driver[Pump].workflow
  /\ driver'[Pump].fresh = driver[Pump].fresh /\ driver'[Pump].aborted = driver[Pump].aborted

LEMMA GoesIsPumpGoes ==
  ASSUME TypeOK, NEW place \in Places, Goes(Pump, place)
  PROVE  PumpGoes(place)
<1>1. Pump \in Drivers /\ driver[Pump] \in DriverStates
  BY DEF Drivers, TypeOK
<1>2. driver'[Pump] = [driver[Pump] EXCEPT !.at = place]
  BY <1>1 DEF Goes, Moves, TypeOK
<1> QED
  BY <1>1, <1>2 DEF PumpGoes, DriverStates

(* The pump begins a turn, of a workflow or of none.                       *)
PumpBegins(place, w) ==
  driver'[Pump].at = place /\ driver'[Pump].workflow = w /\ ~driver'[Pump].fresh

LEMMA MovesIsPumpBegins ==
  ASSUME TypeOK
  PROVE  /\ Moves(Pump, Idle) => PumpBegins("idle", NoWorkflow)
         /\ Moves(Pump, Leave(Pump)) => PumpBegins("round", NoWorkflow)
         /\ \A w : DrivingTurn(Pump, w) => PumpBegins("driving", w)
<1>1. Pump \in Drivers /\ driver \in [Drivers -> DriverStates]
  BY DEF Drivers, TypeOK
<1>2. /\ Idle \in DriverStates
      /\ Idle.at = "idle" /\ Idle.workflow = NoWorkflow /\ ~Idle.fresh
  BY DEF Idle, DriverStates, Places
<1>3. Moves(Pump, Idle) => PumpBegins("idle", NoWorkflow)
  BY <1>1, <1>2 DEF Moves, PumpBegins
<1>4. ASSUME Moves(Pump, Leave(Pump))
      PROVE  PumpBegins("round", NoWorkflow)
  <2>1. driver'[Pump] = [Idle EXCEPT !.at = "round"]
    BY <1>1, <1>4 DEF Moves, Leave
  <2> QED
    BY <1>2, <2>1 DEF PumpBegins, DriverStates
<1>5. ASSUME NEW w, DrivingTurn(Pump, w)
      PROVE  PumpBegins("driving", w)
  <2>1. driver'[Pump] = [Idle EXCEPT !.at = "driving", !.workflow = w]
    BY <1>1, <1>5 DEF Moves, DrivingTurn
  <2> QED
    BY <1>2, <2>1 DEF PumpBegins, DriverStates
<1> QED
  BY <1>3, <1>4, <1>5

(* The session of the pump leaves the map.                                 *)
LEMMA ClosingIsPumpCloses ==
  ASSUME TypeOK, SessionsArePumps, NEW t \in Tasks, t = driver[Pump].task, NEW failed \in BOOLEAN,
         Closing(Pump, t, failed)
  PROVE  driver'[Pump].at = "closing" /\ \A u \in Tasks : sessions'[u] = NoDriver
<1>1. Pump \in Drivers /\ driver[Pump] \in DriverStates
  BY DEF Drivers, TypeOK
<1>2. driver'[Pump] = [driver[Pump] EXCEPT !.at = "closing", !.failed = failed]
  BY <1>1 DEF Closing, Moves, TypeOK
<1>3. driver'[Pump].at = "closing"
  BY <1>1, <1>2 DEF DriverStates
<1>4. \A u \in Tasks : sessions'[u] = NoDriver
  BY DEF Closing, SessionsArePumps, TypeOK
<1> QED
  BY <1>3, <1>4

(* A workflow that is stopped runs no more, and no other one begins to.    *)
LEMMA StoppedStops ==
  ASSUME TypeOK, NEW w \in Workflows, NEW state, state # "running", workflow' = Stopped(w, state)
  PROVE  ~Running(w)' /\ \A v \in Workflows : Running(v)' => Running(v)
<1>1. workflow' = [workflow EXCEPT ![w].state = state] \/ (workflow' = workflow /\ ~Running(w))
  BY DEF Stopped
<1>2. workflow[w] \in [state : WorkflowStates, kind : {"none", "dispatch", "execute"},
                      target : Tasks \cup {NoTask}]
  BY DEF TypeOK
<1> QED
  BY <1>1, <1>2 DEF Running, TypeOK

(* The steps of the pump between two attempts.                             *)
LEMMA PumpStepAlone ==
  ASSUME ExecutionInv, PumpInv, PumpStep
  PROVE  PumpInv'
<1> USE DEF ExecutionInv
<1>1. CASE PumpBegin
  <2>1. PumpGoes("sweeping") /\ sessions' = sessions
    BY <1>1, GoesIsPumpGoes DEF PumpBegin, Places
  <2> QED
    BY <1>1, <2>1 DEF PumpBegin, PumpGoes, PumpInv, SessionsArePumps, PumpOwes, LaunchesAreWanted,
       WithSession, OnWorkflow
<1>2. CASE PumpList
  <2>1. PumpGoes("round")
    BY <1>2, GoesIsPumpGoes DEF PumpList, Places
  <2> QED
    BY <1>2, <2>1 DEF PumpList, PumpGoes, PumpInv, SessionsArePumps, PumpOwes, LaunchesAreWanted,
       WithSession, OnWorkflow, Running, run
<1>3. CASE PumpRest
  <2>1. PumpBegins("idle", NoWorkflow)
    BY <1>3, MovesIsPumpBegins DEF PumpRest
  <2> QED
    BY <1>3, <2>1 DEF PumpRest, PumpBegins, PumpInv, SessionsArePumps, PumpOwes, LaunchesAreWanted,
       WithSession, OnWorkflow, Running, Live, Terminal, run
<1>4. ASSUME NEW t \in Tasks, PumpSweep(t)
      PROVE  PumpInv'
  BY <1>4 DEF PumpSweep, PumpInv, SessionsArePumps, PumpOwes, LaunchesAreWanted,
     WithSession, OnWorkflow, memory
<1>5. ASSUME NEW w \in Workflows, PumpTake(w)
      PROVE  PumpInv'
  <2>1. PumpBegins("driving", w)
    BY <1>5, MovesIsPumpBegins DEF PumpTake, DrivingTurn
  <2> QED
    BY <1>5, <2>1 DEF PumpTake, PumpBegins, PumpInv, SessionsArePumps, PumpOwes, LaunchesAreWanted,
       WithSession, OnWorkflow, Running, Live, Terminal, run
<1>6. ASSUME NEW w \in Workflows, DriveEnded(w)
      PROVE  PumpInv'
  <2>1. PumpBegins("round", NoWorkflow)
    BY <1>6, MovesIsPumpBegins DEF DriveEnded
  <2> QED
    BY <1>6, <2>1 DEF DriveEnded, Driving, PumpBegins, PumpInv, SessionsArePumps, PumpOwes,
       LaunchesAreWanted, WithSession, OnWorkflow, Running, Live, Terminal, run
<1>7. ASSUME NEW w \in Workflows, DriveStop(w)
      PROVE  PumpInv'
  <2>1. PumpBegins("round", NoWorkflow)
    BY <1>7, MovesIsPumpBegins DEF DriveStop
  <2>2. ~Running(w)' /\ \A v \in Workflows : Running(v)' => Running(v)
    BY <1>7, StoppedStops, NoneAssumption DEF DriveStop
  <2> QED
    BY <1>7, <2>1, <2>2 DEF DriveStop, Driving, PumpBegins, PumpInv, SessionsArePumps, PumpOwes,
       LaunchesAreWanted, WithSession, OnWorkflow, Live, Terminal
<1>8. ASSUME NEW w \in Workflows, DriveWait(w)
      PROVE  PumpInv'
  <2>1. PumpBegins("round", NoWorkflow)
    BY <1>8, MovesIsPumpBegins DEF DriveWait
  <2>2. ~SessionsOpen
    BY <1>8 DEF DriveWait, Driving, SessionsOpen, PumpInv, SessionsArePumps, WithSession
  <2>3. ~BlockedBySources(w)
    BY <1>8, <2>2 DEF DriveWait, Verdict
  <2>4. \E t \in Tasks : Live(t)
    BY <1>8, <2>3 DEF DriveWait, WorkspaceAvailable
  <2> QED
    BY <1>8, <2>1, <2>4 DEF DriveWait, Driving, PumpBegins, PumpInv, SessionsArePumps, PumpOwes,
       LaunchesAreWanted, WithSession, OnWorkflow, Live, Terminal, run
<1>9. ASSUME NEW w \in Workflows, NEW t \in Tasks, DriveActivate(w, t)
      PROVE  PumpInv'
  <2>1. /\ driver'[Pump].at = "preparing" /\ driver'[Pump].workflow = driver[Pump].workflow
        /\ driver'[Pump].fresh = driver[Pump].fresh
    <3>1. Pump \in Drivers /\ driver[Pump] \in DriverStates
      BY DEF Drivers, TypeOK
    <3>2. driver'[Pump] = [driver[Pump] EXCEPT !.at = "preparing", !.task = t]
      BY <1>9, <3>1 DEF DriveActivate, Moves, TypeOK
    <3> QED
      BY <3>1, <3>2 DEF DriverStates
  <2> QED
    BY <1>9, <2>1 DEF DriveActivate, Driving, PumpInv, SessionsArePumps, PumpOwes,
       LaunchesAreWanted, WithSession, OnWorkflow, Running, Live, Terminal
<1>10. ASSUME NEW w \in Workflows, NEW t \in Tasks, DrivePrepare(w, t)
       PROVE  PumpInv'
  <2>1. PumpGoes("entering")
    BY <1>10, GoesIsPumpGoes DEF DrivePrepare, Places
  <2>2. owner'[t] = driver[Pump].workflow \/ attempt'[t] # "planned"
    BY <1>10 DEF DrivePrepare, TypeOK
  <2>3. \A u \in Tasks : Live(u) => Live(u)'
    BY <1>10 DEF DrivePrepare, TypeOK, Live, Terminal
  <2>4. PumpOwes'
    BY <1>10, <2>1, <2>3 DEF DrivePrepare, PumpGoes, PumpInv, PumpOwes, OnWorkflow, Running
  <2>5. SessionsArePumps' /\ LaunchesAreWanted'
    BY <1>10, <2>1, <2>2 DEF DrivePrepare, PumpGoes, PumpInv, SessionsArePumps, LaunchesAreWanted,
       WithSession, OnWorkflow
  <2> QED
    BY <2>4, <2>5 DEF PumpInv
<1>11. ASSUME NEW w \in Workflows, NEW t \in Tasks, NEW state \in {"revoked", "stopped"},
              DriveRefuse(w, t, state)
       PROVE  PumpInv'
  <2>1. PumpBegins("round", NoWorkflow)
    BY <1>11, MovesIsPumpBegins DEF DriveRefuse
  <2>2. ~Running(w)' /\ \A v \in Workflows : Running(v)' => Running(v)
    BY <1>11, StoppedStops DEF DriveRefuse
  <2> QED
    BY <1>11, <2>1, <2>2 DEF DriveRefuse, PumpBegins, PumpInv, SessionsArePumps, PumpOwes,
       LaunchesAreWanted, WithSession, OnWorkflow, Live, Terminal
<1> QED
  BY <1>1, <1>2, <1>3, <1>4, <1>5, <1>6, <1>7, <1>8, <1>9, <1>10, <1>11 DEF PumpStep


(* The steps that only take the session of the pump from place to place.   *)
LEMMA SessionStepAlone ==
  ASSUME ExecutionInv, PumpInv, NEW t \in Tasks, SessionMoves(Pump, t)
  PROVE  PumpInv'
<1> USE DEF ExecutionInv
<1>1. CASE EnterHandedOff(Pump, t)
  <2>1. PumpGoes("opening")
    BY <1>1, GoesIsPumpGoes DEF EnterHandedOff, Places
  <2> QED
    BY <1>1, <2>1 DEF EnterHandedOff, Entering, PumpGoes, PumpInv, SessionsArePumps, PumpOwes,
       LaunchesAreWanted, WithSession, OnWorkflow
<1>2. CASE Open(Pump, t)
  <2>1. \E place \in {"launching", "reconciling"} :
          PumpGoes(place) /\ (place = "launching" => driver[Pump].fresh)
    BY <1>2, GoesIsPumpGoes DEF Open, Places
  <2>2. /\ sessions'[t] = Pump /\ t = driver[Pump].task
        /\ \A u \in Tasks \ {t} : sessions'[u] = NoDriver
    BY <1>2 DEF Open, At, PumpInv, SessionsArePumps, WithSession, TypeOK
  <2>3. driver[Pump].fresh =>
          /\ attempt[t] = "launch_intent_committed" /\ owner[t] = driver[Pump].workflow
          /\ owner[t] \in Workflows /\ workflow[owner[t]].state = "running"
    BY <1>2 DEF Open, At, PumpInv, LaunchesAreWanted, MayHandOff, Authorised, Running, TypeOK
  <2> QED
    BY <1>2, <2>1, <2>2, <2>3 DEF Open, At, PumpGoes, PumpInv, SessionsArePumps, PumpOwes,
       LaunchesAreWanted, WithSession, OnWorkflow, run
<1>3. ASSUME \/ OpenFails(Pump, t) \/ LaunchFails(Pump, t) \/ Unobservable(Pump, t)
             \/ ReconcileFails(Pump, t) \/ CollectFails(Pump, t)
      PROVE  PumpInv'
  <2>1. PumpGoes("failing") /\ sessions' = sessions
    BY <1>3, GoesIsPumpGoes
    DEF OpenFails, LaunchFails, Unobservable, ReconcileFails, CollectFails, Places
  <2> QED
    BY <2>1 DEF PumpGoes, PumpInv, SessionsArePumps, PumpOwes, LaunchesAreWanted, WithSession,
       OnWorkflow
<1>4. CASE ReconcileFound(Pump, t)
  <2>1. PumpGoes("collecting") /\ sessions' = sessions
    BY <1>4, GoesIsPumpGoes DEF ReconcileFound, Places
  <2> QED
    BY <2>1 DEF PumpGoes, PumpInv, SessionsArePumps, PumpOwes, LaunchesAreWanted, WithSession,
       OnWorkflow
<1> QED
  BY <1>1, <1>2, <1>3, <1>4 DEF SessionMoves

(* The steps of the attempt that the pump drives.                          *)
LEMMA AttemptStepAlone ==
  ASSUME ExecutionInv, PumpInv, AttemptStep(Pump)
  PROVE  PumpInv'
<1> USE DEF ExecutionInv
<1>1. PICK t \in Tasks :
        \/ SessionMoves(Pump, t) \/ CollectAgain(Pump, t) \/ FailOnly(Pump, t)
        \/ EnterTerminal(Pump, t) \/ CommitIntent(Pump, t) \/ EnterRefused(Pump, t)
        \/ HandOff(Pump, t) \/ Spawn(Pump, t)
        \/ \E outcome \in Outcomes : Settle(Pump, t, outcome)
        \/ Record(Pump, t) \/ Collect(Pump, t) \/ Resolve(Pump, t) \/ Acknowledge(Pump, t)
        \/ RequireReconciliation(Pump, t) \/ FailAttempt(Pump, t) \/ Close(Pump, t)
  BY DEF AttemptStep, SessionMoves
<1>2. ASSUME CollectAgain(Pump, t) \/ FailOnly(Pump, t) \/ Resolve(Pump, t) \/ FailAttempt(Pump, t)
      PROVE  PumpInv'
  <2>1. driver'[Pump].at = "closing" /\ \A u \in Tasks : sessions'[u] = NoDriver
    BY <1>2, ClosingIsPumpCloses
    DEF CollectAgain, FailOnly, Resolve, FailAttempt, At, PumpInv
  <2> QED
    BY <2>1 DEF PumpInv, SessionsArePumps, PumpOwes, LaunchesAreWanted, OnWorkflow
<1>3. CASE EnterTerminal(Pump, t)
  <2>1. /\ driver'[Pump].at = "driving" /\ driver'[Pump].workflow = driver[Pump].workflow
        /\ driver'[Pump].fresh = driver[Pump].fresh
    <3>1. Pump \in Drivers /\ driver[Pump] \in DriverStates
      BY DEF Drivers, TypeOK
    <3>2. driver'[Pump] = [driver[Pump] EXCEPT !.at = "driving", !.task = NoTask]
      BY <1>3, <3>1 DEF EnterTerminal, Moves, TypeOK
    <3> QED
      BY <3>1, <3>2 DEF DriverStates
  <2> QED
    BY <1>3, <2>1 DEF EnterTerminal, Entering, PumpInv, SessionsArePumps, PumpOwes,
       LaunchesAreWanted, WithSession, OnWorkflow, Running, Live, Terminal
<1>4. CASE CommitIntent(Pump, t)
  <2>1. /\ driver'[Pump].at = "opening" /\ driver'[Pump].workflow = driver[Pump].workflow
        /\ driver'[Pump].task = t
    <3>1. Pump \in Drivers /\ driver[Pump] \in DriverStates
      BY DEF Drivers, TypeOK
    <3>2. driver'[Pump] = [driver[Pump] EXCEPT !.at = "opening", !.fresh = TRUE]
      BY <1>4, <3>1 DEF CommitIntent, Moves, TypeOK
    <3> QED
      BY <1>4, <3>1, <3>2 DEF DriverStates, CommitIntent, Entering
  <2> QED
    BY <1>4, <2>1 DEF CommitIntent, Entering, PumpInv, SessionsArePumps, PumpOwes,
       LaunchesAreWanted, WithSession, OnWorkflow
<1>5. CASE EnterRefused(Pump, t)
  <2>1. PumpBegins("round", NoWorkflow)
    BY <1>5, MovesIsPumpBegins DEF EnterRefused
  <2>2. \A v \in Workflows : Running(v)' => Running(v) /\ v # driver[Pump].workflow
    <3>1. CASE driver[Pump].workflow \in Workflows
      BY <1>5, <3>1, StoppedStops DEF EnterRefused
    <3>2. CASE driver[Pump].workflow = NoWorkflow
      BY <1>5, <3>2, NoneAssumption DEF EnterRefused, Stopped, Running
    <3> QED
      BY <3>1, <3>2, DriverIsTyped DEF Drivers
  <2> QED
    BY <1>5, <2>1, <2>2 DEF EnterRefused, Entering, PumpBegins, PumpInv, SessionsArePumps, PumpOwes,
       LaunchesAreWanted, WithSession, OnWorkflow, Live, Terminal
<1>6. CASE HandOff(Pump, t)
  <2>1. PumpGoes("spawning")
    BY <1>6, GoesIsPumpGoes DEF HandOff, Places
  <2> QED
    BY <1>6, <2>1 DEF HandOff, At, PumpGoes, PumpInv, SessionsArePumps, PumpOwes, LaunchesAreWanted,
       WithSession, OnWorkflow, run
<1>7. ASSUME NEW place \in {"awaiting", "recording", "collecting", "resolving"},
             PumpGoes(place), sessions' = sessions, driver[Pump].at \in WithSession
      PROVE  PumpInv'
  BY <1>7 DEF PumpGoes, PumpInv, SessionsArePumps, PumpOwes, LaunchesAreWanted, WithSession,
     OnWorkflow
<1>8. ASSUME \/ Spawn(Pump, t) \/ Record(Pump, t) \/ Collect(Pump, t)
             \/ \E outcome \in Outcomes : Settle(Pump, t, outcome)
      PROVE  PumpInv'
  <2>1. \E place \in {"awaiting", "recording", "collecting", "resolving"} : PumpGoes(place)
    BY <1>8, GoesIsPumpGoes DEF Spawn, Record, Collect, Settle, Places
  <2>2. sessions' = sessions /\ driver[Pump].at \in WithSession
    BY <1>8 DEF Spawn, Record, Collect, Settle, At, WithSession
  <2> QED
    BY <1>7, <2>1, <2>2
<1>9. CASE RequireReconciliation(Pump, t)
  BY <1>9 DEF RequireReconciliation, At, PumpInv, SessionsArePumps, PumpOwes, LaunchesAreWanted,
     OnWorkflow, memory
<1>10. CASE Close(Pump, t)
  <2>1. \E place \in {"driving", "round"}, w \in Workflows \cup {NoWorkflow} : PumpBegins(place, w)
    BY <1>10, MovesIsPumpBegins, DriverIsTyped DEF Close, DrivingTurn, Drivers
  <2> QED
    BY <1>10, <2>1 DEF Close, At, PumpBegins, PumpInv, SessionsArePumps, PumpOwes,
       LaunchesAreWanted, WithSession, OnWorkflow
<1>11. ~Acknowledge(Pump, t)
  BY DEF Acknowledge, At, PumpInv, SessionsArePumps
<1> QED
  BY <1>1, <1>2, <1>3, <1>4, <1>5, <1>6, <1>8, <1>9, <1>10, <1>11, SessionStepAlone

(* The steps of clients but their requests.                                *)
LEMMA ClientStepAlone ==
  ASSUME ExecutionInv, PumpInv, Requests = {}, ClientStep
  PROVE  PumpInv'
<1> USE DEF ExecutionInv
<1>1. ASSUME NEW o \in Operations, Start(o[1], o[2], o[3])
      PROVE  PumpInv'
  <2>1. o[1] \in Workflows
    BY OperationsAssumption
  <2>2. \A w \in Workflows : workflow[w].state # "cancelled" => workflow'[w].state # "cancelled"
    BY <1>1, <2>1 DEF Start, TypeOK
  <2>3. \A u \in Tasks : owner[u] \in Workflows \cup {NoWorkflow}
    BY DEF TypeOK
  <2> QED
    BY <1>1, <2>2, <2>3 DEF Start, PumpInv, SessionsArePumps, PumpOwes, LaunchesAreWanted
<1>2. ASSUME NEW t \in Tasks, Cancel(t)
      PROVE  PumpInv'
  <2> DEFINE stops == {w \in Workflows : Running(w) /\ workflow[w].target = t}
  <2>1. /\ driver'[Pump].at = driver[Pump].at /\ driver'[Pump].task = driver[Pump].task
        /\ driver'[Pump].workflow = driver[Pump].workflow
        /\ driver'[Pump].fresh = driver[Pump].fresh
        /\ ~driver'[Pump].aborted => ~driver[Pump].aborted /\ ~ClosedByCancel(Pump, t, stops)
    <3>1. Pump \in Drivers /\ driver[Pump] \in DriverStates
      BY DEF Drivers, TypeOK
    <3>2. driver'[Pump] = IF ClosedByCancel(Pump, t, stops)
                          THEN [driver[Pump] EXCEPT !.aborted = TRUE] ELSE driver[Pump]
      BY <1>2, <3>1 DEF Cancel
    <3> HIDE DEF stops
    <3> QED
      BY <3>1, <3>2 DEF DriverStates
  <2>2. /\ \A w \in Workflows : Running(w)' => Running(w)
        /\ \A w \in Workflows \ stops : workflow'[w] = workflow[w]
    BY <1>2 DEF Cancel, TypeOK, Running
  <2>3. \A u \in Tasks : Live(u) => Live(u)'
    BY <1>2 DEF Cancel, AfterCancel, Live, Terminal, Outcomes, TypeOK
  <2>4. \A u \in Tasks \ {t} : attempt'[u] = attempt[u]
    BY <1>2 DEF Cancel, TypeOK
  <2>5. attempt'[t] = "planned" => attempt[t] = "planned"
    BY <1>2 DEF Cancel, AfterCancel, TypeOK, Live
  <2>6. sessions' = sessions /\ owner' = owner /\ UNCHANGED <<requested, todo, stopping>>
    BY <1>2 DEF Cancel
  <2>7. SessionsArePumps' /\ PumpOwes'
    BY <2>1, <2>2, <2>3, <2>6 DEF PumpInv, SessionsArePumps, PumpOwes
  <2>8. ASSUME driver[Pump].at \in {"launching", "spawning"}, ~driver'[Pump].aborted
        PROVE  /\ driver[Pump].task \in Tasks \ {t}
               /\ owner[driver[Pump].task] \notin stops
    <3>1. driver[Pump].task \in Tasks
      BY <2>8, FitsHere DEF Kept, DriversFit, Fits, InSession, Drivers
    <3>2. sessions[driver[Pump].task] = Pump
      BY <2>8 DEF PumpInv, SessionsArePumps
    <3> QED
      BY <2>1, <2>8, <3>1, <3>2 DEF ClosedByCancel
  <2>9. LaunchesAreWanted'
    <3> HIDE DEF stops
    <3>1. ASSUME driver'[Pump].at \in {"launching", "spawning"}, ~driver'[Pump].aborted
          PROVE  LET u == driver'[Pump].task
                 IN  /\ attempt'[u] = "launch_intent_committed"
                     /\ owner'[u] \in Workflows /\ workflow'[owner'[u]].state # "cancelled"
      <4>1. LET u == driver[Pump].task
            IN  /\ u \in Tasks \ {t} /\ owner[u] \notin stops
                /\ attempt[u] = "launch_intent_committed"
                /\ owner[u] \in Workflows /\ workflow[owner[u]].state # "cancelled"
        BY <2>1, <2>8, <3>1 DEF PumpInv, LaunchesAreWanted
      <4> QED
        BY <2>1, <2>2, <2>4, <2>6, <4>1
    <3>2. driver[Pump].at # "entering"
      <4>1. Pump \in Drivers /\ loop = NoDriver
        BY <1>2 DEF Cancel, Free, Drivers
      <4> QED
        BY <4>1, NoneAssumption DEF Kept, LoopIsHeld, Sections
    <3> QED
      BY <2>1, <2>6, <3>1, <3>2 DEF PumpInv, LaunchesAreWanted
  <2> QED
    BY <2>7, <2>9 DEF PumpInv
<1>3. CASE Revoke
  BY <1>3 DEF Revoke, PumpInv, SessionsArePumps, PumpOwes, LaunchesAreWanted, OnWorkflow, Running,
     Live, Terminal, run, memory
<1> QED
  BY <1>1, <1>2, <1>3 DEF ClientStep


(* Every step of a daemon without requests keeps the invariant, and what   *)
(* it starts was not cancelled.                                            *)
LEMMA NextAlone ==
  ASSUME ExecutionInv, PumpInv, Requests = {}, [Next]_vars
  PROVE  PumpInv'
<1>1. CASE \E t \in Tasks : NativeEnds(t)
  BY <1>1 DEF NativeEnds, PumpInv, SessionsArePumps, PumpOwes, LaunchesAreWanted, Running, Live,
     Terminal, run, memory
<1>2. CASE Crash \/ Restart
  <2>1. Boot /\ Pump \in Drivers
    BY <1>2 DEF Crash, Restart, Drivers
  <2>2. /\ driver'[Pump].at = "idle" /\ requested' /\ todo' = {}
        /\ \A t \in Tasks : sessions'[t] = NoDriver
    BY SMTT(30), <2>1 DEF Boot, Idle
  <2> QED
    BY <2>2 DEF PumpInv, SessionsArePumps, PumpOwes, LaunchesAreWanted, OnWorkflow
<1>3. CASE Shutdown
  <2>1. /\ driver'[Pump].at = driver[Pump].at /\ driver'[Pump].task = driver[Pump].task
        /\ driver'[Pump].workflow = driver[Pump].workflow
        /\ driver'[Pump].fresh = driver[Pump].fresh
        /\ ~driver'[Pump].aborted => ~driver[Pump].aborted
    <3>1. Pump \in Drivers /\ driver[Pump] \in DriverStates
      BY DEF Drivers, ExecutionInv, TypeOK
    <3>2. \/ driver'[Pump] = [driver[Pump] EXCEPT !.aborted = TRUE]
          \/ driver'[Pump] = driver[Pump]
      BY <1>3, <3>1 DEF Shutdown
    <3> QED
      BY <3>1, <3>2 DEF DriverStates
  <2> QED
    BY <1>3, <2>1 DEF Shutdown, PumpInv, SessionsArePumps, PumpOwes, LaunchesAreWanted, run
<1>4. CASE UNCHANGED vars
  BY <1>4 DEF PumpInv, SessionsArePumps, PumpOwes, LaunchesAreWanted, Running, Live, Terminal,
     vars, run, memory
<1>5. \A d \in Drivers : d = Pump
  BY DEF Drivers
<1> QED
  BY <1>1, <1>2, <1>3, <1>4, <1>5, PumpStepAlone, AttemptStepAlone, ClientStepAlone DEF Next

(* Only Spawn makes a process run.                                         *)
LEMMA NativeStarts ==
  ASSUME TypeOK, Requests = {}, [Next]_vars, NEW t \in Tasks,
         native[t] # "running", native'[t] = "running"
  PROVE  \E u \in Tasks : Spawn(Pump, u)
<1>1. \A d \in Drivers : d = Pump
  BY SMTT(60) DEF Drivers
<1>2. ASSUME PumpStep
      PROVE  native' = native
  BY <1>2 DEF PumpStep, PumpBegin, PumpList, PumpRest, PumpSweep, PumpTake, DriveEnded, DriveStop,
     DriveWait, DriveActivate, DrivePrepare, DriveRefuse, host
<1>3. ASSUME AttemptStep(Pump)
      PROVE  native' = native \/ \E u \in Tasks : Spawn(Pump, u)
  BY <1>3 DEF AttemptStep, EnterTerminal, CommitIntent, EnterRefused, EnterHandedOff, Open,
     OpenFails, HandOff, LaunchFails, Settle, Unobservable, Record, ReconcileFound, ReconcileFails,
     Collect, CollectAgain, CollectFails, Resolve, Acknowledge, RequireReconciliation, FailAttempt,
     FailOnly, Close, host
<1>4. ASSUME ClientStep
      PROVE  native' = native
  BY <1>4 DEF ClientStep, Start, Cancel, Dispatch, SubmitReceipt, Revoke, host
<1>5. ASSUME NEW u \in Tasks, NativeEnds(u)
      PROVE  native'[t] # "running"
  BY <1>5 DEF NativeEnds, TypeOK
<1>6. Crash \/ Shutdown \/ Restart \/ UNCHANGED vars => native' = native
  BY DEF Crash, Shutdown, Restart, vars, host
<1> QED
  BY <1>1, <1>2, <1>3, <1>4, <1>5, <1>6 DEF Next

(* It holds in every state of a daemon without requests.                   *)
LEMMA AlwaysAlone ==
  ASSUME Requests = {}
  PROVE  Spec => []PumpInv
<1>1. Init => PumpInv
  <2> SUFFICES ASSUME Init
               PROVE  PumpInv
    OBVIOUS
  <2>1. Pump \in Drivers
    BY DEF Drivers
  <2>2. driver[Pump].at = "idle"
    BY <2>1 DEF Init, Idle
  <2>3. \A w \in Workflows : workflow[w].state = "absent"
    BY DEF Init
  <2> QED
    BY <2>2, <2>3 DEF Init, PumpInv, SessionsArePumps, PumpOwes, LaunchesAreWanted, OnWorkflow,
       WithSession, Running
<1>2. ExecutionInv /\ PumpInv /\ [Next]_vars => PumpInv'
  BY NextAlone
<1> QED
  BY <1>1, <1>2, ExecutionIsSound, PTL DEF Spec

(* When the pump rests with no wake-up pending, a workflow that still runs *)
(* waits for a live attempt: the pump alone loses no wake-up, whatever is  *)
(* started, cancelled, revoked or crashes (wake, driveWorkflow).           *)
THEOREM NothingIsForgotten ==
  ASSUME Requests = {}
  PROVE  Spec => []NothingForgotten
<1>1. PumpInv /\ ExecutionInv => NothingForgotten
  <2> SUFFICES ASSUME PumpInv, ExecutionInv, driver[Pump].at = "idle", ~requested, ~stopping,
                      NEW w \in Workflows, Running(w)
               PROVE  \E t \in Tasks : Live(t)
    BY DEF NothingForgotten
  <2> QED
    BY DEF PumpInv, PumpOwes, OnWorkflow
<1> QED
  BY <1>1, AlwaysAlone, ExecutionIsSound, PTL

(* Once a cancel is durable for an attempt or for its workflow, the pump   *)
(* alone starts no process for it that is left to run (docs/cli.md: cancel *)
(* durably stops the target/workflow's future launches).                   *)
THEOREM CancelsStopLaunches ==
  ASSUME Requests = {}
  PROVE  Spec => NoStartAfterCancel
<1> DEFINE A == \A t \in Tasks :
                  native[t] # "running" /\ native'[t] = "running"
                    => attempt[t] # "cancel_requested" /\ workflow[owner[t]].state # "cancelled"
<1>1. ExecutionInv /\ PumpInv /\ [Next]_vars => A
  <2> SUFFICES ASSUME ExecutionInv, PumpInv, [Next]_vars, NEW t \in Tasks,
                      native[t] # "running", native'[t] = "running"
               PROVE  attempt[t] # "cancel_requested" /\ workflow[owner[t]].state # "cancelled"
    OBVIOUS
  <2>1. PICK u \in Tasks : Spawn(Pump, u)
    BY NativeStarts DEF ExecutionInv
  <2>2. u = t /\ ~driver[Pump].aborted /\ driver[Pump].task = t /\ driver[Pump].at = "spawning"
    BY <2>1 DEF Spawn, At, ExecutionInv, TypeOK
  <2> QED
    BY <2>2 DEF PumpInv, LaunchesAreWanted
<1>2. NoStartAfterCancel <=> [][A]_vars
  BY DEF NoStartAfterCancel
<1> HIDE DEF A
<1> QED
  BY <1>1, <1>2, ExecutionIsSound, AlwaysAlone, PTL DEF Spec


=============================================================================
