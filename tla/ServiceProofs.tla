----------------------------- MODULE ServiceProofs -----------------------------
(***************************************************************************)
(* Proofs about the modules around the authority: the processes of the     *)
(* daemon, the joins of tasks, the arbitration of receipts, the admission  *)
(* of proposals, the installer with its migrations and its journal, and the *)
(* restores of the authority.                                              *)
(* The modules share no state; each section is about one of them, and ends *)
(* with its theorem.                                                       *)
(***************************************************************************)
EXTENDS DaemonLife, TaskJoin, ReceiptArbitration, DeltaAdmission, InstallLifecycle,
  InstallMigration, InstallJournal, AuthorityRestore, FiniteSetTheorems, SequenceTheorems,
  WellFoundedInduction, TLAPS

-------------------------------------------------------------------------------
(* The life of the daemon (DaemonLife).                                    *)

DaemonKinds == {"none", "init", "bootstrap", "start", "rebind"}

(* The steps of the start of a daemon before it serves.                    *)
Starting == {"opening", "recovering", "clearing", "listening", "publishing"}
ServingSteps == {"clearing", "listening", "publishing", "serving", "closing", "stopping", "exiting"}
Ceremony == {"consuming", "checking", "appending", "failing", "cleaning", "granting"}

DaemonSteps == {"none", "opening", "recovering", "creating", "writing", "leaving"} \cup Ceremony \cup ServingSteps

ProcessesAreTyped ==
  /\ daemon \in [Daemons -> [at : DaemonSteps, kind : DaemonKinds, saw : BOOLEAN]]
  /\ \A d \in Daemons :
       /\ Is(d, "none") <=> daemon[d].kind = "none"
       /\ daemon[d].at \in {"creating", "writing"} => daemon[d].kind = "init"
       /\ daemon[d].at \in ServingSteps => daemon[d].kind = "start"

(* What a process saw of the genesis event stays so.                       *)
GenesisStays ==
  \A d \in Daemons :
    /\ daemon[d].saw => workspace.genesis
    /\ Is(d, "cleaning") => workspace.genesis

(* The capability is created once, by the one init of the workspace.       *)
CreatedOnce ==
  /\ \A d, e \in Daemons : daemon[d].kind = "init" /\ daemon[e].kind = "init" => d = e
  /\ ~workspace.used =>
       /\ ~written /\ capability.ready = "absent"
       /\ \A d \in Daemons : ~Is(d, "none") => daemon[d].kind = "init" /\ Is(d, "opening")
  /\ ~written =>
       /\ capability.consuming = "absent" /\ capability.ready # "whole"
       /\ ~workspace.genesis /\ ~workspace.granted
       /\ \A d \in Daemons :
            /\ daemon[d].at \in {"none", "opening", "recovering", "creating", "writing", "leaving"}
            /\ daemon[d].kind \in {"none", "init", "rebind"}
  /\ written =>
       /\ "torn" \notin {capability.ready, capability.consuming}
       /\ \A d \in Daemons : daemon[d].at \notin {"creating", "writing"}
  /\ \A d \in Daemons :
       daemon[d].kind = "init" /\ daemon[d].at \in {"opening", "recovering"} => ~written
  /\ \A d \in Daemons : daemon[d].kind = "init" /\ Is(d, "opening") => ~workspace.used

(* One daemon at a time is on its way to serve, serves or stops.           *)
OneServer ==
  /\ \A d \in Daemons : daemon[d].at \in {"serving", "closing", "stopping"} => endpoint = d
  /\ \A d \in Daemons : daemon[d].at \in {"publishing", "serving"} => socket = d
  /\ \A d, e \in Daemons :
       /\ daemon[d].kind = "start" /\ daemon[d].at \in Starting
       /\ daemon[e].kind = "start" /\ daemon[e].at \in Starting \cup {"serving", "closing", "stopping"}
       => d = e

DaemonInv ==
  /\ DaemonTypeOK /\ ProcessesAreTyped /\ GenesisStays /\ CreatedOnce /\ CapabilityIsNotLost
  /\ OneServer

(* What one process does.                                                  *)
DaemonStep(d) ==
  \/ LaunchInit(d) \/ LaunchBootstrap(d) \/ LaunchStart(d) \/ LaunchRebind(d)
  \/ Construct(d) \/ RecoverInterruptedConsumption(d) \/ CreateCapability(d) \/ WriteCapability(d)
  \/ TakeCapability(d) \/ CheckCapability(d) \/ AppendGenesis(d) \/ FinishOpening(d)
  \/ WriteGrantReference(d) \/ ClearSocket(d) \/ Listen(d) \/ Publish(d)
  \/ StartFails(d) \/ Terminate(d) \/ CloseTransport(d) \/ StopExecution(d)
  \/ Exit(d) \/ ProcessDies(d)

LEMMA ConstructMoves ==
  ASSUME ProcessesAreTyped, NEW d \in Daemons, Construct(d)
  PROVE  daemon' = [daemon EXCEPT ![d] = [at |-> "recovering", kind |-> daemon[d].kind,
                                          saw |-> workspace.genesis]]
<1>1. daemon \in [Daemons -> [at : DaemonSteps, kind : DaemonKinds, saw : BOOLEAN]]
  BY DEF ProcessesAreTyped
<1> DEFINE opened == [daemon[d] EXCEPT !.at = "recovering"]
<1>2. opened = [at |-> "recovering", kind |-> daemon[d].kind, saw |-> daemon[d].saw]
  BY <1>1
<1>3. daemon' = [daemon EXCEPT ![d] = [opened EXCEPT !.saw = workspace.genesis]]
  BY <1>1 DEF Construct
<1> HIDE DEF opened
<1>4. [opened EXCEPT !.saw = workspace.genesis]
        = [at |-> "recovering", kind |-> daemon[d].kind, saw |-> workspace.genesis]
  BY <1>2
<1>5. QED
  BY <1>3, <1>4

(* No step breaks the types of the files and of the bounds.                *)
LEMMA DaemonTypesStay ==
  ASSUME DaemonTypeOK, ProcessesAreTyped,
         NEW d \in Daemons, DaemonStep(d)
  PROVE  DaemonTypeOK'
<1> USE NoDaemonAssumption, DaemonBoundsAssumption DEF NowIs, Is, Alive, ProcessEnds, NotRunning, KeepsBootstrap, KeepsEndpoint,
          DaemonTypeOK, ProcessesAreTyped, CapabilityCopies, DaemonSteps, DaemonKinds, Ceremony, ServingSteps
<1>1. CASE LaunchInit(d)
  BY <1>1 DEF LaunchInit, Launch
<1>2. CASE LaunchBootstrap(d)
  BY <1>2 DEF LaunchBootstrap, Launch
<1>3. CASE LaunchStart(d)
  BY <1>3 DEF LaunchStart, Launch, StartsAlone
<1>4. CASE LaunchRebind(d)
  BY <1>4 DEF LaunchRebind, Launch
<1>5. CASE Construct(d)
  BY <1>5 DEF Construct
<1>6. CASE RecoverInterruptedConsumption(d)
  BY <1>6 DEF RecoverInterruptedConsumption, Recovered, PutsBack
<1>7. CASE CreateCapability(d)
  BY <1>7 DEF CreateCapability
<1>8. CASE WriteCapability(d)
  BY <1>8 DEF WriteCapability
<1>9. CASE TakeCapability(d)
  BY <1>9 DEF TakeCapability
<1>10. CASE CheckCapability(d)
  BY <1>10 DEF CheckCapability
<1>11. CASE AppendGenesis(d)
  BY <1>11 DEF AppendGenesis
<1>12. CASE FinishOpening(d)
  BY <1>12 DEF FinishOpening, PutsBack
<1>13. CASE WriteGrantReference(d)
  BY <1>13 DEF WriteGrantReference
<1>14. CASE ClearSocket(d)
  BY <1>14 DEF ClearSocket
<1>15. CASE Listen(d)
  BY <1>15 DEF Listen
<1>16. CASE Publish(d)
  BY <1>16 DEF Publish
<1>17. CASE StartFails(d)
  BY <1>17 DEF StartFails
<1>18. CASE Terminate(d)
  BY <1>18 DEF Terminate
<1>19. CASE CloseTransport(d)
  BY <1>19 DEF CloseTransport
<1>20. CASE StopExecution(d)
  BY <1>20 DEF StopExecution
<1>21. CASE Exit(d)
  BY <1>21 DEF Exit
<1>22. CASE ProcessDies(d)
  BY <1>22 DEF ProcessDies
<1>23. QED
  BY <1>1, <1>2, <1>3, <1>4, <1>5, <1>6, <1>7, <1>8, <1>9, <1>10, <1>11, <1>12,
     <1>13, <1>14, <1>15, <1>16, <1>17, <1>18, <1>19, <1>20, <1>21, <1>22
  DEF DaemonStep

(* Nor those of the processes: what a step does is of the kind of its      *)
(* process.                                                                *)
LEMMA ProcessTypesStay ==
  ASSUME DaemonTypeOK, ProcessesAreTyped,
         NEW d \in Daemons, DaemonStep(d)
  PROVE  ProcessesAreTyped'
<1> USE NoDaemonAssumption DEF NowIs, Is, Alive, ProcessEnds, NotRunning, KeepsBootstrap, KeepsEndpoint,
          DaemonTypeOK, ProcessesAreTyped, DaemonSteps, DaemonKinds, Ceremony, ServingSteps
<1>1. CASE LaunchInit(d)
  BY <1>1 DEF LaunchInit, Launch
<1>2. CASE LaunchBootstrap(d)
  BY <1>2 DEF LaunchBootstrap, Launch
<1>3. CASE LaunchStart(d)
  BY <1>3 DEF LaunchStart, Launch, StartsAlone
<1>4. CASE LaunchRebind(d)
  BY <1>4 DEF LaunchRebind, Launch
<1>5. CASE Construct(d)
  <2>1. daemon' = [daemon EXCEPT ![d] = [at |-> "recovering", kind |-> daemon[d].kind,
                                         saw |-> workspace.genesis]]
    BY <1>5, ConstructMoves
  <2>2. /\ workspace.genesis \in BOOLEAN
        /\ daemon[d].kind \in DaemonKinds \ {"none"}
    BY <1>5 DEF Construct
  <2>3. [at |-> "recovering", kind |-> daemon[d].kind, saw |-> workspace.genesis]
          \in [at : DaemonSteps, kind : DaemonKinds, saw : BOOLEAN]
    BY <2>2
  <2>4. QED
    BY <2>1, <2>2, <2>3
<1>6. CASE RecoverInterruptedConsumption(d)
  BY <1>6 DEF RecoverInterruptedConsumption, Recovered, PutsBack
<1>7. CASE CreateCapability(d)
  BY <1>7 DEF CreateCapability
<1>8. CASE WriteCapability(d)
  BY <1>8 DEF WriteCapability
<1>9. CASE TakeCapability(d)
  BY <1>9 DEF TakeCapability
<1>10. CASE CheckCapability(d)
  BY <1>10 DEF CheckCapability
<1>11. CASE AppendGenesis(d)
  BY <1>11 DEF AppendGenesis
<1>12. CASE FinishOpening(d)
  BY <1>12 DEF FinishOpening, PutsBack
<1>13. CASE WriteGrantReference(d)
  BY <1>13 DEF WriteGrantReference
<1>14. CASE ClearSocket(d)
  BY <1>14 DEF ClearSocket
<1>15. CASE Listen(d)
  BY <1>15 DEF Listen
<1>16. CASE Publish(d)
  BY <1>16 DEF Publish
<1>17. CASE StartFails(d)
  BY <1>17 DEF StartFails
<1>18. CASE Terminate(d)
  BY <1>18 DEF Terminate
<1>19. CASE CloseTransport(d)
  BY <1>19 DEF CloseTransport
<1>20. CASE StopExecution(d)
  BY <1>20 DEF StopExecution
<1>21. CASE Exit(d)
  BY <1>21 DEF Exit
<1>22. CASE ProcessDies(d)
  BY <1>22 DEF ProcessDies
<1>23. QED
  BY <1>1, <1>2, <1>3, <1>4, <1>5, <1>6, <1>7, <1>8, <1>9, <1>10, <1>11, <1>12,
     <1>13, <1>14, <1>15, <1>16, <1>17, <1>18, <1>19, <1>20, <1>21, <1>22
  DEF DaemonStep

(* The genesis event is never undone.                                      *)
LEMMA GenesisIsForGood ==
  ASSUME DaemonTypeOK, ProcessesAreTyped, GenesisStays,
         NEW d \in Daemons, DaemonStep(d)
  PROVE  GenesisStays'
<1> USE NoDaemonAssumption DEF NowIs, Is, Alive, ProcessEnds, NotRunning, KeepsBootstrap, KeepsEndpoint,
          GenesisStays, DaemonTypeOK, ProcessesAreTyped
<1>1. CASE LaunchInit(d)
  BY <1>1 DEF LaunchInit, Launch
<1>2. CASE LaunchBootstrap(d)
  BY <1>2 DEF LaunchBootstrap, Launch
<1>3. CASE LaunchStart(d)
  BY <1>3 DEF LaunchStart, Launch, StartsAlone
<1>4. CASE LaunchRebind(d)
  BY <1>4 DEF LaunchRebind, Launch
<1>5. CASE Construct(d)
  BY <1>5 DEF Construct
<1>6. CASE RecoverInterruptedConsumption(d)
  BY <1>6 DEF RecoverInterruptedConsumption, Recovered, PutsBack
<1>7. CASE CreateCapability(d)
  BY <1>7 DEF CreateCapability
<1>8. CASE WriteCapability(d)
  BY <1>8 DEF WriteCapability
<1>9. CASE TakeCapability(d)
  BY <1>9 DEF TakeCapability
<1>10. CASE CheckCapability(d)
  BY <1>10 DEF CheckCapability
<1>11. CASE AppendGenesis(d)
  BY <1>11 DEF AppendGenesis
<1>12. CASE FinishOpening(d)
  BY <1>12 DEF FinishOpening, PutsBack
<1>13. CASE WriteGrantReference(d)
  BY <1>13 DEF WriteGrantReference
<1>14. CASE ClearSocket(d)
  BY <1>14 DEF ClearSocket
<1>15. CASE Listen(d)
  BY <1>15 DEF Listen
<1>16. CASE Publish(d)
  BY <1>16 DEF Publish
<1>17. CASE StartFails(d)
  BY <1>17 DEF StartFails
<1>18. CASE Terminate(d)
  BY <1>18 DEF Terminate
<1>19. CASE CloseTransport(d)
  BY <1>19 DEF CloseTransport
<1>20. CASE StopExecution(d)
  BY <1>20 DEF StopExecution
<1>21. CASE Exit(d)
  BY <1>21 DEF Exit
<1>22. CASE ProcessDies(d)
  BY SMTT(30), <1>22 DEF ProcessDies
<1>23. QED
  BY <1>1, <1>2, <1>3, <1>4, <1>5, <1>6, <1>7, <1>8, <1>9, <1>10, <1>11, <1>12,
     <1>13, <1>14, <1>15, <1>16, <1>17, <1>18, <1>19, <1>20, <1>21, <1>22
  DEF DaemonStep

(* No process creates the capability a second time, or takes it before it  *)
(* is whole.                                                               *)
LEMMA CreationStays ==
  ASSUME DaemonTypeOK, ProcessesAreTyped, GenesisStays, CreatedOnce,
         NEW d \in Daemons, DaemonStep(d)
  PROVE  CreatedOnce'
<1> USE NoDaemonAssumption DEF NowIs, Is, Alive, ProcessEnds, NotRunning, KeepsBootstrap, KeepsEndpoint,
          CreatedOnce, GenesisStays, DaemonTypeOK, ProcessesAreTyped, CapabilityCopies,
          DaemonSteps, DaemonKinds, Ceremony, ServingSteps
<1>1. CASE LaunchInit(d)
  BY <1>1 DEF LaunchInit, Launch
<1>2. CASE LaunchBootstrap(d)
  BY <1>2 DEF LaunchBootstrap, Launch
<1>3. CASE LaunchStart(d)
  BY <1>3 DEF LaunchStart, Launch, StartsAlone
<1>4. CASE LaunchRebind(d)
  BY <1>4 DEF LaunchRebind, Launch
<1>5. CASE Construct(d)
  BY <1>5 DEF Construct
<1>6. CASE RecoverInterruptedConsumption(d)
  BY <1>6 DEF RecoverInterruptedConsumption, Recovered, PutsBack
<1>7. CASE CreateCapability(d)
  BY <1>7 DEF CreateCapability
<1>8. CASE WriteCapability(d)
  BY <1>8 DEF WriteCapability
<1>9. CASE TakeCapability(d)
  BY SMTT(30), <1>9 DEF TakeCapability
<1>10. CASE CheckCapability(d)
  BY <1>10 DEF CheckCapability
<1>11. CASE AppendGenesis(d)
  BY <1>11 DEF AppendGenesis
<1>12. CASE FinishOpening(d)
  BY <1>12 DEF FinishOpening, PutsBack
<1>13. CASE WriteGrantReference(d)
  BY <1>13 DEF WriteGrantReference
<1>14. CASE ClearSocket(d)
  BY <1>14 DEF ClearSocket
<1>15. CASE Listen(d)
  BY <1>15 DEF Listen
<1>16. CASE Publish(d)
  BY <1>16 DEF Publish
<1>17. CASE StartFails(d)
  BY <1>17 DEF StartFails
<1>18. CASE Terminate(d)
  BY <1>18 DEF Terminate
<1>19. CASE CloseTransport(d)
  BY <1>19 DEF CloseTransport
<1>20. CASE StopExecution(d)
  BY <1>20 DEF StopExecution
<1>21. CASE Exit(d)
  BY <1>21 DEF Exit
<1>22. CASE ProcessDies(d)
  BY <1>22 DEF ProcessDies
<1>23. QED
  BY <1>1, <1>2, <1>3, <1>4, <1>5, <1>6, <1>7, <1>8, <1>9, <1>10, <1>11, <1>12,
     <1>13, <1>14, <1>15, <1>16, <1>17, <1>18, <1>19, <1>20, <1>21, <1>22
  DEF DaemonStep

(* Each step that removes or renames one of the two files leaves the       *)
(* capability in the other, or the genesis event is there.                 *)
LEMMA CapabilityStays ==
  ASSUME DaemonTypeOK, ProcessesAreTyped, GenesisStays, CreatedOnce, CapabilityIsNotLost,
         NEW d \in Daemons, DaemonStep(d)
  PROVE  CapabilityIsNotLost'
<1> USE NoDaemonAssumption DEF NowIs, Is, Alive, ProcessEnds, NotRunning, KeepsBootstrap, KeepsEndpoint,
          CapabilityIsNotLost, CreatedOnce, GenesisStays, DaemonTypeOK, ProcessesAreTyped,
          CapabilityCopies
<1>1. CASE LaunchInit(d)
  BY <1>1 DEF LaunchInit, Launch
<1>2. CASE LaunchBootstrap(d)
  BY <1>2 DEF LaunchBootstrap, Launch
<1>3. CASE LaunchStart(d)
  BY <1>3 DEF LaunchStart, Launch, StartsAlone
<1>4. CASE LaunchRebind(d)
  BY <1>4 DEF LaunchRebind, Launch
<1>5. CASE Construct(d)
  BY <1>5 DEF Construct
<1>6. CASE RecoverInterruptedConsumption(d)
  BY <1>6 DEF RecoverInterruptedConsumption, Recovered, PutsBack
<1>7. CASE CreateCapability(d)
  BY <1>7 DEF CreateCapability
<1>8. CASE WriteCapability(d)
  BY <1>8 DEF WriteCapability
<1>9. CASE TakeCapability(d)
  BY <1>9 DEF TakeCapability
<1>10. CASE CheckCapability(d)
  BY <1>10 DEF CheckCapability
<1>11. CASE AppendGenesis(d)
  BY <1>11 DEF AppendGenesis
<1>12. CASE FinishOpening(d)
  BY <1>12 DEF FinishOpening, PutsBack
<1>13. CASE WriteGrantReference(d)
  BY <1>13 DEF WriteGrantReference
<1>14. CASE ClearSocket(d)
  BY <1>14 DEF ClearSocket
<1>15. CASE Listen(d)
  BY <1>15 DEF Listen
<1>16. CASE Publish(d)
  BY <1>16 DEF Publish
<1>17. CASE StartFails(d)
  BY <1>17 DEF StartFails
<1>18. CASE Terminate(d)
  BY <1>18 DEF Terminate
<1>19. CASE CloseTransport(d)
  BY <1>19 DEF CloseTransport
<1>20. CASE StopExecution(d)
  BY <1>20 DEF StopExecution
<1>21. CASE Exit(d)
  BY <1>21 DEF Exit
<1>22. CASE ProcessDies(d)
  BY <1>22 DEF ProcessDies
<1>23. QED
  BY <1>1, <1>2, <1>3, <1>4, <1>5, <1>6, <1>7, <1>8, <1>9, <1>10, <1>11, <1>12,
     <1>13, <1>14, <1>15, <1>16, <1>17, <1>18, <1>19, <1>20, <1>21, <1>22
  DEF DaemonStep

(* A daemon is launched only while nobody starts, serves or stops.         *)
LEMMA OneServerStays ==
  ASSUME DaemonTypeOK, ProcessesAreTyped, OneServer,
         NEW d \in Daemons, DaemonStep(d)
  PROVE  OneServer'
<1> USE NoDaemonAssumption DEF NowIs, Is, Alive, ProcessEnds, NotRunning, KeepsBootstrap, KeepsEndpoint,
          OneServer, DaemonTypeOK, ProcessesAreTyped, Starting,
          DaemonSteps, DaemonKinds, Ceremony, ServingSteps
<1>1. CASE LaunchInit(d)
  BY <1>1 DEF LaunchInit, Launch
<1>2. CASE LaunchBootstrap(d)
  BY <1>2 DEF LaunchBootstrap, Launch
<1>3. CASE LaunchStart(d)
  BY <1>3 DEF LaunchStart, Launch, StartsAlone
<1>4. CASE LaunchRebind(d)
  BY <1>4 DEF LaunchRebind, Launch
<1>5. CASE Construct(d)
  BY <1>5 DEF Construct
<1>6. CASE RecoverInterruptedConsumption(d)
  BY <1>6 DEF RecoverInterruptedConsumption, Recovered, PutsBack
<1>7. CASE CreateCapability(d)
  BY <1>7 DEF CreateCapability
<1>8. CASE WriteCapability(d)
  BY <1>8 DEF WriteCapability
<1>9. CASE TakeCapability(d)
  BY SMTT(30), <1>9 DEF TakeCapability
<1>10. CASE CheckCapability(d)
  BY <1>10 DEF CheckCapability
<1>11. CASE AppendGenesis(d)
  BY <1>11 DEF AppendGenesis
<1>12. CASE FinishOpening(d)
  BY <1>12 DEF FinishOpening, PutsBack
<1>13. CASE WriteGrantReference(d)
  BY <1>13 DEF WriteGrantReference
<1>14. CASE ClearSocket(d)
  BY <1>14 DEF ClearSocket
<1>15. CASE Listen(d)
  BY <1>15 DEF Listen
<1>16. CASE Publish(d)
  BY <1>16 DEF Publish
<1>17. CASE StartFails(d)
  BY <1>17 DEF StartFails
<1>18. CASE Terminate(d)
  BY <1>18 DEF Terminate
<1>19. CASE CloseTransport(d)
  BY <1>19 DEF CloseTransport
<1>20. CASE StopExecution(d)
  BY <1>20 DEF StopExecution
<1>21. CASE Exit(d)
  BY <1>21 DEF Exit
<1>22. CASE ProcessDies(d)
  BY <1>22 DEF ProcessDies
<1>23. QED
  BY <1>1, <1>2, <1>3, <1>4, <1>5, <1>6, <1>7, <1>8, <1>9, <1>10, <1>11, <1>12,
     <1>13, <1>14, <1>15, <1>16, <1>17, <1>18, <1>19, <1>20, <1>21, <1>22
  DEF DaemonStep

(* A step leaves a good state good.                                        *)
LEMMA DaemonStepKeepsInv ==
  ASSUME DaemonInv, [DaemonNext]_daemonVars
  PROVE  DaemonInv'
<1>1. CASE UNCHANGED daemonVars
  BY <1>1 DEF DaemonInv, daemonVars, DaemonTypeOK, ProcessesAreTyped, GenesisStays, CreatedOnce,
              CapabilityIsNotLost, OneServer, Is
<1>2. CASE DaemonNext
  <2>1. PICK d \in Daemons : DaemonStep(d)
    BY <1>2 DEF DaemonNext, DaemonStep
  <2>2. DaemonTypeOK' /\ ProcessesAreTyped' /\ GenesisStays'
    BY <2>1, DaemonTypesStay, ProcessTypesStay, GenesisIsForGood DEF DaemonInv
  <2>3. CreatedOnce' /\ CapabilityIsNotLost' /\ OneServer'
    BY <2>1, CreationStays, CapabilityStays, OneServerStays DEF DaemonInv
  <2>4. QED
    BY <2>2, <2>3 DEF DaemonInv
<1>3. QED
  BY <1>1, <1>2

LEMMA DaemonInitIsGood ==
  ASSUME DaemonInit
  PROVE  DaemonInv
<1> USE NoDaemonAssumption, DaemonBoundsAssumption DEF DaemonInit
<1>1. DaemonTypeOK
  <2>1. 0 \in 0 .. MaxLaunches /\ 0 \in 0 .. MaxKills
    OBVIOUS
  <2>2. QED
    BY <2>1 DEF DaemonTypeOK, CapabilityCopies
<1>2. ProcessesAreTyped
  BY DEF ProcessesAreTyped, Is, NotRunning, DaemonSteps, DaemonKinds, ServingSteps
<1>3. GenesisStays /\ CapabilityIsNotLost
  BY DEF GenesisStays, CapabilityIsNotLost, Is, NotRunning
<1>4. CreatedOnce
  BY DEF CreatedOnce, Is, NotRunning
<1>5. OneServer
  BY DEF OneServer, NotRunning
<1>6. QED
  BY <1>1, <1>2, <1>3, <1>4, <1>5 DEF DaemonInv

(* However many processes bootstrap the workspace, fail, die and put back  *)
(* what another took, the capability is whole in one of its files until    *)
(* the genesis event is there (bootstrap.ts:48-56 and 78-81).              *)
THEOREM CapabilitySurvives == DaemonSpec => []CapabilityIsNotLost
<1>1. DaemonInv => CapabilityIsNotLost
  BY DEF DaemonInv
<1>2. QED
  BY <1>1, DaemonInitIsGood, DaemonStepKeepsInv, PTL DEF DaemonSpec

(* The endpoint file names the daemon that serves, and the socket is its   *)
(* own (daemon.ts:98-104, lifecycle.ts:72).                                *)
THEOREM ServersAreFound == DaemonSpec => []EndpointLeadsToServer
<1>1. DaemonInv => EndpointLeadsToServer
  BY DEF DaemonInv, OneServer, EndpointLeadsToServer, Is
<1>2. QED
  BY <1>1, DaemonInitIsGood, DaemonStepKeepsInv, PTL DEF DaemonSpec

-------------------------------------------------------------------------------
(* Joins of tasks (TaskJoin).                                              *)

Lifecycles == {"unknown", "draft", "active"} \cup TaskResolutions
Durables == SUBSET (Predicates \cup TaskResolutions)
Judgements == [task : JoinTasks, cursor : Int, on : SUBSET DependencyEdges]

JoinTypes ==
  /\ projection \in [JoinTasks -> [lifecycle : Lifecycles, policy : Policies \cup {{}}, durable : Durables]]
  /\ joinEdges \subseteq DependencyEdges
  /\ head.event \subseteq RunEvents /\ head.sequence \in Int
  /\ evidence \subseteq [event : RunEvents, sequence : Int]
  /\ join \in Judgements \cup {NoJoin}
  /\ authorized \subseteq Judgements

(* What a task was found ready by stays: its dependencies are complete,    *)
(* since none is added to a task that is no draft, and each of them is     *)
(* settled, since a resolution and what was durable at it are for good.    *)
StillHolds(g) ==
  /\ projection[g.task].lifecycle \notin {"unknown", "draft"}
  /\ EdgesTo(g.task) = g.on
  /\ \A e \in g.on : ~IsUnknown(e) /\ Allows(e)

JoinInv ==
  /\ JoinTypes
  /\ join # NoJoin => StillHolds(join)
  /\ \A g \in authorized : StillHolds(g)

(* No task goes back, and what is durable of a resolved one is settled.    *)
Onwards ==
  \A t \in JoinTasks :
    /\ projection[t].lifecycle \notin {"unknown", "draft"} => projection'[t].lifecycle \notin {"unknown", "draft"}
    /\ IsResolved(t) => projection'[t] = projection[t]
    /\ projection[t].lifecycle \notin {"unknown", "draft"} => EdgesTo(t)' = EdgesTo(t)

(* One step of the run, of its evidence or of the projection.              *)
JoinStep ==
  \/ \E event \in RunEvents : AppendToRun(event)
  \/ IssueEvidence
  \/ \E t \in JoinTasks, policy \in Policies : AddTask(t, policy)
  \/ \E t \in JoinTasks : ActivateTask(t)
  \/ \E t \in JoinTasks, authority \in Authorities : EvaluateTaskJoin(t, authority)
  \/ \E e \in DependencyEdges : AddDependency(e)
  \/ \E c \in evidence : ProjectDurablePredicate(c.event)
  \/ \E c \in evidence : ResolveProjectedTask(c.event)
  \/ \E c \in evidence : SelectReadyTask(c)

LEMMA JoinTypesStay ==
  ASSUME JoinTypes, JoinStep
  PROVE  JoinTypes'
<1>1. ASSUME NEW event \in RunEvents, AppendToRun(event)
      PROVE  JoinTypes'
  BY <1>1 DEF JoinTypes, AppendToRun
<1>2. CASE IssueEvidence
  BY <1>2 DEF JoinTypes, IssueEvidence
<1>3. ASSUME NEW t \in JoinTasks, NEW policy \in Policies, AddTask(t, policy)
      PROVE  JoinTypes'
  BY <1>3 DEF JoinTypes, AddTask, Lifecycles, Durables
<1>4. ASSUME NEW t \in JoinTasks, ActivateTask(t)
      PROVE  JoinTypes'
  BY <1>4 DEF JoinTypes, ActivateTask, Lifecycles
<1>5. ASSUME NEW t \in JoinTasks, NEW authority \in Authorities, EvaluateTaskJoin(t, authority)
      PROVE  JoinTypes'
  BY <1>5 DEF JoinTypes, EvaluateTaskJoin, Judgements, EdgesTo
<1>6. ASSUME NEW e \in DependencyEdges, AddDependency(e)
      PROVE  JoinTypes'
  BY <1>6 DEF JoinTypes, AddDependency
<1>7. ASSUME NEW c \in evidence, ProjectDurablePredicate(c.event)
      PROVE  JoinTypes'
  <2>1. c.event \in RunEvents /\ c.event.task \in JoinTasks /\ c.event.kind \in Predicates \cup TaskResolutions
    BY <1>7 DEF JoinTypes, RunEvents
  <2> DEFINE durable == projection[c.event.task].durable \cup {c.event.kind}
  <2>2. durable \in Durables
    BY <2>1 DEF JoinTypes, Durables
  <2>3. projection' = [projection EXCEPT ![c.event.task].durable = durable]
    BY <1>7 DEF ProjectDurablePredicate
  <2> HIDE DEF durable
  <2>4. QED
    BY <1>7, <2>1, <2>2, <2>3 DEF JoinTypes, ProjectDurablePredicate
<1>8. ASSUME NEW c \in evidence, ResolveProjectedTask(c.event)
      PROVE  JoinTypes'
  <2>1. c.event \in RunEvents /\ c.event.task \in JoinTasks
    BY <1>8 DEF JoinTypes, RunEvents
  <2>2. QED
    BY <1>8, <2>1 DEF JoinTypes, ResolveProjectedTask, Lifecycles
<1>9. ASSUME NEW c \in evidence, SelectReadyTask(c)
      PROVE  JoinTypes'
  BY <1>9 DEF JoinTypes, SelectReadyTask, Judgements
<1>10. QED
  BY <1>1, <1>2, <1>3, <1>4, <1>5, <1>6, <1>7, <1>8, <1>9 DEF JoinStep

(* Every step takes the tasks onwards.                                     *)
LEMMA TasksGoOnwards ==
  ASSUME JoinTypes, JoinStep
  PROVE  Onwards
<1> USE DEF JoinTypes, Onwards, IsResolved, TaskResolutions, EdgesTo
<1>1. CASE UNCHANGED <<projection, joinEdges>>
  BY <1>1
<1>2. ASSUME NEW t \in JoinTasks, NEW policy \in Policies, AddTask(t, policy)
      PROVE  Onwards
  BY <1>2 DEF AddTask, Known
<1>3. ASSUME NEW t \in JoinTasks, ActivateTask(t)
      PROVE  Onwards
  BY <1>3 DEF ActivateTask
<1>4. ASSUME NEW e \in DependencyEdges, AddDependency(e)
      PROVE  Onwards
  <2>1. e.to \in JoinTasks
    BY DEF DependencyEdges
  <2>2. QED
    BY <1>4, <2>1 DEF AddDependency, MayDepend
<1>5. ASSUME NEW c \in evidence, ProjectDurablePredicate(c.event)
      PROVE  Onwards
  <2>1. c.event.task \in JoinTasks
    BY <1>5 DEF RunEvents
  <2>2. QED
    BY <1>5, <2>1 DEF ProjectDurablePredicate
<1>6. ASSUME NEW c \in evidence, ResolveProjectedTask(c.event)
      PROVE  Onwards
  <2>1. c.event.task \in JoinTasks
    BY <1>6 DEF RunEvents
  <2>2. QED
    BY <1>6, <2>1 DEF ResolveProjectedTask
<1>7. QED
  BY <1>1, <1>2, <1>3, <1>4, <1>5, <1>6
  DEF JoinStep, AppendToRun, IssueEvidence, EvaluateTaskJoin, SelectReadyTask

LEMMA JudgementsHold ==
  ASSUME JoinTypes, Onwards, NEW g \in Judgements, StillHolds(g)
  PROVE  StillHolds(g)'
<1>1. g.task \in JoinTasks /\ \A e \in g.on : e.from \in JoinTasks
  BY DEF Judgements, DependencyEdges
<1>2. EdgesTo(g.task)' = g.on /\ projection'[g.task].lifecycle \notin {"unknown", "draft"}
  BY <1>1 DEF StillHolds, Onwards
<1>3. ASSUME NEW e \in g.on
      PROVE  ~IsUnknown(e)' /\ Allows(e)'
  <2>1. projection'[e.from] = projection[e.from]
    BY <1>1 DEF StillHolds, IsUnknown, Onwards
  <2>2. QED
    BY <2>1 DEF StillHolds, IsUnknown, Allows, IsResolved
<1>4. QED
  BY <1>2, <1>3 DEF StillHolds

(* A task that is found ready has its dependencies complete and settled.   *)
LEMMA ReadyIsSettled ==
  ASSUME JoinTypes, NEW t \in JoinTasks, NEW authority \in Authorities, Known(t),
         SchedulabilityOf(t, authority) = "ready"
  PROVE  StillHolds([task |-> t, cursor |-> head.sequence, on |-> EdgesTo(t)])
<1>1. ~(projection[t].lifecycle = "draft")
  BY DEF SchedulabilityOf
<1>2. \A e \in EdgesTo(t) : ~IsUnknown(e) /\ Allows(e)
  BY DEF SchedulabilityOf
<1>3. QED
  BY <1>1, <1>2 DEF StillHolds, Known

LEMMA JoinStepKeepsInv ==
  ASSUME JoinInv, [JoinNext]_joinVars
  PROVE  JoinInv'
<1>1. CASE UNCHANGED joinVars
  BY <1>1 DEF JoinInv, JoinTypes, StillHolds, joinVars, EdgesTo, IsUnknown, Allows, IsResolved
<1>2. CASE JoinNext
  <2>1. JoinStep
    BY <1>2 DEF JoinNext, JoinStep
  <2>2. JoinTypes' /\ Onwards
    BY <2>1, JoinTypesStay, TasksGoOnwards DEF JoinInv
  <2>3. \A g \in Judgements : StillHolds(g) => StillHolds(g)'
    BY <2>2, JudgementsHold DEF JoinInv
  <2>4. CASE \E t \in JoinTasks, authority \in Authorities : EvaluateTaskJoin(t, authority)
    <3>1. PICK t \in JoinTasks, authority \in Authorities : EvaluateTaskJoin(t, authority)
      BY <2>4
    <3>2. UNCHANGED authorized
      BY <3>1 DEF EvaluateTaskJoin
    <3>3. join' # NoJoin =>
            join' = [task |-> t, cursor |-> head.sequence, on |-> EdgesTo(t)] /\ StillHolds(join')
      BY <3>1, ReadyIsSettled DEF EvaluateTaskJoin, JoinInv
    <3>4. join' # NoJoin => join' \in Judgements
      BY <2>2 DEF JoinTypes
    <3>5. join' # NoJoin => StillHolds(join)'
      BY <2>3, <3>3, <3>4, <3>1 DEF EvaluateTaskJoin, StillHolds, EdgesTo, IsUnknown, Allows, IsResolved
    <3>6. QED
      BY <2>2, <2>3, <3>2, <3>5 DEF JoinInv, JoinTypes
  <2>5. CASE \E c \in evidence : SelectReadyTask(c)
    <3>1. PICK c \in evidence : SelectReadyTask(c)
      BY <2>5
    <3>2. join \in Judgements /\ StillHolds(join)' /\ UNCHANGED join
      BY <2>3, <3>1 DEF SelectReadyTask, JoinInv, JoinTypes
    <3>3. [task |-> join.task, cursor |-> join.cursor, on |-> join.on] = join
      BY <3>2 DEF Judgements
    <3>4. authorized' = authorized \cup {join}
      BY <3>1, <3>3 DEF SelectReadyTask
    <3>5. QED
      BY <2>2, <2>3, <3>2, <3>4 DEF JoinInv, JoinTypes
  <2>6. CASE UNCHANGED <<join, authorized>>
    BY <2>2, <2>3, <2>6 DEF JoinInv, JoinTypes
  <2>7. QED
    BY <2>1, <2>4, <2>5, <2>6
    DEF JoinStep, AppendToRun, IssueEvidence, AddTask, ActivateTask, AddDependency,
        ProjectDurablePredicate, ResolveProjectedTask
<1>3. QED
  BY <1>1, <1>2

(* A task that was authorized once waits for nothing more and for nothing  *)
(* else, whatever is added, projected or resolved later and however stale  *)
(* the join was (task-projection.ts:151 and 175).                          *)
THEOREM AuthorizedStays == JoinSpec => []JoinIsStable
<1>1. JoinInit => JoinInv
  BY DEF JoinInit, JoinInv, JoinTypes, Unknown, Lifecycles, Durables
<1>2. JoinInv => JoinIsStable
  BY DEF JoinInv, JoinIsStable, StillHolds
<1>3. QED
  BY <1>1, <1>2, JoinStepKeepsInv, PTL DEF JoinSpec

-------------------------------------------------------------------------------
(* The arbitration of receipts (ReceiptArbitration).                       *)

(* Every set of natural numbers that is not empty has a least one.         *)
LEMMA NatHasLeast ==
  ASSUME NEW T \in SUBSET Nat, T # {}
  PROVE  \E m \in T : \A k \in T : m <= k
<1> DEFINE below == {ss \in Nat \X Nat : ss[1] < ss[2]}
<1>1. IsWellFoundedOn(below, Nat)
  BY NatLessThanWellFounded DEF OpToRel
<1> HIDE DEF below
<1>2. PICK m \in T : \A k \in T : ~(<<k, m>> \in below)
  BY <1>1, WFMin
<1>3. \A k \in T : ~(k < m)
  BY <1>2 DEF below
<1>4. QED
  BY <1>3

-----------------------------------------------------------------------------
(* The types of the run, of its capabilities and of the projection.        *)
ReceiptStates == ReceiptOutcomes \cup {"planned", "unknown_outcome", "acknowledged", "unregistered"}
RunFacts == [kind : {"receipt", "cancellation"}, generation : {0} \cup ReceiptGenerations, outcome : ReceiptOutcomes]
Capabilities ==
  [kind : {"receipt", "retry", "cancellation"}, generation : ReceiptGenerations,
   says : ReceiptOutcomes \cup {"permitted", "denied"},
   handle : {OwnHandle, OtherHandle, NoHandle}, at : Nat, cursor : Nat]
Projections ==
  [taskKnown : BOOLEAN,
   generations : [ReceiptGenerations -> [state : ReceiptStates, handle : {OwnHandle, NoHandle}]],
   outcomes : [ReceiptGenerations -> [outcome : ReceiptOutcomes \cup {"none"}, at : Nat]],
   permitted : SUBSET ReceiptGenerations, cancelledAt : Nat,
   resolution : {Undecided} \cup [resolution : ReceiptOutcomes, winner : Nat, at : Nat]]

RunIsTyped ==
  /\ runLog \in Seq(RunFacts)
  /\ \A i \in 1 .. Len(runLog) : runLog[i].kind = "receipt" => runLog[i].generation \in ReceiptGenerations
  /\ unspent \subseteq Capabilities
  /\ \A c \in unspent : c.kind = "receipt" => c.says \in ReceiptOutcomes
  /\ projected \in Projections

(* What the resolution says is so, and what must be resolved is: the code  *)
(* settles by a cancellation at once, which keeps later receipts out.      *)
Agrees(s) ==
  /\ WithOutcome(s, "succeeded") # {} <=> s.resolution.resolution = "succeeded"
  /\ s.resolution.resolution = "succeeded" => s.resolution.winner = Earliest(s, WithOutcome(s, "succeeded"))
  /\ s.cancelledAt # 0 => s.resolution.resolution = "cancelled"
  /\ s.resolution.resolution = "cancelled" /\ s.cancelledAt = 0 =>
       s.resolution.winner \in WithOutcome(s, "cancelled")

(* No generation runs and none that failed may be retried.                 *)
Exhausted(s) ==
  /\ WithOutcome(s, "failed") \cap s.permitted = {}
  /\ \A g \in Registered(s) : IsTerminal(s.generations[g].state)

ReceiptInv == RunIsTyped /\ Agrees(projected)

(* What one step may do to the projection.                                 *)
Arbitrates(s, r) ==
  /\ r \in Projections /\ Agrees(r)
  /\ s.resolution # Undecided => r.resolution = s.resolution
  /\ s.resolution = Undecided /\ r.resolution.resolution = "failed" => Exhausted(r)

-----------------------------------------------------------------------------
LEMMA EarliestIsThere ==
  ASSUME NEW s \in Projections, NEW gs \in SUBSET ReceiptGenerations, gs # {}
  PROVE  Earliest(s, gs) \in gs
<1> DEFINE ats == {s.outcomes[g].at : g \in gs}
<1>1. \A g \in gs : s.outcomes[g].at \in Nat
  BY DEF Projections
<1>2. ats \in SUBSET Nat /\ ats # {}
  BY <1>1
<1>3. PICK a \in ats : \A k \in ats : a <= k
  <2> HIDE DEF ats
  <2>1. QED
    BY <1>2, NatHasLeast
<1> DEFINE those == {g \in gs : s.outcomes[g].at = a}
<1>4. those \in SUBSET Nat /\ those # {}
  BY <1>3, ReceiptGenerationsAssumption
<1>5. PICK m \in those : \A k \in those : m <= k
  <2> HIDE DEF those
  <2>1. QED
    BY <1>4, NatHasLeast
<1>6. m \in gs /\ s.outcomes[m].at = a
  OBVIOUS
<1>7. ASSUME NEW h \in gs
      PROVE  \/ s.outcomes[m].at < s.outcomes[h].at
             \/ s.outcomes[m].at = s.outcomes[h].at /\ m <= h
  <2>1. a <= s.outcomes[h].at
    BY <1>3
  <2>2. CASE s.outcomes[h].at = a
    BY <1>5, <1>6, <2>2
  <2>3. CASE s.outcomes[h].at # a
    BY <1>1, <1>6, <2>1, <2>3
  <2>4. QED
    BY <2>2, <2>3
<1>8. QED
  BY <1>6, <1>7 DEF Earliest

(* A resolution leaves the evidence alone.                                 *)
ResolvedTo(s, r, says, winner) ==
  /\ r \in Projections
  /\ r.resolution.resolution = says /\ r.resolution.winner = winner
  /\ r.outcomes = s.outcomes /\ r.generations = s.generations
  /\ r.permitted = s.permitted /\ r.cancelledAt = s.cancelledAt

LEMMA ResolutionOnly ==
  ASSUME NEW s \in Projections, s.taskKnown, NEW says \in ReceiptOutcomes, NEW winner \in Nat, NEW at \in Nat
  PROVE  ResolvedTo(s, Resolved(s, says, winner, at), says, winner)
<1> DEFINE resolution == [resolution |-> says, winner |-> winner, at |-> at]
<1>1. resolution \in [resolution : ReceiptOutcomes, winner : Nat, at : Nat]
  OBVIOUS
<1>2. resolution.resolution = says /\ resolution.winner = winner
  OBVIOUS
<1>3. Resolved(s, says, winner, at) = [s EXCEPT !.resolution = resolution]
  BY DEF Resolved
<1> HIDE DEF resolution
<1>4. QED
  BY <1>1, <1>2, <1>3 DEF ResolvedTo, Projections

LEMMA SameEvidence ==
  ASSUME NEW s, NEW r, r.outcomes = s.outcomes
  PROVE  /\ \A o : WithOutcome(r, o) = WithOutcome(s, o)
         /\ \A gs : Earliest(r, gs) = Earliest(s, gs)
BY DEF WithOutcome, Earliest

(* A task that is open is settled as its evidence says, or stays open.     *)
LEMMA ResolveDecides ==
  ASSUME NEW s \in Projections, s.taskKnown, s.resolution = Undecided, NEW at \in Nat,
         WithOutcome(s, "succeeded") = {} \/ s.cancelledAt = 0
  PROVE  /\ Resolve(s, at) \in Projections
         /\ Agrees(Resolve(s, at))
         /\ Resolve(s, at).resolution.resolution = "failed" => Exhausted(Resolve(s, at))
<1> DEFINE r == Resolve(s, at)
           Won(o) == Earliest(s, WithOutcome(s, o))
<1>1. ASSUME NEW o, WithOutcome(s, o) # {}
      PROVE  Won(o) \in WithOutcome(s, o) /\ Won(o) \in Nat
  <2>1. WithOutcome(s, o) \in SUBSET ReceiptGenerations
    BY DEF WithOutcome
  <2>2. QED
    BY <1>1, <2>1, EarliestIsThere, ReceiptGenerationsAssumption
<1>2. s.cancelledAt \in Nat /\ 0 \in Nat /\ {"succeeded", "cancelled", "failed"} = ReceiptOutcomes
  BY DEF Projections, ReceiptOutcomes
<1>3. CASE WithOutcome(s, "succeeded") # {}
  <2>1. r = Resolved(s, "succeeded", Won("succeeded"), at)
    BY <1>3 DEF Resolve
  <2> DEFINE q == Resolved(s, "succeeded", Won("succeeded"), at)
  <2>2. ResolvedTo(s, q, "succeeded", Won("succeeded"))
    <3>1. "succeeded" \in ReceiptOutcomes /\ Won("succeeded") \in Nat
      BY <1>1, <1>2, <1>3
    <3>2. QED
      BY <3>1, <1>2, ResolutionOnly
  <2> HIDE DEF q
  <2>3. Agrees(q)
    BY <1>3, <2>2, SameEvidence DEF ResolvedTo, Agrees
  <2>4. QED
    BY <2>1, <2>2, <2>3 DEF q, ResolvedTo
<1>4. CASE WithOutcome(s, "succeeded") = {} /\ s.cancelledAt # 0
  <2>1. r = Resolved(s, "cancelled", 0, s.cancelledAt)
    BY <1>4 DEF Resolve
  <2> DEFINE q == Resolved(s, "cancelled", 0, s.cancelledAt)
  <2>2. ResolvedTo(s, q, "cancelled", 0)
    <3>1. "cancelled" \in ReceiptOutcomes /\ 0 \in Nat
      BY <1>2
    <3>2. QED
      BY <3>1, <1>2, ResolutionOnly
  <2> HIDE DEF q
  <2>3. Agrees(q)
    BY <1>4, <2>2, SameEvidence DEF ResolvedTo, Agrees
  <2>4. QED
    BY <2>1, <2>2, <2>3 DEF q, ResolvedTo
<1>5. CASE WithOutcome(s, "succeeded") = {} /\ s.cancelledAt = 0 /\ StaysOpen(s)
  <2>1. r = s
    BY <1>5 DEF Resolve
  <2>2. QED
    BY <1>5, <2>1 DEF Agrees, Undecided
<1>6. CASE /\ WithOutcome(s, "succeeded") = {} /\ s.cancelledAt = 0 /\ ~StaysOpen(s)
           /\ WithOutcome(s, "cancelled") # {}
  <2>1. r = Resolved(s, "cancelled", Won("cancelled"), at)
    BY <1>6 DEF Resolve
  <2> DEFINE q == Resolved(s, "cancelled", Won("cancelled"), at)
  <2>2. ResolvedTo(s, q, "cancelled", Won("cancelled"))
    <3>1. "cancelled" \in ReceiptOutcomes /\ Won("cancelled") \in Nat
      BY <1>1, <1>2, <1>6
    <3>2. QED
      BY <3>1, <1>2, ResolutionOnly
  <2> HIDE DEF q
  <2>3. Agrees(q)
    BY <1>1, <1>6, <2>2, SameEvidence DEF ResolvedTo, Agrees
  <2>4. QED
    BY <2>1, <2>2, <2>3 DEF q, ResolvedTo
<1>7. CASE /\ WithOutcome(s, "succeeded") = {} /\ s.cancelledAt = 0 /\ ~StaysOpen(s)
           /\ WithOutcome(s, "cancelled") = {}
  <2>1. r = Resolved(s, "failed", 0, at)
    BY <1>7 DEF Resolve
  <2> DEFINE q == Resolved(s, "failed", 0, at)
  <2>2. ResolvedTo(s, q, "failed", 0)
    <3>1. "failed" \in ReceiptOutcomes /\ 0 \in Nat
      BY <1>2
    <3>2. QED
      BY <3>1, <1>2, ResolutionOnly
  <2> HIDE DEF q
  <2>3. Agrees(q)
    BY <1>7, <2>2, SameEvidence DEF ResolvedTo, Agrees
  <2>4. Exhausted(q)
    BY <1>7, <2>2, SameEvidence DEF ResolvedTo, Exhausted, StaysOpen, Registered
  <2>5. QED
    BY <2>1, <2>2, <2>3, <2>4 DEF q, ResolvedTo
<1>8. QED
  BY <1>3, <1>4, <1>5, <1>6, <1>7

-----------------------------------------------------------------------------
(* A receipt that is projected is the evidence of its generation.          *)
LEMMA ReceiptArbitrates ==
  ASSUME NEW s \in Projections, Agrees(s), NEW c \in Capabilities, c.says \in ReceiptOutcomes
  PROVE  Arbitrates(s, Projected(s, c))
<1>1. CASE Projected(s, c) = s
  BY <1>1 DEF Arbitrates, Undecided
<1>2. CASE Projected(s, c) # s
  <2> DEFINE g == c.generation
             q == [s EXCEPT !.generations[g] = GenerationOf(c.says, NoHandle),
                            !.outcomes[g] = [outcome |-> c.says, at |-> c.at],
                            !.taskKnown = TRUE]
  <2>1. s.resolution = Undecided /\ Projected(s, c) = Resolve(q, c.at)
    BY <1>2 DEF Projected, WithReceipt
  <2>2. g \in ReceiptGenerations /\ c.at \in Nat
    BY DEF Capabilities
  <2> DEFINE said == GenerationOf(c.says, NoHandle)
             outcome == [outcome |-> c.says, at |-> c.at]
             generations == [s.generations EXCEPT ![g] = said]
             received == [s.outcomes EXCEPT ![g] = outcome]
             q1 == [s EXCEPT !.generations = generations]
             q2 == [q1 EXCEPT !.outcomes = received]
  <2>3. said \in [state : ReceiptStates, handle : {OwnHandle, NoHandle}]
    BY DEF GenerationOf, ReceiptStates
  <2>4. outcome \in [outcome : ReceiptOutcomes \cup {"none"}, at : Nat]
    BY <2>2
  <2> HIDE DEF said, outcome
  <2>5. /\ generations \in [ReceiptGenerations -> [state : ReceiptStates, handle : {OwnHandle, NoHandle}]]
        /\ received \in [ReceiptGenerations -> [outcome : ReceiptOutcomes \cup {"none"}, at : Nat]]
    BY <2>2, <2>3, <2>4 DEF Projections
  <2> HIDE DEF generations, received
  <2>6. /\ q1 \in Projections /\ q1.resolution = s.resolution /\ q1.cancelledAt = s.cancelledAt
        /\ q1.outcomes = s.outcomes
    BY <2>5 DEF Projections
  <2>7. q = [q2 EXCEPT !.taskKnown = TRUE]
    BY DEF generations, received, said, outcome, Projections
  <2> HIDE DEF q1, q
  <2>8. q2 \in Projections /\ q2.resolution = s.resolution /\ q2.cancelledAt = s.cancelledAt
    BY <2>5, <2>6 DEF Projections
  <2> HIDE DEF q2
  <2>9. q \in Projections /\ q.taskKnown /\ q.resolution = s.resolution /\ q.cancelledAt = s.cancelledAt
    BY <2>7, <2>8 DEF Projections
  <2>10. s.cancelledAt = 0
    BY <2>1 DEF Agrees, Undecided
  <2>11. QED
    BY <2>1, <2>2, <2>9, <2>10, ResolveDecides DEF Arbitrates
<1>3. QED
  BY <1>1, <1>2

(* A retry decision can only keep an open task open, or stop to.           *)
LEMMA RetryArbitrates ==
  ASSUME NEW s \in Projections, Agrees(s), NEW at \in Nat, NEW permitted \in SUBSET ReceiptGenerations
  PROVE  Arbitrates(s, Resolve([s EXCEPT !.taskKnown = TRUE, !.permitted = permitted], at))
<1> DEFINE q1 == [s EXCEPT !.taskKnown = TRUE]
           q == [q1 EXCEPT !.permitted = permitted]
<1>1. q1 \in Projections /\ q1.outcomes = s.outcomes /\ q1.resolution = s.resolution
      /\ q1.cancelledAt = s.cancelledAt /\ q1.taskKnown
  BY DEF Projections
<1>2. [s EXCEPT !.taskKnown = TRUE, !.permitted = permitted] = q
  BY DEF Projections
<1> HIDE DEF q1
<1>3. q \in Projections /\ q.outcomes = s.outcomes /\ q.resolution = s.resolution
      /\ q.cancelledAt = s.cancelledAt /\ q.taskKnown
  BY <1>1 DEF Projections
<1> HIDE DEF q
<1>4. CASE s.resolution = Undecided
  <2>1. WithOutcome(q, "succeeded") = {}
    BY <1>3, <1>4, SameEvidence DEF Agrees, Undecided
  <2>2. QED
    BY <1>2, <1>3, <1>4, <2>1, ResolveDecides DEF Arbitrates
<1>5. CASE s.resolution # Undecided
  <2>1. Resolve(q, at) = q
    BY <1>3, <1>5 DEF Resolve
  <2>2. Agrees(q)
    BY <1>3, SameEvidence DEF Agrees
  <2>3. QED
    BY <1>2, <1>3, <1>5, <2>1, <2>2 DEF Arbitrates
<1>6. QED
  BY <1>4, <1>5

(* A cancellation settles an open task.                                    *)
LEMMA CancellationArbitrates ==
  ASSUME NEW s \in Projections, Agrees(s), NEW at \in Nat, NEW cancelledAt \in Nat, s.resolution = Undecided
  PROVE  Arbitrates(s, Resolve([s EXCEPT !.taskKnown = TRUE, !.cancelledAt = cancelledAt], at))
<1> DEFINE q1 == [s EXCEPT !.taskKnown = TRUE]
           q == [q1 EXCEPT !.cancelledAt = cancelledAt]
<1>1. q1 \in Projections /\ q1.outcomes = s.outcomes /\ q1.resolution = s.resolution /\ q1.taskKnown
  BY DEF Projections
<1>2. [s EXCEPT !.taskKnown = TRUE, !.cancelledAt = cancelledAt] = q
  BY DEF Projections
<1> HIDE DEF q1
<1>3. q \in Projections /\ q.outcomes = s.outcomes /\ q.resolution = s.resolution /\ q.taskKnown
  BY <1>1 DEF Projections
<1> HIDE DEF q
<1>4. WithOutcome(q, "succeeded") = {}
  BY <1>3, SameEvidence DEF Agrees, Undecided
<1>5. QED
  BY <1>2, <1>3, <1>4, ResolveDecides DEF Arbitrates

-----------------------------------------------------------------------------
(* What issues a capability reads it from the run.                         *)
LEMMA RunStaysTyped ==
  ASSUME RunIsTyped, UNCHANGED projected,
         \/ \E g \in ReceiptGenerations, outcome \in ReceiptOutcomes : RecordReceipt(g, outcome)
         \/ RecordCancellation
         \/ \E handle \in {OwnHandle, OtherHandle} : IssueReceipt(handle)
         \/ \E g \in ReceiptGenerations, i \in 1 .. Len(runLog), decision \in {"permitted", "denied"} :
              IssueRetryDecision(g, decision, i)
         \/ \E g \in ReceiptGenerations, i \in 1 .. Len(runLog) : IssueCancellation(g, i)
  PROVE  RunIsTyped'
<1>1. ASSUME NEW fact \in RunFacts, fact.kind = "receipt" => fact.generation \in ReceiptGenerations,
             Record(fact)
      PROVE  RunIsTyped'
  BY <1>1 DEF RunIsTyped, Record
<1>2. ASSUME NEW c \in Capabilities, c.kind = "receipt" => c.says \in ReceiptOutcomes, Issue(c)
      PROVE  RunIsTyped'
  BY <1>2 DEF RunIsTyped, Issue
<1>3. ASSUME NEW g \in ReceiptGenerations, NEW outcome \in ReceiptOutcomes, RecordReceipt(g, outcome)
      PROVE  RunIsTyped'
  BY <1>1, <1>3 DEF RecordReceipt, RunFacts
<1>4. CASE RecordCancellation
  BY <1>1, <1>4 DEF RecordCancellation, RunFacts, ReceiptOutcomes
<1>5. ASSUME NEW handle \in {OwnHandle, OtherHandle}, IssueReceipt(handle)
      PROVE  RunIsTyped'
  <2> DEFINE n == Len(runLog)
             c == [kind |-> "receipt", generation |-> runLog[n].generation, says |-> runLog[n].outcome,
                   handle |-> handle, at |-> n, cursor |-> n]
  <2>1. n \in 1 .. Len(runLog) /\ n \in Nat
    BY <1>5 DEF IssueReceipt, RunIsTyped
  <2>2. runLog[n].generation \in ReceiptGenerations /\ runLog[n].outcome \in ReceiptOutcomes
    <3>1. runLog[n] \in RunFacts
      BY <2>1 DEF RunIsTyped
    <3>2. runLog[n].kind = "receipt"
      BY <1>5 DEF IssueReceipt
    <3>3. QED
      BY <2>1, <3>1, <3>2 DEF RunIsTyped, RunFacts
  <2>3. c \in Capabilities /\ c.says \in ReceiptOutcomes
    BY <2>1, <2>2 DEF Capabilities
  <2>4. Issue(c)
    BY <1>5 DEF IssueReceipt
  <2> HIDE DEF c
  <2>5. QED
    BY <1>2, <2>3, <2>4
<1>6. ASSUME NEW g \in ReceiptGenerations, NEW i \in 1 .. Len(runLog), NEW decision \in {"permitted", "denied"},
             IssueRetryDecision(g, decision, i)
      PROVE  RunIsTyped'
  BY <1>2, <1>6 DEF IssueRetryDecision, Capabilities, RunIsTyped
<1>7. ASSUME NEW g \in ReceiptGenerations, NEW i \in 1 .. Len(runLog), IssueCancellation(g, i)
      PROVE  RunIsTyped'
  BY <1>2, <1>7 DEF IssueCancellation, Capabilities, RunIsTyped, ReceiptOutcomes
<1>8. QED
  BY <1>3, <1>4, <1>5, <1>6, <1>7

(* Every step arbitrates, or leaves the projection as it is.               *)
LEMMA ReceiptStepArbitrates ==
  ASSUME ReceiptInv, [ReceiptNext]_receiptVars
  PROVE  ReceiptInv' /\ Arbitrates(projected, projected')
<1>1. ASSUME UNCHANGED projected, RunIsTyped'
      PROVE  ReceiptInv' /\ Arbitrates(projected, projected')
  BY <1>1 DEF ReceiptInv, Arbitrates, RunIsTyped, Undecided
<1>2. ASSUME Arbitrates(projected, projected'), UNCHANGED runLog, unspent' \subseteq unspent
      PROVE  ReceiptInv' /\ Arbitrates(projected, projected')
  BY <1>2 DEF ReceiptInv, Arbitrates, RunIsTyped
<1>3. CASE UNCHANGED receiptVars
  BY <1>1, <1>3 DEF receiptVars, ReceiptInv, RunIsTyped
<1>4. CASE \/ \E g \in ReceiptGenerations, outcome \in ReceiptOutcomes : RecordReceipt(g, outcome)
           \/ RecordCancellation
           \/ \E handle \in {OwnHandle, OtherHandle} : IssueReceipt(handle)
           \/ \E g \in ReceiptGenerations, i \in 1 .. Len(runLog), decision \in {"permitted", "denied"} :
                IssueRetryDecision(g, decision, i)
           \/ \E g \in ReceiptGenerations, i \in 1 .. Len(runLog) : IssueCancellation(g, i)
  <2>1. UNCHANGED projected
    BY <1>4 DEF RecordReceipt, RecordCancellation, Record, IssueReceipt, IssueRetryDecision,
                IssueCancellation, Issue
  <2>2. QED
    BY <1>1, <1>4, <2>1, RunStaysTyped DEF ReceiptInv
<1>5. ASSUME NEW g \in ReceiptGenerations, NEW said \in GenerationStates, RegisterReceiptGeneration(g, said)
      PROVE  ReceiptInv' /\ Arbitrates(projected, projected')
  <2>1. said \in [state : ReceiptStates, handle : {OwnHandle, NoHandle}]
    BY DEF GenerationStates, GenerationOf, ReceiptStates
  <2>2. /\ projected' \in Projections /\ projected'.outcomes = projected.outcomes
        /\ projected'.resolution = projected.resolution /\ projected'.cancelledAt = projected.cancelledAt
    BY <1>5, <2>1 DEF RegisterReceiptGeneration, ReceiptInv, RunIsTyped, Projections
  <2>3. Agrees(projected')
    BY <2>2, SameEvidence DEF Agrees, ReceiptInv
  <2>4. QED
    BY <1>2, <1>5, <2>2, <2>3 DEF RegisterReceiptGeneration, Arbitrates, Undecided
<1>6. ASSUME NEW c \in unspent, ProjectAuthenticatedReceipt(c)
      PROVE  ReceiptInv' /\ Arbitrates(projected, projected')
  <2>1. c \in Capabilities /\ c.says \in ReceiptOutcomes
    BY <1>6 DEF ReceiptInv, RunIsTyped, ProjectAuthenticatedReceipt
  <2>2. Arbitrates(projected, projected')
    BY <1>6, <2>1, ReceiptArbitrates DEF ReceiptInv, RunIsTyped, ProjectAuthenticatedReceipt
  <2>3. QED
    BY <1>2, <1>6, <2>2 DEF ProjectAuthenticatedReceipt, Use
<1>7. ASSUME NEW c \in unspent, ApplyStoredRetryDecision(c)
      PROVE  ReceiptInv' /\ Arbitrates(projected, projected')
  <2> DEFINE permitted == IF c.says = "permitted" THEN projected.permitted \cup {c.generation}
                          ELSE projected.permitted \ {c.generation}
  <2>1. c.at \in Nat /\ permitted \in SUBSET ReceiptGenerations /\ projected \in Projections
    BY DEF ReceiptInv, RunIsTyped, Capabilities, Projections
  <2>2. projected' = Resolve([projected EXCEPT !.taskKnown = TRUE, !.permitted = permitted], c.at)
    BY <1>7, <2>1 DEF ApplyStoredRetryDecision, Projections
  <2> HIDE DEF permitted
  <2>3. Arbitrates(projected, projected')
    BY <2>1, <2>2, RetryArbitrates DEF ReceiptInv
  <2>4. QED
    BY <1>2, <1>7, <2>3 DEF ApplyStoredRetryDecision, Use
<1>8. ASSUME NEW c \in unspent, ApplyStoredCancellation(c)
      PROVE  ReceiptInv' /\ Arbitrates(projected, projected')
  <2> DEFINE at == IF projected.cancelledAt = 0 THEN c.at ELSE projected.cancelledAt
  <2>1. c.at \in Nat /\ at \in Nat /\ projected \in Projections
    BY DEF ReceiptInv, RunIsTyped, Capabilities, Projections
  <2>2. CASE projected.resolution = Undecided
    <3>1. projected' = Resolve([projected EXCEPT !.taskKnown = TRUE, !.cancelledAt = at], c.at)
      BY <1>8, <2>1, <2>2 DEF ApplyStoredCancellation, Projections
    <3> HIDE DEF at
    <3>2. Arbitrates(projected, projected')
      BY <2>1, <2>2, <3>1, CancellationArbitrates DEF ReceiptInv
    <3>3. QED
      BY <1>2, <1>8, <3>2 DEF ApplyStoredCancellation, Use
  <2>3. CASE projected.resolution # Undecided
    <3>1. UNCHANGED <<projected, runLog>> /\ unspent' \subseteq unspent
      BY <1>8, <2>3 DEF ApplyStoredCancellation, Use
    <3>2. QED
      BY <1>1, <3>1 DEF ReceiptInv, RunIsTyped
  <2>4. QED
    BY <2>2, <2>3
<1>9. QED
  BY <1>3, <1>4, <1>5, <1>6, <1>7, <1>8 DEF ReceiptNext

(* Whatever the order in which receipts, decisions and cancellations reach *)
(* the projection, the task is settled as its evidence says, and once      *)
(* (receipt-projection.ts:241-251).                                        *)
THEOREM ReceiptsAreArbitrated == ReceiptSpec => ArbitrationAgrees
<1> DEFINE Settles ==
      LET s == projected'
          r == s.resolution
      IN  /\ projected.resolution # Undecided => r = projected.resolution
          /\ (WithOutcome(s, "succeeded") # {}) = (r.resolution = "succeeded")
          /\ r.resolution = "succeeded" => r.winner = Earliest(s, WithOutcome(s, "succeeded"))
          /\ r.resolution = "cancelled" /\ s.cancelledAt = 0 => r.winner \in WithOutcome(s, "cancelled")
          /\ projected.resolution = Undecided /\ r.resolution = "failed" =>
               /\ WithOutcome(s, "failed") \cap s.permitted = {}
               /\ \A g \in Registered(s) : IsTerminal(s.generations[g].state)
<1>1. ReceiptInit => ReceiptInv
  <2> SUFFICES ASSUME ReceiptInit
               PROVE  ReceiptInv
    OBVIOUS
  <2>1. projected \in Projections
    BY DEF ReceiptInit, EmptyProjection, Projections, Unregistered, GenerationOf, ReceiptStates, NoOutcome
  <2>2. RunIsTyped
    BY <2>1 DEF ReceiptInit, RunIsTyped
  <2>3. \A o \in ReceiptOutcomes : WithOutcome(projected, o) = {}
    BY DEF ReceiptInit, EmptyProjection, WithOutcome, NoOutcome, ReceiptOutcomes
  <2>4. Agrees(projected)
    BY <2>3 DEF ReceiptInit, EmptyProjection, Undecided, Agrees, ReceiptOutcomes
  <2>5. QED
    BY <2>2, <2>4 DEF ReceiptInv
<1>2. ReceiptInv /\ [ReceiptNext]_receiptVars => ReceiptInv' /\ Settles
  BY ReceiptStepArbitrates DEF Arbitrates, Agrees, Exhausted
<1> HIDE DEF Settles
<1>3. ReceiptSpec => [][Settles]_receiptVars
  BY <1>1, <1>2, PTL DEF ReceiptSpec
<1>4. QED
  BY <1>3 DEF ArbitrationAgrees, Settles

-------------------------------------------------------------------------------
(* The admission of proposals (DeltaAdmission).                            *)

DecisionStates == Terminal \cup {"quarantined", "approval_required"}
Loaded == [at : {"loaded"}, proposal : Proposals, base : Revisions]
Decided ==
  [at : {"decided"}, proposal : Proposals, base : Revisions, heads : HeadPairs, state : DecisionStates,
   approved : BOOLEAN, policy : PolicyEffects]
Decisions == [proposal : Proposals, state : DecisionStates, approved : BOOLEAN, policy : PolicyEffects]

AdmissionIsTyped ==
  /\ canonical \in Revisions \cup {Broken}
  /\ heads \in HeadPairs /\ inForce \in PolicyEffects
  /\ snapshot # NoSnapshot => snapshot \in [at : HeadPairs, policy : PolicyEffects]
  /\ forkRight # NoFork => forkRight \in [base : Revisions, policy : PolicyEffects, expected : Nat]
  /\ pins \in Seq(Pins)
  /\ proposals \in [Proposals -> Sealed \cup {Unsealed}]
  /\ decisions \in Seq(Decisions)
  /\ admitters \in [Admitters -> {Unoccupied} \cup Loaded \cup Decided]

NotAfter(at) == at.run <= heads.run /\ at.workspace <= heads.workspace

(* The snapshot of the current heads names the policy in force.            *)
SnapshotIsTrue ==
  snapshot # NoSnapshot => NotAfter(snapshot.at) /\ (snapshot.at = heads => snapshot.policy = inForce)

Asks(policies, approved) ==
  policies \subseteq {"accepted"} \cup (IF approved THEN {"approval_required"} ELSE {})

(* What a service has decided: it holds for the revision the service read, *)
(* and while the heads are those it observed this is the revision.         *)
DecidedTruly(a) ==
  /\ a.at \in {"loaded", "decided"} => proposals[a.proposal] # Unsealed
  /\ a.at = "decided" =>
       /\ NotAfter(a.heads)
       /\ a.heads = heads => a.policy = inForce /\ a.base = canonical
       /\ a.state = "accepted" =>
            /\ proposals[a.proposal].pin.base = a.base
            /\ Asks({proposals[a.proposal].pin.policy, a.policy}, a.approved)

DecidedIsTrue == \A s \in Admitters : DecidedTruly(admitters[s])

DecidedAreSealed == \A i \in DOMAIN decisions : proposals[decisions[i].proposal] # Unsealed

AdmissionInv ==
  AdmissionIsTyped /\ SnapshotIsTrue /\ DecidedIsTrue /\ DecidedAreSealed /\ AcceptedAsJudged

-----------------------------------------------------------------------------
(* The strictest of a set of results is one of them, and none is stricter. *)
LEMMA StrictestIsThere ==
  ASSUME NEW T \in SUBSET DOMAIN Rank, T # {}
  PROVE  Conjunction(T) \in T /\ \A o \in T : Rank[o] <= Rank[Conjunction(T)]
<1>1. /\ DOMAIN Rank = {"accepted", "approval_required", "quarantined", "rejected"}
      /\ Rank["accepted"] = 0 /\ Rank["approval_required"] = 1
      /\ Rank["quarantined"] = 2 /\ Rank["rejected"] = 3
  BY DEF Rank
<1>2. \E r \in T : \A o \in T : Rank[o] <= Rank[r]
  <2>1. CASE "rejected" \in T
    BY <1>1, <2>1
  <2>2. CASE "rejected" \notin T /\ "quarantined" \in T
    BY <1>1, <2>2
  <2>3. CASE T \cap {"rejected", "quarantined"} = {} /\ "approval_required" \in T
    BY <1>1, <2>3
  <2>4. CASE T = {"accepted"}
    BY <1>1, <2>4
  <2>5. QED
    BY <1>1, <2>1, <2>2, <2>3, <2>4
<1>3. QED
  BY <1>2 DEF Conjunction

(* What is accepted asks for nothing that is not given.                    *)
LEMMA JudgementAllows ==
  ASSUME NEW policy \in PolicyEffects, NEW current \in PolicyEffects, NEW quota \in BOOLEAN,
         NEW approved \in BOOLEAN, NEW pr, pr.pin.policy = policy, snapshot.policy = current,
         Judgement(pr, quota, approved) = "accepted"
  PROVE  Asks({policy, current}, approved)
<1> DEFINE T == {policy, current, IF quota THEN "accepted" ELSE "quarantined"}
<1>1. T \in SUBSET DOMAIN Rank /\ T # {}
  BY EffectsAssumption DEF Rank
<1>2. Conjunction(T) \in T /\ \A o \in T : Rank[o] <= Rank[Conjunction(T)]
  BY <1>1, StrictestIsThere
<1>3. Conjunction(T) = "accepted" \/ (Conjunction(T) = "approval_required" /\ approved)
  BY DEF Judgement
<1>4. /\ DOMAIN Rank = {"accepted", "approval_required", "quarantined", "rejected"}
      /\ Rank["accepted"] = 0 /\ Rank["approval_required"] = 1
      /\ Rank["quarantined"] = 2 /\ Rank["rejected"] = 3
  BY DEF Rank
<1>5. policy \in T /\ current \in T
  OBVIOUS
<1> HIDE DEF T
<1>6. /\ policy = "accepted" \/ (policy = "approval_required" /\ approved)
      /\ current = "accepted" \/ (current = "approval_required" /\ approved)
  BY <1>1, <1>2, <1>3, <1>4, <1>5
<1>7. QED
  BY <1>6 DEF Asks

LEMMA DecidesTruly ==
  ASSUME AdmissionInv, ReadsAlone, NEW s \in Admitters,
         NEW action \in {"evaluate", "reject", "release"}, NEW quota \in BOOLEAN, NEW approved \in BOOLEAN,
         EvaluateAndApply(s, action, quota, approved)
  PROVE  \E a \in Decided :
           /\ admitters' = [admitters EXCEPT ![s] = a]
           /\ a.heads = heads /\ a.base = canonical /\ a.policy = inForce
           /\ proposals[a.proposal] # Unsealed
           /\ a.state = "accepted" =>
                /\ proposals[a.proposal].pin.base = a.base
                /\ Asks({proposals[a.proposal].pin.policy, a.policy}, a.approved)
<1> DEFINE p == admitters[s].proposal
           pr == proposals[p]
           conflict == Conflicts(pr, admitters[s].base)
           verdict == IF action = "reject" /\ StateOf(p) = "approval_required" THEN "rejected"
                    ELSE IF conflict THEN "conflicted" ELSE Judgement(pr, quota, approved)
           a == [at |-> "decided", proposal |-> p, base |-> admitters[s].base, heads |-> heads,
                 state |-> verdict, approved |-> approved /\ verdict = "accepted", policy |-> snapshot.policy]
<1>1. admitters[s] \in Loaded /\ admitters[s].base = canonical
  BY DEF AdmissionInv, AdmissionIsTyped, EvaluateAndApply, Loaded, Decided, Unoccupied, ReadsAlone
<1>2. p \in Proposals /\ pr \in Sealed /\ pr # Unsealed /\ canonical \in Revisions
  BY <1>1 DEF AdmissionInv, AdmissionIsTyped, DecidedIsTrue, DecidedTruly, Loaded
<1>3. snapshot # NoSnapshot /\ snapshot.at = heads /\ snapshot.policy = inForce /\ inForce \in PolicyEffects
  BY DEF EvaluateAndApply, SnapshotIsCurrent, AdmissionInv, SnapshotIsTrue, AdmissionIsTyped
<1>4. /\ verdict \in Transitions[StateOf(p)] /\ StateOf(p) \notin Terminal
      /\ verdict = "accepted" => ~conflict
      /\ admitters' = [admitters EXCEPT ![s] = a]
  BY DEF EvaluateAndApply, SetAdmitter
<1>5. verdict \in DecisionStates
  <2>1. ASSUME Judgement(pr, quota, approved) = verdict
        PROVE  verdict \in DecisionStates
    <3>1. pr.pin.policy \in PolicyEffects
      BY <1>2 DEF Sealed, Pins
    <3>2. {pr.pin.policy, snapshot.policy, IF quota THEN "accepted" ELSE "quarantined"} \in SUBSET DOMAIN Rank
      BY <1>3, <3>1, EffectsAssumption DEF Rank
    <3>3. Conjunction({pr.pin.policy, snapshot.policy, IF quota THEN "accepted" ELSE "quarantined"}) \in DOMAIN Rank
      BY <3>2, StrictestIsThere
    <3>4. QED
      BY <2>1, <3>3 DEF Judgement, DecisionStates, Terminal, Rank
  <2>2. QED
    BY <2>1 DEF DecisionStates, Terminal
<1>6. a \in Decided
  BY <1>1, <1>2, <1>3, <1>5 DEF Decided, AdmissionInv, AdmissionIsTyped
<1>7. ASSUME verdict = "accepted"
      PROVE  pr.pin.base = canonical /\ Asks({pr.pin.policy, inForce}, approved)
  <2>1. ~conflict /\ Judgement(pr, quota, approved) = "accepted"
    BY <1>4, <1>7
  <2>2. pr.pin.base = canonical
    BY <1>1, <2>1 DEF Conflicts, IsStale
  <2>3. pr.pin.policy \in PolicyEffects
    BY <1>2 DEF Sealed, Pins
  <2>4. QED
    BY <1>3, <2>1, <2>2, <2>3, JudgementAllows
<1>8. a.heads = heads /\ a.base = canonical /\ a.policy = inForce /\ a.proposal = p /\ a.state = verdict
  BY <1>1, <1>3
<1>9. a.state = "accepted" => a.approved = approved
  <2>1. ASSUME verdict = "accepted" PROVE a.approved = approved
    BY <2>1
  <2>2. QED
    BY <1>8, <2>1
<1> HIDE DEF a, verdict, conflict
<1>10. QED
  BY <1>2, <1>4, <1>6, <1>7, <1>8, <1>9

-----------------------------------------------------------------------------
(* What a decision records is what holds of the revision and of the policy *)
(* then in force, for it is recorded at the heads that were observed.      *)
LEMMA RecordsTruly ==
  ASSUME AdmissionInv, NEW s \in Admitters, RecordDecision(s)
  PROVE  \E d \in Decisions :
           /\ decisions' = Append(decisions, d) /\ proposals[d.proposal] # Unsealed
           /\ heads' = [run |-> heads.run + 1, workspace |-> heads.workspace + 1]
           /\ snapshot' = [at |-> heads', policy |-> inForce]
           /\ admitters' = [admitters EXCEPT ![s] = Unoccupied]
           /\ UNCHANGED <<inForce, forkRight, pins, proposals>>
           /\ canonical' \in Revisions
           /\ d.state # "accepted" => canonical' = canonical
           /\ d.state = "accepted" =>
                /\ canonical'.revision = canonical.revision + 1
                /\ proposals[d.proposal].pin.base = canonical
                /\ Asks({proposals[d.proposal].pin.policy, d.policy}, d.approved)
<1> DEFINE a == admitters[s]
           d == [proposal |-> a.proposal, state |-> a.state, approved |-> a.approved, policy |-> inForce]
<1>1. a \in Decided /\ a.heads = heads
  BY DEF AdmissionInv, AdmissionIsTyped, RecordDecision, Loaded, Decided, Unoccupied, AtExactHeads
<1>2. /\ a.policy = inForce /\ a.base = canonical /\ proposals[a.proposal] # Unsealed
      /\ a.state = "accepted" =>
           /\ proposals[a.proposal].pin.base = a.base
           /\ Asks({proposals[a.proposal].pin.policy, a.policy}, a.approved)
  BY <1>1 DEF AdmissionInv, DecidedIsTrue, DecidedTruly, Decided
<1>3. d \in Decisions
  BY <1>1 DEF Decisions, Decided, AdmissionInv, AdmissionIsTyped
<1>4. /\ decisions' = Append(decisions, d)
      /\ heads' = [run |-> heads.run + 1, workspace |-> heads.workspace + 1]
      /\ snapshot' = [at |-> heads', policy |-> inForce]
      /\ admitters' = [admitters EXCEPT ![s] = Unoccupied]
      /\ UNCHANGED <<inForce, forkRight, pins, proposals>>
  BY <1>2 DEF RecordDecision, SetAdmitter
<1>5. canonical \in Revisions
  BY DEF AdmissionInv, AdmissionIsTyped, AcceptedAsJudged
<1>6. CASE a.state # "accepted"
  <2>1. canonical' = canonical
    BY <1>6 DEF RecordDecision
  <2>2. QED
    BY <1>2, <1>3, <1>4, <1>5, <1>6, <2>1
<1>7. CASE a.state = "accepted"
  <2>1. canonical' = Accepted(proposals[a.proposal], a.base)
    BY <1>7 DEF RecordDecision
  <2>2. canonical' = [revision |-> canonical.revision + 1,
                      document |-> ApplyDelta(proposals[a.proposal].operation, canonical.document)]
    BY <1>2, <2>1 DEF Accepted
  <2>3. proposals[a.proposal].operation \in DeltaOperations
    BY <1>1, <1>2 DEF AdmissionInv, AdmissionIsTyped, Decided, Sealed
  <2>4. ApplyDelta(proposals[a.proposal].operation, canonical.document) \in SUBSET Members
    BY <1>5, <2>3 DEF ApplyDelta, DeltaOperations, Revisions
  <2>5. canonical' \in Revisions /\ canonical'.revision = canonical.revision + 1
    BY <1>5, <2>2, <2>4 DEF Revisions
  <2>6. Asks({proposals[a.proposal].pin.policy, inForce}, a.approved)
    BY <1>2, <1>7
  <2>7. d.proposal = a.proposal /\ d.state = "accepted" /\ d.approved = a.approved /\ d.policy = inForce
    BY <1>7
  <2> HIDE DEF d
  <2>8. QED
    BY <1>2, <1>3, <1>4, <1>7, <2>5, <2>6, <2>7
<1>8. QED
  BY <1>6, <1>7

(* A seal is set once.                                                     *)
LEMMA SealsStay ==
  ASSUME AdmissionInv, NEW q \in Proposals, NEW i \in DOMAIN pins, NEW o \in DeltaOperations,
         SealProposal(q, pins[i], o)
  PROVE  /\ proposals' \in [Proposals -> Sealed \cup {Unsealed}]
         /\ proposals[q] = Unsealed
         /\ \A p \in Proposals : proposals[p] # Unsealed => proposals'[p] = proposals[p]
         /\ UNCHANGED <<canonical, heads, inForce, snapshot, forkRight, pins, decisions, admitters>>
<1>1. pins[i] \in Pins
  BY DEF AdmissionInv, AdmissionIsTyped
<1>2. [pin |-> pins[i], operation |-> o, policy |-> inForce, at |-> heads] \in Sealed
  BY <1>1 DEF AdmissionInv, AdmissionIsTyped, Sealed
<1>3. QED
  BY <1>2 DEF SealProposal, AdmissionInv, AdmissionIsTyped

LEMMA AdmissionTypesStay ==
  ASSUME AdmissionInv, ReadsAlone, [AdmissionNext]_admissionVars
  PROVE  AdmissionIsTyped'
<1> USE DEF AdmissionInv
<1>1. CASE IssueForkAuthority
  <2>1. forkRight' \in [base : Revisions, policy : PolicyEffects, expected : Nat]
    BY <1>1 DEF IssueForkAuthority, AdmissionIsTyped, AcceptedAsJudged
  <2>2. QED
    BY <1>1, <2>1 DEF IssueForkAuthority, AdmissionIsTyped
<1>2. CASE PinFork
  <2>1. NextPin(forkRight) \in Pins
    BY <1>2 DEF PinFork, NextPin, AdmissionIsTyped, Pins
  <2>2. pins' \in Seq(Pins)
    BY <1>2, <2>1 DEF PinFork, AdmissionIsTyped
  <2>3. QED
    BY <1>2, <2>2 DEF PinFork, AdmissionIsTyped
<1>3. CASE MoveRun
  BY <1>3 DEF MoveRun, AdmissionIsTyped, HeadPairs
<1>4. CASE WriteSnapshot
  BY <1>4 DEF WriteSnapshot, AdmissionIsTyped
<1>5. ASSUME NEW policy \in PolicyEffects, ChangePolicy(policy)
      PROVE  AdmissionIsTyped'
  BY <1>5 DEF ChangePolicy, AdmissionIsTyped, HeadPairs
<1>6. ASSUME NEW p \in Proposals, NEW i \in DOMAIN pins, NEW o \in DeltaOperations, SealProposal(p, pins[i], o)
      PROVE  AdmissionIsTyped'
  BY <1>6, SealsStay DEF AdmissionIsTyped
<1>7. ASSUME NEW s \in Admitters, NEW p \in Proposals, LoadRevision(s, p)
      PROVE  AdmissionIsTyped'
  <2>1. [at |-> "loaded", proposal |-> p, base |-> canonical] \in Loaded
    BY <1>7 DEF LoadRevision, AdmissionIsTyped, Loaded, AcceptedAsJudged
  <2>2. admitters' \in [Admitters -> {Unoccupied} \cup Loaded \cup Decided]
    BY <1>7, <2>1 DEF LoadRevision, SetAdmitter, AdmissionIsTyped
  <2>3. QED
    BY <1>7, <2>2 DEF LoadRevision, AdmissionIsTyped
<1>8. ASSUME NEW s \in Admitters, NEW action \in {"evaluate", "reject", "release"}, NEW quota \in BOOLEAN,
             NEW approved \in BOOLEAN, EvaluateAndApply(s, action, quota, approved)
      PROVE  AdmissionIsTyped'
  <2>1. PICK a \in Decided : admitters' = [admitters EXCEPT ![s] = a]
    BY <1>8, DecidesTruly
  <2>2. admitters' \in [Admitters -> {Unoccupied} \cup Loaded \cup Decided]
    BY <2>1 DEF AdmissionIsTyped
  <2>3. QED
    BY <1>8, <2>2 DEF EvaluateAndApply, AdmissionIsTyped
<1>9. ASSUME NEW s \in Admitters, GiveUp(s)
      PROVE  AdmissionIsTyped'
  <2>1. admitters' \in [Admitters -> {Unoccupied} \cup Loaded \cup Decided]
    BY <1>9 DEF GiveUp, SetAdmitter, AdmissionIsTyped
  <2>2. QED
    BY <1>9, <2>1 DEF GiveUp, AdmissionIsTyped
<1>10. ASSUME NEW s \in Admitters, RecordDecision(s)
       PROVE  AdmissionIsTyped'
  <2>1. PICK d \in Decisions :
          /\ decisions' = Append(decisions, d)
          /\ heads' = [run |-> heads.run + 1, workspace |-> heads.workspace + 1]
          /\ snapshot' = [at |-> heads', policy |-> inForce]
          /\ admitters' = [admitters EXCEPT ![s] = Unoccupied]
          /\ UNCHANGED <<inForce, forkRight, pins, proposals>>
          /\ canonical' \in Revisions
    BY <1>10, RecordsTruly
  <2>2. heads' \in HeadPairs
    BY <2>1 DEF AdmissionIsTyped, HeadPairs
  <2>3. decisions' \in Seq(Decisions)
    BY <2>1 DEF AdmissionIsTyped
  <2>4. snapshot' \in [at : HeadPairs, policy : PolicyEffects]
    BY <2>1, <2>2 DEF AdmissionIsTyped
  <2>5. admitters' \in [Admitters -> {Unoccupied} \cup Loaded \cup Decided]
    BY <2>1 DEF AdmissionIsTyped
  <2>6. QED
    BY <2>1, <2>2, <2>3, <2>4, <2>5 DEF AdmissionIsTyped
<1>11. CASE UNCHANGED admissionVars
  BY <1>11 DEF admissionVars, AdmissionIsTyped
<1>12. QED
  BY <1>1, <1>2, <1>3, <1>4, <1>5, <1>6, <1>7, <1>8, <1>9, <1>10, <1>11 DEF AdmissionNext

(* The steps that record nothing, move no head and seal nothing.           *)
LEMMA AdmissionStepIs ==
  ASSUME [AdmissionNext]_admissionVars
  PROVE  \/ UNCHANGED <<canonical, heads, inForce, snapshot, proposals, decisions>>
         \/ MoveRun \/ WriteSnapshot \/ \E policy \in PolicyEffects : ChangePolicy(policy)
         \/ \E p \in Proposals, i \in DOMAIN pins, o \in DeltaOperations : SealProposal(p, pins[i], o)
         \/ \E s \in Admitters : RecordDecision(s)
<1>1. CASE IssueForkAuthority \/ PinFork
  BY <1>1 DEF IssueForkAuthority, PinFork
<1>2. ASSUME NEW s \in Admitters, NEW p \in Proposals, LoadRevision(s, p)
      PROVE  UNCHANGED <<canonical, heads, inForce, snapshot, proposals, decisions>>
  BY <1>2 DEF LoadRevision
<1>3. ASSUME NEW s \in Admitters, NEW action, NEW quota, NEW approved,
             EvaluateAndApply(s, action, quota, approved)
      PROVE  UNCHANGED <<canonical, heads, inForce, snapshot, proposals, decisions>>
  BY <1>3 DEF EvaluateAndApply
<1>4. ASSUME NEW s \in Admitters, GiveUp(s)
      PROVE  UNCHANGED <<canonical, heads, inForce, snapshot, proposals, decisions>>
  BY <1>4 DEF GiveUp
<1>5. QED
  BY <1>1, <1>2, <1>3, <1>4 DEF AdmissionNext, admissionVars

(* The heads only go up.                                                   *)
LEMMA SnapshotStaysTrue ==
  ASSUME AdmissionInv, ReadsAlone, [AdmissionNext]_admissionVars
  PROVE  SnapshotIsTrue'
<1> USE DEF AdmissionInv
<1>0. /\ heads \in HeadPairs /\ heads.run \in Nat /\ heads.workspace \in Nat
      /\ snapshot # NoSnapshot => snapshot.at \in HeadPairs /\ snapshot.at.run \in Nat /\ snapshot.at.workspace \in Nat
  BY DEF AdmissionIsTyped, HeadPairs
<1>1. CASE UNCHANGED <<heads, inForce, snapshot>>
  BY <1>1 DEF SnapshotIsTrue, NotAfter
<1>2. CASE MoveRun
  BY <1>2 DEF MoveRun, SnapshotIsTrue
<1>3. CASE WriteSnapshot
  BY <1>0, <1>3 DEF WriteSnapshot, SnapshotIsTrue, NotAfter
<1>4. ASSUME NEW policy \in PolicyEffects, ChangePolicy(policy)
      PROVE  SnapshotIsTrue'
  <2>1. heads'.run = heads.run /\ heads'.workspace = heads.workspace + 1
    BY <1>0, <1>4 DEF ChangePolicy, HeadPairs
  <2>2. UNCHANGED snapshot
    BY <1>4 DEF ChangePolicy
  <2>3. QED
    BY <1>0, <2>1, <2>2 DEF SnapshotIsTrue, NotAfter
<1>5. ASSUME NEW s \in Admitters, RecordDecision(s)
      PROVE  SnapshotIsTrue'
  <2>1. /\ heads' = [run |-> heads.run + 1, workspace |-> heads.workspace + 1]
        /\ snapshot' = [at |-> heads', policy |-> inForce] /\ UNCHANGED inForce
    BY <1>5, RecordsTruly
  <2>2. QED
    BY <1>0, <2>1 DEF SnapshotIsTrue, NotAfter
<1>6. QED
  <2>1. ASSUME NEW p \in Proposals, NEW i \in DOMAIN pins, NEW o \in DeltaOperations,
               SealProposal(p, pins[i], o)
        PROVE  UNCHANGED <<heads, inForce, snapshot>>
    BY <2>1 DEF SealProposal
  <2>2. QED
    BY <1>1, <1>2, <1>3, <1>4, <1>5, <2>1, AdmissionStepIs

(* What one service holds stays true while other services leave it alone.  *)
LEMMA StaysDecided ==
  ASSUME AdmissionInv, NEW a \in {Unoccupied} \cup Loaded \cup Decided, DecidedTruly(a),
         \A p \in Proposals : proposals[p] # Unsealed => proposals'[p] = proposals[p],
         \/ UNCHANGED <<heads, inForce, canonical>>
         \/ heads'.run = heads.run + 1 /\ heads'.workspace \in {heads.workspace, heads.workspace + 1}
         \/ heads'.run = heads.run /\ heads'.workspace = heads.workspace + 1
  PROVE  DecidedTruly(a)'
<1>1. heads.run \in Nat /\ heads.workspace \in Nat
  BY DEF AdmissionInv, AdmissionIsTyped, HeadPairs
<1>2. CASE a \in Decided
  <2>1. a.heads.run \in Nat /\ a.heads.workspace \in Nat /\ a.proposal \in Proposals /\ a.at = "decided"
    BY <1>2 DEF Decided, HeadPairs
  <2>2. NotAfter(a.heads)' /\ (a.heads = heads' => a.heads = heads /\ UNCHANGED <<heads, inForce, canonical>>)
    BY <1>1, <2>1 DEF DecidedTruly, NotAfter
  <2>3. proposals'[a.proposal] = proposals[a.proposal]
    BY <2>1 DEF DecidedTruly
  <2>4. QED
    BY <2>1, <2>2, <2>3 DEF DecidedTruly
<1>3. CASE a \in Loaded
  BY <1>3 DEF DecidedTruly, Loaded
<1>4. CASE a = Unoccupied
  BY <1>4 DEF DecidedTruly, Unoccupied
<1>5. QED
  BY <1>2, <1>3, <1>4

LEMMA DecidedStaysTrue ==
  ASSUME AdmissionInv, ReadsAlone, [AdmissionNext]_admissionVars
  PROVE  DecidedIsTrue'
<1>1. /\ admitters \in [Admitters -> {Unoccupied} \cup Loaded \cup Decided]
      /\ \A t \in Admitters : DecidedTruly(admitters[t])
      /\ heads.run \in Nat /\ heads.workspace \in Nat
  BY DEF AdmissionInv, AdmissionIsTyped, DecidedIsTrue, DecidedTruly, HeadPairs
<1>2. SUFFICES \A t \in Admitters : DecidedTruly(admitters[t])'
  BY DEF DecidedIsTrue, DecidedTruly
<1>3. CASE UNCHANGED <<heads, inForce, canonical, proposals, admitters>>
  BY <1>1, <1>3, StaysDecided
<1>4. CASE MoveRun
  <2>1. heads'.run = heads.run + 1 /\ heads'.workspace = heads.workspace /\ UNCHANGED <<proposals, admitters>>
    BY <1>4 DEF MoveRun, AdmissionInv, AdmissionIsTyped, HeadPairs
  <2>2. QED
    BY <1>1, <2>1, StaysDecided
<1>5. ASSUME NEW policy \in PolicyEffects, ChangePolicy(policy)
      PROVE  \A t \in Admitters : DecidedTruly(admitters[t])'
  <2>1. heads'.run = heads.run /\ heads'.workspace = heads.workspace + 1 /\ UNCHANGED <<proposals, admitters>>
    BY <1>5 DEF ChangePolicy, AdmissionInv, AdmissionIsTyped, HeadPairs
  <2>2. QED
    BY <1>1, <2>1, StaysDecided
<1>6. ASSUME NEW q \in Proposals, NEW i \in DOMAIN pins, NEW o \in DeltaOperations, SealProposal(q, pins[i], o)
      PROVE  \A t \in Admitters : DecidedTruly(admitters[t])'
  <2>1. /\ \A p \in Proposals : proposals[p] # Unsealed => proposals'[p] = proposals[p]
        /\ UNCHANGED <<heads, inForce, canonical, admitters>>
    BY <1>6, SealsStay
  <2>2. QED
    BY <1>1, <2>1, StaysDecided
<1>7. ASSUME NEW s \in Admitters, NEW p \in Proposals, LoadRevision(s, p)
      PROVE  \A t \in Admitters : DecidedTruly(admitters[t])'
  <2>0. PICK a : a = [at |-> "loaded", proposal |-> p, base |-> canonical]
    OBVIOUS
  <2>1. UNCHANGED <<heads, inForce, canonical, proposals>> /\ proposals[p] # Unsealed
    BY <1>7 DEF LoadRevision
  <2>2. admitters' = [admitters EXCEPT ![s] = a]
    BY <1>7, <2>0 DEF LoadRevision, SetAdmitter
  <2>3. DecidedTruly(a)'
    BY <2>0, <2>1 DEF DecidedTruly
  <2>4. QED
    BY <1>1, <2>1, <2>2, <2>3, StaysDecided
<1>8. ASSUME NEW s \in Admitters, NEW action \in {"evaluate", "reject", "release"}, NEW quota \in BOOLEAN,
             NEW approved \in BOOLEAN, EvaluateAndApply(s, action, quota, approved)
      PROVE  \A t \in Admitters : DecidedTruly(admitters[t])'
  <2>1. PICK a \in Decided :
          /\ admitters' = [admitters EXCEPT ![s] = a]
          /\ a.heads = heads /\ a.base = canonical /\ a.policy = inForce
          /\ proposals[a.proposal] # Unsealed
          /\ a.state = "accepted" =>
               /\ proposals[a.proposal].pin.base = a.base
               /\ Asks({proposals[a.proposal].pin.policy, a.policy}, a.approved)
    BY <1>8, DecidesTruly
  <2>2. UNCHANGED <<heads, inForce, canonical, proposals>>
    BY <1>8 DEF EvaluateAndApply
  <2>3. DecidedTruly(a)'
    BY <1>1, <2>1, <2>2 DEF DecidedTruly, NotAfter
  <2>4. QED
    BY <1>1, <2>1, <2>2, <2>3, StaysDecided
<1>9. ASSUME NEW s \in Admitters, GiveUp(s)
      PROVE  \A t \in Admitters : DecidedTruly(admitters[t])'
  <2>1. UNCHANGED <<heads, inForce, canonical, proposals>> /\ admitters' = [admitters EXCEPT ![s] = Unoccupied]
    BY <1>9 DEF GiveUp, SetAdmitter
  <2>2. DecidedTruly(Unoccupied)'
    BY DEF DecidedTruly, Unoccupied
  <2>3. QED
    BY <1>1, <2>1, <2>2, StaysDecided
<1>10. ASSUME NEW s \in Admitters, RecordDecision(s)
       PROVE  \A t \in Admitters : DecidedTruly(admitters[t])'
  <2>1. /\ heads' = [run |-> heads.run + 1, workspace |-> heads.workspace + 1]
        /\ admitters' = [admitters EXCEPT ![s] = Unoccupied] /\ UNCHANGED proposals
    BY <1>10, RecordsTruly
  <2>2. DecidedTruly(Unoccupied)'
    BY DEF DecidedTruly, Unoccupied
  <2>3. heads'.run = heads.run + 1 /\ heads'.workspace = heads.workspace + 1
    BY <2>1
  <2>4. QED
    BY <1>1, <2>1, <2>2, <2>3, StaysDecided
<1>11. QED
  BY <1>3, <1>4, <1>5, <1>6, <1>7, <1>8, <1>9, <1>10
  DEF AdmissionNext, admissionVars, IssueForkAuthority, PinFork, WriteSnapshot

-----------------------------------------------------------------------------
LEMMA AcceptedBeforeIsFinite ==
  ASSUME AdmissionInv, NEW n \in Nat
  PROVE  IsFiniteSet(AcceptedBefore(n)) /\ Cardinality(AcceptedBefore(n)) \in Nat
<1>1. DOMAIN decisions = 1 .. Len(decisions) /\ Len(decisions) \in Nat
  BY DEF AdmissionInv, AdmissionIsTyped
<1>2. IsFiniteSet(1 .. Len(decisions))
  BY <1>1, FS_Interval
<1>3. AcceptedBefore(n) \subseteq 1 .. Len(decisions)
  BY <1>1 DEF AcceptedBefore
<1>4. QED
  BY <1>2, <1>3, FS_Subset, FS_CardinalityType

(* Decisions that are there stay as they are, and so do their seals.       *)
LEMMA JudgedStays ==
  ASSUME AdmissionInv, [AdmissionNext]_admissionVars
  PROVE  AcceptedAsJudged' /\ DecidedAreSealed'
<1> USE DEF AdmissionInv
<1>1. /\ DOMAIN decisions = 1 .. Len(decisions) /\ Len(decisions) \in Nat
      /\ \A i \in DOMAIN decisions : decisions[i].proposal \in Proposals
  <2>1. decisions \in Seq(Decisions)
    BY DEF AdmissionIsTyped
  <2>2. \A i \in DOMAIN decisions : decisions[i] \in Decisions
    BY <2>1
  <2>3. QED
    BY <2>1, <2>2 DEF Decisions
<1>2. CASE /\ UNCHANGED <<canonical, decisions>>
           /\ \A p \in Proposals : proposals[p] # Unsealed => proposals'[p] = proposals[p]
  <2>1. \A i \in DOMAIN decisions : proposals'[decisions[i].proposal] = proposals[decisions[i].proposal]
    BY <1>1, <1>2 DEF DecidedAreSealed
  <2>2. \A n \in Nat : AcceptedBefore(n)' = AcceptedBefore(n)
    BY <1>2 DEF AcceptedBefore
  <2>3. AcceptedBefore(Len(decisions) + 1)' = AcceptedBefore(Len(decisions) + 1)
    BY <1>2 DEF AcceptedBefore
  <2>4. \A i \in AcceptedBefore(Len(decisions) + 1) : i \in DOMAIN decisions /\ i \in Nat
    BY <1>1 DEF AcceptedBefore
  <2>5. DecidedAreSealed'
    BY <1>2, <2>1 DEF DecidedAreSealed
  <2>6. canonical' # Broken /\ canonical'.revision = Cardinality(AcceptedBefore(Len(decisions) + 1))'
    BY <1>2, <2>3 DEF AcceptedAsJudged
  <2>7. QED
    BY <1>2, <2>1, <2>2, <2>3, <2>4, <2>5, <2>6 DEF AcceptedAsJudged
<1>3. ASSUME NEW s \in Admitters, RecordDecision(s)
      PROVE  AcceptedAsJudged' /\ DecidedAreSealed'
  <2>1. PICK d \in Decisions :
          /\ decisions' = Append(decisions, d) /\ proposals[d.proposal] # Unsealed
          /\ UNCHANGED proposals /\ canonical' \in Revisions
          /\ d.state # "accepted" => canonical' = canonical
          /\ d.state = "accepted" =>
               /\ canonical'.revision = canonical.revision + 1
               /\ proposals[d.proposal].pin.base = canonical
               /\ Asks({proposals[d.proposal].pin.policy, d.policy}, d.approved)
    BY <1>3, RecordsTruly
  <2> DEFINE n == Len(decisions)
             Before == AcceptedBefore(n + 1)
  <2>2. /\ Len(decisions') = n + 1 /\ DOMAIN decisions' = 1 .. n + 1 /\ n \in Nat
        /\ decisions'[n + 1] = d /\ \A i \in 1 .. n : decisions'[i] = decisions[i]
    BY <1>1, <2>1 DEF AdmissionIsTyped
  <2>3. \A k \in 1 .. n + 1 : AcceptedBefore(k)' = AcceptedBefore(k)
    BY <1>1, <2>2 DEF AcceptedBefore
  <2>4. AcceptedBefore(Len(decisions) + 1)' = IF d.state = "accepted" THEN Before \cup {n + 1} ELSE Before
    BY <1>1, <2>2 DEF AcceptedBefore
  <2>5. IsFiniteSet(Before) /\ Cardinality(Before) \in Nat /\ n + 1 \notin Before
    BY <2>2, AcceptedBeforeIsFinite DEF AcceptedBefore
  <2>6. canonical.revision = Cardinality(Before) /\ canonical # Broken
    BY DEF AcceptedAsJudged
  <2>7. Cardinality(Before \cup {n + 1}) = Cardinality(Before) + 1
    BY <2>5, FS_AddElement
  <2>8. canonical' # Broken
    BY <2>1, NothingAssumption
  <2>9. canonical'.revision = Cardinality(AcceptedBefore(Len(decisions) + 1))'
    BY <2>1, <2>4, <2>6, <2>7
  <2>10. \A i \in Before :
           /\ i \in 1 .. n
           /\ proposals[decisions[i].proposal].pin.base.revision = Cardinality(AcceptedBefore(i))
           /\ Asks({proposals[decisions[i].proposal].pin.policy, decisions[i].policy}, decisions[i].approved)
    BY <1>1 DEF AcceptedAsJudged, AcceptedBefore, Asks
  <2>11. ASSUME NEW i \in AcceptedBefore(Len(decisions) + 1)'
         PROVE  /\ proposals'[decisions'[i].proposal].pin.base.revision = Cardinality(AcceptedBefore(i))'
                /\ Asks({proposals'[decisions'[i].proposal].pin.policy, decisions'[i].policy}, decisions'[i].approved)
    <3>1. CASE i \in Before
      <4>1. i \in 1 .. n /\ i \in 1 .. n + 1
        <5>1. i \in 1 .. n
          BY <2>10, <3>1
        <5>2. QED
          BY <2>2, <5>1
      <4>2. decisions'[i] = decisions[i] /\ AcceptedBefore(i)' = AcceptedBefore(i) /\ proposals' = proposals
        BY <2>1, <2>2, <2>3, <4>1
      <4>3. QED
        BY <2>10, <3>1, <4>2
    <3>2. CASE i = n + 1 /\ d.state = "accepted"
      <4>1. AcceptedBefore(i)' = Before
        BY <2>2, <2>3, <3>2
      <4>2. decisions'[i] = d
        BY <2>2, <3>2
      <4>3. QED
        BY <2>1, <2>6, <3>2, <4>1, <4>2
    <3>3. QED
      BY <2>4, <2>11, <3>1, <3>2
  <2>12. DecidedAreSealed'
    BY <1>1, <2>1, <2>2 DEF DecidedAreSealed
  <2> HIDE DEF n, Before
  <2>13. QED
    BY <2>8, <2>9, <2>11, <2>12 DEF AcceptedAsJudged, Asks
<1>4. ASSUME NEW q \in Proposals, NEW i \in DOMAIN pins, NEW o \in DeltaOperations, SealProposal(q, pins[i], o)
      PROVE  AcceptedAsJudged' /\ DecidedAreSealed'
  <2>1. /\ UNCHANGED <<canonical, decisions>>
        /\ \A p \in Proposals : proposals[p] # Unsealed => proposals'[p] = proposals[p]
    BY <1>4, SealsStay
  <2>2. QED
    BY <1>2, <2>1
<1>5. CASE UNCHANGED <<canonical, decisions, proposals>>
  BY <1>2, <1>5
<1>6. (MoveRun \/ WriteSnapshot \/ \E policy \in PolicyEffects : ChangePolicy(policy))
        => UNCHANGED <<canonical, decisions, proposals>>
  BY DEF MoveRun, WriteSnapshot, ChangePolicy
<1>7. QED
  BY <1>3, <1>4, <1>5, <1>6, AdmissionStepIs

(* What is accepted is accepted as it was judged, whatever comes between   *)
(* the judgement and its record, if the revision an evaluation starts from *)
(* is of the heads it goes on to read (admission/service.ts:158-192).      *)
THEOREM AcceptedStaysJudged == AdmissionSpec /\ []ReadsAlone => []AcceptedAsJudged
<1>1. ASSUME AdmissionInit
      PROVE  AdmissionInv
  <2>1. canonical \in Revisions /\ canonical # Broken /\ canonical.revision = 0
    BY <1>1, NothingAssumption DEF AdmissionInit, Revisions
  <2>2. AdmissionIsTyped
    BY <1>1, <2>1 DEF AdmissionInit, AdmissionIsTyped, HeadPairs
  <2>3. SnapshotIsTrue /\ DecidedIsTrue
    BY <1>1 DEF AdmissionInit, SnapshotIsTrue, DecidedIsTrue, DecidedTruly, Unoccupied
  <2>4. DOMAIN decisions = {}
    BY <1>1 DEF AdmissionInit
  <2>5. \A k : AcceptedBefore(k) = {}
    BY <2>4 DEF AcceptedBefore
  <2>6. AcceptedAsJudged /\ DecidedAreSealed
    BY <2>1, <2>4, <2>5, FS_EmptySet DEF AcceptedAsJudged, DecidedAreSealed
  <2>7. QED
    BY <2>2, <2>3, <2>6 DEF AdmissionInv
<1>2. AdmissionInv /\ ReadsAlone /\ [AdmissionNext]_admissionVars => AdmissionInv'
  BY AdmissionTypesStay, SnapshotStaysTrue, DecidedStaysTrue, JudgedStays DEF AdmissionInv
<1>3. AdmissionInv => AcceptedAsJudged
  BY DEF AdmissionInv
<1>4. QED
  BY <1>1, <1>2, <1>3, PTL DEF AdmissionSpec

-------------------------------------------------------------------------------
(* The lifecycle of the installed generations (InstallLifecycle).          *)

(* The steps of an upgrade before the generation it replaces is retained.  *)
BeforeRetained == {"staging", "written", "staged", "cleared"}

PhaseIs ==
  /\ command.at \in {"staging", "written"} => lifecycle.phase = "staging"
  /\ command.at \in {"staged", "cleared", "moved"} => lifecycle.phase = "staged"
  /\ command.at \in {"prior-retained", "switched"} => lifecycle.phase = "prior-retained"
  /\ command.at \in {"activated", "granted", "marked", "recorded"} => lifecycle.phase = "activated"
  /\ command.at = "healthy" => lifecycle.phase = "healthy"
  /\ command.at \in CompensationSteps \ {"failing"} => lifecycle.phase = "compensating"

(* What the running upgrade holds of its transaction, and of the bytes it  *)
(* took aside.                                                             *)
UpgradeHolds ==
  /\ command.at \in UpgradeSteps \cup CompensationSteps =>
       /\ lifecycle \in States /\ lifecycle # Missing
       /\ command.existing \in Markers
       /\ command.at \in UpgradeSteps => command.release = lifecycle.requested
  /\ command.at \in BeforeRetained => command.retains = Missing
  /\ command.at = "moved" => command.retains # Missing
  /\ command.at = "emptied" => target = Missing

(* The kill switch stands from the start of an uninstall to its end, and   *)
(* what a command is to write as a marker has no revoked grant while it is *)
(* not there.                                                              *)
SwitchStands ==
  /\ command.at \in {"killed", "disabled", "revoked", "cleaned", "unmarked"} => killSwitch
  /\ command.at = "unmarked" => marker = Missing
  /\ command.at \in {"staging-install", "bundled", "placed", "granted"} => command.grant \notin revoked
  /\ command.at \in UpgradeSteps \cup CompensationSteps /\ command.existing.grant \in revoked => killSwitch

(* Grants are issued before they are used, for a release.                  *)
GrantsAreIssued ==
  /\ command.at \in InstallSteps => command.release \in Releases
  /\ command.at \in InstallSteps \cup {"granted"} => command.grant \in 1 .. issued
  /\ command.grant # Missing => command.grant \in 1 .. issued
  /\ marker # Missing => marker.grant \in 1 .. issued
  /\ command.at \in {"marked-install", "installed", "killing", "killed", "disabled"} => marker.grant \in 1 .. issued
  /\ command.at \in UpgradeSteps \cup CompensationSteps => command.existing.grant \in 1 .. issued

Conforms == PhaseIs /\ UpgradeHolds /\ SwitchStands /\ GenerationsAreKept /\ RevokedStaysDisabled

LifecycleInv == InstallTypeOK /\ GrantsAreIssued /\ Conforms

(* What the steps do that write the whole of the command.                  *)
LEMMA ReadyIsTyped == Ready \in HostCommands
  BY DEF Ready, HostCommands

LEMMA Verifies ==
  ASSUME LifecycleInv, VerifyTarget
  PROVE  /\ UNCHANGED <<target, marker, aside, killSwitch, stagedPath, kept, lifecycle, versions, revoked, stops>>
         /\ command.at = "activated"
         /\ \/ command' = [command EXCEPT !.at = "failing"] /\ UNCHANGED issued
            \/ /\ target = command.release /\ issued < MaxGrants /\ issued' = issued + 1
               /\ command' = [at |-> "granted", release |-> command.release,
                              existing |-> command.existing, grant |-> issued + 1,
                              retains |-> command.retains]
<1>1. command = [at |-> command.at, release |-> command.release, existing |-> command.existing,
                 grant |-> command.grant, retains |-> command.retains]
  BY DEF LifecycleInv, InstallTypeOK, HostCommands
<1>2. CASE target # command.release
  BY <1>2 DEF VerifyTarget, Goes, files
<1>3. CASE target = command.release
  <2>1. command' = [command EXCEPT !.at = "granted", !.grant = issued + 1]
    BY <1>3 DEF VerifyTarget
  <2>2. command' = [at |-> "granted", release |-> command.release, existing |-> command.existing,
                    grant |-> issued + 1, retains |-> command.retains]
    BY <1>1, <2>1
  <2>3. QED
    BY <1>3, <2>2 DEF VerifyTarget, Provisions, files
<1>4. QED
  BY <1>2, <1>3

LEMMA Retries ==
  ASSUME LifecycleInv, StartRetry
  PROVE  /\ UNCHANGED <<target, marker, aside, killSwitch, stagedPath, kept, lifecycle, versions, issued, revoked, stops>>
         /\ command.at = "ready" /\ Incomplete /\ marker \in Markers /\ lifecycle \in States
         /\ marker.grant \in 1 .. issued
         /\ \/ lifecycle.phase = "compensating" /\ command' = Ready
            \/ /\ lifecycle.phase \in {"staging", "staged", "prior-retained", "activated"}
               /\ command' = [at |-> lifecycle.phase, release |-> lifecycle.requested,
                              existing |-> marker, grant |-> Missing, retains |-> command'.retains]
               /\ command'.retains = IF lifecycle.phase \in RetainedPhases
                                       THEN kept[lifecycle.prior] ELSE Missing
         /\ command' \in HostCommands
<1>1. /\ lifecycle \in States /\ lifecycle.phase \in LifecyclePhases \ {"healthy"}
      /\ marker \in Markers
  BY DEF LifecycleInv, InstallTypeOK, StartRetry, Incomplete, States
<1>2. CASE lifecycle.phase = "compensating"
  BY <1>1, <1>2, ReadyIsTyped DEF StartRetry, files, LifecycleInv, GrantsAreIssued
<1>3. CASE lifecycle.phase # "compensating"
  <2> DEFINE held == IF lifecycle.phase \in RetainedPhases THEN kept[lifecycle.prior] ELSE Missing
  <2>1. command' = [Ready EXCEPT !.at = lifecycle.phase, !.release = lifecycle.requested, !.existing = marker,
                                 !.retains = held]
    BY <1>3 DEF StartRetry
  <2>2. command' = [at |-> lifecycle.phase, release |-> lifecycle.requested,
                    existing |-> marker, grant |-> Missing, retains |-> held]
    BY <2>1 DEF Ready
  <2>3. command' \in HostCommands
    <3>1. held \in Releases \cup {Missing}
      BY <1>1 DEF LifecycleInv, InstallTypeOK, States
    <3>2. QED
      BY <1>1, <1>3, <2>2, <3>1 DEF HostCommands, LifecyclePhases, States, UpgradeSteps
  <2>4. QED
    BY <1>1, <1>3, <2>2, <2>3 DEF StartRetry, files, LifecyclePhases, LifecycleInv, GrantsAreIssued
<1>4. QED
  BY <1>2, <1>3

LEMMA Installs ==
  ASSUME LifecycleInv, NEW r \in Releases, StartInstall(r)
  PROVE  /\ UNCHANGED <<target, marker, aside, killSwitch, stagedPath, kept, lifecycle, versions, revoked, stops>>
         /\ command.at = "ready" /\ issued < MaxGrants /\ issued' = issued + 1
         /\ command' = [at |-> "staging-install", release |-> r, existing |-> Missing, grant |-> issued + 1,
                        retains |-> Missing]
         /\ issued + 1 \notin revoked
         /\ command' \in HostCommands /\ issued' \in 0 .. MaxGrants /\ revoked' \subseteq 1 .. issued'
<1>1. command' = [Ready EXCEPT !.at = "staging-install", !.release = r, !.grant = issued + 1]
  BY DEF StartInstall
<1>2. command' = [at |-> "staging-install", release |-> r, existing |-> Missing, grant |-> issued + 1,
                  retains |-> Missing]
  BY <1>1 DEF Ready
<1>3. issued \in 0 .. MaxGrants /\ issued < MaxGrants /\ issued' = issued + 1 /\ revoked \subseteq 1 .. issued
  BY DEF LifecycleInv, InstallTypeOK, StartInstall, Provisions
<1>4. issued + 1 \in 1 .. MaxGrants
  BY <1>3, InstallAssumption
<1>5. command' \in HostCommands
  BY <1>2, <1>4 DEF HostCommands, InstallSteps
<1>6. revoked' = revoked /\ issued' \in 0 .. MaxGrants
  BY <1>3, InstallAssumption DEF StartInstall
<1>7. revoked' \subseteq 1 .. issued'
  BY <1>3, <1>6
<1>8. issued + 1 \notin revoked
  BY <1>3
<1>9. QED
  BY <1>2, <1>3, <1>5, <1>6, <1>7, <1>8 DEF StartInstall, Provisions, files

LEMMA StartsUpgrade ==
  ASSUME LifecycleInv, NEW r \in Releases, NEW op \in Upgrades, StartUpgrade(op, r)
  PROVE  /\ UNCHANGED <<target, marker, aside, killSwitch, kept, versions, issued, revoked, stops>>
         /\ command.at = "ready" /\ marker # Missing /\ marker \in Markers
         /\ marker.release \in Releases /\ marker.grant \in 1 .. issued
         /\ lifecycle' = [phase |-> "staging", requested |-> r, prior |-> marker.release]
         /\ stagedPath' = Missing
         /\ command' = [at |-> "staging", release |-> r, existing |-> marker, grant |-> Missing,
                        retains |-> Missing]
         /\ command' \in HostCommands /\ lifecycle' \in States
<1>1. command' = [Ready EXCEPT !.at = "staging", !.release = r, !.existing = marker]
  BY DEF StartUpgrade
<1>2. command' = [at |-> "staging", release |-> r, existing |-> marker, grant |-> Missing,
                  retains |-> Missing]
  BY <1>1 DEF Ready
<1>3. marker \in Markers /\ command' \in HostCommands
  BY <1>2 DEF StartUpgrade, LifecycleInv, InstallTypeOK, HostCommands, UpgradeSteps
<1>4. lifecycle' \in States
  BY <1>3 DEF StartUpgrade, States, Markers, LifecyclePhases
<1>5. QED
  BY <1>2, <1>3, <1>4
  DEF StartUpgrade, LifecycleInv, GrantsAreIssued, Markers

LEMMA Retains ==
  ASSUME LifecycleInv, RetainPrior
  PROVE  /\ UNCHANGED <<marker, aside, killSwitch, stagedPath, lifecycle, versions, issued, revoked, stops>>
         /\ command.at = "cleared" /\ lifecycle \in States
         /\ \/ command' = [command EXCEPT !.at = "failing"] /\ UNCHANGED <<target, kept>>
            \/ /\ target \in Releases /\ target' = Missing
               /\ kept' = [kept EXCEPT ![lifecycle.prior] = target]
               /\ command' = [at |-> "moved", release |-> command.release, existing |-> command.existing,
                              grant |-> command.grant, retains |-> target]
         /\ command' \in HostCommands
<1>1. command = [at |-> command.at, release |-> command.release, existing |-> command.existing,
                 grant |-> command.grant, retains |-> command.retains]
  BY DEF LifecycleInv, InstallTypeOK, HostCommands
<1>2. command.at = "cleared" /\ lifecycle \in States /\ command \in HostCommands
  BY DEF RetainPrior, LifecycleInv, InstallTypeOK, Conforms, UpgradeHolds, UpgradeSteps
<1>3. CASE target = Missing
  <2>1. command' = [command EXCEPT !.at = "failing"]
    BY <1>3 DEF RetainPrior, Goes
  <2>2. command' \in HostCommands
    BY <1>2, <2>1 DEF HostCommands, CompensationSteps
  <2>3. QED
    BY <1>2, <1>3, <2>1, <2>2 DEF RetainPrior
<1>4. CASE target # Missing
  <2>1. target \in Releases
    BY <1>4 DEF LifecycleInv, InstallTypeOK
  <2>2. command' = [command EXCEPT !.at = "moved", !.retains = target]
    BY <1>4 DEF RetainPrior
  <2>3. command' = [at |-> "moved", release |-> command.release, existing |-> command.existing,
                    grant |-> command.grant, retains |-> target]
    BY <1>1, <2>2
  <2>4. command' \in HostCommands
    BY <1>2, <2>1, <2>3 DEF HostCommands, UpgradeSteps
  <2>5. QED
    BY <1>2, <1>4, <2>1, <2>3, <2>4 DEF RetainPrior
<1>5. QED
  BY <1>3, <1>4

LEMMA Dies ==
  ASSUME LifecycleInv, CommandDies
  PROVE  /\ UNCHANGED <<target, marker, aside, killSwitch, stagedPath, kept, lifecycle, versions, issued, revoked>>
         /\ stops' \in 0 .. MaxStops /\ command' = Ready /\ command' \in HostCommands
  BY ReadyIsTyped, InstallAssumption DEF CommandDies, files, Ends, LifecycleInv, InstallTypeOK

LEMMA Fails ==
  ASSUME LifecycleInv, UpgradeFails
  PROVE  /\ UNCHANGED <<target, marker, aside, killSwitch, stagedPath, kept, lifecycle, versions, issued, revoked>>
         /\ stops' \in 0 .. MaxStops
         /\ \/ command.at \in UpgradeSteps /\ command' = [command EXCEPT !.at = "failing"]
            \/ command.at \in CompensationSteps /\ command' = Ready
  BY InstallAssumption
  DEF UpgradeFails, files, Ends, Goes, LifecycleInv, InstallTypeOK, UpgradeSteps, CompensationSteps

(* The types stay, and with them that a grant was issued before it is in   *)
(* use.                                                                    *)
LEMMA LifecycleTypesStay ==
  ASSUME LifecycleInv, [InstallNext]_installVars
  PROVE  InstallTypeOK'
<1> USE InstallAssumption, MissingAssumption
    DEF LifecycleInv, Conforms, InstallTypeOK, GrantsAreIssued, PhaseIs, UpgradeHolds, SwitchStands,
        files, Goes, Ends, Ready, Provisions, Markers, LifecyclePhases, States, HostCommands, InstallSteps,
        UpgradeSteps, CompensationSteps, UninstallSteps, BeforeRetained
<1>1. ASSUME NEW r \in Releases, StartInstall(r)
      PROVE  InstallTypeOK'
  <2> HIDE DEF HostCommands, States, Markers
  <2>1. QED
    BY <1>1, Installs
<1>2. ASSUME NEW r \in Releases, StartRepair(r)
      PROVE  InstallTypeOK'
  BY <1>2, <1>1 DEF StartRepair
<1>3. ASSUME NEW r \in Releases, NEW op \in Upgrades, StartUpgrade(op, r)
      PROVE  InstallTypeOK'
  <2> HIDE DEF HostCommands, States, Markers
  <2>1. QED
    BY <1>3, StartsUpgrade
<1>4. CASE StageManaged
  BY <1>4 DEF StageManaged
<1>5. CASE ActivateInstall
  BY <1>5 DEF ActivateInstall
<1>6. CASE MarkInstall
  BY <1>6 DEF MarkInstall
<1>7. CASE RecordInstall
  BY <1>7 DEF RecordInstall
<1>8. CASE EndInstall
  BY <1>8 DEF EndInstall
<1>9. CASE StageGeneration
  BY <1>9 DEF StageGeneration
<1>10. CASE PersistPhase("written", "staged")
  BY <1>10 DEF PersistPhase
<1>11. CASE ClearKept
  BY <1>11 DEF ClearKept
<1>12. CASE RetainPrior
  BY <1>12, Retains
<1>13. CASE PersistPhase("moved", "prior-retained")
  BY <1>13 DEF PersistPhase
<1>14. CASE SwitchTarget
  BY <1>14 DEF SwitchTarget
<1>15. CASE PersistPhase("switched", "activated")
  BY <1>15 DEF PersistPhase
<1>16. CASE VerifyTarget
  BY <1>16, Verifies
<1>17. CASE MarkTarget
  BY <1>17 DEF MarkTarget
<1>18. CASE RecordVersion
  BY <1>18 DEF RecordVersion
<1>19. CASE PersistPhase("recorded", "healthy")
  BY <1>19 DEF PersistPhase
<1>20. CASE EndUpgrade
  BY <1>20 DEF EndUpgrade
<1>21. CASE UpgradeFails
  BY <1>21, Fails
<1>22. CASE PersistPhase("failing", "compensating")
  BY <1>22 DEF PersistPhase
<1>23. CASE RemoveTarget
  BY <1>23 DEF RemoveTarget
<1>24. CASE RestoreKept
  BY <1>24 DEF RestoreKept
<1>25. CASE RestoreMarker
  BY <1>25 DEF RestoreMarker
<1>26. CASE DropStaged
  BY <1>26 DEF DropStaged
<1>27. CASE DropLifecycle
  BY <1>27 DEF DropLifecycle
<1>28. CASE WriteKillSwitch
  BY <1>28 DEF WriteKillSwitch
<1>29. CASE DisableDiscovery
  BY <1>29 DEF DisableDiscovery
<1>30. CASE RevokeGrant
  BY <1>30 DEF RevokeGrant
<1>31. CASE RemoveBytes
  BY <1>31 DEF RemoveBytes
<1>32. CASE RemoveMarker
  BY <1>32 DEF RemoveMarker
<1>33. CASE RemoveKillSwitch
  BY <1>33 DEF RemoveKillSwitch
<1>34. CASE StartRetry
  <2> HIDE DEF HostCommands, States, Markers
  <2>1. QED
    BY <1>34, Retries
<1>35. CASE StartUninstall
  BY <1>35 DEF StartUninstall
<1>36. CASE CommandDies
  BY ZenonT(60), <1>36, Dies
<1>37. CASE UNCHANGED installVars
  BY <1>37 DEF installVars
<1>38. QED
  BY <1>1, <1>2, <1>3, <1>4, <1>5, <1>6, <1>7, <1>8, <1>9, <1>10, <1>11, <1>12, <1>13, <1>14, <1>15,
     <1>16, <1>17, <1>18, <1>19, <1>20, <1>21, <1>22, <1>23, <1>24, <1>25, <1>26, <1>27, <1>28,
     <1>29, <1>30, <1>31, <1>32, <1>33, <1>34, <1>35, <1>36, <1>37
  DEF InstallNext, InstallStep, UpgradeStep, CompensationStep, UninstallStep

LEMMA GrantsStayIssued ==
  ASSUME LifecycleInv, [InstallNext]_installVars
  PROVE  GrantsAreIssued'
<1> USE InstallAssumption, MissingAssumption
    DEF LifecycleInv, Conforms, InstallTypeOK, GrantsAreIssued, PhaseIs, UpgradeHolds, SwitchStands,
        files, Goes, Ends, Ready, Provisions, Markers, States, HostCommands, InstallSteps, UpgradeSteps,
        CompensationSteps, UninstallSteps, BeforeRetained
<1>1. ASSUME NEW r \in Releases, StartInstall(r)
      PROVE  GrantsAreIssued'
  BY <1>1, Installs
<1>2. ASSUME NEW r \in Releases, StartRepair(r)
      PROVE  GrantsAreIssued'
  BY <1>2, <1>1 DEF StartRepair
<1>3. ASSUME NEW r \in Releases, NEW op \in Upgrades, StartUpgrade(op, r)
      PROVE  GrantsAreIssued'
  BY <1>3, StartsUpgrade
<1>4. CASE StageManaged
  BY <1>4 DEF StageManaged
<1>5. CASE ActivateInstall
  BY <1>5 DEF ActivateInstall
<1>6. CASE MarkInstall
  BY <1>6 DEF MarkInstall
<1>7. CASE RecordInstall
  BY <1>7 DEF RecordInstall
<1>8. CASE EndInstall
  BY <1>8 DEF EndInstall
<1>9. CASE StageGeneration
  BY <1>9 DEF StageGeneration
<1>10. CASE PersistPhase("written", "staged")
  BY <1>10 DEF PersistPhase
<1>11. CASE ClearKept
  BY <1>11 DEF ClearKept
<1>12. CASE RetainPrior
  BY <1>12, Retains
<1>13. CASE PersistPhase("moved", "prior-retained")
  BY <1>13 DEF PersistPhase
<1>14. CASE SwitchTarget
  BY <1>14 DEF SwitchTarget
<1>15. CASE PersistPhase("switched", "activated")
  BY <1>15 DEF PersistPhase
<1>16. CASE VerifyTarget
  BY <1>16, Verifies
<1>17. CASE MarkTarget
  BY <1>17 DEF MarkTarget
<1>18. CASE RecordVersion
  BY <1>18 DEF RecordVersion
<1>19. CASE PersistPhase("recorded", "healthy")
  BY <1>19 DEF PersistPhase
<1>20. CASE EndUpgrade
  BY <1>20 DEF EndUpgrade
<1>21. CASE UpgradeFails
  BY <1>21, Fails
<1>22. CASE PersistPhase("failing", "compensating")
  BY <1>22 DEF PersistPhase
<1>23. CASE RemoveTarget
  BY <1>23 DEF RemoveTarget
<1>24. CASE RestoreKept
  BY <1>24 DEF RestoreKept
<1>25. CASE RestoreMarker
  BY <1>25 DEF RestoreMarker
<1>26. CASE DropStaged
  BY <1>26 DEF DropStaged
<1>27. CASE DropLifecycle
  BY <1>27 DEF DropLifecycle
<1>28. CASE WriteKillSwitch
  BY <1>28 DEF WriteKillSwitch
<1>29. CASE DisableDiscovery
  BY <1>29 DEF DisableDiscovery
<1>30. CASE RevokeGrant
  BY <1>30 DEF RevokeGrant
<1>31. CASE RemoveBytes
  BY <1>31 DEF RemoveBytes
<1>32. CASE RemoveMarker
  BY <1>32 DEF RemoveMarker
<1>33. CASE RemoveKillSwitch
  BY <1>33 DEF RemoveKillSwitch
<1>34. CASE StartRetry
  BY <1>34, Retries
<1>35. CASE StartUninstall
  BY <1>35 DEF StartUninstall
<1>36. CASE CommandDies
  BY <1>36, Dies
<1>37. CASE UNCHANGED installVars
  BY SMTT(60), <1>37 DEF installVars
<1>38. QED
  BY <1>1, <1>2, <1>3, <1>4, <1>5, <1>6, <1>7, <1>8, <1>9, <1>10, <1>11, <1>12, <1>13, <1>14, <1>15,
     <1>16, <1>17, <1>18, <1>19, <1>20, <1>21, <1>22, <1>23, <1>24, <1>25, <1>26, <1>27, <1>28,
     <1>29, <1>30, <1>31, <1>32, <1>33, <1>34, <1>35, <1>36, <1>37
  DEF InstallNext, InstallStep, UpgradeStep, CompensationStep, UninstallStep

(* No step loses the bytes that were taken aside, nor leaves a marker of a *)
(* revoked grant without the kill switch.                                  *)
LEMMA LifecycleConforms ==
  ASSUME LifecycleInv, [InstallNext]_installVars, InstallTypeOK'
  PROVE  Conforms'
<1> USE InstallAssumption, MissingAssumption
    DEF Conforms, LifecycleInv, InstallTypeOK, PhaseIs, UpgradeHolds, SwitchStands, GrantsAreIssued,
        files, Goes, Ends, Ready, Incomplete, GenerationsAreKept, RevokedStaysDisabled, Provisions,
        RetainedPhases, LifecyclePhases, Markers, States, HostCommands, InstallSteps, UpgradeSteps,
        CompensationSteps, UninstallSteps, BeforeRetained
<1>1. ASSUME NEW r \in Releases, StartInstall(r)
      PROVE  Conforms'
  BY <1>1, Installs
<1>2. ASSUME NEW r \in Releases, StartRepair(r)
      PROVE  Conforms'
  BY <1>2, <1>1 DEF StartRepair
<1>3. ASSUME NEW r \in Releases, NEW op \in Upgrades, StartUpgrade(op, r)
      PROVE  Conforms'
  BY <1>3, StartsUpgrade
<1>4. CASE StageManaged
  BY <1>4 DEF StageManaged
<1>5. CASE ActivateInstall
  BY <1>5 DEF ActivateInstall
<1>6. CASE MarkInstall
  BY <1>6 DEF MarkInstall
<1>7. CASE RecordInstall
  BY <1>7 DEF RecordInstall
<1>8. CASE EndInstall
  BY <1>8 DEF EndInstall
<1>9. CASE StageGeneration
  BY <1>9 DEF StageGeneration
<1>10. CASE PersistPhase("written", "staged")
  BY <1>10 DEF PersistPhase
<1>11. CASE ClearKept
  BY <1>11 DEF ClearKept
<1>12. CASE RetainPrior
  BY <1>12, Retains
<1>13. CASE PersistPhase("moved", "prior-retained")
  BY <1>13 DEF PersistPhase
<1>14. CASE SwitchTarget
  BY <1>14 DEF SwitchTarget
<1>15. CASE PersistPhase("switched", "activated")
  BY <1>15 DEF PersistPhase
<1>16. CASE VerifyTarget
  BY <1>16, Verifies
<1>17. CASE MarkTarget
  BY <1>17 DEF MarkTarget
<1>18. CASE RecordVersion
  BY <1>18 DEF RecordVersion
<1>19. CASE PersistPhase("recorded", "healthy")
  BY <1>19 DEF PersistPhase
<1>20. CASE EndUpgrade
  BY <1>20 DEF EndUpgrade
<1>21. CASE UpgradeFails
  BY <1>21, Fails
<1>22. CASE PersistPhase("failing", "compensating")
  BY <1>22 DEF PersistPhase
<1>23. CASE RemoveTarget
  BY <1>23 DEF RemoveTarget
<1>24. CASE RestoreKept
  BY <1>24 DEF RestoreKept
<1>25. CASE RestoreMarker
  BY <1>25 DEF RestoreMarker
<1>26. CASE DropStaged
  BY <1>26 DEF DropStaged
<1>27. CASE DropLifecycle
  BY <1>27 DEF DropLifecycle
<1>28. CASE WriteKillSwitch
  BY <1>28 DEF WriteKillSwitch
<1>29. CASE DisableDiscovery
  BY <1>29 DEF DisableDiscovery
<1>30. CASE RevokeGrant
  BY <1>30 DEF RevokeGrant
<1>31. CASE RemoveBytes
  BY <1>31 DEF RemoveBytes
<1>32. CASE RemoveMarker
  BY <1>32 DEF RemoveMarker
<1>33. CASE RemoveKillSwitch
  BY <1>33 DEF RemoveKillSwitch
<1>34. CASE StartRetry
  BY <1>34, Retries
<1>35. CASE StartUninstall
  BY <1>35 DEF StartUninstall
<1>36. CASE CommandDies
  BY <1>36, Dies
<1>37. CASE UNCHANGED installVars
  BY <1>37 DEF installVars
<1>38. QED
  BY ZenonT(30), <1>1, <1>2, <1>3, <1>4, <1>5, <1>6, <1>7, <1>8, <1>9, <1>10, <1>11, <1>12, <1>13, <1>14, <1>15,
     <1>16, <1>17, <1>18, <1>19, <1>20, <1>21, <1>22, <1>23, <1>24, <1>25, <1>26, <1>27, <1>28,
     <1>29, <1>30, <1>31, <1>32, <1>33, <1>34, <1>35, <1>36, <1>37
  DEF InstallNext, InstallStep, UpgradeStep, CompensationStep, UninstallStep

LEMMA LifecycleStarts ==
  ASSUME InstallInit
  PROVE  LifecycleInv
<1>1. Ready \in HostCommands /\ command = Ready /\ command.at = "ready"
  BY ReadyIsTyped DEF InstallInit, Ready
<1>2. InstallTypeOK
  <2>1. kept \in [Releases -> Releases \cup {Missing}]
    BY DEF InstallInit
  <2>2. issued \in 0 .. MaxGrants /\ stops \in 0 .. MaxStops /\ revoked \subseteq 1 .. issued
    BY InstallAssumption DEF InstallInit
  <2>3. {target, aside, stagedPath} \subseteq Releases \cup {Missing} /\ versions \subseteq Releases
    BY DEF InstallInit
  <2>4. QED
    BY <1>1, <2>1, <2>2, <2>3 DEF InstallInit, InstallTypeOK
<1>3. GrantsAreIssued
  BY <1>1
  DEF InstallInit, GrantsAreIssued, Ready, InstallSteps, UpgradeSteps, CompensationSteps
<1>4. Conforms
  BY <1>1
  DEF InstallInit, Conforms, PhaseIs, UpgradeHolds, SwitchStands, GenerationsAreKept, Ready,
      RevokedStaysDisabled, Incomplete, BeforeRetained, UpgradeSteps, CompensationSteps
<1>5. QED
  BY <1>2, <1>3, <1>4 DEF LifecycleInv

LEMMA LifecycleInvHolds == InstallSpec => []LifecycleInv
<1>1. LifecycleInv /\ [InstallNext]_installVars => LifecycleInv'
  BY LifecycleTypesStay, GrantsStayIssued, LifecycleConforms DEF LifecycleInv
<1>2. QED
  BY <1>1, LifecycleStarts, PTL DEF InstallSpec

(* An upgrade that took a generation aside holds on to its bytes until its *)
(* compensation has put them back, and a retry finds what the record says  *)
(* was retained, wherever commands fail or die (operations/index.ts:       *)
(* 187-207).                                                               *)
THEOREM GenerationsStay == InstallSpec => []GenerationsAreKept
<1>1. LifecycleInv => GenerationsAreKept
  BY SMTT(30) DEF LifecycleInv, Conforms
<1>2. QED
  BY <1>1, LifecycleInvHolds, PTL

(* No contribution is offered with a revoked grant, wherever an uninstall  *)
(* dies and whatever commands come after it (operations/index.ts:172-178). *)
THEOREM RevokedStayDisabled == InstallSpec => []RevokedStaysDisabled
<1>1. LifecycleInv => RevokedStaysDisabled
  BY SMTT(30) DEF LifecycleInv, Conforms
<1>2. QED
  BY <1>1, LifecycleInvHolds, PTL

-------------------------------------------------------------------------------
(* The migration of the home (InstallMigration).                           *)

MigrationIsTyped ==
  /\ state \in [phase : MigrationPhases, installed : Versions, generation : Int]
  /\ origin \in Versions
  /\ migration \in [at : MigrationSteps, from : Versions \cup {NoHome}, to : Versions \cup {NoHome}]

(* Where the home stands that the migration started from: in its place     *)
(* until the backup is whole, and in the backup from then on.              *)
Untouched == home = origin /\ backup = NoHome
BackedUp == backup = origin

(* The steps of the migration between its backup and its end, and those of *)
(* the compensation and of the recovery.                                   *)
AfterBackup == {"copied", "backup-created", "transformed", "staged", "parted", "switched"}
Compensating == {"failing"} \cup BackwardSteps

(* Only a failure or a death that leaves the backup unfinished is excluded.*)
BackupIsWhole ==
  "copying" \notin MigrationDeathPoints /\ MigrationFailPoints \cap {"begun", "copying"} = {}

OriginIsKept ==
  /\ migration.at = "ready" /\ state.phase \notin Settled => Untouched \/ BackedUp
  /\ migration.at = "begun" => Untouched
  /\ migration.at = "copying" => home = origin
  /\ migration.at \in AfterBackup \cup Compensating \cup {"complete"} => BackedUp
  /\ migration.at \in {"restored", "compensated"} => home = origin

PhaseFits ==
  /\ migration.at \in {"begun", "copying"} \cup AfterBackup => state.phase \notin Settled
  /\ migration.at \in BackwardSteps \ {"compensated"} => state.phase \notin Settled
  /\ migration.at = "compensated" => state.phase = "compensated"
  /\ migration.at = "complete" => state.phase = "complete"
  /\ migration.at = "failing" => state.phase # "compensated"
  /\ migration.at \in {"complete", "failing"} /\ state.phase = "complete" => home = state.installed

CommandFits ==
  /\ migration.at \in {"begun", "copying"} \cup AfterBackup => migration.to \in Versions
  /\ migration.at \in {"transformed", "staged", "parted"} => nextHome = migration.to
  /\ migration.at = "switched" => home = migration.to

MigrationInv == MigrationIsTyped /\ OriginIsKept /\ PhaseFits /\ CommandFits /\ HomeIsKept

(* No step loses the home that the migration started from, if none         *)
(* interrupts the copy that backs it up.                                   *)
LEMMA MigrationKeepsInv ==
  ASSUME BackupIsWhole, MigrationInv, [MigrationNext]_migrationVars
  PROVE  MigrationInv'
<1> USE TreesAssumption
    DEF MigrationInv, MigrationIsTyped, OriginIsKept, PhaseFits, CommandFits, HomeIsKept,
        Untouched, BackedUp, AfterBackup, Compensating, ForwardSteps, BackwardSteps, MigrationPhases,
        MigrationSteps, Settled, MigrationGoes, MigrationEnds, Saves
<1>1. ASSUME NEW to \in Versions, Migrate(to)
      PROVE  MigrationInv'
  <2>1. /\ state' = [phase |-> "begun", installed |-> state.installed, generation |-> state.generation + 1]
        /\ migration' = [at |-> "begun", from |-> state.installed, to |-> to]
        /\ backup' = NoHome /\ home' = state.installed /\ origin' = state.installed
    BY <1>1 DEF Migrate
  <2>2. QED
    BY <2>1
<1>2. CASE StartBackup
  BY <1>2 DEF StartBackup
<1>3. CASE EndBackup
  BY <1>3 DEF EndBackup
<1>4. CASE SaveMigration("copied", "backup-created")
  BY <1>4 DEF SaveMigration
<1>5. CASE Transform
  BY <1>5 DEF Transform
<1>6. CASE SaveMigration("transformed", "staged")
  BY <1>6 DEF SaveMigration
<1>7. CASE PartHome
  BY <1>7 DEF PartHome
<1>8. CASE SwitchHome
  BY <1>8 DEF SwitchHome
<1>9. CASE CompleteMigration
  BY <1>9 DEF CompleteMigration
<1>10. CASE ReturnMigration
  BY <1>10 DEF ReturnMigration
<1>11. CASE MigrationFails
  <2>1. migration.at \notin {"begun", "copying"} /\ UNCHANGED <<home, backup, nextHome, origin>>
    BY <1>11 DEF MigrationFails, BackupIsWhole
  <2>2. CASE migration.at \in ForwardSteps /\ MigrationGoes("failing") /\ UNCHANGED state
    BY <2>1, <2>2
  <2>3. CASE migration.at \in BackwardSteps /\ Saves("repair-required") /\ MigrationEnds
    BY <2>1, <2>3
  <2>4. CASE migration.at \in BackwardSteps \cup {"failing"} /\ MigrationEnds /\ UNCHANGED state
    BY <2>1, <2>4
  <2>5. QED
    BY <1>11, <2>2, <2>3, <2>4 DEF MigrationFails
<1>12. CASE SaveMigration("failing", "compensating")
  BY <1>12 DEF SaveMigration
<1>13. CASE EmptyHome
  BY <1>13 DEF EmptyHome
<1>14. CASE StartRestore
  BY <1>14 DEF StartRestore
<1>15. CASE EndRestore
  BY <1>15 DEF EndRestore
<1>16. CASE Compensated
  BY <1>16 DEF Compensated
<1>17. CASE Recover
  BY <1>17 DEF Recover
<1>18. CASE MigrationDies
  <2>1. migration.at # "copying" /\ UNCHANGED <<home, backup, nextHome, state, origin>>
    BY <1>18 DEF MigrationDies, BackupIsWhole
  <2>2. migration'.at = "ready" /\ MigrationIsTyped'
    BY <1>18 DEF MigrationDies
  <2>3. state.phase \notin Settled => Untouched \/ BackedUp
    BY <2>1
  <2>4. /\ state.phase = "complete" => home = state.installed
        /\ state.phase = "compensated" => home = origin
    BY <2>1
  <2>5. QED
    BY <2>1, <2>2, <2>3, <2>4
<1>19. CASE UNCHANGED migrationVars
  BY <1>19 DEF migrationVars
<1>20. QED
  BY <1>1, <1>2, <1>3, <1>4, <1>5, <1>6, <1>7, <1>8, <1>9, <1>10,
     <1>11, <1>12, <1>13, <1>14, <1>15, <1>16, <1>17, <1>18, <1>19
  DEF MigrationNext

(* Whatever fails or dies, and however often, a migration ends with the    *)
(* home it names or with the one it started from, and until then that one  *)
(* is active or in the backup, unless the copy that makes the backup is    *)
(* interrupted (migrations/index.ts:117-139).                              *)
THEOREM HomeStays ==
  ASSUME BackupIsWhole
  PROVE  MigrationSpec => []HomeIsKept
<1>1. ASSUME MigrationInit
      PROVE  MigrationInv
  <2>1. PICK v \in Versions :
          home = v /\ state = [phase |-> "complete", installed |-> v, generation |-> 1]
    BY <1>1 DEF MigrationInit
  <2>2. migration = [at |-> "ready", from |-> NoHome, to |-> NoHome]
    BY <1>1 DEF MigrationInit
  <2>3. origin = home
    BY <1>1 DEF MigrationInit
  <2>4. QED
    BY <2>1, <2>2, <2>3
    DEF MigrationInv, MigrationIsTyped, OriginIsKept, PhaseFits, CommandFits, HomeIsKept, Settled,
        MigrationPhases, MigrationSteps, ForwardSteps, BackwardSteps, AfterBackup, Compensating
<1>2. MigrationInv /\ [MigrationNext]_migrationVars => MigrationInv'
  BY MigrationKeepsInv
<1>3. MigrationInv => HomeIsKept
  BY DEF MigrationInv
<1>4. QED
  BY <1>1, <1>2, <1>3, PTL DEF MigrationSpec

-------------------------------------------------------------------------------
(* The journal of the installer (InstallJournal).                          *)

(* A lock names one append of one incarnation of a process.                *)
AnyOwner == [process : Installers, incarnation : Nat, nonce : Nat]

JournalIsTyped ==
  /\ journalLock \in [there : BOOLEAN, owner : SUBSET AnyOwner]
  /\ records \in Seq(AnyOwner) /\ appended \subseteq AnyOwner
  /\ append \in [Installers -> [at : AppendSteps, nonce : Nat, seen : SUBSET AnyOwner,
                                read : Seq(AnyOwner)]]
  /\ incarnation \in [Installers -> Nat]

Holding == {"reading", "writing", "releasing", "unlocking"}
Outdated(o) == o.incarnation < incarnation[o.process]

(* The lock is of the process that made it, from its naming to its release,*)
(* and a process that is to take one over found an owner there that died.  *)
ProcessFits(p) ==
  /\ append[p].at = "naming" => journalLock = Unnamed
  /\ append[p].at \in Holding => journalLock = HeldBy(Me(p))
  /\ append[p].at \in {"rereading", "evicting"} =>
       \E o \in AnyOwner : append[p].seen = {o} /\ Outdated(o)
  /\ append[p].at = "evicting" => journalLock = [there |-> TRUE, owner |-> append[p].seen]

LockFits ==
  /\ journalLock.owner # {} => journalLock.there
  /\ \A o \in journalLock.owner : o.incarnation <= incarnation[o.process]
  /\ \A p \in Installers : ProcessFits(p)

OneHolder ==
  \A p, q \in Installers :
    append[p].at \in Holding \cup {"naming"} /\ append[q].at \in Holding \cup {"naming"} => p = q

(* The append that is going on has not written its record, or has written  *)
(* it once.                                                                *)
RecordsAreFresh ==
  \A i \in 1 .. Len(records) :
    LET o == records[i]
    IN  /\ o.nonce <= append[o.process].nonce
        /\ o.nonce = append[o.process].nonce =>
             append[o.process].at \in {"idle", "releasing", "unlocking"}

RecordsAreDistinct == \A i, j \in 1 .. Len(records) : records[i] = records[j] => i = j

Written(o) == \E i \in 1 .. Len(records) : records[i] = o
AppendedIsWritten ==
  /\ \A o \in appended : Written(o)
  /\ \A p \in Installers :
       /\ append[p].at \in {"releasing", "unlocking"} => Written(Me(p))
       /\ append[p].at = "writing" => append[p].read = records

JournalInv ==
  JournalIsTyped /\ LockFits /\ OneHolder /\ RecordsAreFresh /\ RecordsAreDistinct /\ AppendedIsWritten

-----------------------------------------------------------------------------
(* What a step makes of the process that takes it.                         *)
AppendStates == [at : AppendSteps, nonce : Nat, seen : SUBSET AnyOwner, read : Seq(AnyOwner)]

Turned(p, at, nonce, found, read) ==
  /\ append' \in [Installers -> AppendStates]
  /\ append'[p].at = at /\ append'[p].nonce = nonce
  /\ append'[p].seen = found /\ append'[p].read = read
  /\ \A q \in Installers \ {p} : append'[q] = append[q]

LEMMA TurnsTo ==
  ASSUME JournalIsTyped, NEW p \in Installers, NEW at \in AppendSteps, AppendIs(p, at)
  PROVE  Turned(p, at, append[p].nonce, append[p].seen, append[p].read)
BY DEF JournalIsTyped, AppendStates, Turned, AppendIs

LEMMA TurnsIdle ==
  ASSUME JournalIsTyped, NEW p \in Installers, AppendEnds(p)
  PROVE  Turned(p, "idle", append[p].nonce, {}, <<>>)
<1> DEFINE unread == [append EXCEPT ![p].at = "idle", ![p].seen = {}]
<1>1. /\ unread \in [Installers -> AppendStates]
      /\ unread[p].at = "idle" /\ unread[p].nonce = append[p].nonce /\ unread[p].seen = {}
      /\ \A q \in Installers \ {p} : unread[q] = append[q]
  BY DEF JournalIsTyped, AppendStates, AppendSteps
<1>2. append' = [unread EXCEPT ![p].read = <<>>]
  BY DEF JournalIsTyped, AppendStates, AppendEnds
<1>3. <<>> \in Seq(AnyOwner)
  OBVIOUS
<1> HIDE DEF unread
<1>4. QED
  BY <1>1, <1>2, <1>3 DEF AppendStates, Turned

LEMMA TurnsToAcquire ==
  ASSUME JournalIsTyped, NEW p \in Installers, StartAppend(p)
  PROVE  Turned(p, "acquiring", append[p].nonce + 1, append[p].seen, append[p].read)
BY DEF JournalIsTyped, AppendStates, AppendSteps, Turned, StartAppend

LEMMA TurnsToReread ==
  ASSUME JournalIsTyped, NEW p \in Installers, NEW o \in AnyOwner,
         append' = [append EXCEPT ![p].at = "rereading", ![p].seen = {o}]
  PROVE  Turned(p, "rereading", append[p].nonce, {o}, append[p].read)
BY DEF JournalIsTyped, AppendStates, AppendSteps, Turned

LEMMA TurnsToWrite ==
  ASSUME JournalIsTyped, NEW p \in Installers, ReadRecords(p)
  PROVE  Turned(p, "writing", append[p].nonce, append[p].seen, records)
BY DEF JournalIsTyped, AppendStates, AppendSteps, Turned, ReadRecords

-----------------------------------------------------------------------------
(* The steps, each by what it does to the process that takes it.           *)
Waited(p) ==
  \/ Turned(p, "acquiring", append[p].nonce, append[p].seen, append[p].read)
  \/ Turned(p, "idle", append[p].nonce, {}, <<>>)

LEMMA Waits ==
  ASSUME JournalIsTyped, NEW p \in Installers, Wait(p)
  PROVE  Waited(p)
BY TurnsTo, TurnsIdle DEF Wait, Waited, AppendSteps

LEMMA LocksAreTyped ==
  /\ {Absent, Unnamed} \subseteq [there : BOOLEAN, owner : SUBSET AnyOwner]
  /\ \A o \in AnyOwner : HeldBy(o) \in [there : BOOLEAN, owner : SUBSET AnyOwner]
BY DEF Absent, Unnamed, HeldBy

LEMMA JournalTypesStay ==
  ASSUME JournalIsTyped, NEW p \in Installers, AppendStep(p) \/ InstallerDies(p)
  PROVE  JournalIsTyped'
<1> USE DEF JournalIsTyped, Turned, AppendStates
<1>1. Me(p) \in AnyOwner
  BY DEF Me, AnyOwner
<1>2. CASE StartAppend(p)
  BY <1>2, TurnsToAcquire DEF StartAppend
<1>3. CASE MakeJournalLock(p)
  <2>1. journalLock' \in [there : BOOLEAN, owner : SUBSET AnyOwner]
    BY <1>3, LocksAreTyped DEF MakeJournalLock
  <2>2. append' \in [Installers -> AppendStates]
    BY <1>3, TurnsTo DEF MakeJournalLock, AppendSteps
  <2>3. QED
    BY <1>3, <2>1, <2>2 DEF MakeJournalLock
<1>4. CASE NameJournalLock(p)
  <2>1. journalLock' \in [there : BOOLEAN, owner : SUBSET AnyOwner]
    BY <1>1, <1>4, LocksAreTyped DEF NameJournalLock
  <2>2. append' \in [Installers -> AppendStates]
    BY <1>4, TurnsTo, TurnsIdle DEF NameJournalLock, AppendSteps
  <2>3. QED
    BY <1>4, <2>1, <2>2 DEF NameJournalLock
<1>5. CASE ObserveJournalLock(p)
  <2>1. CASE Wait(p)
    BY <1>5, <2>1, Waits DEF ObserveJournalLock, Waited
  <2>2. ASSUME NEW o \in journalLock.owner, append' = [append EXCEPT ![p].at = "rereading", ![p].seen = {o}]
        PROVE  JournalIsTyped'
    BY <1>5, <2>2, TurnsToReread DEF ObserveJournalLock
  <2>3. QED
    BY <1>5, <2>1, <2>2 DEF ObserveJournalLock
<1>6. CASE RereadJournalLock(p)
  BY <1>6, Waits, TurnsTo, TurnsIdle DEF RereadJournalLock, Waited, AppendSteps
<1>7. CASE EvictJournalLock(p)
  BY <1>7, TurnsTo DEF EvictJournalLock, Absent, AppendSteps
<1>8. CASE ReadRecords(p)
  BY <1>8, TurnsToWrite DEF ReadRecords
<1>9. CASE WriteRecords(p)
  BY <1>1, <1>9, TurnsTo DEF WriteRecords, AppendSteps
<1>10. CASE CheckOwner(p)
  BY <1>10, TurnsTo, TurnsIdle DEF CheckOwner, AppendSteps
<1>11. CASE Unlock(p)
  BY <1>1, <1>11, TurnsIdle DEF Unlock, Absent
<1>12. CASE InstallerDies(p)
  BY <1>12, TurnsIdle DEF InstallerDies
<1>13. QED
  BY <1>2, <1>3, <1>4, <1>5, <1>6, <1>7, <1>8, <1>9, <1>10, <1>11, <1>12 DEF AppendStep

-----------------------------------------------------------------------------
(* Two members of a set of at most one are the same.                       *)
LEMMA AtMostOne ==
  ASSUME NEW S, IsFiniteSet(S), Cardinality(S) <= 1, NEW x \in S, NEW y \in S
  PROVE  x = y
<1> SUFFICES ASSUME x # y
             PROVE  FALSE
  OBVIOUS
<1>1. IsFiniteSet(S \ {x}) /\ Cardinality(S \ {x}) = Cardinality(S) - 1
  BY FS_RemoveElement
<1>2. Cardinality(S) \in Nat /\ Cardinality(S \ {x}) \in Nat
  BY <1>1, FS_CardinalityType
<1>3. Cardinality(S \ {x}) = 0
  BY <1>1, <1>2
<1>4. S \ {x} = {}
  BY <1>1, <1>3, FS_EmptySet
<1>5. QED
  BY <1>4

LEMMA OneEvicts ==
  ASSUME EvictionsAlone, NEW p \in Installers, NEW q \in Installers,
         append[p].at = "evicting", append[q].at \in {"rereading", "evicting"}
  PROVE  p = q
<1> DEFINE evictors == {r \in Installers : append[r].at \in {"rereading", "evicting"}}
<1>1. IsFiniteSet(evictors)
  BY InstallersAssumption, FS_Subset
<1>2. Cardinality(evictors) <= 1 /\ p \in evictors /\ q \in evictors
  BY DEF EvictionsAlone
<1> HIDE DEF evictors
<1>3. QED
  BY <1>1, <1>2, AtMostOne

(* A lock that is held is not of a process that died, and one that is      *)
(* being made names nobody.                                                *)
LEMMA NobodyIsEvicted ==
  ASSUME JournalIsTyped, LockFits, NEW p \in Installers, NEW q \in Installers,
         append[p].at = "evicting"
  PROVE  append[q].at \notin Holding \cup {"naming"}
<1>1. PICK o \in AnyOwner : Outdated(o) /\ journalLock = [there |-> TRUE, owner |-> {o}]
  BY DEF LockFits, ProcessFits
<1>2. append[q].at # "naming"
  BY <1>1 DEF LockFits, ProcessFits, Unnamed
<1>3. ASSUME append[q].at \in Holding
      PROVE  FALSE
  <2>1. HeldBy(Me(q)) = [there |-> TRUE, owner |-> {o}]
    BY <1>1, <1>3 DEF LockFits, ProcessFits
  <2>2. Me(q) = o
    BY <2>1 DEF HeldBy
  <2>3. o.process = q /\ o.incarnation = incarnation[q]
    BY <2>2 DEF Me
  <2>4. QED
    BY <1>1, <2>3 DEF Outdated, JournalIsTyped
<1>4. QED
  BY <1>2, <1>3

(* A step that leaves the lock and the incarnations alone disturbs only    *)
(* what fits the process that takes it.                                    *)
LEMMA QuietStep ==
  ASSUME LockFits, OneHolder, UNCHANGED <<journalLock, incarnation>>, NEW p \in Installers,
         \A q \in Installers \ {p} : append'[q] = append[q],
         append'[p].at \in Holding \cup {"naming"} => append[p].at \in Holding \cup {"naming"},
         ProcessFits(p)'
  PROVE  LockFits' /\ OneHolder'
<1>1. ASSUME NEW q \in Installers \ {p}
      PROVE  ProcessFits(q)'
  <2>1. append'[q] = append[q] /\ Me(q)' = Me(q) /\ ProcessFits(q)
    BY DEF LockFits, Me
  <2>2. QED
    BY <2>1 DEF ProcessFits, Outdated
<1>2. LockFits'
  BY <1>1 DEF LockFits
<1>3. OneHolder'
  BY DEF OneHolder
<1>4. QED
  BY <1>2, <1>3

(* While the lock is there without an eviction, its maker keeps it.        *)
LEMMA LockStaysFit ==
  ASSUME JournalIsTyped, LockFits, OneHolder, EvictionsAlone, NEW p \in Installers,
         AppendStep(p) \/ InstallerDies(p)
  PROVE  LockFits' /\ OneHolder'
<1>1. JournalIsTyped' /\ append \in [Installers -> AppendStates] /\ incarnation \in [Installers -> Nat]
  BY JournalTypesStay DEF JournalIsTyped, AppendStates
<1>2. Me(p).process = p /\ Me(p).incarnation = incarnation[p]
  BY DEF Me
<1>3. ASSUME NEW q \in Installers, append[q].at \in Holding \cup {"naming"}
      PROVE  journalLock.there
  BY <1>3 DEF LockFits, ProcessFits, HeldBy, Unnamed
<1>4. ProcessFits(p)
  BY DEF LockFits
<1>5. CASE StartAppend(p)
  BY <1>5, TurnsToAcquire, QuietStep DEF StartAppend, Turned, Holding, ProcessFits
<1>6. CASE MakeJournalLock(p) /\ journalLock.there
  <2>1. Turned(p, "observing", append[p].nonce, append[p].seen, append[p].read) /\ UNCHANGED <<journalLock, incarnation>>
    BY <1>6, TurnsTo DEF MakeJournalLock, AppendSteps
  <2>2. QED
    BY <2>1, QuietStep DEF Turned, Holding, ProcessFits
<1>7. CASE MakeJournalLock(p) /\ ~journalLock.there
  <2>1. Turned(p, "naming", append[p].nonce, append[p].seen, append[p].read) /\ UNCHANGED incarnation
    BY <1>7, TurnsTo DEF MakeJournalLock, AppendSteps
  <2>2. \A q \in Installers : append[q].at \notin Holding \cup {"naming", "evicting"}
    BY <1>7, <1>3 DEF LockFits, ProcessFits
  <2>3. journalLock' = Unnamed /\ journalLock'.owner = {}
    BY <1>7 DEF MakeJournalLock, Unnamed
  <2>4. QED
    BY <2>1, <2>2, <2>3 DEF LockFits, OneHolder, ProcessFits, Turned, Holding, Outdated
<1>8. CASE NameJournalLock(p)
  <2>1. /\ journalLock = Unnamed /\ journalLock.there /\ append[p].at = "naming"
        /\ journalLock # Absent /\ journalLock.owner = {}
    BY <1>4, <1>8 DEF NameJournalLock, Unnamed, Absent, ProcessFits
  <2>2. Turned(p, "reading", append[p].nonce, append[p].seen, append[p].read) /\ UNCHANGED incarnation
    BY <1>8, <2>1, TurnsTo DEF NameJournalLock, AppendSteps
  <2>3. journalLock' = HeldBy(Me(p)) /\ journalLock'.there /\ journalLock'.owner = {Me(p)}
    BY <1>8, <2>1 DEF NameJournalLock, HeldBy
  <2>4. \A q \in Installers \ {p} : append[q].at \notin Holding \cup {"naming", "evicting"}
    BY <2>1, NobodyIsEvicted DEF OneHolder
  <2>5. Me(p)' = Me(p) /\ Me(p).incarnation <= incarnation[Me(p).process]
    BY <1>1, <1>2, <2>2 DEF Me, Turned
  <2>6. QED
    BY <2>2, <2>3, <2>4, <2>5 DEF LockFits, OneHolder, ProcessFits, Turned, Holding, Outdated
<1>9. CASE ObserveJournalLock(p)
  <2>1. UNCHANGED <<journalLock, incarnation>> /\ append[p].at = "observing"
    BY <1>9 DEF ObserveJournalLock
  <2>2. CASE Wait(p)
    BY <2>1, <2>2, Waits, QuietStep DEF Waited, Turned, Holding, ProcessFits
  <2>3. ASSUME NEW o \in journalLock.owner, ~OwnerIsLive(o),
               append' = [append EXCEPT ![p].at = "rereading", ![p].seen = {o}]
        PROVE  LockFits' /\ OneHolder'
    <3>1. o \in AnyOwner /\ Outdated(o)
      BY SMTT(30), <1>1, <2>3 DEF JournalIsTyped, AnyOwner, OwnerIsLive, Outdated, LockFits
    <3>2. Turned(p, "rereading", append[p].nonce, {o}, append[p].read)
      BY <2>3, <3>1, TurnsToReread
    <3>3. ProcessFits(p)'
      BY <2>1, <3>1, <3>2 DEF Turned, Holding, ProcessFits, Outdated
    <3>4. QED
      BY <2>1, <3>2, <3>3, QuietStep DEF Turned, Holding
  <2>4. QED
    BY <1>9, <2>2, <2>3 DEF ObserveJournalLock
<1>10. CASE RereadJournalLock(p)
  <2>1. UNCHANGED <<journalLock, incarnation>> /\ append[p].at = "rereading"
    BY <1>10 DEF RereadJournalLock
  <2>2. CASE Wait(p) \/ AppendEnds(p)
    BY <2>1, <2>2, Waits, TurnsIdle, QuietStep DEF Waited, Turned, Holding, ProcessFits
  <2>3. CASE journalLock.owner = append[p].seen /\ AppendIs(p, "evicting")
    <3>1. PICK o \in AnyOwner : append[p].seen = {o} /\ Outdated(o)
      BY <1>4, <2>1 DEF ProcessFits
    <3>2. journalLock = [there |-> TRUE, owner |-> {o}]
      BY <2>3, <3>1 DEF JournalIsTyped, LockFits
    <3>3. Turned(p, "evicting", append[p].nonce, append[p].seen, append[p].read)
      BY <2>3, TurnsTo DEF AppendSteps
    <3>4. ProcessFits(p)'
      BY <2>1, <3>1, <3>2, <3>3 DEF Turned, Holding, ProcessFits, Outdated
    <3>5. QED
      BY <2>1, <3>3, <3>4, QuietStep DEF Turned, Holding
  <2>4. QED
    BY <1>10, <2>2, <2>3 DEF RereadJournalLock
<1>11. CASE EvictJournalLock(p)
  <2>1. \A q \in Installers : append[q].at \notin Holding \cup {"naming"}
    BY <1>11, NobodyIsEvicted DEF EvictJournalLock
  <2>2. \A q \in Installers \ {p} : append[q].at \notin {"rereading", "evicting"}
    BY <1>11, OneEvicts DEF EvictJournalLock
  <2>3. Turned(p, "acquiring", append[p].nonce, append[p].seen, append[p].read) /\ journalLock'.owner = {}
    BY <1>11, TurnsTo DEF EvictJournalLock, AppendSteps, Absent
  <2>4. QED
    BY <2>1, <2>2, <2>3 DEF LockFits, OneHolder, ProcessFits, Turned, Holding
<1>12. ASSUME UNCHANGED <<journalLock, incarnation>>, append[p].at \in Holding,
              NEW at \in {"writing", "releasing", "unlocking"}, NEW read,
              Turned(p, at, append[p].nonce, append[p].seen, read)
       PROVE  LockFits' /\ OneHolder'
  <2>1. Me(p)' = Me(p)
    BY <1>12 DEF Me, Turned
  <2>2. ProcessFits(p)'
    BY <1>4, <1>12, <2>1 DEF ProcessFits, Turned, Holding
  <2>3. QED
    BY <1>12, <2>2, QuietStep DEF Turned
<1>13. CASE ReadRecords(p)
  BY <1>12, <1>13, TurnsToWrite DEF ReadRecords, Holding
<1>14. CASE WriteRecords(p)
  BY <1>12, <1>14, TurnsTo DEF WriteRecords, AppendSteps, Holding
<1>15. CASE CheckOwner(p)
  <2>1. CASE AppendIs(p, "unlocking")
    BY <1>12, <1>15, <2>1, TurnsTo DEF CheckOwner, AppendSteps, Holding
  <2>2. CASE AppendEnds(p)
    BY <1>15, <2>2, TurnsIdle, QuietStep DEF CheckOwner, Turned, Holding, ProcessFits
  <2>3. QED
    BY <1>15, <2>1, <2>2 DEF CheckOwner
<1>16. CASE Unlock(p)
  <2>1. Turned(p, "idle", append[p].nonce, {}, <<>>) /\ UNCHANGED incarnation
    BY <1>16, TurnsIdle DEF Unlock
  <2>2. \A q \in Installers \ {p} : append[q].at \notin Holding \cup {"naming", "evicting"}
    BY <1>16, NobodyIsEvicted DEF Unlock, OneHolder, Holding
  <2>3. journalLock' = Absent /\ journalLock'.owner = {}
    BY <1>16 DEF Unlock, Absent
  <2>4. QED
    BY <2>1, <2>2, <2>3 DEF LockFits, OneHolder, ProcessFits, Turned, Holding, Outdated
<1>17. CASE InstallerDies(p)
  <2>1. Turned(p, "idle", append[p].nonce, {}, <<>>) /\ UNCHANGED journalLock
    BY <1>17, TurnsIdle DEF InstallerDies
  <2>2. /\ incarnation'[p] = incarnation[p] + 1
        /\ \A q \in Installers \ {p} : incarnation'[q] = incarnation[q]
    BY <1>1, <1>17 DEF InstallerDies
  <2>3. ASSUME NEW o \in AnyOwner
        PROVE  /\ Outdated(o) => Outdated(o)'
               /\ o.incarnation <= incarnation[o.process] => o.incarnation <= incarnation'[o.process]
    <3>1. o.process \in Installers /\ o.incarnation \in Nat
      BY DEF AnyOwner
    <3>2. incarnation[o.process] <= incarnation'[o.process] /\ incarnation'[o.process] \in Nat
      BY <1>1, <2>2, <3>1
    <3>3. QED
      BY <1>1, <3>1, <3>2 DEF Outdated
  <2>4. \A q \in Installers \ {p} : Me(q)' = Me(q)
    BY <2>1, <2>2 DEF Me, Turned
  <2>5. \A q \in Installers \ {p} : ProcessFits(q)'
    BY <2>1, <2>3, <2>4 DEF LockFits, ProcessFits, Turned
  <2>6. ProcessFits(p)'
    BY <2>1 DEF ProcessFits, Turned, Holding
  <2>7. \A o \in journalLock.owner : o.incarnation <= incarnation'[o.process]
    BY <2>3 DEF JournalIsTyped, LockFits
  <2>8. QED
    BY <2>1, <2>5, <2>6, <2>7 DEF LockFits, OneHolder, Turned, Holding
<1>18. QED
  BY <1>5, <1>6, <1>7, <1>8, <1>9, <1>10, <1>11, <1>13, <1>14, <1>15, <1>16, <1>17 DEF AppendStep

-----------------------------------------------------------------------------
Done == {"idle", "releasing", "unlocking"}

(* A step that leaves the file alone keeps its records, and the append of  *)
(* the process that takes it unwritten or written.                         *)
LEMMA RecordsStay ==
  ASSUME JournalIsTyped, JournalIsTyped', RecordsAreFresh, RecordsAreDistinct, AppendedIsWritten,
         UNCHANGED records, NEW p \in Installers,
         \A q \in Installers \ {p} : append'[q] = append[q] /\ incarnation'[q] = incarnation[q],
         \/ append'[p].nonce = append[p].nonce /\ (append[p].at \in Done => append'[p].at \in Done)
         \/ append'[p].nonce > append[p].nonce,
         append'[p].at \in {"releasing", "unlocking"} => Written(Me(p)'),
         append'[p].at = "writing" => append'[p].read = records,
         \A o \in appended' : Written(o)
  PROVE  RecordsAreFresh' /\ RecordsAreDistinct' /\ AppendedIsWritten'
<1>1. ASSUME NEW i \in 1 .. Len(records)
      PROVE  /\ records[i].nonce <= append'[records[i].process].nonce
             /\ records[i].nonce = append'[records[i].process].nonce =>
                  append'[records[i].process].at \in Done
  <2> DEFINE o == records[i]
  <2>1. o.process \in Installers /\ o.nonce \in Nat
    <3>1. records \in Seq(AnyOwner)
      BY DEF JournalIsTyped
    <3>2. records[i] \in AnyOwner
      BY <3>1
    <3>3. QED
      BY <3>2 DEF AnyOwner
  <2>2. o.nonce <= append[o.process].nonce /\ (o.nonce = append[o.process].nonce => append[o.process].at \in Done)
    BY DEF RecordsAreFresh, Done
  <2>3. append[o.process].nonce \in Nat /\ append'[o.process].nonce \in Nat
    BY <2>1 DEF JournalIsTyped
  <2>4. QED
    BY <2>1, <2>2, <2>3
<1>2. RecordsAreFresh' /\ RecordsAreDistinct'
  BY <1>1 DEF RecordsAreFresh, RecordsAreDistinct, Done
<1>3. ASSUME NEW q \in Installers \ {p}
      PROVE  /\ append'[q].at \in {"releasing", "unlocking"} => Written(Me(q)')
             /\ append'[q].at = "writing" => append'[q].read = records
  <2>1. Me(q)' = Me(q) /\ append'[q] = append[q]
    BY DEF Me
  <2>2. QED
    BY <2>1 DEF AppendedIsWritten
<1>4. AppendedIsWritten'
  BY <1>3 DEF AppendedIsWritten, Written
<1>5. QED
  BY <1>2, <1>4

(* The record that is written is new, and the last one that was read is    *)
(* still there.                                                            *)
LEMMA WritingAddsOne ==
  ASSUME JournalIsTyped, OneHolder, RecordsAreFresh, RecordsAreDistinct, AppendedIsWritten,
         NEW p \in Installers, WriteRecords(p)
  PROVE  RecordsAreFresh' /\ RecordsAreDistinct' /\ AppendedIsWritten'
<1>1. Turned(p, "releasing", append[p].nonce, append[p].seen, append[p].read) /\ UNCHANGED <<incarnation, appended>>
  BY TurnsTo DEF WriteRecords, AppendSteps
<1>2. records' = Append(records, Me(p)) /\ append[p].at = "writing"
  BY DEF WriteRecords, AppendedIsWritten
<1>3. Me(p) \in AnyOwner /\ Me(p).process = p /\ Me(p).nonce = append[p].nonce
  BY DEF Me, AnyOwner, JournalIsTyped
<1> DEFINE n == Len(records)
<1>4. /\ n \in Nat /\ Len(records') = n + 1 /\ records'[n + 1] = Me(p)
      /\ \A i \in 1 .. n : records'[i] = records[i] /\ records[i] \in AnyOwner
  BY <1>2, <1>3 DEF JournalIsTyped
<1> HIDE DEF n
<1>5. \A i \in 1 .. n : records[i] # Me(p)
  BY <1>2, <1>3 DEF RecordsAreFresh, n
<1>6. \A i \in 1 .. n + 1 : i \in 1 .. n \/ i = n + 1
  BY <1>4
<1>7. RecordsAreDistinct'
  <2>1. ASSUME NEW i \in 1 .. n + 1, NEW j \in 1 .. n + 1, records'[i] = records'[j]
        PROVE  i = j
    <3>1. CASE i \in 1 .. n /\ j \in 1 .. n
      BY <1>4, <2>1, <3>1 DEF RecordsAreDistinct, n
    <3>2. CASE i = n + 1 \/ j = n + 1
      BY <1>4, <1>5, <1>6, <2>1, <3>2
    <3>3. QED
      BY <1>6, <3>1, <3>2
  <2>2. QED
    BY <1>4, <2>1 DEF RecordsAreDistinct
<1>8. RecordsAreFresh'
  <2>1. ASSUME NEW i \in 1 .. n
        PROVE  /\ records'[i].nonce <= append'[records'[i].process].nonce
               /\ records'[i].nonce = append'[records'[i].process].nonce => append'[records'[i].process].at \in Done
    <3>1. records'[i] = records[i] /\ records[i].process \in Installers
      BY <1>4 DEF AnyOwner
    <3>2. /\ records[i].nonce <= append[records[i].process].nonce
          /\ records[i].nonce = append[records[i].process].nonce => append[records[i].process].at \in Done
      BY DEF RecordsAreFresh, n, Done
    <3>3. QED
      BY <1>1, <3>1, <3>2 DEF Turned, Done
  <2>2. append'[p].nonce = Me(p).nonce /\ append'[p].at = "releasing" /\ Me(p).nonce \in Nat
    BY <1>1, <1>3 DEF Turned, AnyOwner
  <2>3. QED
    BY <1>3, <1>4, <1>6, <2>1, <2>2 DEF RecordsAreFresh, Done
<1>9. \A o : Written(o) => Written(o)'
  BY <1>4 DEF Written, n
<1>10. Written(Me(p))'
  BY <1>1, <1>3, <1>4 DEF Written, Me, Turned
<1>11. ASSUME NEW q \in Installers \ {p}
       PROVE  /\ append'[q].at \in {"releasing", "unlocking"} => Written(Me(q))'
              /\ append'[q].at # "writing"
  <2>1. Me(q)' = Me(q) /\ append'[q] = append[q]
    BY <1>1 DEF Me, Turned
  <2>2. append[q].at # "writing"
    BY <1>2 DEF OneHolder, Holding
  <2>3. QED
    BY <1>9, <2>1, <2>2 DEF AppendedIsWritten, Written
<1>12. AppendedIsWritten'
  BY <1>1, <1>9, <1>10, <1>11 DEF AppendedIsWritten, Turned, Written
<1>13. QED
  BY <1>7, <1>8, <1>12

(* No step loses or repeats a record.                                      *)
LEMMA RecordsAreKept ==
  ASSUME JournalInv, EvictionsAlone, NEW p \in Installers, AppendStep(p) \/ InstallerDies(p)
  PROVE  RecordsAreFresh' /\ RecordsAreDistinct' /\ AppendedIsWritten'
<1> USE DEF JournalInv, Done
<1>1. JournalIsTyped' /\ append[p].nonce \in Nat
  BY JournalTypesStay DEF JournalIsTyped
<1>2. \A o \in appended : Written(o)
  BY DEF AppendedIsWritten
<1>3. ASSUME Turned(p, "idle", append[p].nonce, {}, <<>>), UNCHANGED <<records, appended>>,
             \A q \in Installers \ {p} : incarnation'[q] = incarnation[q]
      PROVE  RecordsAreFresh' /\ RecordsAreDistinct' /\ AppendedIsWritten'
  BY <1>1, <1>2, <1>3, RecordsStay DEF Turned
<1>4. ASSUME NEW at \in {"acquiring", "observing", "naming", "rereading", "evicting", "reading"},
             append[p].at \in {"acquiring", "observing", "naming", "rereading", "evicting"},
             UNCHANGED <<records, appended, incarnation>>,
             NEW found, Turned(p, at, append[p].nonce, found, append[p].read)
      PROVE  RecordsAreFresh' /\ RecordsAreDistinct' /\ AppendedIsWritten'
  BY <1>1, <1>2, <1>4, RecordsStay DEF Turned
<1>5. CASE StartAppend(p)
  <2>1. append'[p].nonce > append[p].nonce
    BY <1>1, <1>5, TurnsToAcquire DEF Turned
  <2>2. QED
    BY <1>1, <1>2, <1>5, <2>1, RecordsStay, TurnsToAcquire DEF StartAppend, Turned
<1>6. CASE MakeJournalLock(p)
  BY <1>4, <1>6, TurnsTo DEF MakeJournalLock, AppendSteps
<1>7. CASE NameJournalLock(p)
  BY <1>3, <1>4, <1>7, TurnsTo, TurnsIdle DEF NameJournalLock, AppendSteps
<1>8. CASE ObserveJournalLock(p)
  <2>1. CASE Wait(p)
    BY <1>3, <1>4, <1>8, <2>1, Waits DEF ObserveJournalLock, Waited
  <2>2. ASSUME NEW o \in journalLock.owner, append' = [append EXCEPT ![p].at = "rereading", ![p].seen = {o}]
        PROVE  RecordsAreFresh' /\ RecordsAreDistinct' /\ AppendedIsWritten'
    <3>1. Turned(p, "rereading", append[p].nonce, {o}, append[p].read)
      BY <2>2, TurnsToReread DEF JournalIsTyped
    <3>2. QED
      BY <1>4, <1>8, <3>1 DEF ObserveJournalLock
  <2>3. QED
    BY <1>8, <2>1, <2>2 DEF ObserveJournalLock
<1>9. CASE RereadJournalLock(p)
  BY <1>3, <1>4, <1>9, Waits, TurnsTo, TurnsIdle DEF RereadJournalLock, Waited, AppendSteps
<1>10. CASE EvictJournalLock(p)
  BY <1>4, <1>10, TurnsTo DEF EvictJournalLock, AppendSteps
<1>11. CASE ReadRecords(p)
  BY <1>1, <1>2, <1>11, RecordsStay, TurnsToWrite DEF ReadRecords, Turned
<1>12. CASE WriteRecords(p)
  BY <1>12, WritingAddsOne
<1>13. CASE CheckOwner(p)
  <2>1. CASE AppendIs(p, "unlocking")
    <3>1. Turned(p, "unlocking", append[p].nonce, append[p].seen, append[p].read) /\ UNCHANGED <<records, appended, incarnation>>
      BY <1>13, <2>1, TurnsTo DEF CheckOwner, AppendSteps
    <3>2. append[p].at = "releasing" /\ Me(p)' = Me(p)
      BY <1>13, <3>1 DEF CheckOwner, Me, Turned
    <3>3. Written(Me(p))
      BY <3>2 DEF AppendedIsWritten
    <3>4. QED
      BY <1>1, <1>2, <3>1, <3>2, <3>3, RecordsStay DEF Turned
  <2>2. CASE AppendEnds(p)
    BY <1>3, <1>13, <2>2, TurnsIdle DEF CheckOwner
  <2>3. QED
    BY <1>13, <2>1, <2>2 DEF CheckOwner
<1>14. CASE Unlock(p)
  <2>1. Turned(p, "idle", append[p].nonce, {}, <<>>) /\ UNCHANGED <<records, incarnation>>
    BY <1>14, TurnsIdle DEF Unlock
  <2>2. Written(Me(p)) /\ appended' = appended \cup {Me(p)}
    BY <1>14 DEF Unlock, AppendedIsWritten
  <2>3. QED
    BY <1>1, <1>2, <2>1, <2>2, RecordsStay DEF Turned
<1>15. CASE InstallerDies(p)
  <2>1. \A q \in Installers \ {p} : incarnation'[q] = incarnation[q]
    BY <1>15 DEF InstallerDies, JournalIsTyped
  <2>2. QED
    BY <1>3, <1>15, <2>1, TurnsIdle DEF InstallerDies
<1>16. QED
  BY <1>5, <1>6, <1>7, <1>8, <1>9, <1>10, <1>11, <1>12, <1>13, <1>14, <1>15 DEF AppendStep

LEMMA JournalStepKeepsInv ==
  ASSUME JournalInv, EvictionsAlone, [JournalNext]_journalVars
  PROVE  JournalInv'
<1>1. CASE UNCHANGED journalVars
  BY <1>1 DEF JournalInv, JournalIsTyped, LockFits, ProcessFits, OneHolder, RecordsAreFresh,
              RecordsAreDistinct, AppendedIsWritten, Written, Me, Outdated, journalVars
<1>2. CASE JournalNext
  <2>1. PICK p \in Installers : AppendStep(p) \/ InstallerDies(p)
    BY <1>2 DEF JournalNext
  <2>2. JournalIsTyped' /\ LockFits' /\ OneHolder'
    BY <2>1, JournalTypesStay, LockStaysFit DEF JournalInv
  <2>3. QED
    BY <2>1, <2>2, RecordsAreKept DEF JournalInv
<1>3. QED
  BY <1>1, <1>2

(* While takeovers of an abandoned lock come one at a time, every append   *)
(* that returned is in the journal once, and a process that reads or       *)
(* writes holds the lock (journal/index.ts:237-295).                       *)
THEOREM RecordsSurvive == JournalSpec /\ []EvictionsAlone => []JournalKeepsRecords
<1>1. ASSUME JournalInit
      PROVE  JournalInv
  <2>1. JournalIsTyped
    BY <1>1, LocksAreTyped DEF JournalInit, JournalIsTyped, AppendSteps
  <2>2. LockFits /\ OneHolder
    BY <1>1 DEF JournalInit, LockFits, ProcessFits, OneHolder, Absent, Holding
  <2>3. RecordsAreFresh /\ RecordsAreDistinct /\ AppendedIsWritten
    BY <1>1 DEF JournalInit, RecordsAreFresh, RecordsAreDistinct, AppendedIsWritten
  <2>4. QED
    BY <2>1, <2>2, <2>3 DEF JournalInv
<1>2. ASSUME JournalInv
      PROVE  JournalKeepsRecords
  <2>1. ASSUME NEW o \in appended
        PROVE  Cardinality({i \in 1 .. Len(records) : records[i] = o}) = 1
    <3>1. PICK i \in 1 .. Len(records) : records[i] = o
      BY <1>2 DEF JournalInv, AppendedIsWritten, Written
    <3>2. {j \in 1 .. Len(records) : records[j] = o} = {i}
      BY <1>2, <3>1 DEF JournalInv, RecordsAreDistinct
    <3>3. QED
      BY <3>2, FS_Singleton
  <2>2. \A p \in Installers : append[p].at \in {"reading", "writing"} => journalLock.owner = {Me(p)}
    BY <1>2 DEF JournalInv, LockFits, ProcessFits, Holding, HeldBy
  <2>3. QED
    BY <2>1, <2>2 DEF JournalKeepsRecords
<1>3. JournalInv /\ EvictionsAlone /\ [JournalNext]_journalVars => JournalInv'
  BY JournalStepKeepsInv
<1>4. QED
  BY <1>1, <1>2, <1>3, PTL DEF JournalSpec

-------------------------------------------------------------------------------
(* Restores and their recovery (AuthorityRestore).                        *)

(* The calls of finishForward, in order.                                   *)
LEMMA FinishSteps ==
  /\ Len(FinishProgram) = 8
  /\ FinishProgram[1] = <<"complete", "database">> /\ FinishProgram[2] = <<"complete", "artifacts">>
  /\ FinishProgram[3] = <<"verify">>
  /\ FinishProgram[4] = <<"remove", "database", "old">>
  /\ FinishProgram[5] = <<"remove", "artifacts", "old">>
  /\ FinishProgram[6] = <<"remove", "database", "restore">>
  /\ FinishProgram[7] = <<"remove", "artifacts", "restore">>
  /\ FinishProgram[8] = <<"forget">>
BY DEF FinishProgram

(* The calls of rollback, in order.                                        *)
LEMMA RollbackSteps ==
  /\ Len(RollbackProgram) = 9
  /\ RollbackProgram[1] = <<"look", "database">> /\ RollbackProgram[2] = <<"clear", "database">>
  /\ RollbackProgram[3] = <<"return", "database">>
  /\ RollbackProgram[4] = <<"look", "artifacts">> /\ RollbackProgram[5] = <<"clear", "artifacts">>
  /\ RollbackProgram[6] = <<"return", "artifacts">>
  /\ RollbackProgram[7] = <<"remove", "database", "restore">>
  /\ RollbackProgram[8] = <<"remove", "artifacts", "restore">>
  /\ RollbackProgram[9] = <<"forget">>
BY DEF RollbackProgram

(* The calls of restoreBackup, in order; the last eight are those of       *)
(* finishForward.                                                          *)
LEMMA RestoreSteps ==
  /\ Len(RestoreProgram) = 21
  /\ RestoreProgram[1] = <<"stage", "database">> /\ RestoreProgram[2] = <<"stage", "artifacts">>
  /\ RestoreProgram[3] = <<"write", "staged">>
  /\ RestoreProgram[4] = <<"displace", "database">>
  /\ RestoreProgram[5] = <<"displace", "artifacts">>
  /\ RestoreProgram[6] = <<"write", "old-moved">>
  /\ RestoreProgram[7] = <<"activate", "database">>
  /\ RestoreProgram[8] = <<"write", "database-activated">>
  /\ RestoreProgram[9] = <<"activate", "artifacts">>
  /\ RestoreProgram[10] = <<"write", "artifacts-activated">>
  /\ RestoreProgram[11] = <<"verify">>
  /\ RestoreProgram[12] = <<"write", "committed">>
  /\ RestoreProgram[13] = <<"record">>
  /\ \A k \in 14 .. 21 : RestoreProgram[k] = FinishProgram[k - 13]
<1> DEFINE begins == << <<"stage", "database">>, <<"stage", "artifacts">>, <<"write", "staged">>,
     <<"displace", "database">>, <<"displace", "artifacts">>, <<"write", "old-moved">>,
     <<"activate", "database">>, <<"write", "database-activated">>,
     <<"activate", "artifacts">>, <<"write", "artifacts-activated">>,
     <<"verify">>, <<"write", "committed">>, <<"record">> >>
           S == {begins[i] : i \in 1 .. 13} \cup {FinishProgram[i] : i \in 1 .. 8}
<1>1. RestoreProgram = begins \o FinishProgram
  BY DEF RestoreProgram
<1>2. /\ Len(begins) = 13 /\ DOMAIN begins = 1 .. 13
      /\ begins = [i \in 1 .. 13 |-> begins[i]]
  OBVIOUS
<1>3. FinishProgram = [i \in 1 .. 8 |-> FinishProgram[i]]
  BY DEF FinishProgram
<1>4. begins[1] = <<"stage", "database">> /\ begins[2] = <<"stage", "artifacts">>
      /\ begins[3] = <<"write", "staged">> /\ begins[4] = <<"displace", "database">>
      /\ begins[5] = <<"displace", "artifacts">> /\ begins[6] = <<"write", "old-moved">>
      /\ begins[7] = <<"activate", "database">> /\ begins[8] = <<"write", "database-activated">>
      /\ begins[9] = <<"activate", "artifacts">> /\ begins[10] = <<"write", "artifacts-activated">>
      /\ begins[11] = <<"verify">> /\ begins[12] = <<"write", "committed">> /\ begins[13] = <<"record">>
  OBVIOUS
<1> HIDE DEF begins
<1>5. begins \in Seq(S) /\ FinishProgram \in Seq(S)
  BY <1>2, <1>3
<1>6. /\ Len(RestoreProgram) = 21
      /\ \A k \in 1 .. 13 : RestoreProgram[k] = begins[k]
      /\ \A k \in 14 .. 21 : RestoreProgram[k] = FinishProgram[k - 13]
  <2>1. Len(begins) = 13 /\ Len(FinishProgram) = 8
    BY <1>2, FinishSteps
  <2> HIDE DEF S
  <2>2. /\ Len(RestoreProgram) = Len(begins) + Len(FinishProgram)
        /\ \A i \in 1 .. Len(begins) + Len(FinishProgram) :
             RestoreProgram[i] = IF i <= Len(begins) THEN begins[i] ELSE FinishProgram[i - Len(begins)]
    BY <1>1, <1>5, ConcatProperties, Zenon
  <2>3. /\ Len(RestoreProgram) = 21
        /\ \A i \in 1 .. 21 :
             RestoreProgram[i] = IF i <= 13 THEN begins[i] ELSE FinishProgram[i - 13]
    BY <2>1, <2>2
  <2> QED
    BY <2>3
<1> QED
  BY <1>4, <1>6

(* One process at a time opens or restores the authority.                  *)
WorksAlone == \A p, q \in Processes : ~Free(p) /\ ~Free(q) => p = q

(* What a directory can be carried to, by what its journal says.           *)
Recoverable(dir) ==
  /\ dir.journal = NoJournal => Whole(dir)
  /\ dir.journal # NoJournal /\ dir.journal.phase = "committed" => NewUnitInPlace(dir)
  /\ dir.journal # NoJournal /\ dir.journal.phase # "committed" => OldUnitInPlace(dir)

(* What was moved aside is of the restore that the journal names, which    *)
(* was begun.                                                              *)
DirectoryFits(dir) ==
  /\ \A h \in Halves, u \in Tokens : u # dir.journal.token => dir.entry[h][Old(u)] = None
  /\ dir.journal # NoJournal =>
       /\ begun[dir.journal.token].from # None
       /\ dir.journal.had <=> begun[dir.journal.token].over # None
  /\ Recoverable(dir)

(* The new unit is live, and the rest is removed in this order.            *)
FinishFits(step, t, dir) ==
  /\ dir.journal # NoJournal /\ dir.journal.phase = "committed" /\ dir.journal.token = t
  /\ \A h \in Halves : dir.entry[h][Live] = begun[t].from
  /\ step >= 5 => dir.entry["database"][Old(t)] = None
  /\ step >= 6 => dir.entry["artifacts"][Old(t)] = None
  /\ step >= 7 => dir.entry["database"][Staged(t)] = None
  /\ step >= 8 => dir.entry["artifacts"][Staged(t)] = None

(* Where a half is before, while and after it is looked for, cleared and   *)
(* returned.                                                               *)
HalfRollsBack(doing, h, place, dir) ==
  LET live == dir.entry[h][Live]
      old == dir.entry[h][Old(doing.token)]
  IN  /\ place \in {2, 3} => (doing.found <=> old # None)
      /\ place = 3 /\ Clears(doing) => live = None
      /\ place >= 4 => old = None /\ live = begun[doing.token].over

(* A rollback goes through the halves one after the other, and then        *)
(* removes the copies.                                                     *)
RollbackFits(doing, dir) ==
  LET t == doing.token
  IN  /\ dir.journal # NoJournal /\ dir.journal.phase # "committed"
      /\ dir.journal.token = t /\ dir.journal.had = doing.had
      /\ HalfRollsBack(doing, "database", doing.step, dir)
      /\ HalfRollsBack(doing, "artifacts", doing.step - 3, dir)
      /\ doing.step >= 8 => dir.entry["database"][Staged(t)] = None
      /\ doing.step >= 9 => dir.entry["artifacts"][Staged(t)] = None

(* The phase that the journal has at a step of a restore before its        *)
(* commit.                                                                 *)
PhaseAt(step) ==
  IF step <= 6 THEN "staged" ELSE IF step <= 8 THEN "old-moved"
  ELSE IF step <= 10 THEN "database-activated" ELSE "artifacts-activated"

(* A half is live, aside, or replaced, by the step at which it is moved    *)
(* aside and the one at which its copy is moved in.                        *)
HalfSwitches(doing, h, displaced, activated, dir) ==
  LET t == doing.token
  IN  /\ dir.entry[h][Live] = IF doing.step <= displaced THEN begun[t].over
                              ELSE IF doing.step <= activated THEN None ELSE begun[t].from
      /\ dir.entry[h][Old(t)] = IF doing.step <= displaced THEN None ELSE begun[t].over

(* A restore before its commit: the old unit is moved aside, then the new  *)
(* one in.                                                                 *)
SwitchFits(doing, dir) ==
  LET t == doing.token
  IN  /\ doing.had <=> begun[t].over # None
      /\ IF doing.step <= 3 THEN dir.journal = NoJournal
         ELSE /\ dir.journal # NoJournal /\ dir.journal.phase = PhaseAt(doing.step)
              /\ dir.journal.token = t /\ dir.journal.had = doing.had
      /\ HalfSwitches(doing, "database", 4, 7, dir)
      /\ HalfSwitches(doing, "artifacts", 5, 9, dir)
      /\ doing.step \in 2 .. 7 => dir.entry["database"][Staged(t)] = begun[t].from
      /\ doing.step \in 3 .. 9 => dir.entry["artifacts"][Staged(t)] = begun[t].from

(* What a process that is at a place of its code may rely on.              *)
RunFits(doing, dir) ==
  /\ doing.at \in {"opening", "inspecting"} => dir.journal = NoJournal
  /\ doing.at = "running" =>
       \/ doing.program = "rollback" /\ RollbackFits(doing, dir)
       \/ doing.program = "finish" /\ FinishFits(doing.step, doing.token, dir)
       \/ doing.program = "restore" /\ doing.step <= 12 /\ SwitchFits(doing, dir)
       \/ /\ doing.program = "restore" /\ doing.step >= 13
          /\ FinishFits(doing.step - 13, doing.token, dir)

(* A process that runs is at a step of its program, for a restore that was *)
(* begun.                                                                  *)
StateFits(doing) ==
  /\ doing \in ProcessStates
  /\ IF doing.at = "running"
     THEN /\ doing.step \in 1 .. Len(Program(doing.program))
          /\ doing.token \in Tokens /\ ~Unused(doing.token)
     ELSE doing = [Idle EXCEPT !.at = doing.at, !.goal = doing.goal]

(* The inductive invariant: every directory that a power failure may leave *)
(* fits, and every process finds what it relies on.                        *)
RestoreInv ==
  /\ RestoreTypeOK
  /\ \A dir \in outcomes : DirectoryFits(dir)
  /\ \A p \in Processes : RunFits(process[p], seen)

(* The live path of a half, its old paths and its staged ones are all      *)
(* different.                                                              *)
LEMMA NamesDiffer ==
  ASSUME NEW t \in Tokens
  PROVE  /\ {Live, Old(t), Staged(t)} \subseteq Names
         /\ Live # Old(t) /\ Live # Staged(t)
         /\ \A u \in Tokens : Old(t) # Staged(u) /\ (u # t => Old(t) # Old(u))
BY DEF Live, Old, Staged, Names

(* What is put at one path of one half changes nothing else.               *)
LEMMA PutIs ==
  ASSUME NEW dir \in Directories, NEW h \in Halves, NEW n \in Names,
         NEW g \in Generations \cup {None}, NEW d, d = Put(dir, h, n, g)
  PROVE  /\ d \in Directories /\ d.journal = dir.journal
         /\ d.entry[h][n] = g
         /\ \A i \in Halves, m \in Names : i # h \/ m # n => d.entry[i][m] = dir.entry[i][m]
BY DEF Put, Directories

(* A rename empties its source, fills its target and changes nothing else. *)
LEMMA MovedIs ==
  ASSUME NEW dir \in Directories, NEW h \in Halves, NEW from \in Names, NEW to \in Names,
         from # to, NEW d, d = Moved(dir, h, from, to)
  PROVE  /\ d \in Directories /\ d.journal = dir.journal
         /\ d.entry[h][to] = dir.entry[h][from] /\ d.entry[h][from] = None
         /\ \A i \in Halves, m \in Names :
              i # h \/ m \notin {from, to} => d.entry[i][m] = dir.entry[i][m]
BY DEF Moved, Directories

(* Writing the journal leaves both halves alone.                           *)
LEMMA WrittenIs ==
  ASSUME NEW dir \in Directories, NEW j \in Journals, NEW d, d = [dir EXCEPT !.journal = j]
  PROVE  d \in Directories /\ d.journal = j /\ d.entry = dir.entry
BY DEF Directories

(* Writing the commit evidence leaves both halves and the journal alone.   *)
LEMMA RecordedIs ==
  ASSUME NEW dir \in Directories, NEW t \in Tokens, NEW d, d = [dir EXCEPT !.evidence = t]
  PROVE  d \in Directories /\ d.journal = dir.journal /\ d.entry = dir.entry
BY DEF Directories

(* A process that advances is one step further and otherwise as it was.    *)
LEMMA AdvancedIs ==
  ASSUME NEW s, s \in ProcessStates, s.step < 21, NEW d, d = [s EXCEPT !.step = @ + 1]
  PROVE  /\ d \in ProcessStates /\ d.step = s.step + 1
         /\ d.at = s.at /\ d.goal = s.goal /\ d.program = s.program /\ d.token = s.token
         /\ d.had = s.had /\ d.found = s.found
BY RestoreSteps DEF ProcessStates

(* The generations of a restore are generations.                           *)
LEMMA BegunIs ==
  ASSUME RestoreTypeOK, NEW t \in Tokens
  PROVE  begun[t].from \in Generations \cup {None} /\ begun[t].over \in Generations \cup {None}
BY DEF RestoreTypeOK

(* A journal that is there names a restore and one of its phases.          *)
LEMMA JournalIs ==
  ASSUME NEW dir \in Directories
  PROVE  /\ dir.journal \in Journals
         /\ dir.journal # NoJournal =>
              /\ dir.journal.token \in Tokens /\ dir.journal.had \in BOOLEAN
              /\ dir.journal.phase \in RestorePhases
         /\ dir.journal = NoJournal => dir.journal.token = NoToken
         /\ \A h \in Halves, n \in Names : dir.entry[h][n] \in Generations \cup {None}
BY DEF Directories, Journals, NoJournal

(* A directory with the same journal, live halves and old paths as one     *)
(* that fits, fits.                                                        *)
LEMMA SameUnit ==
  ASSUME NEW dir \in Directories, DirectoryFits(dir), NEW d \in Directories,
         d.journal = dir.journal,
         \A h \in Halves : d.entry[h][Live] = dir.entry[h][Live],
         \A h \in Halves, u \in Tokens : d.entry[h][Old(u)] = dir.entry[h][Old(u)]
  PROVE  DirectoryFits(d)
<1>1. d.journal # NoJournal => d.journal.token \in Tokens
  BY JournalIs
<1>2. \A h \in Halves, u \in Tokens : u # d.journal.token => d.entry[h][Old(u)] = None
  BY DEF DirectoryFits
<1>3. Whole(dir) => Whole(d)
  BY DEF Whole, Halves
<1>4. NewUnitInPlace(dir) => NewUnitInPlace(d)
  BY DEF NewUnitInPlace
<1>5. d.journal # NoJournal /\ OldUnitInPlace(dir) => OldUnitInPlace(d)
  BY <1>1 DEF OldUnitInPlace
<1> QED
  BY <1>2, <1>3, <1>4, <1>5 DEF DirectoryFits, Recoverable

(* What the invariant says of the directory that processes see and of each *)
(* of them.                                                                *)
LEMMA SeenFits ==
  ASSUME RestoreInv
  PROVE  /\ seen \in Directories /\ DirectoryFits(seen)
         /\ \A p \in Processes : StateFits(process[p]) /\ RunFits(process[p], seen)
BY DEF RestoreInv, RestoreTypeOK, StateFits

(* An idle process relies on nothing.                                      *)
LEMMA IdleFits ==
  /\ StateFits(Idle)
  /\ \A dir : RunFits(Idle, dir)
<1>1. Idle \in ProcessStates /\ Idle.at = "idle"
  BY RestoreSteps DEF Idle, ProcessStates
<1>2. Idle = [Idle EXCEPT !.at = Idle.at, !.goal = Idle.goal]
  BY DEF Idle
<1> QED
  BY <1>1, <1>2 DEF StateFits, RunFits

(* A process that runs is at a step of one of the three programs and finds *)
(* what that step relies on.                                               *)
LEMMA RunsProgram ==
  ASSUME RestoreInv, NEW p \in Processes, process[p].at = "running"
  PROVE  /\ process[p] \in ProcessStates
         /\ process[p].token \in Tokens /\ begun[process[p].token].from # None
         /\ begun[process[p].token].from \in Generations /\ ~Free(p)
         /\ \/ /\ process[p].program = "rollback" /\ process[p].step \in 1 .. 9
               /\ Instruction(p) = RollbackProgram[process[p].step]
               /\ RollbackFits(process[p], seen)
            \/ /\ process[p].program = "finish" /\ process[p].step \in 1 .. 8
               /\ Instruction(p) = FinishProgram[process[p].step]
               /\ FinishFits(process[p].step, process[p].token, seen)
            \/ /\ process[p].program = "restore" /\ process[p].step \in 1 .. 12
               /\ Instruction(p) = RestoreProgram[process[p].step]
               /\ SwitchFits(process[p], seen)
            \/ /\ process[p].program = "restore" /\ process[p].step \in 13 .. 21
               /\ Instruction(p) = RestoreProgram[process[p].step]
               /\ FinishFits(process[p].step - 13, process[p].token, seen)
<1>1. StateFits(process[p]) /\ RunFits(process[p], seen) /\ RestoreTypeOK
  BY SeenFits DEF RestoreInv
<1>2. /\ process[p] \in ProcessStates /\ process[p].token \in Tokens
      /\ begun[process[p].token].from # None
      /\ process[p].step \in 1 .. Len(Program(process[p].program))
  BY <1>1 DEF StateFits, Unused
<1>3. begun[process[p].token].from \in Generations /\ ~Free(p)
  BY <1>1, <1>2, BegunIs DEF Free
<1>4. /\ Program("rollback") = RollbackProgram /\ Program("finish") = FinishProgram
      /\ Program("restore") = RestoreProgram
  BY DEF Program
<1>5. process[p].step \in Nat /\ process[p].step >= 1
  <2> DEFINE n == Len(Program(process[p].program))
  <2>1. process[p].step \in 1 .. n
    BY <1>2
  <2> HIDE DEF n
  <2> QED
    BY <2>1
<1>6. CASE process[p].program = "rollback" /\ RollbackFits(process[p], seen)
  BY <1>2, <1>3, <1>4, <1>5, <1>6, RollbackSteps DEF Instruction
<1>7. CASE process[p].program = "finish" /\ FinishFits(process[p].step, process[p].token, seen)
  BY <1>2, <1>3, <1>4, <1>5, <1>7, FinishSteps DEF Instruction
<1>8. CASE process[p].program = "restore" /\ process[p].step <= 12 /\ SwitchFits(process[p], seen)
  <2>1. Instruction(p) = RestoreProgram[process[p].step]
    BY <1>4, <1>8 DEF Instruction
  <2>2. process[p].step \in 1 .. 12
    BY <1>5, <1>8
  <2> QED
    BY <1>2, <1>3, <1>8, <2>1, <2>2
<1>9. CASE /\ process[p].program = "restore" /\ process[p].step >= 13
           /\ FinishFits(process[p].step - 13, process[p].token, seen)
  <2>1. Len(RestoreProgram) = 21
    BY RestoreSteps
  <2>2. process[p].step \in 13 .. 21 /\ Instruction(p) = RestoreProgram[process[p].step]
    <3>1. process[p].step \in 1 .. 21
      BY <1>2, <1>4, <1>9, <2>1
    <3> QED
      BY <1>4, <1>9, <3>1 DEF Instruction
  <2> QED
    BY <1>2, <1>3, <1>9, <2>2
<1> QED
  BY <1>1, <1>6, <1>7, <1>8, <1>9 DEF RunFits

(* The kinds of the calls of finishForward and their arguments.            *)
LEMMA FinishCalls ==
  ASSUME NEW k \in 1 .. 8
  PROVE  /\ FinishProgram[k][1] = "complete" <=> k \in {1, 2}
         /\ FinishProgram[k][1] = "verify" <=> k = 3
         /\ FinishProgram[k][1] = "remove" <=> k \in 4 .. 7
         /\ FinishProgram[k][1] = "forget" <=> k = 8
         /\ FinishProgram[k][1] \in {"complete", "verify", "remove", "forget"}
         /\ k \in {1, 4, 6} => FinishProgram[k][2] = "database"
         /\ k \in {2, 5, 7} => FinishProgram[k][2] = "artifacts"
         /\ k \in {4, 5} => FinishProgram[k][3] = "old"
         /\ k \in {6, 7} => FinishProgram[k][3] = "restore"
<1>1. k \in {1, 2, 3, 4, 5, 6, 7, 8}
  OBVIOUS
<1> QED
  BY <1>1, FinishSteps

(* The kinds of the calls of rollback and their arguments.                 *)
LEMMA RollbackCalls ==
  ASSUME NEW k \in 1 .. 9
  PROVE  /\ RollbackProgram[k][1] = "look" <=> k \in {1, 4}
         /\ RollbackProgram[k][1] = "clear" <=> k \in {2, 5}
         /\ RollbackProgram[k][1] = "return" <=> k \in {3, 6}
         /\ RollbackProgram[k][1] = "remove" <=> k \in {7, 8}
         /\ RollbackProgram[k][1] = "forget" <=> k = 9
         /\ RollbackProgram[k][1] \in {"look", "clear", "return", "remove", "forget"}
         /\ k \in {1, 2, 3, 7} => RollbackProgram[k][2] = "database"
         /\ k \in {4, 5, 6, 8} => RollbackProgram[k][2] = "artifacts"
         /\ k \in {7, 8} => RollbackProgram[k][3] = "restore"
<1>1. k \in {1, 2, 3, 4, 5, 6, 7, 8, 9}
  OBVIOUS
<1> QED
  BY <1>1, RollbackSteps

(* The kinds of the calls of restoreBackup up to the committed marker.     *)
LEMMA SwitchCalls ==
  ASSUME NEW k \in 1 .. 12
  PROVE  /\ RestoreProgram[k][1] = "stage" <=> k \in {1, 2}
         /\ RestoreProgram[k][1] = "write" <=> k \in {3, 6, 8, 10, 12}
         /\ RestoreProgram[k][1] = "displace" <=> k \in {4, 5}
         /\ RestoreProgram[k][1] = "activate" <=> k \in {7, 9}
         /\ RestoreProgram[k][1] = "verify" <=> k = 11
         /\ RestoreProgram[k][1] \in {"stage", "write", "displace", "activate", "verify"}
         /\ k \in {1, 4, 7} => RestoreProgram[k][2] = "database"
         /\ k \in {2, 5, 9} => RestoreProgram[k][2] = "artifacts"
         /\ RestoreProgram[k][2] = "staged" /\ RestoreProgram[k][1] = "write" => k = 3
         /\ k \in {3, 6, 8, 10} => RestoreProgram[k][2] = PhaseAt(k + 1)
         /\ RestoreProgram[3][2] = "staged" /\ RestoreProgram[12][2] = "committed"
<1>1. k \in {1, 2, 3, 4, 5, 6, 7, 8, 9, 10, 11, 12}
  OBVIOUS
<1>2. \A i \in {3, 6, 8, 10} : RestoreProgram[i][2] = PhaseAt(i + 1)
  BY RestoreSteps DEF PhaseAt
<1> QED
  BY <1>1, <1>2, RestoreSteps

(* What fits depends on the restores that were begun only.                 *)
LEMMA SameRecords ==
  ASSUME UNCHANGED begun
  PROVE  /\ \A dir : DirectoryFits(dir) <=> DirectoryFits(dir)'
         /\ \A doing, dir : RunFits(doing, dir) <=> RunFits(doing, dir)'
<1>1. \A dir : DirectoryFits(dir) <=> DirectoryFits(dir)'
  BY DEF DirectoryFits, Recoverable, NewUnitInPlace, OldUnitInPlace, Whole
<1>2. \A doing, dir : RunFits(doing, dir) <=> RunFits(doing, dir)'
  BY DEF RunFits, RollbackFits, FinishFits, SwitchFits, HalfSwitches, HalfRollsBack
<1> QED
  BY <1>1, <1>2

(* A process stays at its program, unless it dies.                         *)
Continues(p) == process'[p].at = "running" \/ restoreCrashes' > restoreCrashes

(* A step that only moves a process on keeps the invariant when the        *)
(* process finds what its next step relies on.                             *)
LEMMA GoesOnKeeps ==
  ASSUME RestoreInv, NEW p \in Processes, NEW s, StateFits(s), RunFits(s, seen), GoesOn(p, s)
  PROVE  RestoreInv' /\ (s.at = "running" => Continues(p))
<1>1. /\ \A q \in Processes : process'[q] = IF q = p THEN s ELSE process[q]
      /\ process' \in [Processes -> ProcessStates]
  BY DEF GoesOn, Turns, RestoreInv, RestoreTypeOK, StateFits
<1>2. UNCHANGED <<seen, outcomes, retained, begun, restoreCrashes>>
  BY DEF GoesOn
<1>3. \A q \in Processes : StateFits(process'[q]) /\ RunFits(process'[q], seen)
  BY SMTT(30), <1>1, SeenFits
<1>4. RestoreTypeOK'
  BY <1>1, <1>2, <1>3 DEF RestoreInv, RestoreTypeOK, StateFits, Unused
<1>5. (\A dir \in outcomes : DirectoryFits(dir))'
  BY <1>2, SameRecords DEF RestoreInv
<1>6. (\A q \in Processes : RunFits(process[q], seen))'
  BY <1>2, <1>3, SameRecords
<1> QED
  BY <1>1, <1>4, <1>5, <1>6 DEF RestoreInv, Continues

(* A step of the one process at work keeps the invariant when the          *)
(* directory that it leaves fits and has what its next step relies on.     *)
LEMMA StepKeeps ==
  ASSUME RestoreInv, WorksAlone, NEW p \in Processes, ~Free(p),
         NEW dir \in Directories, DirectoryFits(dir), NEW s, StateFits(s), RunFits(s, dir),
         seen' = dir, dir \in outcomes', outcomes' \subseteq outcomes \cup {dir},
         Turns(p, s), UNCHANGED <<retained, begun>>, restoreCrashes' \in 0 .. MaxRestoreCrashes
  PROVE  RestoreInv'
<1>1. /\ \A q \in Processes : process'[q] = IF q = p THEN s ELSE process[q]
      /\ process' \in [Processes -> ProcessStates]
  BY DEF Turns, RestoreInv, RestoreTypeOK, StateFits
<1>2. \A q \in Processes : StateFits(process'[q]) /\ RunFits(process'[q], dir)
  <2> TAKE q \in Processes
  <2>1. CASE q = p
    BY <1>1, <2>1
  <2>2. CASE q # p
    BY SMTT(30), <1>1, <2>2, SeenFits DEF WorksAlone, Free, RunFits
  <2> QED
    BY <2>1, <2>2
<1>3. RestoreTypeOK'
  BY <1>1, <1>2 DEF RestoreInv, RestoreTypeOK, StateFits, Unused
<1>4. (\A d \in outcomes : DirectoryFits(d))'
  BY SameRecords DEF RestoreInv
<1>5. (\A q \in Processes : RunFits(process[q], seen))'
  BY <1>2, SameRecords
<1> QED
  BY <1>3, <1>4, <1>5 DEF RestoreInv

(* The same of an operation and its sync, between which the process may    *)
(* die.                                                                    *)
LEMMA DurablyKeeps ==
  ASSUME RestoreInv, WorksAlone, NEW p \in Processes, ~Free(p),
         NEW dir \in Directories, DirectoryFits(dir), NEW s, StateFits(s), RunFits(s, dir),
         Durably(p, dir, s)
  PROVE  RestoreInv' /\ (s.at = "running" => Continues(p))
<1>1. restoreCrashes \in 0 .. MaxRestoreCrashes
  BY DEF RestoreInv, RestoreTypeOK
<1>2. seen' = dir /\ UNCHANGED <<retained, begun>>
  BY DEF Durably, Unsynced
<1>3. CASE outcomes' = {dir} /\ Turns(p, s) /\ UNCHANGED restoreCrashes
  <2>1. process'[p] = s
    BY <1>3 DEF Turns, RestoreInv, RestoreTypeOK
  <2> QED
    BY <1>1, <1>2, <1>3, <2>1, StepKeeps DEF Continues
<1>4. CASE restoreCrashes < MaxRestoreCrashes /\ restoreCrashes' = restoreCrashes + 1 /\ Unsynced(dir) /\ Turns(p, Idle)
  <2>1. restoreCrashes' \in 0 .. MaxRestoreCrashes /\ outcomes' = outcomes \cup {dir}
    BY <1>1, <1>4, CrashAssumption DEF Unsynced
  <2> QED
    BY <1>1, <1>2, <1>4, <2>1, IdleFits, StepKeeps DEF Continues
<1> QED
  BY <1>3, <1>4 DEF Durably

(* A process that advances within its program is at a step of it.          *)
LEMMA AdvancedFits ==
  ASSUME RestoreInv, NEW p \in Processes, process[p].at = "running",
         process[p].step < Len(Program(process[p].program)),
         NEW s, s = Advanced(p)
  PROVE  /\ StateFits(s) /\ s.step = process[p].step + 1 /\ s.at = "running"
         /\ s.program = process[p].program /\ s.token = process[p].token
         /\ s.had = process[p].had /\ s.found = process[p].found
<1>1. StateFits(process[p])
  BY SeenFits
<1>2. process[p] \in ProcessStates /\ process[p].step \in 1 .. Len(Program(process[p].program))
      /\ process[p].token \in Tokens /\ ~Unused(process[p].token)
  BY <1>1 DEF StateFits
<1>3. Len(Program(process[p].program)) \in 0 .. 21
  BY SMTT(30), RunsProgram, FinishSteps, RollbackSteps, RestoreSteps DEF Program
<1>4. process[p].step < 21
  <2>1. process[p].step \in Int
    BY <1>2
  <2> DEFINE n == Len(Program(process[p].program))
  <2>2. n \in 0 .. 21 /\ process[p].step < n
    BY <1>3
  <2> HIDE DEF n
  <2> QED
    BY <2>1, <2>2
<1>5. /\ s \in ProcessStates /\ s.step = process[p].step + 1
      /\ s.at = process[p].at /\ s.program = process[p].program /\ s.token = process[p].token
      /\ s.had = process[p].had /\ s.found = process[p].found
  BY <1>2, <1>4, AdvancedIs DEF Advanced
<1> QED
  BY <1>2, <1>3, <1>5 DEF StateFits

(* A process carries out the k-th step of finishForward, in a recovery or  *)
(* in a restore.                                                           *)
Finishes(doing, k) ==
  \/ doing.program = "finish" /\ doing.step = k
  \/ doing.program = "restore" /\ doing.step = k + 13

(* The calls of restoreBackup from the committed marker on.                *)
LEMMA LateCalls ==
  ASSUME NEW k \in 13 .. 21
  PROVE  /\ RestoreProgram[k][1] = "record" <=> k = 13
         /\ k # 13 => k - 13 \in 1 .. 8 /\ RestoreProgram[k] = FinishProgram[k - 13]
<1>1. RestoreProgram[13][1] = "record"
  BY RestoreSteps
<1>2. CASE k # 13
  <2>1. k - 13 \in 1 .. 8 /\ RestoreProgram[k] = FinishProgram[k - 13]
    BY <1>2, RestoreSteps
  <2> QED
    BY <1>2, <2>1, FinishCalls
<1> QED
  BY <1>1, <1>2

(* Where a process can be that runs: rolling back, restoring before its    *)
(* commit, recording it, or finishing.                                     *)
LEMMA CallPlaces ==
  ASSUME RestoreInv, NEW p \in Processes, process[p].at = "running"
  PROVE
    \/ /\ process[p].program = "rollback" /\ process[p].step \in 1 .. 9
       /\ Instruction(p) = RollbackProgram[process[p].step]
       /\ RollbackFits(process[p], seen)
    \/ /\ process[p].program = "restore" /\ process[p].step \in 1 .. 12
       /\ Instruction(p) = RestoreProgram[process[p].step]
       /\ SwitchFits(process[p], seen)
    \/ /\ process[p].program = "restore" /\ process[p].step = 13
       /\ Instruction(p)[1] = "record" /\ FinishFits(0, process[p].token, seen)
    \/ \E k \in 1 .. 8 : /\ Finishes(process[p], k) /\ Instruction(p) = FinishProgram[k]
                         /\ FinishFits(k, process[p].token, seen)
<1>1. CASE process[p].program = "finish" /\ process[p].step \in 1 .. 8
           /\ Instruction(p) = FinishProgram[process[p].step]
           /\ FinishFits(process[p].step, process[p].token, seen)
  BY <1>1 DEF Finishes
<1>2. CASE process[p].program = "restore" /\ process[p].step \in 13 .. 21
           /\ Instruction(p) = RestoreProgram[process[p].step]
           /\ FinishFits(process[p].step - 13, process[p].token, seen)
  <2>1. CASE process[p].step = 13
    <3>1. process[p].step - 13 = 0
      BY <2>1
    <3> QED
      BY <1>2, <2>1, <3>1, LateCalls
  <2>2. CASE process[p].step # 13
    <3> DEFINE k == process[p].step - 13
    <3>1. k \in 1 .. 8 /\ process[p].step = k + 13 /\ Instruction(p) = FinishProgram[k]
      BY <1>2, <2>2, LateCalls
    <3>2. Finishes(process[p], k) /\ FinishFits(k, process[p].token, seen)
      BY <1>2, <3>1 DEF Finishes
    <3> QED
      BY <3>1, <3>2
  <2> QED
    BY <2>1, <2>2
<1> QED
  BY <1>1, <1>2, RunsProgram

(* A process that finishes finds what it relies on, in a recovery as in a  *)
(* restore.                                                                *)
LEMMA FinishRuns ==
  ASSUME NEW s, NEW dir, NEW k \in 0 .. 8, FinishFits(k, s.token, dir),
         Finishes(s, k), s.at = "running"
  PROVE  RunFits(s, dir)
<1>1. CASE s.program = "finish" /\ s.step = k
  BY <1>1 DEF RunFits
<1>2. CASE s.program = "restore" /\ s.step = k + 13
  <2>1. s.step - 13 = k /\ s.step >= 13
    BY <1>2
  <2> QED
    BY <1>2, <2>1 DEF RunFits
<1> QED
  BY <1>1, <1>2 DEF Finishes

(* The removal of the journal is the last call of every program.           *)
LEMMA NotLast ==
  ASSUME RestoreInv, NEW p \in Processes, process[p].at = "running",
         Instruction(p)[1] # "forget"
  PROVE  process[p].step < Len(Program(process[p].program))
<1> DEFINE n == Len(Program(process[p].program))
<1>1. /\ process[p].program = "rollback" => n = 9
      /\ process[p].program = "finish" => n = 8
      /\ process[p].program = "restore" => n = 21
  <2>1. /\ Len(Program("rollback")) = 9 /\ Len(Program("finish")) = 8
        /\ Len(Program("restore")) = 21
    BY FinishSteps, RollbackSteps, RestoreSteps DEF Program
  <2> QED
    BY <2>1, Zenon
<1> HIDE DEF n
<1>2. CASE process[p].program = "rollback" /\ process[p].step \in 1 .. 9
           /\ Instruction(p) = RollbackProgram[process[p].step]
  <2>1. process[p].step # 9
    BY <1>2, RollbackCalls
  <2>2. process[p].step < n
    BY <1>1, <1>2, <2>1
  <2> QED
    BY <2>2 DEF n
<1>3. CASE process[p].program = "restore" /\ process[p].step \in 1 .. 13
  <2>1. process[p].step < n
    BY <1>1, <1>3
  <2> QED
    BY <2>1 DEF n
<1>4. ASSUME NEW k \in 1 .. 8, Finishes(process[p], k), Instruction(p) = FinishProgram[k]
      PROVE  process[p].step < Len(Program(process[p].program))
  <2>1. k < 8
    BY <1>4, FinishCalls
  <2>2. process[p].step < n
    BY <1>1, <1>4, <2>1 DEF Finishes
  <2> QED
    BY <2>2 DEF n
<1> QED
  BY <1>2, <1>3, <1>4, CallPlaces

(* After any other call a process is one step further in its program.      *)
LEMMA Advances ==
  ASSUME RestoreInv, NEW p \in Processes, process[p].at = "running",
         Instruction(p)[1] # "forget", NEW s, s = Advanced(p)
  PROVE  /\ StateFits(s) /\ s.step = process[p].step + 1 /\ s.at = "running"
         /\ s.program = process[p].program /\ s.token = process[p].token
         /\ s.had = process[p].had /\ s.found = process[p].found
         /\ \A k : Finishes(process[p], k) /\ k \in Nat => Finishes(s, k + 1)
<1>1. /\ StateFits(s) /\ s.step = process[p].step + 1 /\ s.at = "running"
      /\ s.program = process[p].program /\ s.token = process[p].token
      /\ s.had = process[p].had /\ s.found = process[p].found
  BY NotLast, AdvancedFits
<1> QED
  BY <1>1 DEF Finishes

(* The state of a process that runs no program.                            *)
Resting(at, goal) == [Idle EXCEPT !.at = at, !.goal = goal]

(* A process that runs no program relies on nothing but the absence of a   *)
(* journal, once it has recovered.                                         *)
LEMMA AtRest ==
  ASSUME NEW a \in {"idle", "preparing", "recovering", "opening", "inspecting"},
         NEW g \in {"none", "open", "restore"}, NEW s, s = Resting(a, g)
  PROVE  /\ StateFits(s) /\ s.at = a /\ s.goal = g
         /\ \A dir : (a \in {"opening", "inspecting"} => dir.journal = NoJournal) => RunFits(s, dir)
<1>1. s \in ProcessStates /\ s.at = a /\ s.goal = g
  <2> DEFINE r == [Idle EXCEPT !.at = a]
  <2>1. Idle \in ProcessStates
    BY IdleFits DEF StateFits
  <2>2. r \in ProcessStates /\ r.at = a
    BY <2>1 DEF ProcessStates
  <2>3. s = [r EXCEPT !.goal = g]
    BY DEF Resting
  <2> HIDE DEF r
  <2> QED
    BY <2>2, <2>3 DEF ProcessStates
<1>2. s = [Idle EXCEPT !.at = s.at, !.goal = s.goal]
  BY <1>1 DEF Resting
<1> QED
  BY <1>1, <1>2 DEF StateFits, RunFits

(* A process that has recovered goes on to open or to inspect, without a   *)
(* journal.                                                                *)
LEMMA AfterRecoveryFits ==
  ASSUME NEW s \in ProcessStates, NEW r, r = AfterRecovery(s)
  PROVE  /\ StateFits(r) /\ r.at # "running"
         /\ \A dir : dir.journal = NoJournal => RunFits(r, dir)
<1> DEFINE a == IF s.goal = "open" THEN "opening" ELSE "inspecting"
           g == s.goal
<1>1. r = Resting(a, g)
  BY DEF AfterRecovery, Idle, Resting
<1>2. a \in {"opening", "inspecting"} /\ g \in {"none", "open", "restore"}
  BY DEF ProcessStates
<1> HIDE DEF a, g
<1>3. /\ StateFits(r) /\ r.at = a
      /\ \A dir : (a \in {"opening", "inspecting"} => dir.journal = NoJournal) => RunFits(r, dir)
  <2>1. a \in {"idle", "preparing", "recovering", "opening", "inspecting"}
    BY <1>2
  <2> QED
    BY <1>1, <1>2, <2>1, AtRest
<1> QED
  BY <1>2, <1>3

(* Beginning to open or to restore and refusing a restore keep the         *)
(* invariant.                                                              *)
LEMMA OpenKeeps ==
  ASSUME RestoreInv, NEW p \in Processes, Open(p) \/ Restore(p) \/ Refuse(p)
  PROVE  RestoreInv'
<1>1. CASE Open(p)
  <2> DEFINE s == Resting("preparing", "open")
  <2>1. GoesOn(p, s)
    BY <1>1 DEF Open, Resting
  <2>2. StateFits(s) /\ RunFits(s, seen)
    BY AtRest
  <2> QED
    BY <2>1, <2>2, GoesOnKeeps
<1>2. CASE Restore(p)
  <2> DEFINE s == Resting("recovering", "restore")
  <2>1. GoesOn(p, s)
    BY <1>2 DEF Restore, Resting
  <2>2. StateFits(s) /\ RunFits(s, seen)
    BY AtRest
  <2> QED
    BY <2>1, <2>2, GoesOnKeeps
<1>3. CASE Refuse(p)
  BY <1>3, IdleFits, GoesOnKeeps DEF Refuse
<1> QED
  BY <1>1, <1>2, <1>3

(* The states of a process that runs no program.                           *)
LEMMA RestingIs ==
  ASSUME RestoreInv, NEW p \in Processes, process[p].at # "running"
  PROVE  /\ process[p] \in ProcessStates
         /\ process[p] = Resting(process[p].at, process[p].goal)
         /\ process[p].at \in {"idle", "preparing", "recovering", "opening", "inspecting"}
         /\ process[p].goal \in {"none", "open", "restore"}
<1>1. StateFits(process[p])
  BY SeenFits
<1> QED
  BY <1>1 DEF StateFits, ProcessStates, Resting

(* Making the artifact directory before the recovery keeps the invariant:  *)
(* before the commit the missing live half is at its old path or was never *)
(* there, and after it none is missing.                                    *)
LEMMA PrepareKeeps ==
  ASSUME RestoreInv, WorksAlone, NEW p \in Processes, Prepare(p)
  PROVE  RestoreInv'
<1>1. process[p].at = "preparing" /\ ~Free(p)
  BY DEF Prepare, Free
<1> DEFINE s == [process[p] EXCEPT !.at = "recovering"]
           dir == IF Exists(seen, "artifacts", Live) THEN seen
                  ELSE Put(seen, "artifacts", Live, Fresh)
<1>2. /\ seen' = dir /\ outcomes' = outcomes \cup {dir} /\ Turns(p, s)
      /\ UNCHANGED <<retained, begun, restoreCrashes>>
  BY DEF Prepare, Unsynced
<1>3. StateFits(s) /\ RunFits(s, dir)
  <2> DEFINE g == process[p].goal
  <2>1. process[p] = Resting("preparing", g) /\ g \in {"none", "open", "restore"}
    BY <1>1, RestingIs
  <2> HIDE DEF g
  <2>2. s = Resting("recovering", g)
    BY <2>1 DEF Idle, Resting
  <2> HIDE DEF s, dir
  <2> QED
    BY <2>1, <2>2, AtRest
<1>4. restoreCrashes' \in 0 .. MaxRestoreCrashes
  BY <1>2 DEF RestoreInv, RestoreTypeOK
<1>5. dir \in Directories /\ DirectoryFits(dir)
  <2>1. seen \in Directories /\ DirectoryFits(seen)
    BY SeenFits
  <2>2. CASE Exists(seen, "artifacts", Live)
    BY <2>1, <2>2
  <2>3. CASE ~Exists(seen, "artifacts", Live)
    <3> DEFINE d == Put(seen, "artifacts", Live, Fresh)
    <3>1. /\ d \in Directories /\ d.journal = seen.journal
          /\ d.entry["artifacts"][Live] = Fresh
          /\ \A i \in Halves, m \in Names :
               i # "artifacts" \/ m # Live => d.entry[i][m] = seen.entry[i][m]
      <4>1. Live \in Names /\ "artifacts" \in Halves /\ Fresh \in Generations \cup {None}
        BY DEF Halves, Names, Generations
      <4> QED
        BY <2>1, <4>1, PutIs
    <3> HIDE DEF d
    <3>2. seen.entry["artifacts"][Live] = None
      BY <2>3 DEF Exists
    <3>3. seen.journal # NoJournal => seen.journal.token \in Tokens /\ begun[seen.journal.token].from # None
      BY <2>1, JournalIs DEF DirectoryFits
    <3>4. /\ \A h \in Halves, u \in Tokens : d.entry[h][Old(u)] = seen.entry[h][Old(u)]
          /\ d.entry["database"][Live] = seen.entry["database"][Live]
      <4>1. \A u \in Tokens : Old(u) \in Names /\ Old(u) # Live
        BY NamesDiffer
      <4>2. Live \in Names /\ "database" \in Halves
        BY DEF Names, Halves
      <4> QED
        BY <3>1, <4>1, <4>2
    <3>5. seen.journal = NoJournal => Whole(d)
      BY <2>1, <3>1, <3>2, <3>4 DEF DirectoryFits, Recoverable, Whole, Halves
    <3>6. seen.journal # NoJournal => seen.journal.phase # "committed"
      BY <2>1, <3>2, <3>3 DEF DirectoryFits, Recoverable, NewUnitInPlace, Halves
    <3>7. seen.journal # NoJournal => OldUnitInPlace(d)
      <4> DEFINE j == seen.journal
      <4> SUFFICES ASSUME j # NoJournal, NEW h \in Halves
                   PROVE  LET old == d.entry[h][Old(j.token)]
                          IN  IF j.had THEN begun[j.token].over = IF old # None THEN old ELSE d.entry[h][Live]
                              ELSE old = None
        BY <3>1 DEF OldUnitInPlace
      <4>1. /\ OldUnitInPlace(seen) /\ j.token \in Tokens
            /\ j.had => begun[j.token].over # None
        BY <2>1, <3>3, <3>6 DEF DirectoryFits, Recoverable
      <4>2. h = "database" \/ h = "artifacts"
        BY DEF Halves
      <4> QED
        BY <3>2, <3>4, <4>1, <4>2 DEF OldUnitInPlace
    <3> QED
      BY <2>1, <2>3, <3>1, <3>4, <3>5, <3>6, <3>7 DEF DirectoryFits, Recoverable, d
  <2> QED
    BY <2>2, <2>3
<1> QED
  BY <1>1, <1>2, <1>3, <1>4, <1>5, StepKeeps

(* The choice of a direction keeps the invariant: what finishForward       *)
(* relies on holds once the journal says committed, and rollback relies on *)
(* nothing at first.                                                       *)
LEMMA RecoverKeeps ==
  ASSUME RestoreInv, NEW p \in Processes, RecoverUnit(p)
  PROVE  RestoreInv'
<1>1. process[p].at = "recovering"
  BY DEF RecoverUnit
<1>2. seen \in Directories /\ DirectoryFits(seen) /\ process[p] \in ProcessStates
  BY <1>1, SeenFits, RestingIs
<1>3. CASE seen.journal = NoJournal
  <2>1. GoesOn(p, AfterRecovery(process[p]))
    BY <1>3 DEF RecoverUnit
  <2>2. StateFits(AfterRecovery(process[p])) /\ RunFits(AfterRecovery(process[p]), seen)
    BY <1>2, <1>3, AfterRecoveryFits
  <2> QED
    BY <2>1, <2>2, GoesOnKeeps
<1>4. CASE seen.journal # NoJournal
  <2> DEFINE j == seen.journal
             s == [process[p] EXCEPT !.at = "running", !.program = Direction(j.phase),
                                     !.step = 1, !.token = j.token, !.had = j.had]
  <2>1. GoesOn(p, s)
    BY <1>4 DEF RecoverUnit
  <2>2. /\ j.token \in Tokens /\ j.had \in BOOLEAN /\ begun[j.token].from # None
    BY <1>2, <1>4, JournalIs DEF DirectoryFits
  <2>3. Direction(j.phase) = IF j.phase = "committed" THEN "finish" ELSE "rollback"
    BY DEF Direction
  <2>4. 1 \in 0 .. Len(RestoreProgram)
    BY RestoreSteps
  <2>5. /\ s \in ProcessStates
        /\ s.at = "running" /\ s.step = 1 /\ s.token = j.token /\ s.had = j.had
        /\ s.program = Direction(j.phase)
    BY <1>2, <2>2, <2>3, <2>4 DEF ProcessStates
  <2>6. 1 \in 1 .. Len(Program("finish")) /\ 1 \in 1 .. Len(Program("rollback"))
    <3> DEFINE m == Len(Program("finish"))
               n == Len(Program("rollback"))
    <3>1. m = 8 /\ n = 9
      BY FinishSteps, RollbackSteps DEF Program
    <3> HIDE DEF m, n
    <3>2. 1 \in 1 .. m /\ 1 \in 1 .. n
      BY <3>1
    <3> QED
      BY <3>2 DEF m, n
  <2> HIDE DEF s
  <2>7. StateFits(s)
    BY <2>2, <2>3, <2>5, <2>6 DEF StateFits, Unused
  <2>8. CASE j.phase = "committed"
    <3>1. FinishFits(1, s.token, seen)
      BY <1>2, <1>4, <2>5, <2>8 DEF FinishFits, DirectoryFits, Recoverable, NewUnitInPlace
    <3> QED
      BY <2>1, <2>3, <2>5, <2>7, <2>8, <3>1, FinishRuns, GoesOnKeeps DEF Finishes
  <2>9. CASE j.phase # "committed"
    <3>1. RollbackFits(s, seen)
      BY <1>4, <2>5, <2>9 DEF RollbackFits, HalfRollsBack
    <3>2. RunFits(s, seen)
      BY <2>3, <2>5, <2>9, <3>1 DEF RunFits
    <3> QED
      BY <2>1, <2>7, <3>2, GoesOnKeeps
  <2> QED
    BY <2>8, <2>9
<1> QED
  BY <1>3, <1>4

(* Creating what is missing keeps the invariant: without a journal both    *)
(* halves are there or there is no authority yet.                          *)
LEMMA ServeKeeps ==
  ASSUME RestoreInv, WorksAlone, NEW p \in Processes, Serve(p)
  PROVE  RestoreInv'
<1> DEFINE missing == {h \in Halves : ~Exists(seen, h, Live)}
           dir == [seen EXCEPT !.entry =
                     [h \in Halves |-> IF h \in missing THEN [@[h] EXCEPT ![Live] = Fresh] ELSE @[h]]]
<1>1. /\ process[p].at = "opening" /\ ~Free(p)
      /\ seen' = dir /\ outcomes' = IF missing = {} THEN outcomes ELSE {dir}
      /\ Turns(p, Idle) /\ UNCHANGED <<retained, begun, restoreCrashes>>
  BY SMTT(30) DEF Serve, Free
<1>2. /\ seen \in Directories /\ DirectoryFits(seen) /\ seen \in outcomes
      /\ seen.journal = NoJournal /\ restoreCrashes' \in 0 .. MaxRestoreCrashes
  BY <1>1, SeenFits DEF RunFits, RestoreInv, RestoreTypeOK
<1>3. /\ dir \in Directories /\ dir.journal = seen.journal
      /\ \A h \in Halves : dir.entry[h][Live] = IF seen.entry[h][Live] = None THEN Fresh
                                                ELSE seen.entry[h][Live]
      /\ \A h \in Halves, n \in Names : n # Live => dir.entry[h][n] = seen.entry[h][n]
      /\ missing = {} => dir = seen
  <2> DEFINE e == [h \in Halves |-> IF h \in missing THEN [seen.entry[h] EXCEPT ![Live] = Fresh]
                                    ELSE seen.entry[h]]
  <2>1. Live \in Names /\ Fresh \in Generations \cup {None}
    BY DEF Names, Generations
  <2>2. seen.entry \in [Halves -> [Names -> Generations \cup {None}]]
    BY <1>2 DEF Directories
  <2>3. e \in [Halves -> [Names -> Generations \cup {None}]]
    BY <2>1, <2>2
  <2>4. /\ \A h \in Halves : e[h][Live] = IF seen.entry[h][Live] = None THEN Fresh
                                          ELSE seen.entry[h][Live]
        /\ \A h \in Halves, n \in Names : n # Live => e[h][n] = seen.entry[h][n]
    BY <2>1, <2>2 DEF Exists
  <2>5. dir = [seen EXCEPT !.entry = e]
    OBVIOUS
  <2>6. missing = {} => e = seen.entry
    BY <2>2
  <2> HIDE DEF e, dir
  <2>7. missing = {} => dir = seen
    BY <1>2, <2>5, <2>6 DEF Directories
  <2>8. dir \in Directories /\ dir.journal = seen.journal /\ dir.entry = e
    BY <1>2, <2>3, <2>5 DEF Directories
  <2> QED
    BY <2>4, <2>7, <2>8
<1> HIDE DEF dir
<1>5. DirectoryFits(dir)
  <2>1. Whole(dir)
    BY <1>2, <1>3 DEF DirectoryFits, Recoverable, Whole, Halves
  <2>2. \A u \in Tokens : Old(u) \in Names /\ Old(u) # Live
    BY NamesDiffer
  <2> QED
    BY <1>2, <1>3, <2>1, <2>2 DEF DirectoryFits, Recoverable
<1>6. dir \in outcomes' /\ outcomes' \subseteq outcomes \cup {dir}
  BY <1>1, <1>2, <1>3
<1>7. StateFits(Idle) /\ RunFits(Idle, dir)
  BY IdleFits
<1> QED
  BY <1>1, <1>2, <1>3, <1>5, <1>6, <1>7, StepKeeps

(* Beginning a restore keeps the invariant: its token was never used, so   *)
(* no journal and no old path is of it, and what is live is its old unit.  *)
LEMMA InspectKeeps ==
  ASSUME RestoreInv, WorksAlone, NEW p \in Processes, Inspect(p)
  PROVE  RestoreInv'
<1>1. /\ process[p].at = "inspecting" /\ ~Free(p)
      /\ UNCHANGED <<seen, outcomes, restoreCrashes>>
  BY DEF Inspect, Free
<1>whole. GoneFrom(seen) \/ Verified(seen, Live)
  BY DEF Inspect
<1> DEFINE t == CHOOSE u \in Tokens : Unused(u)
           live == seen.entry["database"][Live]
           s == [process[p] EXCEPT !.at = "running", !.program = "restore", !.step = 1,
                                   !.token = t, !.had = ~GoneFrom(seen)]
<1>2. t \in Tokens /\ Unused(t)
  BY DEF Inspect
<1>3. PICK g \in Backups \cup retained :
        /\ begun' = [begun EXCEPT ![t] = [from |-> g, over |-> live]]
        /\ retained' = retained \cup ({live} \ {None})
        /\ Turns(p, s)
  BY DEF Inspect
<1> HIDE DEF t, live
<1>4. /\ seen \in Directories /\ DirectoryFits(seen) /\ seen.journal = NoJournal
      /\ process[p] \in ProcessStates /\ RestoreTypeOK
  <2>1. seen \in Directories /\ DirectoryFits(seen) /\ RunFits(process[p], seen)
    BY SeenFits
  <2>2. process[p] \in ProcessStates
    BY <1>1, RestingIs
  <2> QED
    BY <1>1, <2>1, <2>2 DEF RunFits, RestoreInv
<1>5. /\ g \in Generations /\ g # None /\ live \in Generations \cup {None}
      /\ retained' \subseteq Generations
  <2>1. live \in Generations \cup {None}
    BY <1>4 DEF live, Directories, Halves, Names
  <2>2. g \in Generations
    BY <1>4 DEF RestoreTypeOK, Generations
  <2>3. None \notin Generations
    BY GenerationsAssumption DEF Generations
  <2> QED
    BY <1>3, <1>4, <2>1, <2>2, <2>3 DEF RestoreTypeOK
<1>6. /\ begun' \in [Tokens -> [from : Generations \cup {None}, over : Generations \cup {None}]]
      /\ begun'[t].from = g /\ begun'[t].over = live
      /\ \A u \in Tokens : u # t => begun'[u] = begun[u]
  BY <1>2, <1>3, <1>4, <1>5 DEF RestoreTypeOK
<1>7. /\ s \in ProcessStates /\ s.at = "running" /\ s.program = "restore" /\ s.step = 1
      /\ s.token = t /\ s.had = ~GoneFrom(seen)
  <2>1. 1 \in 0 .. Len(RestoreProgram) /\ GoneFrom(seen) \in BOOLEAN
    BY RestoreSteps DEF GoneFrom
  <2> DEFINE b == ~GoneFrom(seen)
  <2>2. b \in BOOLEAN
    OBVIOUS
  <2> HIDE DEF b
  <2> QED
    BY <1>2, <1>4, <2>1, <2>2 DEF ProcessStates
<1> HIDE DEF s
<1>8. \A q \in Processes : process'[q] = IF q = p THEN s ELSE process[q]
  BY <1>3, <1>4 DEF Turns, RestoreTypeOK
<1>9. \A dir \in outcomes : DirectoryFits(dir)'
  <2> TAKE dir \in outcomes
  <2>1. dir \in Directories /\ DirectoryFits(dir)
    BY <1>4 DEF RestoreInv, RestoreTypeOK
  <2>2. dir.journal # NoJournal => dir.journal.token \in Tokens /\ dir.journal.token # t
    BY <1>2, <2>1, JournalIs DEF DirectoryFits, Unused
  <2>3. dir.journal # NoJournal => begun'[dir.journal.token] = begun[dir.journal.token]
    BY SMTT(30), <1>6, <2>2
  <2> QED
    BY <2>1, <2>3 DEF DirectoryFits, Recoverable, Whole, NewUnitInPlace, OldUnitInPlace
<1>10. /\ \A doing : doing = s => StateFits(doing)'
       /\ \A doing : doing.at = "idle" /\ StateFits(doing) => StateFits(doing)'
  <2> DEFINE n == Len(Program("restore"))
  <2>1. n = 21
    BY RestoreSteps DEF Program
  <2> HIDE DEF n
  <2>2. 1 \in 1 .. n
    BY <2>1
  <2>3. s.step \in 1 .. Len(Program(s.program))
    BY <1>7, <2>2 DEF n
  <2> QED
    BY <1>2, <1>5, <1>6, <1>7, <2>3 DEF StateFits, Unused
<1>11. \A q \in Processes : q # p => process[q].at = "idle" /\ StateFits(process[q])
  BY <1>1, SeenFits DEF WorksAlone, Free
<1>12. RestoreTypeOK'
  <2>1. (\A q \in Processes : StateFits(process[q]))'
    BY <1>8, <1>10, <1>11
  <2>2. process' \in [Processes -> ProcessStates]
    BY <1>3, <1>4, <1>7 DEF Turns, RestoreTypeOK
  <2>3. seen' \in outcomes' /\ outcomes' \subseteq Directories /\ restoreCrashes' \in 0 .. MaxRestoreCrashes
    BY <1>1, <1>4 DEF RestoreTypeOK
  <2> QED
    BY <1>5, <1>6, <2>1, <2>2, <2>3 DEF RestoreTypeOK, StateFits
<1>13. (\A q \in Processes : RunFits(process[q], seen))'
  <2>1. \A h \in Halves : seen.entry[h][Live] = live /\ seen.entry[h][Old(t)] = None
    <3>1. t # seen.journal.token
      BY <1>2, <1>4, TokenAssumption DEF NoJournal
    <3> QED
      BY <1>2, <1>4, <1>whole, <3>1 DEF DirectoryFits, GoneFrom, Verified, Exists, Halves, live
  <2>2. s.had <=> live # None
    BY <1>7, <1>whole DEF GoneFrom, Verified, Exists, Halves, live
  <2>3. \A doing : doing = s => SwitchFits(doing, seen)'
    BY <1>1, <1>2, <1>4, <1>6, <1>7, <2>1, <2>2 DEF SwitchFits, HalfSwitches, Halves
  <2>4. \A doing : doing = s => RunFits(doing, seen)'
    BY <1>7, <2>3 DEF RunFits
  <2>5. \A doing : doing.at = "idle" => RunFits(doing, seen)'
    BY DEF RunFits
  <2> QED
    BY <1>8, <1>11, <2>4, <2>5
<1>14. (\A dir \in outcomes : DirectoryFits(dir))'
  BY <1>1, <1>9
<1> QED
  BY <1>12, <1>13, <1>14 DEF RestoreInv

(* A process that restores before its commit finds what it relies on.      *)
LEMMA SwitchRuns ==
  ASSUME NEW s, NEW dir, s.at = "running", s.program = "restore", s.step \in 1 .. 12,
         SwitchFits(s, dir)
  PROVE  RunFits(s, dir)
BY DEF RunFits

(* Staging a copy keeps the invariant, and comes before the journal.       *)
LEMMA StageKeeps ==
  ASSUME RestoreInv, WorksAlone, NEW p \in Processes, Stage(p)
  PROVE  RestoreInv' /\ process[p].program = "restore" /\ seen.journal = NoJournal
<1>1. process[p].at = "running" /\ Instruction(p)[1] = "stage"
  BY DEF Stage, CallsNext
<1> DEFINE t == process[p].token
           h == Instruction(p)[2]
           g == begun[t].from
           d == Put(seen, h, Staged(t), g)
           s == Advanced(p)
<1>2. /\ seen' = d /\ outcomes' = outcomes \cup {d} /\ Turns(p, s)
      /\ UNCHANGED <<retained, begun, restoreCrashes>>
  BY DEF Stage, Unsynced
<1>3. /\ process[p].program = "restore" /\ process[p].step \in {1, 2}
      /\ SwitchFits(process[p], seen)
      /\ h = IF process[p].step = 1 THEN "database" ELSE "artifacts"
  BY SMTT(30), <1>1, CallPlaces, RollbackCalls, SwitchCalls, FinishCalls
<1>4. /\ t \in Tokens /\ g \in Generations /\ ~Free(p) /\ h \in Halves
      /\ seen \in Directories /\ DirectoryFits(seen) /\ restoreCrashes \in 0 .. MaxRestoreCrashes
  BY <1>1, <1>3, RunsProgram, SeenFits DEF RestoreInv, RestoreTypeOK, Halves
<1>5. /\ StateFits(s) /\ s.step = process[p].step + 1 /\ s.at = "running"
      /\ s.program = "restore" /\ s.token = t /\ s.had = process[p].had
  BY <1>1, <1>3, Advances
<1>6. /\ d \in Directories /\ d.journal = seen.journal /\ d.entry[h][Staged(t)] = g
      /\ \A i \in Halves, m \in Names : i # h \/ m # Staged(t) => d.entry[i][m] = seen.entry[i][m]
  <2>1. Staged(t) \in Names
    BY <1>4, NamesDiffer
  <2> QED
    BY <1>4, <2>1, PutIs
<1> HIDE DEF d, s, g, h
<1>7. /\ \A i \in Halves : d.entry[i][Live] = seen.entry[i][Live]
      /\ \A i \in Halves, u \in Tokens : d.entry[i][Old(u)] = seen.entry[i][Old(u)]
  <2>1. \A u \in Tokens : Old(u) \in Names /\ Live \in Names /\ Old(u) # Staged(t) /\ Live # Staged(t)
    BY <1>4, NamesDiffer
  <2> QED
    BY <1>4, <1>6, <2>1
<1>8. DirectoryFits(d)
  BY <1>4, <1>6, <1>7, SameUnit
<1>9. SwitchFits(s, d)
  <2>1. s.step = 3 => d.entry["database"][Staged(t)] = g
    BY <1>3, <1>4, <1>5, <1>6, NamesDiffer DEF SwitchFits, Halves, g
  <2> QED
    BY <1>3, <1>4, <1>5, <1>6, <1>7, <2>1 DEF SwitchFits, HalfSwitches, Halves, g
<1>10. RunFits(s, d)
  BY <1>3, <1>5, <1>9, SwitchRuns
<1>11. seen.journal = NoJournal
  BY <1>3 DEF SwitchFits
<1> QED
  BY <1>2, <1>3, <1>4, <1>5, <1>6, <1>8, <1>10, <1>11, StepKeeps

(* Giving up on the first journal keeps the invariant, and leaves none     *)
(* behind.                                                                 *)
LEMMA WriteFailsKeeps ==
  ASSUME RestoreInv, WorksAlone, NEW p \in Processes, WriteFails(p)
  PROVE  RestoreInv' /\ process[p].program = "restore" /\ seen.journal = NoJournal
<1>1. process[p].at = "running" /\ Instruction(p)[1] = "write" /\ Instruction(p)[2] = "staged"
  BY DEF WriteFails, CallsNext
<1>2. /\ process[p].program = "restore" /\ process[p].step = 3 /\ SwitchFits(process[p], seen)
  BY <1>1, CallPlaces, RollbackCalls, SwitchCalls, FinishCalls
<1>3. seen.journal = NoJournal
  BY <1>2 DEF SwitchFits
<1> DEFINE t == process[p].token
           e == Put(seen, "database", Staged(t), None)
           d == Put(e, "artifacts", Staged(t), None)
<1>4. /\ seen' = d /\ outcomes' = outcomes \cup {d} /\ Turns(p, Idle)
      /\ UNCHANGED <<retained, begun, restoreCrashes>>
  BY <1>3 DEF WriteFails, Unsynced
<1>5. /\ t \in Tokens /\ ~Free(p)
      /\ seen \in Directories /\ DirectoryFits(seen) /\ restoreCrashes \in 0 .. MaxRestoreCrashes
  BY <1>1, RunsProgram, SeenFits DEF RestoreInv, RestoreTypeOK
<1>6. /\ e \in Directories /\ e.journal = seen.journal
      /\ \A i \in Halves, m \in Names : m # Staged(t) => e.entry[i][m] = seen.entry[i][m]
  BY <1>5, PutIs, NamesDiffer DEF Halves
<1> HIDE DEF e
<1>7. /\ d \in Directories /\ d.journal = e.journal
      /\ \A i \in Halves, m \in Names : m # Staged(t) => d.entry[i][m] = e.entry[i][m]
  BY <1>5, <1>6, PutIs, NamesDiffer DEF Halves
<1> HIDE DEF d
<1>8. /\ \A i \in Halves : d.entry[i][Live] = seen.entry[i][Live]
      /\ \A i \in Halves, u \in Tokens : d.entry[i][Old(u)] = seen.entry[i][Old(u)]
  <2>1. \A u \in Tokens : Old(u) \in Names /\ Live \in Names /\ Old(u) # Staged(t) /\ Live # Staged(t)
    BY <1>5, NamesDiffer
  <2> QED
    BY <1>5, <1>6, <1>7, <2>1
<1>9. DirectoryFits(d)
  BY <1>5, <1>6, <1>7, <1>8, SameUnit
<1> QED
  BY <1>2, <1>3, <1>4, <1>5, <1>7, <1>9, IdleFits, StepKeeps

(* Writing the journal keeps the invariant: the phase that it records is   *)
(* that of the two halves.                                                 *)
LEMMA WriteJournalKeeps ==
  ASSUME RestoreInv, WorksAlone, NEW p \in Processes, WriteJournal(p)
  PROVE  RestoreInv' /\ Continues(p)
<1>1. process[p].at = "running" /\ Instruction(p)[1] = "write"
  BY DEF WriteJournal, CallsNext
<1> DEFINE t == process[p].token
           k == process[p].step
           j == [phase |-> Instruction(p)[2], token |-> t, had |-> process[p].had]
           d == [seen EXCEPT !.journal = j]
           s == Advanced(p)
<1>2. Durably(p, d, s)
  BY DEF WriteJournal
<1>3. /\ process[p].program = "restore" /\ k \in {3, 6, 8, 10, 12} /\ SwitchFits(process[p], seen)
      /\ Instruction(p)[2] = IF k = 12 THEN "committed" ELSE PhaseAt(k + 1)
  BY <1>1, CallPlaces, RollbackCalls, SwitchCalls, FinishCalls
<1>4. /\ t \in Tokens /\ begun[t].from # None /\ ~Free(p)
      /\ seen \in Directories /\ DirectoryFits(seen) /\ process[p].had \in BOOLEAN
  BY <1>1, RunsProgram, SeenFits DEF ProcessStates
<1>5. /\ StateFits(s) /\ s.step = k + 1 /\ s.at = "running"
      /\ s.program = "restore" /\ s.token = t /\ s.had = process[p].had
      /\ k = 12 => Finishes(s, 0)
  <2>1. k = 12 => k + 1 = 0 + 13
    OBVIOUS
  <2> QED
    BY <1>1, <1>3, <2>1, Advances DEF Finishes
<1>6. /\ j \in Journals /\ j # NoJournal /\ j.token = t /\ j.had = process[p].had
      /\ j.phase = IF k = 12 THEN "committed" ELSE PhaseAt(k + 1)
      /\ k # 12 => j.phase # "committed"
  <2>1. j.phase \in RestorePhases /\ (k # 12 => j.phase # "committed")
    BY <1>3 DEF PhaseAt, RestorePhases
  <2>2. j \in Journals /\ j.token = t /\ j.had = process[p].had
    BY <1>4, <2>1 DEF Journals
  <2>3. j # NoJournal
    BY <1>4, <2>2, TokenAssumption DEF NoJournal
  <2> QED
    BY <1>3, <2>1, <2>2, <2>3
<1> HIDE DEF j
<1>7. d \in Directories /\ d.journal = j /\ d.entry = seen.entry
  BY <1>4, <1>6, WrittenIs
<1> HIDE DEF d, s
<1>8. \A h \in Halves, u \in Tokens : u # t => seen.entry[h][Old(u)] = None
  <2>1. seen.journal.token = t \/ seen.journal.token = NoToken
    BY <1>3 DEF SwitchFits, NoJournal
  <2> QED
    BY <1>4, <2>1, TokenAssumption DEF DirectoryFits
<1>9. process[p].had <=> begun[t].over # None
  BY <1>3 DEF SwitchFits
<1>10. CASE k # 12
  <2>1. \A h \in Halves : IF process[p].had
                           THEN begun[t].over = IF seen.entry[h][Old(t)] # None THEN seen.entry[h][Old(t)]
                                                ELSE seen.entry[h][Live]
                           ELSE seen.entry[h][Old(t)] = None
    BY <1>3, <1>9 DEF SwitchFits, HalfSwitches, Halves
  <2>2. OldUnitInPlace(d)
    BY <1>6, <1>7, <2>1 DEF OldUnitInPlace
  <2>3. DirectoryFits(d)
    BY <1>4, <1>6, <1>7, <1>8, <1>9, <1>10, <2>2 DEF DirectoryFits, Recoverable
  <2>4. SwitchFits(s, d)
    <3>1. d.journal # NoJournal /\ d.journal.phase = PhaseAt(s.step) /\ s.step \in {4, 7, 9, 11}
          /\ d.journal.token = t /\ d.journal.had = s.had
      BY <1>3, <1>5, <1>6, <1>7, <1>10
    <3> QED
      BY <1>3, <1>5, <1>7, <1>9, <3>1 DEF SwitchFits, HalfSwitches
  <2>5. RunFits(s, d)
    BY <1>3, <1>5, <1>10, <2>4, SwitchRuns
  <2> QED
    BY <1>2, <1>4, <1>5, <1>7, <2>3, <2>5, DurablyKeeps
<1>11. CASE k = 12
  <2>1. \A h \in Halves : seen.entry[h][Live] = begun[t].from
    BY <1>3, <1>11 DEF SwitchFits, HalfSwitches, Halves
  <2>2. DirectoryFits(d)
    BY <1>4, <1>6, <1>7, <1>8, <1>9, <1>11, <2>1 DEF DirectoryFits, Recoverable, NewUnitInPlace
  <2>3. FinishFits(0, t, d)
    BY <1>6, <1>7, <1>11, <2>1 DEF FinishFits
  <2>4. RunFits(s, d)
    BY <1>5, <1>11, <2>3, FinishRuns
  <2> QED
    BY <1>2, <1>4, <1>5, <1>7, <2>2, <2>4, DurablyKeeps
<1> QED
  BY <1>10, <1>11

(* Moving a live half aside keeps the invariant, and the rename is         *)
(* possible.                                                               *)
LEMMA DisplaceKeeps ==
  ASSUME RestoreInv, WorksAlone, NEW p \in Processes, Displace(p)
  PROVE  RestoreInv' /\ Continues(p)
<1>1. process[p].at = "running" /\ Instruction(p)[1] = "displace"
  BY DEF Displace, CallsNext
<1> DEFINE t == process[p].token
           k == process[p].step
           h == Instruction(p)[2]
           d == Moved(seen, h, Live, Old(t))
           s == Advanced(p)
<1>2. /\ process[p].program = "restore" /\ k \in {4, 5} /\ SwitchFits(process[p], seen)
      /\ h = IF k = 4 THEN "database" ELSE "artifacts"
  BY <1>1, CallPlaces, RollbackCalls, SwitchCalls, FinishCalls
<1>3. /\ t \in Tokens /\ begun[t].from # None /\ ~Free(p) /\ h \in Halves
      /\ seen \in Directories /\ DirectoryFits(seen)
      /\ Live \in Names /\ Old(t) \in Names /\ Live # Old(t)
  BY <1>1, <1>2, RunsProgram, SeenFits, NamesDiffer DEF Halves
<1>4. /\ StateFits(s) /\ s.step = k + 1 /\ s.at = "running"
      /\ s.program = "restore" /\ s.token = t /\ s.had = process[p].had
  BY <1>1, <1>2, Advances
<1>5. /\ process[p].had <=> begun[t].over # None
      /\ seen.entry[h][Live] = begun[t].over /\ seen.entry[h][Old(t)] = None
      /\ seen.journal # NoJournal /\ seen.journal.phase = "staged"
      /\ seen.journal.token = t /\ seen.journal.had = process[p].had
  BY <1>2 DEF SwitchFits, HalfSwitches, PhaseAt
<1>6. CASE ~process[p].had
  <2>1. GoesOn(p, s)
    BY <1>6 DEF Displace
  <2> HIDE DEF s
  <2>2. SwitchFits(s, seen)
    BY <1>2, <1>4, <1>5, <1>6 DEF SwitchFits, HalfSwitches, PhaseAt
  <2> QED
    BY <1>2, <1>4, <2>1, <2>2, SwitchRuns, GoesOnKeeps
<1>7. CASE process[p].had
  <2>1. Durably(p, d, s)
    BY <1>5, <1>7 DEF Displace, Renames, CanMove, Exists
  <2>2. /\ d \in Directories /\ d.journal = seen.journal
        /\ d.entry[h][Old(t)] = begun[t].over /\ d.entry[h][Live] = None
        /\ \A i \in Halves, m \in Names :
             i # h \/ m \notin {Live, Old(t)} => d.entry[i][m] = seen.entry[i][m]
    BY <1>3, <1>5, MovedIs
  <2> HIDE DEF s, d
  <2>3. \A u \in Tokens : /\ Old(u) \in Names /\ Staged(u) \in Names /\ Old(u) # Live
                         /\ Staged(u) # Live /\ Staged(u) # Old(t) /\ (u # t => Old(u) # Old(t))
    BY <1>3, NamesDiffer
  <2>4. \A i \in Halves : i # h => /\ d.entry[i][Live] = seen.entry[i][Live]
                                  /\ d.entry[i][Old(t)] = seen.entry[i][Old(t)]
    BY <1>3, <2>2
  <2>5. OldUnitInPlace(d)
    <3>1. OldUnitInPlace(seen)
      BY <1>3, <1>5 DEF DirectoryFits, Recoverable
    <3> SUFFICES ASSUME NEW i \in Halves
                 PROVE  begun[t].over = IF d.entry[i][Old(t)] # None THEN d.entry[i][Old(t)]
                                        ELSE d.entry[i][Live]
      <4>1. d.journal.token = t /\ d.journal.had
        BY <1>5, <1>7, <2>2
      <4> QED
        BY <4>1 DEF OldUnitInPlace
    <3>2. CASE i = h
      BY <1>5, <1>7, <2>2, <3>2
    <3>3. CASE i # h
      BY <1>5, <1>7, <2>4, <3>1, <3>3 DEF OldUnitInPlace
    <3> QED
      BY <3>2, <3>3
  <2>6. DirectoryFits(d)
    BY SMTT(30), <1>3, <1>5, <2>2, <2>3, <2>5 DEF DirectoryFits, Recoverable
  <2>7. SwitchFits(s, d)
    <3>1. \A i \in Halves : d.entry[i][Staged(t)] = seen.entry[i][Staged(t)]
      BY <1>3, <2>2, <2>3
    <3> QED
      BY <1>2, <1>4, <1>5, <2>2, <2>4, <3>1 DEF SwitchFits, HalfSwitches, PhaseAt, Halves
  <2> QED
    BY <1>2, <1>3, <1>4, <2>1, <2>2, <2>6, <2>7, SwitchRuns, DurablyKeeps
<1> QED
  BY <1>6, <1>7

(* Moving a copy into place keeps the invariant, and the rename is         *)
(* possible.                                                               *)
LEMMA ActivateKeeps ==
  ASSUME RestoreInv, WorksAlone, NEW p \in Processes, Activate(p)
  PROVE  RestoreInv' /\ Continues(p)
<1>1. process[p].at = "running" /\ Instruction(p)[1] = "activate"
  BY DEF Activate, CallsNext
<1> DEFINE t == process[p].token
           k == process[p].step
           h == Instruction(p)[2]
           d == Moved(seen, h, Staged(t), Live)
           s == Advanced(p)
<1>2. /\ process[p].program = "restore" /\ k \in {7, 9} /\ SwitchFits(process[p], seen)
      /\ h = IF k = 7 THEN "database" ELSE "artifacts"
  BY <1>1, CallPlaces, RollbackCalls, SwitchCalls, FinishCalls
<1>3. /\ t \in Tokens /\ begun[t].from # None /\ ~Free(p) /\ h \in Halves
      /\ seen \in Directories /\ DirectoryFits(seen)
      /\ Live \in Names /\ Staged(t) \in Names /\ Live # Staged(t)
  BY <1>1, <1>2, RunsProgram, SeenFits, NamesDiffer DEF Halves
<1>4. /\ StateFits(s) /\ s.step = k + 1 /\ s.at = "running"
      /\ s.program = "restore" /\ s.token = t /\ s.had = process[p].had
  BY <1>1, <1>2, Advances
<1>5. /\ process[p].had <=> begun[t].over # None
      /\ seen.entry[h][Live] = None /\ seen.entry[h][Staged(t)] = begun[t].from
      /\ \A i \in Halves : seen.entry[i][Old(t)] = begun[t].over
      /\ seen.journal # NoJournal /\ seen.journal.phase = PhaseAt(k) /\ PhaseAt(k) # "committed"
      /\ PhaseAt(k + 1) = PhaseAt(k)
      /\ seen.journal.token = t /\ seen.journal.had = process[p].had
  BY <1>2 DEF SwitchFits, HalfSwitches, PhaseAt, Halves
<1>6. Durably(p, d, s)
  BY <1>3, <1>5 DEF Activate, Renames, CanMove, Exists
<1>7. /\ d \in Directories /\ d.journal = seen.journal
      /\ d.entry[h][Live] = begun[t].from /\ d.entry[h][Staged(t)] = None
      /\ \A i \in Halves, m \in Names :
           i # h \/ m \notin {Staged(t), Live} => d.entry[i][m] = seen.entry[i][m]
  BY <1>3, <1>5, MovedIs
<1> HIDE DEF s, d
<1>8. \A u \in Tokens : Old(u) \in Names /\ Old(u) # Live /\ Old(u) # Staged(t)
  BY <1>3, NamesDiffer
<1>9. /\ \A i \in Halves, u \in Tokens : d.entry[i][Old(u)] = seen.entry[i][Old(u)]
      /\ \A i \in Halves : i # h => /\ d.entry[i][Live] = seen.entry[i][Live]
                                  /\ d.entry[i][Staged(t)] = seen.entry[i][Staged(t)]
  BY <1>3, <1>7, <1>8
<1>10. OldUnitInPlace(d)
  BY <1>3, <1>5, <1>7, <1>9 DEF OldUnitInPlace
<1>11. DirectoryFits(d)
  BY SMTT(30), <1>3, <1>5, <1>7, <1>9, <1>10 DEF DirectoryFits, Recoverable
<1>12. SwitchFits(s, d)
  BY <1>2, <1>3, <1>4, <1>5, <1>7, <1>9 DEF SwitchFits, HalfSwitches, Halves
<1> QED
  BY <1>2, <1>3, <1>4, <1>6, <1>7, <1>11, <1>12, SwitchRuns, DurablyKeeps

(* A process that finishes and advances finds what its next step relies    *)
(* on.                                                                     *)
LEMMA FinishAdvances ==
  ASSUME RestoreInv, NEW p \in Processes, process[p].at = "running", Instruction(p)[1] # "forget",
         NEW k \in 0 .. 7, Finishes(process[p], k), NEW dir,
         FinishFits(k + 1, process[p].token, dir)
  PROVE  StateFits(Advanced(p)) /\ Advanced(p).at = "running" /\ RunFits(Advanced(p), dir)
<1> DEFINE s == Advanced(p)
<1>1. /\ StateFits(s) /\ s.at = "running" /\ s.token = process[p].token /\ Finishes(s, k + 1)
  BY Advances
<1>2. k + 1 \in 0 .. 8
  OBVIOUS
<1> HIDE DEF s
<1>3. RunFits(s, dir)
  BY <1>1, <1>2, FinishRuns
<1> QED
  BY <1>1, <1>3 DEF s

(* The live unit verifies, in a restore before its commit as in            *)
(* finishForward.                                                          *)
LEMMA VerifyKeeps ==
  ASSUME RestoreInv, NEW p \in Processes, VerifyPair(p)
  PROVE  RestoreInv' /\ Continues(p)
<1>1. process[p].at = "running" /\ Instruction(p)[1] = "verify"
  BY DEF VerifyPair, CallsNext
<1> DEFINE t == process[p].token
<1>2. begun[t].from # None
  BY <1>1, RunsProgram
<1>3. (\A h \in Halves : seen.entry[h][Live] = begun[t].from) => GoesOn(p, Advanced(p))
  BY <1>2 DEF VerifyPair, Verified, Exists, Halves
<1>4. CASE process[p].program = "restore" /\ process[p].step = 11 /\ SwitchFits(process[p], seen)
  <2>1. \A h \in Halves : seen.entry[h][Live] = begun[t].from
    BY <1>4 DEF SwitchFits, HalfSwitches, Halves
  <2> DEFINE s == Advanced(p)
  <2>2. /\ StateFits(s) /\ s.step = 12 /\ s.at = "running"
        /\ s.program = "restore" /\ s.token = t /\ s.had = process[p].had
    BY <1>1, <1>4, Advances
  <2>3. GoesOn(p, s)
    BY <1>3, <2>1
  <2> HIDE DEF s
  <2>4. SwitchFits(s, seen)
    BY <1>4, <2>2 DEF SwitchFits, HalfSwitches, PhaseAt
  <2> QED
    BY <2>2, <2>3, <2>4, SwitchRuns, GoesOnKeeps
<1>5. CASE Finishes(process[p], 3) /\ FinishFits(3, t, seen)
  <2>1. FinishFits(3 + 1, t, seen)
    BY <1>5 DEF FinishFits
  <2>2. GoesOn(p, Advanced(p))
    BY <1>3, <1>5 DEF FinishFits
  <2> QED
    BY <1>1, <1>5, <2>1, <2>2, FinishAdvances, GoesOnKeeps
<1> QED
  BY <1>1, <1>4, <1>5, CallPlaces, RollbackCalls, SwitchCalls, FinishCalls

(* Recording the commit keeps the invariant.                               *)
LEMMA RecordKeeps ==
  ASSUME RestoreInv, WorksAlone, NEW p \in Processes, RecordCommit(p)
  PROVE  RestoreInv' /\ Continues(p)
<1>1. process[p].at = "running" /\ Instruction(p)[1] = "record"
  BY DEF RecordCommit, CallsNext
<1> DEFINE t == process[p].token
           d == [seen EXCEPT !.evidence = t]
<1>2. process[p].program = "restore" /\ process[p].step = 13 /\ FinishFits(0, t, seen)
  BY <1>1, CallPlaces, RollbackCalls, SwitchCalls, FinishCalls
<1>3. /\ t \in Tokens /\ ~Free(p) /\ seen \in Directories /\ DirectoryFits(seen)
      /\ Durably(p, d, Advanced(p))
  BY <1>1, RunsProgram, SeenFits DEF RecordCommit
<1>4. d \in Directories /\ d.journal = seen.journal /\ d.entry = seen.entry
  BY <1>3, RecordedIs
<1> HIDE DEF d
<1>5. DirectoryFits(d)
  BY <1>3, <1>4, SameUnit
<1>6. FinishFits(0 + 1, t, d)
  BY <1>2, <1>4 DEF FinishFits
<1>7. Finishes(process[p], 0)
  BY <1>2 DEF Finishes
<1>8. StateFits(Advanced(p)) /\ Advanced(p).at = "running" /\ RunFits(Advanced(p), d)
  BY <1>1, <1>6, <1>7, FinishAdvances
<1> QED
  BY <1>3, <1>4, <1>5, <1>8, DurablyKeeps

(* finishForward finds both live halves in place.                          *)
LEMMA CompleteKeeps ==
  ASSUME RestoreInv, NEW p \in Processes, Complete(p)
  PROVE  RestoreInv' /\ Continues(p)
<1>1. process[p].at = "running" /\ Instruction(p)[1] = "complete"
  BY DEF Complete, CallsNext
<1> DEFINE t == process[p].token
<1>2. PICK k \in {1, 2} : /\ Finishes(process[p], k) /\ FinishFits(k, t, seen)
                          /\ Instruction(p)[2] = IF k = 1 THEN "database" ELSE "artifacts"
  BY <1>1, CallPlaces, RollbackCalls, SwitchCalls, FinishCalls, LateCalls
<1>3. begun[t].from # None
  BY <1>1, RunsProgram
<1>4. Exists(seen, Instruction(p)[2], Live)
  BY <1>2, <1>3 DEF FinishFits, Exists, Halves
<1>5. GoesOn(p, Advanced(p))
  BY <1>4 DEF Complete
<1>6. FinishFits(k + 1, t, seen)
  BY <1>2 DEF FinishFits
<1> QED
  BY <1>1, <1>2, <1>5, <1>6, FinishAdvances, GoesOnKeeps

(* Removing an old path after the commit, or a staged one, keeps the       *)
(* invariant.                                                              *)
LEMMA RemoveKeeps ==
  ASSUME RestoreInv, WorksAlone, NEW p \in Processes, Remove(p)
  PROVE  RestoreInv' /\ Continues(p)
<1>1. process[p].at = "running" /\ Instruction(p)[1] = "remove"
  BY DEF Remove, CallsNext
<1> DEFINE t == process[p].token
           h == Instruction(p)[2]
           n == <<Instruction(p)[3], t>>
           d == IF Exists(seen, h, n) THEN Put(seen, h, n, None) ELSE seen
           s == Advanced(p)
<1>2. /\ t \in Tokens /\ ~Free(p) /\ seen \in Directories /\ DirectoryFits(seen)
  BY <1>1, RunsProgram, SeenFits
<1>3. /\ \A u \in Tokens : /\ Old(u) \in Names /\ Staged(u) \in Names /\ Live # Old(u)
                         /\ Live # Staged(u) /\ (u # t => Old(u) # Old(t))
                         /\ Old(u) # Staged(t) /\ Staged(u) # Old(t)
      /\ Live \in Names
  BY <1>2, NamesDiffer
<1>4. h \in Halves /\ (n = Old(t) \/ n = Staged(t))
  BY <1>1, CallPlaces, RollbackCalls, SwitchCalls, FinishCalls DEF Halves, Old, Staged
<1>5. /\ d \in Directories /\ d.journal = seen.journal /\ d.entry[h][n] = None
      /\ \A i \in Halves, m \in Names : i # h \/ m # n => d.entry[i][m] = seen.entry[i][m]
  <2>1. n \in Names
    BY <1>2, <1>3, <1>4
  <2>2. CASE Exists(seen, h, n)
    BY <1>2, <1>4, <2>1, <2>2, PutIs
  <2>3. CASE ~Exists(seen, h, n)
    BY <1>2, <2>3 DEF Exists
  <2> QED
    BY <2>2, <2>3
<1>6. IF Exists(seen, h, n) THEN Durably(p, d, s) ELSE GoesOn(p, s) /\ d = seen
  BY DEF Remove, Removes
<1> HIDE DEF d, s
<1>7. ASSUME DirectoryFits(d), StateFits(s), s.at = "running", RunFits(s, d)
      PROVE  RestoreInv' /\ Continues(p)
  <2>1. CASE Exists(seen, h, n)
    BY <1>2, <1>5, <1>6, <1>7, <2>1, DurablyKeeps
  <2>2. CASE ~Exists(seen, h, n)
    BY <1>6, <1>7, <2>2, GoesOnKeeps
  <2> QED
    BY <2>1, <2>2
<1>8. /\ \A i \in Halves : d.entry[i][Live] = seen.entry[i][Live]
      /\ \A i \in Halves, u \in Tokens : u # t => d.entry[i][Old(u)] = seen.entry[i][Old(u)]
  BY <1>2, <1>3, <1>4, <1>5
<1>9. CASE process[p].program = "rollback" /\ process[p].step \in {7, 8}
           /\ RollbackFits(process[p], seen) /\ n = Staged(t)
           /\ h = IF process[p].step = 7 THEN "database" ELSE "artifacts"
  <2>1. \A i \in Halves, u \in Tokens : d.entry[i][Old(u)] = seen.entry[i][Old(u)]
    BY <1>2, <1>3, <1>5, <1>9
  <2>2. DirectoryFits(d)
    BY <1>2, <1>5, <1>8, <2>1, SameUnit
  <2>3. /\ StateFits(s) /\ s.step = process[p].step + 1 /\ s.at = "running"
        /\ s.program = "rollback" /\ s.token = t /\ s.had = process[p].had
        /\ s.found = process[p].found
    BY <1>1, <1>9, Advances DEF s
  <2>4. s.step = 9 => d.entry["database"][Staged(t)] = None
    BY <1>2, <1>3, <1>5, <1>9, <2>3 DEF RollbackFits, Halves
  <2>5. RollbackFits(s, d)
    BY <1>2, <1>5, <1>8, <1>9, <2>1, <2>3, <2>4 DEF RollbackFits, HalfRollsBack, Halves
  <2>6. RunFits(s, d)
    BY <2>3, <2>5 DEF RunFits
  <2> QED
    BY <1>7, <2>2, <2>3, <2>6
<1>10. ASSUME NEW k \in 4 .. 7, Finishes(process[p], k), FinishFits(k, t, seen),
              n = IF k \in {4, 5} THEN Old(t) ELSE Staged(t),
              h = IF k \in {4, 6} THEN "database" ELSE "artifacts"
       PROVE  RestoreInv' /\ Continues(p)
  <2>1. DirectoryFits(d)
    BY <1>2, <1>5, <1>8, <1>10 DEF DirectoryFits, Recoverable, NewUnitInPlace, FinishFits
  <2>2. FinishFits(k + 1, t, d)
    <3>1. \A i \in Halves : d.entry[i][Live] = begun[t].from
      BY <1>8, <1>10 DEF FinishFits
    <3>2. /\ k >= 5 => d.entry["database"][Old(t)] = None
          /\ k >= 6 => d.entry["artifacts"][Old(t)] = None
          /\ k >= 7 => d.entry["database"][Staged(t)] = None
      BY <1>2, <1>3, <1>5, <1>10 DEF FinishFits, Halves
    <3> QED
      BY <1>5, <1>10, <3>1, <3>2 DEF FinishFits
  <2>3. StateFits(s) /\ s.at = "running" /\ RunFits(s, d)
    BY <1>1, <1>10, <2>2, FinishAdvances DEF s
  <2> QED
    BY <1>7, <2>1, <2>3
<1> QED
  BY <1>1, <1>9, <1>10, CallPlaces, RollbackCalls, SwitchCalls, FinishCalls, LateCalls DEF Old, Staged

(* What the three calls of rollback on a half rely on.                     *)
LEMMA RollbackRelies ==
  ASSUME RestoreInv, NEW p \in Processes, process[p].at = "running",
         Instruction(p)[1] \in {"look", "clear", "return"}
  PROVE  /\ process[p].program = "rollback" /\ process[p].step \in 1 .. 6
         /\ Instruction(p)[1] = "look" <=> process[p].step \in {1, 4}
         /\ Instruction(p)[1] = "clear" <=> process[p].step \in {2, 5}
         /\ Instruction(p)[1] = "return" <=> process[p].step \in {3, 6}
         /\ Instruction(p)[2] = IF process[p].step <= 3 THEN "database" ELSE "artifacts"
         /\ RollbackFits(process[p], seen)
         /\ seen.journal.token \in Tokens /\ seen.journal.token = process[p].token
         /\ seen.journal.had = process[p].had
         /\ process[p].had <=> begun[process[p].token].over # None
         /\ OldUnitInPlace(seen) /\ DirectoryFits(seen) /\ seen \in Directories
         /\ process[p].had \in BOOLEAN /\ process[p].found \in BOOLEAN /\ ~Free(p)
<1>1. /\ process[p].program = "rollback" /\ process[p].step \in 1 .. 6
      /\ Instruction(p)[1] = "look" <=> process[p].step \in {1, 4}
      /\ Instruction(p)[1] = "clear" <=> process[p].step \in {2, 5}
      /\ Instruction(p)[1] = "return" <=> process[p].step \in {3, 6}
      /\ Instruction(p)[2] = IF process[p].step <= 3 THEN "database" ELSE "artifacts"
      /\ RollbackFits(process[p], seen)
  BY CallPlaces, RollbackCalls, SwitchCalls, FinishCalls
<1>2. /\ process[p].token \in Tokens /\ ~Free(p) /\ process[p] \in ProcessStates
      /\ DirectoryFits(seen) /\ seen \in Directories
  BY RunsProgram, SeenFits
<1>3. process[p].had \in BOOLEAN /\ process[p].found \in BOOLEAN
  BY <1>2 DEF ProcessStates
<1>4. /\ seen.journal # NoJournal /\ seen.journal.phase # "committed"
      /\ seen.journal.token = process[p].token /\ seen.journal.had = process[p].had
  BY <1>1 DEF RollbackFits
<1>5. (process[p].had <=> begun[process[p].token].over # None) /\ OldUnitInPlace(seen)
  BY <1>2, <1>4 DEF DirectoryFits, Recoverable
<1> QED
  BY <1>1, <1>2, <1>3, <1>4, <1>5

(* A call of rollback on one half is no concern of the other.              *)
LEMMA HalfAdvances ==
  ASSUME NEW doing, NEW s, NEW dir, NEW d, NEW h \in Halves,
         RollbackFits(doing, dir), doing.step \in 1 .. 6,
         h = IF doing.step <= 3 THEN "database" ELSE "artifacts",
         s.step = doing.step + 1, s.at = "running", s.program = "rollback",
         s.token = doing.token, s.had = doing.had, d.journal = dir.journal,
         \A i \in Halves : i # h => /\ d.entry[i][Live] = dir.entry[i][Live]
                                 /\ d.entry[i][Old(s.token)] = dir.entry[i][Old(s.token)],
         HalfRollsBack(s, h, IF s.step <= 4 THEN s.step ELSE s.step - 3, d)
  PROVE  RunFits(s, d)
<1>1. CASE doing.step <= 3
  <2>1. HalfRollsBack(s, "database", s.step, d)
    BY <1>1
  <2>2. HalfRollsBack(s, "artifacts", s.step - 3, d)
    BY <1>1 DEF HalfRollsBack
  <2> QED
    BY <1>1, <2>1, <2>2 DEF RunFits, RollbackFits
<1>2. CASE doing.step >= 4
  <2>1. HalfRollsBack(s, "artifacts", s.step - 3, d)
    BY <1>2
  <2>2. HalfRollsBack(s, "database", s.step, d)
    BY <1>2 DEF RollbackFits, HalfRollsBack, Halves
  <2> QED
    BY <1>2, <2>1, <2>2 DEF RunFits, RollbackFits
<1> QED
  BY <1>1, <1>2

(* Looking for the old path keeps the invariant.                           *)
LEMMA LookKeeps ==
  ASSUME RestoreInv, NEW p \in Processes, Look(p)
  PROVE  RestoreInv' /\ Continues(p)
<1>1. process[p].at = "running" /\ Instruction(p)[1] = "look"
  BY DEF Look, CallsNext
<1> DEFINE t == process[p].token
           k == process[p].step
           h == Instruction(p)[2]
           b == Exists(seen, h, Old(t))
           r == Advanced(p)
           s == [r EXCEPT !.found = b]
<1>2. /\ k \in {1, 4} /\ k \in 1 .. 6 /\ h = IF k <= 3 THEN "database" ELSE "artifacts"
      /\ RollbackFits(process[p], seen) /\ h \in Halves /\ process[p].program = "rollback"
  BY <1>1, RollbackRelies DEF Halves
<1>3. GoesOn(p, s)
  BY DEF Look
<1>4. /\ StateFits(r) /\ r.step = k + 1 /\ r.at = "running" /\ r.program = "rollback"
      /\ r.token = t /\ r.had = process[p].had
  BY <1>1, <1>2, Advances
<1>5. b \in BOOLEAN /\ (b <=> seen.entry[h][Old(t)] # None)
  BY DEF Exists
<1> HIDE DEF b, r
<1>6. /\ StateFits(s) /\ s.step = k + 1 /\ s.at = "running" /\ s.program = "rollback"
      /\ s.token = t /\ s.had = process[p].had /\ s.found = b
  <2>1. /\ s \in ProcessStates /\ s.step = r.step /\ s.at = r.at /\ s.program = r.program
        /\ s.token = r.token /\ s.had = r.had /\ s.found = b
    BY <1>4, <1>5 DEF StateFits, ProcessStates
  <2> QED
    BY <1>4, <2>1 DEF StateFits
<1> HIDE DEF s
<1>7. HalfRollsBack(s, h, 2, seen)
  BY <1>5, <1>6 DEF HalfRollsBack
<1>8. (IF s.step <= 4 THEN s.step ELSE s.step - 3) = 2
  BY <1>2, <1>6
<1>9. RunFits(s, seen)
  BY <1>2, <1>6, <1>7, <1>8, HalfAdvances
<1> QED
  BY <1>3, <1>6, <1>9, GoesOnKeeps

(* Clearing the live path keeps the invariant: the old half is at its old  *)
(* path, or there was none.                                                *)
LEMMA ClearKeeps ==
  ASSUME RestoreInv, WorksAlone, NEW p \in Processes, Clear(p)
  PROVE  RestoreInv' /\ Continues(p)
<1>1. process[p].at = "running" /\ Instruction(p)[1] = "clear"
  BY DEF Clear, CallsNext
<1> DEFINE t == process[p].token
           k == process[p].step
           h == Instruction(p)[2]
           c == Clears(process[p]) /\ Exists(seen, h, Live)
           d == IF c THEN Put(seen, h, Live, None) ELSE seen
           s == Advanced(p)
<1>2. /\ k \in {2, 5} /\ k \in 1 .. 6 /\ h = IF k <= 3 THEN "database" ELSE "artifacts"
      /\ RollbackFits(process[p], seen) /\ h \in Halves /\ process[p].program = "rollback"
  BY <1>1, RollbackRelies DEF Halves
<1>3. /\ seen.journal.token = t /\ t \in Tokens /\ seen.journal.had = process[p].had
      /\ process[p].had <=> begun[t].over # None
      /\ OldUnitInPlace(seen) /\ DirectoryFits(seen) /\ seen \in Directories /\ ~Free(p)
  BY <1>1, RollbackRelies
<1>4. /\ StateFits(s) /\ s.step = k + 1 /\ s.at = "running" /\ s.program = "rollback"
      /\ s.token = t /\ s.had = process[p].had /\ s.found = process[p].found
  BY <1>1, <1>2, Advances
<1>5. process[p].found <=> seen.entry[h][Old(t)] # None
  BY <1>2 DEF RollbackFits, HalfRollsBack
<1>6. /\ c => Durably(p, d, s)
      /\ ~c => GoesOn(p, s) /\ d = seen
  BY DEF Clear, Removes
<1>7. /\ d \in Directories /\ d.journal = seen.journal
      /\ Clears(process[p]) => d.entry[h][Live] = None
      /\ ~Clears(process[p]) => d = seen
      /\ \A i \in Halves, m \in Names : i # h \/ m # Live => d.entry[i][m] = seen.entry[i][m]
  <2>1. Live \in Names
    BY DEF Names
  <2>2. CASE c
    BY <1>2, <1>3, <2>1, <2>2, PutIs
  <2>3. CASE ~c
    BY <1>3, <2>3 DEF Exists
  <2> QED
    BY <2>2, <2>3
<1> HIDE DEF d, s, c
<1>8. /\ \A i \in Halves, u \in Tokens : d.entry[i][Old(u)] = seen.entry[i][Old(u)]
      /\ \A i \in Halves : i # h => d.entry[i][Live] = seen.entry[i][Live]
  <2>1. Live \in Names /\ \A u \in Tokens : Old(u) \in Names /\ Old(u) # Live
    BY <1>3, NamesDiffer
  <2> QED
    BY <1>2, <1>7, <2>1
<1>9. DirectoryFits(d)
  <2>1. CASE ~Clears(process[p])
    BY <1>3, <1>7, <2>1
  <2>2. CASE Clears(process[p])
    <3>1. OldUnitInPlace(d)
      <4> SUFFICES ASSUME NEW i \in Halves
                   PROVE  LET old == d.entry[i][Old(t)]
                          IN  IF process[p].had
                              THEN begun[t].over = IF old # None THEN old ELSE d.entry[i][Live]
                              ELSE old = None
        BY <1>3, <1>7 DEF OldUnitInPlace
      <4>1. LET old == seen.entry[i][Old(t)]
            IN  IF process[p].had
                THEN begun[t].over = IF old # None THEN old ELSE seen.entry[i][Live]
                ELSE old = None
        BY <1>3 DEF OldUnitInPlace
      <4>2. CASE i = h
        BY <1>3, <1>5, <1>8, <2>2, <4>1, <4>2 DEF Clears
      <4>3. CASE i # h
        BY <1>3, <1>8, <4>1, <4>3
      <4> QED
        BY <4>2, <4>3
    <3>2. d.journal # NoJournal /\ d.journal.phase # "committed"
      BY <1>2, <1>7 DEF RollbackFits
    <3> QED
      BY <1>3, <1>7, <1>8, <3>1, <3>2 DEF DirectoryFits, Recoverable
  <2> QED
    BY <2>1, <2>2
<1>10. HalfRollsBack(s, h, 3, d)
  <2>1. Clears(s) <=> Clears(process[p])
    BY <1>4 DEF Clears
  <2> QED
    BY <1>2, <1>3, <1>4, <1>5, <1>7, <1>8, <2>1 DEF HalfRollsBack
<1>11. (IF s.step <= 4 THEN s.step ELSE s.step - 3) = 3
  BY <1>2, <1>4
<1>12. RunFits(s, d)
  BY <1>2, <1>3, <1>4, <1>7, <1>8, <1>10, <1>11, HalfAdvances
<1>13. CASE c
  BY <1>3, <1>4, <1>6, <1>7, <1>9, <1>12, <1>13, DurablyKeeps
<1>14. CASE ~c
  BY <1>4, <1>6, <1>12, <1>14, GoesOnKeeps
<1> QED
  BY <1>13, <1>14

(* Returning the old half keeps the invariant, and the rename is possible. *)
LEMMA ReturnKeeps ==
  ASSUME RestoreInv, WorksAlone, NEW p \in Processes, Return(p)
  PROVE  RestoreInv' /\ Continues(p)
<1>1. process[p].at = "running" /\ Instruction(p)[1] = "return"
  BY DEF Return, CallsNext
<1> DEFINE t == process[p].token
           k == process[p].step
           h == Instruction(p)[2]
           d == Moved(seen, h, Old(t), Live)
           s == Advanced(p)
<1>2. /\ k \in {3, 6} /\ k \in 1 .. 6 /\ h = IF k <= 3 THEN "database" ELSE "artifacts"
      /\ RollbackFits(process[p], seen) /\ h \in Halves /\ process[p].program = "rollback"
  BY <1>1, RollbackRelies DEF Halves
<1>3. /\ seen.journal.token = t /\ t \in Tokens /\ seen.journal.had = process[p].had
      /\ process[p].had <=> begun[t].over # None
      /\ OldUnitInPlace(seen) /\ DirectoryFits(seen) /\ seen \in Directories /\ ~Free(p)
  BY <1>1, RollbackRelies
<1>4. /\ StateFits(s) /\ s.step = k + 1 /\ s.at = "running" /\ s.program = "rollback"
      /\ s.token = t /\ s.had = process[p].had /\ s.found = process[p].found
  BY <1>1, <1>2, Advances
<1>5. /\ process[p].found <=> seen.entry[h][Old(t)] # None
      /\ Clears(process[p]) => seen.entry[h][Live] = None
  BY <1>2 DEF RollbackFits, HalfRollsBack
<1>6. (IF s.step <= 4 THEN s.step ELSE s.step - 3) = 4
  BY <1>2, <1>4
<1>7. IF process[p].had
      THEN begun[t].over = IF seen.entry[h][Old(t)] # None THEN seen.entry[h][Old(t)]
                           ELSE seen.entry[h][Live]
      ELSE seen.entry[h][Old(t)] = None
  BY <1>2, <1>3 DEF OldUnitInPlace
<1>8. CASE ~process[p].found
  <2>1. GoesOn(p, s)
    BY <1>8 DEF Return
  <2> HIDE DEF s
  <2>2. seen.entry[h][Old(t)] = None /\ seen.entry[h][Live] = begun[t].over
    BY <1>3, <1>5, <1>7, <1>8 DEF Clears
  <2>3. HalfRollsBack(s, h, 4, seen)
    BY <1>4, <2>2 DEF HalfRollsBack
  <2>4. RunFits(s, seen)
    BY <1>2, <1>3, <1>4, <1>6, <2>3, HalfAdvances
  <2> QED
    BY <1>4, <2>1, <2>4, GoesOnKeeps
<1>9. CASE process[p].found
  <2>1. /\ seen.entry[h][Live] = None /\ seen.entry[h][Old(t)] # None
        /\ seen.entry[h][Old(t)] = begun[t].over
    BY <1>5, <1>7, <1>9 DEF Clears
  <2>2. Durably(p, d, s)
    BY <1>9, <2>1 DEF Return, Renames, CanMove, Exists
  <2>3. \A u \in Tokens : Old(u) \in Names /\ Old(u) # Live /\ Live \in Names
                        /\ (u # t => Old(u) # Old(t))
    BY <1>3, NamesDiffer
  <2>4. /\ d \in Directories /\ d.journal = seen.journal
        /\ d.entry[h][Live] = begun[t].over /\ d.entry[h][Old(t)] = None
        /\ \A i \in Halves, m \in Names :
             i # h \/ m \notin {Old(t), Live} => d.entry[i][m] = seen.entry[i][m]
    BY SMTT(30), <1>2, <1>3, <2>1, <2>3, MovedIs
  <2> HIDE DEF s, d
  <2>5. /\ \A i \in Halves, u \in Tokens : u # t => d.entry[i][Old(u)] = seen.entry[i][Old(u)]
        /\ \A i \in Halves : i # h => /\ d.entry[i][Live] = seen.entry[i][Live]
                                    /\ d.entry[i][Old(t)] = seen.entry[i][Old(t)]
    BY <1>3, <2>3, <2>4
  <2>6. OldUnitInPlace(d)
    <3> SUFFICES ASSUME NEW i \in Halves
                 PROVE  LET old == d.entry[i][Old(t)]
                        IN  IF process[p].had
                            THEN begun[t].over = IF old # None THEN old ELSE d.entry[i][Live]
                            ELSE old = None
      BY <1>3, <2>4 DEF OldUnitInPlace
    <3>1. CASE i = h
      BY <2>4, <3>1
    <3>2. CASE i # h
      BY <1>3, <2>5, <3>2 DEF OldUnitInPlace
    <3> QED
      BY <3>1, <3>2
  <2>7. DirectoryFits(d)
    <3>1. d.journal # NoJournal /\ d.journal.phase # "committed"
      BY <1>2, <2>4 DEF RollbackFits
    <3> QED
      BY <1>3, <2>4, <2>5, <2>6, <3>1 DEF DirectoryFits, Recoverable
  <2>8. HalfRollsBack(s, h, 4, d)
    BY <1>4, <2>4 DEF HalfRollsBack
  <2>9. RunFits(s, d)
    BY <1>2, <1>3, <1>4, <1>6, <2>4, <2>5, <2>8, HalfAdvances
  <2> QED
    BY <1>3, <1>4, <2>2, <2>4, <2>7, <2>9, DurablyKeeps
<1> QED
  BY <1>8, <1>9

(* Removing the journal keeps the invariant: the unit that it says is live *)
(* in both halves, and no sibling of it is left.                           *)
LEMMA ForgetKeeps ==
  ASSUME RestoreInv, WorksAlone, NEW p \in Processes, Forget(p)
  PROVE  /\ RestoreInv' /\ seen.journal # NoJournal /\ seen'.journal = NoJournal
         /\ LET j == seen.journal
            IN  \A h \in Halves :
                  /\ seen'.entry[h][Live] = IF j.phase = "committed" THEN begun[j.token].from
                                            ELSE begun[j.token].over
                  /\ ~Exists(seen', h, Old(j.token)) /\ ~Exists(seen', h, Staged(j.token))
<1>1. process[p].at = "running" /\ Instruction(p)[1] = "forget"
  BY DEF Forget, CallsNext
<1> DEFINE t == process[p].token
           j == seen.journal
           d == [seen EXCEPT !.journal = NoJournal]
           after == IF process[p].program = "restore" THEN Idle ELSE AfterRecovery(process[p])
<1>2. /\ t \in Tokens /\ ~Free(p) /\ process[p] \in ProcessStates
      /\ seen \in Directories /\ DirectoryFits(seen)
  BY <1>1, RunsProgram, SeenFits
<1>3. \/ FinishFits(8, t, seen)
      \/ RollbackFits(process[p], seen) /\ process[p].step = 9
  BY <1>1, CallPlaces, RollbackCalls, SwitchCalls, FinishCalls
<1>4. /\ j # NoJournal /\ j.token = t
      /\ \A h \in Halves :
           /\ seen.entry[h][Live] = IF j.phase = "committed" THEN begun[t].from ELSE begun[t].over
           /\ seen.entry[h][Old(t)] = None /\ seen.entry[h][Staged(t)] = None
  <2>1. CASE FinishFits(8, t, seen)
    BY <2>1 DEF FinishFits, Halves
  <2>2. CASE RollbackFits(process[p], seen) /\ process[p].step = 9
    BY <2>2 DEF RollbackFits, HalfRollsBack, Halves
  <2> QED
    BY <1>3, <2>1, <2>2
<1>5. Durably(p, d, after)
  BY <1>4 DEF Forget
<1>6. d \in Directories /\ d.journal = NoJournal /\ d.entry = seen.entry
  <2>1. NoJournal \in Journals
    BY DEF Journals
  <2> QED
    BY <1>2, <2>1, WrittenIs
<1>7. seen' = d
  BY <1>5 DEF Durably, Unsynced
<1> HIDE DEF d
<1>8. DirectoryFits(d)
  <2>1. Whole(d)
    BY <1>4, <1>6 DEF Whole, Halves
  <2>2. \A h \in Halves, u \in Tokens : d.entry[h][Old(u)] = None
    BY <1>2, <1>4, <1>6 DEF DirectoryFits
  <2> QED
    BY <1>6, <2>1, <2>2 DEF DirectoryFits, Recoverable
<1>9. StateFits(after) /\ RunFits(after, d)
  BY <1>2, <1>6, IdleFits, AfterRecoveryFits
<1> HIDE DEF after
<1>10. RestoreInv'
  BY <1>2, <1>5, <1>6, <1>8, <1>9, DurablyKeeps
<1> QED
  BY <1>4, <1>6, <1>7, <1>10 DEF Exists

(* The death of a process keeps the invariant.                             *)
LEMMA DeathKeeps ==
  ASSUME RestoreInv, NEW p \in Processes, Die(p)
  PROVE  RestoreInv' /\ restoreCrashes' > restoreCrashes
<1>1. /\ Turns(p, Idle) /\ restoreCrashes' = restoreCrashes + 1 /\ restoreCrashes < MaxRestoreCrashes
      /\ UNCHANGED <<seen, outcomes, retained, begun>>
  BY DEF Die
<1>2. restoreCrashes' \in 0 .. MaxRestoreCrashes /\ restoreCrashes' > restoreCrashes
  <2>1. restoreCrashes \in 0 .. MaxRestoreCrashes
    BY DEF RestoreInv, RestoreTypeOK
  <2> QED
    BY <1>1, <2>1, CrashAssumption
<1>3. /\ \A q \in Processes : process'[q] = IF q = p THEN Idle ELSE process[q]
      /\ process' \in [Processes -> ProcessStates]
  BY <1>1, IdleFits DEF Turns, RestoreInv, RestoreTypeOK, StateFits
<1>4. \A q \in Processes : StateFits(process'[q]) /\ RunFits(process'[q], seen)
  BY SMTT(30), <1>3, IdleFits, SeenFits
<1>5. RestoreTypeOK'
  BY <1>1, <1>2, <1>3, <1>4 DEF RestoreInv, RestoreTypeOK, StateFits, Unused
<1>6. (\A dir \in outcomes : DirectoryFits(dir))'
  BY <1>1, SameRecords DEF RestoreInv
<1>7. (\A q \in Processes : RunFits(process[q], seen))'
  BY <1>1, <1>4, SameRecords
<1> QED
  BY <1>2, <1>5, <1>6, <1>7 DEF RestoreInv

(* A power failure keeps the invariant: every directory it may leave fits. *)
LEMMA PowerFailureKeeps ==
  ASSUME RestoreInv, PowerFailure
  PROVE  RestoreInv' /\ restoreCrashes' > restoreCrashes
<1>1. /\ process' = [q \in Processes |-> Idle] /\ restoreCrashes' = restoreCrashes + 1 /\ restoreCrashes < MaxRestoreCrashes
      /\ UNCHANGED <<retained, begun>>
  BY DEF PowerFailure
<1>2. PICK dir \in outcomes : seen' = dir /\ outcomes' = {dir}
  BY DEF PowerFailure
<1>3. restoreCrashes' \in 0 .. MaxRestoreCrashes /\ restoreCrashes' > restoreCrashes
  <2>1. restoreCrashes \in 0 .. MaxRestoreCrashes
    BY DEF RestoreInv, RestoreTypeOK
  <2> QED
    BY <1>1, <2>1, CrashAssumption
<1>4. /\ process' \in [Processes -> ProcessStates]
      /\ \A q \in Processes : StateFits(process'[q]) /\ RunFits(process'[q], dir)
  BY <1>1, IdleFits DEF StateFits
<1>5. RestoreTypeOK'
  BY <1>1, <1>2, <1>3, <1>4 DEF RestoreInv, RestoreTypeOK, StateFits, Unused
<1>6. (\A d \in outcomes : DirectoryFits(d))'
  BY <1>1, <1>2, SameRecords DEF RestoreInv
<1>7. (\A q \in Processes : RunFits(process[q], seen))'
  BY <1>1, <1>2, <1>4, SameRecords
<1> QED
  BY <1>3, <1>5, <1>6, <1>7 DEF RestoreInv

(* The invariant holds at first.                                           *)
LEMMA RestoreInvInit == RestoreInit => RestoreInv
<1> SUFFICES ASSUME RestoreInit PROVE RestoreInv
  OBVIOUS
<1>1. PICK g \in {Original, None} :
        seen = [entry |-> [h \in Halves |-> [n \in Names |-> IF n = Live THEN g ELSE None]],
                journal |-> NoJournal, evidence |-> NoToken]
  BY DEF RestoreInit
<1>2. /\ outcomes = {seen} /\ retained = {} /\ restoreCrashes = 0
      /\ begun = [t \in Tokens |-> [from |-> None, over |-> None]]
      /\ process = [p \in Processes |-> Idle]
  BY DEF RestoreInit
<1>3. seen \in Directories
  BY <1>1 DEF Directories, Generations, Journals
<1>4. /\ seen.journal = NoJournal
      /\ \A h \in Halves : seen.entry[h][Live] = g
      /\ \A h \in Halves, u \in Tokens : seen.entry[h][Old(u)] = None
  BY <1>1, NamesDiffer DEF Names
<1>5. DirectoryFits(seen)
  BY <1>4 DEF DirectoryFits, Recoverable, Whole, Halves
<1>6. /\ process \in [Processes -> ProcessStates]
      /\ \A q \in Processes : StateFits(process[q]) /\ RunFits(process[q], seen)
  BY <1>2, IdleFits DEF StateFits
<1>7. RestoreTypeOK
  BY <1>2, <1>3, <1>6, CrashAssumption DEF RestoreTypeOK, StateFits, Unused
<1> QED
  BY <1>2, <1>5, <1>6, <1>7 DEF RestoreInv

(* Every step of one process at work keeps the invariant.                  *)
LEMMA RestoreInvStep ==
  ASSUME RestoreInv, WorksAlone, [RestoreNext]_restoreVars
  PROVE  RestoreInv'
<1>1. CASE UNCHANGED restoreVars
  <2>1. UNCHANGED begun
    BY SMTT(30), <1>1 DEF restoreVars
  <2>2. RestoreTypeOK'
    BY <1>1 DEF restoreVars, RestoreInv, RestoreTypeOK, Unused
  <2> QED
    BY <1>1, <2>1, <2>2, SameRecords DEF restoreVars, RestoreInv
<1>2. ASSUME NEW p \in Processes, RestoreStep(p)
      PROVE  RestoreInv'
  BY <1>2, OpenKeeps, PrepareKeeps, RecoverKeeps, ServeKeeps, InspectKeeps, StageKeeps,
     WriteJournalKeeps, WriteFailsKeeps, DisplaceKeeps, ActivateKeeps, VerifyKeeps, RecordKeeps,
     CompleteKeeps, RemoveKeeps, LookKeeps, ClearKeeps, ReturnKeeps, ForgetKeeps DEF RestoreStep
<1> QED
  BY <1>1, <1>2, DeathKeeps, PowerFailureKeeps DEF RestoreNext

(* The inductive invariant of restores and their recovery, while one       *)
(* process at a time opens or restores the authority.                      *)
THEOREM RestoreIsSound == RestoreSpec /\ []WorksAlone => []RestoreInv
<1>1. RestoreInv /\ WorksAlone /\ [RestoreNext]_restoreVars => RestoreInv'
  BY RestoreInvStep
<1> QED
  BY <1>1, RestoreInvInit, PTL DEF RestoreSpec

(* While one process at a time opens or restores the authority, whatever   *)
(* it sees and whatever a power failure leaves can be carried to a whole   *)
(* unit, by what the journal says (restore/index.ts:275-312).              *)
THEOREM UnitStaysRecoverable == RestoreSpec /\ []WorksAlone => []UnitIsRecoverable
<1>1. RestoreInv => UnitIsRecoverable
  <2> SUFFICES ASSUME RestoreInv, NEW dir \in outcomes
               PROVE  CASE dir.journal = NoJournal -> Whole(dir)
                        [] dir.journal.phase = "committed" -> NewUnitInPlace(dir)
                        [] OTHER -> OldUnitInPlace(dir)
    BY DEF UnitIsRecoverable
  <2>1. Recoverable(dir)
    BY DEF RestoreInv, DirectoryFits
  <2>2. NoJournal.phase # "committed"
    BY DEF NoJournal
  <2> QED
    BY <2>1, <2>2 DEF Recoverable
<1> QED
  BY <1>1, RestoreIsSound, PTL

(* While one process at a time opens or restores the authority, the unit   *)
(* that the journal says is live in both halves when the journal           *)
(* disappears, and no sibling of it is left behind                         *)
(* (restore/index.ts:275-312, 365-397).                                    *)
THEOREM SwitchesAreAtomic == RestoreSpec /\ []WorksAlone => SwitchIsAtomic
<1> DEFINE A == LET j == seen.journal
                IN  (\E p \in Processes : Forget(p)) /\ j # NoJournal
                      => \A h \in Halves :
                           /\ seen'.entry[h][Live] = IF j.phase = "committed" THEN begun[j.token].from
                                                     ELSE begun[j.token].over
                           /\ ~Exists(seen', h, Old(j.token)) /\ ~Exists(seen', h, Staged(j.token))
<1>1. RestoreInv /\ WorksAlone /\ [RestoreNext]_restoreVars => [A]_restoreVars
  BY ForgetKeeps
<1>2. RestoreSpec /\ []WorksAlone => [][A]_restoreVars
  BY <1>1, RestoreIsSound, PTL DEF RestoreSpec
<1> QED
  BY <1>2 DEF SwitchIsAtomic

(* A process that takes a step other than its first is at work.            *)
LEMMA ActingIsBusy ==
  ASSUME NEW p \in Processes, RestoreStep(p), ~Open(p), ~Restore(p)
  PROVE  ~Free(p)
BY DEF RestoreStep, Prepare, RecoverUnit, Serve, Inspect, Refuse, Stage, WriteJournal, WriteFails,
       Displace, Activate, VerifyPair, RecordCommit, Complete, Remove, Look, Clear, Return, Forget,
       CallsNext, Free

(* A process that recovers, or restores with its journal written, goes on  *)
(* or removes the journal.                                                 *)
LEMMA StepGoesOn ==
  ASSUME RestoreInv, WorksAlone, NEW p \in Processes, RestoreStep(p), process[p].at = "running",
         process[p].program \in {"rollback", "finish"} \/ seen.journal # NoJournal
  PROVE  Continues(p) \/ seen'.journal = NoJournal
<1>1. ~(Open(p) \/ Prepare(p) \/ RecoverUnit(p) \/ Serve(p) \/ Restore(p) \/ Inspect(p) \/ Refuse(p))
  BY DEF Open, Prepare, RecoverUnit, Serve, Restore, Inspect, Refuse, Free
<1>2. ~Stage(p) /\ ~WriteFails(p)
  BY StageKeeps, WriteFailsKeeps
<1> QED
  BY <1>1, <1>2, WriteJournalKeeps, DisplaceKeeps, ActivateKeeps, VerifyKeeps, RecordKeeps,
     CompleteKeeps, RemoveKeeps, LookKeeps, ClearKeeps, ReturnKeeps, ForgetKeeps DEF RestoreStep

(* While one process at a time opens or restores the authority, no         *)
(* recovery and no restore with its journal written is stopped by a rename *)
(* that is not possible or by a unit that does not verify                  *)
(* (restore/index.ts:275-312, 365-397).                                    *)
THEOREM RecoveriesGoOn == RestoreSpec /\ []WorksAlone => RecoveryNeverGetsStuck
<1> DEFINE A == \A p \in Processes :
                  /\ process[p].at = "running"
                  /\ process[p].program \in {"rollback", "finish"} \/ seen.journal # NoJournal
                  /\ process'[p].at # "running"
                  => restoreCrashes' > restoreCrashes \/ seen'.journal = NoJournal
<1>1. RestoreInv /\ WorksAlone /\ [RestoreNext]_restoreVars => [A]_restoreVars
  <2> SUFFICES ASSUME RestoreInv, WorksAlone, RestoreNext, NEW p \in Processes,
                      process[p].at = "running",
                      process[p].program \in {"rollback", "finish"} \/ seen.journal # NoJournal,
                      process'[p].at # "running"
               PROVE  restoreCrashes' > restoreCrashes \/ seen'.journal = NoJournal
    OBVIOUS
  <2>1. ASSUME NEW q \in Processes, RestoreStep(q)
        PROVE  restoreCrashes' > restoreCrashes \/ seen'.journal = NoJournal
    <3>1. CASE q = p
      BY <2>1, <3>1, StepGoesOn DEF Continues
    <3>2. CASE q # p
      <4>1. Open(q) \/ Restore(q)
        BY <2>1, <3>2, ActingIsBusy DEF WorksAlone, Free
      <4>2. process'[p] = process[p]
        BY <3>2, <4>1 DEF Open, Restore, GoesOn, Turns, RestoreInv, RestoreTypeOK
      <4> QED
        BY <4>2
    <3> QED
      BY <3>1, <3>2
  <2> QED
    BY <2>1, DeathKeeps, PowerFailureKeeps DEF RestoreNext
<1>2. RestoreSpec /\ []WorksAlone => [][A]_restoreVars
  BY <1>1, RestoreIsSound, PTL DEF RestoreSpec
<1> QED
  BY <1>2 DEF RecoveryNeverGetsStuck
=============================================================================
