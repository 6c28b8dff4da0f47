------------------------------ MODULE WorkerProofs ------------------------------
(***************************************************************************)
(* Proofs about the clients' side: the delivery of an attempt              *)
(* (WorkerDelivery), the sessions of a host (HostSessions), the client of  *)
(* a worker (WorkerClient) and the commands of the command line            *)
(* (CliWorkspace).  The four share no state; each has an inductive         *)
(* invariant of its own, a lemma for each of its actions, and a theorem    *)
(* for each property that the run `workers` checks.                        *)
(***************************************************************************)
EXTENDS WorkerDelivery, HostSessions, WorkerClient, CliWorkspace, TLAPS

-----------------------------------------------------------------------------
(* The deliveries of an attempt (WorkerDelivery).                          *)

(* A delivery that has named its lock, until it has removed it.            *)
Holding == Working \cup Releasing

DeliveryFields == {"at", "output", "step", "seen", "decision", "answer"}

DeliveriesAreTyped ==
  /\ DOMAIN delivery = DeliveryHosts
  /\ \A p \in DeliveryHosts : DOMAIN delivery[p] = DeliveryFields

LockIsTyped ==
  /\ lock \in [there : BOOLEAN, owner : LockOwners \cup {Nothing}, old : BOOLEAN]
  /\ life \in [DeliveryHosts -> 0 .. MaxDeaths]

(* The owner of a lock is no incarnation to come, and its lock not an old  *)
(* one without a name.                                                     *)
OwnerFits ==
  lock.owner # Nothing => lock.there /\ ~lock.old /\ lock.owner[2] <= life[lock.owner[1]]

(* A delivery that holds the lock is its owner; one that takes a lock over *)
(* has seen that the owner has died or that nobody has named it in time.   *)
DeliveryFits(p) ==
  /\ delivery[p].at \in Holding => lock.owner = Me(p)
  /\ delivery[p].at = "rereading" =>
       /\ delivery[p].seen \in LockOwners
       /\ delivery[p].seen[2] < life[delivery[p].seen[1]]
  /\ delivery[p].at = "evicting" =>
       /\ lock.there
       /\ lock.owner = Nothing => lock.old
       /\ lock.owner # Nothing => lock.owner[2] < life[lock.owner[1]]

DeliveryInv ==
  DeliveriesAreTyped /\ LockIsTyped /\ OwnerFits /\ \A p \in DeliveryHosts : DeliveryFits(p)

(* Process p comes to a place, and no other process moves.                 *)
DeliveryTurn(p, at) ==
  /\ DOMAIN delivery' = DeliveryHosts
  /\ \A q \in DeliveryHosts : DOMAIN delivery'[q] = DeliveryFields
  /\ delivery'[p].at = at
  /\ \A q \in DeliveryHosts \ {p} : delivery'[q] = delivery[q]

(* The moves of a process.                                                 *)
LEMMA DeliveryMoves ==
  ASSUME DeliveriesAreTyped, NEW p \in DeliveryHosts
  PROVE  /\ \A at : MovesTo(p, at) => DeliveryTurn(p, at) /\ delivery'[p].seen = delivery[p].seen
         /\ Fails(p) => DeliveryTurn(p, "idle")
         /\ \A d : Advance(p, d) => \E at \in {"finishing", "performing"} : DeliveryTurn(p, at)
<1>1. ASSUME NEW at, MovesTo(p, at)
      PROVE  DeliveryTurn(p, at) /\ delivery'[p].seen = delivery[p].seen
  BY <1>1 DEF DeliveriesAreTyped, DeliveryTurn, MovesTo, DeliveryFields
<1>2. ASSUME Fails(p)
      PROVE  DeliveryTurn(p, "idle")
  BY <1>2 DEF DeliveriesAreTyped, DeliveryTurn, Fails, Resting, DeliveryFields
<1>3. ASSUME NEW d, Advance(p, d)
      PROVE  \E at \in {"finishing", "performing"} : DeliveryTurn(p, at)
  BY <1>3 DEF DeliveriesAreTyped, DeliveryTurn, Advance, DeliveryFields
<1> QED
  BY <1>1, <1>2, <1>3

(* Who an incarnation is, and that it is the current one.                  *)
LEMMA MeIsOwner ==
  ASSUME LockIsTyped, NEW p \in DeliveryHosts
  PROVE  /\ Me(p) \in LockOwners /\ Me(p) # Nothing /\ Me(p)[1] = p /\ Me(p)[2] = life[p]
         /\ life[p] \in Int
         /\ \A q \in DeliveryHosts : Me(p) = Me(q) => p = q
BY DeliveryAssumption DEF LockIsTyped, Me, LockOwners

(* A step of a process that leaves lock and lives as they are.             *)
LEMMA LockStaysFit ==
  ASSUME DeliveryInv, NEW p \in DeliveryHosts, NEW at, DeliveryTurn(p, at), UNCHANGED <<lock, life>>,
         DeliveryFits(p)'
  PROVE  DeliveryInv'
<1>1. \A q \in DeliveryHosts \ {p} : DeliveryFits(q)'
  BY DEF DeliveryInv, DeliveryTurn, DeliveryFits, Me
<1> QED
  BY <1>1 DEF DeliveryInv, DeliveriesAreTyped, LockIsTyped, OwnerFits, DeliveryTurn

(* The steps of a delivery that works: it keeps its lock.                  *)
WorkingStep(p) == LoadRecord(p) \/ CreateRecord(p) \/ PerformStep(p) \/ Finish(p)

(* A delivery that has its lock takes a step of its work.                  *)
LEMMA WorkingStepFits ==
  ASSUME DeliveryInv, NEW p \in DeliveryHosts, WorkingStep(p)
  PROVE  DeliveryInv'
<1>1. UNCHANGED <<lock, life>> /\ delivery[p].at \in Working
  BY DEF WorkingStep, LoadRecord, CreateRecord, PerformStep, BeginStep, Call, RecordStep, Finish,
     Working
<1>2. \E at \in Holding : DeliveryTurn(p, at)
  <2>1. CASE LoadRecord(p) \/ CreateRecord(p)
    BY <2>1, DeliveryMoves DEF DeliveryInv, LoadRecord, CreateRecord, Holding, Working, Releasing
  <2>2. CASE BeginStep(p)
    <3>1. CASE MovesTo(p, "releasing") \/ Advance(p, retained.decision)
      BY <3>1, DeliveryMoves DEF DeliveryInv, Holding, Working, Releasing
    <3>2. CASE delivery' = [delivery EXCEPT ![p].at = "calling", ![p].seen = retained.phase]
      <4>1. DeliveryTurn(p, "calling")
        BY <3>2 DEF DeliveryInv, DeliveriesAreTyped, DeliveryTurn, DeliveryFields
      <4> QED
        BY <4>1 DEF Holding, Working
    <3> QED
      BY <2>2, <3>1, <3>2 DEF BeginStep
  <2>3. CASE Call(p)
    <3>1. CASE MovesTo(p, "releasing")
      BY <3>1, DeliveryMoves DEF DeliveryInv, Holding, Working, Releasing
    <3>2. ASSUME NEW d, delivery' = [delivery EXCEPT ![p].at = "recording", ![p].decision = d]
          PROVE  \E at \in Holding : DeliveryTurn(p, at)
      <4>1. DeliveryTurn(p, "recording")
        BY <3>2 DEF DeliveryInv, DeliveriesAreTyped, DeliveryTurn, DeliveryFields
      <4> QED
        BY <4>1 DEF Holding, Working
    <3> QED
      BY <2>3, <3>1, <3>2 DEF Call
  <2>4. CASE RecordStep(p)
    <3>1. MovesTo(p, "releasing") \/ Advance(p, delivery[p].decision)
      BY <2>4 DEF RecordStep
    <3> QED
      BY <3>1, DeliveryMoves DEF DeliveryInv, Holding, Working, Releasing
  <2>5. CASE Finish(p)
    <3>1. PICK a : delivery' = [delivery EXCEPT ![p].at = "releasing", ![p].answer = a]
      BY <2>5 DEF Finish
    <3>2. DeliveryTurn(p, "releasing")
      BY <3>1 DEF DeliveryInv, DeliveriesAreTyped, DeliveryTurn, DeliveryFields
    <3> QED
      BY <3>2 DEF Holding, Releasing
  <2> QED
    BY <2>1, <2>2, <2>3, <2>4, <2>5 DEF WorkingStep, PerformStep
<1>3. PICK at \in Holding : DeliveryTurn(p, at)
  BY <1>2
<1>4. lock.owner = Me(p)
  BY <1>1 DEF DeliveryInv, DeliveryFits, Holding
<1>5. DeliveryFits(p)'
  BY <1>1, <1>3, <1>4 DEF DeliveryTurn, DeliveryFits, Me, Holding, Working, Releasing
<1> QED
  BY <1>1, <1>3, <1>5, LockStaysFit

(* The steps that only look at the lock.                                   *)
LEMMA LookingFits ==
  ASSUME DeliveryInv, NEW p \in DeliveryHosts,
         Deliver(p) \/ ObserveLock(p) \/ RereadLock(p) \/ CheckOwner(p)
  PROVE  DeliveryInv'
<1> USE DEF DeliveryInv
<1>1. UNCHANGED <<lock, life>>
  BY DEF Deliver, ObserveLock, RereadLock, CheckOwner
<1>2. CASE Deliver(p)
  <2>1. PICK o : delivery' = [delivery EXCEPT ![p] = [Resting EXCEPT !.at = "acquiring", !.output = o]]
    BY <1>2 DEF Deliver
  <2>2. DeliveryTurn(p, "acquiring")
    BY <2>1 DEF DeliveriesAreTyped, DeliveryTurn, DeliveryFields, Resting
  <2>3. DeliveryFits(p)'
    BY <2>2 DEF DeliveryFits, DeliveryTurn, Holding, Working, Releasing
  <2> QED
    BY <1>1, <2>2, <2>3, LockStaysFit
<1>3. ASSUME NEW at \in {"acquiring", "idle"}, DeliveryTurn(p, at)
      PROVE  DeliveryInv'
  <2>1. DeliveryFits(p)'
    BY <1>3 DEF DeliveryFits, DeliveryTurn, Holding, Working, Releasing
  <2> QED
    BY <1>1, <1>3, <2>1, LockStaysFit
<1>4. CASE Waits(p) \/ Fails(p)
  BY <1>3, <1>4, DeliveryMoves DEF Waits
<1>5. CASE ObserveLock(p) /\ ~(Waits(p) \/ Fails(p))
  <2>1. CASE MovesTo(p, "evicting") /\ lock.there /\ lock.owner = Nothing /\ lock.old
    <3>1. DeliveryTurn(p, "evicting")
      BY <2>1, DeliveryMoves
    <3>2. DeliveryFits(p)'
      BY <1>1, <2>1, <3>1 DEF DeliveryFits, DeliveryTurn, Holding, Working, Releasing
    <3> QED
      BY <1>1, <3>1, <3>2, LockStaysFit
  <2>2. CASE /\ lock.there /\ lock.owner # Nothing /\ ~OwnerIsCurrent(lock.owner)
             /\ delivery' = [delivery EXCEPT ![p].at = "rereading", ![p].seen = lock.owner]
    <3>1. DeliveryTurn(p, "rereading") /\ delivery'[p].seen = lock.owner
      BY <2>2 DEF DeliveriesAreTyped, DeliveryTurn, DeliveryFields
    <3>2. lock.owner \in LockOwners /\ lock.owner[2] < life[lock.owner[1]]
      BY <2>2, DeliveryAssumption DEF LockIsTyped, OwnerFits, OwnerIsCurrent, LockOwners
    <3>3. DeliveryFits(p)'
      BY <1>1, <3>1, <3>2 DEF DeliveryFits, DeliveryTurn, Holding, Working, Releasing
    <3> QED
      BY <1>1, <3>1, <3>3, LockStaysFit
  <2> QED
    BY <1>5, <2>1, <2>2 DEF ObserveLock
<1>6. CASE RereadLock(p) /\ ~(Waits(p) \/ Fails(p))
  <2>1. MovesTo(p, "evicting") /\ lock.owner = delivery[p].seen /\ delivery[p].at = "rereading"
    BY <1>6 DEF RereadLock
  <2>2. DeliveryTurn(p, "evicting")
    BY <2>1, DeliveryMoves
  <2>3. lock.owner \in LockOwners /\ lock.owner[2] < life[lock.owner[1]]
    BY <2>1 DEF DeliveryFits
  <2>4. lock.there /\ lock.owner # Nothing
    BY <2>3, DeliveryAssumption DEF OwnerFits
  <2>5. DeliveryFits(p)'
    BY <1>1, <2>2, <2>3, <2>4 DEF DeliveryFits, DeliveryTurn, Holding, Working, Releasing
  <2> QED
    BY <1>1, <2>2, <2>5, LockStaysFit
<1>7. CASE CheckOwner(p) /\ ~Fails(p)
  <2>1. MovesTo(p, "unlocking") /\ lock.owner = Me(p)
    BY <1>7 DEF CheckOwner
  <2>2. DeliveryTurn(p, "unlocking")
    BY <2>1, DeliveryMoves
  <2>3. DeliveryFits(p)'
    BY <1>1, <2>1, <2>2 DEF DeliveryFits, DeliveryTurn, Me
  <2> QED
    BY <1>1, <2>2, <2>3, LockStaysFit
<1> QED
  BY <1>2, <1>4, <1>5, <1>6, <1>7

(* A step that makes, names or removes the lock, while no other delivery   *)
(* holds it or is about to remove it.                                      *)
LEMMA LockChangeFits ==
  ASSUME DeliveryInv, NEW p \in DeliveryHosts, NEW at, DeliveryTurn(p, at), life' = life,
         lock' \in [there : BOOLEAN, owner : LockOwners \cup {Nothing}, old : BOOLEAN],
         OwnerFits', DeliveryFits(p)',
         \A q \in DeliveryHosts \ {p} : delivery[q].at \notin Holding \cup {"evicting"}
  PROVE  DeliveryInv'
<1>1. \A q \in DeliveryHosts \ {p} : DeliveryFits(q)'
  BY DEF DeliveryInv, DeliveryTurn, DeliveryFits
<1> QED
  BY <1>1 DEF DeliveryInv, DeliveriesAreTyped, LockIsTyped, DeliveryTurn

(* No lock is removed that a living delivery holds, and no delivery is     *)
(* about to remove a lock that is made or named.                           *)
LEMMA LockMovesFit ==
  ASSUME DeliveryInv, TakeoversAlone, NEW p \in DeliveryHosts,
         MakeLock(p) \/ NameLock(p) \/ EvictLock(p) \/ Unlock(p)
  PROVE  DeliveryInv'
<1> USE DEF DeliveryInv
<1>1. life' = life
  BY DEF MakeLock, NameLock, EvictLock, Unlock
<1>2. NoLock \in [there : BOOLEAN, owner : LockOwners \cup {Nothing}, old : BOOLEAN]
  BY DEF NoLock
<1>3. ASSUME lock' = lock, NEW at \in {"observing", "idle"}, DeliveryTurn(p, at)
      PROVE  DeliveryInv'
  <2>1. DeliveryFits(p)'
    BY <1>3 DEF DeliveryFits, DeliveryTurn, Holding, Working, Releasing
  <2> QED
    BY <1>1, <1>3, <2>1, LockStaysFit
<1>4. CASE MakeLock(p)
  <2>1. CASE lock.there
    BY <1>3, <1>4, <2>1, DeliveryMoves DEF MakeLock
  <2>2. CASE ~lock.there
    <3>1. DeliveryTurn(p, "naming") /\ lock' = Unnamed
      BY <1>4, <2>2, DeliveryMoves DEF MakeLock
    <3>2. /\ lock' \in [there : BOOLEAN, owner : LockOwners \cup {Nothing}, old : BOOLEAN]
          /\ lock'.owner = Nothing
      BY <1>2, <3>1 DEF Unnamed, NoLock
    <3>3. \A q \in DeliveryHosts : delivery[q].at \notin Holding \cup {"evicting"}
      BY <2>2, MeIsOwner DEF DeliveryFits, OwnerFits
    <3>4. OwnerFits' /\ DeliveryFits(p)'
      BY <3>1, <3>2 DEF OwnerFits, DeliveryFits, DeliveryTurn, Holding, Working, Releasing
    <3> QED
      BY <1>1, <3>1, <3>2, <3>3, <3>4, LockChangeFits
  <2> QED
    BY <2>1, <2>2
<1>5. CASE NameLock(p)
  <2>1. CASE lock.there /\ lock.owner = Nothing
    <3>1. DeliveryTurn(p, "loading") /\ lock' = [lock EXCEPT !.owner = Me(p)]
      BY <1>5, <2>1, DeliveryMoves DEF NameLock
    <3>2. ~lock.old
      BY <1>5 DEF TakeoversAlone, NoLongPause, NameLock
    <3>3. /\ lock' \in [there : BOOLEAN, owner : LockOwners \cup {Nothing}, old : BOOLEAN]
          /\ lock'.owner = Me(p) /\ lock'.there /\ ~lock'.old
      BY <2>1, <3>1, <3>2, MeIsOwner DEF LockIsTyped
    <3>4. \A q \in DeliveryHosts : delivery[q].at \notin Holding \cup {"evicting"}
      BY <2>1, <3>2, MeIsOwner DEF DeliveryFits
    <3>5. OwnerFits' /\ DeliveryFits(p)'
      BY <1>1, <3>1, <3>3, MeIsOwner DEF OwnerFits, DeliveryFits, DeliveryTurn, Me
    <3> QED
      BY <1>1, <3>1, <3>3, <3>4, <3>5, LockChangeFits
  <2>2. CASE ~(lock.there /\ lock.owner = Nothing)
    BY <1>3, <1>5, <2>2, DeliveryMoves DEF NameLock
  <2> QED
    BY <2>1, <2>2
<1>6. ASSUME lock' = NoLock, NEW at \in {"acquiring", "idle"}, DeliveryTurn(p, at),
             \A q \in DeliveryHosts \ {p} : delivery[q].at \notin Holding \cup {"evicting"}
      PROVE  DeliveryInv'
  <2>1. OwnerFits' /\ DeliveryFits(p)'
    BY <1>6 DEF NoLock, OwnerFits, DeliveryFits, DeliveryTurn, Holding, Working, Releasing
  <2> QED
    BY <1>1, <1>2, <1>6, <2>1, LockChangeFits
<1>7. CASE EvictLock(p)
  <2>1. \E at \in {"acquiring", "idle"} : DeliveryTurn(p, at)
    BY <1>7, DeliveryMoves DEF EvictLock
  <2>2. lock.owner # Nothing => lock.owner[2] < life[lock.owner[1]]
    BY <1>7 DEF EvictLock, DeliveryFits
  <2>3. \A q \in DeliveryHosts : delivery[q].at \notin Holding
    BY <2>2, MeIsOwner DEF DeliveryFits
  <2>4. \A q \in DeliveryHosts \ {p} : delivery[q].at # "evicting"
    BY <1>7 DEF TakeoversAlone, EvictLock
  <2> QED
    BY <1>6, <1>7, <2>1, <2>3, <2>4 DEF EvictLock
<1>8. CASE Unlock(p)
  <2>1. DeliveryTurn(p, "idle") /\ lock' = NoLock /\ lock.owner = Me(p)
    BY <1>8, DeliveryMoves DEF Unlock, DeliveryFits, Holding, Releasing
  <2>2. \A q \in DeliveryHosts \ {p} : delivery[q].at \notin Holding \cup {"evicting"}
    BY <2>1, MeIsOwner DEF DeliveryFits
  <2> QED
    BY <1>6, <2>1, <2>2
<1> QED
  BY <1>4, <1>5, <1>7, <1>8

(* The death of a process leaves its lock, whose owner is then no current  *)
(* one.                                                                    *)
LEMMA DeathFits ==
  ASSUME DeliveryInv, NEW p \in DeliveryHosts, HostDies(p)
  PROVE  DeliveryInv'
<1> USE DEF DeliveryInv
<1>1. DeliveryTurn(p, "idle") /\ lock' = lock
  BY DeliveryMoves DEF HostDies
<1>2. /\ life' \in [DeliveryHosts -> 0 .. MaxDeaths]
      /\ \A q \in DeliveryHosts : life[q] \in Int /\ life'[q] \in Int /\ life[q] <= life'[q]
      /\ \A q \in DeliveryHosts \ {p} : life'[q] = life[q]
  BY DeliveryAssumption DEF HostDies, LockIsTyped
<1>3. \A o \in LockOwners : o[1] \in DeliveryHosts /\ o[2] \in Int
  BY DEF LockOwners
<1>4. OwnerFits'
  BY <1>1, <1>2, <1>3 DEF OwnerFits, LockIsTyped
<1>5. DeliveryFits(p)'
  BY <1>1 DEF DeliveryFits, DeliveryTurn, Holding, Working, Releasing
<1>6. ASSUME NEW q \in DeliveryHosts \ {p}
      PROVE  DeliveryFits(q)'
  <2>1. DeliveryFits(q) /\ delivery'[q] = delivery[q] /\ Me(q)' = Me(q)
    BY <1>1, <1>2 DEF DeliveryTurn, Me
  <2> QED
    BY <1>1, <1>2, <1>3, <2>1 DEF DeliveryFits, LockIsTyped
<1> QED
  BY <1>1, <1>2, <1>4, <1>5, <1>6 DEF DeliveriesAreTyped, LockIsTyped, DeliveryTurn

(* The steps that move no delivery.                                        *)
LEMMA DeliveryRests ==
  ASSUME DeliveryInv,
         AgeLock \/ UNCHANGED deliveryVars \/ (\E p \in DeliveryHosts : ShutDown(p) \/ Revoke(p))
  PROVE  DeliveryInv'
<1>1. delivery' = delivery /\ life' = life
  BY DEF AgeLock, ShutDown, Revoke, deliveryVars
<1>2. CASE AgeLock
  <2>1. /\ lock' \in [there : BOOLEAN, owner : LockOwners \cup {Nothing}, old : BOOLEAN]
        /\ lock'.owner = Nothing /\ lock.owner = Nothing /\ lock'.there /\ lock'.old
    BY <1>2 DEF AgeLock, DeliveryInv, LockIsTyped
  <2> QED
    BY <1>1, <2>1 DEF DeliveryInv, DeliveriesAreTyped, LockIsTyped, OwnerFits, DeliveryFits, Me
<1>3. CASE ~AgeLock
  <2>1. lock' = lock
    BY <1>3 DEF ShutDown, Revoke, deliveryVars
  <2> QED
    BY <1>1, <2>1 DEF DeliveryInv, DeliveriesAreTyped, LockIsTyped, OwnerFits, DeliveryFits, Me
<1> QED
  BY <1>2, <1>3

(* Every step keeps the invariant, while takeovers come one at a time.     *)
LEMMA DeliveryStepFits ==
  ASSUME DeliveryInv, TakeoversAlone, [DeliveryNext]_deliveryVars
  PROVE  DeliveryInv'
<1>1. ASSUME NEW p \in DeliveryHosts, LockStep(p) \/ PerformStep(p) \/ DeliverStep(p) \/ Revoke(p)
      PROVE  DeliveryInv'
  BY <1>1, WorkingStepFits, LookingFits, LockMovesFit, DeliveryRests
     DEF LockStep, DeliverStep, WorkingStep
<1> QED
  BY <1>1, DeathFits, DeliveryRests
     DEF DeliveryNext, PiLock, PiPerform, PiDeliver, OMPLock, OMPPerform, OMPDeliver,
         ClaudeLock, ClaudePerform, ClaudeDeliver, CodexLock, CodexPerform, CodexDeliver

(* No two processes work on the return of one attempt at once, whatever    *)
(* dies and is started again, as long as the lock of a dead process is     *)
(* taken over by one at a time and a living one names its lock in time.    *)
THEOREM DeliveriesAreSerial == DeliverySpec /\ []TakeoversAlone => []OneDelivery
<1>1. DeliveryInit => DeliveryInv
  <2> SUFFICES ASSUME DeliveryInit PROVE DeliveryInv
    OBVIOUS
  <2>1. DeliveriesAreTyped
    BY DEF DeliveryInit, DeliveriesAreTyped, DeliveryFields, Resting
  <2>2. LockIsTyped /\ OwnerFits
    BY DeliveryAssumption DEF DeliveryInit, LockIsTyped, OwnerFits, NoLock
  <2>3. \A p \in DeliveryHosts : DeliveryFits(p)
    BY DEF DeliveryInit, DeliveryFits, Resting, Holding, Working, Releasing
  <2> QED
    BY <2>1, <2>2, <2>3 DEF DeliveryInv
<1>2. DeliveryInv => OneDelivery
  BY MeIsOwner DEF DeliveryInv, DeliveryFits, OneDelivery, Holding
<1>3. DeliveryInv /\ TakeoversAlone /\ [DeliveryNext]_deliveryVars => DeliveryInv'
  BY DeliveryStepFits
<1> QED
  BY <1>1, <1>2, <1>3, PTL DEF DeliverySpec

-----------------------------------------------------------------------------
(* The sessions of a host (HostSessions).                                  *)

RuntimeMemories ==
  [tables : Tables, selected : Capabilities \cup {Absent}, pending : Branches \cup {Absent},
   state : {"enabled", "revoked", "killed", "shut down"}]

(* A claim has its primary capability, and once bound all its capabilities *)
(* are permitted to a session that is bound too.                           *)
ClaimFits(claim, sessions, allowed) ==
  /\ claim.primary \in claim.capabilities
  /\ claim.session # Absent =>
       claim.capabilities \subseteq allowed[claim.session] /\ sessions[claim.session] # Absent

TablesFit(tables, allowed) ==
  /\ tables \in Tables
  /\ \A s \in Sessions : tables.sessions[s] \in allowed[s] \cup {Absent}
  /\ \A c \in Claims : tables.claims[c] # Absent => ClaimFits(tables.claims[c], tables.sessions, allowed)

SessionsAreTyped ==
  /\ memory \in RuntimeMemories
  /\ batch \in [session : Sessions, primary : Capabilities, left : SUBSET Capabilities] \cup {Absent}
  /\ binding \in [claim : Claims, session : Sessions] \cup {Absent}
  /\ permitted \in [Sessions -> SUBSET Capabilities]

(* What a batch lends its session was permitted to it, and the session is  *)
(* a bound one.                                                            *)
BatchFits ==
  batch # Absent =>
    /\ batch.left \cup {batch.primary} \subseteq permitted[batch.session]
    /\ Persistent /\ memory.state = "enabled" =>
         memory.tables.sessions[batch.session] # Absent /\ disk.sessions[batch.session] # Absent

(* A claim that is being bound is there, and so is its session.            *)
BindingFits ==
  binding # Absent =>
    memory.tables.claims[binding.claim] # Absent /\ memory.tables.sessions[binding.session] # Absent

SessionsInv ==
  /\ SessionsAreTyped /\ TablesFit(memory.tables, permitted) /\ TablesFit(disk, permitted)
  /\ BatchFits /\ BindingFits /\ BindingsAreDurable

(* The assignments in the runtime's memory, and what each leaves as it was. *)
Spoken(m, s, c) == [m EXCEPT !.tables.sessions[s] = c]
Claimed(m, c, claim) == [m EXCEPT !.tables.claims[c] = claim]
BoundTo(m, c, s) == [m EXCEPT !.tables.claims[c].session = s]
Branched(m, e, branch) == [m EXCEPT !.tables.branches[e] = branch]

(* A session is assigned its capability.                                   *)
LEMMA SpeakingMemory ==
  ASSUME NEW m \in RuntimeMemories, NEW s \in Sessions, NEW c \in Capabilities,
         NEW n, n = Spoken(m, s, c)
  PROVE  /\ n \in RuntimeMemories
         /\ n.tables.sessions = [m.tables.sessions EXCEPT ![s] = c]
         /\ n.tables.claims = m.tables.claims /\ n.tables.branches = m.tables.branches
         /\ n.state = m.state
BY DEF RuntimeMemories, Tables, Spoken

(* A capability is selected.                                               *)
LEMMA SelectingMemory ==
  ASSUME NEW m \in RuntimeMemories, NEW c \in Capabilities \cup {Absent},
         NEW n, n = [m EXCEPT !.selected = c]
  PROVE  n \in RuntimeMemories /\ n.tables = m.tables /\ n.state = m.state
BY DEF RuntimeMemories

(* A claim is entered or deleted.                                          *)
LEMMA ClaimingMemory ==
  ASSUME NEW m \in RuntimeMemories, NEW c \in Claims, NEW claim \in ClaimStates \cup {Absent},
         NEW n, n = Claimed(m, c, claim)
  PROVE  /\ n \in RuntimeMemories
         /\ n.tables.claims = [m.tables.claims EXCEPT ![c] = claim]
         /\ n.tables.sessions = m.tables.sessions /\ n.tables.branches = m.tables.branches
         /\ n.state = m.state
BY DEF RuntimeMemories, Tables, Claimed

(* A claim is bound to a session.                                          *)
LEMMA BindingMemory ==
  ASSUME NEW m \in RuntimeMemories, NEW c \in Claims, NEW s \in Sessions, m.tables.claims[c] # Absent,
         NEW n, n = BoundTo(m, c, s)
  PROVE  /\ n \in RuntimeMemories
         /\ \A d \in Claims \ {c} : n.tables.claims[d] = m.tables.claims[d]
         /\ n.tables.claims[c].session = s
         /\ n.tables.claims[c].primary = m.tables.claims[c].primary
         /\ n.tables.claims[c].capabilities = m.tables.claims[c].capabilities
         /\ n.tables.sessions = m.tables.sessions /\ n.tables.branches = m.tables.branches
         /\ n.state = m.state
<1>1. m.tables.claims[c] \in ClaimStates
  BY DEF RuntimeMemories, Tables
<1>2. PICK claim : claim = [m.tables.claims[c] EXCEPT !.session = s]
  OBVIOUS
<1>3. /\ claim \in ClaimStates /\ claim.session = s
      /\ claim.primary = m.tables.claims[c].primary
      /\ claim.capabilities = m.tables.claims[c].capabilities
  BY <1>1, <1>2 DEF ClaimStates
<1>4. n = Claimed(m, c, claim)
  BY <1>2 DEF Claimed, BoundTo
<1>5. /\ n \in RuntimeMemories
      /\ n.tables.claims = [m.tables.claims EXCEPT ![c] = claim]
      /\ n.tables.sessions = m.tables.sessions /\ n.tables.branches = m.tables.branches
      /\ n.state = m.state
  BY <1>3, <1>4, ClaimingMemory
<1>6. m.tables.claims \in [Claims -> ClaimStates \cup {Absent}]
  BY DEF RuntimeMemories, Tables
<1>7. /\ n.tables.claims[c] = claim
      /\ \A d \in Claims \ {c} : n.tables.claims[d] = m.tables.claims[d]
  BY <1>5, <1>6
<1>8. /\ n.tables.claims[c].session = s
      /\ n.tables.claims[c].primary = m.tables.claims[c].primary
      /\ n.tables.claims[c].capabilities = m.tables.claims[c].capabilities
  BY <1>3, <1>7
<1> QED
  BY <1>5, <1>7, <1>8

(* A branch is entered.                                                    *)
LEMMA BranchingMemory ==
  ASSUME NEW m \in RuntimeMemories, NEW e \in Entries, NEW branch \in Branches,
         NEW n, n = Branched(m, e, branch)
  PROVE  /\ n \in RuntimeMemories
         /\ n.tables.sessions = m.tables.sessions /\ n.tables.claims = m.tables.claims
         /\ n.state = m.state
BY DEF RuntimeMemories, Tables, Branched

(* Empty tables fit whatever is permitted.                                 *)
LEMMA NoTablesFit ==
  NoTables \in Tables /\ \A allowed \in [Sessions -> SUBSET Capabilities] : TablesFit(NoTables, allowed)
<1>1. NoTables \in Tables
  BY DEF NoTables, Tables
<1>2. /\ \A s \in Sessions : NoTables.sessions[s] = Absent
      /\ \A c \in Claims : NoTables.claims[c] = Absent
  BY DEF NoTables
<1> QED
  BY <1>1, <1>2 DEF TablesFit

(* A runtime starts with the tables it reads.                              *)
LEMMA StartedMemory ==
  ASSUME NEW tables \in Tables
  PROVE  /\ Started(tables) \in RuntimeMemories
         /\ Started(tables).tables = tables /\ Started(tables).state = "enabled"
<1>1. Initial \in Capabilities
  BY SessionsAssumption DEF Initial
<1> QED
  BY <1>1 DEF Started, RuntimeMemories

(* A start resolves to a capability or is refused.                         *)
LEMMA ResolvedIsCapability ==
  ASSUME memory \in RuntimeMemories, NEW s \in Sessions, NEW start \in Starts
  PROVE  Resolved(s, start[1], start[2], start[3]) \in Capabilities \cup {Absent}
<1>1. /\ start[1] \in {"startup", "fork", "resume"} /\ start[2] \in Sessions \cup {Absent}
      /\ start[3] \in Entries \cup {Absent}
  BY DEF Starts
<1>2. /\ memory.tables.sessions \in [Sessions -> Capabilities \cup {Absent}]
      /\ memory.tables.branches \in [Entries -> Branches \cup {Absent}]
      /\ memory.selected \in Capabilities \cup {Absent}
  BY DEF RuntimeMemories, Tables
<1>3. Existing(s, start[1], start[2]) \in Capabilities \cup {Absent}
  BY <1>1, <1>2 DEF Existing
<1>4. Inherited(start[1], start[2], start[3]) \in Capabilities \cup {Absent}
  BY <1>1, <1>2 DEF Inherited, Branches
<1> QED
  BY <1>3, <1>4 DEF Resolved

(* More is permitted, and what was permitted stays.                        *)
LEMMA TablesStayFit ==
  ASSUME NEW tables, NEW allowed, NEW allows, TablesFit(tables, allowed),
         \A s \in Sessions : allowed[s] \subseteq allows[s]
  PROVE  TablesFit(tables, allows)
BY DEF TablesFit, ClaimFits, Tables, ClaimStates

(* A session is bound to, or lent, a capability that is permitted to it.   *)
LEMMA SpeakingTablesFit ==
  ASSUME NEW before, NEW after \in Tables, NEW allowed, TablesFit(before, allowed),
         NEW s \in Sessions, NEW c \in Capabilities, c \in allowed[s],
         after.sessions = [before.sessions EXCEPT ![s] = c], after.claims = before.claims
  PROVE  TablesFit(after, allowed)
<1>1. /\ before.sessions \in [Sessions -> Capabilities \cup {Absent}]
      /\ before.claims \in [Claims -> ClaimStates \cup {Absent}]
      /\ c # Absent
  BY SessionsAssumption DEF TablesFit, Tables
<1>2. \A u \in Sessions : after.sessions[u] = IF u = s THEN c ELSE before.sessions[u]
  BY <1>1
<1>3. ASSUME NEW k \in Claims, after.claims[k] # Absent
      PROVE  ClaimFits(after.claims[k], after.sessions, allowed)
  <2>1. ClaimFits(before.claims[k], before.sessions, allowed) /\ before.claims[k] \in ClaimStates
    BY <1>1, <1>3 DEF TablesFit
  <2>2. before.claims[k].session \in Sessions \cup {Absent}
    BY <2>1 DEF ClaimStates
  <2> QED
    BY <1>1, <1>2, <2>1, <2>2 DEF ClaimFits
<1> QED
  BY <1>2, <1>3 DEF TablesFit

(* Only branches have changed.                                             *)
LEMMA SameTablesFit ==
  ASSUME NEW before, NEW after \in Tables, NEW allowed, TablesFit(before, allowed),
         after.sessions = before.sessions, after.claims = before.claims
  PROVE  TablesFit(after, allowed)
BY DEF TablesFit

(* A step after which what runs is written.                                *)
LEMMA WrittenFits ==
  ASSUME SessionsInv, Persists, UNCHANGED sessionHost,
         SessionsAreTyped', TablesFit(memory.tables, permitted)', BindingFits',
         \A s \in Sessions : permitted[s] \subseteq permitted'[s],
         batch' # Absent =>
           /\ batch'.left \cup {batch'.primary} \subseteq permitted'[batch'.session]
           /\ Persistent /\ memory'.state = "enabled" => memory'.tables.sessions[batch'.session] # Absent
  PROVE  SessionsInv'
<1>1. TablesFit(disk, permitted)
  BY DEF SessionsInv
<1>2. Persistent' <=> Persistent
  BY DEF Persistent
<1>3. CASE Persistent
  <2>1. disk' = memory'.tables
    BY <1>3 DEF Persists
  <2>2. TablesFit(disk, permitted)' /\ BindingsAreDurable'
    BY <2>1 DEF BindingsAreDurable, TablesFit
  <2>3. BatchFits'
    BY <1>2, <2>1 DEF BatchFits
  <2> QED
    BY <2>2, <2>3 DEF SessionsInv
<1>4. CASE ~Persistent
  <2>1. disk' = disk
    BY <1>4 DEF Persists
  <2>2. TablesFit(disk, permitted')
    BY <1>1, TablesStayFit
  <2>3. TablesFit(disk, permitted)' /\ BindingsAreDurable' /\ BatchFits'
    BY <1>2, <1>4, <2>1, <2>2 DEF BindingsAreDurable, BatchFits
  <2> QED
    BY <2>3 DEF SessionsInv
<1> QED
  BY <1>3, <1>4

(* A batch goes on over such a step.                                       *)
LEMMA BatchGoesOn ==
  ASSUME SessionsInv, UNCHANGED batch, memory'.state = memory.state,
         \A s \in Sessions : permitted[s] \subseteq permitted'[s],
         \A s \in Sessions : memory.tables.sessions[s] # Absent => memory'.tables.sessions[s] # Absent
  PROVE  batch' # Absent =>
           /\ batch'.left \cup {batch'.primary} \subseteq permitted'[batch'.session]
           /\ Persistent /\ memory'.state = "enabled" => memory'.tables.sessions[batch'.session] # Absent
<1> SUFFICES ASSUME batch # Absent
             PROVE  /\ batch.left \cup {batch.primary} \subseteq permitted'[batch.session]
                    /\ Persistent /\ memory'.state = "enabled" =>
                         memory'.tables.sessions[batch.session] # Absent
  OBVIOUS
<1>1. batch.session \in Sessions
  BY DEF SessionsInv, SessionsAreTyped
<1> QED
  BY <1>1 DEF SessionsInv, BatchFits

(* A step that changes no table.                                           *)
LEMMA QuietFits ==
  ASSUME SessionsInv, memory' \in RuntimeMemories, memory'.tables = memory.tables,
         memory'.state = "enabled" => memory.state = "enabled",
         UNCHANGED <<sessionHost, disk, batch, binding, permitted>>
  PROVE  SessionsInv'
BY DEF SessionsInv, SessionsAreTyped, BatchFits, BindingFits, BindingsAreDurable, Persistent

(* A session starts, known or new.                                         *)
LEMMA StartSessionFits ==
  ASSUME SessionsInv, NEW s \in Sessions, StartSession(s)
  PROVE  SessionsInv'
<1>1. PICK start \in Starts :
        LET c == Resolved(s, start[1], start[2], start[3]) IN c # Absent /\ Binds(s, c)
  BY DEF StartSession
<1>2. PICK c : c = Resolved(s, start[1], start[2], start[3])
  OBVIOUS
<1>3. c \in Capabilities /\ Binds(s, c)
  BY <1>1, <1>2, ResolvedIsCapability DEF SessionsInv, SessionsAreTyped
<1>4. UNCHANGED <<sessionHost, batch, binding>>
  BY DEF StartSession
<1>5. CASE memory.tables.sessions[s] # Absent
  BY <1>3, <1>4, <1>5, QuietFits DEF Binds, SessionsInv, SessionsAreTyped
<1>6. CASE memory.tables.sessions[s] = Absent
  <2>1. PICK m : m = Spoken(memory, s, c)
    OBVIOUS
  <2>2. /\ memory' = [m EXCEPT !.selected = c] /\ Persists
        /\ permitted' = [permitted EXCEPT ![s] = @ \cup {c}]
    BY <1>3, <1>6, <2>1 DEF Binds, Spoken
  <2>3. /\ m \in RuntimeMemories
        /\ m.tables.sessions = [memory.tables.sessions EXCEPT ![s] = c]
        /\ m.tables.claims = memory.tables.claims /\ m.state = memory.state
    BY <1>3, <2>1, SpeakingMemory DEF SessionsInv, SessionsAreTyped
  <2>4. memory' \in RuntimeMemories /\ memory'.tables = m.tables /\ memory'.state = m.state
    BY <1>3, <2>2, <2>3, SelectingMemory
  <2>5. /\ permitted' \in [Sessions -> SUBSET Capabilities] /\ c \in permitted'[s]
        /\ \A u \in Sessions : permitted[u] \subseteq permitted'[u]
    BY <1>3, <2>2 DEF SessionsInv, SessionsAreTyped
  <2>6. TablesFit(memory.tables, permitted')
    BY <2>5, TablesStayFit DEF SessionsInv
  <2>7. m.tables \in Tables
    BY <2>3 DEF RuntimeMemories
  <2>8. TablesFit(m.tables, permitted')
    BY <1>3, <2>3, <2>5, <2>6, <2>7, SpeakingTablesFit
  <2>9. TablesFit(memory.tables, permitted)'
    BY <2>4, <2>8 DEF TablesFit
  <2>10. \A u \in Sessions : memory.tables.sessions[u] # Absent => memory'.tables.sessions[u] # Absent
    BY <1>3, <2>3, <2>4, <2>6, SessionsAssumption DEF TablesFit, Tables
  <2>11. SessionsAreTyped' /\ BindingFits'
    BY <1>4, <2>3, <2>4, <2>5, <2>10 DEF SessionsInv, SessionsAreTyped, BindingFits
  <2> QED
    BY <1>4, <2>2, <2>3, <2>4, <2>5, <2>9, <2>10, <2>11, BatchGoesOn, WrittenFits
<1> QED
  BY <1>5, <1>6

(* The calls that concern branches.                                        *)
LEMMA BranchesFit ==
  ASSUME SessionsInv,
         \/ \E e \in Entries :
              BeforeBranch(e) \/ \E s \in Sessions, c \in Capabilities : RegisterBranch(e, s, c)
         \/ \E s \in Sessions : ActivateSession(s)
  PROVE  SessionsInv'
<1>1. memory \in RuntimeMemories
  BY DEF SessionsInv, SessionsAreTyped
<1>2. ASSUME NEW e \in Entries, BeforeBranch(e)
      PROVE  SessionsInv'
  <2>1. memory' = [memory EXCEPT !.pending = memory.tables.branches[e]]
    BY <1>2 DEF BeforeBranch
  <2>2. memory.tables.branches[e] \in Branches \cup {Absent}
    BY <1>1 DEF RuntimeMemories, Tables
  <2>3. memory' \in RuntimeMemories /\ memory'.tables = memory.tables /\ memory'.state = memory.state
    BY <1>1, <2>1, <2>2 DEF RuntimeMemories
  <2> QED
    BY <1>2, <2>3, QuietFits DEF BeforeBranch, KeepsHistory
<1>3. ASSUME NEW s \in Sessions, ActivateSession(s)
      PROVE  SessionsInv'
  <2>1. PICK selected :
          /\ memory' = [memory EXCEPT !.pending = Absent, !.selected = selected]
          /\ selected = IF memory.pending # Absent /\ memory.pending.session = s
                        THEN memory.pending.capability ELSE memory.selected
    BY <1>3 DEF ActivateSession
  <2>2. selected \in Capabilities \cup {Absent}
    BY <1>1, <2>1 DEF RuntimeMemories, Branches
  <2>3. memory' \in RuntimeMemories /\ memory'.tables = memory.tables /\ memory'.state = memory.state
    BY <1>1, <2>1, <2>2 DEF RuntimeMemories
  <2> QED
    BY <1>3, <2>3, QuietFits DEF ActivateSession, KeepsHistory
<1>4. ASSUME NEW e \in Entries, NEW s \in Sessions, NEW c \in Capabilities, RegisterBranch(e, s, c)
      PROVE  SessionsInv'
  <2>1. PICK branch \in Branches : branch = [session |-> s, capability |-> c]
    BY DEF Branches
  <2>2. memory' = Branched(memory, e, branch)
    BY <1>4, <2>1 DEF RegisterBranch, Branched
  <2>3. /\ memory' \in RuntimeMemories /\ memory'.state = memory.state
        /\ memory'.tables.sessions = memory.tables.sessions
        /\ memory'.tables.claims = memory.tables.claims
    BY <1>1, <2>2, BranchingMemory
  <2>4. UNCHANGED <<sessionHost, batch, binding, permitted>> /\ Persists
    BY <1>4 DEF RegisterBranch, KeepsHistory
  <2>5. memory'.tables \in Tables
    BY <2>3 DEF RuntimeMemories
  <2>6. TablesFit(memory.tables, permitted)'
    BY <2>3, <2>4, <2>5, SameTablesFit DEF SessionsInv
  <2>7. SessionsAreTyped' /\ BindingFits'
    BY <2>3, <2>4 DEF SessionsInv, SessionsAreTyped, BindingFits
  <2> QED
    BY <2>3, <2>4, <2>6, <2>7, BatchGoesOn, WrittenFits
<1> QED
  BY <1>2, <1>3, <1>4

(* A thread claim is registered.                                           *)
LEMMA RegisterClaimFits ==
  ASSUME SessionsInv, NEW c \in Claims, NEW capabilities \in SUBSET Capabilities,
         NEW primary \in Capabilities,
         RegisterClaim(c, capabilities, primary)
  PROVE  SessionsInv'
<1>1. PICK claim : claim = [capabilities |-> capabilities, primary |-> primary, session |-> Absent]
  OBVIOUS
<1>2. /\ claim \in ClaimStates /\ claim.session = Absent
      /\ claim.primary = primary /\ claim.capabilities = capabilities
  BY <1>1 DEF ClaimStates
<1>3. /\ memory' = Claimed(memory, c, claim) /\ Persists /\ primary \in capabilities
      /\ UNCHANGED <<sessionHost, batch, binding, permitted>> /\ binding = Absent
  BY <1>1 DEF RegisterClaim, Claimed, Enabled
<1>4. /\ memory' \in RuntimeMemories
      /\ memory'.tables.claims = [memory.tables.claims EXCEPT ![c] = claim]
      /\ memory'.tables.sessions = memory.tables.sessions /\ memory'.state = memory.state
  BY <1>2, <1>3, ClaimingMemory DEF SessionsInv, SessionsAreTyped
<1>5. /\ memory.tables.claims \in [Claims -> ClaimStates \cup {Absent}]
      /\ TablesFit(memory.tables, permitted)
  BY DEF SessionsInv, TablesFit, Tables
<1>6. ASSUME NEW k \in Claims, memory'.tables.claims[k] # Absent
      PROVE  ClaimFits(memory'.tables.claims[k], memory'.tables.sessions, permitted)
  <2>1. CASE k = c
    <3>1. memory'.tables.claims[k] = claim
      BY <1>4, <1>5, <2>1
    <3> QED
      BY <1>2, <1>3, <3>1 DEF ClaimFits
  <2>2. CASE k # c
    <3>1. memory'.tables.claims[k] = memory.tables.claims[k]
      BY <1>4, <1>5, <2>2
    <3> QED
      BY <1>4, <1>5, <1>6, <3>1 DEF TablesFit
  <2> QED
    BY <2>1, <2>2
<1>7. TablesFit(memory'.tables, permitted)
  BY <1>4, <1>5, <1>6 DEF TablesFit, RuntimeMemories
<1>9. TablesFit(memory.tables, permitted)'
  BY <1>3, <1>7 DEF TablesFit
<1>10. SessionsAreTyped' /\ BindingFits'
  BY <1>3, <1>4 DEF SessionsInv, SessionsAreTyped, BindingFits
<1> QED
  BY <1>3, <1>4, <1>9, <1>10, BatchGoesOn, WrittenFits

(* A claim is bound: the session first, then the claim.                    *)
LEMMA BindClaimFits ==
  ASSUME SessionsInv, NEW c \in Claims, NEW s \in Sessions, BindClaim(c, s)
  PROVE  SessionsInv'
<1>1. PICK primary : primary = memory.tables.claims[c].primary
  OBVIOUS
<1>2. /\ memory.tables.claims[c] # Absent /\ memory.tables.claims[c] \in ClaimStates
      /\ primary \in Capabilities
      /\ memory \in RuntimeMemories
      /\ memory.tables.sessions \in [Sessions -> Capabilities \cup {Absent}]
  BY <1>1 DEF BindClaim, SessionsInv, SessionsAreTyped, RuntimeMemories, Tables, ClaimStates
<1> DEFINE Found(start) == IF start[1] = "startup" /\ memory.tables.sessions[s] = Absent
                           THEN primary ELSE Resolved(s, start[1], start[2], start[3])
           Outcome(capability) ==
             \/ /\ capability = Absent
                /\ memory' = [memory EXCEPT !.selected = primary] /\ UNCHANGED <<disk, binding, permitted>>
             \/ /\ capability # Absent
                /\ memory' = IF memory.tables.sessions[s] # Absent
                             THEN [memory EXCEPT !.selected = primary]
                             ELSE [memory EXCEPT !.tables.sessions[s] = capability,
                                                 !.selected = capability]
                /\ Persists
                /\ permitted' = [permitted EXCEPT ![s] = @ \cup {capability}]
                /\ binding' = IF capability = primary THEN [claim |-> c, session |-> s] ELSE Absent
<1>31. PICK start \in Starts : \E capability : capability = Found(start) /\ Outcome(capability)
  BY ZenonT(60), <1>1 DEF BindClaim
<1>3. PICK capability : capability = Found(start) /\ Outcome(capability)
  BY <1>31
<1>4. UNCHANGED <<sessionHost, batch>>
  BY DEF BindClaim
<1>5. CASE capability = Absent
  <2>1. memory' \in RuntimeMemories /\ memory'.tables = memory.tables /\ memory'.state = memory.state
    BY <1>2, <1>3, <1>5, SelectingMemory
  <2> QED
    BY <1>3, <1>4, <1>5, <2>1, QuietFits
<1>6. CASE capability # Absent
  <2>1. capability \in Capabilities
    BY <1>2, <1>3, <1>6, ResolvedIsCapability
  <2>2. /\ permitted' \in [Sessions -> SUBSET Capabilities] /\ capability \in permitted'[s]
        /\ \A u \in Sessions : permitted[u] \subseteq permitted'[u]
    BY <1>3, <1>6, <2>1 DEF SessionsInv, SessionsAreTyped
  <2>3. TablesFit(memory.tables, permitted')
    BY <2>2, TablesStayFit DEF SessionsInv
  <2>4. /\ memory' \in RuntimeMemories /\ memory'.state = memory.state
        /\ memory'.tables.claims = memory.tables.claims
        /\ memory'.tables.sessions[s] # Absent
        /\ \A u \in Sessions : memory.tables.sessions[u] # Absent => memory'.tables.sessions[u] # Absent
        /\ TablesFit(memory'.tables, permitted')
    <3>1. CASE memory.tables.sessions[s] # Absent
      <4>1. memory' \in RuntimeMemories /\ memory'.tables = memory.tables /\ memory'.state = memory.state
        BY <1>2, <1>3, <1>6, <3>1, SelectingMemory
      <4> QED
        BY <2>3, <3>1, <4>1
    <3>2. CASE memory.tables.sessions[s] = Absent
      <4>1. PICK m : m = Spoken(memory, s, capability)
        OBVIOUS
      <4>2. memory' = [m EXCEPT !.selected = capability]
        BY <1>3, <1>6, <3>2, <4>1 DEF Spoken
      <4>3. /\ m \in RuntimeMemories
            /\ m.tables.sessions = [memory.tables.sessions EXCEPT ![s] = capability]
            /\ m.tables.claims = memory.tables.claims /\ m.state = memory.state
        BY <1>2, <2>1, <4>1, SpeakingMemory
      <4>4. memory' \in RuntimeMemories /\ memory'.tables = m.tables /\ memory'.state = m.state
        BY <2>1, <4>2, <4>3, SelectingMemory
      <4>5. m.tables \in Tables
        BY <4>3 DEF RuntimeMemories
      <4>6. TablesFit(m.tables, permitted')
        BY <2>1, <2>2, <2>3, <4>3, <4>5, SpeakingTablesFit
      <4>7. /\ m.tables.sessions[s] # Absent
            /\ \A u \in Sessions : memory.tables.sessions[u] # Absent => m.tables.sessions[u] # Absent
        BY <1>2, <1>6, <4>3
      <4> QED
        BY <4>3, <4>4, <4>6, <4>7
    <3> QED
      BY <3>1, <3>2
  <2>5. TablesFit(memory.tables, permitted)'
    BY <2>4 DEF TablesFit
  <2>6. binding' \in {Absent, [claim |-> c, session |-> s]} /\ Persists
    BY <1>3, <1>6
  <2>7. BindingFits'
    BY <1>2, <2>4, <2>6 DEF BindingFits
  <2>8. SessionsAreTyped'
    BY <1>4, <2>2, <2>4, <2>6 DEF SessionsInv, SessionsAreTyped
  <2> QED
    BY <1>4, <2>2, <2>4, <2>5, <2>6, <2>7, <2>8, BatchGoesOn, WrittenFits
<1> QED
  BY <1>5, <1>6

(* The binding of the claim is recorded.                                   *)
LEMMA RecordBindingFits ==
  ASSUME SessionsInv, RecordBinding
  PROVE  SessionsInv'
<1>1. PICK c, s : c = binding.claim /\ s = binding.session
  OBVIOUS
<1>2. /\ c \in Claims /\ s \in Sessions /\ memory \in RuntimeMemories
      /\ memory.tables.claims[c] # Absent /\ memory.tables.sessions[s] # Absent
      /\ TablesFit(memory.tables, permitted)
      /\ memory.tables.claims \in [Claims -> ClaimStates \cup {Absent}]
  BY <1>1 DEF RecordBinding, SessionsInv, SessionsAreTyped, BindingFits, RuntimeMemories, Tables
<1>3. PICK capabilities \in SUBSET Capabilities : capabilities = memory.tables.claims[c].capabilities
  BY <1>2 DEF ClaimStates
<1>4. /\ memory' = BoundTo(memory, c, s) /\ Persists /\ binding' = Absent
      /\ permitted' = [permitted EXCEPT ![s] = @ \cup capabilities]
      /\ UNCHANGED <<sessionHost, batch>>
  BY <1>1, <1>3 DEF RecordBinding, BoundTo
<1>5. /\ memory' \in RuntimeMemories
      /\ \A d \in Claims \ {c} : memory'.tables.claims[d] = memory.tables.claims[d]
      /\ memory'.tables.claims[c].session = s
      /\ memory'.tables.claims[c].primary = memory.tables.claims[c].primary
      /\ memory'.tables.claims[c].capabilities = memory.tables.claims[c].capabilities
      /\ memory'.tables.sessions = memory.tables.sessions
      /\ memory'.state = memory.state
  BY <1>2, <1>4, BindingMemory
<1>6. /\ permitted' \in [Sessions -> SUBSET Capabilities] /\ capabilities \subseteq permitted'[s]
      /\ \A u \in Sessions : permitted[u] \subseteq permitted'[u]
  BY <1>2, <1>3, <1>4 DEF SessionsInv, SessionsAreTyped
<1>7. TablesFit(memory.tables, permitted')
  BY <1>2, <1>6, TablesStayFit
<1>8. ASSUME NEW k \in Claims, memory'.tables.claims[k] # Absent
      PROVE  ClaimFits(memory'.tables.claims[k], memory'.tables.sessions, permitted')
  <2>1. CASE k = c
    BY <1>2, <1>3, <1>5, <1>6, <2>1 DEF TablesFit, ClaimFits
  <2>2. CASE k # c
    <3>1. memory'.tables.claims[k] = memory.tables.claims[k]
      BY <1>5, <2>2
    <3> QED
      BY <1>5, <1>7, <1>8, <3>1 DEF TablesFit
  <2> QED
    BY <2>1, <2>2
<1>9. TablesFit(memory'.tables, permitted')
  BY <1>5, <1>7, <1>8 DEF TablesFit, RuntimeMemories
<1>10. TablesFit(memory.tables, permitted)'
  BY <1>9 DEF TablesFit
<1>11. SessionsAreTyped' /\ BindingFits'
  BY <1>4, <1>5, <1>6 DEF SessionsInv, SessionsAreTyped, BindingFits
<1> QED
  BY <1>4, <1>5, <1>6, <1>10, <1>11, BatchGoesOn, WrittenFits

(* A batch: its claim is used up, its session is lent each capability, and *)
(* the primary one is restored.                                            *)
LEMMA BeginBatchFits ==
  ASSUME SessionsInv, NEW c \in Claims, NEW s \in Sessions, BeginBatch(c, s)
  PROVE  SessionsInv'
<1>1. PICK claim : claim = memory.tables.claims[c]
  OBVIOUS
<1>2. /\ claim # Absent /\ claim.session = s /\ claim \in ClaimStates
      /\ memory \in RuntimeMemories /\ TablesFit(memory.tables, permitted)
      /\ memory.tables.claims \in [Claims -> ClaimStates \cup {Absent}]
  BY <1>1 DEF BeginBatch, SessionsInv, SessionsAreTyped, RuntimeMemories, Tables
<1>3. PICK lent : lent = [session |-> s, primary |-> claim.primary, left |-> claim.capabilities]
  OBVIOUS
<1>4. /\ memory' = Claimed(memory, c, Absent) /\ Persists /\ batch' = lent /\ binding = Absent
      /\ UNCHANGED <<sessionHost, binding, permitted>>
  BY <1>1, <1>3 DEF BeginBatch, Claimed, Enabled
<1>5. /\ lent \in [session : Sessions, primary : Capabilities, left : SUBSET Capabilities]
      /\ lent.session = s /\ lent.primary = claim.primary /\ lent.left = claim.capabilities
  BY <1>2, <1>3 DEF ClaimStates
<1>6. /\ claim.capabilities \cup {claim.primary} \subseteq permitted[s]
      /\ memory.tables.sessions[s] # Absent
  BY <1>1, <1>2, SessionsAssumption DEF TablesFit, ClaimFits
<1>7. /\ memory' \in RuntimeMemories
      /\ memory'.tables.claims = [memory.tables.claims EXCEPT ![c] = Absent]
      /\ memory'.tables.sessions = memory.tables.sessions /\ memory'.state = memory.state
  <2>1. PICK none \in ClaimStates \cup {Absent} : none = Absent
    OBVIOUS
  <2>2. memory' = Claimed(memory, c, none)
    BY <1>4, <2>1
  <2>3. /\ memory' \in RuntimeMemories
        /\ memory'.tables.claims = [memory.tables.claims EXCEPT ![c] = none]
        /\ memory'.tables.sessions = memory.tables.sessions /\ memory'.state = memory.state
    BY <1>2, <2>2, ClaimingMemory
  <2> QED
    BY <2>1, <2>3
<1>8. ASSUME NEW k \in Claims, memory'.tables.claims[k] # Absent
      PROVE  ClaimFits(memory'.tables.claims[k], memory'.tables.sessions, permitted)
  <2>1. memory'.tables.claims[k] = memory.tables.claims[k]
    BY <1>2, <1>7, <1>8
  <2> QED
    BY <1>2, <1>7, <1>8, <2>1 DEF TablesFit
<1>9. TablesFit(memory'.tables, permitted)
  BY <1>2, <1>7, <1>8 DEF TablesFit, RuntimeMemories
<1>10. TablesFit(memory.tables, permitted)'
  BY <1>4, <1>9 DEF TablesFit
<1>11. SessionsAreTyped' /\ BindingFits'
  BY <1>4, <1>5, <1>7 DEF SessionsInv, SessionsAreTyped, BindingFits
<1> QED
  BY <1>4, <1>5, <1>6, <1>7, <1>10, <1>11, WrittenFits

(* The session of the batch speaks for one of the capabilities lent to it. *)
LEMMA LendingFits ==
  ASSUME SessionsInv, batch # Absent, NEW c \in batch.left \cup {batch.primary},
         memory' = Spoken(memory, batch.session, c)
  PROVE  /\ memory' \in RuntimeMemories /\ memory'.state = memory.state
         /\ memory'.tables.claims = memory.tables.claims
         /\ memory'.tables.branches = memory.tables.branches
         /\ \A u \in Sessions \ {batch.session} : memory'.tables.sessions[u] = memory.tables.sessions[u]
         /\ memory'.tables.sessions[batch.session] # Absent
         /\ TablesFit(memory'.tables, permitted)
<1>1. PICK s : s = batch.session
  OBVIOUS
<1>2. /\ s \in Sessions /\ c \in Capabilities /\ c \in permitted[s] /\ c # Absent
      /\ memory \in RuntimeMemories /\ TablesFit(memory.tables, permitted)
      /\ memory.tables.sessions \in [Sessions -> Capabilities \cup {Absent}]
  BY <1>1, SessionsAssumption DEF SessionsInv, SessionsAreTyped, BatchFits, RuntimeMemories, Tables
<1>3. memory' = Spoken(memory, s, c)
  BY <1>1
<1>4. /\ memory' \in RuntimeMemories
      /\ memory'.tables.sessions = [memory.tables.sessions EXCEPT ![s] = c]
      /\ memory'.tables.claims = memory.tables.claims
      /\ memory'.tables.branches = memory.tables.branches
      /\ memory'.state = memory.state
  BY <1>2, <1>3, SpeakingMemory
<1>5. memory'.tables \in Tables
  BY <1>4 DEF RuntimeMemories
<1>6. TablesFit(memory'.tables, permitted)
  BY <1>2, <1>4, <1>5, SpeakingTablesFit
<1>7. /\ \A u \in Sessions \ {s} : memory'.tables.sessions[u] = memory.tables.sessions[u]
      /\ memory'.tables.sessions[s] = c
  BY <1>2, <1>4
<1> QED
  BY <1>1, <1>2, <1>4, <1>6, <1>7

(* One result of the batch is delivered, or fails.                         *)
LEMMA DeliverNextFits ==
  ASSUME SessionsInv, NEW c \in Capabilities, DeliverNext(c)
  PROVE  SessionsInv'
<1>1. /\ batch # Absent /\ c \in batch.left /\ binding = Absent
      /\ memory' = Spoken(memory, batch.session, c)
      /\ UNCHANGED <<sessionHost, permitted, disk, binding>>
      /\ batch \in [session : Sessions, primary : Capabilities, left : SUBSET Capabilities]
  BY DEF DeliverNext, Spoken, KeepsHistory, SessionsInv, SessionsAreTyped
<1>2. /\ memory' \in RuntimeMemories /\ memory'.state = memory.state
      /\ memory'.tables.claims = memory.tables.claims
      /\ memory'.tables.branches = memory.tables.branches
      /\ \A u \in Sessions \ {batch.session} : memory'.tables.sessions[u] = memory.tables.sessions[u]
      /\ memory'.tables.sessions[batch.session] # Absent
      /\ TablesFit(memory'.tables, permitted)
  BY <1>1, LendingFits
<1>3. TablesFit(memory.tables, permitted)' /\ TablesFit(disk, permitted)'
  BY <1>1, <1>2 DEF SessionsInv, TablesFit
<1>4. \/ batch' = Absent
      \/ /\ batch' \in [session : Sessions, primary : Capabilities, left : SUBSET Capabilities]
         /\ batch'.session = batch.session /\ batch'.primary = batch.primary
         /\ batch'.left \subseteq batch.left
  <2>1. CASE batch' = Absent
    BY <2>1
  <2>2. CASE batch' = [batch EXCEPT !.left = @ \ {c}]
    BY <1>1, <2>2
  <2> QED
    BY <2>1, <2>2 DEF DeliverNext
<1>5. BatchFits'
  BY <1>1, <1>2, <1>4 DEF SessionsInv, BatchFits, Persistent
<1>6. BindingsAreDurable'
  BY <1>1, <1>2 DEF SessionsInv, BindingsAreDurable, BatchFits, Persistent
<1>7. SessionsAreTyped' /\ BindingFits'
  BY <1>1, <1>2, <1>4 DEF SessionsInv, SessionsAreTyped, BindingFits
<1> QED
  BY <1>3, <1>5, <1>6, <1>7 DEF SessionsInv

(* The batch ends.                                                         *)
LEMMA EndBatchFits ==
  ASSUME SessionsInv, EndBatch
  PROVE  SessionsInv'
<1>1. /\ batch # Absent /\ binding = Absent /\ Persists /\ batch' = Absent
      /\ memory' = Spoken(memory, batch.session, batch.primary)
      /\ UNCHANGED <<sessionHost, permitted, binding>>
  BY DEF EndBatch, Spoken, KeepsHistory
<1>2. PICK c \in batch.left \cup {batch.primary} : c = batch.primary
  OBVIOUS
<1>3. memory' = Spoken(memory, batch.session, c)
  BY <1>1, <1>2
<1>4. memory' \in RuntimeMemories /\ TablesFit(memory'.tables, permitted)
  BY <1>1, <1>3, LendingFits
<1>5. TablesFit(memory.tables, permitted)'
  BY <1>1, <1>4 DEF TablesFit
<1>6. SessionsAreTyped' /\ BindingFits'
  BY <1>1, <1>4 DEF SessionsInv, SessionsAreTyped, BindingFits
<1> QED
  BY <1>1, <1>5, <1>6, WrittenFits

(* The runtime is revoked, shut down, stopped by the kill switch, started. *)
LEMMA EndingFits ==
  ASSUME SessionsInv, RevokeRuntime \/ KillSwitch \/ SessionShutdown \/ ShutdownRuntime
  PROVE  SessionsInv'
<1>1. /\ memory \in RuntimeMemories /\ permitted \in [Sessions -> SUBSET Capabilities]
      /\ TablesFit(disk, permitted)
  BY DEF SessionsInv, SessionsAreTyped
<1>2. /\ Enabled /\ binding = Absent /\ memory.state = "enabled"
      /\ UNCHANGED <<sessionHost, permitted, batch, binding>>
  BY DEF RevokeRuntime, KillSwitch, SessionShutdown, ShutdownRuntime, Enabled, KeepsHistory
<1>3. CASE KillSwitch
  <2>1. memory' = [memory EXCEPT !.state = "killed"] /\ disk' = disk
    BY <1>3 DEF KillSwitch
  <2>2. memory' \in RuntimeMemories /\ memory'.tables = memory.tables
    BY <1>1, <2>1 DEF RuntimeMemories
  <2> QED
    BY <1>2, <2>1, <2>2, QuietFits
<1>4. CASE SessionShutdown
  <2>1. memory' = [memory EXCEPT !.pending = Absent] /\ disk' = disk
    BY <1>4 DEF SessionShutdown
  <2>2. memory' \in RuntimeMemories /\ memory'.tables = memory.tables
    BY <1>1, <2>1 DEF RuntimeMemories
  <2> QED
    BY <1>2, <2>1, <2>2, QuietFits
<1>5. ASSUME NEW state \in {"revoked", "shut down"},
             memory' = [Started(NoTables) EXCEPT !.selected = Absent, !.state = state]
      PROVE  /\ memory' \in RuntimeMemories /\ memory'.tables = NoTables /\ memory'.state = state
             /\ TablesFit(memory.tables, permitted)' /\ SessionsAreTyped' /\ BindingFits'
  <2>1. PICK m \in RuntimeMemories : m = Started(NoTables) /\ m.tables = NoTables
    BY NoTablesFit, StartedMemory
  <2>2. memory' \in RuntimeMemories /\ memory'.tables = NoTables /\ memory'.state = state
    BY <1>5, <2>1 DEF RuntimeMemories
  <2>3. TablesFit(NoTables, permitted)
    BY <1>1, NoTablesFit
  <2>4. TablesFit(memory.tables, permitted)'
    BY <1>2, <2>2, <2>3 DEF TablesFit
  <2> QED
    BY <1>2, <2>2, <2>4 DEF SessionsInv, SessionsAreTyped, BindingFits
<1>6. batch # Absent => batch.left \cup {batch.primary} \subseteq permitted[batch.session]
  BY DEF SessionsInv, BatchFits
<1>7. CASE RevokeRuntime
  <2>1. Persists /\ memory' = [Started(NoTables) EXCEPT !.selected = Absent, !.state = "revoked"]
    BY <1>7 DEF RevokeRuntime
  <2> QED
    BY <1>2, <1>5, <1>6, <2>1, WrittenFits
<1>8. CASE ShutdownRuntime
  <2>1. disk' = disk /\ memory' = [Started(NoTables) EXCEPT !.selected = Absent, !.state = "shut down"]
    BY <1>8 DEF ShutdownRuntime
  <2>2. BatchFits' /\ BindingsAreDurable'
    BY <1>2, <1>5, <1>6, <2>1 DEF BatchFits, BindingsAreDurable
  <2>3. TablesFit(disk, permitted)'
    BY <1>1, <1>2, <2>1 DEF TablesFit
  <2> QED
    BY <1>5, <2>1, <2>2, <2>3 DEF SessionsInv
<1> QED
  BY <1>3, <1>4, <1>7, <1>8

(* The next runtime reads the tables.                                      *)
LEMMA RestartFits ==
  ASSUME SessionsInv, RestartRuntime
  PROVE  SessionsInv'
<1>1. PICK tables : tables = IF Persistent THEN disk ELSE NoTables
  OBVIOUS
<1>2. /\ permitted \in [Sessions -> SUBSET Capabilities] /\ TablesFit(disk, permitted)
      /\ TablesFit(tables, permitted) /\ tables \in Tables
  BY <1>1, NoTablesFit DEF SessionsInv, SessionsAreTyped, TablesFit
<1>3. PICK state \in {"enabled", "killed"} : memory' = [Started(tables) EXCEPT !.state = state]
  BY <1>1 DEF RestartRuntime
<1>4. /\ batch' = Absent /\ binding' = Absent /\ UNCHANGED <<sessionHost, disk, permitted>>
  BY DEF RestartRuntime
<1>5. memory' \in RuntimeMemories /\ memory'.tables = tables
  <2>1. PICK m \in RuntimeMemories : m = Started(tables) /\ m.tables = tables
    BY <1>2, StartedMemory
  <2> QED
    BY <1>3, <2>1 DEF RuntimeMemories
<1>6. TablesFit(memory.tables, permitted)' /\ TablesFit(disk, permitted)'
  BY <1>2, <1>4, <1>5 DEF TablesFit
<1>7. BindingsAreDurable'
  BY <1>1, <1>4, <1>5 DEF BindingsAreDurable, Persistent
<1> QED
  BY <1>2, <1>4, <1>5, <1>6, <1>7 DEF SessionsInv, SessionsAreTyped, BatchFits, BindingFits

(* The invariant holds at first.                                           *)
LEMMA SessionsStart ==
  SessionsInit => SessionsInv
<1> SUFFICES ASSUME SessionsInit PROVE SessionsInv
  OBVIOUS
<1>1. /\ permitted \in [Sessions -> SUBSET Capabilities]
      /\ memory = Started(NoTables) /\ disk = NoTables /\ batch = Absent /\ binding = Absent
  BY DEF SessionsInit
<1>2. memory \in RuntimeMemories /\ memory.tables = NoTables
  BY <1>1, NoTablesFit, StartedMemory
<1>3. TablesFit(memory.tables, permitted) /\ TablesFit(disk, permitted)
  BY <1>1, <1>2, NoTablesFit
<1> QED
  BY <1>1, <1>2, <1>3
     DEF SessionsInv, SessionsAreTyped, BatchFits, BindingFits, BindingsAreDurable

(* Every step of the runtimes keeps the invariant.                         *)
LEMMA SessionsStepFits ==
  SessionsInv /\ [SessionsNext]_sessionVars => SessionsInv'
<1> SUFFICES ASSUME SessionsInv, [SessionsNext]_sessionVars PROVE SessionsInv'
  OBVIOUS
<1>1. CASE \/ \E e \in Entries :
                BeforeBranch(e) \/ \E s \in Sessions, c \in Capabilities : RegisterBranch(e, s, c)
           \/ \E s \in Sessions : ActivateSession(s)
  BY <1>1, BranchesFit
<1>2. CASE \E s \in Sessions : StartSession(s)
  BY <1>2, StartSessionFits
<1>3. CASE \E c \in Claims, capabilities \in SUBSET Capabilities, p \in Capabilities :
             RegisterClaim(c, capabilities, p)
  BY <1>3, RegisterClaimFits
<1>4. CASE \E c \in Claims, s \in Sessions : BindClaim(c, s)
  BY <1>4, BindClaimFits
<1>5. CASE \E c \in Claims, s \in Sessions : BeginBatch(c, s)
  BY <1>5, BeginBatchFits
<1>6. CASE RecordBinding
  BY <1>6, RecordBindingFits
<1>7. CASE \E c \in Capabilities : DeliverNext(c)
  BY <1>7, DeliverNextFits
<1>8. CASE EndBatch
  BY <1>8, EndBatchFits
<1>9. CASE RevokeRuntime \/ KillSwitch \/ SessionShutdown \/ ShutdownRuntime
  BY <1>9, EndingFits
<1>10. CASE RestartRuntime
  BY <1>10, RestartFits
<1>11. CASE UNCHANGED sessionVars
  BY <1>11 DEF sessionVars, SessionsInv, SessionsAreTyped, TablesFit, BatchFits, BindingFits,
       BindingsAreDurable, Persistent
<1> QED
  BY <1>1, <1>2, <1>3, <1>4, <1>5, <1>6, <1>7, <1>8, <1>9, <1>10, <1>11
     DEF SessionsNext, OMPRuntime, ClaudeRuntime, CodexRuntime

(* The tables of a runtime and its file agree, and every claim and batch   *)
(* names only what is permitted to its session (adapters/*/src/index.ts).  *)
THEOREM SessionsAreSound ==
  SessionsSpec => []SessionsInv
BY SessionsStart, SessionsStepFits, PTL DEF SessionsSpec

(* A session speaks only for the capability it was started with or for     *)
(* those of a claim bound to it (registerSessionStart, bindThreadClaim,    *)
(* deliverBatch).                                                          *)
THEOREM SessionsSpeakForTheirs ==
  SessionsSpec => []SessionStaysInItsClaim
<1>1. SessionsInv => SessionStaysInItsClaim
  BY DEF SessionsInv, TablesFit, SessionStaysInItsClaim
<1> QED
  BY <1>1, SessionsAreSound, PTL

(* A restart of the runtime finds every branch, claim and bound session    *)
(* (persistSessions).                                                      *)
THEOREM RestartsFindBindings ==
  SessionsSpec => []BindingsAreDurable
<1>1. SessionsInv => BindingsAreDurable
  BY DEF SessionsInv
<1> QED
  BY <1>1, SessionsAreSound, PTL

-----------------------------------------------------------------------------
(* The client of a worker (WorkerClient).                                  *)

CallFields == {"by", "method", "item", "cursor", "done"}
WorkerFields == {"phase", "receipts", "evidence", "scopes"}

(* A proposal rests on what the coordinator has.                           *)
Rests(p) ==
  p.receipts # {} /\ p.receipts \subseteq taken.receipts /\ p.evidence \subseteq taken.evidence

(* A call that took effect left its item at the coordinator; a proposal on *)
(* its way rests on what is there already.                                 *)
CallFits(c) ==
  /\ DOMAIN c = CallFields
  /\ c.done /\ c.method = "artifact.publish.v1" => c.item \in taken.evidence
  /\ c.done /\ c.method = "receipt.submit.v1" => c.item \in taken.receipts
  /\ c.method = "proposal.submit.v1" => Rests(c.item)

(* The client counts as accepted what the coordinator has, and accepts     *)
(* receipts only with one in hand.                                         *)
WorkerFits ==
  /\ DOMAIN worker = WorkerFields
  /\ worker.receipts \subseteq taken.receipts /\ worker.evidence \subseteq taken.evidence
  /\ worker.phase = "accepting-receipts" => worker.receipts # {}

ClientInv ==
  /\ WorkerFits
  /\ \A c \in inFlight : CallFits(c)
  /\ \A p \in taken.proposals : Rests(p)

(* What a new client remembers.                                            *)
LEMMA NewWorkerFits ==
  /\ DOMAIN NewWorker = WorkerFields
  /\ NewWorker.receipts = {} /\ NewWorker.evidence = {}
  /\ NewWorker.phase = "publishing-evidence"
BY DEF NewWorker, WorkerFields

(* A call is sent.                                                         *)
LEMMA SendingFits ==
  ASSUME ClientInv, NEW method, NEW item, NEW cursor, Sends(method, item, cursor),
         method = "proposal.submit.v1" => Rests(item)
  PROVE  ClientInv'
<1>1. PICK new : new = ClientCall(method, item, cursor)
  OBVIOUS
<1>2. /\ DOMAIN new = CallFields
      /\ new.method = method /\ new.item = item /\ new.done = FALSE
  BY <1>1 DEF ClientCall, CallFields
<1>3. inFlight' = inFlight \cup {new} /\ UNCHANGED <<worker, taken>>
  BY <1>1 DEF Sends
<1> QED
  BY <1>2, <1>3 DEF ClientInv, CallFits, WorkerFits, Rests

(* The continuation of a method runs.                                      *)
LEMMA ReturningFits ==
  ASSUME ClientInv, NEW c \in inFlight, NEW client, Returns(c, client),
         DOMAIN client = WorkerFields,
         client.receipts \subseteq taken.receipts, client.evidence \subseteq taken.evidence,
         client.phase = "accepting-receipts" => client.receipts # {}
  PROVE  ClientInv'
BY DEF Returns, ClientInv, CallFits, WorkerFits, Rests

(* An answer is there, and the method goes on.                             *)
LEMMA ContinuationFits ==
  ASSUME ClientInv, NEW c \in inFlight,
         \/ EvidencePublished(c) \/ ReceiptAccepted(c) \/ ProposalSubmitted(c)
         \/ \E token \in ResumeTokens, cursor \in 0 .. MaxRunSequence : DecisionsFollowed(c, token, cursor)
  PROVE  ClientInv'
<1>1. CallFits(c) /\ WorkerFits
  BY DEF ClientInv
<1>2. CASE EvidencePublished(c)
  <2>1. PICK client : client = [worker EXCEPT !.evidence = @ \cup {c.item}]
    OBVIOUS
  <2>2. /\ DOMAIN client = WorkerFields
        /\ client.receipts = worker.receipts /\ client.phase = worker.phase
        /\ client.evidence = worker.evidence \cup {c.item}
    BY <1>1, <2>1 DEF WorkerFits, WorkerFields
  <2>3. Returns(c, client) /\ c.item \in taken.evidence
    BY <1>1, <1>2, <2>1 DEF EvidencePublished, Returns, CallFits
  <2> QED
    BY <1>1, <2>2, <2>3, ReturningFits DEF WorkerFits
<1>3. CASE ReceiptAccepted(c)
  <2>1. PICK client :
          client = [worker EXCEPT !.receipts = @ \cup {c.item}, !.phase = "accepting-receipts"]
    OBVIOUS
  <2>2. /\ DOMAIN client = WorkerFields
        /\ client.receipts = worker.receipts \cup {c.item}
        /\ client.evidence = worker.evidence
    BY <1>1, <2>1 DEF WorkerFits, WorkerFields
  <2>3. Returns(c, client) /\ c.item \in taken.receipts
    BY <1>1, <1>3, <2>1 DEF ReceiptAccepted, Returns, CallFits
  <2> QED
    BY <1>1, <2>2, <2>3, ReturningFits DEF WorkerFits
<1>4. CASE ProposalSubmitted(c)
  <2>1. PICK client : client = [worker EXCEPT !.phase = "submitted"]
    OBVIOUS
  <2>2. /\ DOMAIN client = WorkerFields /\ client.phase = "submitted"
        /\ client.receipts = worker.receipts /\ client.evidence = worker.evidence
    BY <1>1, <2>1 DEF WorkerFits, WorkerFields
  <2>3. Returns(c, client)
    BY <1>4, <2>1 DEF ProposalSubmitted
  <2> QED
    BY <1>1, <2>2, <2>3, ReturningFits DEF WorkerFits
<1>5. ASSUME NEW token \in ResumeTokens, NEW cursor \in 0 .. MaxRunSequence,
             DecisionsFollowed(c, token, cursor)
      PROVE  ClientInv'
  <2>1. PICK scopes : scopes = Scoped([token |-> token, proposal |-> c.item, cursor |-> cursor])
    OBVIOUS
  <2>2. PICK client : client = [worker EXCEPT !.scopes = scopes]
    OBVIOUS
  <2>3. /\ DOMAIN client = WorkerFields /\ client.phase = worker.phase
        /\ client.receipts = worker.receipts /\ client.evidence = worker.evidence
    BY <1>1, <2>2 DEF WorkerFits, WorkerFields
  <2>4. Returns(c, client)
    BY <1>5, <2>1, <2>2 DEF DecisionsFollowed
  <2> QED
    BY <1>1, <2>3, <2>4, ReturningFits DEF WorkerFits
<1> QED
  BY <1>2, <1>3, <1>4, <1>5

(* The coordinator takes a call, once.                                     *)
LEMMA TakingFits ==
  ASSUME ClientInv, NEW c \in inFlight, TakesEffect(c)
  PROVE  ClientInv'
<1>1. CallFits(c)
  BY DEF ClientInv
<1>2. PICK d : d = [c EXCEPT !.done = TRUE]
  OBVIOUS
<1>3. DOMAIN d = CallFields /\ d.method = c.method /\ d.item = c.item
  BY <1>1, <1>2 DEF CallFits, CallFields
<1>4. inFlight' = (inFlight \ {c}) \cup {d} /\ UNCHANGED worker
  BY <1>2 DEF TakesEffect
<1>5. /\ taken'.evidence = Takes(taken.evidence, c, "artifact.publish.v1")
      /\ taken'.receipts = Takes(taken.receipts, c, "receipt.submit.v1")
      /\ taken'.proposals = Takes(taken.proposals, c, "proposal.submit.v1")
  BY DEF TakesEffect
<1>6. /\ taken.evidence \subseteq taken'.evidence
      /\ taken.receipts \subseteq taken'.receipts
      /\ \/ taken'.proposals = taken.proposals
         \/ c.method = "proposal.submit.v1" /\ taken'.proposals = taken.proposals \cup {c.item}
      /\ c.method = "artifact.publish.v1" => c.item \in taken'.evidence
      /\ c.method = "receipt.submit.v1" => c.item \in taken'.receipts
  BY <1>5 DEF Takes
<1>7. \A p : Rests(p) => Rests(p)'
  BY <1>6 DEF Rests
<1>8. CallFits(d)'
  BY <1>1, <1>3, <1>6, <1>7 DEF CallFits
<1>9. \A e \in inFlight : CallFits(e)'
  BY <1>6, <1>7 DEF ClientInv, CallFits
<1>10. WorkerFits'
  BY <1>4, <1>6 DEF ClientInv, WorkerFits
<1>11. \A p \in taken'.proposals : Rests(p)'
  BY <1>1, <1>6, <1>7 DEF ClientInv, CallFits
<1> QED
  BY <1>4, <1>8, <1>9, <1>10, <1>11 DEF ClientInv

(* The invariant holds at first.                                           *)
LEMMA ClientStarts ==
  ClientInit => ClientInv
BY NewWorkerFits DEF ClientInit, ClientInv, WorkerFits

(* Every step of the client and the coordinator keeps the invariant.       *)
LEMMA ClientStepFits ==
  ClientInv /\ [ClientNext]_clientVars => ClientInv'
<1> SUFFICES ASSUME ClientInv, [ClientNext]_clientVars PROVE ClientInv'
  OBVIOUS
<1>1. ASSUME NEW e \in Evidence, PublishEvidence(e)
      PROVE  ClientInv'
  BY <1>1, SendingFits DEF PublishEvidence
<1>2. ASSUME NEW r \in WorkReceipts \cup Strangers, SubmitReceipt(r)
      PROVE  ClientInv'
  BY <1>2, SendingFits DEF SubmitReceipt
<1>3. ASSUME NEW p, SubmitProposal(p)
      PROVE  ClientInv'
  <2>1. Rests(p)
    BY <1>3 DEF SubmitProposal, IsBoundProposal, ClientInv, WorkerFits, Rests
  <2> QED
    BY <1>3, <2>1, SendingFits DEF SubmitProposal
<1>4. ASSUME NEW p, SubscribeDecisions(p)
      PROVE  ClientInv'
  BY <1>4, SendingFits DEF SubscribeDecisions
<1>5. CASE \E c \in inFlight :
             \/ EvidencePublished(c) \/ ReceiptAccepted(c) \/ ProposalSubmitted(c)
             \/ \E token \in ResumeTokens, cursor \in 0 .. MaxRunSequence : DecisionsFollowed(c, token, cursor)
  BY <1>5, ContinuationFits
<1>6. CASE \E c \in inFlight : TakesEffect(c)
  BY <1>6, TakingFits
<1>7. CASE \E c \in inFlight : Throws(c)
  BY <1>7 DEF Throws, ClientInv, WorkerFits, CallFits, Rests
<1>8. CASE RunGoesOn
  BY <1>8 DEF RunGoesOn, ClientInv, WorkerFits, CallFits, Rests
<1>9. CASE WorkerClientV1
  BY <1>9, NewWorkerFits DEF WorkerClientV1, ClientInv, WorkerFits, CallFits, Rests
<1>10. CASE UNCHANGED clientVars
  BY <1>10 DEF clientVars, ClientInv, WorkerFits, CallFits, Rests
<1> QED
  BY <1>1, <1>2, <1>3, <1>4, <1>5, <1>6, <1>7, <1>8, <1>9, <1>10 DEF ClientNext

(* A proposal that is on its way or accepted rests on receipts and         *)
(* evidence that the coordinator has, whatever overlaps, is lost or begins *)
(* again (submitProposal, #assertProposal).                                *)
THEOREM ProposalsRest ==
  ClientSpec => []ProposalNamesWhatWasAccepted
<1>1. ClientInv => ProposalNamesWhatWasAccepted
  BY DEF ClientInv, ProposalNamesWhatWasAccepted, CallFits, Rests
<1> QED
  BY <1>1, ClientStarts, ClientStepFits, PTL DEF ClientSpec

-----------------------------------------------------------------------------
(* The commands of the command line (CliWorkspace).                        *)

CliRequests == [id : Nat, command : Commands, cursor : Int]
(* The places at which a command has saved the request it makes.           *)
Committed == {"sending", "waiting", "accepted", "granted", "rejected"}
CliSteps == {"idle", "checking", "observing", "saving", "leaving"} \cup Committed

CliIsTyped ==
  /\ terminal \in [Terminals -> [at : CliSteps, wants : Commands \cup {"query", NoOperation},
                                 pending : CliRequests \cup {NoRequest}]]
  /\ saved \in [pending : CliRequests \cup {NoRequest}, grant : Nat]
  /\ wire \subseteq [from : Terminals \cup {Nobody}, request : CliRequests, preflight : BOOLEAN]
  /\ authority \in [head : Int, applied : SUBSET CliRequests, stopped : BOOLEAN]
  /\ bounds \in [ids : Nat, moves : Int, faults : Int]

Refused(q) ==
  /\ q.command \in {"run create", "task add"}
  /\ q \notin authority.applied /\ q.cursor < authority.head

IsKnown(q) == saved.grant <= q.id /\ q.id <= bounds.ids /\ q.cursor <= authority.head

TerminalFits(t) ==
  LET pending == terminal[t].pending
      wants == terminal[t].wants
  IN  /\ ~At(t, "idle") => workspaceLock = t /\ wants \in Commands \cup {"query"}
      /\ At(t, "observing") /\ wants # "query" => saved.pending = NoRequest
      /\ At(t, "saving") =>
           pending \in CliRequests /\ saved.pending \in {NoRequest, pending} /\ IsKnown(pending)
      /\ terminal[t].at \in Committed => pending \in CliRequests /\ saved.pending = pending
      /\ At(t, "granted") => saved.grant = pending.id
      /\ At(t, "rejected") /\ pending.command # "task start" => Refused(pending)

SavedFits ==
  /\ saved.pending # NoRequest => IsKnown(saved.pending)
  /\ saved.grant <= bounds.ids

WireFits(r) ==
  /\ r.from # Nobody => At(r.from, "waiting") /\ terminal[r.from].pending = r.request
  /\ r.preflight => r.request.command = "task start"
  /\ r.request.command # "task start" => Retained(r.request) \/ Refused(r.request)
  /\ r.request.cursor <= authority.head

OneAnswer == \A r, s \in wire : r.from = s.from /\ r.from # Nobody => r = s

CliInv ==
  /\ CliIsTyped /\ SavedFits /\ OneAnswer /\ AppendsAreRecovered
  /\ \A t \in Terminals : TerminalFits(t)
  /\ \A r \in wire : WireFits(r)

(* The command in terminal t comes to a place, and no other one moves.     *)
CommandTurn(t, at, wants, pending) ==
  /\ terminal' \in [Terminals -> [at : CliSteps, wants : Commands \cup {"query", NoOperation},
                                  pending : CliRequests \cup {NoRequest}]]
  /\ terminal'[t].at = at /\ terminal'[t].wants = wants /\ terminal'[t].pending = pending
  /\ \A u \in Terminals \ {t} : terminal'[u] = terminal[u]

(* A command comes to a place.                                             *)
LEMMA CommandComes ==
  ASSUME CliIsTyped, NEW t \in Terminals, NEW at \in CliSteps, Comes(t, at)
  PROVE  CommandTurn(t, at, terminal[t].wants, terminal[t].pending)
BY DEF CliIsTyped, CommandTurn, Comes

(* A command takes up a request.                                           *)
LEMMA CommandPends ==
  ASSUME CliIsTyped, NEW t \in Terminals, NEW q \in CliRequests,
         terminal' = [terminal EXCEPT ![t].at = "saving", ![t].pending = q]
  PROVE  CommandTurn(t, "saving", terminal[t].wants, q)
BY DEF CliIsTyped, CommandTurn, CliSteps

(* No request is none of the requests.                                     *)
LEMMA NoRequestIsNone ==
  NoRequest \notin CliRequests
BY CommandsAssumption, NamesAssumption DEF CliRequests, NoRequest

(* One command at a time is active: it has the lock.                       *)
LEMMA OneCommand ==
  ASSUME CliInv, NEW t \in Terminals, ~At(t, "idle") \/ workspaceLock \notin Terminals
  PROVE  \A u \in Terminals \ {t} : At(u, "idle")
BY DEF CliInv, TerminalFits

(* Nothing is asked of a terminal without a command.                       *)
LEMMA IdleFits ==
  ASSUME NEW t \in Terminals, At(t, "idle")
  PROVE  TerminalFits(t)
BY DEF At, TerminalFits, Committed

(* A step of the one active command that leaves wire and authority.        *)
LEMMA CommandStepFits ==
  ASSUME CliInv, NEW t \in Terminals, ~At(t, "idle") \/ workspaceLock \notin Terminals,
         ~At(t, "waiting"),
         NEW at, NEW wants, NEW pending, CommandTurn(t, at, wants, pending),
         wire' = wire, authority' = authority,
         saved' \in [pending : CliRequests \cup {NoRequest}, grant : Nat],
         bounds' \in [ids : Nat, moves : Int, faults : Int],
         TerminalFits(t)', SavedFits',
         \A q \in CliRequests :
           q.command # "task start" /\ Retained(q) => Retained(q)' \/ Refused(q)
  PROVE  CliInv'
<1>1. CliIsTyped'
  BY DEF CliInv, CliIsTyped, CommandTurn
<1>2. \A u \in Terminals : TerminalFits(u)'
  <2> SUFFICES ASSUME NEW u \in Terminals \ {t}
               PROVE  TerminalFits(u)'
    OBVIOUS
  <2>1. terminal'[u].at = "idle"
    BY OneCommand DEF CommandTurn, At
  <2> QED
    BY <2>1 DEF TerminalFits, At, Committed
<1>3. ASSUME NEW r \in wire
      PROVE  WireFits(r)'
  <2>1. WireFits(r) /\ r.request \in CliRequests /\ r.from \in Terminals \cup {Nobody}
    BY <1>3 DEF CliInv, CliIsTyped
  <2>2. r.from # t
    BY <2>1, NamesAssumption DEF WireFits
  <2>3. r.from # Nobody => terminal'[r.from] = terminal[r.from]
    BY <2>1, <2>2 DEF CommandTurn
  <2>4. Refused(r.request)' <=> Refused(r.request)
    BY DEF Refused
  <2> QED
    BY <2>1, <2>3, <2>4 DEF WireFits, At
<1>4. AppendsAreRecovered'
  BY DEF CliInv, CliIsTyped, AppendsAreRecovered, Refused
<1>5. OneAnswer'
  BY DEF CliInv, OneAnswer
<1> QED
  BY <1>1, <1>2, <1>3, <1>4, <1>5 DEF CliInv

(* The steps of a command that save nothing and send nothing.              *)
LEMMA QuietCommandFits ==
  ASSUME CliInv, NEW t \in Terminals,
         \/ \E wants \in Commands \cup {"query"} : TakeLock(t, wants)
         \/ CheckPending(t) \/ Observe(t) \/ LeaveCommand(t)
  PROVE  CliInv'
<1> USE DEF CliInv
<1>1. /\ UNCHANGED <<saved, wire, authority, recorded>>
      /\ ~At(t, "waiting")
      /\ ~At(t, "idle") \/ workspaceLock \notin Terminals
  BY NamesAssumption DEF TakeLock, CheckPending, Observe, LeaveCommand, At
<1>2. \A q \in CliRequests :
           q.command # "task start" /\ Retained(q) => Retained(q)' \/ Refused(q)
  BY <1>1 DEF Retained
<1>3. saved' \in [pending : CliRequests \cup {NoRequest}, grant : Nat]
  BY <1>1 DEF CliIsTyped
<1>4. ASSUME NEW wants \in Commands \cup {"query"}, TakeLock(t, wants)
      PROVE  CliInv'
  <2>1. CommandTurn(t, "checking", wants, NoRequest)
    <3>1. NoCommand \in [at : CliSteps, wants : Commands \cup {"query", NoOperation},
                         pending : CliRequests \cup {NoRequest}]
      BY DEF NoCommand, CliSteps
    <3>2. PICK c : c = [NoCommand EXCEPT !.at = "checking", !.wants = wants]
      OBVIOUS
    <3>3. /\ c \in [at : CliSteps, wants : Commands \cup {"query", NoOperation},
                    pending : CliRequests \cup {NoRequest}]
          /\ c.at = "checking" /\ c.wants = wants /\ c.pending = NoRequest
      <4>1. c.at = "checking" /\ c.wants = wants /\ c.pending = NoCommand.pending
        BY <3>1, <3>2
      <4>2. c \in [at : CliSteps, wants : Commands \cup {"query", NoOperation},
                   pending : CliRequests \cup {NoRequest}]
        BY <3>1, <3>2 DEF CliSteps
      <4> QED
        BY <4>1, <4>2 DEF NoCommand
    <3>4. terminal' = [terminal EXCEPT ![t] = c]
      BY <1>4, <3>2 DEF TakeLock
    <3> QED
      BY <3>3, <3>4 DEF CliIsTyped, CommandTurn
  <2>2. TerminalFits(t)' /\ SavedFits' /\ bounds' \in [ids : Nat, moves : Int, faults : Int]
    BY <1>1, <1>4, <2>1 DEF TakeLock, TerminalFits, SavedFits, CommandTurn, At, Committed, IsKnown,
         CliIsTyped
  <2> QED
    BY <1>1, <1>2, <1>3, <2>1, <2>2, CommandStepFits
<1>5. CASE CheckPending(t)
  <2>1. SavedFits' /\ bounds' \in [ids : Nat, moves : Int, faults : Int]
    BY <1>1, <1>5 DEF CheckPending, SavedFits, IsKnown, CliIsTyped
  <2>2. workspaceLock = t /\ workspaceLock' = t /\ terminal[t].wants \in Commands \cup {"query"}
    BY <1>5 DEF CheckPending, TerminalFits, At
  <2>3. CASE Comes(t, "observing") /\ (terminal[t].wants = "query" \/ saved.pending = NoRequest)
    <3>1. CommandTurn(t, "observing", terminal[t].wants, terminal[t].pending)
      BY <2>3, CommandComes DEF CliSteps
    <3>2. TerminalFits(t)'
      BY <1>1, <2>2, <2>3, <3>1 DEF TerminalFits, CommandTurn, At, Committed
    <3> QED
      BY <1>1, <1>2, <1>3, <2>1, <3>1, <3>2, CommandStepFits
  <2>4. CASE Comes(t, "leaving")
    <3>1. CommandTurn(t, "leaving", terminal[t].wants, terminal[t].pending)
      BY <2>4, CommandComes DEF CliSteps
    <3>2. TerminalFits(t)'
      BY <1>1, <2>2, <3>1 DEF TerminalFits, CommandTurn, At, Committed
    <3> QED
      BY <1>1, <1>2, <1>3, <2>1, <3>1, <3>2, CommandStepFits
  <2>5. CASE /\ terminal[t].wants # "query" /\ saved.pending.command = terminal[t].wants
             /\ terminal' = [terminal EXCEPT ![t].at = "saving", ![t].pending = saved.pending]
    <3>1. saved.pending # NoRequest
      BY <2>2, <2>5, CommandsAssumption, NamesAssumption DEF NoRequest
    <3>2. saved.pending \in CliRequests
      BY <3>1 DEF CliIsTyped
    <3>3. CommandTurn(t, "saving", terminal[t].wants, saved.pending)
      BY <2>5, <3>2, CommandPends
    <3>4. TerminalFits(t)'
      BY <1>1, <1>5, <2>2, <3>1, <3>2, <3>3
         DEF CheckPending, TerminalFits, CommandTurn, At, Committed, SavedFits, IsKnown
    <3> QED
      BY <1>1, <1>2, <1>3, <2>1, <3>3, <3>4, CommandStepFits
  <2> QED
    BY <1>5, <2>3, <2>4, <2>5 DEF CheckPending
<1>6. CASE Observe(t)
  <2>1. workspaceLock = t /\ workspaceLock' = t /\ terminal[t].wants \in Commands \cup {"query"}
    BY <1>6 DEF Observe, TerminalFits, At
  <2>2. CASE Comes(t, "leaving") /\ UNCHANGED bounds
    <3>1. CommandTurn(t, "leaving", terminal[t].wants, terminal[t].pending)
      BY <2>2, CommandComes DEF CliSteps
    <3>2. TerminalFits(t)' /\ SavedFits' /\ bounds' \in [ids : Nat, moves : Int, faults : Int]
      BY <1>1, <2>1, <2>2, <3>1 DEF TerminalFits, CommandTurn, At, Committed, SavedFits, IsKnown,
         CliIsTyped
    <3> QED
      BY <1>1, <1>2, <1>3, <3>1, <3>2, CommandStepFits
  <2>3. CASE /\ terminal[t].wants # "query"
             /\ bounds' = [bounds EXCEPT !.ids = @ + 1]
             /\ terminal' = [terminal EXCEPT ![t].at = "saving",
                                             ![t].pending = NewRequest(terminal[t].wants)]
    <3>1. PICK q : q = NewRequest(terminal[t].wants)
      OBVIOUS
    <3>2. /\ q \in CliRequests /\ q.id = bounds.ids + 1 /\ q.cursor = authority.head
      BY <2>1, <2>3, <3>1 DEF NewRequest, CliRequests, CliIsTyped
    <3>3. CommandTurn(t, "saving", terminal[t].wants, q)
      BY <2>3, <3>1, <3>2, CommandPends
    <3>4. saved.pending = NoRequest
      BY <1>6, <2>3 DEF Observe, TerminalFits
    <3>5. bounds'.ids = bounds.ids + 1 /\ bounds' \in [ids : Nat, moves : Int, faults : Int]
      BY <2>3 DEF CliIsTyped
    <3>6. /\ saved.grant \in Nat /\ bounds.ids \in Nat /\ authority.head \in Int
          /\ saved.grant <= bounds.ids
      BY DEF CliIsTyped, SavedFits
    <3>7. SavedFits'
      BY <1>1, <3>4, <3>5, <3>6 DEF SavedFits
    <3>8. IsKnown(q)'
      BY <1>1, <3>2, <3>5, <3>6 DEF IsKnown
    <3>9. TerminalFits(t)'
      BY <1>1, <2>1, <3>2, <3>3, <3>4, <3>8 DEF TerminalFits, CommandTurn, At, Committed
    <3> QED
      BY <1>1, <1>2, <1>3, <3>3, <3>5, <3>7, <3>9, CommandStepFits
  <2> QED
    BY <1>6, <2>2, <2>3 DEF Observe
<1>7. CASE LeaveCommand(t)
  <2>1. CommandTurn(t, "idle", NoOperation, NoRequest)
    BY <1>7 DEF LeaveCommand, CliIsTyped, CommandTurn, CliSteps, NoCommand
  <2>2. TerminalFits(t)' /\ SavedFits' /\ bounds' \in [ids : Nat, moves : Int, faults : Int]
    BY <1>1, <1>7, <2>1 DEF LeaveCommand, TerminalFits, CommandTurn, At, Committed, SavedFits, IsKnown,
         CliIsTyped
  <2> QED
    BY <1>1, <1>2, <1>3, <2>1, <2>2, CommandStepFits
<1> QED
  BY <1>4, <1>5, <1>6, <1>7

(* The steps of a command that save a request, a grant or a result.        *)
LEMMA SavingFits ==
  ASSUME CliInv, NEW t \in Terminals,
         SavePending(t) \/ ReplaceGrant(t) \/ SaveResult(t) \/ GiveUp(t)
  PROVE  CliInv'
<1> USE DEF CliInv
<1>1. /\ UNCHANGED <<workspaceLock, wire, authority, bounds>>
      /\ ~At(t, "waiting") /\ ~At(t, "idle")
  BY DEF SavePending, ReplaceGrant, SaveResult, GiveUp, At
<1>2. /\ bounds' \in [ids : Nat, moves : Int, faults : Int]
      /\ TerminalFits(t) /\ SavedFits
      /\ saved \in [pending : CliRequests \cup {NoRequest}, grant : Nat]
      /\ NoRequest \notin CliRequests
  BY <1>1, NoRequestIsNone DEF CliIsTyped
<1>3. PICK p : p = terminal[t].pending
  OBVIOUS
<1>4. /\ workspaceLock = t
      /\ terminal[t].wants \in Commands \cup {"query"}
  BY <1>1 DEF TerminalFits
<1>5. CASE SavePending(t)
  <2>1. CommandTurn(t, "sending", terminal[t].wants, p)
    BY <1>3, <1>5, CommandComes DEF SavePending, CliSteps, Committed
  <2>2. /\ p \in CliRequests /\ saved.pending \in {NoRequest, p} /\ IsKnown(p)
    BY <1>2, <1>3, <1>5 DEF SavePending, TerminalFits
  <2>3. /\ saved'.pending = p /\ saved'.grant = saved.grant
        /\ saved' \in [pending : CliRequests \cup {NoRequest}, grant : Nat]
    BY <1>2, <1>3, <1>5, <2>2 DEF SavePending
  <2>4. SavedFits'
    BY <1>1, <1>2, <2>2, <2>3 DEF SavedFits, IsKnown
  <2>5. TerminalFits(t)'
    BY <1>1, <1>4, <2>1, <2>2, <2>3 DEF TerminalFits, CommandTurn, At, Committed
  <2>6. ASSUME NEW q \in CliRequests, Retained(q)
        PROVE  Retained(q)'
    BY <1>2, <1>5, <2>2, <2>3, <2>6 DEF Retained, SavePending
  <2> QED
    BY <1>1, <1>2, <2>1, <2>3, <2>4, <2>5, <2>6, CommandStepFits
<1>6. CASE ReplaceGrant(t)
  <2>1. CommandTurn(t, "granted", terminal[t].wants, p)
    BY <1>3, <1>6, CommandComes DEF ReplaceGrant, CliSteps, Committed
  <2>2. p \in CliRequests /\ saved.pending = p /\ p.id \in Nat
    BY <1>2, <1>3, <1>6 DEF ReplaceGrant, TerminalFits, Committed, At, CliRequests
  <2>3. IsKnown(p)
    BY <1>2, <2>2 DEF SavedFits
  <2>4. /\ saved'.pending = p /\ saved'.grant = p.id
        /\ saved' \in [pending : CliRequests \cup {NoRequest}, grant : Nat]
    BY <1>2, <1>3, <1>6, <2>2 DEF ReplaceGrant
  <2>5. SavedFits'
    BY <1>1, <2>2, <2>3, <2>4 DEF SavedFits, IsKnown
  <2>6. TerminalFits(t)'
    BY <1>1, <1>4, <2>1, <2>2, <2>4 DEF TerminalFits, CommandTurn, At, Committed
  <2>7. ASSUME NEW q \in CliRequests, Retained(q)
        PROVE  Retained(q)'
    <3>1. q.id \in Nat /\ saved.grant \in Nat /\ saved.grant <= p.id
      BY <1>2, <2>3 DEF CliRequests, IsKnown
    <3> QED
      BY <1>6, <2>2, <2>4, <2>7, <3>1 DEF Retained, ReplaceGrant
  <2> QED
    BY <1>1, <1>2, <2>1, <2>4, <2>5, <2>6, <2>7, CommandStepFits
<1>7. CASE SaveResult(t)
  <2>1. CommandTurn(t, "leaving", terminal[t].wants, p)
    BY <1>3, <1>7, CommandComes DEF SaveResult, CliSteps
  <2>2. /\ p \in CliRequests /\ saved.pending = p /\ p.id \in Nat
        /\ p.command = "enable-execution" => saved.grant = p.id
    BY <1>2, <1>3, <1>7 DEF SaveResult, TerminalFits, Committed, At, CliRequests
  <2>3. /\ saved'.pending = NoRequest /\ saved'.grant = saved.grant
        /\ saved' \in [pending : CliRequests \cup {NoRequest}, grant : Nat]
    BY <1>2, <1>7 DEF SaveResult
  <2>4. SavedFits'
    BY <1>1, <1>2, <2>3 DEF SavedFits, IsKnown
  <2>5. TerminalFits(t)'
    BY <1>1, <1>4, <2>1, <2>3 DEF TerminalFits, CommandTurn, At, Committed
  <2>6. recorded' = recorded \cup {p}
    BY <1>3, <1>7 DEF SaveResult
  <2>7. ASSUME NEW q \in CliRequests, Retained(q)
        PROVE  Retained(q)'
    BY <2>2, <2>3, <2>6, <2>7, <1>2 DEF Retained
  <2> QED
    BY <1>1, <1>2, <2>1, <2>3, <2>4, <2>5, <2>7, CommandStepFits
<1>8. CASE GiveUp(t)
  <2>1. CommandTurn(t, "leaving", terminal[t].wants, p)
    BY <1>3, <1>8, CommandComes DEF GiveUp, CliSteps
  <2>2. /\ saved.pending = p
        /\ p.command # "task start" => Refused(p)
    BY <1>2, <1>3, <1>8 DEF GiveUp, TerminalFits, Committed, At
  <2>3. /\ saved'.pending = NoRequest /\ saved'.grant = saved.grant
        /\ saved' \in [pending : CliRequests \cup {NoRequest}, grant : Nat]
    BY <1>2, <1>8 DEF GiveUp
  <2>4. SavedFits'
    BY <1>1, <1>2, <2>3 DEF SavedFits, IsKnown
  <2>5. TerminalFits(t)'
    BY <1>1, <1>4, <2>1, <2>3 DEF TerminalFits, CommandTurn, At, Committed
  <2>6. ASSUME NEW q \in CliRequests, Retained(q), q.command # "task start"
        PROVE  Retained(q)' \/ Refused(q)
    BY <1>8, <2>2, <2>3, <2>6 DEF Retained, GiveUp
  <2> QED
    BY <1>1, <1>2, <2>1, <2>3, <2>4, <2>5, <2>6, CommandStepFits
<1> QED
  BY <1>5, <1>6, <1>7, <1>8

(* A command sends the request it saved.                                   *)
LEMMA SendFits ==
  ASSUME CliInv, NEW t \in Terminals, Send(t)
  PROVE  CliInv'
<1> USE DEF CliInv
<1>1. PICK p : p = terminal[t].pending
  OBVIOUS
<1>2. PICK new : new = [from |-> t, request |-> p, preflight |-> FALSE]
  OBVIOUS
<1>3. /\ At(t, "sending") /\ wire' = wire \cup {new}
      /\ UNCHANGED <<workspaceLock, saved, authority, recorded, bounds>>
  BY <1>1, <1>2 DEF Send
<1>4. CommandTurn(t, "waiting", terminal[t].wants, p)
  BY <1>1, CommandComes DEF Send, CliSteps, Committed
<1>5. TerminalFits(t) /\ p \in CliRequests /\ saved.pending = p /\ IsKnown(p)
  BY <1>1, <1>3, NoRequestIsNone DEF TerminalFits, Committed, At, SavedFits
<1>6. CliIsTyped'
  <2>1. new \in [from : Terminals \cup {Nobody}, request : CliRequests, preflight : BOOLEAN]
    BY <1>2, <1>5
  <2>2. wire' \subseteq [from : Terminals \cup {Nobody}, request : CliRequests, preflight : BOOLEAN]
    BY <1>3, <2>1 DEF CliIsTyped
  <2> QED
    BY <1>3, <1>4, <2>2 DEF CliIsTyped, CommandTurn
<1>7. SavedFits'
  BY <1>3 DEF SavedFits, IsKnown
<1>8. ASSUME NEW u \in Terminals
      PROVE  TerminalFits(u)'
  <2>1. CASE u = t
    BY <1>3, <1>4, <1>5, <2>1 DEF TerminalFits, CommandTurn, At, Committed
  <2>2. CASE u # t
    <3>1. terminal'[u].at = "idle"
      BY <1>3, <1>4, <2>2, OneCommand DEF CommandTurn, At
    <3> QED
      BY <3>1 DEF TerminalFits, At, Committed
  <2> QED
    BY <2>1, <2>2
<1>9. \A r \in wire : r.from # t
  BY <1>3, NamesAssumption DEF WireFits, At
<1>10. ASSUME NEW r \in wire'
       PROVE  WireFits(r)'
  <2>1. CASE r = new
    <3>1. r.from = t /\ r.request = p /\ ~r.preflight
      BY <1>2, <2>1
    <3> QED
      BY <1>3, <1>4, <1>5, <3>1 DEF WireFits, CommandTurn, At, Retained, IsKnown
  <2>2. CASE r \in wire
    <3>1. WireFits(r) /\ r.from \in Terminals \cup {Nobody} /\ r.from # t
      BY <2>2, <1>9 DEF CliIsTyped
    <3>2. r.from # Nobody => terminal'[r.from] = terminal[r.from]
      BY <1>4, <3>1 DEF CommandTurn
    <3> QED
      BY <1>3, <3>1, <3>2 DEF WireFits, At, Retained, Refused
  <2> QED
    BY <1>3, <2>1, <2>2
<1>11. OneAnswer'
  <2>1. new.from = t
    BY <1>2
  <2> QED
    BY <1>3, <1>9, <2>1 DEF OneAnswer
<1>12. AppendsAreRecovered'
  BY <1>3 DEF AppendsAreRecovered, Retained
<1> QED
  BY <1>6, <1>7, <1>8, <1>10, <1>11, <1>12

(* The answer of a terminal's request is lost.                             *)
LEMMA UnheardIs ==
  ASSUME CliInv, NEW t \in Terminals, NEW s \in Unheard(t)
  PROVE  \E r \in wire :
           /\ s.request = r.request /\ s.preflight = r.preflight
           /\ IF r.from = t THEN s.from = Nobody ELSE s = r
           /\ s \in [from : Terminals \cup {Nobody}, request : CliRequests, preflight : BOOLEAN]
<1>1. PICK r \in wire : s = IF r.from = t THEN [r EXCEPT !.from = Nobody] ELSE r
  BY DEF Unheard
<1>2. r \in [from : Terminals \cup {Nobody}, request : CliRequests, preflight : BOOLEAN]
  BY DEF CliInv, CliIsTyped
<1> QED
  BY <1>1, <1>2

(* A command that ends unheard, with its lock or without one.              *)
LEMMA UnheardFits ==
  ASSUME CliInv, NEW t \in Terminals, Interrupt(t) \/ Kill(t)
  PROVE  CliInv'
<1> USE DEF CliInv
<1>1. /\ ~At(t, "idle") /\ wire' = Unheard(t)
      /\ UNCHANGED <<saved, authority, recorded>>
      /\ bounds' \in [ids : Nat, moves : Int, faults : Int] /\ bounds'.ids = bounds.ids
  BY DEF Interrupt, Kill, At, Fault, CliIsTyped
<1>2. PICK at, wants, pending : CommandTurn(t, at, wants, pending) /\ TerminalFits(t)'
  <2>1. CASE Interrupt(t)
    <3>1. CommandTurn(t, "leaving", terminal[t].wants, terminal[t].pending)
      BY <2>1, CommandComes DEF Interrupt, CliSteps
    <3> QED
      BY <1>1, <2>1, <3>1 DEF Interrupt, TerminalFits, CommandTurn, At, Committed
  <2>2. CASE Kill(t)
    <3>1. CommandTurn(t, "idle", NoOperation, NoRequest)
      BY <2>2 DEF Kill, CliIsTyped, CommandTurn, CliSteps, NoCommand
    <3> QED
      BY <3>1 DEF TerminalFits, CommandTurn, At, Committed
  <2> QED
    BY <2>1, <2>2
<1>3. CliIsTyped'
  BY <1>1, <1>2, UnheardIs DEF CliIsTyped, CommandTurn
<1>4. SavedFits'
  BY <1>1 DEF SavedFits, IsKnown
<1>5. ASSUME NEW u \in Terminals
      PROVE  TerminalFits(u)'
  <2>1. CASE u # t
    <3>1. terminal'[u].at = "idle"
      BY <1>1, <1>2, <2>1, OneCommand DEF CommandTurn, At
    <3> QED
      BY <3>1 DEF TerminalFits, At, Committed
  <2> QED
    BY <1>2, <2>1
<1>6. ASSUME NEW s \in wire'
      PROVE  WireFits(s)'
  <2>1. PICK r \in wire :
           /\ s.request = r.request /\ s.preflight = r.preflight
           /\ IF r.from = t THEN s.from = Nobody ELSE s = r
    BY <1>1, UnheardIs
  <2>2. WireFits(r) /\ r.from \in Terminals \cup {Nobody}
    BY DEF CliIsTyped
  <2>3. s.from # Nobody => s.from = r.from /\ terminal'[r.from] = terminal[r.from]
    BY <1>2, <2>1, <2>2 DEF CommandTurn
  <2> QED
    BY <1>1, <2>1, <2>2, <2>3 DEF WireFits, At, Retained, Refused
<1>7. OneAnswer'
  <2> SUFFICES ASSUME NEW r \in wire', NEW s \in wire', r.from = s.from, r.from # Nobody
               PROVE  r = s
    BY DEF OneAnswer
  <2>1. r \in wire /\ s \in wire
    BY <1>1, UnheardIs
  <2> QED
    BY <2>1 DEF OneAnswer
<1>8. AppendsAreRecovered'
  BY <1>1 DEF AppendsAreRecovered, Retained
<1> QED
  BY <1>3, <1>4, <1>5, <1>6, <1>7, <1>8

(* A step of the daemon or of others keeps what a request was refused for. *)
AuthorityGrows ==
  /\ authority' \in [head : Int, applied : SUBSET CliRequests, stopped : BOOLEAN]
  /\ authority'.head >= authority.head /\ authority.applied \subseteq authority'.applied
  /\ \A q \in CliRequests : Refused(q) => Refused(q)'
  /\ UNCHANGED <<workspaceLock, saved, recorded>>
  /\ bounds' \in [ids : Nat, moves : Int, faults : Int] /\ bounds'.ids = bounds.ids

(* What is known of a request stays true.                                  *)
LEMMA KnownStays ==
  ASSUME CliInv, AuthorityGrows, NEW q \in CliRequests
  PROVE  /\ IsKnown(q) => IsKnown(q)'
         /\ q.cursor <= authority.head => q.cursor <= authority'.head
         /\ Retained(q) => Retained(q)'
         /\ Refused(q) => Refused(q)'
<1>1. q.cursor \in Int /\ authority.head \in Int
  BY DEF CliInv, CliIsTyped, CliRequests
<1> QED
  BY <1>1 DEF AuthorityGrows, IsKnown, Retained

(* A terminal whose command has not moved.                                 *)
LEMMA StayingTerminalFits ==
  ASSUME CliInv, AuthorityGrows, NEW t \in Terminals, terminal'[t] = terminal[t]
  PROVE  TerminalFits(t)'
<1>1. TerminalFits(t) /\ terminal[t].pending \in CliRequests \cup {NoRequest}
  BY DEF CliInv, CliIsTyped
<1>2. CASE terminal[t].pending \in CliRequests
  <2>1. LET pending == terminal[t].pending
        IN  /\ IsKnown(pending) => IsKnown(pending)'
            /\ Refused(pending) => Refused(pending)'
    BY <1>2, KnownStays
  <2>2. PICK q : q = terminal[t].pending
    OBVIOUS
  <2>3. (IsKnown(q) => IsKnown(q)') /\ (Refused(q) => Refused(q)')
    BY <1>2, <2>2, KnownStays
  <2> QED
    BY <1>1, <2>2, <2>3 DEF TerminalFits, At, AuthorityGrows
<1>3. CASE terminal[t].pending \notin CliRequests
  BY <1>1, <1>3 DEF TerminalFits, At, AuthorityGrows, Committed
<1> QED
  BY <1>2, <1>3

(* The saved request stays a known one.                                    *)
LEMMA SavedStays ==
  ASSUME CliInv, AuthorityGrows
  PROVE  SavedFits'
<1>1. SavedFits /\ saved.pending \in CliRequests \cup {NoRequest}
  BY DEF CliInv, CliIsTyped
<1>2. PICK q : q = saved.pending
  OBVIOUS
<1>3. q \in CliRequests => (IsKnown(q) => IsKnown(q)')
  BY KnownStays
<1> QED
  BY <1>1, <1>2, <1>3 DEF SavedFits, AuthorityGrows

(* A handler answers the request it was sent.                              *)
LEMMA AnswerFits ==
  ASSUME CliInv, NEW r \in wire, NEW verdict \in {"accepted", "rejected"},
         Responds(r, verdict, wire \ {r}), AuthorityGrows,
         authority'.applied \subseteq authority.applied \cup {r.request},
         verdict = "rejected" /\ r.request.command # "task start" => Refused(r.request)',
         r.request \in authority'.applied \ authority.applied => ~Refused(r.request)
  PROVE  CliInv'
<1> USE DEF CliInv
<1>1. /\ r.from \in Terminals \cup {Nobody} /\ r.request \in CliRequests /\ WireFits(r)
      /\ Nobody \notin Terminals
  BY NamesAssumption DEF CliIsTyped
<1>2. /\ terminal' \in [Terminals -> [at : CliSteps, wants : Commands \cup {"query", NoOperation},
                                      pending : CliRequests \cup {NoRequest}]]
      /\ \A u \in Terminals \ {r.from} : terminal'[u] = terminal[u]
      /\ r.from \in Terminals =>
           /\ terminal'[r.from].at = verdict
           /\ terminal'[r.from].wants = terminal[r.from].wants
           /\ terminal'[r.from].pending = terminal[r.from].pending
  BY ZenonT(60), <1>1 DEF Responds, CliIsTyped, CliSteps, Committed
<1>3. wire' = wire \ {r}
  BY DEF Responds
<1>4. CliIsTyped'
  BY <1>2, <1>3 DEF CliIsTyped, AuthorityGrows
<1>5. ASSUME NEW u \in Terminals
      PROVE  TerminalFits(u)'
  <2>1. CASE u # r.from
    BY <1>2, <2>1, StayingTerminalFits
  <2>2. CASE u = r.from
    <3>1. /\ At(u, "waiting") /\ terminal[u].pending = r.request /\ TerminalFits(u)
      BY <1>1, <2>2 DEF WireFits
    <3>2. /\ workspaceLock = u /\ terminal[u].wants \in Commands \cup {"query"}
          /\ saved.pending = r.request
      BY <3>1 DEF TerminalFits, At, Committed
    <3>3. PICK q \in CliRequests : q = r.request
      BY <1>1
    <3>4. /\ terminal'[u].at = verdict /\ terminal'[u].pending = q
          /\ terminal'[u].wants = terminal[u].wants
      BY <1>2, <2>2, <3>1, <3>3
    <3>5. verdict = "rejected" /\ q.command # "task start" => Refused(q)'
      BY <3>3
    <3> HIDE DEF CliInv
    <3> QED
      BY <3>2, <3>3, <3>4, <3>5 DEF TerminalFits, At, AuthorityGrows, Committed
  <2> QED
    BY <2>1, <2>2
<1>6. ASSUME NEW s \in wire'
      PROVE  WireFits(s)'
  <2>1. /\ s \in wire /\ s # r /\ WireFits(s) /\ s.request \in CliRequests
        /\ s.from \in Terminals \cup {Nobody}
    BY <1>3 DEF CliIsTyped
  <2>2. s.from # Nobody => terminal'[s.from] = terminal[s.from]
    BY <1>2, <2>1 DEF OneAnswer
  <2>3. PICK q : q = s.request
    OBVIOUS
  <2>4. /\ q.cursor <= authority.head => q.cursor <= authority'.head
        /\ Retained(q) => Retained(q)'
        /\ Refused(q) => Refused(q)'
    BY <2>1, <2>3, KnownStays
  <2> QED
    BY <2>1, <2>2, <2>3, <2>4 DEF WireFits, At
<1>7. OneAnswer'
  BY <1>3 DEF OneAnswer
<1>8. AppendsAreRecovered'
  <2> SUFFICES ASSUME NEW q \in authority'.applied, q.command # "task start"
               PROVE  Retained(q)'
    BY DEF AppendsAreRecovered
  <2>1. q \in CliRequests
    BY DEF AuthorityGrows
  <2>2. Retained(q)
    BY <1>1 DEF AppendsAreRecovered, WireFits
  <2> QED
    BY <2>1, <2>2, KnownStays
<1> QED
  BY <1>4, <1>5, <1>6, <1>7, <1>8, SavedStays

(* An operation is applied.                                                *)
LEMMA ApplyGrows ==
  ASSUME CliInv, NEW r \in wire, NEW moves \in {0, 1}, Applies(r.request, moves),
         ~Refused(r.request), UNCHANGED <<workspaceLock, saved, recorded, bounds>>
  PROVE  /\ AuthorityGrows
         /\ authority'.applied = authority.applied \cup {r.request}
<1>1. r.request \in CliRequests
  BY DEF CliInv, CliIsTyped
<1>2. /\ authority' \in [head : Int, applied : SUBSET CliRequests, stopped : BOOLEAN]
      /\ authority'.head = authority.head + moves
      /\ authority'.applied = authority.applied \cup {r.request}
      /\ authority.head \in Int /\ authority'.head >= authority.head
  <2>1. authority \in [head : Int, applied : SUBSET CliRequests, stopped : BOOLEAN]
    BY DEF CliInv, CliIsTyped
  <2>2. /\ authority' \in [head : Int, applied : SUBSET CliRequests, stopped : BOOLEAN]
        /\ authority'.head = authority.head + moves
        /\ authority'.applied = authority.applied \cup {r.request}
    <3>1. PICK a : a = authority.applied \cup {r.request}
      OBVIOUS
    <3>2. PICK h : h = authority.head + moves
      OBVIOUS
    <3>3. authority' = [authority EXCEPT !.applied = a, !.head = h]
      BY <3>1, <3>2 DEF Applies
    <3>4. a \in SUBSET CliRequests
      BY <1>1, <2>1, <3>1
    <3>5. h \in Int
      BY <2>1, <3>2
    <3> QED
      BY <2>1, <3>1, <3>2, <3>3, <3>4, <3>5
  <2>3. authority.head \in Int
    BY <2>1
  <2> QED
    BY <2>2, <2>3
<1>3. ASSUME NEW q \in CliRequests, Refused(q)
      PROVE  Refused(q)'
  <2>1. q.cursor \in Int /\ q # r.request
    BY <1>3 DEF CliRequests
  <2>2. q.cursor < authority'.head
    <3>1. q.cursor < authority.head
      BY <1>3 DEF Refused
    <3> QED
      BY <1>2, <2>1, <3>1
  <2>3. q \notin authority'.applied
    BY <1>2, <1>3, <2>1 DEF Refused
  <2> QED
    BY <1>3, <2>2, <2>3 DEF Refused
<1>4. bounds \in [ids : Nat, moves : Int, faults : Int]
  BY DEF CliInv, CliIsTyped
<1> QED
  BY <1>2, <1>3, <1>4 DEF AuthorityGrows

(* The authority stays as it is.                                           *)
LEMMA SameGrows ==
  ASSUME CliInv, UNCHANGED <<authority, workspaceLock, saved, recorded, bounds>>
  PROVE  AuthorityGrows
<1>1. /\ authority \in [head : Int, applied : SUBSET CliRequests, stopped : BOOLEAN]
      /\ bounds \in [ids : Nat, moves : Int, faults : Int]
  BY DEF CliInv, CliIsTyped
<1>2. authority.head \in Int
  BY <1>1
<1>3. ASSUME NEW q \in CliRequests, Refused(q)
      PROVE  Refused(q)'
  BY <1>3 DEF Refused
<1> QED
  BY <1>1, <1>2, <1>3 DEF AuthorityGrows

(* The handlers of the daemon.                                             *)
LEMMA HandlerFits ==
  ASSUME CliInv, NEW r \in wire, Handle(r)
  PROVE  CliInv'
<1> USE DEF CliInv
<1>1. /\ WireFits(r) /\ r.request \in CliRequests /\ r.preflight \in BOOLEAN
      /\ r.from \in Terminals \cup {Nobody}
      /\ r.request.cursor \in Int /\ authority.head \in Int
      /\ r \in [from : Terminals \cup {Nobody}, request : CliRequests, preflight : BOOLEAN]
  BY DEF CliIsTyped, CliRequests
<1>2. UNCHANGED <<workspaceLock, saved, recorded, bounds>>
  BY DEF Handle, AppendHandler, GrantHandler, StartHandler, Preflighted
<1>3. CASE UNCHANGED authority /\ Responds(r, "accepted", wire \ {r})
  BY <1>2, <1>3, SameGrows, AnswerFits
<1>4. ASSUME UNCHANGED authority, Responds(r, "rejected", wire \ {r}),
             r.request.command # "task start" => Refused(r.request)
      PROVE  CliInv'
  <2>1. Refused(r.request)' <=> Refused(r.request)
    BY <1>4 DEF Refused
  <2> QED
    BY <1>2, <1>4, <2>1, SameGrows, AnswerFits
<1>5. ASSUME NEW moves \in {0, 1}, Applies(r.request, moves), ~Refused(r.request),
             Responds(r, "accepted", wire \ {r})
      PROVE  CliInv'
  <2>1. AuthorityGrows /\ authority'.applied = authority.applied \cup {r.request}
    BY <1>2, <1>5, ApplyGrows
  <2> QED
    BY <1>5, <2>1, AnswerFits
<1>6. CASE AppendHandler(r)
  <2>1. CASE ~Applied(r.request) /\ r.request.cursor = authority.head
    <3>1. ~Refused(r.request)
      <4>1. PICK c \in Int : c = r.request.cursor
        BY <1>1
      <4>2. c = authority.head
        BY <2>1, <4>1
      <4>3. ~(c < authority.head)
        BY <4>2
      <4> QED
        BY <4>1, <4>3 DEF Refused
    <3> QED
      BY <1>1, <1>6, <2>1, <3>1, <1>5 DEF AppendHandler, Applied
  <2>2. CASE ~Applied(r.request) /\ r.request.cursor # authority.head
    <3>1. r.request.command \in {"run create", "task add"} /\ WireFits(r)
      BY <1>1, <1>6 DEF AppendHandler
    <3>2. r.request \notin authority.applied
      BY <2>2 DEF Applied
    <3>3. r.request.cursor < authority.head
      <4>1. PICK c \in Int : c = r.request.cursor
        BY <1>1
      <4>2. PICK h \in Int : h = authority.head
        BY <1>1
      <4>3. c <= h /\ c # h
        BY <2>2, <3>1, <4>1, <4>2 DEF WireFits
      <4>4. c < h
        BY <4>3
      <4> QED
        BY <4>1, <4>2, <4>4
    <3>4. Refused(r.request)
      BY <3>1, <3>2, <3>3 DEF Refused
    <3> QED
      BY <1>6, <2>2, <3>4, <1>4 DEF AppendHandler, Applied
  <2> QED
    BY <1>3, <1>6, <2>1, <2>2 DEF AppendHandler
<1>7. CASE GrantHandler(r)
  <2>1. ~Refused(r.request)
    BY <1>7 DEF GrantHandler, Refused
  <2> QED
    BY <1>3, <1>5, <1>7, <2>1 DEF GrantHandler
<1>8. CASE Preflighted(r)
  <2>1. r.request.command = "task start"
    BY <1>1, <1>8 DEF Preflighted, WireFits
  <2>2. ~Refused(r.request)
    BY <2>1 DEF Refused
  <2> QED
    BY <1>4, <1>5, <1>8, <2>1, <2>2 DEF Preflighted
<1>9. CASE StartHandler(r)
  <2>1. UNCHANGED authority /\ r.request.command = "task start"
    BY <1>9 DEF StartHandler
  <2>2. CASE /\ wire' = (wire \ {r}) \cup {[r EXCEPT !.preflight = TRUE]}
             /\ UNCHANGED terminal
    <3>1. PICK s : s = [r EXCEPT !.preflight = TRUE]
      OBVIOUS
    <3>2. /\ s.from = r.from /\ s.request = r.request
          /\ s \in [from : Terminals \cup {Nobody}, request : CliRequests, preflight : BOOLEAN]
      BY <1>1, <3>1
    <3>3. AuthorityGrows
      BY <1>2, <2>1, SameGrows
    <3>4. wire' = (wire \ {r}) \cup {s}
      BY <2>2, <3>1
    <3>5. WireFits(s)'
      BY <1>1, <2>1, <2>2, <3>2 DEF WireFits, At
    <3>6. ASSUME NEW q \in wire \ {r}
          PROVE  WireFits(q)'
      BY <1>2, <2>1, <2>2 DEF WireFits, At, Retained, Refused
    <3>7. OneAnswer'
      <4> SUFFICES ASSUME NEW x \in wire', NEW y \in wire', x.from = y.from, x.from # Nobody
                   PROVE  x = y
        BY DEF OneAnswer
      <4>1. CASE x # s /\ y # s
        BY <3>4, <4>1 DEF OneAnswer
      <4>2. CASE x = s /\ y # s
        BY <3>2, <3>4, <4>2 DEF OneAnswer
      <4>3. CASE x # s /\ y = s
        BY <3>2, <3>4, <4>3 DEF OneAnswer
      <4> QED
        BY <4>1, <4>2, <4>3
    <3>8. CliIsTyped'
      BY <1>2, <2>1, <2>2, <3>2, <3>4 DEF CliIsTyped
    <3>9. AppendsAreRecovered'
      BY <1>2, <2>1 DEF AppendsAreRecovered, Retained
    <3>10. \A t \in Terminals : TerminalFits(t)'
      BY <2>2, <3>3, StayingTerminalFits
    <3> QED
      BY <3>3, <3>4, <3>5, <3>6, <3>7, <3>8, <3>9, <3>10, SavedStays
  <2> QED
    BY <1>3, <1>4, <1>9, <2>1, <2>2 DEF StartHandler
<1> QED
  BY <1>6, <1>7, <1>8, <1>9 DEF Handle

(* The head moves without the command, execution stops, a daemon starts.   *)
LEMMA DaemonFits ==
  ASSUME CliInv, OthersMove \/ ExecutionStops \/ DaemonRestarts
  PROVE  CliInv'
<1> USE DEF CliInv
<1>1. /\ UNCHANGED <<workspaceLock, saved, recorded>>
      /\ authority' \in [head : Int, applied : SUBSET CliRequests, stopped : BOOLEAN]
      /\ authority.head \in Int
      /\ authority'.head \in {authority.head, authority.head + 1}
      /\ authority'.applied = authority.applied
  <2>1. authority \in [head : Int, applied : SUBSET CliRequests, stopped : BOOLEAN]
    BY DEF CliIsTyped
  <2>2. authority.head \in Int
    BY <2>1
  <2>3. CASE OthersMove
    BY <2>1, <2>2, <2>3 DEF OthersMove
  <2>4. CASE ExecutionStops
    BY <2>1, <2>2, <2>4 DEF ExecutionStops
  <2>5. CASE DaemonRestarts
    BY <2>1, <2>2, <2>5 DEF DaemonRestarts
  <2> QED
    BY <2>3, <2>4, <2>5
<1>2. bounds' \in [ids : Nat, moves : Int, faults : Int] /\ bounds'.ids = bounds.ids
  BY DEF OthersMove, ExecutionStops, DaemonRestarts, CliIsTyped, Fault
<1>3. ASSUME NEW q \in CliRequests, Refused(q)
      PROVE  Refused(q)'
  <2>1. q.cursor \in Int
    BY DEF CliRequests
  <2>2. q.cursor < authority.head /\ q \notin authority.applied
    BY <1>3 DEF Refused
  <2>3. q.cursor < authority'.head
    BY <1>1, <2>1, <2>2
  <2> QED
    BY <1>1, <1>3, <2>2, <2>3 DEF Refused
<1>4. AuthorityGrows
  BY <1>1, <1>2, <1>3 DEF AuthorityGrows
<1>5. AppendsAreRecovered'
  BY <1>1 DEF AppendsAreRecovered, Retained
<1>6. CASE UNCHANGED <<terminal, wire>>
  <2>1. CliIsTyped'
    BY <1>1, <1>2, <1>6 DEF CliIsTyped
  <2>2. \A t \in Terminals : TerminalFits(t)'
    BY <1>4, <1>6, StayingTerminalFits
  <2>3. ASSUME NEW s \in wire
        PROVE  WireFits(s)'
    <3>1. PICK q \in CliRequests : q = s.request
      BY DEF CliIsTyped
    <3>2. WireFits(s)
      OBVIOUS
    <3> QED
      BY <1>4, <1>6, <3>1, <3>2, KnownStays DEF WireFits, At
  <2> QED
    BY <1>4, <1>5, <1>6, <2>1, <2>2, <2>3, SavedStays DEF OneAnswer
<1>7. CASE DaemonRestarts
  <2>1. wire' = {}
    BY <1>7 DEF DaemonRestarts
  <2>2. /\ terminal' \in [Terminals -> [at : CliSteps, wants : Commands \cup {"query", NoOperation},
                                        pending : CliRequests \cup {NoRequest}]]
        /\ \A t \in Terminals :
             \/ terminal'[t] = terminal[t]
             \/ /\ At(t, "waiting") /\ terminal'[t].at = "leaving"
                /\ terminal'[t].wants = terminal[t].wants
    BY <1>7 DEF DaemonRestarts, CliIsTyped, CliSteps
  <2>3. CliIsTyped'
    BY <1>1, <1>2, <2>1, <2>2 DEF CliIsTyped
  <2>4. ASSUME NEW t \in Terminals
        PROVE  TerminalFits(t)'
    <3>1. CASE terminal'[t] = terminal[t]
      BY <1>4, <3>1, StayingTerminalFits
    <3>2. CASE At(t, "waiting") /\ terminal'[t].at = "leaving" /\ terminal'[t].wants = terminal[t].wants
      BY <1>1, <3>2 DEF TerminalFits, At, Committed
    <3> QED
      BY <2>2, <3>1, <3>2
  <2> QED
    BY <1>4, <1>5, <2>1, <2>3, <2>4, SavedStays DEF OneAnswer
<1> QED
  BY <1>6, <1>7 DEF OthersMove, ExecutionStops

(* The invariant holds at first.                                           *)
LEMMA CliStarts ==
  CliInit => CliInv
<1> SUFFICES ASSUME CliInit PROVE CliInv
  OBVIOUS
<1>1. NoCommand \in [at : CliSteps, wants : Commands \cup {"query", NoOperation},
                     pending : CliRequests \cup {NoRequest}]
  BY DEF NoCommand, CliSteps
<1>2. \A t \in Terminals : At(t, "idle")
  BY DEF CliInit, At, NoCommand
<1>3. CliIsTyped
  BY <1>1 DEF CliInit, CliIsTyped
<1>4. SavedFits
  BY DEF CliInit, SavedFits
<1> QED
  BY <1>2, <1>3, <1>4, IdleFits DEF CliInit, CliInv, OneAnswer, AppendsAreRecovered

(* Every step of the commands and the daemon keeps the invariant.          *)
LEMMA CliStepFits ==
  CliInv /\ [CliNext]_cliVars => CliInv'
<1> SUFFICES ASSUME CliInv, [CliNext]_cliVars PROVE CliInv'
  OBVIOUS
<1>1. CASE \E t \in Terminals :
             \/ \E wants \in Commands \cup {"query"} : TakeLock(t, wants)
             \/ CheckPending(t) \/ Observe(t) \/ LeaveCommand(t)
  BY <1>1, QuietCommandFits
<1>2. CASE \E t \in Terminals : SavePending(t) \/ ReplaceGrant(t) \/ SaveResult(t) \/ GiveUp(t)
  BY <1>2, SavingFits
<1>3. CASE \E t \in Terminals : Send(t)
  BY <1>3, SendFits
<1>4. CASE \E t \in Terminals : Interrupt(t) \/ Kill(t)
  BY <1>4, UnheardFits
<1>5. CASE \E r \in wire : Handle(r)
  BY <1>5, HandlerFits
<1>6. CASE OthersMove \/ ExecutionStops \/ DaemonRestarts
  BY <1>6, DaemonFits
<1>7. CASE RemoveLock
  <2>1. \A t \in Terminals : TerminalFits(t)'
    BY <1>7 DEF RemoveLock, TerminalFits, At, Committed
  <2> QED
    BY <1>7, <2>1 DEF RemoveLock, CliInv, CliIsTyped, SavedFits, IsKnown, WireFits, OneAnswer, At,
         AppendsAreRecovered, Retained, Refused
<1>8. CASE UNCHANGED cliVars
  BY <1>8 DEF cliVars, CliInv, CliIsTyped, SavedFits, IsKnown, WireFits, OneAnswer, At,
       AppendsAreRecovered, Retained, Refused, TerminalFits
<1> QED
  BY <1>1, <1>2, <1>3, <1>4, <1>5, <1>6, <1>7, <1>8 DEF CliNext

(* Whatever is killed, interrupted, delayed or restarted between the saved *)
(* request and the saved result, a command that took effect finds its      *)
(* result when it is repeated (commitOperation).                           *)
THEOREM CommandsAreRecovered ==
  CliSpec => []AppendsAreRecovered
<1>1. CliInv => AppendsAreRecovered
  BY DEF CliInv
<1> QED
  BY <1>1, CliStarts, CliStepFits, PTL DEF CliSpec
=================================================================================
