---------------------------- MODULE WorkerDelivery ----------------------------
(***************************************************************************)
(* How the contribution of a host (pi, OMP, Claude, Codex) hands the return*)
(* of a worker to the authority: adapters/*/src/index.ts with              *)
(* deliverWorkerReturn of the adapter kit.  A delivery holds the lock      *)
(* directory of its attempt, keeps a durable record of how far it got, and *)
(* makes six calls: two publications, the receipt, the proposal, the       *)
(* subscription and the decision.  Another process, or the next incarnation*)
(* of this one, goes on where the record says.                             *)
(*                                                                         *)
(* What is abstracted.  One attempt, since nothing is shared between two.  *)
(* A process is known by its name and its incarnation (pid and start time).*)
(* The deadline of ten seconds is a choice, and so is the age of a lock    *)
(* without an owner.  A receipt and its output are one value.  An operation*)
(* of the file system is one step; a removal of the lock removes the       *)
(* directory with its owner.                                               *)
(***************************************************************************)
EXTENDS Integers, FiniteSets

CONSTANTS
  Hosts,          \* the kinds of host, of "pi", "omp", "claude" and "codex"
  DeliveryHosts,  \* processes of a host that share a retained state directory
  Outputs,        \* what a worker may return
  Decisions,      \* what the authority may decide
  MaxDeaths,      \* bound: deaths of processes
  Nothing         \* no owner, no record, no decision

VARIABLES
  host,      \* the kind of host; it does not change
  lock,      \* the lock directory of the attempt
  retained,  \* the durable record of the attempt
  delivery,  \* what each process is doing
  runtime,   \* whether the runtime of a process is enabled, revoked or closed
  life,      \* the incarnation of each process
  done       \* history: the calls that took effect

deliveryVars == <<host, lock, retained, delivery, runtime, life, done>>

-----------------------------------------------------------------------------
\* DELIVERY_PHASES: phase 0 is "prepared", phase n that the n-th call is recorded.
DeliverySteps == 1 .. 6
DecisionStep == 6
Phases == {0} \cup DeliverySteps

LockOwners == DeliveryHosts \X (0 .. MaxDeaths)
ASSUME DeliveryAssumption == MaxDeaths \in Nat /\ Nothing \notin LockOwners
Me(p) == <<p, life[p]>>
OwnerIsCurrent(o) == life[o[1]] = o[2]

NoLock == [there |-> FALSE, owner |-> Nothing, old |-> FALSE]
Unnamed == [NoLock EXCEPT !.there = TRUE]
RetainedRecords == [phase : Phases, output : Outputs, decision : Decisions \cup {Nothing}]
Answers == [output : Outputs, decision : Decisions]

Acquiring == {"acquiring", "naming", "observing", "rereading", "evicting"}
Working == {"loading", "creating", "performing", "calling", "recording", "finishing"}
Releasing == {"releasing", "unlocking"}
Resting == [at |-> "idle", output |-> Nothing, step |-> 1, seen |-> Nothing, decision |-> Nothing,
            answer |-> Nothing]
MovesTo(p, at) == delivery' = [delivery EXCEPT ![p].at = at]
Fails(p) == delivery' = [delivery EXCEPT ![p] = Resting]

\* What the runtimes differ in: only Codex asks again whether it is enabled once
\* it has the lock, and only pi cannot be revoked.
RechecksInside == host = "codex"
Revocable == host # "pi"
-----------------------------------------------------------------------------
\* deliver: the registration is active; the adapter collects the receipt later.
Deliver(p) ==
  /\ delivery[p].at = "idle"
  /\ runtime[p] = "enabled"
  /\ \E o \in Outputs : delivery' = [delivery EXCEPT ![p] = [Resting EXCEPT !.at = "acquiring", !.output = o]]
  /\ UNCHANGED <<host, lock, retained, runtime, life, done>>

\* mkdirSync of the lock directory.
MakeLock(p) ==
  /\ delivery[p].at = "acquiring"
  /\ IF lock.there
     THEN MovesTo(p, "observing") /\ UNCHANGED lock
     ELSE MovesTo(p, "naming") /\ lock' = Unnamed
  /\ UNCHANGED <<host, retained, runtime, life, done>>

\* writeFileSync of owner.json: it must not be there, and the directory must.
NameLock(p) ==
  /\ delivery[p].at = "naming"
  /\ \/ ~lock.there /\ Fails(p) /\ UNCHANGED lock
     \/ lock.there /\ lock.owner = Nothing /\ MovesTo(p, "loading") /\ lock' = [lock EXCEPT !.owner = Me(p)]
     \/ lock.there /\ lock.owner # Nothing /\ MovesTo(p, "observing") /\ UNCHANGED lock
  /\ UNCHANGED <<host, retained, runtime, life, done>>

\* The wait of 10 ms, or the end of the deadline.
Waits(p) == MovesTo(p, "acquiring") \/ Fails(p)

\* Mutant: a directory without an owner is removed at once.
ObserveLockHastily(p) ==
  /\ delivery[p].at = "observing"
  /\ \/ ~lock.there /\ Fails(p)
     \/ lock.there /\ lock.owner = Nothing /\ MovesTo(p, "evicting")
     \/ lock.there /\ lock.owner # Nothing
        /\ IF OwnerIsCurrent(lock.owner)
           THEN Waits(p)
           ELSE delivery' = [delivery EXCEPT ![p].at = "rereading", ![p].seen = lock.owner]
  /\ UNCHANGED <<host, lock, retained, runtime, life, done>>

\* lstat, readOwner and the start time of the owner's process.  A directory
\* without an owner is removed once it is more than a second old.
ObserveLock(p) ==
  /\ delivery[p].at = "observing"
  /\ \/ ~lock.there /\ Fails(p)
     \/ lock.there /\ lock.owner = Nothing /\ IF lock.old THEN MovesTo(p, "evicting") ELSE Waits(p)
     \/ lock.there /\ lock.owner # Nothing
        /\ IF OwnerIsCurrent(lock.owner)
           THEN Waits(p)
           ELSE delivery' = [delivery EXCEPT ![p].at = "rereading", ![p].seen = lock.owner]
  /\ UNCHANGED <<host, lock, retained, runtime, life, done>>

\* The owner of a dead process is read again before the lock is removed.
RereadLock(p) ==
  /\ delivery[p].at = "rereading"
  /\ \/ lock.owner = Nothing /\ Fails(p)
     \/ lock.owner = delivery[p].seen /\ MovesTo(p, "evicting")
     \/ lock.owner \notin {Nothing, delivery[p].seen} /\ Waits(p)
  /\ UNCHANGED <<host, lock, retained, runtime, life, done>>

\* rmSync without force: it fails when another process was faster.
EvictLock(p) ==
  /\ delivery[p].at = "evicting"
  /\ lock' = NoLock
  /\ IF lock.there THEN MovesTo(p, "acquiring") ELSE Fails(p)
  /\ UNCHANGED <<host, retained, runtime, life, done>>

\* A second passes without an owner in the directory.
AgeLock ==
  /\ lock.there /\ lock.owner = Nothing /\ ~lock.old
  /\ lock' = [lock EXCEPT !.old = TRUE]
  /\ UNCHANGED <<host, retained, delivery, runtime, life, done>>
-----------------------------------------------------------------------------
\* The receipt is collected, which may fail, and the record is loaded: there is
\* none, or it must be of this output (assertCanonicalTuple).
LoadRecord(p) ==
  /\ delivery[p].at = "loading"
  /\ \/ MovesTo(p, "releasing")
     \/ /\ runtime[p] # "closed"
        /\ RechecksInside => runtime[p] = "enabled"
        /\ \/ retained = Nothing /\ MovesTo(p, "creating")
           \/ retained # Nothing /\ retained.output = delivery[p].output /\ MovesTo(p, "performing")
  /\ UNCHANGED <<host, lock, retained, runtime, life, done>>

\* The sealed proposal is retained before anything is sent.
CreateRecord(p) ==
  /\ delivery[p].at = "creating"
  /\ IF runtime[p] = "closed" \/ retained # Nothing
     THEN MovesTo(p, "releasing") /\ UNCHANGED retained
     ELSE /\ retained' = [phase |-> 0, output |-> delivery[p].output, decision |-> Nothing]
          /\ MovesTo(p, "performing")
  /\ UNCHANGED <<host, lock, runtime, life, done>>

\* Mutant: the step is counted past the decision.
AdvancePastDecision(p, decision) ==
  delivery' = [delivery EXCEPT
    ![p].at = IF delivery[p].step = DecisionStep THEN "finishing" ELSE "performing",
    ![p].step = @ + 1, ![p].seen = Nothing, ![p].decision = decision]

\* After a step comes the next; after the decision the record is read once more.
Advance(p, decision) ==
  delivery' = [delivery EXCEPT
    ![p].at = IF delivery[p].step = DecisionStep THEN "finishing" ELSE "performing",
    ![p].step = IF @ = DecisionStep THEN @ ELSE @ + 1,
    ![p].seen = Nothing, ![p].decision = decision]

HasCompleted(step) == retained.phase >= step

\* perform: a completed step is answered from the record, another one is called.
BeginStep(p) ==
  /\ delivery[p].at = "performing"
  /\ \/ runtime[p] = "closed" /\ MovesTo(p, "releasing")
     \/ runtime[p] # "closed" /\ HasCompleted(delivery[p].step) /\ Advance(p, retained.decision)
     \/ runtime[p] # "closed" /\ ~HasCompleted(delivery[p].step)
        /\ delivery' = [delivery EXCEPT ![p].at = "calling", ![p].seen = retained.phase]
  /\ UNCHANGED <<host, lock, retained, runtime, life, done>>

\* The authority takes the call; the answer comes, or the call throws either way.
Call(p) ==
  LET step == delivery[p].step IN
  /\ delivery[p].at = "calling"
  /\ \/ MovesTo(p, "releasing") /\ UNCHANGED done
     \/ MovesTo(p, "releasing") /\ done' = done \cup {step}
     \/ /\ done' = done \cup {step}
        /\ \E d \in IF step = DecisionStep THEN Decisions ELSE {Nothing} :
             delivery' = [delivery EXCEPT ![p].at = "recording", ![p].decision = d]
  /\ UNCHANGED <<host, lock, retained, runtime, life>>

\* compareAndSet of the phase that was read before the call.
RecordStep(p) ==
  LET d == delivery[p] IN
  /\ d.at = "recording"
  /\ IF runtime[p] = "closed" \/ retained.phase # d.seen
     THEN MovesTo(p, "releasing") /\ UNCHANGED retained
     ELSE /\ retained' = [retained EXCEPT !.phase = d.step, !.decision = d.decision]
          /\ Advance(p, d.decision)
  /\ UNCHANGED <<host, lock, runtime, life, done>>

\* The record is loaded again: it must have reached its decision.
Finish(p) ==
  /\ delivery[p].at = "finishing"
  /\ delivery' = [delivery EXCEPT ![p].at = "releasing",
       ![p].answer = IF runtime[p] # "closed" /\ retained.phase = DecisionStep
                     THEN [output |-> retained.output, decision |-> delivery[p].decision] ELSE Nothing]
  /\ UNCHANGED <<host, lock, retained, runtime, life, done>>
-----------------------------------------------------------------------------
\* release: the owner is read, and must still be this delivery.
CheckOwner(p) ==
  /\ delivery[p].at = "releasing"
  /\ IF lock.owner = Me(p) THEN MovesTo(p, "unlocking") ELSE Fails(p)
  /\ UNCHANGED <<host, lock, retained, runtime, life, done>>

\* rmSync of the lock; only now does the delivery return its answer.
Unlock(p) ==
  /\ delivery[p].at = "unlocking"
  /\ lock' = NoLock
  /\ Fails(p)
  /\ UNCHANGED <<host, retained, runtime, life, done>>

\* revoke: with a registered revoker the retained authority stays open.
Revoke(p) ==
  /\ Revocable
  /\ runtime[p] = "enabled"
  /\ \E r \in {"revoked", "closed"} : runtime' = [runtime EXCEPT ![p] = r]
  /\ UNCHANGED <<host, lock, retained, delivery, life, done>>

ShutDown(p) ==
  /\ runtime[p] # "closed"
  /\ runtime' = [runtime EXCEPT ![p] = "closed"]
  /\ UNCHANGED <<host, lock, retained, delivery, life, done>>

\* The process dies and is started again: its lock and its record stay.
HostDies(p) ==
  /\ life[p] < MaxDeaths
  /\ life' = [life EXCEPT ![p] = @ + 1]
  /\ runtime' = [runtime EXCEPT ![p] = "enabled"]
  /\ Fails(p)
  /\ UNCHANGED <<host, lock, retained, done>>
-----------------------------------------------------------------------------
LockStep(p) == MakeLock(p) \/ NameLock(p) \/ ObserveLock(p) \/ RereadLock(p) \/ EvictLock(p) \/ CheckOwner(p) \/ Unlock(p)
PerformStep(p) == BeginStep(p) \/ Call(p) \/ RecordStep(p)
DeliverStep(p) == Deliver(p) \/ LoadRecord(p) \/ CreateRecord(p) \/ Finish(p) \/ ShutDown(p)

\* The four adapters have the same text here, each for its own host.
PiLock(p) == host = "pi" /\ LockStep(p)
PiPerform(p) == host = "pi" /\ PerformStep(p)
PiDeliver(p) == host = "pi" /\ DeliverStep(p)
OMPLock(p) == host = "omp" /\ LockStep(p)
OMPPerform(p) == host = "omp" /\ PerformStep(p)
OMPDeliver(p) == host = "omp" /\ (DeliverStep(p) \/ Revoke(p))
ClaudeLock(p) == host = "claude" /\ LockStep(p)
ClaudePerform(p) == host = "claude" /\ PerformStep(p)
ClaudeDeliver(p) == host = "claude" /\ (DeliverStep(p) \/ Revoke(p))
CodexLock(p) == host = "codex" /\ LockStep(p)
CodexPerform(p) == host = "codex" /\ PerformStep(p)
CodexDeliver(p) == host = "codex" /\ (DeliverStep(p) \/ Revoke(p))

DeliveryInit ==
  /\ host \in Hosts
  /\ lock = NoLock
  /\ retained = Nothing
  /\ delivery = [p \in DeliveryHosts |-> Resting]
  /\ runtime = [p \in DeliveryHosts |-> "enabled"]
  /\ life = [p \in DeliveryHosts |-> 0]
  /\ done = {}

DeliveryNext ==
  \/ AgeLock
  \/ \E p \in DeliveryHosts :
       \/ PiLock(p) \/ PiPerform(p) \/ PiDeliver(p)
       \/ OMPLock(p) \/ OMPPerform(p) \/ OMPDeliver(p)
       \/ ClaudeLock(p) \/ ClaudePerform(p) \/ ClaudeDeliver(p)
       \/ CodexLock(p) \/ CodexPerform(p) \/ CodexDeliver(p)
       \/ HostDies(p)

DeliverySpec == DeliveryInit /\ [][DeliveryNext]_deliveryVars

\* For runs: no living process needs a second to name the lock it made.
NoLongPause == lock.old => \A p \in DeliveryHosts : delivery[p].at # "naming"

\* For runs: takeovers of an abandoned lock come one at a time.
TakeoversAlone ==
  /\ \A p, q \in DeliveryHosts :
       /\ delivery[p].at \in {"rereading", "evicting"}
       /\ delivery[q].at \in {"rereading", "evicting"}
       => p = q
  /\ NoLongPause
-----------------------------------------------------------------------------
DeliveryTypeOK ==
  /\ host \in Hosts
  /\ lock \in [there : BOOLEAN, owner : LockOwners \cup {Nothing}, old : BOOLEAN]
  /\ lock.owner # Nothing => lock.there
  /\ retained \in RetainedRecords \cup {Nothing}
  /\ \A p \in DeliveryHosts :
       /\ delivery[p].at \in {"idle"} \cup Acquiring \cup Working \cup Releasing
       /\ delivery[p].output \in Outputs \cup {Nothing}
       /\ delivery[p].step \in DeliverySteps
       /\ delivery[p].decision \in Decisions \cup {Nothing}
       /\ delivery[p].answer \in Answers \cup {Nothing}
  /\ runtime \in [DeliveryHosts -> {"enabled", "revoked", "closed"}]
  /\ life \in [DeliveryHosts -> 0 .. MaxDeaths]
  /\ done \subseteq DeliverySteps

\* The retained authority serialises the deliveries of an attempt across
\* processes (docs/integrations/omp.md:11): no two work at once.
OneDelivery ==
  \A p, q \in DeliveryHosts :
    delivery[p].at \in Working /\ delivery[q].at \in Working => p = q
=============================================================================
