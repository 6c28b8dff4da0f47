--------------------------- MODULE DeltaAdmission ---------------------------
(***************************************************************************)
(* How a proposal becomes a revision: the lineage of a fork, a proposal    *)
(* sealed on one of its pins, its evaluation and the atomic record of the  *)
(* decision.  orchestrator/src/forks, admission, revisions, authorization; *)
(* policy/src; domain/src: delta, receipt, policy, context.                *)
(*                                                                         *)
(* Several services work on one store.  A service reads the revision, then *)
(* everything else it judges by, then appends at exactly the heads it      *)
(* read.  What the evaluation is told of policy, quota and capability is a *)
(* snapshot of the run's newest event, written by whoever administers the  *)
(* run and good for one pair of heads only.                                *)
(*                                                                         *)
(* What is abstracted.  A document is the set of its members, its hash the *)
(* document.  A policy is the effect of its strictest rule that applies.   *)
(***************************************************************************)
EXTENDS Integers, Sequences, FiniteSets

CONSTANTS
  Members,          \* members a canonical document may have
  PolicyEffects,    \* the policies: effects of a rule
  Proposals,
  Admitters,        \* admission services, each in a process of its own
  MaxPins,          \* bound: pins of the fork
  MaxHeadMoves,     \* bound: appends that move a head
  Broken,           \* a run that can no longer be replayed
  Unsealed, NoSnapshot, NoFork

VARIABLES
  canonical,  \* what the run replays to: revision and document
  heads,      \* heads of the run and of the workspace
  inForce,    \* the policy the workspace refers to
  snapshot,   \* admission-current of the run's head
  forkRight,  \* the fork authority capability issued last
  pins,       \* lineage of the fork
  proposals,
  decisions,  \* decisions of the run, each with what held when it was recorded
  admitters

admissionVars ==
  <<canonical, heads, inForce, snapshot, forkRight, pins, proposals, decisions, admitters>>

-----------------------------------------------------------------------------
Terminal == {"accepted", "rejected", "conflicted"}

Transitions ==
  [submitted |-> {"accepted", "rejected", "conflicted", "quarantined", "approval_required"},
   quarantined |-> {"quarantined", "approval_required", "accepted", "rejected"},
   approval_required |-> {"accepted", "rejected"}]

Rank == [accepted |-> 0, approval_required |-> 1, quarantined |-> 2, rejected |-> 3]

\* The strictest of a set of results.
Conjunction(results) == CHOOSE r \in results : \A o \in results : Rank[o] <= Rank[r]

ASSUME EffectsAssumption == PolicyEffects \subseteq DOMAIN Rank

DeltaOperations ==
  {o \in [op : {"add"}, member : Members, parent : SUBSET Members] : o.member \notin o.parent}
    \cup [op : {"remove"}, member : Members]

\* An addition expects its parent as it was sealed, a removal only its target.
Fits(o, document) ==
  IF o.op = "add" THEN document = o.parent ELSE o.member \in document
ApplyDelta(o, document) ==
  IF o.op = "add" THEN document \cup {o.member} ELSE document \ {o.member}

\* A revision, a pin of the lineage and a proposal sealed on a pin.
Revisions == [revision : Nat, document : SUBSET Members]
Pins == [base : Revisions, policy : PolicyEffects]
HeadPairs == [run : Nat, workspace : Nat]
Sealed == [pin : Pins, operation : DeltaOperations, policy : PolicyEffects, at : HeadPairs]
ASSUME NothingAssumption == Broken \notin Revisions /\ Unsealed \notin Sealed

-----------------------------------------------------------------------------
\* issueForkAuthorityCapability: the snapshots of the head name the revision, the
\* policy and the active pin.
IssueForkAuthority ==
  /\ canonical # Broken /\ Len(pins) < MaxPins
  /\ forkRight' = [base |-> canonical, policy |-> inForce, expected |-> Len(pins)]
  /\ UNCHANGED <<canonical, heads, inForce, snapshot, pins, proposals, decisions, admitters>>

NextPin(right) == [base |-> right.base, policy |-> right.policy]

\* createProjectedFork, refreshProjectedFork: a capability extends the lineage it was
\* issued for.
PinFork ==
  /\ forkRight # NoFork /\ Len(pins) < MaxPins
  /\ forkRight.expected = Len(pins)
  /\ pins' = Append(pins, NextPin(forkRight))
  /\ UNCHANGED <<canonical, heads, inForce, snapshot, forkRight, proposals, decisions, admitters>>

\* Of one head of the run there is one sealing authority, of one cursor and one pin.
SealProposal(p, pin, o) ==
  /\ proposals[p] = Unsealed
  /\ \A q \in Proposals : LET other == proposals[q] IN
       other # Unsealed /\ other.at.run = heads.run => other.at = heads /\ other.pin = pin
  /\ proposals' = [proposals EXCEPT ![p] = [pin |-> pin, operation |-> o, policy |-> inForce, at |-> heads]]
  /\ UNCHANGED <<canonical, heads, inForce, snapshot, forkRight, pins, decisions, admitters>>

-----------------------------------------------------------------------------
HeadsMayMove == heads.run + heads.workspace - Len(decisions) < MaxHeadMoves

\* activatePolicy, deactivatePolicy; PolicyReferenceChangedV1
ChangePolicy(policy) ==
  /\ policy # inForce /\ HeadsMayMove
  /\ inForce' = policy
  /\ heads' = [heads EXCEPT !.workspace = @ + 1]
  /\ UNCHANGED <<canonical, snapshot, forkRight, pins, proposals, decisions, admitters>>

\* Any other event of the run leaves its head without a snapshot.
MoveRun ==
  /\ HeadsMayMove
  /\ heads' = [heads EXCEPT !.run = @ + 1]
  /\ snapshot' = NoSnapshot
  /\ UNCHANGED <<canonical, inForce, forkRight, pins, proposals, decisions, admitters>>

WriteSnapshot ==
  /\ snapshot' = [at |-> heads, policy |-> inForce]
  /\ UNCHANGED <<canonical, heads, inForce, forkRight, pins, proposals, decisions, admitters>>

-----------------------------------------------------------------------------
Unoccupied == [at |-> "free"]
SetAdmitter(s, value) == admitters' = [admitters EXCEPT ![s] = value]

DecisionsOn(p) == {i \in DOMAIN decisions : decisions[i].proposal = p}
StateOf(p) ==
  IF DecisionsOn(p) = {} THEN "submitted"
  ELSE decisions[CHOOSE i \in DecisionsOn(p) : \A j \in DecisionsOn(p) : j <= i].state

\* A proposal that is decided for good is answered at once.
LoadRevision(s, p) ==
  /\ admitters[s] = Unoccupied
  /\ proposals[p] # Unsealed /\ canonical # Broken
  /\ StateOf(p) \notin Terminal
  /\ SetAdmitter(s, [at |-> "loaded", proposal |-> p, base |-> canonical])
  /\ UNCHANGED <<canonical, heads, inForce, snapshot, forkRight, pins, proposals, decisions>>

IsStale(pr, base) == pr.pin.base # base
Conflicts(pr, base) == IsStale(pr, base) \/ ~Fits(pr.operation, base.document)

\* evaluateAdmission: both policies and the quota; an approval counts where no more
\* than an approval is missing.
Judgement(pr, quota, approved) ==
  LET result == Conjunction({pr.pin.policy, snapshot.policy,
                             IF quota THEN "accepted" ELSE "quarantined"})
  IN IF result = "approval_required" /\ approved THEN "accepted" ELSE result

\* loadAuthorities: the snapshot must be of exactly the heads observed.
SnapshotIsCurrent == snapshot # NoSnapshot /\ snapshot.at = heads

\* A conflict is found before anyone asks for policy or capability.
EvaluateAndApply(s, action, quota, approved) ==
  /\ admitters[s].at = "loaded"
  /\ SnapshotIsCurrent
  /\ LET p == admitters[s].proposal
         pr == proposals[p]
         conflict == Conflicts(pr, admitters[s].base)
         state == IF action = "reject" /\ StateOf(p) = "approval_required" THEN "rejected"
                  ELSE IF conflict THEN "conflicted" ELSE Judgement(pr, quota, approved)
     IN /\ conflict \/ action = "release" \/ snapshot.policy = pr.policy
        /\ StateOf(p) \notin Terminal /\ state \in Transitions[StateOf(p)]
        /\ state = "accepted" => ~conflict
        /\ SetAdmitter(s, [at |-> "decided", proposal |-> p, base |-> admitters[s].base, heads |-> heads,
                           state |-> state, approved |-> approved /\ state = "accepted", policy |-> snapshot.policy])
  /\ UNCHANGED <<canonical, heads, inForce, snapshot, forkRight, pins, proposals, decisions>>

\* Every refusal of an evaluation, and the end of its process.
GiveUp(s) ==
  /\ admitters[s] # Unoccupied
  /\ SetAdmitter(s, Unoccupied)
  /\ UNCHANGED <<canonical, heads, inForce, snapshot, forkRight, pins, proposals, decisions>>

-----------------------------------------------------------------------------
\* reduceCanonicalDocument: a delta of another document cannot be replayed.
Accepted(pr, base) ==
  IF canonical.document # base.document THEN Broken
  ELSE [revision |-> canonical.revision + 1, document |-> ApplyDelta(pr.operation, base.document)]

\* Mutant: the append names the head of the run only.
AtExactHeadsOfRun(a) == a.heads.run = heads.run

AtExactHeads(a) == a.heads = heads

\* publishAndAppendAtomic: decision, delta, workspace event and the next snapshot at once.
RecordDecision(s) ==
  LET a == admitters[s]
      p == a.proposal
      next == [run |-> heads.run + 1, workspace |-> heads.workspace + 1]
  IN /\ a.at = "decided"
     /\ AtExactHeads(a) /\ HeadsMayMove
     /\ decisions' = Append(decisions,
          [proposal |-> p, state |-> a.state, approved |-> a.approved, policy |-> inForce])
     /\ canonical' = IF a.state = "accepted" THEN Accepted(proposals[p], a.base) ELSE canonical
     /\ heads' = next
     /\ snapshot' = [at |-> next, policy |-> a.policy]
     /\ SetAdmitter(s, Unoccupied)
     /\ UNCHANGED <<inForce, forkRight, pins, proposals>>

-----------------------------------------------------------------------------
AdmissionInit ==
  /\ canonical = [revision |-> 0, document |-> {}]
  /\ heads = [run |-> 0, workspace |-> 0]
  /\ inForce \in PolicyEffects
  /\ snapshot = NoSnapshot /\ forkRight = NoFork /\ pins = <<>>
  /\ proposals = [p \in Proposals |-> Unsealed]
  /\ decisions = <<>>
  /\ admitters = [s \in Admitters |-> Unoccupied]

AdmissionNext ==
  \/ IssueForkAuthority \/ PinFork \/ MoveRun \/ WriteSnapshot
  \/ \E policy \in PolicyEffects : ChangePolicy(policy)
  \/ \E p \in Proposals, i \in DOMAIN pins, o \in DeltaOperations : SealProposal(p, pins[i], o)
  \/ \E s \in Admitters :
       \/ \E p \in Proposals : LoadRevision(s, p)
       \/ \E action \in {"evaluate", "reject", "release"}, quota, approved \in BOOLEAN :
            EvaluateAndApply(s, action, quota, approved)
       \/ GiveUp(s)
       \/ RecordDecision(s)

AdmissionSpec == AdmissionInit /\ [][AdmissionNext]_admissionVars

\* The revision an evaluation starts from is of the heads it goes on to read.
ReadsAlone == \A s \in Admitters : admitters[s].at = "loaded" => admitters[s].base = canonical

-----------------------------------------------------------------------------
\* The accepted decisions before position n.
AcceptedBefore(n) == {i \in DOMAIN decisions : i < n /\ decisions[i].state = "accepted"}

\* What is accepted is accepted as it was judged: the deltas of the run apply one after
\* the other, each to the very revision its proposal was sealed on, and neither the
\* policy it was pinned to nor the one in force when the decision is recorded asks for
\* more, whatever other services, policy changes and stale snapshots come in between
\* (evaluateAndApply l. 158-192).
AcceptedAsJudged ==
  /\ canonical # Broken /\ canonical.revision = Cardinality(AcceptedBefore(Len(decisions) + 1))
  /\ \A i \in AcceptedBefore(Len(decisions) + 1) :
       LET d == decisions[i]
           pin == proposals[d.proposal].pin
       IN /\ pin.base.revision = Cardinality(AcceptedBefore(i))
          /\ {pin.policy, d.policy} \subseteq {"accepted"} \cup (IF d.approved THEN {"approval_required"} ELSE {})
=============================================================================
