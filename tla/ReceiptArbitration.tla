-------------------------- MODULE ReceiptArbitration --------------------------
(***************************************************************************)
(* The projection that arbitrates the receipts of one attempt,             *)
(* packages/orchestrator/src/receipts: generations are registered, and     *)
(* receipts, retry decisions and cancellations, each proved by a           *)
(* capability issued from the stored run, settle the task.                 *)
(*                                                                         *)
(* What is abstracted.  A receipt is its generation and outcome, which     *)
(* stand for its digest; the principals, grants and digests a capability   *)
(* binds are those of its event.  A cursor is the length of the run.  A    *)
(* generation is registered in one of a few states of its dispatch.  The   *)
(* findings, which only say which facts came too late, are left out.       *)
(***************************************************************************)
EXTENDS Integers, Sequences, FiniteSets

CONSTANTS
  ReceiptGenerations,  \* generations of the attempt
  OwnHandle,           \* the handle of a generation that was acknowledged
  OtherHandle,         \* another one
  NoHandle,            \* no handle
  MaxRunEvents,        \* bound: events of the run
  MaxIssued            \* bound: capabilities issued

ASSUME ReceiptGenerationsAssumption == ReceiptGenerations \subseteq Nat \ {0}

VARIABLES
  runLog,     \* the run's receipts and cancellations, in order
  unspent,    \* the capabilities issued and not yet used
  projected   \* AttemptReceiptProjectionV1

receiptVars == <<runLog, unspent, projected>>

-----------------------------------------------------------------------------
ReceiptOutcomes == {"succeeded", "failed", "cancelled"}
IsTerminal(state) == state \in ReceiptOutcomes

\* AttemptGenerationStateV1; the handle of one that ended is left out.
GenerationOf(state, handle) == [state |-> state, handle |-> handle]
GenerationStates ==
  {GenerationOf("planned", NoHandle), GenerationOf("unknown_outcome", NoHandle),
   GenerationOf("acknowledged", OwnHandle)}

Unregistered == GenerationOf("unregistered", NoHandle)
NoOutcome == [outcome |-> "none", at |-> 0]
Undecided == [resolution |-> "none", winner |-> 0, at |-> 0]

EmptyProjection ==
  [taskKnown |-> FALSE,
   generations |-> [g \in ReceiptGenerations |-> Unregistered],
   outcomes |-> [g \in ReceiptGenerations |-> NoOutcome],
   permitted |-> {}, cancelledAt |-> 0, resolution |-> Undecided]

Registered(s) == {g \in ReceiptGenerations : s.generations[g] # Unregistered}
WithOutcome(s, outcome) == {g \in ReceiptGenerations : s.outcomes[g].outcome = outcome}

\* The first by the sequence of its receipt, then by generation.
Earliest(s, gs) ==
  CHOOSE g \in gs : \A h \in gs :
    \/ s.outcomes[g].at < s.outcomes[h].at
    \/ s.outcomes[g].at = s.outcomes[h].at /\ g <= h

-----------------------------------------------------------------------------
\* resolved(): nothing without a task.
Resolved(s, resolution, winner, at) ==
  IF s.taskKnown
  THEN [s EXCEPT !.resolution = [resolution |-> resolution, winner |-> winner, at |-> at]]
  ELSE s

\* A generation that runs, or whose failure may be retried, keeps the task open.
StaysOpen(s) ==
  \/ Registered(s) = {}
  \/ \E g \in Registered(s) : ~IsTerminal(s.generations[g].state)
  \/ s.permitted \cap WithOutcome(s, "failed") # {}

\* Mutant: a retry that is permitted does not keep the task open.
ForgetsRetries(s) ==
  \/ Registered(s) = {}
  \/ \E g \in Registered(s) : ~IsTerminal(s.generations[g].state)

Resolve(s, at) ==
  CASE s.resolution # Undecided -> s
    [] s.resolution = Undecided /\ WithOutcome(s, "succeeded") # {} ->
         Resolved(s, "succeeded", Earliest(s, WithOutcome(s, "succeeded")), at)
    [] s.resolution = Undecided /\ WithOutcome(s, "succeeded") = {} /\ s.cancelledAt # 0 ->
         Resolved(s, "cancelled", 0, s.cancelledAt)
    [] OTHER ->
         IF StaysOpen(s) THEN s
         ELSE IF WithOutcome(s, "cancelled") # {}
         THEN Resolved(s, "cancelled", Earliest(s, WithOutcome(s, "cancelled")), at)
         ELSE Resolved(s, "failed", 0, at)

-----------------------------------------------------------------------------
\* What the run comes to hold: receipts, and one cancellation of the task.
Record(event) ==
  /\ Len(runLog) < MaxRunEvents
  /\ runLog' = Append(runLog, event)
  /\ UNCHANGED <<unspent, projected>>

RecordReceipt(g, outcome) == Record([kind |-> "receipt", generation |-> g, outcome |-> outcome])
RecordCancellation ==
  /\ \A i \in 1 .. Len(runLog) : runLog[i].kind # "cancellation"
  /\ Record([kind |-> "cancellation", generation |-> 0, outcome |-> "cancelled"])

Issue(capability) ==
  /\ Cardinality(unspent) < MaxIssued
  /\ unspent' = unspent \cup {capability}
  /\ UNCHANGED <<runLog, projected>>

\* issueStoredReceiptCapabilities: from the snapshots at the run's head.
IssueReceipt(handle) ==
  /\ Len(runLog) > 0 /\ runLog[Len(runLog)].kind = "receipt"
  /\ Issue([kind |-> "receipt", generation |-> runLog[Len(runLog)].generation,
            says |-> runLog[Len(runLog)].outcome, handle |-> handle,
            at |-> Len(runLog), cursor |-> Len(runLog)])

\* issueStoredRetryDecision: a decision cites the receipt of a failure.
IssueRetryDecision(g, decision, i) ==
  /\ runLog[i].kind = "receipt" /\ runLog[i].outcome = "failed"
  /\ Issue([kind |-> "retry", generation |-> g, says |-> decision, handle |-> NoHandle,
            at |-> i, cursor |-> Len(runLog)])

\* issueStoredCancellation
IssueCancellation(g, i) ==
  /\ runLog[i].kind = "cancellation"
  /\ Issue([kind |-> "cancellation", generation |-> g, says |-> "cancelled", handle |-> NoHandle,
            at |-> i, cursor |-> Len(runLog)])

-----------------------------------------------------------------------------
\* registerReceiptGeneration: also over a generation already there.
RegisterReceiptGeneration(g, state) ==
  /\ projected' = [projected EXCEPT !.generations[g] = state]
  /\ UNCHANGED <<runLog, unspent>>

\* reduceDispatch of a terminal receipt that comes too late or from another handle.
IsOnlyAFinding(generation, c) ==
  \/ IsTerminal(generation.state)
  \/ NoHandle \notin {c.handle, generation.handle} /\ c.handle # generation.handle

WithReceipt(s, c) ==
  Resolve([s EXCEPT !.generations[c.generation] = GenerationOf(c.says, NoHandle),
                    !.outcomes[c.generation] = [outcome |-> c.says, at |-> c.at],
                    !.taskKnown = TRUE], c.at)

\* Mutant: a second receipt of a generation replaces the first.
OverwritesOutcome(s, c) == WithReceipt(s, c)

\* projectAuthenticatedReceipt
Projected(s, c) ==
  IF \/ s.outcomes[c.generation] # NoOutcome
     \/ s.resolution # Undecided
     \/ IsOnlyAFinding(s.generations[c.generation], c)
  THEN s
  ELSE WithReceipt(s, c)

\* A capability may be used again; the bound is kept by dropping it.
Use(c) == unspent' = unspent \ {c} /\ UNCHANGED runLog

\* A receipt of a generation still planned, or unknown, is refused.
ProjectAuthenticatedReceipt(c) ==
  /\ c.kind = "receipt"
  /\ projected.generations[c.generation] # Unregistered
  /\ projected.outcomes[c.generation] = NoOutcome /\ projected.resolution = Undecided
     => projected.generations[c.generation].state # "planned"
  /\ projected' = Projected(projected, c)
  /\ Use(c)

\* The run may not have moved since the decision was issued.
AtItsCursor(c) == c.cursor = Len(runLog)

ApplyStoredRetryDecision(c) ==
  /\ c.kind = "retry" /\ AtItsCursor(c)
  /\ c.generation \in Registered(projected)
  /\ projected' =
       Resolve([projected EXCEPT !.taskKnown = TRUE,
                                 !.permitted = IF c.says = "permitted" THEN @ \cup {c.generation}
                                               ELSE @ \ {c.generation}], c.at)
  /\ Use(c)

ApplyStoredCancellation(c) ==
  /\ c.kind = "cancellation" /\ AtItsCursor(c)
  /\ c.generation \in Registered(projected)
  /\ projected' =
       IF projected.resolution # Undecided
       THEN projected
       ELSE Resolve([projected EXCEPT !.taskKnown = TRUE,
                                      !.cancelledAt = IF @ = 0 THEN c.at ELSE @], c.at)
  /\ Use(c)

-----------------------------------------------------------------------------
ReceiptInit == runLog = <<>> /\ unspent = {} /\ projected = EmptyProjection

ReceiptNext ==
  \/ \E g \in ReceiptGenerations :
       \/ \E outcome \in ReceiptOutcomes : RecordReceipt(g, outcome)
       \/ \E state \in GenerationStates : RegisterReceiptGeneration(g, state)
       \/ \E i \in 1 .. Len(runLog) :
            \/ \E decision \in {"permitted", "denied"} : IssueRetryDecision(g, decision, i)
            \/ IssueCancellation(g, i)
  \/ RecordCancellation
  \/ \E handle \in {OwnHandle, OtherHandle} : IssueReceipt(handle)
  \/ \E c \in unspent :
       ProjectAuthenticatedReceipt(c) \/ ApplyStoredRetryDecision(c) \/ ApplyStoredCancellation(c)

ReceiptSpec == ReceiptInit /\ [][ReceiptNext]_receiptVars

-----------------------------------------------------------------------------
ReceiptTypeOK ==
  /\ projected.permitted \subseteq ReceiptGenerations
  /\ projected.cancelledAt \in 0 .. MaxRunEvents
  /\ projected.resolution.winner \in {0} \cup ReceiptGenerations
  /\ \A g \in ReceiptGenerations : projected.outcomes[g].at \in 0 .. MaxRunEvents

\* Whatever the order in which receipts, decisions and cancellations reach the
\* projection, the task is settled as its evidence says (l. 241-251), and once: by
\* a success as soon as there is one, by the earliest; by a cancellation only if the
\* run holds one or a generation was cancelled; as failed only when every generation
\* has ended and none of those that failed may be retried.
ArbitrationAgrees ==
  [][LET s == projected'
         r == s.resolution
     IN /\ projected.resolution # Undecided => r = projected.resolution
        /\ (WithOutcome(s, "succeeded") # {}) = (r.resolution = "succeeded")
        /\ r.resolution = "succeeded" => r.winner = Earliest(s, WithOutcome(s, "succeeded"))
        /\ r.resolution = "cancelled" /\ s.cancelledAt = 0 =>
             r.winner \in WithOutcome(s, "cancelled")
        /\ projected.resolution = Undecided /\ r.resolution = "failed" =>
             /\ WithOutcome(s, "failed") \cap s.permitted = {}
             /\ \A g \in Registered(s) : IsTerminal(s.generations[g].state)]_receiptVars

\* A cancellation settles the task only when no generation is live or unknown: each
\* that was handed off has ended (l. 241-249; docs/architecture.md, "Attempt
\* terminality and task resolution").
IsLiveOrUnknown(state) == state \in {"acknowledged", "unknown_outcome"}

CancellationWaits ==
  [][projected.resolution = Undecided /\ projected'.resolution.resolution = "cancelled" =>
       \A g \in Registered(projected') : ~IsLiveOrUnknown(projected'.generations[g].state)]_receiptVars
=============================================================================
