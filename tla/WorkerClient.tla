------------------------------ MODULE WorkerClient ------------------------------
(* The client a worker has of its coordinator (packages/sdk/src/index.ts):   *)
(* one attempt publishes evidence, submits receipts, seals one proposal that *)
(* names exactly what was accepted, and follows the decisions about it.      *)
(* Its reads (readBoundContext, decision) change nothing and are left out.   *)
(*                                                                           *)
(* Every method tests the client's state, awaits a call and changes the      *)
(* state when the answer is there.  A caller need not await one method       *)
(* before the next, so calls overlap, and their answers come in any order or *)
(* not at all: then the call took effect at the coordinator or did not.  A   *)
(* worker that dies is followed by one with the same binding and no memory.  *)
(* The coordinator is external: it takes what it is sent, once, and answers. *)
EXTENDS Integers, FiniteSets

CONSTANTS
  Evidence,     \* the digests of evidence
  WorkReceipts, \* receipts sealed for this attempt
  Strangers,    \* receipts of other attempts, producers or grants
  ResumeTokens, \* the tokens of subscriptions
  MaxCalls,     \* bound: calls in flight, those of clients that died included
  MaxWorkers,   \* bound: clients of the attempt, one after another
  MaxRunSequence    \* bound: the last sequence of the run

ASSUME StrangersAssumption == WorkReceipts \cap Strangers = {}

VARIABLES
  worker,   \* the client: its phase and its three maps
  workers,  \* the number of this client
  inFlight, \* the calls that have not been answered, of this client and others
  taken,    \* what the coordinator has accepted
  runSequence   \* the sequence of the run at the coordinator

clientVars == <<worker, workers, inFlight, taken, runSequence>>

-----------------------------------------------------------------------------
\* A proposal is what it names.
WorkProposals == [receipts : SUBSET WorkReceipts, evidence : SUBSET Evidence]

\* A subscription to resume: where the events that were seen end.
Resumes == [token : ResumeTokens, proposal : WorkProposals, cursor : 0 .. MaxRunSequence]

\* Of a call: who made it, what it sends, from which cursor, and whether it took effect.
ClientCall(method, item, cursor) ==
  [by |-> workers, method |-> method, item |-> item, cursor |-> cursor, done |-> FALSE]

NewWorker == [phase |-> "publishing-evidence", receipts |-> {}, evidence |-> {}, scopes |-> {}]

ClientInit ==
  /\ worker = NewWorker /\ workers = 1
  /\ inFlight = {} /\ runSequence = 0
  /\ taken = [evidence |-> {}, receipts |-> {}, proposals |-> {}]

-----------------------------------------------------------------------------
\* CoordinatorClientV1.call: the request is on its way.  Equal calls count as one.
Sends(method, item, cursor) ==
  LET call == ClientCall(method, item, cursor)
  IN /\ Cardinality(inFlight) < MaxCalls
     /\ inFlight' = inFlight \cup {call}
     /\ UNCHANGED <<worker, workers, taken, runSequence>>

\* Returns(c, client): the call has taken effect and the continuation runs.
Returns(c, client) ==
  /\ c \in inFlight /\ c.by = workers /\ c.done
  /\ worker' = client
  /\ inFlight' = inFlight \ {c}
  /\ UNCHANGED <<workers, taken, runSequence>>

\* Mutant: the evidence is recorded before the coordinator has it.
PublishEvidenceAhead(e) ==
  /\ worker.phase = "publishing-evidence"
  /\ inFlight' = inFlight \cup {ClientCall("artifact.publish.v1", e, 0)}
  /\ worker' = [worker EXCEPT !.evidence = @ \cup {e}]
  /\ UNCHANGED <<workers, taken, runSequence>>

\* publishEvidence, publishArtifact
PublishEvidence(e) ==
  /\ worker.phase = "publishing-evidence"
  /\ Sends("artifact.publish.v1", e, 0)

EvidencePublished(c) ==
  /\ c.method = "artifact.publish.v1"
  /\ Returns(c, [worker EXCEPT !.evidence = @ \cup {c.item}])

\* #assertReceipt: the receipt is of this attempt and of its producer.
IsBoundReceipt(r) == r \in WorkReceipts

\* submitReceipt
SubmitReceipt(r) ==
  /\ worker.phase # "submitted"
  /\ IsBoundReceipt(r)
  /\ Sends("receipt.submit.v1", r, 0)

ReceiptAccepted(c) ==
  /\ c.method = "receipt.submit.v1"
  /\ Returns(c, [worker EXCEPT !.receipts = @ \cup {c.item}, !.phase = "accepting-receipts"])

\* #assertProposal: it names exactly the receipts and the evidence accepted.
IsBoundProposal(p) == p.receipts = worker.receipts /\ p.evidence = worker.evidence

\* submitProposal
SubmitProposal(p) ==
  /\ worker.phase = "accepting-receipts"
  /\ IsBoundProposal(p)
  /\ Sends("proposal.submit.v1", p, 0)

ProposalSubmitted(c) ==
  /\ c.method = "proposal.submit.v1"
  /\ Returns(c, [worker EXCEPT !.phase = "submitted"])

\* #verifiedResumeCursor: a token resumes only where this client left it.
Verified(p, resume) == resume \in worker.scopes /\ resume.proposal = p

\* subscribeDecisions
SubscribeDecisions(p) ==
  /\ IsBoundProposal(p)
  /\ \/ Sends("admission.subscribe.v1", p, 0)
     \/ \E resume \in worker.scopes : Verified(p, resume) /\ Sends("admission.subscribe.v1", p, resume.cursor)

\* #resumeScopes.set: one scope a token.
Scoped(resume) == {s \in worker.scopes : s.token # resume.token} \cup {resume}

\* #monotonic
Monotonic(prior, next) == prior <= next

\* The cursor that comes back is of this run and not before the one sent.
DecisionsFollowed(c, token, cursor) ==
  /\ c.method = "admission.subscribe.v1"
  /\ cursor <= runSequence /\ Monotonic(c.cursor, cursor)
  /\ Returns(c, [worker EXCEPT !.scopes = Scoped([token |-> token, proposal |-> c.item, cursor |-> cursor])])

-----------------------------------------------------------------------------
\* The coordinator: every call has a key, so what it is sent again counts once.
Takes(set, c, method) == IF c.method = method THEN set \cup {c.item} ELSE set
TakesEffect(c) ==
  /\ c \in inFlight /\ ~c.done
  /\ inFlight' = (inFlight \ {c}) \cup {[c EXCEPT !.done = TRUE]}
  /\ taken' = [evidence |-> Takes(taken.evidence, c, "artifact.publish.v1"),
               receipts |-> Takes(taken.receipts, c, "receipt.submit.v1"),
               proposals |-> Takes(taken.proposals, c, "proposal.submit.v1")]
  /\ UNCHANGED <<worker, workers, runSequence>>

RunGoesOn ==
  /\ runSequence < MaxRunSequence
  /\ runSequence' = runSequence + 1
  /\ UNCHANGED <<worker, workers, inFlight, taken>>

\* The transport fails, the coordinator refuses, or the answer is not what was
\* asked for (failure, INVALID_RESPONSE, SCOPE_SUBSTITUTION): the method throws.
Throws(c) ==
  /\ c \in inFlight
  /\ inFlight' = inFlight \ {c}
  /\ UNCHANGED <<worker, workers, taken, runSequence>>

\* The worker dies; the next one is constructed from the same binding.
WorkerClientV1 ==
  /\ workers < MaxWorkers
  /\ workers' = workers + 1 /\ worker' = NewWorker
  /\ UNCHANGED <<inFlight, taken, runSequence>>

ClientNext ==
  \/ \E e \in Evidence : PublishEvidence(e)
  \/ \E r \in WorkReceipts \cup Strangers : SubmitReceipt(r)
  \/ LET p == [receipts |-> worker.receipts, evidence |-> worker.evidence]
     IN SubmitProposal(p) \/ SubscribeDecisions(p)
  \/ \E c \in inFlight :
       \/ EvidencePublished(c) \/ ReceiptAccepted(c) \/ ProposalSubmitted(c)
       \/ \E token \in ResumeTokens, cursor \in 0 .. MaxRunSequence : DecisionsFollowed(c, token, cursor)
       \/ TakesEffect(c) \/ Throws(c)
  \/ RunGoesOn
  \/ WorkerClientV1

ClientSpec == ClientInit /\ [][ClientNext]_clientVars

-----------------------------------------------------------------------------
\* The type of the client's state.
ClientTypeOK ==
  /\ worker.phase \in {"publishing-evidence", "accepting-receipts", "submitted"}
  /\ worker.receipts \subseteq WorkReceipts /\ worker.evidence \subseteq Evidence
  /\ worker.scopes \subseteq Resumes
  /\ workers \in 1 .. MaxWorkers /\ runSequence \in 0 .. MaxRunSequence
  /\ taken.proposals \subseteq WorkProposals

\* A proposal that is on its way or accepted rests on receipts and evidence that
\* the coordinator has, at least one receipt among them, although answers are
\* lost, calls overlap and a worker begins again (submitProposal, #assertProposal).
ProposalNamesWhatWasAccepted ==
  \A p \in taken.proposals \cup {c.item : c \in {d \in inFlight : d.method = "proposal.submit.v1"}} :
    /\ p.receipts # {} /\ p.receipts \subseteq taken.receipts
    /\ p.evidence \subseteq taken.evidence
=============================================================================
