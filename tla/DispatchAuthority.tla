--------------------------- MODULE DispatchAuthority ---------------------------
(* The dispatch of one bound attempt to a provider: the lease that fences   *)
(* the processes, the reducer of the dispatch record, its reconciliation    *)
(* after a restart, and the row of the store that processes replace by a    *)
(* compare-and-swap on the digests of lease and record.                     *)
(*                                                                          *)
(* A process works on a copy in memory.  The code leaves it to its caller   *)
(* when to store it; docs/architecture.md:362 makes the intent durable      *)
(* before the provider hears of it, and here every step is stored before    *)
(* the next, which IsStored states.  The clock is one for all and is read   *)
(* in the step that uses it.  The bound attempt never changes: the store    *)
(* refuses another digest of it, which is why                               *)
(* adoptStoredTerminalReceiptAtomic always fails and has no action.         *)
EXTENDS Naturals

CONSTANTS
  Dispatchers,          \* the processes that may lease the attempt
  Handles,         \* handles a provider may name
  LeaseLength,     \* how long a lease lasts
  MaxTime,         \* bound on the clock
  MaxRecordEvents, \* bound on the events of a dispatch record
  MaxRunHeads,     \* bound on the head of the run
  NoLease, NoRow, NoCopy, Unset

ASSUME DispatchBoundsAssumption ==
  /\ LeaseLength \in Nat \ {0}
  /\ MaxTime \in Nat /\ MaxRecordEvents \in Nat /\ MaxRunHeads \in Nat
ASSUME HandlesAssumption == Unset \notin Handles

VARIABLES
  dispatchRow,   \* the stored row, or NoRow
  copies,        \* what each process holds in memory, or NoCopy
  leaseClock,    \* the time
  runHead,       \* the head of the run's stream
  provider       \* has it launched, and the last call it got

dispatchVars == <<dispatchRow, copies, leaseClock, runHead, provider>>

DispatchPhases == {"planned", "intent_committed", "dispatched", "handle_recorded", "cancel_requested",
           "cancel_handed_off", "reconciliation_required", "unknown_outcome"} \cup {"succeeded", "failed"}
IsSettled(r) == r.phase \in {"succeeded", "failed"}

Records == [phase : DispatchPhases, intent : BOOLEAN, operation : BOOLEAN, handle : Handles \cup {Unset},
            cancel : BOOLEAN, events : 0..MaxRecordEvents]
Leases == [owner : Dispatchers, token : 1..MaxTime + 1, expires : 1..MaxTime + LeaseLength, cursor : 0..MaxRunHeads]
Rows == [lease : Leases \cup {NoLease}, record : Records, cursor : 0..MaxRunHeads]
Copies == [base : Rows \cup {NoRow}, lease : Leases \cup {NoLease}, record : Records]
ProviderCalls == [kind : {"none", "dispatch", "lookup", "cancel"}, fenced : BOOLEAN, cancelled : BOOLEAN]

ASSUME NoLeaseAssumption == NoLease \notin Leases
ASSUME NoRowAssumption == NoRow \notin Rows
ASSUME NoCopyAssumption == NoCopy \notin Copies

\* createDispatchRecord.
Planned == [phase |-> "planned", intent |-> FALSE, operation |-> FALSE, handle |-> Unset,
            cancel |-> FALSE, events |-> 0]

DispatchInit ==
  /\ dispatchRow = NoRow
  /\ copies = [p \in Dispatchers |-> NoCopy]
  /\ leaseClock = 0
  /\ runHead = 0
  /\ provider = [launched |-> FALSE, call |-> [kind |-> "none", fenced |-> TRUE, cancelled |-> FALSE]]

DispatchTypeOK ==
  /\ dispatchRow \in Rows \cup {NoRow}
  /\ copies \in [Dispatchers -> Copies \cup {NoCopy}]
  /\ leaseClock \in 0..MaxTime
  /\ runHead \in 0..MaxRunHeads
  /\ provider \in [launched : BOOLEAN, call : ProviderCalls]

-----------------------------------------------------------------------------
(* The lease *)

\* Mutant: the fence is not compared with the time.
HoldsLeaseForever(p) ==
  LET lease == copies[p].lease IN lease # NoLease /\ lease.owner = p

\* assertLeaseFence for a process that names itself and the token of its copy.
HoldsLease(p) ==
  LET lease == copies[p].lease IN lease # NoLease /\ lease.owner = p /\ leaseClock < lease.expires

Token(lease) == IF lease = NoLease THEN 0 ELSE lease.token

\* The callers' discipline: a copy is stored before it is worked on.
IsStored(p) ==
  /\ copies[p] # NoCopy
  /\ copies[p].base # NoRow
  /\ copies[p].lease = copies[p].base.lease
  /\ copies[p].record = copies[p].base.record

\* acquireLease: nothing while the lease of the copy lasts.
AcquireLease(p) ==
  LET held == copies[p].lease IN
  /\ IsStored(p)
  /\ held # NoLease => held.expires <= leaseClock
  /\ Token(held) <= MaxTime
  /\ copies' = [copies EXCEPT ![p].lease =
       [owner |-> p, token |-> Token(held) + 1, expires |-> leaseClock + LeaseLength, cursor |-> runHead]]
  /\ UNCHANGED <<dispatchRow, leaseClock, runHead, provider>>

\* renewLease: the cursor of the lease stays.
RenewLease(p) ==
  /\ IsStored(p)
  /\ HoldsLease(p)
  /\ copies' = [copies EXCEPT ![p].lease.expires = leaseClock + LeaseLength]
  /\ UNCHANGED <<dispatchRow, leaseClock, runHead, provider>>

-----------------------------------------------------------------------------
(* The reducer of the record *)

\* evolve: a change appends an event.
Evolve(r, phase) == [r EXCEPT !.phase = phase, !.events = @ + 1]

\* recordProviderHandle, where it does not throw.
AcceptsHandle(r, h) == r.handle \in {Unset, h} /\ r.phase # "planned"
RecordHandle(r, h) ==
  IF r.handle = h THEN r
  ELSE [Evolve(r, IF IsSettled(r) THEN r.phase ELSE "handle_recorded") EXCEPT !.operation = TRUE, !.handle = h]

\* recordLookupFailure.
LookupFailed(r) == IF r.phase = "unknown_outcome" THEN r ELSE Evolve(r, "unknown_outcome")

\* lookupDispatch and the catch around it: the records it may leave.
LookupOutcomes(r) ==
  {IF AcceptsHandle(r, h) THEN RecordHandle(r, h) ELSE LookupFailed(r) : h \in IF provider.launched THEN Handles ELSE {}}
  \cup {Evolve(r, IF r.operation \/ r.handle # Unset THEN "unknown_outcome" ELSE "intent_committed"),
        Evolve(r, "unknown_outcome")}

\* requestDispatchCancellation.
WithCancellation(r) ==
  IF IsSettled(r) \/ r.cancel THEN r ELSE [Evolve(r, "cancel_requested") EXCEPT !.cancel = TRUE]

\* handoffCancellation and the catch around it.
HandoffOutcomes(r) ==
  {r, Evolve(r, "cancel_handed_off"), Evolve(r, "reconciliation_required")}

\* commitLaunchIntent.
CommitLaunchIntent(p) ==
  LET r == copies[p].record IN
  /\ IsStored(p)
  /\ HoldsLease(p)
  /\ r.phase = "planned" /\ ~r.cancel
  /\ r.events < MaxRecordEvents
  /\ copies' = [copies EXCEPT ![p].record = [Evolve(r, "intent_committed") EXCEPT !.intent = TRUE]]
  /\ UNCHANGED <<dispatchRow, leaseClock, runHead, provider>>

-----------------------------------------------------------------------------
(* ProviderCalls to the provider *)

\* The provider notes by whose lease it is called and what the store says then.
Calling(p, kind) ==
  [kind |-> kind,
   fenced |-> dispatchRow.lease # NoLease /\ dispatchRow.lease.owner = p
              /\ dispatchRow.lease.token = copies[p].lease.token,
   cancelled |-> dispatchRow.record.cancel]

\* dispatchCommittedIntent: the answer names an operation and perhaps a
\* handle, or the call throws, whether or not the provider launched.
DispatchCommittedIntent(p) ==
  LET r == copies[p].record
      bound == [Evolve(r, "dispatched") EXCEPT !.operation = TRUE] IN
  /\ IsStored(p)
  /\ HoldsLease(p)
  /\ r.phase = "intent_committed" /\ ~r.cancel /\ ~r.operation
  /\ r.events + 2 <= MaxRecordEvents
  /\ \E launches \in {TRUE, provider.launched} :
       /\ provider' = [launched |-> launches, call |-> Calling(p, "dispatch")]
       /\ \E next \in {r} \cup (IF launches THEN {bound} \cup {RecordHandle(bound, h) : h \in Handles} ELSE {}) :
            copies' = [copies EXCEPT ![p].record = next]
  /\ UNCHANGED <<dispatchRow, leaseClock, runHead>>

\* recoverDispatch and, when it cancels, recoverCancellation.
RecoverDispatch(p, cancels) ==
  LET r == IF cancels THEN WithCancellation(copies[p].record) ELSE copies[p].record
      hands == r.cancel /\ r.intent /\ r.phase # "cancel_handed_off" IN
  /\ IsStored(p)
  /\ HoldsLease(p)
  /\ r.phase \notin {"planned", "unknown_outcome"} /\ ~IsSettled(r)
  /\ copies[p].record.events + 2 <= MaxRecordEvents
  /\ \E next \in IF hands THEN HandoffOutcomes(r) ELSE IF r.cancel THEN {r} ELSE LookupOutcomes(r) :
       copies' = [copies EXCEPT ![p].record = next]
  /\ provider' = IF hands THEN [provider EXCEPT !.call = Calling(p, "cancel")]
                 ELSE IF r.cancel THEN provider
                 ELSE [provider EXCEPT !.call = Calling(p, "lookup")]
  /\ UNCHANGED <<dispatchRow, leaseClock, runHead>>

\* recordTerminalReceipt: no lease is asked for.
RecordTerminalReceipt(p) ==
  LET r == copies[p].record IN
  /\ IsStored(p)
  /\ r.phase # "planned" /\ ~IsSettled(r)
  /\ r.events + 2 <= MaxRecordEvents
  /\ \E outcome \in {"succeeded", "failed"} :
     \E adopted \in {r} \cup {RecordHandle(r, h) : h \in {k \in Handles : AcceptsHandle(r, k)}} :
       copies' = [copies EXCEPT ![p].record = Evolve(adopted, outcome)]
  /\ UNCHANGED <<dispatchRow, leaseClock, runHead, provider>>

\* auditLateHandle: no lease is asked for, and a settled record stays.
AuditLateHandle(p) ==
  LET r == copies[p].record IN
  /\ IsStored(p)
  /\ ~IsSettled(r)
  /\ r.events < MaxRecordEvents
  /\ \E h \in Handles : AcceptsHandle(r, h) /\ copies' = [copies EXCEPT ![p].record = RecordHandle(r, h)]
  /\ UNCHANGED <<dispatchRow, leaseClock, runHead, provider>>

-----------------------------------------------------------------------------
(* The store *)

\* createBoundAttempt and createDispatchRecord.
BindAttempt(p) ==
  /\ copies[p] = NoCopy
  /\ copies' = [copies EXCEPT ![p] = [base |-> NoRow, lease |-> NoLease, record |-> Planned]]
  /\ UNCHANGED <<dispatchRow, leaseClock, runHead, provider>>

\* TrustedAuthorityReader.dispatchAuthority and rehydrateRecoveryState.
LoadDispatch(p) ==
  /\ dispatchRow # NoRow
  /\ dispatchRow.cursor = runHead
  /\ copies' = [copies EXCEPT ![p] =
       [base |-> dispatchRow, lease |-> dispatchRow.lease, record |-> dispatchRow.record]]
  /\ UNCHANGED <<dispatchRow, leaseClock, runHead, provider>>

\* Mutant: the digest of the record is not compared.
MatchesLeaseOnly(base) ==
  IF dispatchRow = NoRow THEN base = NoRow
  ELSE base # NoRow /\ base.lease = dispatchRow.lease

\* The compare-and-swap on the digests of lease and record.
Matches(base) ==
  IF dispatchRow = NoRow THEN base = NoRow
  ELSE base # NoRow /\ base.lease = dispatchRow.lease /\ base.record = dispatchRow.record

\* The fence neither falls nor skips, and a token keeps its owner.
FollowsFence(lease) ==
  dispatchRow # NoRow =>
    /\ Token(lease) \in Token(dispatchRow.lease)..Token(dispatchRow.lease) + 1
    /\ Token(lease) = Token(dispatchRow.lease) /\ lease # NoLease => lease.owner = dispatchRow.lease.owner

\* persistDispatchAuthorityAtomic at the exact head of the run.
PersistDispatchAuthority(p) ==
  LET mine == copies[p] IN
  /\ mine # NoCopy
  /\ mine.lease # NoLease => mine.lease.cursor = runHead
  /\ Matches(mine.base)
  /\ FollowsFence(mine.lease)
  /\ LET stored == [lease |-> mine.lease, record |-> mine.record, cursor |-> runHead] IN
       /\ dispatchRow' = stored
       /\ copies' = [copies EXCEPT ![p].base = stored]
  /\ UNCHANGED <<leaseClock, runHead, provider>>

-----------------------------------------------------------------------------
(* What goes on around *)

\* A process dies: its copy is gone.
LoseCopy(p) ==
  /\ copies[p] # NoCopy
  /\ copies' = [copies EXCEPT ![p] = NoCopy]
  /\ UNCHANGED <<dispatchRow, leaseClock, runHead, provider>>

\* Another event is appended to the run or its workspace.
MoveRunHead ==
  /\ runHead < MaxRunHeads
  /\ runHead' = runHead + 1
  /\ UNCHANGED <<dispatchRow, copies, leaseClock, provider>>

TickLease ==
  /\ leaseClock < MaxTime
  /\ leaseClock' = leaseClock + 1
  /\ UNCHANGED <<dispatchRow, copies, runHead, provider>>

DispatchNext ==
  \/ \E p \in Dispatchers :
       \/ BindAttempt(p) \/ LoadDispatch(p) \/ LoseCopy(p)
       \/ AcquireLease(p) \/ RenewLease(p)
       \/ CommitLaunchIntent(p) \/ DispatchCommittedIntent(p)
       \/ \E cancels \in BOOLEAN : RecoverDispatch(p, cancels)
       \/ RecordTerminalReceipt(p) \/ AuditLateHandle(p)
       \/ PersistDispatchAuthority(p)
  \/ MoveRunHead \/ TickLease

DispatchSpec == DispatchInit /\ [][DispatchNext]_dispatchVars

-----------------------------------------------------------------------------
\* The provider is called only by the process whose lease is stored, and is
\* not asked to launch once a cancellation is stored: an old owner that wakes
\* up finds its lease expired before it can call (assertLeaseFence,
\* acquireLease, persistDispatchAuthorityAtomic).
CallsAreFenced ==
  /\ provider.call.fenced
  /\ provider.call.kind = "dispatch" => ~provider.call.cancelled

\* A stored outcome, cancellation, operation or handle is never taken back,
\* whatever older copy a process stores (the compare-and-swap of
\* persistDispatchAuthorityAtomic).
DispatchNeverGoesBack ==
  [][dispatchRow # NoRow =>
       LET was == dispatchRow.record  is == dispatchRow'.record IN
       /\ IsSettled(was) => is.phase = was.phase
       /\ was.cancel => is.cancel
       /\ was.operation => is.operation
       /\ was.handle # Unset => is.handle = was.handle
       /\ Token(dispatchRow'.lease) >= Token(dispatchRow.lease)]_dispatchVars
=============================================================================
