---------------------- MODULE AuthorityStoreRefinement ----------------------
(* AuthorityStore implements CommandLedger: the refinement mapping.         *)
EXTENDS AuthorityStore

\* The author of an event is the command in its id (the causation id).
AuthorsOf(d) == [s \in Streams |-> [i \in 1 .. Len(d.events[s]) |-> d.events[s][i].id.command]]

AppliedIn(d) == [s \in Streams |-> {c \in Commands : d.dedup[s][c] # NoRequest}]

SpentIn(d) == {e \in Runs \X AuthorityKeys \X Commands : d.consumed[e[1]][e[2]] = e[3]}

\* What a connection was told: only an answer that reports an effect counts.
ReplyOf(c) ==
  LET q == call[c].request
  IN  IF call[c].outcome \in {"committed", "deduplicated", "recovered"}
         /\ q.kind \in Deduplicated
      THEN <<q.scope, q.command>>
      ELSE NoRequest

Ledger == INSTANCE CommandLedger WITH
  MaxBatch <- MaxEvents, NoReply <- NoRequest,
  log <- AuthorsOf(db), applied <- AppliedIn(db), spent <- SpentIn(db),
  issued <- db.grants.issued, reply <- [c \in Connections |-> ReplyOf(c)]

\* A command takes effect at most once, whole and at one instant, and a caller
\* is told so only afterwards: the transactions, the compare-and-swap of the
\* heads and the deduplication rows of sqlite-authority.ts implement the ledger.
ImplementsLedger == Ledger!Spec

=============================================================================
