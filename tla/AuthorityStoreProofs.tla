------------------------ MODULE AuthorityStoreProofs ------------------------
(***************************************************************************)
(* Proofs about AuthorityStore for every value of its constants: the type  *)
(* invariant, the inductive invariant that ties the open transaction to    *)
(* the committed database, and the action properties it yields.            *)
(***************************************************************************)
EXTENDS AuthorityStore, FiniteSetTheorems, TLAPS

-----------------------------------------------------------------------------
(* Types of the data a request is built from.                              *)

\* The empty head and the empty grant record are well formed.
LEMMA EmptyDataType ==
  /\ EmptyHead \in Heads
  /\ NoGrants \in GrantRecords
BY DEF EmptyHead, Heads, NoGrants, GrantRecords

\* A request appends a natural number of events to every stream.
LEMMA BatchSizeType ==
  ASSUME NEW q \in Requests, NEW s \in Streams
  PROVE  BatchSize(q, s) \in Nat
BY DEF BatchSize, Requests

\* The head a request builds on is a head.
LEMMA BaseType ==
  ASSUME NEW q \in Requests, NEW s \in Streams
  PROVE  /\ Base(q, s) \in Heads
         /\ Base(q, s).sequence \in Nat
         /\ Base(q, s).hash \in EventIds \cup {NoHash}
BY DEF Base, Requests, Heads

\* The name of an event is an event id.
LEMMA EventIdType ==
  ASSUME NEW q \in Requests, NEW s \in Streams, NEW i \in Nat
  PROVE  EventId(q, s, i) \in EventIds
<1>1. q.command \in Commands
  BY DEF Requests
<1>2. Base(q, s).sequence + i \in Nat
  BY BaseType
<1>3. CASE q.kind \in {"bootstrap", "runGenesis"}
  BY <1>1, <1>3 DEF EventId, EventIds
<1>4. CASE q.kind = "taskCreate"
  BY <1>1, <1>4 DEF EventId, EventIds
<1>5. CASE q.kind = "admission"
  BY <1>1, <1>2, <1>5 DEF EventId, EventIds
<1>6. CASE q.kind \notin {"bootstrap", "runGenesis", "taskCreate", "admission"}
  BY <1>1, <1>6 DEF EventId, EventIds
<1> QED
  BY <1>3, <1>4, <1>5, <1>6

\* The batch of a request is a finite sequence of events.
LEMMA BatchType ==
  ASSUME NEW q \in Requests, NEW s \in Streams
  PROVE  Batch(q, s) \in Seq(Events)
<1> DEFINE n == BatchSize(q, s)
<1>1. n \in Nat
  BY BatchSizeType
<1>2. ASSUME NEW i \in 1 .. n
      PROVE  Batch(q, s)[i] \in Events
  <2>1. EventId(q, s, i) \in EventIds
    BY <1>1, EventIdType
  <2>2. i # 1 => EventId(q, s, i - 1) \in EventIds
    BY <1>1, EventIdType
  <2>3. Base(q, s).hash \in EventIds \cup {NoHash}
    BY BaseType
  <2> QED
    BY <2>1, <2>2, <2>3 DEF Batch, Events
<1>3. Batch(q, s) \in [1 .. n -> Events]
  <2>1. Batch(q, s) = [i \in 1 .. n |-> Batch(q, s)[i]]
    BY DEF Batch
  <2> QED
    BY <1>2, <2>1
<1> QED
  BY <1>1, <1>3

-----------------------------------------------------------------------------
(* A transaction maps a database to a database.                            *)

\* Appending a batch keeps every stream a sequence of events.
LEMMA AppendEventsType ==
  ASSUME NEW d \in Databases, NEW q \in Requests
  PROVE  AppendEvents(d, q) \in [Streams -> Seq(Events)]
<1>1. ASSUME NEW s \in Streams
      PROVE  d.events[s] \o Batch(q, s) \in Seq(Events)
  BY BatchType DEF Databases
<1> QED
  BY <1>1 DEF AppendEvents

\* The heads a transaction leaves are heads.
LEMMA AdvanceHeadsType ==
  ASSUME NEW d \in Databases, NEW q \in Requests
  PROVE  AdvanceHeads(d, q) \in [Streams -> Heads]
<1>1. ASSUME NEW s \in Streams, BatchSize(q, s) # 0
      PROVE  [sequence |-> Base(q, s).sequence + BatchSize(q, s),
              hash |-> EventId(q, s, BatchSize(q, s))] \in Heads
  BY BaseType, BatchSizeType, EventIdType DEF Heads
<1>2. ASSUME NEW s \in Streams
      PROVE  d.heads[s] \in Heads
  BY DEF Databases
<1> QED
  BY <1>1, <1>2 DEF AdvanceHeads

\* The ledgers and the grant record keep their types.
LEMMA LedgersType ==
  ASSUME NEW d \in Databases, NEW q \in Requests
  PROVE  /\ RecordCommand(d, q) \in [Streams -> [Commands -> Requests \cup {NoRequest}]]
         /\ RecordConsumption(d, q) \in [Runs -> [AuthorityKeys -> Commands \cup {NoCommand}]]
         /\ ReplaceGrants(d, q) \in GrantRecords
<1>1. /\ d.dedup \in [Streams -> [Commands -> Requests \cup {NoRequest}]]
      /\ d.consumed \in [Runs -> [AuthorityKeys -> Commands \cup {NoCommand}]]
      /\ d.grants \in GrantRecords
  BY DEF Databases
<1>2. q.command \in Commands /\ q.grants \in GrantRecords
  BY DEF Requests
<1>3. RecordCommand(d, q) \in [Streams -> [Commands -> Requests \cup {NoRequest}]]
  <2> DEFINE row(s) == [d.dedup[s] EXCEPT ![q.command] = q]
  <2>1. \A s \in Streams : row(s) \in [Commands -> Requests \cup {NoRequest}]
    BY <1>1
  <2> QED
    BY <1>1, <2>1 DEF RecordCommand
<1>4. RecordConsumption(d, q) \in [Runs -> [AuthorityKeys -> Commands \cup {NoCommand}]]
  <2> DEFINE row(r) == [d.consumed[r] EXCEPT ![q.key] = q.command]
  <2>1. \A r \in Runs : row(r) \in [AuthorityKeys -> Commands \cup {NoCommand}]
    BY <1>1, <1>2
  <2> QED
    BY <1>1, <2>1 DEF RecordConsumption
<1>5. ReplaceGrants(d, q) \in GrantRecords
  BY <1>1, <1>2 DEF ReplaceGrants, GrantRecords
<1> QED
  BY <1>3, <1>4, <1>5

\* A transaction leaves a database.
LEMMA ApplyType ==
  ASSUME NEW d \in Databases, NEW q \in Requests
  PROVE  Apply(d, q) \in Databases
BY AppendEventsType, AdvanceHeadsType, LedgersType DEF Apply, Databases

-----------------------------------------------------------------------------
(* The type invariant, action by action.                                   *)

\* The program starts with an empty, well-typed database.
LEMMA InitType == Init => TypeOK
<1> SUFFICES ASSUME Init PROVE TypeOK
  OBVIOUS
<1>1. EmptyDatabase \in Databases
  BY EmptyDataType DEF EmptyDatabase, Databases
<1>2. IdleCall \in Calls
  BY EmptyDataType DEF IdleCall, Calls, Phases, Outcomes
<1> QED
  BY <1>1, <1>2, SentinelsAssumption, BoundsAssumption DEF Init, TypeOK, IdleCall

\* The record a caller moves to is typed when its fields are.
LEMMA BecomeType ==
  ASSUME TypeOK, NEW c \in Connections, NEW m \in Calls, Become(c, m)
  PROVE  /\ call' \in [Connections -> Calls]
         /\ call'[c] = m
         /\ \A o \in Connections \ {c} : call'[o] = call[o]
BY DEF TypeOK, Become

\* A composed request is a request.
LEMMA RequestType ==
  ASSUME TypeOK, NEW c \in Connections, NEW kind \in Kinds, NEW scope \in Streams,
         NEW command \in Commands, NEW n \in BatchSizes, NEW key \in AuthorityKeys
  PROVE  Request(c, kind, scope, command, n, key) \in Requests
<1>1. call[c].workspaceHead \in Heads /\ call[c].grants \in GrantRecords
  BY DEF TypeOK, Calls
<1>2. scope # Workspace => db.heads[scope] \in Heads
  BY DEF TypeOK, Databases
<1>3. kind \in AllKinds /\ n \in Nat
  BY KindsAssumption, BoundsAssumption
<1> QED
  BY <1>1, <1>2, <1>3, EmptyDataType DEF Request, Requests

\* Observing, composing, recalling, resubmitting and finishing touch one caller.
LEMMA CallerStepType ==
  ASSUME TypeOK, NEW c \in Connections,
         Observe(c) \/ Compose(c) \/ Recall(c) \/ Resubmit(c) \/ Finish(c)
  PROVE  TypeOK'
<1>1. call[c] \in Calls /\ db \in Databases
  BY SMTT(60) DEF TypeOK
<1>2. call[c].phase # "writing" /\ writer # c
  BY DEF TypeOK, Observe, Compose, Recall, Resubmit, Finish
<1>3. ASSUME NEW m \in Calls, Become(c, m), m.phase # "writing",
             m.phase \in {"composed", "lost"} => m.request \in Requests,
             UNCHANGED <<db, writer, staged, crashes>>
      PROVE  TypeOK'
  <2>1. /\ call' \in [Connections -> Calls]
        /\ call'[c] = m
        /\ \A o \in Connections \ {c} : call'[o] = call[o]
    BY <1>3, BecomeType
  <2> QED
    BY <1>2, <1>3, <2>1 DEF TypeOK
<1>4. CASE Observe(c)
  <2>1. db.heads[Workspace] \in Heads /\ db.grants \in GrantRecords
    BY <1>1 DEF Databases, Streams
  <2> DEFINE m == [call[c] EXCEPT !.phase = "observed",
                     !.workspaceHead = db.heads[Workspace], !.grants = db.grants]
  <2>2. m \in Calls
    BY <1>1, <2>1 DEF Calls, Phases
  <2>3. m.phase = "observed"
    BY <1>1 DEF Calls
  <2> QED
    BY <1>3, <1>4, <2>2, <2>3 DEF Observe
<1>5. CASE Compose(c)
  <2>1. PICK kind \in Kinds, scope \in Streams, command \in Commands,
             n \in BatchSizes, key \in AuthorityKeys :
          Become(c, [call[c] EXCEPT !.phase = "composed",
                       !.request = Request(c, kind, scope, command, n, key)])
    BY <1>5 DEF Compose
  <2> DEFINE q == Request(c, kind, scope, command, n, key)
             m == [call[c] EXCEPT !.phase = "composed", !.request = q]
  <2>2. q \in Requests
    BY RequestType
  <2>3. m \in Calls /\ m.phase = "composed" /\ m.request = q
    BY <1>1, <2>2 DEF Calls, Phases
  <2>4. UNCHANGED <<db, writer, staged, crashes>>
    BY <1>5 DEF Compose
  <2> HIDE DEF q
  <2> QED
    BY <1>3, <2>1, <2>2, <2>3, <2>4 DEF q
<1>6. CASE Recall(c)
  <2>1. PICK run \in Runs, command \in Commands, n \in BatchSizes :
          LET row == db.dedup[run][command]
          IN  /\ row # NoRequest
              /\ IF row.kind \in {"execution", "noop", "result"} /\ row.n = n
                 THEN Become(c, [call[c] EXCEPT !.phase = "answered", !.request = row,
                                                !.outcome = "recovered"])
                 ELSE Answer(c, "conflict")
    BY <1>6 DEF Recall
  <2> DEFINE row == db.dedup[run][command]
             m1 == [call[c] EXCEPT !.phase = "answered", !.request = row, !.outcome = "recovered"]
             m2 == [call[c] EXCEPT !.phase = "answered", !.outcome = "conflict"]
  <2>2. row \in Requests \cup {NoRequest}
    BY <1>1 DEF Databases, Streams
  <2>3. m1 \in Calls /\ m1.phase = "answered" /\ m2 \in Calls /\ m2.phase = "answered"
    BY <1>1, <2>2 DEF Calls, Phases, Outcomes
  <2>4. Become(c, m1) \/ Become(c, m2)
    BY <2>1 DEF Answer
  <2>5. UNCHANGED <<db, writer, staged, crashes>>
    BY <1>6 DEF Recall
  <2> QED
    BY <1>3, <2>3, <2>4, <2>5
<1>7. CASE Resubmit(c)
  <2> DEFINE m == [call[c] EXCEPT !.phase = "composed"]
  <2>1. m \in Calls /\ m.phase = "composed" /\ m.request = call[c].request
    BY <1>1 DEF Calls, Phases
  <2>2. call[c].request \in Requests
    BY <1>7 DEF Resubmit, TypeOK
  <2> QED
    BY <1>3, <1>7, <2>1, <2>2 DEF Resubmit
<1>8. CASE Finish(c)
  <2>1. IdleCall \in Calls /\ IdleCall.phase = "idle"
    BY EmptyDataType DEF IdleCall, Calls, Phases, Outcomes
  <2> QED
    BY <1>3, <1>8, <2>1 DEF Finish
<1> QED
  BY <1>4, <1>5, <1>6, <1>7, <1>8

\* Opening a transaction, with each of its three results.
LEMMA BeginType ==
  ASSUME TypeOK, NEW c \in Connections, Begin(c)
  PROVE  TypeOK'
<1> DEFINE q == call[c].request
           answered(o) == [call[c] EXCEPT !.phase = "answered", !.outcome = o]
           writing == [call[c] EXCEPT !.phase = "writing"]
<1>1. q \in Requests /\ writer = NoConnection /\ NoConnection \notin Connections
  BY SentinelsAssumption DEF Begin, TypeOK
<1>2. /\ answered("deduplicated") \in Calls /\ answered("deduplicated").phase = "answered"
      /\ answered("conflict") \in Calls /\ answered("conflict").phase = "answered"
      /\ writing \in Calls /\ writing.phase = "writing" /\ writing.request = q
  BY DEF TypeOK, Calls, Phases, Outcomes
<1>3. CASE \/ Become(c, answered("deduplicated")) /\ UNCHANGED <<writer, staged>>
           \/ Become(c, answered("conflict")) /\ UNCHANGED <<writer, staged>>
  <2>1. PICK m \in {answered("deduplicated"), answered("conflict")} :
          Become(c, m) /\ UNCHANGED <<writer, staged>>
    BY <1>3
  <2>2. /\ call' \in [Connections -> Calls]
        /\ call'[c] = m
        /\ \A o \in Connections \ {c} : call'[o] = call[o]
    BY <1>2, <2>1, BecomeType
  <2>3. m.phase = "answered"
    BY <1>2
  <2>4. UNCHANGED <<db, crashes>>
    BY DEF Begin
  <2> QED
    BY <1>1, <2>1, <2>2, <2>3, <2>4 DEF TypeOK
<1>4. CASE writer' = c /\ staged' = Apply(db, q) /\ Become(c, writing)
  <2>1. /\ call' \in [Connections -> Calls]
        /\ call'[c] = writing
        /\ \A o \in Connections \ {c} : call'[o] = call[o]
    BY <1>2, <1>4, BecomeType
  <2>2. staged' \in Databases
    BY <1>1, <1>4, ApplyType DEF TypeOK
  <2>3. UNCHANGED <<db, crashes>>
    BY DEF Begin
  <2> HIDE DEF q, writing
  <2>4. \A o \in Connections : call[o].phase # "writing"
    BY <1>1 DEF TypeOK
  <2>5. /\ writer' \in Connections \cup {NoConnection}
        /\ \A o \in Connections :
             /\ call'[o].phase \in {"composed", "writing", "lost"} => call'[o].request \in Requests
             /\ call'[o].phase = "writing" <=> writer' = o
    BY <1>1, <1>2, <1>4, <2>1, <2>4 DEF TypeOK
  <2> QED
    BY <2>1, <2>2, <2>3, <2>5 DEF TypeOK
<1> QED
  BY <1>3, <1>4 DEF Begin, Answer

\* Meeting a held lock answers the caller and changes nothing else.
LEMMA BusyType ==
  ASSUME TypeOK, NEW c \in Connections, Busy(c)
  PROVE  TypeOK'
<1> DEFINE m == [call[c] EXCEPT !.phase = "answered", !.outcome = "busy"]
<1>1. m \in Calls /\ m.phase = "answered" /\ writer # c
  BY DEF TypeOK, Busy, Calls, Phases, Outcomes
<1>2. /\ call' \in [Connections -> Calls]
      /\ call'[c] = m
      /\ \A o \in Connections \ {c} : call'[o] = call[o]
  BY <1>1, BecomeType DEF Busy, Answer
<1> QED
  BY <1>1, <1>2 DEF TypeOK, Busy

\* The transaction ends, by its commit or by the death of its process.
LEMMA EndType ==
  ASSUME TypeOK, NEW c \in Connections,
         Commit(c) \/ CommitUnanswered(c) \/ CrashInTransaction(c)
  PROVE  TypeOK'
<1> DEFINE m1 == [call[c] EXCEPT !.phase = "answered", !.outcome = "committed"]
           m2 == [call[c] EXCEPT !.phase = "lost"]
<1>1. /\ writer = c /\ writer' = NoConnection /\ NoConnection \notin Connections
      /\ db' \in Databases /\ staged' \in Databases
  BY SentinelsAssumption DEF TypeOK, Commit, CommitUnanswered, CrashInTransaction
<1>2. crashes' \in 0 .. MaxCrashes
  BY BoundsAssumption DEF TypeOK, Commit, CommitUnanswered, CrashInTransaction
<1>3. /\ m1 \in Calls /\ m1.phase = "answered"
      /\ m2 \in Calls /\ m2.phase = "lost" /\ m2.request = call[c].request
  BY DEF TypeOK, Calls, Phases, Outcomes
<1>4. call[c].request \in Requests
  BY <1>1 DEF TypeOK
<1>5. PICK m \in {m1, m2} : Become(c, m)
  BY DEF Commit, CommitUnanswered, CrashInTransaction, Answer
<1>6. /\ call' \in [Connections -> Calls]
      /\ call'[c] = m
      /\ \A o \in Connections \ {c} : call'[o] = call[o]
  BY <1>3, <1>5, BecomeType
<1>7. m.phase # "writing" /\ m.phase # "composed" /\ m.request = call[c].request
  BY <1>3 DEF TypeOK, Calls
<1> QED
  BY <1>1, <1>2, <1>4, <1>6, <1>7 DEF TypeOK

\* Every step of the program keeps the types.
LEMMA NextType == TypeOK /\ [Next]_vars => TypeOK'
<1> SUFFICES ASSUME TypeOK, [Next]_vars PROVE TypeOK'
  OBVIOUS
<1>1. CASE UNCHANGED vars
  BY <1>1 DEF vars, TypeOK
<1>2. ASSUME NEW c \in Connections,
             \/ Observe(c) \/ Compose(c) \/ Recall(c) \/ Begin(c) \/ Busy(c)
             \/ Commit(c) \/ CommitUnanswered(c) \/ CrashInTransaction(c)
             \/ Resubmit(c) \/ Finish(c)
      PROVE  TypeOK'
  BY <1>2, CallerStepType, BeginType, BusyType, EndType
<1> QED
  BY <1>1, <1>2 DEF Next

\* Every variable keeps its type, and only the holder of the write lock is in a
\* transaction.
THEOREM TypeCorrect == Spec => []TypeOK
BY InitType, NextType, PTL DEF Spec

-----------------------------------------------------------------------------
(* The open transaction.                                                   *)

\* From the checks of a transaction to its commit no other connection changes
\* the database, and a rollback leaves it as it was.
LEMMA NextIsolated ==
  ASSUME TypeOK, TransactionIsolated, [Next]_vars
  PROVE  TransactionIsolated'
<1>1. NoConnection \notin Connections
  BY SentinelsAssumption
<1>2. CASE UNCHANGED vars
  BY <1>2 DEF vars, TransactionIsolated
<1>3. ASSUME NEW c \in Connections,
             \/ Observe(c) \/ Compose(c) \/ Recall(c) \/ Resubmit(c) \/ Finish(c) \/ Busy(c)
      PROVE  TransactionIsolated'
  <2>1. UNCHANGED <<db, writer, staged>>
    BY ZenonT(30), <1>3 DEF Observe, Compose, Recall, Resubmit, Finish, Busy
  <2>2. call[c].phase # "writing"
    BY <1>3 DEF Observe, Compose, Recall, Resubmit, Finish, Busy
  <2>3. \A o \in Connections \ {c} : call'[o] = call[o]
    BY <1>3 DEF TypeOK, Observe, Compose, Recall, Resubmit, Finish, Busy, Answer, Become
  <2>4. writer # NoConnection => writer \in Connections \ {c}
    BY <2>2 DEF TypeOK
  <2> QED
    BY SMTT(30), <2>1, <2>3, <2>4 DEF TransactionIsolated
<1>4. ASSUME NEW c \in Connections, Begin(c)
      PROVE  TransactionIsolated'
  <2>1. CASE UNCHANGED <<writer, staged>>
    BY <1>4, <2>1 DEF Begin, TransactionIsolated
  <2>2. CASE /\ Accepts(db, call[c].request)
             /\ writer' = c
             /\ staged' = Apply(db, call[c].request)
             /\ Become(c, [call[c] EXCEPT !.phase = "writing"])
    <3>1. db' = db
      BY <1>4 DEF Begin
    <3>2. call'[c].request = call[c].request
      BY <2>2 DEF Become, TypeOK, Calls
    <3> QED
      BY <1>1, <2>2, <3>1, <3>2 DEF TransactionIsolated
  <2> QED
    BY <1>4, <2>1, <2>2 DEF Begin
<1>5. ASSUME NEW c \in Connections,
             Commit(c) \/ CommitUnanswered(c) \/ CrashInTransaction(c)
      PROVE  TransactionIsolated'
  BY <1>5 DEF Commit, CommitUnanswered, CrashInTransaction, TransactionIsolated
<1> QED
  BY <1>2, <1>3, <1>4, <1>5 DEF Next

\* What an open transaction will leave is what its request makes of the
\* committed database, where the request is still acceptable.
THEOREM TransactionsAreIsolated == Spec => []TransactionIsolated
<1>1. Init => TransactionIsolated
  BY DEF Init, TransactionIsolated
<1> QED
  BY <1>1, TypeCorrect, NextIsolated, PTL DEF Spec

\* The database changes only by the commit of the open transaction.
LEMMA OnlyCommitsWrite ==
  ASSUME TypeOK, TransactionIsolated, Next, db' # db
  PROVE  \E c \in Connections : /\ call[c].phase = "writing"
                                /\ call[c].request \in Requests
                                /\ Accepts(db, call[c].request)
                                /\ db' = Apply(db, call[c].request)
<1>1. PICK c \in Connections : Commit(c) \/ CommitUnanswered(c)
  BY DEF Next, Observe, Compose, Recall, Begin, Busy, CrashInTransaction, Resubmit, Finish
<1>2. writer = c /\ db' = staged /\ c # NoConnection
  BY <1>1, SentinelsAssumption DEF Commit, CommitUnanswered
<1>3. call[c].phase = "writing" /\ call[c].request \in Requests
  BY <1>2 DEF TypeOK
<1> QED
  BY SMTT(60), <1>2, <1>3 DEF TransactionIsolated

\* A transaction commits only against the heads and the grant record its caller
\* observed, whatever other connections did since.
THEOREM CommitsAreCurrent == Spec => NoStaleCommit
<1>1. ASSUME TypeOK, TransactionIsolated, [Next]_vars
      PROVE  [db' # db => \E c \in Connections :
                /\ call[c].phase = "writing"
                /\ ObservationCurrent(db, call[c].request)]_vars
  BY <1>1, OnlyCommitsWrite DEF Accepts, vars
<1> QED
  BY <1>1, TypeCorrect, TransactionsAreIsolated, PTL DEF Spec, NoStaleCommit

-----------------------------------------------------------------------------
(* What a commit preserves.                                                *)

\* An acceptable request only adds to a database.
LEMMA ApplyExtends ==
  ASSUME NEW d \in Databases, NEW q \in Requests, Accepts(d, q)
  PROVE  /\ \A s \in Streams :
              /\ Len(d.events[s]) <= Len(Apply(d, q).events[s])
              /\ \A i \in DOMAIN d.events[s] : Apply(d, q).events[s][i] = d.events[s][i]
              /\ \A c \in Commands :
                   d.dedup[s][c] # NoRequest => Apply(d, q).dedup[s][c] = d.dedup[s][c]
         /\ \A r \in Runs, k \in AuthorityKeys :
              d.consumed[r][k] # NoCommand => Apply(d, q).consumed[r][k] = d.consumed[r][k]
         /\ Apply(d, q).grants = d.grants \/ Apply(d, q).grants.revision > d.grants.revision
<1>1. ASSUME NEW s \in Streams
      PROVE  /\ Len(d.events[s]) <= Len(Apply(d, q).events[s])
             /\ \A i \in DOMAIN d.events[s] : Apply(d, q).events[s][i] = d.events[s][i]
  <2>1. d.events[s] \in Seq(Events) /\ Batch(q, s) \in Seq(Events)
    BY BatchType DEF Databases
  <2>2. Apply(d, q).events[s] = d.events[s] \o Batch(q, s)
    BY DEF Apply, AppendEvents
  <2> QED
    BY <2>1, <2>2
<1>2. ASSUME NEW s \in Streams, NEW c \in Commands, d.dedup[s][c] # NoRequest
      PROVE  Apply(d, q).dedup[s][c] = d.dedup[s][c]
  <2>1. d.dedup \in [Streams -> [Commands -> Requests \cup {NoRequest}]]
    BY DEF Databases
  <2>2. q.kind \in Deduplicated => d.dedup[q.scope][q.command] = NoRequest
    BY DEF Accepts, CommandUnused
  <2> QED
    BY <1>2, <2>1, <2>2 DEF Apply, RecordCommand
<1>3. ASSUME NEW r \in Runs, NEW k \in AuthorityKeys, d.consumed[r][k] # NoCommand
      PROVE  Apply(d, q).consumed[r][k] = d.consumed[r][k]
  <2>1. d.consumed \in [Runs -> [AuthorityKeys -> Commands \cup {NoCommand}]]
    BY DEF Databases
  <2>2. q.kind = "consume" => d.consumed[q.scope][q.key] = NoCommand
    BY DEF Accepts, RunStateFits
  <2> QED
    BY <1>3, <2>1, <2>2 DEF Apply, RecordConsumption
<1>4. Apply(d, q).grants = d.grants \/ Apply(d, q).grants.revision > d.grants.revision
  <2>1. d.grants.revision \in Nat
    BY DEF Databases, GrantRecords
  <2>2. q.kind = "bootstrap" => d.grants.revision = 0
    BY DEF Accepts, RunStateFits
  <2>3. Apply(d, q).grants = ReplaceGrants(d, q)
    BY DEF Apply
  <2>4. CASE q.kind = "bootstrap"
    BY <2>2, <2>3, <2>4 DEF ReplaceGrants
  <2>5. CASE q.kind = "grants"
    BY <2>1, <2>3, <2>5 DEF ReplaceGrants
  <2>6. CASE q.kind \notin {"bootstrap", "grants"}
    BY <2>3, <2>6 DEF ReplaceGrants
  <2> QED
    BY <2>4, <2>5, <2>6
<1> QED
  BY <1>1, <1>2, <1>3, <1>4

\* Committed events, command results, consumed authority keys and grant
\* revisions are never rewritten or rolled back.
THEOREM CommittedIsKept == Spec => CommittedIsImmutable
<1> DEFINE Extends ==
      /\ \A s \in Streams :
           /\ Len(db.events[s]) <= Len(db'.events[s])
           /\ \A i \in DOMAIN db.events[s] : db'.events[s][i] = db.events[s][i]
           /\ \A c \in Commands : db.dedup[s][c] # NoRequest => db'.dedup[s][c] = db.dedup[s][c]
      /\ \A r \in Runs, k \in AuthorityKeys :
           db.consumed[r][k] # NoCommand => db'.consumed[r][k] = db.consumed[r][k]
      /\ db'.grants = db.grants \/ db'.grants.revision > db.grants.revision
<1>1. ASSUME TypeOK, TransactionIsolated, [Next]_vars
      PROVE  [Extends]_vars
  <2>1. CASE UNCHANGED vars
    BY <2>1
  <2>2. CASE Next /\ db' = db
    <3>1. \A s \in Streams : Len(db.events[s]) \in Nat
      BY <1>1 DEF TypeOK, Databases
    <3> QED
      BY <2>2, <3>1
  <2>3. CASE Next /\ db' # db
    <3>1. PICK c \in Connections : /\ call[c].request \in Requests
                                   /\ Accepts(db, call[c].request)
                                   /\ db' = Apply(db, call[c].request)
      BY <1>1, <2>3, OnlyCommitsWrite
    <3>2. db \in Databases
      BY <1>1 DEF TypeOK
    <3> QED
      BY <3>1, <3>2, ApplyExtends
  <2> QED
    BY <1>1, <2>1, <2>2, <2>3
<1> QED
  BY <1>1, TypeCorrect, TransactionsAreIsolated, PTL DEF Spec, CommittedIsImmutable

-----------------------------------------------------------------------------
(* Chains, ids and results.                                                *)

\* A request that appends to a stream was composed on the current head of it.
LEMMA AppendsAtTheHead ==
  ASSUME NEW d \in Databases, NEW q \in Requests, Accepts(d, q),
         NEW s \in Streams, BatchSize(q, s) # 0
  PROVE  Base(q, s) = d.heads[s]
<1>1. CASE s = Workspace
  <2>1. q.kind \in AppendsWorkspace
    BY <1>1 DEF BatchSize
  <2> QED
    BY <1>1, <2>1 DEF Accepts, ObservationCurrent, ObservesWorkspace, Base
<1>2. CASE s # Workspace
  <2>1. s = q.scope /\ q.kind \in AppendsRun
    BY <1>2 DEF BatchSize
  <2> QED
    BY <1>2, <2>1 DEF Accepts, ObservationCurrent, ObservesRun, Base
<1> QED
  BY <1>1, <1>2

\* An authentic stream has the length its head says.
LEMMA HeadIsLength ==
  ASSUME NEW d \in Databases, NEW s \in Streams, Authenticates(d, s)
  PROVE  /\ d.events[s] \in Seq(Events)
         /\ d.heads[s].sequence = Len(d.events[s])
BY DEF Databases, Authenticates, EmptyHead

\* The elements of a concatenation.
LEMMA ConcatenationElements ==
  ASSUME NEW S, NEW a \in Seq(S), NEW b \in Seq(S)
  PROVE  /\ a \o b \in Seq(S)
         /\ Len(a \o b) = Len(a) + Len(b)
         /\ \A i \in 1 .. Len(a) : (a \o b)[i] = a[i]
         /\ \A i \in 1 .. Len(b) : (a \o b)[Len(a) + i] = b[i]
OBVIOUS

\* A position of a sum of lengths is a position of the first part or the second.
LEMMA SplitPosition ==
  ASSUME NEW m \in Nat, NEW n \in Nat, NEW i \in 1 .. m + n
  PROVE  i \in 1 .. m \/ \E j \in 1 .. n : i = m + j
<1>1. CASE i <= m
  BY <1>1
<1>2. CASE i > m
  <2>1. i - m \in 1 .. n /\ i = m + (i - m)
    BY <1>2
  <2> QED
    BY <2>1
<1> QED
  BY <1>1, <1>2

\* What a stream holds after a transaction.
LEMMA StreamAfter ==
  ASSUME NEW d \in Databases, NEW q \in Requests, NEW s \in Streams
  PROVE  /\ BatchSize(q, s) \in Nat
         /\ DOMAIN Batch(q, s) = 1 .. BatchSize(q, s)
         /\ d.events[s] \in Seq(Events)
         /\ Len(d.events[s]) \in Nat
         /\ DOMAIN d.events[s] = 1 .. Len(d.events[s])
         /\ Apply(d, q).events[s] \in Seq(Events)
         /\ DOMAIN Apply(d, q).events[s] = 1 .. Len(d.events[s]) + BatchSize(q, s)
         /\ Len(Apply(d, q).events[s]) = Len(d.events[s]) + BatchSize(q, s)
         /\ \A i \in 1 .. Len(d.events[s]) : Apply(d, q).events[s][i] = d.events[s][i]
         /\ \A i \in 1 .. BatchSize(q, s) :
              Apply(d, q).events[s][Len(d.events[s]) + i] = Batch(q, s)[i]
<1>1. d.events[s] \in Seq(Events) /\ Batch(q, s) \in Seq(Events)
  BY BatchType DEF Databases
<1>2. BatchSize(q, s) \in Nat
  BY BatchSizeType
<1>3. DOMAIN Batch(q, s) = 1 .. BatchSize(q, s)
  BY DEF Batch
<1>4. Len(Batch(q, s)) = BatchSize(q, s)
  BY <1>1, <1>2, <1>3
<1>5. Apply(d, q).events[s] = d.events[s] \o Batch(q, s)
  BY DEF Apply, AppendEvents
<1>6. /\ Apply(d, q).events[s] \in Seq(Events)
      /\ Len(Apply(d, q).events[s]) = Len(d.events[s]) + BatchSize(q, s)
      /\ \A i \in 1 .. Len(d.events[s]) : Apply(d, q).events[s][i] = d.events[s][i]
      /\ \A i \in 1 .. BatchSize(q, s) :
           Apply(d, q).events[s][Len(d.events[s]) + i] = Batch(q, s)[i]
  <2> DEFINE a == d.events[s]
             b == Batch(q, s)
             c == Apply(d, q).events[s]
  <2>1. /\ a \o b \in Seq(Events)
        /\ Len(a \o b) = Len(a) + Len(b)
        /\ \A i \in 1 .. Len(a) : (a \o b)[i] = a[i]
        /\ \A i \in 1 .. Len(b) : (a \o b)[Len(a) + i] = b[i]
    <3> HIDE DEF a, b
    <3> QED
      BY <1>1, ConcatenationElements DEF a, b
  <2>2. c = a \o b /\ Len(b) = BatchSize(q, s)
    BY <1>4, <1>5
  <2> HIDE DEF a, b, c
  <2>3. /\ c \in Seq(Events)
        /\ Len(c) = Len(a) + BatchSize(q, s)
        /\ \A i \in 1 .. Len(a) : c[i] = a[i]
        /\ \A i \in 1 .. BatchSize(q, s) : c[Len(a) + i] = b[i]
    BY <2>1, <2>2
  <2> QED
    BY <2>3 DEF a, b, c
<1>7. DOMAIN Apply(d, q).events[s] = 1 .. Len(d.events[s]) + BatchSize(q, s)
  BY <1>6
<1> QED
  BY <1>1, <1>2, <1>3, <1>6, <1>7

\* An accepted request continues the chain of every stream it appends to.
LEMMA ApplyAuthenticates ==
  ASSUME NEW d \in Databases, NEW q \in Requests, Accepts(d, q),
         NEW s \in Streams, Authenticates(d, s)
  PROVE  Authenticates(Apply(d, q), s)
<1> DEFINE old == d.events[s]
           new == Apply(d, q).events[s]
           n == BatchSize(q, s)
           b(i) == Batch(q, s)[i]
<1>1. /\ n \in Nat /\ old \in Seq(Events) /\ new \in Seq(Events)
      /\ Len(old) \in Nat
      /\ Len(new) = Len(old) + n
      /\ DOMAIN old = 1 .. Len(old) /\ DOMAIN new = 1 .. Len(old) + n
      /\ \A i \in 1 .. Len(old) : new[i] = old[i]
      /\ \A i \in 1 .. n : new[Len(old) + i] = b(i)
  BY StreamAfter
<1>2. Apply(d, q).heads[s] = IF n = 0 THEN d.heads[s]
                             ELSE [sequence |-> Base(q, s).sequence + n,
                                   hash |-> EventId(q, s, n)]
  BY DEF Apply, AdvanceHeads
<1>3. /\ d.heads[s] = IF old = << >> THEN EmptyHead
                      ELSE [sequence |-> Len(old), hash |-> old[Len(old)].id]
      /\ \A i \in 1 .. Len(old) : old[i].prior = IF i = 1 THEN NoHash ELSE old[i - 1].id
  BY <1>1 DEF Authenticates
<1>4. \A i \in 1 .. n : b(i) = [id |-> EventId(q, s, i),
                                prior |-> IF i = 1 THEN Base(q, s).hash ELSE EventId(q, s, i - 1)]
  BY DEF Batch
<1>5. n # 0 => Base(q, s) = d.heads[s] /\ Base(q, s).sequence = Len(old)
  BY AppendsAtTheHead, HeadIsLength
<1> SUFFICES /\ Apply(d, q).heads[s] = IF new = << >> THEN EmptyHead
                      ELSE [sequence |-> Len(new), hash |-> new[Len(new)].id]
             /\ \A i \in DOMAIN new : new[i].prior = IF i = 1 THEN NoHash ELSE new[i - 1].id
  BY DEF Authenticates
<1> HIDE DEF old, new, n, b
<1>6. CASE n = 0
  <2>1. new = old
    BY <1>1, <1>6
  <2> QED
    BY <1>1, <1>2, <1>3, <1>6, <2>1
<1>7. CASE n # 0
  <2>1. n \in 1 .. n /\ Len(new) = Len(old) + n /\ new # << >>
    BY <1>1, <1>7
  <2>2. new[Len(new)].id = EventId(q, s, n)
    BY <1>1, <1>4, <2>1
  <2>3. Apply(d, q).heads[s] = [sequence |-> Len(new), hash |-> new[Len(new)].id]
    BY <1>2, <1>5, <1>7, <2>1, <2>2
  <2>4. Base(q, s).hash = IF old = << >> THEN NoHash ELSE old[Len(old)].id
    BY <1>3, <1>5, <1>7 DEF EmptyHead
  <2>5. ASSUME NEW i \in 1 .. Len(old)
        PROVE  new[i].prior = IF i = 1 THEN NoHash ELSE new[i - 1].id
    <3>1. new[i] = old[i] /\ (i # 1 => i - 1 \in 1 .. Len(old) /\ new[i - 1] = old[i - 1])
      BY <1>1
    <3> QED
      BY <1>3, <3>1
  <2>6. ASSUME NEW j \in 1 .. n
        PROVE  new[Len(old) + j].prior =
                 IF Len(old) + j = 1 THEN NoHash ELSE new[Len(old) + j - 1].id
    <3>1. new[Len(old) + j] = b(j)
      BY <1>1
    <3>2. CASE j # 1
      <4>1. j - 1 \in 1 .. n /\ Len(old) + j # 1 /\ Len(old) + j - 1 = Len(old) + (j - 1)
        BY <1>1, <3>2
      <4>2. new[Len(old) + (j - 1)] = b(j - 1)
        BY <1>1, <4>1
      <4> QED
        BY <1>4, <3>1, <3>2, <4>1, <4>2
    <3>3. CASE j = 1 /\ old = << >>
      BY <1>4, <2>4, <3>1, <3>3
    <3>4. CASE j = 1 /\ old # << >>
      <4>1. Len(old) \in 1 .. Len(old) /\ Len(old) + j # 1 /\ Len(old) + j - 1 = Len(old)
        BY <1>1, <3>4
      <4>2. new[Len(old)] = old[Len(old)]
        BY <1>1, <4>1
      <4> QED
        BY <1>4, <2>4, <3>1, <3>4, <4>1, <4>2
    <3> QED
      BY <3>2, <3>3, <3>4
  <2>7. ASSUME NEW i \in DOMAIN new
        PROVE  new[i].prior = IF i = 1 THEN NoHash ELSE new[i - 1].id
    <3>1. i \in 1 .. Len(old) + n
      BY <1>1
    <3>2. i \in 1 .. Len(old) \/ \E j \in 1 .. n : i = Len(old) + j
      BY <1>1, <3>1, SplitPosition
    <3> QED
      BY <2>5, <2>6, <3>2
  <2> QED
    BY <2>1, <2>3, <2>7
<1> QED
  BY <1>6, <1>7

\* An accepted request keeps the ids of the workspace distinct.
LEMMA ApplyIdsUnique ==
  ASSUME NEW d \in Databases, NEW q \in Requests, Accepts(d, q), IdsUnique(d)
  PROVE  IdsUnique(Apply(d, q))
<1> DEFINE old(u) == d.events[u]
           new(u) == Apply(d, q).events[u]
           n(u) == BatchSize(q, u)
           b(u) == Batch(q, u)
<1>1. ASSUME NEW u \in Streams
      PROVE  /\ n(u) \in Nat /\ Len(old(u)) \in Nat
             /\ DOMAIN b(u) = 1 .. n(u)
             /\ DOMAIN old(u) = 1 .. Len(old(u))
             /\ DOMAIN new(u) = 1 .. Len(old(u)) + n(u)
             /\ \A k \in 1 .. Len(old(u)) : new(u)[k] = old(u)[k]
             /\ \A k \in 1 .. n(u) : new(u)[Len(old(u)) + k] = b(u)[k]
  BY ZenonT(30), StreamAfter
<1>2. /\ \A s, t \in Streams : \A i \in DOMAIN b(s), j \in DOMAIN old(t) : b(s)[i].id # old(t)[j].id
      /\ \A s, t \in Streams : \A i \in DOMAIN b(s), j \in DOMAIN b(t) :
           b(s)[i].id = b(t)[j].id => s = t /\ i = j
  BY DEF Accepts, EventIdsFresh
<1>3. \A s, t \in Streams : \A i \in DOMAIN old(s), j \in DOMAIN old(t) :
        old(s)[i].id = old(t)[j].id => s = t /\ i = j
  BY DEF IdsUnique
<1> SUFFICES \A s, t \in Streams : \A i \in DOMAIN new(s), j \in DOMAIN new(t) :
               new(s)[i].id = new(t)[j].id => s = t /\ i = j
  BY DEF IdsUnique
<1> HIDE DEF old, new, n, b
<1> TAKE s, t \in Streams
<1> TAKE i \in DOMAIN new(s), j \in DOMAIN new(t)
<1> HAVE new(s)[i].id = new(t)[j].id
<1> DEFINE ls == Len(old(s))
           lt == Len(old(t))
<1>4. i \in 1 .. ls \/ \E k \in 1 .. n(s) : i = ls + k
  <2>1. ls \in Nat /\ n(s) \in Nat /\ i \in 1 .. ls + n(s)
    BY <1>1
  <2> HIDE DEF ls
  <2> QED
    BY <2>1, SplitPosition
<1>5. j \in 1 .. lt \/ \E k \in 1 .. n(t) : j = lt + k
  <2>1. lt \in Nat /\ n(t) \in Nat /\ j \in 1 .. lt + n(t)
    BY <1>1
  <2> HIDE DEF lt
  <2> QED
    BY <2>1, SplitPosition
<1>6. CASE i \in 1 .. Len(old(s)) /\ j \in 1 .. Len(old(t))
  BY SMTT(30), <1>1, <1>3, <1>6
<1>7. ASSUME i \in 1 .. ls, NEW k \in 1 .. n(t), j = lt + k
      PROVE  FALSE
  <2>1. new(s)[i] = old(s)[i] /\ i \in DOMAIN old(s)
    BY <1>1, <1>7
  <2>2. new(t)[j] = b(t)[k] /\ k \in DOMAIN b(t)
    BY <1>1, <1>7
  <2> QED
    BY <1>2, <2>1, <2>2
<1>8. ASSUME j \in 1 .. lt, NEW k \in 1 .. n(s), i = ls + k
      PROVE  FALSE
  <2>1. new(t)[j] = old(t)[j] /\ j \in DOMAIN old(t)
    BY <1>1, <1>8
  <2>2. new(s)[i] = b(s)[k] /\ k \in DOMAIN b(s)
    BY <1>1, <1>8
  <2> QED
    BY <1>2, <2>1, <2>2
<1>9. ASSUME NEW k \in 1 .. n(s), NEW m \in 1 .. n(t), i = Len(old(s)) + k, j = Len(old(t)) + m
      PROVE  s = t /\ i = j
  <2>1. new(s)[i] = b(s)[k] /\ new(t)[j] = b(t)[m]
    BY <1>1, <1>9
  <2> QED
    BY SMTT(60), <1>1, <1>2, <1>9, <2>1
<1> QED
  BY <1>4, <1>5, <1>6, <1>7, <1>8, <1>9

\* What a request owns, it owns after any later transaction.
LEMMA OwnershipKept ==
  ASSUME NEW d \in Databases, NEW q \in Requests, NEW s \in Streams,
         NEW p, NEW i \in DOMAIN d.events[s], Owns(d, p, s, i)
  PROVE  i \in DOMAIN Apply(d, q).events[s] /\ Owns(Apply(d, q), p, s, i)
<1>1. Apply(d, q).events[s][i] = d.events[s][i]
  BY ZenonT(30), StreamAfter
<1>2. i \in DOMAIN Apply(d, q).events[s]
  BY StreamAfter
<1> QED
  BY <1>1, <1>2 DEF Owns

\* An accepted request owns the events it appends, after the last one before it.
LEMMA NewOwnership ==
  ASSUME NEW d \in Databases, NEW q \in Requests, Accepts(d, q),
         NEW s \in Streams, Authenticates(d, s), NEW i \in 1 .. BatchSize(q, s)
  PROVE  /\ Base(q, s).sequence = Len(d.events[s])
         /\ Base(q, s).sequence + i \in DOMAIN Apply(d, q).events[s]
         /\ Owns(Apply(d, q), q, s, Base(q, s).sequence + i)
<1>1. BatchSize(q, s) \in Nat /\ BatchSize(q, s) # 0 /\ Len(d.events[s]) \in Nat
  BY StreamAfter
<1>2. Base(q, s).sequence = Len(d.events[s])
  BY <1>1, AppendsAtTheHead, HeadIsLength
<1>3. Len(d.events[s]) + i \in DOMAIN Apply(d, q).events[s]
  BY <1>1, StreamAfter
<1>4. Apply(d, q).events[s][Len(d.events[s]) + i] = Batch(q, s)[i]
  BY StreamAfter
<1>5. (Len(d.events[s]) + i) - Len(d.events[s]) = i
  BY <1>1
<1> QED
  BY <1>2, <1>3, <1>4, <1>5 DEF Owns

\* The rows of the ledger after a transaction are the old ones and its own.
LEMMA RowsAfter ==
  ASSUME NEW d \in Databases, NEW q \in Requests, Accepts(d, q)
  PROVE  /\ \A scope \in Streams, c \in Commands :
              \/ Apply(d, q).dedup[scope][c] = d.dedup[scope][c]
              \/ Apply(d, q).dedup[scope][c] = q
         /\ q.kind \in Deduplicated => Apply(d, q).dedup[q.scope][q.command] = q
         /\ \A scope \in Streams, c \in Commands :
              d.dedup[scope][c] # NoRequest => Apply(d, q).dedup[scope][c] = d.dedup[scope][c]
<1>1. d.dedup \in [Streams -> [Commands -> Requests \cup {NoRequest}]]
  BY DEF Databases
<1>2. q.scope \in Streams /\ q.command \in Commands
  BY DEF Requests
<1>3. \A scope \in Streams, c \in Commands :
        d.dedup[scope][c] # NoRequest => Apply(d, q).dedup[scope][c] = d.dedup[scope][c]
  BY ApplyExtends
<1> QED
  BY <1>1, <1>2, <1>3 DEF Apply, RecordCommand

\* An accepted request keeps the ledger and the streams in agreement.
LEMMA ApplyResultsMatch ==
  ASSUME NEW d \in Databases, NEW q \in Requests, Accepts(d, q),
         \A s \in Streams : Authenticates(d, s),
         RowsOwnTheirEvents(d), EventsHaveTheirRow(d)
  PROVE  RowsOwnTheirEvents(Apply(d, q)) /\ EventsHaveTheirRow(Apply(d, q))
<1>1. RowsOwnTheirEvents(Apply(d, q))
  <2> SUFFICES ASSUME NEW s \in Streams, NEW scope \in Streams, NEW c \in Commands,
                      Apply(d, q).dedup[scope][c] # NoRequest,
                      NEW i \in 1 .. BatchSize(Apply(d, q).dedup[scope][c], s)
               PROVE  LET p == Apply(d, q).dedup[scope][c]
                      IN  /\ Base(p, s).sequence + i \in DOMAIN Apply(d, q).events[s]
                          /\ Owns(Apply(d, q), p, s, Base(p, s).sequence + i)
    BY DEF RowsOwnTheirEvents
  <2>1. CASE Apply(d, q).dedup[scope][c] = q
    BY <2>1, NewOwnership
  <2>2. CASE Apply(d, q).dedup[scope][c] = d.dedup[scope][c]
    <3> DEFINE p == d.dedup[scope][c]
    <3>1. Base(p, s).sequence + i \in DOMAIN d.events[s] /\ Owns(d, p, s, Base(p, s).sequence + i)
      BY <2>2 DEF RowsOwnTheirEvents
    <3> HIDE DEF p
    <3>2. /\ Base(p, s).sequence + i \in DOMAIN Apply(d, q).events[s]
          /\ Owns(Apply(d, q), p, s, Base(p, s).sequence + i)
      BY <3>1, OwnershipKept
    <3> QED
      BY <2>2, <3>2 DEF p
  <2> QED
    BY <2>1, <2>2, RowsAfter
<1>2. EventsHaveTheirRow(Apply(d, q))
  <2> SUFFICES ASSUME NEW s \in Streams, NEW i \in DOMAIN Apply(d, q).events[s]
               PROVE  \E scope \in Streams, c \in Commands :
                        /\ Apply(d, q).dedup[scope][c] # NoRequest
                        /\ Owns(Apply(d, q), Apply(d, q).dedup[scope][c], s, i)
    BY DEF EventsHaveTheirRow
  <2> DEFINE ls == Len(d.events[s])
             n == BatchSize(q, s)
  <2>1. i \in 1 .. ls \/ \E j \in 1 .. n : i = ls + j
    <3>1. ls \in Nat /\ n \in Nat /\ i \in 1 .. ls + n
      BY StreamAfter
    <3> HIDE DEF ls, n
    <3> QED
      BY <3>1, SplitPosition
  <2>2. CASE i \in 1 .. ls
    <3>1. i \in DOMAIN d.events[s]
      BY <2>2, StreamAfter
    <3>2. PICK scope \in Streams, c \in Commands :
            d.dedup[scope][c] # NoRequest /\ Owns(d, d.dedup[scope][c], s, i)
      BY <3>1 DEF EventsHaveTheirRow
    <3>3. Owns(Apply(d, q), d.dedup[scope][c], s, i)
      BY <3>1, <3>2, OwnershipKept
    <3>4. Apply(d, q).dedup[scope][c] = d.dedup[scope][c]
      BY <3>2, RowsAfter
    <3> QED
      BY <3>2, <3>3, <3>4
  <2>3. CASE \E j \in 1 .. n : i = ls + j
    <3>1. PICK j \in 1 .. n : i = ls + j
      BY <2>3
    <3>2. Owns(Apply(d, q), q, s, i)
      BY <3>1, NewOwnership
    <3>3. n # 0 /\ q.scope \in Streams /\ q.command \in Commands
      BY <3>1, BatchSizeType DEF Requests
    <3>4. q.kind \in Deduplicated
      BY <3>3 DEF BatchSize, AppendsWorkspace, AppendsRun, Deduplicated, AllKinds
    <3>5. Apply(d, q).dedup[q.scope][q.command] = q
      BY <3>4, RowsAfter
    <3>6. q # NoRequest
      BY NoRequestAssumption
    <3> QED
      BY <3>2, <3>3, <3>5, <3>6
  <2> QED
    BY <2>1, <2>2, <2>3
<1> QED
  BY <1>1, <1>2

-----------------------------------------------------------------------------
(* The safety of the database.                                             *)

Consistent(d) ==
  /\ \A s \in Streams : Authenticates(d, s)
  /\ IdsUnique(d)
  /\ RowsOwnTheirEvents(d)
  /\ EventsHaveTheirRow(d)

\* The empty database is consistent.
LEMMA EmptyConsistent == Consistent(EmptyDatabase)
<1>1. \A s \in Streams : EmptyDatabase.events[s] = << >> /\ EmptyDatabase.heads[s] = EmptyHead
  BY DEF EmptyDatabase
<1>2. \A s \in Streams, c \in Commands : EmptyDatabase.dedup[s][c] = NoRequest
  BY DEF EmptyDatabase
<1>3. \A s \in Streams : DOMAIN EmptyDatabase.events[s] = {}
  BY <1>1
<1> QED
  BY <1>1, <1>2, <1>3
     DEF Consistent, Authenticates, IdsUnique, RowsOwnTheirEvents, EventsHaveTheirRow

\* Every step keeps the database consistent.
LEMMA NextConsistent ==
  ASSUME TypeOK, TransactionIsolated, Consistent(db), [Next]_vars
  PROVE  Consistent(db')
<1>1. CASE db' = db
  BY <1>1
<1>2. CASE db' # db
  <2>1. Next
    BY <1>2 DEF vars
  <2>2. PICK c \in Connections : /\ call[c].request \in Requests
                                 /\ Accepts(db, call[c].request)
                                 /\ db' = Apply(db, call[c].request)
    BY <1>2, <2>1, OnlyCommitsWrite
  <2>3. db \in Databases
    BY DEF TypeOK
  <2>4. \A s \in Streams : Authenticates(db', s)
    BY <2>2, <2>3, ApplyAuthenticates DEF Consistent
  <2>5. IdsUnique(db')
    BY <2>2, <2>3, ApplyIdsUnique DEF Consistent
  <2>6. RowsOwnTheirEvents(db') /\ EventsHaveTheirRow(db')
    BY <2>2, <2>3, ApplyResultsMatch DEF Consistent
  <2> QED
    BY <2>4, <2>5, <2>6 DEF Consistent
<1> QED
  BY <1>1, <1>2

\* The streams always authenticate, event ids are unique in the workspace, and
\* the stored command results and the events of the commands are durable
\* together: every command that appends does so exactly once.
THEOREM CommandsAreExactlyOnce ==
  Spec => [](StreamsAuthenticate /\ EventIdsUnique /\ ResultsMatchEvents)
<1>1. Init => Consistent(db)
  BY EmptyConsistent DEF Init
<1>2. TypeOK /\ TransactionIsolated /\ Consistent(db) /\ [Next]_vars => Consistent(db)'
  BY NextConsistent
<1>3. Consistent(db) => StreamsAuthenticate /\ EventIdsUnique /\ ResultsMatchEvents
  BY DEF Consistent, StreamsAuthenticate, EventIdsUnique, ResultsMatchEvents
<1> QED
  BY <1>1, <1>2, <1>3, TypeCorrect, TransactionsAreIsolated, PTL DEF Spec

-----------------------------------------------------------------------------
(* What a request carries from its caller, and what a row stands for.      *)

\* What a caller refuses by itself and the request alone shows.
WellComposed(q) ==
  /\ q.kind \in {"bootstrap", "grants"} <=> q.scope = Workspace
  /\ q.kind \notin {"execution", "progress", "admission"} => q.n = 1
  /\ \A s \in Streams : Base(q, s).sequence + BatchSize(q, s) <= MaxEvents
  /\ q.kind = "grants" => q.command \notin q.grants.issued

AsComposed ==
  \A c \in Connections : call[c].phase \in {"composed", "writing", "lost"} => WellComposed(call[c].request)

\* A row of command_dedup is in the place its request names.
RowsAreNamed(d) ==
  \A s \in Streams, c \in Commands :
    d.dedup[s][c] # NoRequest => d.dedup[s][c].scope = s /\ d.dedup[s][c].command = c

\* The workspace begins before its runs and its grants.
GenesisFirst(d) ==
  /\ \A r \in Runs : d.events[r] # << >> => d.events[Workspace] # << >>
  /\ d.grants.revision > 0 => d.events[Workspace] # << >>
  /\ d.grants.revision = 0 => d.grants.issued = {}

\* The revision counts the grants that were issued.
GrantsCounted(d) ==
  /\ IsFiniteSet(d.grants.issued)
  /\ d.grants.revision > 0 => d.grants.revision = 1 + Cardinality(d.grants.issued)

\* What the callers and the rows add to the consistency of the database.
Orderly ==
  /\ AsComposed
  /\ RowsAreNamed(db) /\ GenesisFirst(db) /\ GrantsCounted(db)

\* A caller keeps the request it composed until its transaction is answered,
\* and an answer until it begins again.
LEMMA CallMoves ==
  ASSUME TypeOK, NEW c \in Connections,
         \/ Observe(c) \/ Compose(c) \/ Recall(c) \/ Begin(c) \/ Busy(c)
         \/ Commit(c) \/ CommitUnanswered(c) \/ CrashInTransaction(c)
         \/ Resubmit(c) \/ Finish(c)
  PROVE  /\ \A o \in Connections \ {c} : call'[o] = call[o]
         /\ call'[c].phase \in {"composed", "writing", "lost"} =>
              \/ /\ call[c].phase \in {"composed", "writing", "lost"}
                 /\ call'[c].request = call[c].request
              \/ WellComposed(call'[c].request)
         /\ call[c].phase = "answered" => call'[c].outcome = "none"
         /\ call'[c].outcome # call[c].outcome => call'[c].phase = "answered" \/ call'[c].outcome = "none"
<1>1. call \in [Connections -> Calls] /\ (writer = c => call[c].phase = "writing")
  BY DEF TypeOK
<1>2. CASE Observe(c)
  BY <1>1, <1>2 DEF Observe, Become, Calls
<1>3. CASE Compose(c)
  <2>1. PICK kind \in Kinds, scope \in Streams, command \in Commands, n \in BatchSizes, key \in AuthorityKeys :
          /\ CallerComposes(c, Request(c, kind, scope, command, n, key))
          /\ Become(c, [call[c] EXCEPT !.phase = "composed",
                                      !.request = Request(c, kind, scope, command, n, key)])
    BY ZenonT(60), <1>3 DEF Compose
  <2> DEFINE q == Request(c, kind, scope, command, n, key)
  <2> HIDE DEF q
  <2>2. WellComposed(q) /\ call[c].phase = "observed"
    BY <1>3, <2>1 DEF Compose, CallerComposes, WellComposed, q
  <2>3. call' = [call EXCEPT ![c] = [call[c] EXCEPT !.phase = "composed", !.request = q]]
    BY <2>1 DEF Become, q
  <2> QED  BY <1>1, <2>2, <2>3 DEF Calls
<1>4. CASE Recall(c)
  <2>1. PICK m : /\ m.phase = "answered" /\ call' = [call EXCEPT ![c] = m] /\ call[c].phase = "observed"
    <3>1. PICK row :
            \/ Become(c, [call[c] EXCEPT !.phase = "answered", !.request = row, !.outcome = "recovered"])
            \/ Become(c, [call[c] EXCEPT !.phase = "answered", !.outcome = "conflict"])
      BY ZenonT(60), <1>4 DEF Recall, Answer
    <3>2. call[c].phase = "observed"
      BY <1>4 DEF Recall
    <3> DEFINE m1 == [call[c] EXCEPT !.phase = "answered", !.request = row, !.outcome = "recovered"]
               m2 == [call[c] EXCEPT !.phase = "answered", !.outcome = "conflict"]
    <3>3. m1.phase = "answered" /\ m2.phase = "answered"
      BY <1>1 DEF Calls
    <3>4. call' = [call EXCEPT ![c] = m1] \/ call' = [call EXCEPT ![c] = m2]
      BY <3>1 DEF Become
    <3> QED  BY <3>2, <3>3, <3>4
  <2> QED  BY <1>1, <2>1
<1>5. CASE Begin(c) \/ Busy(c) \/ Commit(c)
  <2>1. /\ call[c].phase \in {"composed", "writing"}
        /\ \/ call' = [call EXCEPT ![c] = [call[c] EXCEPT !.phase = "writing"]]
           \/ \E o \in Outcomes :
                call' = [call EXCEPT ![c] = [call[c] EXCEPT !.phase = "answered", !.outcome = o]]
    BY <1>1, <1>5 DEF Begin, Busy, Commit, Answer, Become, Outcomes
  <2> QED  BY <1>1, <2>1 DEF Calls
<1>6. CASE CommitUnanswered(c) \/ CrashInTransaction(c)
  <2>1. call[c].phase = "writing" /\ call' = [call EXCEPT ![c] = [call[c] EXCEPT !.phase = "lost"]]
    BY <1>1, <1>6 DEF CommitUnanswered, CrashInTransaction, Become
  <2> QED  BY <1>1, <2>1 DEF Calls
<1>7. CASE Resubmit(c)
  BY <1>1, <1>7 DEF Resubmit, Become, Calls
<1>8. CASE Finish(c)
  BY <1>1, <1>8 DEF Finish, Become, IdleCall
<1> QED  BY <1>2, <1>3, <1>4, <1>5, <1>6, <1>7, <1>8

\* What the caller refused stays refused: nobody changes a composed request.
LEMMA NextComposed ==
  ASSUME TypeOK, AsComposed, [Next]_vars
  PROVE  AsComposed'
<1>1. CASE UNCHANGED vars
  BY <1>1 DEF vars, AsComposed
<1>2. CASE Next
  <2>1. PICK c \in Connections :
          \/ Observe(c) \/ Compose(c) \/ Recall(c) \/ Begin(c) \/ Busy(c)
          \/ Commit(c) \/ CommitUnanswered(c) \/ CrashInTransaction(c)
          \/ Resubmit(c) \/ Finish(c)
    BY <1>2 DEF Next
  <2> QED  BY <2>1, CallMoves DEF AsComposed
<1> QED  BY <1>1, <1>2

\* A transaction writes the row where it looked for it.
LEMMA ApplyNamed ==
  ASSUME NEW d \in Databases, NEW q \in Requests, RowsAreNamed(d)
  PROVE  RowsAreNamed(Apply(d, q))
<1>1. d.dedup \in [Streams -> [Commands -> Requests \cup {NoRequest}]]
  BY DEF Databases
<1>2. Apply(d, q).dedup = RecordCommand(d, q)
  BY DEF Apply
<1> QED  BY <1>1, <1>2 DEF RowsAreNamed, RecordCommand

\* What the heads say is empty is empty.
LEMMA EmptyStream ==
  ASSUME NEW d \in Databases, NEW s \in Streams, Authenticates(d, s)
  PROVE  d.heads[s].sequence > 0 <=> d.events[s] # << >>
BY HeadIsLength

\* What a transaction appends to may be empty afterwards only if it was.
LEMMA ApplyFills ==
  ASSUME NEW d \in Databases, NEW q \in Requests, NEW s \in Streams
  PROVE  Apply(d, q).events[s] # << >> <=> d.events[s] # << >> \/ BatchSize(q, s) # 0
<1>1. /\ d.events[s] \in Seq(Events) /\ Apply(d, q).events[s] \in Seq(Events)
      /\ Len(Apply(d, q).events[s]) = Len(d.events[s]) + BatchSize(q, s) /\ BatchSize(q, s) \in Nat
  BY StreamAfter
<1> DEFINE new == Apply(d, q).events[s]  old == d.events[s]
<1> HIDE DEF new, old
<1>2. /\ old \in Seq(Events) /\ new \in Seq(Events) /\ Len(new) = Len(old) + BatchSize(q, s)
      /\ BatchSize(q, s) \in Nat
  BY <1>1 DEF new, old
<1>3. new # << >> <=> old # << >> \/ BatchSize(q, s) # 0
  BY <1>2
<1> QED  BY <1>3 DEF new, old

\* A run is begun, and a grant recorded, only where the workspace has begun.
LEMMA ApplyGenesisFirst ==
  ASSUME NEW d \in Databases, NEW q \in Requests, Accepts(d, q), WellComposed(q),
         \A s \in Streams : Authenticates(d, s), GenesisFirst(d)
  PROVE  GenesisFirst(Apply(d, q))
<1>1. /\ d.grants \in GrantRecords /\ Apply(d, q).grants = ReplaceGrants(d, q)
      /\ d.grants.revision \in Nat /\ q.scope \in Streams
  BY DEF Apply, Databases, GrantRecords, Requests
<1>2. \A s \in Streams : d.events[s] # << >> => Apply(d, q).events[s] # << >>
  BY ApplyFills
<1>3. ASSUME NEW r \in Runs, Apply(d, q).events[r] # << >>
      PROVE  Apply(d, q).events[Workspace] # << >>
  <2>1. r \in Streams /\ Workspace \in Streams /\ r # Workspace
    BY StreamsAssumption DEF Streams
  <2>2. CASE d.events[r] # << >>
    BY <1>2, <2>1, <2>2 DEF GenesisFirst
  <2>3. CASE d.events[r] = << >>
    <3>1. BatchSize(q, r) # 0
      BY <1>3, <2>1, <2>3, ApplyFills
    <3>2. r = q.scope /\ q.kind \in AppendsRun
      BY <2>1, <3>1 DEF BatchSize
    <3>3. ~ RunPresent(d, r)
      BY <2>1, <2>3, EmptyStream DEF RunPresent
    <3>4. q.kind = "runGenesis"
      BY <3>2, <3>3 DEF Accepts, RunStateFits, ObservesRun
    <3>5. d.heads[Workspace].sequence > 0
      BY <3>4 DEF Accepts, RunStateFits, RunAbsent
    <3> QED  BY <1>2, <2>1, <3>5, EmptyStream
  <2> QED  BY <2>2, <2>3
<1>4. /\ Apply(d, q).grants.revision > 0 => Apply(d, q).events[Workspace] # << >>
      /\ Apply(d, q).grants.revision = 0 => Apply(d, q).grants.issued = {}
  <2>1. Workspace \in Streams
    BY DEF Streams
  <2>2. CASE q.kind = "bootstrap"
    <3>1. q.scope = Workspace /\ BatchSize(q, Workspace) = 1
      BY <2>2 DEF WellComposed, BatchSize, AppendsWorkspace
    <3>2. Apply(d, q).grants = [revision |-> 1, issued |-> {}]
      BY <1>1, <2>2 DEF ReplaceGrants
    <3> QED  BY <2>1, <3>1, <3>2, ApplyFills
  <2>3. CASE q.kind = "grants"
    <3>1. d.grants.revision > 0
      BY <2>3 DEF Accepts, ObservationCurrent, ObservesGrants
    <3>2. Apply(d, q).grants.revision = d.grants.revision + 1
      BY <1>1, <2>3 DEF ReplaceGrants
    <3>3. Apply(d, q).grants.revision # 0
      BY <1>1, <3>2
    <3> QED  BY <1>1, <1>2, <2>1, <3>1, <3>3 DEF GenesisFirst
  <2>4. CASE q.kind \notin {"bootstrap", "grants"}
    <3>1. Apply(d, q).grants = d.grants
      BY <1>1, <2>4 DEF ReplaceGrants
    <3> QED  BY <1>2, <2>1, <3>1 DEF GenesisFirst
  <2> QED  BY <2>2, <2>3, <2>4
<1> QED  BY <1>3, <1>4 DEF GenesisFirst

\* An update is of the record it observed, which the operation is not in yet.
LEMMA ApplyCountsGrants ==
  ASSUME NEW d \in Databases, NEW q \in Requests, Accepts(d, q), WellComposed(q), GrantsCounted(d)
  PROVE  GrantsCounted(Apply(d, q))
<1>1. Apply(d, q).grants = ReplaceGrants(d, q)
  BY DEF Apply
<1>2. CASE q.kind = "bootstrap"
  <2>1. Apply(d, q).grants = [revision |-> 1, issued |-> {}]
    BY <1>1, <1>2 DEF ReplaceGrants
  <2> QED  BY <2>1, FS_EmptySet DEF GrantsCounted
<1>3. CASE q.kind = "grants"
  <2> DEFINE issued == d.grants.issued
  <2>1. /\ q.grants = d.grants /\ d.grants.revision > 0 /\ q.command \notin issued
        /\ d.grants.revision \in Nat
    BY <1>3 DEF Accepts, ObservationCurrent, ObservesGrants, WellComposed, Databases, GrantRecords
  <2>2. Apply(d, q).grants = [revision |-> d.grants.revision + 1, issued |-> issued \cup {q.command}]
    BY <1>1, <1>3, <2>1 DEF ReplaceGrants
  <2>3. IsFiniteSet(issued) /\ d.grants.revision = 1 + Cardinality(issued)
    BY <2>1 DEF GrantsCounted
  <2>4. /\ IsFiniteSet(issued \cup {q.command})
        /\ Cardinality(issued \cup {q.command}) = Cardinality(issued) + 1
    BY <2>1, <2>3, FS_AddElement
  <2>5. Cardinality(issued) \in Nat
    BY <2>3, FS_CardinalityType
  <2> QED  BY <2>2, <2>3, <2>4, <2>5 DEF GrantsCounted
<1>4. CASE q.kind \notin {"bootstrap", "grants"}
  BY <1>1, <1>4 DEF ReplaceGrants, GrantsCounted
<1> QED  BY <1>2, <1>3, <1>4

\* A request in flight was composed by its caller.
LEMMA CommitIsComposed ==
  ASSUME TypeOK, TransactionIsolated, AsComposed, Next, db' # db
  PROVE  \E q \in Requests : Accepts(db, q) /\ WellComposed(q) /\ db' = Apply(db, q)
BY OnlyCommitsWrite DEF AsComposed

\* Every step keeps the order.
LEMMA NextOrderly ==
  ASSUME TypeOK, TransactionIsolated, Consistent(db), Orderly, [Next]_vars
  PROVE  Orderly'
<1>1. AsComposed'
  BY NextComposed DEF Orderly
<1>2. CASE db' = db
  BY <1>1, <1>2 DEF Orderly, RowsAreNamed, GenesisFirst, GrantsCounted
<1>3. CASE db' # db
  <2>1. Next /\ db \in Databases
    BY <1>3 DEF vars, TypeOK
  <2>2. PICK q \in Requests : Accepts(db, q) /\ WellComposed(q) /\ db' = Apply(db, q)
    BY <1>3, <2>1, CommitIsComposed DEF Orderly
  <2>3. RowsAreNamed(db') /\ GenesisFirst(db') /\ GrantsCounted(db')
    BY <2>1, <2>2, ApplyNamed, ApplyGenesisFirst, ApplyCountsGrants DEF Orderly, Consistent
  <2> QED  BY <1>1, <2>3 DEF Orderly, RowsAreNamed, GenesisFirst, GrantsCounted
<1> QED  BY <1>2, <1>3

LEMMA InitOrderly == Init => Orderly
<1> SUFFICES ASSUME Init PROVE Orderly
  OBVIOUS
<1>1. /\ \A s \in Streams : db.events[s] = << >>
      /\ \A s \in Streams, c \in Commands : db.dedup[s][c] = NoRequest
      /\ db.grants = NoGrants
  BY DEF Init, EmptyDatabase
<1>2. AsComposed
  BY DEF Init, IdleCall, AsComposed
<1> QED  BY <1>1, <1>2, FS_EmptySet DEF Orderly, RowsAreNamed, GenesisFirst, GrantsCounted, NoGrants, Streams

\* The database is consistent and in order in every state.
LEMMA AlwaysOrderly == Spec => [](Consistent(db) /\ Orderly)
<1>1. Init => Consistent(db)
  BY EmptyConsistent DEF Init
<1>2. TypeOK /\ TransactionIsolated /\ Consistent(db) /\ Orderly /\ [Next]_vars
        => Consistent(db)' /\ Orderly'
  BY NextConsistent, NextOrderly
<1> QED  BY <1>1, <1>2, InitOrderly, TypeCorrect, TransactionsAreIsolated, PTL DEF Spec

\* No grant update is lost, whatever two grant stores observed and wrote
\* (grant-store.ts replace, compareAndSwapAuthorityState).
THEOREM GrantUpdatesAreKept == Spec => []NoGrantUpdateLost
<1>1. Orderly => NoGrantUpdateLost
  BY DEF Orderly, GrantsCounted, NoGrantUpdateLost
<1> QED  BY <1>1, AlwaysOrderly, PTL

\* Every stream always authenticates against the head the streams table
\* records, whatever appends, crashes and retries interleave.
THEOREM StreamsStayAuthentic == Spec => []StreamsAuthenticate
BY CommandsAreExactlyOnce, PTL

-----------------------------------------------------------------------------
(* Answers.                                                                *)

Told == {"committed", "deduplicated", "recovered"}

\* The effect an answer to q reports is in the database.
EffectOf(d, q) ==
  /\ q.kind \in Deduplicated => d.dedup[q.scope][q.command] = q
  /\ q.kind = "consume" => d.consumed[q.scope][q.key] = q.command
  /\ q.kind = "grants" => q.command \in d.grants.issued

\* A request that can be answered with an effect.
Answerable(q) == q \in Requests /\ (q.kind = "consume" => q.scope \in Runs)

\* Only an answered caller has an outcome, and what it was told took effect.
AnswersAreTrue ==
  \A c \in Connections :
    /\ call[c].outcome # "none" => call[c].phase = "answered"
    /\ call[c].outcome \in Told => Answerable(call[c].request) /\ EffectOf(db, call[c].request)

\* A later transaction takes no effect back.
LEMMA EffectStays ==
  ASSUME NEW d \in Databases, NEW q \in Requests, Accepts(d, q), GenesisFirst(d),
         NEW p, Answerable(p), EffectOf(d, p)
  PROVE  EffectOf(Apply(d, q), p)
<1>1. p \in Requests /\ p.scope \in Streams /\ p.command \in Commands /\ p.key \in AuthorityKeys
  BY DEF Answerable, Requests
<1>2. p # NoRequest /\ p.command # NoCommand
  BY <1>1, NoRequestAssumption, SentinelsAssumption
<1>3. p.kind \in Deduplicated => Apply(d, q).dedup[p.scope][p.command] = p
  BY <1>1, <1>2, ApplyExtends DEF EffectOf
<1>4. p.kind = "consume" => Apply(d, q).consumed[p.scope][p.key] = p.command
  BY <1>1, <1>2, ApplyExtends DEF EffectOf, Answerable
<1>5. p.kind = "grants" => p.command \in Apply(d, q).grants.issued
  <2> SUFFICES ASSUME p.command \in d.grants.issued PROVE p.command \in Apply(d, q).grants.issued
    BY DEF EffectOf
  <2>1. d.grants.revision # 0 /\ Apply(d, q).grants = ReplaceGrants(d, q)
    BY DEF GenesisFirst, Apply
  <2>2. q.kind # "bootstrap"
    BY <2>1 DEF Accepts, RunStateFits
  <2>3. CASE q.kind = "grants"
    <3>1. q.grants = d.grants
      BY <2>3 DEF Accepts, ObservationCurrent, ObservesGrants
    <3>2. Apply(d, q).grants.issued = q.grants.issued \cup {q.command}
      BY <2>1, <2>3 DEF ReplaceGrants
    <3> QED  BY <3>1, <3>2
  <2>4. CASE q.kind # "grants"
    BY <2>1, <2>2, <2>4 DEF ReplaceGrants
  <2> QED  BY <2>3, <2>4
<1> QED  BY <1>3, <1>4, <1>5 DEF EffectOf

\* A transaction has the effect its answer reports.
LEMMA EffectTaken ==
  ASSUME NEW d \in Databases, NEW q, Answerable(q)
  PROVE  EffectOf(Apply(d, q), q)
<1>1. q \in Requests /\ q.scope \in Streams /\ q.command \in Commands /\ q.key \in AuthorityKeys
  BY DEF Answerable, Requests
<1>2. /\ d.dedup \in [Streams -> [Commands -> Requests \cup {NoRequest}]]
      /\ d.consumed \in [Runs -> [AuthorityKeys -> Commands \cup {NoCommand}]]
  BY DEF Databases
<1>3. /\ Apply(d, q).dedup = RecordCommand(d, q)
      /\ Apply(d, q).consumed = RecordConsumption(d, q)
      /\ Apply(d, q).grants = ReplaceGrants(d, q)
  BY DEF Apply
<1>4. q.kind \in Deduplicated => Apply(d, q).dedup[q.scope][q.command] = q
  BY <1>1, <1>2, <1>3 DEF RecordCommand
<1>5. q.kind = "consume" => Apply(d, q).consumed[q.scope][q.key] = q.command
  BY <1>1, <1>2, <1>3 DEF RecordConsumption, Answerable
<1>6. q.kind = "grants" => q.command \in Apply(d, q).grants.issued
  BY <1>3 DEF ReplaceGrants
<1> QED  BY <1>4, <1>5, <1>6 DEF EffectOf

\* A request that was composed is answerable.
LEMMA ComposedIsAnswerable ==
  ASSUME NEW q \in Requests, WellComposed(q)
  PROVE  Answerable(q)
BY DEF Answerable, WellComposed, Requests, Streams

\* Who is told of an effect by a step had it take place: in this step, or before.
LEMMA ToldByStep ==
  ASSUME TypeOK, TransactionIsolated, Orderly, NEW c \in Connections,
         \/ Observe(c) \/ Compose(c) \/ Recall(c) \/ Begin(c) \/ Busy(c)
         \/ Commit(c) \/ CommitUnanswered(c) \/ CrashInTransaction(c)
         \/ Resubmit(c) \/ Finish(c),
         call[c].outcome = "none", call'[c].outcome \in Told
  PROVE  Answerable(call'[c].request) /\ EffectOf(db', call'[c].request)
<1> DEFINE q == call[c].request
<1>1. /\ call \in [Connections -> Calls] /\ call[c] \in Calls /\ db \in Databases
      /\ call[c].phase \in {"composed", "writing", "lost"} => Answerable(q)
      /\ writer = c => call[c].phase = "writing"
  BY ComposedIsAnswerable DEF TypeOK, Orderly, AsComposed
<1>2. CASE Observe(c) \/ Compose(c) \/ CommitUnanswered(c) \/ CrashInTransaction(c) \/ Resubmit(c)
  <2>1. call'[c].outcome = call[c].outcome
    <3>1. CASE Observe(c)
      BY <1>1, <3>1 DEF Observe, Become, Calls
    <3>2. CASE Compose(c)
      <4>1. PICK r : call' = [call EXCEPT ![c] = [call[c] EXCEPT !.phase = "composed", !.request = r]]
        BY <3>2 DEF Compose, Become
      <4> QED  BY <1>1, <4>1 DEF Calls
    <3>3. CASE CommitUnanswered(c) \/ CrashInTransaction(c) \/ Resubmit(c)
      BY <1>1, <3>3 DEF CommitUnanswered, CrashInTransaction, Resubmit, Become, Calls
    <3> QED  BY <1>2, <3>1, <3>2, <3>3
  <2> QED  BY <2>1 DEF Told
<1>3. CASE Finish(c)
  BY <1>1, <1>3 DEF Finish, Become, IdleCall, Told
<1>4. CASE Recall(c)
  <2>1. PICK run \in Runs, command \in Commands, n \in BatchSizes :
          /\ db.dedup[run][command] # NoRequest
          /\ IF db.dedup[run][command].kind \in {"execution", "noop", "result"} /\ db.dedup[run][command].n = n
             THEN Become(c, [call[c] EXCEPT !.phase = "answered", !.request = db.dedup[run][command],
                                            !.outcome = "recovered"])
             ELSE Answer(c, "conflict")
    BY <1>4 DEF Recall
  <2> DEFINE row == db.dedup[run][command]
  <2> HIDE DEF row
  <2>2. row # NoRequest /\ row = db.dedup[run][command]
    BY <2>1 DEF row
  <2>3. /\ db' = db
        /\ \/ call' = [call EXCEPT ![c] = [call[c] EXCEPT !.phase = "answered", !.outcome = "conflict"]]
           \/ /\ row.kind \in {"execution", "noop", "result"}
              /\ call' = [call EXCEPT ![c] = [call[c] EXCEPT !.phase = "answered", !.request = row,
                                                             !.outcome = "recovered"]]
    BY <1>4, <2>1 DEF Recall, Answer, Become, row
  <2>4. row.kind \in {"execution", "noop", "result"} /\ call'[c].request = row
    BY <1>1, <2>3 DEF Told, Calls
  <2>5. row \in Requests /\ row.scope = run /\ row.command = command
    BY <1>1, <2>2 DEF Orderly, RowsAreNamed, Databases, Streams
  <2> QED  BY SMTT(60), <2>2, <2>3, <2>4, <2>5 DEF Answerable, EffectOf
<1>5. CASE Busy(c)
  BY <1>1, <1>5 DEF Busy, Answer, Become, Calls, Told
<1>6. CASE Begin(c)
  <2>1. /\ db' = db /\ call[c].phase = "composed"
        /\ \/ Replays(db, q) /\ Answer(c, "deduplicated")
           \/ Become(c, [call[c] EXCEPT !.phase = "writing"])
           \/ Answer(c, "conflict")
    BY <1>6 DEF Begin
  <2>2. Replays(db, q) /\ call'[c].request = q
    BY ZenonT(60), <1>1, <2>1 DEF Answer, Become, Calls, Told
  <2>3. EffectOf(db, q)
    BY <2>2 DEF Replays, EffectOf, Deduplicated
  <2> QED  BY <1>1, <2>1, <2>2, <2>3
<1>7. CASE Commit(c)
  <2>1. writer = c /\ db' = staged /\ Answer(c, "committed") /\ c # NoConnection
    BY <1>7, SentinelsAssumption DEF Commit
  <2>2. call'[c].request = q /\ Answerable(q) /\ db' = Apply(db, q)
    BY <1>1, <2>1 DEF Answer, Become, Calls, TransactionIsolated
  <2> QED  BY <1>1, <2>2, EffectTaken
<1> QED  BY <1>2, <1>3, <1>4, <1>5, <1>6, <1>7

\* Every step keeps the answers true.
LEMMA NextAnswers ==
  ASSUME TypeOK, TransactionIsolated, Orderly, AnswersAreTrue, [Next]_vars
  PROVE  AnswersAreTrue'
<1>1. CASE UNCHANGED vars
  BY <1>1 DEF vars, AnswersAreTrue, EffectOf
<1>2. CASE Next
  <2>1. PICK c \in Connections :
          \/ Observe(c) \/ Compose(c) \/ Recall(c) \/ Begin(c) \/ Busy(c)
          \/ Commit(c) \/ CommitUnanswered(c) \/ CrashInTransaction(c)
          \/ Resubmit(c) \/ Finish(c)
    BY <1>2 DEF Next
  <2>2. \A p : Answerable(p) /\ EffectOf(db, p) => EffectOf(db', p)
    <3>1. CASE db' = db
      BY <3>1
    <3>2. CASE db' # db
      <4>1. PICK q \in Requests : Accepts(db, q) /\ db' = Apply(db, q)
        BY <1>2, <3>2, CommitIsComposed DEF Orderly
      <4> QED  BY <4>1, EffectStays DEF TypeOK, Orderly
    <3> QED  BY <3>1, <3>2
  <2>3. \A o \in Connections \ {c} : call'[o] = call[o]
    BY <2>1, CallMoves
  <2>4. call'[c].outcome # "none" => call'[c].phase = "answered"
    BY <2>1, CallMoves DEF AnswersAreTrue
  <2>5. call'[c].outcome \in Told => Answerable(call'[c].request) /\ EffectOf(db', call'[c].request)
    <3>1. CASE call[c].outcome = "none"
      BY <2>1, <3>1, ToldByStep
    <3>2. CASE call[c].outcome # "none"
      <4>1. call'[c].outcome = "none"
        BY <2>1, <3>2, CallMoves DEF AnswersAreTrue
      <4> QED  BY <4>1 DEF Told
    <3> QED  BY <3>1, <3>2
  <2>6. \A o \in Connections :
          /\ call'[o].outcome # "none" => call'[o].phase = "answered"
          /\ call'[o].outcome \in Told => Answerable(call'[o].request) /\ EffectOf(db', call'[o].request)
    BY <2>2, <2>3, <2>4, <2>5 DEF AnswersAreTrue
  <2> QED  BY <2>6 DEF AnswersAreTrue, EffectOf
<1> QED  BY <1>1, <1>2

LEMMA AlwaysTrue == Spec => []AnswersAreTrue
<1>1. Init => AnswersAreTrue
  BY DEF Init, IdleCall, AnswersAreTrue, Told
<1>2. TypeOK /\ TransactionIsolated /\ Orderly /\ AnswersAreTrue /\ [Next]_vars => AnswersAreTrue'
  BY NextAnswers
<1> QED  BY <1>1, <1>2, AlwaysOrderly, TypeCorrect, TransactionsAreIsolated, PTL DEF Spec

\* No caller is told of an effect before it is durable, and no later
\* transaction and no crash takes it back (appendAtomic l. 264-301).
THEOREM AnswersStayDurable == Spec => []AnswersAreDurable
<1>1. AnswersAreTrue => AnswersAreDurable
  BY DEF AnswersAreTrue, AnswersAreDurable, EffectOf, Told
<1> QED  BY <1>1, AlwaysTrue, PTL

=============================================================================
