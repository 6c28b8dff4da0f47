-------------------- MODULE AuthorityStoreRefinementProofs --------------------
(***************************************************************************)
(* AuthorityStore implements CommandLedger for every value of the          *)
(* constants: the first state maps to the first state of the ledger, and   *)
(* every step maps to a step of the ledger or changes nothing there.       *)
(***************************************************************************)
EXTENDS AuthorityStoreRefinement, AuthorityStoreProofs

-----------------------------------------------------------------------------
(* How the mapping reads a database that a transaction leaves.             *)

\* Every event of a batch names the command of its request.
LEMMA BatchAuthors ==
  ASSUME NEW q \in Requests, NEW s \in Streams, NEW i \in 1 .. BatchSize(q, s)
  PROVE  Batch(q, s)[i].id.command = q.command
<1>1. BatchSize(q, s) \in Nat
  BY BatchSizeType
<1>2. Batch(q, s)[i].id = EventId(q, s, i)
  BY <1>1 DEF Batch
<1>3. EventId(q, s, i).command = q.command
  BY DEF EventId
<1> QED  BY <1>2, <1>3

\* A transaction adds the author of its batch to the log of every stream.
LEMMA AuthorsAfter ==
  ASSUME NEW d \in Databases, NEW q \in Requests, NEW s \in Streams
  PROVE  AuthorsOf(Apply(d, q))[s] = AuthorsOf(d)[s] \o Ledger!Repeated(q.command, BatchSize(q, s))
<1> DEFINE old == d.events[s]
           new == Apply(d, q).events[s]
           n == BatchSize(q, s)
           b(i) == Batch(q, s)[i]
           cmd(e) == e.id.command
<1>1. /\ n \in Nat /\ old \in Seq(Events) /\ new \in Seq(Events) /\ Len(old) \in Nat
      /\ DOMAIN new = 1 .. Len(old) + n /\ Len(new) = Len(old) + n
      /\ \A i \in 1 .. Len(old) : new[i] = old[i]
      /\ \A i \in 1 .. n : new[Len(old) + i] = b(i)
  BY StreamAfter
<1>2. \A i \in 1 .. n : cmd(b(i)) = q.command
  BY BatchAuthors
<1>3. \A e \in Events : cmd(e) \in Commands
  BY DEF Events, EventIds
<1>4. q.command \in Commands
  BY DEF Requests
<1>5. /\ AuthorsOf(d)[s] = [i \in 1 .. Len(old) |-> cmd(old[i])]
      /\ AuthorsOf(Apply(d, q))[s] = [i \in 1 .. Len(new) |-> cmd(new[i])]
      /\ Ledger!Repeated(q.command, n) = [i \in 1 .. n |-> q.command]
  BY DEF AuthorsOf, Ledger!Repeated
<1> HIDE DEF old, new, n, b, cmd
<1> DEFINE was == [i \in 1 .. Len(old) |-> cmd(old[i])]
           is == [i \in 1 .. Len(new) |-> cmd(new[i])]
           more == [i \in 1 .. n |-> q.command]
<1>6. was \in Seq(Commands) /\ Len(was) = Len(old) /\ \A i \in 1 .. Len(old) : was[i] = cmd(old[i])
  BY <1>1, <1>3
<1>7. is \in Seq(Commands) /\ Len(is) = Len(old) + n /\ \A i \in 1 .. Len(old) + n : is[i] = cmd(new[i])
  BY <1>1, <1>3
<1>8. more \in Seq(Commands) /\ Len(more) = n /\ \A i \in 1 .. n : more[i] = q.command
  BY <1>1, <1>4
<1> HIDE DEF was, is, more
<1>9. /\ was \o more \in Seq(Commands) /\ Len(was \o more) = Len(old) + n
      /\ \A i \in 1 .. Len(old) : (was \o more)[i] = was[i]
      /\ \A i \in 1 .. n : (was \o more)[Len(old) + i] = more[i]
  <2>1. /\ was \o more \in Seq(Commands) /\ Len(was \o more) = Len(was) + Len(more)
        /\ \A i \in 1 .. Len(was) : (was \o more)[i] = was[i]
        /\ \A i \in 1 .. Len(more) : (was \o more)[Len(was) + i] = more[i]
    <3>1. was \in Seq(Commands) /\ more \in Seq(Commands)
      BY <1>6, <1>8
    <3> QED  BY <3>1, ConcatenationElements
  <2> QED  BY <2>1, <1>6, <1>8
<1>10. \A i \in 1 .. Len(old) + n : is[i] = (was \o more)[i]
  <2>1. ASSUME NEW i \in 1 .. Len(old)  PROVE is[i] = (was \o more)[i]
    <3>1. i \in 1 .. Len(old) + n /\ new[i] = old[i]
      BY <1>1
    <3> QED  BY <3>1, <1>6, <1>7, <1>9
  <2>2. ASSUME NEW j \in 1 .. n  PROVE is[Len(old) + j] = (was \o more)[Len(old) + j]
    <3>1. Len(old) + j \in 1 .. Len(old) + n /\ new[Len(old) + j] = b(j)
      BY <1>1
    <3>2. is[Len(old) + j] = cmd(b(j))
      BY <3>1, <1>7
    <3> QED  BY <3>2, <1>2, <1>8, <1>9
  <2>3. ASSUME NEW i \in 1 .. Len(old) + n
        PROVE  i \in 1 .. Len(old) \/ \E j \in 1 .. n : i = Len(old) + j
    BY <1>1, SplitPosition
  <2> QED  BY <2>1, <2>2, <2>3
<1>11. is = was \o more
  BY <1>1, <1>7, <1>9, <1>10
<1> QED  BY <1>5, <1>11 DEF was, is, more, old, new, n

\* A transaction with a result adds its command to the commands of its scope.
LEMMA AppliedAfter ==
  ASSUME NEW d \in Databases, NEW q \in Requests
  PROVE  /\ q.kind \in Deduplicated =>
              AppliedIn(Apply(d, q)) = [AppliedIn(d) EXCEPT ![q.scope] = AppliedIn(d)[q.scope] \cup {q.command}]
         /\ q.kind \notin Deduplicated => AppliedIn(Apply(d, q)) = AppliedIn(d)
<1>1. /\ d.dedup \in [Streams -> [Commands -> Requests \cup {NoRequest}]]
      /\ q.scope \in Streams /\ q.command \in Commands /\ q # NoRequest
      /\ Apply(d, q).dedup = RecordCommand(d, q)
  BY NoRequestAssumption DEF Databases, Requests, Apply
<1>2. CASE q.kind \in Deduplicated
  <2>1. \A s \in Streams, c \in Commands :
          Apply(d, q).dedup[s][c] = IF s = q.scope /\ c = q.command THEN q ELSE d.dedup[s][c]
    BY <1>1, <1>2 DEF RecordCommand
  <2> DEFINE rows(e, s) == {c \in Commands : e.dedup[s][c] # NoRequest}
  <2>2. \A s \in Streams : rows(Apply(d, q), s) = IF s = q.scope THEN rows(d, s) \cup {q.command} ELSE rows(d, s)
    BY <1>1, <2>1
  <2>3. /\ AppliedIn(d) = [s \in Streams |-> rows(d, s)]
        /\ AppliedIn(Apply(d, q)) = [s \in Streams |-> rows(Apply(d, q), s)]
    BY DEF AppliedIn
  <2>4. \A s \in Streams :
          rows(Apply(d, q), s) = [AppliedIn(d) EXCEPT ![q.scope] = AppliedIn(d)[q.scope] \cup {q.command}][s]
    <3> HIDE DEF rows
    <3> QED  BY <1>1, <2>2, <2>3
  <2>5. DOMAIN AppliedIn(d) = Streams
    BY <2>3
  <2> DEFINE more == [AppliedIn(d) EXCEPT ![q.scope] = AppliedIn(d)[q.scope] \cup {q.command}]
  <2>6. more = [s \in Streams |-> more[s]]
    BY <2>3
  <2>7. [s \in Streams |-> rows(Apply(d, q), s)] = [s \in Streams |-> more[s]]
    BY <2>4
  <2> QED  BY <1>2, <2>3, <2>6, <2>7
<1>3. CASE q.kind \notin Deduplicated
  BY <1>1, <1>3 DEF AppliedIn, RecordCommand
<1> QED  BY <1>2, <1>3

\* A consumption adds one entry to what is spent.
LEMMA SpentAfter ==
  ASSUME NEW d \in Databases, NEW q \in Requests, Accepts(d, q), WellComposed(q)
  PROVE  /\ q.kind = "consume" => SpentIn(Apply(d, q)) = SpentIn(d) \cup {<<q.scope, q.key, q.command>>}
         /\ q.kind # "consume" => SpentIn(Apply(d, q)) = SpentIn(d)
<1>1. /\ d.consumed \in [Runs -> [AuthorityKeys -> Commands \cup {NoCommand}]]
      /\ q.command \in Commands /\ q.key \in AuthorityKeys
      /\ Apply(d, q).consumed = RecordConsumption(d, q)
  BY DEF Databases, Requests, Apply
<1>2. CASE q.kind = "consume"
  <2>1. q.scope \in Runs /\ d.consumed[q.scope][q.key] = NoCommand
    BY <1>2 DEF WellComposed, Requests, Streams, Accepts, RunStateFits
  <2>2. \A r \in Runs, k \in AuthorityKeys :
          Apply(d, q).consumed[r][k] = IF r = q.scope /\ k = q.key THEN q.command ELSE d.consumed[r][k]
    BY <1>1, <1>2, <2>1 DEF RecordConsumption
  <2>3. \A r \in Runs, k \in AuthorityKeys, c \in Commands :
          Apply(d, q).consumed[r][k] = c <=> d.consumed[r][k] = c \/ (r = q.scope /\ k = q.key /\ c = q.command)
    BY <1>1, <2>1, <2>2, SentinelsAssumption
  <2>4. \A e \in Runs \X AuthorityKeys \X Commands :
          e \in SpentIn(Apply(d, q)) <=> e \in SpentIn(d) \/ e = <<q.scope, q.key, q.command>>
    BY <2>3 DEF SpentIn
  <2>5. <<q.scope, q.key, q.command>> \in Runs \X AuthorityKeys \X Commands
    BY <1>1, <2>1
  <2> QED  BY <1>2, <2>4, <2>5 DEF SpentIn
<1>3. CASE q.kind # "consume"
  BY <1>1, <1>3 DEF SpentIn, RecordConsumption
<1> QED  BY <1>2, <1>3

\* A request that appends to no stream leaves the events alone.
LEMMA NothingAppended ==
  ASSUME NEW d \in Databases, NEW q \in Requests, \A s \in Streams : BatchSize(q, s) = 0
  PROVE  Apply(d, q).events = d.events
<1>1. ASSUME NEW s \in Streams  PROVE Apply(d, q).events[s] = d.events[s]
  <2> DEFINE new == Apply(d, q).events[s]
             old == d.events[s]
  <2>1. /\ old \in Seq(Events) /\ new \in Seq(Events) /\ Len(new) = Len(old)
        /\ \A i \in 1 .. Len(old) : new[i] = old[i]
    BY StreamAfter
  <2> HIDE DEF new, old
  <2>2. new = old
    BY <2>1
  <2> QED  BY <2>2 DEF new, old
<1>2. d.events \in [Streams -> Seq(Events)] /\ Apply(d, q).events \in [Streams -> Seq(Events)]
  BY ApplyType DEF Databases
<1> QED  BY <1>1, <1>2

\* The log of a stream is empty when the stream is.
LEMMA AuthorsOfNobody ==
  ASSUME NEW d \in Databases, NEW s \in Streams
  PROVE  AuthorsOf(d)[s] = << >> <=> d.events[s] = << >>
<1> DEFINE log == d.events[s]
<1>1. log \in Seq(Events) /\ AuthorsOf(d)[s] = [i \in 1 .. Len(log) |-> log[i].id.command]
  BY DEF Databases, AuthorsOf
<1> HIDE DEF log
<1> DEFINE authors == [i \in 1 .. Len(log) |-> log[i].id.command]
<1>2. Len(log) \in Nat /\ DOMAIN authors = 1 .. Len(log)
  BY <1>1
<1>3. CASE log = << >>
  <2>1. Len(log) = 0
    BY <1>3
  <2>2. \A i \in 1 .. Len(log) : FALSE
    BY <2>1
  <2>3. authors = << >>
    BY <2>1
  <2> QED  BY <1>1, <1>3, <2>3 DEF log
<1>4. CASE log # << >>
  <2>1. 1 \in 1 .. Len(log)
    BY <1>1, <1>2, <1>4
  <2>2. authors # << >>
    BY <1>2, <2>1
  <2> QED  BY <1>1, <1>4, <2>2 DEF log
<1> QED  BY <1>3, <1>4

-----------------------------------------------------------------------------
(* The steps.                                                              *)

\* A request with a result takes effect in the ledger as a command.
LEMMA ResultPerforms ==
  ASSUME NEW d \in Databases, NEW q \in Requests, Accepts(d, q), WellComposed(q),
         Consistent(d), GenesisFirst(d), q.kind \in Deduplicated,
         d = db, db' = Apply(d, q)
  PROVE  Ledger!Perform(q.scope, q.command)
<1> DEFINE n == IF q.scope = Workspace THEN 0 ELSE BatchSize(q, q.scope)
           w == BatchSize(q, Workspace)
<1>1. /\ q.scope \in Streams /\ q.command \in Commands /\ Workspace \in Streams
      /\ q.n \in Nat /\ MaxEvents \in Nat
      /\ \A s \in Streams : BatchSize(q, s) \in Nat /\ Base(q, s).sequence \in Nat
  BY BatchSizeType, BaseType, BoundsAssumption DEF Requests, Streams
<1>2. q.command \notin AppliedIn(d)[q.scope]
  BY <1>1 DEF AppliedIn, Accepts, CommandUnused
<1>3. n \in 0 .. MaxEvents /\ w \in 0 .. 1 /\ (q.scope = Workspace => n = 0)
  <2>1. Base(q, q.scope).sequence + BatchSize(q, q.scope) <= MaxEvents
    BY <1>1 DEF WellComposed
  <2>2. n \in 0 .. MaxEvents
    BY <1>1, <2>1
  <2>3. w \in 0 .. 1
    BY DEF BatchSize
  <2> QED  BY <2>2, <2>3
<1>4. \A s \in Streams : d.heads[s].sequence > 0 <=> AuthorsOf(d)[s] # << >>
  BY EmptyStream, AuthorsOfNobody DEF Consistent
<1>5. n > 0 => AuthorsOf(d)[Workspace] # << >>
  <2> SUFFICES ASSUME n > 0 PROVE AuthorsOf(d)[Workspace] # << >>
    OBVIOUS
  <2>1. q.scope # Workspace /\ q.scope \in Runs /\ q.kind \in AppendsRun
    BY <1>1 DEF BatchSize, Streams
  <2>2. CASE q.kind = "runGenesis"
    BY <1>1, <1>4, <2>2 DEF Accepts, RunStateFits, RunAbsent
  <2>3. CASE q.kind # "runGenesis"
    <3>1. d.heads[q.scope].sequence > 0
      BY <2>1, <2>3 DEF Accepts, RunStateFits, RunPresent, ObservesRun
    <3> QED  BY <1>1, <2>1, <3>1, EmptyStream, AuthorsOfNobody DEF Consistent, GenesisFirst
  <2> QED  BY <2>2, <2>3
<1>6. q.scope # Workspace /\ AuthorsOf(d)[q.scope] = << >> => n = 1 /\ w = 0
  <2> SUFFICES ASSUME q.scope # Workspace, AuthorsOf(d)[q.scope] = << >> PROVE n = 1 /\ w = 0
    OBVIOUS
  <2>1. ~ RunPresent(d, q.scope)
    BY <1>1, <1>4 DEF RunPresent
  <2>2. q.kind = "runGenesis"
    <3>1. q.kind \in {"bootstrap", "runGenesis", "taskCreate", "execution", "progress",
                      "admission", "noop", "result"}
      BY DEF Deduplicated, AllKinds
    <3>2. q.kind # "bootstrap"
      BY DEF WellComposed
    <3> QED  BY <2>1, <3>1, <3>2 DEF Accepts, RunStateFits, ObservesRun, AppendsRun
  <2>3. q.n = 1
    BY <2>2 DEF WellComposed
  <2> QED  BY <2>2, <2>3 DEF BatchSize, AppendsRun, AppendsWorkspace
<1>7. \A s \in Streams :
        AuthorsOf(Apply(d, q))[s]
          = AuthorsOf(d)[s] \o Ledger!Repeated(q.command, IF s = Workspace THEN w
                                                          ELSE IF s = q.scope THEN n ELSE 0)
  <2> TAKE s \in Streams
  <2>1. BatchSize(q, s) = IF s = Workspace THEN w ELSE IF s = q.scope THEN n ELSE 0
    BY DEF BatchSize
  <2> QED  BY <2>1, AuthorsAfter
<1>8. AuthorsOf(db)' = [s \in Streams |->
        AuthorsOf(db)[s] \o Ledger!Repeated(q.command, IF s = Workspace THEN w
                                                       ELSE IF s = q.scope THEN n ELSE 0)]
  <2>1. AuthorsOf(Apply(d, q)) = [s \in Streams |-> AuthorsOf(Apply(d, q))[s]]
    BY DEF AuthorsOf
  <2> HIDE DEF n, w
  <2>2. AuthorsOf(Apply(d, q)) = [s \in Streams |->
        AuthorsOf(d)[s] \o Ledger!Repeated(q.command, IF s = Workspace THEN w
                                                      ELSE IF s = q.scope THEN n ELSE 0)]
    BY <1>7, <2>1
  <2>3. AuthorsOf(db)' = AuthorsOf(Apply(d, q))
    BY DEF AuthorsOf
  <2> QED  BY <2>2, <2>3
<1>9. AppliedIn(db)' = [AppliedIn(db) EXCEPT ![q.scope] = AppliedIn(db)[q.scope] \cup {q.command}]
  <2>1. AppliedIn(db)' = AppliedIn(Apply(d, q)) /\ AppliedIn(db) = AppliedIn(d)
    BY DEF AppliedIn
  <2> QED  BY <2>1, AppliedAfter
<1>10. SpentIn(db)' = SpentIn(db)
  BY SpentAfter DEF SpentIn, Deduplicated
<1>11. db'.grants.issued = db.grants.issued
  <2>1. Apply(d, q).grants = ReplaceGrants(d, q) /\ q.kind # "grants"
    BY DEF Apply, Deduplicated
  <2>2. q.kind = "bootstrap" => d.grants.issued = {}
    BY DEF Accepts, RunStateFits, GenesisFirst
  <2> QED  BY <2>1, <2>2 DEF ReplaceGrants
<1> HIDE DEF n, w
<1> QED
  BY ZenonT(30), <1>2, <1>3, <1>5, <1>6, <1>8, <1>9, <1>10, <1>11 DEF Ledger!Perform, Ledger!Streams, Streams

\* A consumption spends its key.
LEMMA ConsumptionSpends ==
  ASSUME NEW q \in Requests, db \in Databases, Accepts(db, q), WellComposed(q),
         Consistent(db), q.kind = "consume", db' = Apply(db, q)
  PROVE  Ledger!Spend(q.scope, q.key, q.command)
<1>1. /\ q.scope \in Runs /\ q.scope \in Streams /\ q.command \in Commands /\ q.key \in AuthorityKeys
  BY DEF Requests, WellComposed, Streams
<1>2. db.consumed[q.scope][q.key] = NoCommand /\ RunPresent(db, q.scope)
  BY DEF Accepts, RunStateFits, ObservesRun
<1>3. \A other \in Commands : <<q.scope, q.key, other>> \notin SpentIn(db)
  BY <1>2, SentinelsAssumption DEF SpentIn
<1>4. AuthorsOf(db)[q.scope] # << >>
  BY <1>1, <1>2, EmptyStream, AuthorsOfNobody DEF Consistent, RunPresent
<1>5. SpentIn(db)' = SpentIn(db) \cup {<<q.scope, q.key, q.command>>}
  <2>1. SpentIn(db)' = SpentIn(Apply(db, q))
    BY DEF SpentIn
  <2> QED  BY <2>1, SpentAfter
<1>6. AuthorsOf(db)' = AuthorsOf(db) /\ AppliedIn(db)' = AppliedIn(db)
  <2>1. \A s \in Streams : BatchSize(q, s) = 0
    BY DEF BatchSize, AppendsWorkspace, AppendsRun
  <2>2. Apply(db, q).events = db.events
    BY <2>1, NothingAppended
  <2>3. Apply(db, q).dedup = db.dedup
    BY DEF Apply, RecordCommand, Deduplicated
  <2> QED  BY <2>2, <2>3 DEF AuthorsOf, AppliedIn
<1>7. db'.grants = db.grants
  BY DEF Apply, ReplaceGrants
<1> QED  BY <1>3, <1>4, <1>5, <1>6, <1>7 DEF Ledger!Spend

\* An update of the grant record issues its operation.
LEMMA GrantsIssue ==
  ASSUME NEW q \in Requests, db \in Databases, Accepts(db, q), WellComposed(q),
         GenesisFirst(db), q.kind = "grants", db' = Apply(db, q)
  PROVE  Ledger!Issue(q.command)
<1>1. /\ q.grants = db.grants /\ db.grants.revision > 0 /\ q.command \notin db.grants.issued
      /\ Workspace \in Streams
  BY DEF Accepts, ObservationCurrent, ObservesGrants, WellComposed, Streams
<1>2. AuthorsOf(db)[Workspace] # << >>
  BY <1>1, AuthorsOfNobody DEF GenesisFirst
<1>3. db'.grants.issued = db.grants.issued \cup {q.command}
  BY <1>1 DEF Apply, ReplaceGrants
<1>4. \A s \in Streams : BatchSize(q, s) = 0
  BY DEF BatchSize, AppendsWorkspace, AppendsRun
<1>5. Apply(db, q).events = db.events
  BY <1>4, NothingAppended
<1>6. Apply(db, q).dedup = db.dedup /\ Apply(db, q).consumed = db.consumed
  BY DEF Apply, RecordCommand, RecordConsumption, Deduplicated
<1> QED  BY <1>1, <1>2, <1>3, <1>5, <1>6 DEF Ledger!Issue, AuthorsOf, AppliedIn, SpentIn

\* Who is told of an effect, in any step, is told of one that took place.
LEMMA TellsTheTruth ==
  ASSUME AnswersAreTrue'
  PROVE  Ledger!Tell
<1>1. ASSUME NEW c \in Connections
      PROVE  \/ ReplyOf(c)' = NoRequest
             \/ \E scope \in Streams, command \in Commands :
                  ReplyOf(c)' = <<scope, command>> /\ command \in AppliedIn(db)'[scope]
  <2> DEFINE q == call'[c].request
  <2>1. CASE call'[c].outcome \in Told /\ q.kind \in Deduplicated
    <3>1. /\ q \in Requests /\ q.scope \in Streams /\ q.command \in Commands
          /\ db'.dedup[q.scope][q.command] = q
      BY <2>1 DEF AnswersAreTrue, Answerable, EffectOf, Requests
    <3>2. q.command \in AppliedIn(db)'[q.scope]
      BY <3>1, NoRequestAssumption DEF AppliedIn
    <3>3. ReplyOf(c)' = <<q.scope, q.command>>
      BY <2>1 DEF ReplyOf, Told
    <3> QED  BY <3>1, <3>2, <3>3
  <2>2. CASE ~(call'[c].outcome \in Told /\ q.kind \in Deduplicated)
    BY <2>2 DEF ReplyOf, Told
  <2> QED  BY <2>1, <2>2
<1> QED  BY <1>1 DEF Ledger!Tell, Ledger!Streams, Streams

\* Every step of the store is a step of the ledger, or changes nothing there.
LEMMA StepMaps ==
  ASSUME TypeOK, TransactionIsolated, Consistent(db), Orderly, AnswersAreTrue', [Next]_vars
  PROVE  [Ledger!Next]_(Ledger!ledgerVars)
<1>1. Ledger!Tell /\ DOMAIN [c \in Connections |-> ReplyOf(c)]' = Connections
  BY TellsTheTruth
<1>2. CASE db' = db
  <2>1. Ledger!NoEffect
    BY <1>2 DEF Ledger!NoEffect, AuthorsOf, AppliedIn, SpentIn
  <2> QED  BY <1>1, <2>1 DEF Ledger!Next
<1>3. CASE db' # db
  <2>1. Next /\ db \in Databases
    BY <1>3 DEF vars, TypeOK
  <2>2. PICK q \in Requests : Accepts(db, q) /\ WellComposed(q) /\ db' = Apply(db, q)
    BY <1>3, <2>1, CommitIsComposed DEF Orderly
  <2>3. q.kind \in Deduplicated \/ q.kind = "consume" \/ q.kind = "grants"
    BY DEF Requests, Deduplicated
  <2>4. q.scope \in Streams /\ q.command \in Commands /\ q.key \in AuthorityKeys
        /\ (q.kind = "consume" => q.scope \in Runs)
    BY <2>2 DEF Requests, WellComposed, Streams
  <2>5. CASE q.kind \in Deduplicated
    <3>1. Ledger!Perform(q.scope, q.command)
      BY <2>1, <2>2, <2>5, ResultPerforms DEF Orderly
    <3> QED  BY <1>1, <2>4, <3>1 DEF Ledger!Next, Ledger!Streams, Streams
  <2>6. CASE q.kind = "consume"
    <3>1. Ledger!Spend(q.scope, q.key, q.command)
      BY <2>1, <2>2, <2>6, ConsumptionSpends
    <3> QED  BY <1>1, <2>4, <2>6, <3>1 DEF Ledger!Next
  <2>7. CASE q.kind = "grants"
    <3>1. Ledger!Issue(q.command)
      BY <2>1, <2>2, <2>7, GrantsIssue DEF Orderly
    <3> QED  BY <1>1, <2>4, <3>1 DEF Ledger!Next
  <2> QED  BY <2>3, <2>5, <2>6, <2>7
<1> QED  BY <1>2, <1>3

\* The first state of the store is the first of the ledger.
LEMMA InitMaps == Init => Ledger!Init
<1> SUFFICES ASSUME Init PROVE Ledger!Init
  OBVIOUS
<1>1. /\ db = EmptyDatabase /\ call = [c \in Connections |-> IdleCall]
      /\ \A s \in Streams : EmptyDatabase.events[s] = << >>
  BY DEF Init, EmptyDatabase
<1>2. AuthorsOf(db) = [s \in Streams |-> << >>]
  BY <1>1 DEF AuthorsOf
<1>3. AppliedIn(db) = [s \in Streams |-> {}]
  BY <1>1 DEF AppliedIn, EmptyDatabase
<1>4. SpentIn(db) = {}
  BY <1>1, SentinelsAssumption DEF SpentIn, EmptyDatabase
<1>5. db.grants.issued = {}
  BY <1>1 DEF EmptyDatabase, NoGrants
<1>6. [c \in Connections |-> ReplyOf(c)] = [c \in Connections |-> NoRequest]
  BY <1>1 DEF ReplyOf, IdleCall
<1> QED  BY <1>2, <1>3, <1>4, <1>5, <1>6 DEF Ledger!Init, Ledger!Streams, Streams

\* A command takes effect at most once, whole and at one instant, and a caller
\* is told so only afterwards: the transactions of sqlite-authority.ts, the
\* compare-and-swap of the heads and the rows of command_dedup implement the
\* ledger for any number of runs, commands, connections and crashes.
THEOREM StoreImplementsLedger == Spec => ImplementsLedger
<1>1. TypeOK /\ TransactionIsolated /\ Consistent(db) /\ Orderly /\ AnswersAreTrue' /\ [Next]_vars
        => [Ledger!Next]_(Ledger!ledgerVars)
  BY StepMaps
<1> QED
  BY <1>1, InitMaps, AlwaysOrderly, AlwaysTrue, TypeCorrect, TransactionsAreIsolated, PTL
     DEF Spec, ImplementsLedger, Ledger!Spec

=============================================================================
