----------------------------- MODULE HostSessions -----------------------------
(***************************************************************************)
(* Which attempt a session of a host speaks for: the session, branch and   *)
(* claim tables of the contribution runtimes of OMP, Claude and Codex      *)
(* (adapters/*/src/index.ts).  Claude and Codex keep them in a file and    *)
(* read it when they start; OMP keeps its branches in memory.  Codex also  *)
(* hands out thread claims: a claim names the capabilities one session may *)
(* return results for, is bound to that session, and is used up by a batch.*)
(*                                                                         *)
(* What is abstracted.  An attempt is its capability.  The five scenarios  *)
(* of a batch are the capabilities of its claim.  The delivery of one of   *)
(* them (WorkerDelivery) succeeds or fails.  The calls of a runtime are    *)
(* made one after the other, as its socket server does, but for a batch,   *)
(* which waits for its deliveries while other calls come in.               *)
(***************************************************************************)
EXTENDS Integers

CONSTANTS
  SessionHosts,   \* the kinds of host, of "omp", "claude" and "codex"
  Capabilities,   \* attempt capabilities registered with the runtime
  Sessions,       \* session ids (for OMP, session files)
  Entries,        \* branch entries
  Claims,         \* thread claims; each is a fresh random value
  MaxRestarts,    \* bound: restarts of the runtime
  Absent          \* no entry in a table

\* A runtime is created with a first registration.
ASSUME SessionsAssumption == Capabilities # {} /\ Absent \notin Capabilities \cup Sessions

VARIABLES
  sessionHost,  \* the kind of host; it does not change
  memory,       \* the tables of the running runtime
  disk,         \* session-bindings.json
  batch,        \* the batch that is being delivered
  binding,      \* the claim whose session has just been started
  restarts,     \* restarts so far
  permitted,    \* history: the capabilities a session was ever bound to speak for
  registered    \* the claims ever registered: a claim is a fresh one

sessionVars == <<sessionHost, memory, disk, batch, binding, restarts, permitted, registered>>

-----------------------------------------------------------------------------
Branches == [session : Sessions, capability : Capabilities]
ClaimStates == [capabilities : SUBSET Capabilities, primary : Capabilities, session : Sessions \cup {Absent}]
Initial == CHOOSE c \in Capabilities : TRUE

NoTables ==
  [sessions |-> [s \in Sessions |-> Absent], branches |-> [e \in Entries |-> Absent], claims |-> [c \in Claims |-> Absent]]

\* A runtime with the tables it reads, its first registration selected.
Started(tables) ==
  [tables |-> tables, selected |-> Initial, pending |-> Absent, state |-> "enabled"]

Persistent == sessionHost # "omp"
HasClaims == sessionHost = "codex"
Enabled == memory.state = "enabled" /\ binding = Absent

\* persistSessions: every table is written at once.
Persists == disk' = IF Persistent THEN memory'.tables ELSE disk
KeepsHistory == UNCHANGED <<sessionHost, restarts, permitted, registered>>
-----------------------------------------------------------------------------
\* What a start of session s resolves to: Absent when it is refused.  A known
\* session keeps its capability; a new one takes the selected capability, that of
\* the session it resumes, or that of the branch it forks.
Existing(s, source, previous) ==
  IF source = "startup" \/ (previous # Absent /\ memory.tables.sessions[previous] # memory.tables.sessions[s])
  THEN Absent ELSE memory.tables.sessions[s]

Inherited(source, previous, entry) ==
  LET tables == memory.tables
      known == previous # Absent /\ tables.sessions[previous] # Absent
  IN  CASE source = "startup" -> memory.selected
        [] source = "fork" ->
             IF entry # Absent /\ tables.branches[entry] # Absent /\ known /\ tables.branches[entry].session = previous
             THEN tables.branches[entry].capability ELSE Absent
        [] source = "resume" ->
             IF entry = Absent /\ known THEN tables.sessions[previous] ELSE Absent

Resolved(s, source, previous, entry) ==
  IF memory.tables.sessions[s] # Absent THEN Existing(s, source, previous) ELSE Inherited(source, previous, entry)

Starts == {"startup", "fork", "resume"} \X (Sessions \cup {Absent}) \X (Entries \cup {Absent})

\* registerSessionStart: a new session is bound, selected and written.
Binds(s, capability) ==
  IF memory.tables.sessions[s] # Absent
  THEN UNCHANGED <<memory, disk, permitted>>
  ELSE /\ memory' = [memory EXCEPT !.tables.sessions[s] = capability, !.selected = capability]
       /\ Persists
       /\ permitted' = [permitted EXCEPT ![s] = @ \cup {capability}]

StartSession(s) ==
  /\ Persistent /\ Enabled
  /\ \E start \in Starts :
       LET capability == Resolved(s, start[1], start[2], start[3]) IN
       capability # Absent /\ Binds(s, capability)
  /\ UNCHANGED <<sessionHost, batch, binding, restarts, registered>>

\* registerBranch: an entry and a session file are mapped once and for all.
RegisterBranch(e, s, c) ==
  /\ Enabled
  /\ memory.tables.branches[e] = Absent
  /\ \A f \in Entries : memory.tables.branches[f] # Absent => memory.tables.branches[f].session # s
  /\ memory' = [memory EXCEPT !.tables.branches[e] = [session |-> s, capability |-> c]]
  /\ Persists
  /\ KeepsHistory /\ UNCHANGED <<batch, binding>>

BeforeBranch(e) ==
  /\ Enabled
  /\ memory.tables.branches[e] # Absent
  /\ memory' = [memory EXCEPT !.pending = memory.tables.branches[e]]
  /\ KeepsHistory /\ UNCHANGED <<disk, batch, binding>>

\* activateSession of a branch: the pending branch is taken whether it matches or not.
ActivateSession(s) ==
  LET pending == memory.pending
      matches == pending # Absent /\ pending.session = s
  IN
  /\ Enabled
  /\ memory' = [memory EXCEPT !.pending = Absent, !.selected = IF matches THEN pending.capability ELSE @]
  /\ KeepsHistory /\ UNCHANGED <<disk, batch, binding>>
-----------------------------------------------------------------------------
RegisterClaim(c, capabilities, primary) ==
  /\ HasClaims /\ Enabled
  /\ memory.tables.claims[c] = Absent /\ c \notin registered
  /\ primary \in capabilities
  /\ memory' = [memory EXCEPT !.tables.claims[c] =
                  [capabilities |-> capabilities, primary |-> primary, session |-> Absent]]
  /\ Persists
  /\ registered' = registered \cup {c}
  /\ UNCHANGED <<sessionHost, batch, binding, restarts, permitted>>

\* bindThreadClaim, up to the start of the session: the primary capability is
\* selected first, and the start must resolve to it.
BindClaim(c, s) ==
  LET claim == memory.tables.claims[c] IN
  /\ HasClaims /\ Enabled
  /\ claim # Absent /\ claim.session = Absent
  /\ \E start \in Starts :
       LET capability == IF start[1] = "startup" /\ memory.tables.sessions[s] = Absent
                         THEN claim.primary ELSE Resolved(s, start[1], start[2], start[3])
       IN
       \/ capability = Absent /\ memory' = [memory EXCEPT !.selected = claim.primary] /\ UNCHANGED <<disk, binding, permitted>>
       \/ /\ capability # Absent
          /\ memory' = IF memory.tables.sessions[s] # Absent
                       THEN [memory EXCEPT !.selected = claim.primary]
                       ELSE [memory EXCEPT !.tables.sessions[s] = capability, !.selected = capability]
          /\ Persists
          /\ permitted' = [permitted EXCEPT ![s] = @ \cup {capability}]
          /\ binding' = IF capability = claim.primary THEN [claim |-> c, session |-> s] ELSE Absent
  /\ UNCHANGED <<sessionHost, batch, restarts, registered>>

\* Mutant: the binding of the claim is not written.
RecordBindingInMemory ==
  LET c == binding.claim
      s == binding.session IN
  /\ binding # Absent
  /\ memory' = [memory EXCEPT !.tables.claims[c].session = s]
  /\ permitted' = [permitted EXCEPT ![s] = @ \cup memory.tables.claims[c].capabilities]
  /\ binding' = Absent
  /\ UNCHANGED <<sessionHost, disk, batch, restarts, registered>>

\* The rest of bindThreadClaim: the claim is bound to the session and written.
RecordBinding ==
  LET c == binding.claim
      s == binding.session IN
  /\ binding # Absent
  /\ memory' = [memory EXCEPT !.tables.claims[c].session = s]
  /\ Persists
  /\ permitted' = [permitted EXCEPT ![s] = @ \cup memory.tables.claims[c].capabilities]
  /\ binding' = Absent
  /\ UNCHANGED <<sessionHost, batch, restarts, registered>>

\* Mutant: the session of the caller is not compared with that of the claim.
BeginBatchOfAnySession(c, s) ==
  LET claim == memory.tables.claims[c] IN
  /\ HasClaims /\ Enabled /\ batch = Absent
  /\ claim # Absent /\ claim.session # Absent
  /\ memory' = [memory EXCEPT !.tables.claims[c] = Absent]
  /\ Persists
  /\ batch' = [session |-> s, primary |-> claim.primary, left |-> claim.capabilities]
  /\ UNCHANGED <<sessionHost, binding, restarts, permitted, registered>>

\* deliverBatch: the claim of this session is deleted, and that is written,
\* before anything is delivered.
BeginBatch(c, s) ==
  LET claim == memory.tables.claims[c] IN
  /\ HasClaims /\ Enabled /\ batch = Absent
  /\ claim # Absent /\ claim.session = s
  /\ memory' = [memory EXCEPT !.tables.claims[c] = Absent]
  /\ Persists
  /\ batch' = [session |-> s, primary |-> claim.primary, left |-> claim.capabilities]
  /\ UNCHANGED <<sessionHost, binding, restarts, permitted, registered>>

\* The session speaks for the capability of the next result, in memory only; the
\* delivery succeeds, or fails and ends the batch.
DeliverNext(c) ==
  /\ batch # Absent /\ c \in batch.left /\ binding = Absent
  /\ memory' = [memory EXCEPT !.tables.sessions[batch.session] = c]
  /\ \/ Enabled /\ batch' = [batch EXCEPT !.left = @ \ {c}]
     \/ batch' = Absent
  /\ KeepsHistory /\ UNCHANGED <<disk, binding>>

\* The primary capability is restored and written.
EndBatch ==
  /\ batch # Absent /\ batch.left = {} /\ binding = Absent
  /\ memory' = [memory EXCEPT !.tables.sessions[batch.session] = batch.primary]
  /\ Persists
  /\ batch' = Absent
  /\ KeepsHistory /\ UNCHANGED binding
-----------------------------------------------------------------------------
\* revoke empties the tables, on the disk too.
RevokeRuntime ==
  /\ Enabled
  /\ memory' = [Started(NoTables) EXCEPT !.selected = Absent, !.state = "revoked"]
  /\ Persists
  /\ KeepsHistory /\ UNCHANGED <<batch, binding>>

\* The kill switch of an uninstallation is read before every request (Codex).
KillSwitch ==
  /\ HasClaims /\ Enabled
  /\ memory' = [memory EXCEPT !.state = "killed"]
  /\ KeepsHistory /\ UNCHANGED <<disk, batch, binding>>

\* sessionShutdown forgets the pending branch, shutdown everything in memory; a
\* batch that is still running writes what is left.
SessionShutdown ==
  /\ Enabled
  /\ memory' = [memory EXCEPT !.pending = Absent]
  /\ KeepsHistory /\ UNCHANGED <<disk, batch, binding>>

ShutdownRuntime ==
  /\ Enabled
  /\ memory' = [Started(NoTables) EXCEPT !.selected = Absent, !.state = "shut down"]
  /\ KeepsHistory /\ UNCHANGED <<disk, batch, binding>>

\* The runtime dies or was shut down, and the next one reads the tables; the file
\* of the kill switch is still there.
RestartRuntime ==
  /\ restarts < MaxRestarts
  /\ restarts' = restarts + 1
  /\ memory' = [Started(IF Persistent THEN disk ELSE NoTables) EXCEPT
                  !.state = IF memory.state = "killed" THEN "killed" ELSE "enabled"]
  /\ batch' = Absent /\ binding' = Absent
  /\ UNCHANGED <<sessionHost, disk, permitted, registered>>
-----------------------------------------------------------------------------
OMPRuntime ==
  /\ sessionHost = "omp"
  /\ \/ \E e \in Entries : BeforeBranch(e) \/ \E s \in Sessions, c \in Capabilities : RegisterBranch(e, s, c)
     \/ \E s \in Sessions : ActivateSession(s)
     \/ RevokeRuntime \/ SessionShutdown \/ ShutdownRuntime

ClaudeRuntime ==
  /\ sessionHost = "claude"
  /\ \/ \E e \in Entries : BeforeBranch(e) \/ \E s \in Sessions, c \in Capabilities : RegisterBranch(e, s, c)
     \/ \E s \in Sessions : StartSession(s) \/ ActivateSession(s)
     \/ RevokeRuntime \/ SessionShutdown \/ ShutdownRuntime

CodexRuntime ==
  /\ sessionHost = "codex"
  /\ \/ \E e \in Entries : BeforeBranch(e) \/ \E s \in Sessions, c \in Capabilities : RegisterBranch(e, s, c)
     \/ \E s \in Sessions : StartSession(s) \/ ActivateSession(s)
     \/ \E c \in Claims :
          \/ \E capabilities \in SUBSET Capabilities, p \in Capabilities : RegisterClaim(c, capabilities, p)
          \/ \E s \in Sessions : BindClaim(c, s) \/ BeginBatch(c, s)
     \/ RecordBinding
     \/ \E c \in Capabilities : DeliverNext(c)
     \/ EndBatch
     \/ RevokeRuntime \/ KillSwitch \/ SessionShutdown \/ ShutdownRuntime

SessionsInit ==
  /\ sessionHost \in SessionHosts
  /\ memory = Started(NoTables) /\ disk = NoTables
  /\ batch = Absent /\ binding = Absent
  /\ restarts = 0
  /\ permitted = [s \in Sessions |-> {}]
  /\ registered = {}

SessionsNext == OMPRuntime \/ ClaudeRuntime \/ CodexRuntime \/ RestartRuntime

SessionsSpec == SessionsInit /\ [][SessionsNext]_sessionVars
-----------------------------------------------------------------------------
Tables ==
  [sessions : [Sessions -> Capabilities \cup {Absent}], branches : [Entries -> Branches \cup {Absent}],
   claims : [Claims -> ClaimStates \cup {Absent}]]

SessionsTypeOK ==
  /\ sessionHost \in SessionHosts
  /\ disk \in Tables /\ memory.tables \in Tables
  /\ memory.selected \in Capabilities \cup {Absent}
  /\ memory.pending \in Branches \cup {Absent}
  /\ memory.state \in {"enabled", "revoked", "killed", "shut down"}
  /\ batch \in [session : Sessions, primary : Capabilities, left : SUBSET Capabilities] \cup {Absent}
  /\ binding \in [claim : Claims, session : Sessions] \cup {Absent}
  /\ restarts \in 0 .. MaxRestarts
  /\ permitted \in [Sessions -> SUBSET Capabilities]
  /\ registered \subseteq Claims

\* A session speaks only for the capability it was started with or for those of
\* a claim bound to it, in memory, on the disk and after every restart, although
\* a batch lends it each capability of its claim and a failure interrupts that.
SessionStaysInItsClaim ==
  \A s \in Sessions :
    {memory.tables.sessions[s], disk.sessions[s]} \subseteq permitted[s] \cup {Absent}

\* What a running runtime knows survives its death: a restart finds every branch,
\* every claim and every bound session.
BindingsAreDurable ==
  Persistent /\ memory.state = "enabled" =>
    /\ memory.tables.branches = disk.branches
    /\ memory.tables.claims = disk.claims
    /\ \A s \in Sessions : memory.tables.sessions[s] # Absent => disk.sessions[s] # Absent
=============================================================================
