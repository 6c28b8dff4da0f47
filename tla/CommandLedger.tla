--------------------------- MODULE CommandLedger ----------------------------
(***************************************************************************)
(* What the authority store promises its callers, without cursors, hashes, *)
(* transactions, locks or crashes: a command takes effect at most once in  *)
(* its scope, entirely and at one instant, and a caller is told so only    *)
(* after it did.                                                           *)
(***************************************************************************)
EXTENDS Integers, Sequences

CONSTANTS Workspace, Runs, Commands, Connections, AuthorityKeys,
          MaxBatch,   \* the longest batch of events a command appends
          NoReply     \* "this connection was told nothing"

Streams == {Workspace} \cup Runs

VARIABLES
  log,      \* for every stream, the commands that authored its events
  applied,  \* for every scope, the commands that took effect
  spent,    \* the authority keys consumed: <<run, key, command>>
  issued,   \* the operations that issued a grant
  reply     \* for every connection, the effect it was told of

ledgerVars == <<log, applied, spent, issued, reply>>

Init ==
  /\ log = [s \in Streams |-> << >>]
  /\ applied = [s \in Streams |-> {}]
  /\ spent = {}
  /\ issued = {}
  /\ reply = [c \in Connections |-> NoReply]

Repeated(command, n) == [i \in 1 .. n |-> command]

\* A command takes effect: it extends its own run by n events and the workspace
\* by at most one.  A run begins after the workspace and never together with it.
Perform(scope, command) ==
  /\ command \notin applied[scope]
  /\ \E n \in 0 .. MaxBatch, w \in 0 .. 1 :
       /\ scope = Workspace => n = 0
       /\ n > 0 => log[Workspace] # << >>
       /\ scope # Workspace /\ log[scope] = << >> => n = 1 /\ w = 0
       /\ log' = [s \in Streams |->
                    log[s] \o Repeated(command, IF s = Workspace THEN w
                                                ELSE IF s = scope THEN n ELSE 0)]
  /\ applied' = [applied EXCEPT ![scope] = @ \cup {command}]
  /\ UNCHANGED <<spent, issued>>

Spend(run, key, command) ==
  /\ \A other \in Commands : <<run, key, other>> \notin spent
  /\ log[run] # << >>
  /\ spent' = spent \cup {<<run, key, command>>}
  /\ UNCHANGED <<log, applied, issued>>

Issue(operation) ==
  /\ log[Workspace] # << >>
  /\ operation \notin issued
  /\ issued' = issued \cup {operation}
  /\ UNCHANGED <<log, applied, spent>>

NoEffect == UNCHANGED <<log, applied, spent, issued>>

\* A connection may be told of an effect that took place, or forget.
Tell ==
  \A c \in Connections :
    reply'[c] \in {reply[c], NoReply} \/
    \E scope \in Streams, command \in Commands :
      reply'[c] = <<scope, command>> /\ command \in applied'[scope]

Next ==
  /\ \/ \E scope \in Streams, command \in Commands : Perform(scope, command)
     \/ \E run \in Runs, key \in AuthorityKeys, command \in Commands :
          Spend(run, key, command)
     \/ \E operation \in Commands : Issue(operation)
     \/ NoEffect
  /\ DOMAIN reply' = Connections
  /\ Tell

Spec == Init /\ [][Next]_ledgerVars

=============================================================================
