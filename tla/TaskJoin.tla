------------------------------ MODULE TaskJoin ------------------------------
(***************************************************************************)
(* When a task may be scheduled: the projection of tasks and dependencies, *)
(* the evaluation of a task's join and the scheduler's decision.           *)
(* packages/orchestrator/src/tasks/task-projection.ts, scheduler.ts.       *)
(*                                                                         *)
(* Of the run only its head is kept.  Evidence of an event is issued only  *)
(* while it is the head of its run, and may be used at any time after.     *)
(* The projection is brought up to date by whoever holds the evidence, in  *)
(* any order, and an evaluation does not ask how far it is: only the       *)
(* authority it is given must be of the cursor.                            *)
(*                                                                         *)
(* What is abstracted.  A predicate of a contract is the kind of event     *)
(* that makes it durable.  The five stored components of a task's          *)
(* authority are validity, permission and the state of its attempt.        *)
(***************************************************************************)
EXTENDS Integers, Sequences, FiniteSets

CONSTANTS
  JoinTasks,     \* identifiers of tasks
  Policies,      \* completion policies: the sets of predicates of the contracts
  MaxJoinEvents, \* bound: events of the run
  MaxJoinEdges,  \* bound: dependencies
  NoJoin

VARIABLES
  head,       \* the head of the run: its sequence and its event
  settled,    \* tasks whose resolution the run records
  evidence,   \* events authenticated while they were the head
  projection,  \* the tasks of the projection
  joinEdges,  \* its dependencies
  join,       \* the latest evaluation, if it found its task ready
  authorized  \* the authorizations the scheduler gave

joinVars == <<head, settled, evidence, projection, joinEdges, join, authorized>>

-----------------------------------------------------------------------------
TaskResolutions == {"succeeded", "failed", "cancelled"}
Predicates == {"change", "receipt"}
RunEvents == [kind : Predicates \cup TaskResolutions, task : JoinTasks]

\* requires_success, requires_terminal, and an instance of requires_outcome.
AllowedOutcomes == {{"succeeded"}, TaskResolutions, {"failed"}}
DependencyEdges ==
  {e \in [from : JoinTasks, to : JoinTasks, allows : AllowedOutcomes,
          release : Predicates, propagates : BOOLEAN] :
     e.propagates => "cancelled" \in e.allows}

Unknown == [lifecycle |-> "unknown", policy |-> {}, durable |-> {}]
Known(t) == projection[t].lifecycle # "unknown"
EdgesTo(t) == {e \in joinEdges : e.to = t}

\* A set of dependencies orders its tasks iff every set of tasks has a first one.
Ordered(es) ==
  \A ts \in SUBSET JoinTasks \ {{}} : \E t \in ts : \A e \in es : e.to = t => e.from \notin ts

-----------------------------------------------------------------------------
\* The run: events of tasks it has; a task is resolved once (reduceOperationalState).
AppendToRun(event) ==
  /\ Known(event.task)
  /\ head.sequence < MaxJoinEvents
  /\ event.kind \in TaskResolutions => event.task \notin settled
  /\ head' = [sequence |-> head.sequence + 1, event |-> {event}]
  /\ settled' = settled \cup {t \in {event.task} : event.kind \in TaskResolutions}
  /\ UNCHANGED <<evidence, projection, joinEdges, join, authorized>>

\* issueStoredAuthorityEvent, issueStoredTaskResolvedCapability
IssueEvidence ==
  /\ evidence' = evidence \cup {[event |-> e, sequence |-> head.sequence] : e \in head.event}
  /\ UNCHANGED <<head, settled, projection, joinEdges, join, authorized>>

-----------------------------------------------------------------------------
AddTask(t, policy) ==
  /\ ~Known(t)
  /\ projection' = [projection EXCEPT ![t] = [lifecycle |-> "draft", policy |-> policy, durable |-> {}]]
  /\ UNCHANGED <<head, settled, evidence, joinEdges, join, authorized>>

\* Mutant: the dependent may be active already.
MayDependAlways(e) ==
  /\ projection[e.from].lifecycle = "draft" /\ Known(e.to)
  /\ e.release \in projection[e.from].policy

MayDepend(e) ==
  /\ projection[e.from].lifecycle = "draft" /\ projection[e.to].lifecycle = "draft"
  /\ e.release \in projection[e.from].policy

AddDependency(e) ==
  /\ Cardinality(joinEdges) < MaxJoinEdges
  /\ e \notin joinEdges /\ MayDepend(e)
  /\ Ordered(joinEdges \cup {e})
  /\ joinEdges' = joinEdges \cup {e}
  /\ UNCHANGED <<head, settled, evidence, projection, join, authorized>>

ActivateTask(t) ==
  /\ projection[t].lifecycle = "draft"
  /\ projection' = [projection EXCEPT ![t].lifecycle = "active"]
  /\ UNCHANGED <<head, settled, evidence, joinEdges, join, authorized>>

ProjectDurablePredicate(event) ==
  /\ projection[event.task].lifecycle = "active"
  /\ event.kind \in projection[event.task].policy
  /\ projection' = [projection EXCEPT ![event.task].durable = @ \cup {event.kind}]
  /\ UNCHANGED <<head, settled, evidence, joinEdges, join, authorized>>

\* Whatever the resolution, the completion policy must be satisfied.
ResolveProjectedTask(event) ==
  /\ event.kind \in TaskResolutions
  /\ projection[event.task].lifecycle = "active"
  /\ projection[event.task].policy \subseteq projection[event.task].durable
  /\ projection' = [projection EXCEPT ![event.task].lifecycle = event.kind]
  /\ UNCHANGED <<head, settled, evidence, joinEdges, join, authorized>>

-----------------------------------------------------------------------------
IsResolved(t) == projection[t].lifecycle \in TaskResolutions
IsUnknown(e) == ~IsResolved(e.from) \/ e.release \notin projection[e.from].durable
Allows(e) == projection[e.from].lifecycle \in e.allows
Cancels(e) == ~IsUnknown(e) /\ e.propagates /\ projection[e.from].lifecycle = "cancelled"

\* A contract that is not valid is not judged for permission.
Authorities ==
  [contractValid : {TRUE}, allowed : BOOLEAN, attempt : {"none", "live", "unknown_outcome"}]
    \cup [contractValid : {FALSE}, allowed : {FALSE}, attempt : {"none"}]

SchedulabilityOf(t, authority) ==
  CASE IsResolved(t) -> "terminal"
    [] projection[t].lifecycle = "draft" \/ ~authority.contractValid
         \/ (\E e \in EdgesTo(t) : Cancels(e)) -> "ineligible"
    [] OTHER ->
         CASE authority.attempt = "unknown_outcome" -> "unknown_outcome"
           [] authority.attempt = "live" -> "running"
           [] OTHER -> IF authority.allowed /\ \A e \in EdgesTo(t) : ~IsUnknown(e) /\ Allows(e)
                       THEN "ready" ELSE "blocked"

\* An evaluation that does not find its task ready authorizes nothing.
EvaluateTaskJoin(t, authority) ==
  /\ Known(t)
  /\ join' = IF SchedulabilityOf(t, authority) = "ready"
             THEN [task |-> t, cursor |-> head.sequence, on |-> EdgesTo(t)] ELSE NoJoin
  /\ UNCHANGED <<head, settled, evidence, projection, joinEdges, authorized>>

\* Only an accepted change at the very cursor of the join authorizes: the task's own
\* or one of a task it waits for.
SelectReadyTask(accepted) ==
  /\ join # NoJoin
  /\ accepted.event.kind = "change" /\ accepted.sequence = join.cursor
  /\ accepted.event.task \in {join.task} \cup {e.from : e \in join.on}
  /\ \A g \in authorized : ~(g.task = join.task /\ g.cursor = join.cursor)
  /\ authorized' = authorized \cup {[task |-> join.task, cursor |-> join.cursor, on |-> join.on]}
  /\ UNCHANGED <<head, settled, evidence, projection, joinEdges, join>>

-----------------------------------------------------------------------------
JoinInit ==
  /\ head = [sequence |-> 0, event |-> {}] /\ settled = {} /\ evidence = {}
  /\ projection = [t \in JoinTasks |-> Unknown]
  /\ joinEdges = {}
  /\ join = NoJoin
  /\ authorized = {}

JoinNext ==
  \/ \E event \in RunEvents : AppendToRun(event)
  \/ IssueEvidence
  \/ \E t \in JoinTasks :
       \/ \E policy \in Policies : AddTask(t, policy)
       \/ ActivateTask(t)
       \/ \E authority \in Authorities : EvaluateTaskJoin(t, authority)
  \/ \E e \in DependencyEdges : AddDependency(e)
  \/ \E c \in evidence :
       ProjectDurablePredicate(c.event) \/ ResolveProjectedTask(c.event) \/ SelectReadyTask(c)

JoinSpec == JoinInit /\ [][JoinNext]_joinVars

JoinTypeOK ==
  /\ head \in [sequence : 0 .. MaxJoinEvents, event : SUBSET RunEvents]
  /\ \A t \in JoinTasks : projection[t].durable \subseteq projection[t].policy
  /\ joinEdges \subseteq DependencyEdges /\ Ordered(joinEdges)

\* A task the scheduler authorized once waits for nothing more and for nothing else:
\* whatever is added, projected or resolved later, out of order, and however stale the
\* join was when it was used, its dependencies are the ones it was judged by, released
\* and with an outcome they allow (addDependency l. 151, resolveProjectedTask l. 175).
JoinIsStable ==
  \A g \in authorized :
    /\ EdgesTo(g.task) = g.on
    /\ \A e \in g.on : ~IsUnknown(e) /\ Allows(e)
=============================================================================
