------------------------------ MODULE TaskLedger ------------------------------
(***************************************************************************)
(* The ledger of tasks, plans, attempts and workflows that replay builds   *)
(* from a run's events: reduceTaskExecutionV1 of packages/domain/src/      *)
(* execution.ts.  An action is an event the reducer accepts.               *)
(*                                                                         *)
(* What is abstracted.  One task is planned; a plan is a number, and its   *)
(* items are a chain.  Contracts never change, so that a graph digest is   *)
(* the tasks and edges of the closure.  An attempt is planned, handed off  *)
(* (the states of reduceDispatch from the launch intent on), has succeeded *)
(* or has ended otherwise.  The single issuer, the profiles and the expiry *)
(* of an authorization are left out, and so are dependencies that require  *)
(* one of several outcomes and an event that repeats another and changes   *)
(* nothing.  The events the service appends together (service.ts) are one  *)
(* action, and the run starts with its work tasks created, which replay    *)
(* needs before anything else about them.                                  *)
(***************************************************************************)
EXTENDS Integers, Sequences, FiniteSets

CONSTANTS
  OtherTasks,   \* work tasks that are not planned
  Workflows,    \* identifiers of workflows
  MaxPlans,     \* bound: plans
  MaxItems,     \* bound: items of a plan
  MaxTries,     \* bound: attempts of a task
  MaxEdges,     \* bound: dependencies a request adds
  Source        \* the task that is planned

VARIABLES
  lifecycles,   \* of each task; "absent" before its contract
  edges,        \* dependencies, with their type
  tries,        \* the attempts of each task, in order
  plans,        \* plans proposed or revised
  planned,      \* what each planner's attempt led to
  latestPlan,   \* latestPlansByTask of the source
  adopted,      \* plans adopted
  flows         \* the workflows

\* parseTaskPlanOutputV1 refuses a plan without items.
ASSUME LedgerAssumption == MaxItems \in Nat \ {0}

ledgerVars == <<lifecycles, edges, tries, plans, planned, latestPlan, adopted, flows>>

-----------------------------------------------------------------------------
PlanIds == 1 .. MaxPlans
Item(plan, i) == <<"item", plan, i>>
Items(plan) == {Item(plan, i) : i \in 1 .. MaxItems}
Planner(w) == <<"planner", w, 0>>
Planners == {Planner(w) : w \in Workflows}
Tasks == OtherTasks \cup {Source} \cup Planners \cup UNION {Items(p) : p \in PlanIds}

Resolutions == {"succeeded", "failed", "cancelled"}
EdgeTypes == {"requires_success", "requires_terminal"}
Edges == [from : Tasks, to : Tasks, type : EdgeTypes]
Edge(source, dependent, type) == [from |-> source, to |-> dependent, type |-> type]

\* derivePlanAdoptionV1: the source waits for the last item, each item for the one before.
AdoptedEdges(plan) ==
  {Edge(Item(plan, i), Item(plan, i + 1), "requires_success") : i \in 1 .. MaxItems - 1}
  \cup {Edge(Item(plan, MaxItems), Source, "requires_success")}

Created == {t \in Tasks : lifecycles[t] # "absent"}

\* taskDependencyClosureV1: a set with which visit has nothing to go on to.
Closed(es, S) == \A e \in es : e.to \in S => e.from \in S

\* The tasks a target waits for, itself among them: the least such set.
Before(es, ts) ==
  LET sources == {e.from : e \in es}
  IN {t \in ts \cup sources :
        \A S \in SUBSET sources : Closed(es, ts \cup S) => t \in ts \cup S}
Closure(target) == Before(edges, {target})

\* taskWorkflowGraphDigestV1
GraphOf(es, target) ==
  LET ts == Before(es, {target}) IN [tasks |-> ts, edges |-> {e \in es : e.from \in ts /\ e.to \in ts}]
Graph(target) == GraphOf(edges, target)

\* assertAcyclic: no task waits for itself.
Acyclic(es) == \A e \in es : e.to \notin Before(es, {e.from})

TaskGraphs == [tasks : SUBSET Tasks, edges : SUBSET Edges]
Authorizations ==
  [state : {"none", "running", "succeeded", "stopped"},
   kind : {"none", "dispatch", "execute", "breakdown"}, target : Tasks, auto : BOOLEAN,
   parent : SUBSET Workflows, graph : SUBSET TaskGraphs]
NoFlow == [state |-> "none", kind |-> "none", target |-> Source, auto |-> FALSE,
           parent |-> {}, graph |-> {}]
IsRunning(w) == flows[w].state = "running"
IsLive(try) == try \in {"planned", "handed_off"}
HasLiveTry(t) == \E i \in 1 .. Len(tries[t]) : IsLive(tries[t][i])
IsPlanner(t) == t \in Planners

\* Mutant: a workflow that awaits its plan does not hold its graph back, and
\* neither does one that has it.
MutableUnderWorkflows(t, mayAwaitPlan) == lifecycles[t] = "draft" /\ tries[t] = <<>>

\* Mutant: only the lifecycle is looked at when the dependency is added.
MutableWhenActive(t, mayAwaitPlan) ==
  /\ lifecycles[t] \in {"draft", "active"}
  /\ \A w \in Workflows :
       IsRunning(w) /\ (flows[w].graph # {} \/ ~mayAwaitPlan) => t \notin Closure(flows[w].target)

\* mutable: the task is a draft no attempt was prepared for, and no running workflow
\* has it in its graph; adoption may be into the workflow that awaits a plan.
Mutable(t, mayAwaitPlan) ==
  /\ lifecycles[t] = "draft" /\ tries[t] = <<>>
  /\ \A w \in Workflows :
       IsRunning(w) /\ (flows[w].graph # {} \/ ~mayAwaitPlan) => t \notin Closure(flows[w].target)

-----------------------------------------------------------------------------
TaskActivated(t) ==
  /\ lifecycles[t] = "draft"
  /\ lifecycles' = [lifecycles EXCEPT ![t] = "active"]
  /\ UNCHANGED <<edges, tries, plans, planned, latestPlan, adopted, flows>>

DependencyAdded(e) ==
  /\ {e.from, e.to} \subseteq Created
  /\ Mutable(e.to, FALSE)
  /\ e \notin edges /\ Acyclic(edges \cup {e})
  /\ edges' = edges \cup {e}
  /\ UNCHANGED <<lifecycles, tries, plans, planned, latestPlan, adopted, flows>>

-----------------------------------------------------------------------------
\* assertTaskWorkflowLaunchV1
ParentAllows(flow) ==
  \A p \in flow.parent :
    /\ IsRunning(p) /\ flows[p].kind = "execute" /\ flows[p].auto
    /\ flows[p].target = Source /\ lifecycles[Source] # "cancelled"
MayLaunch(w, t) ==
  /\ IsRunning(w)
  /\ lifecycles[flows[w].target] # "cancelled"
  /\ flows[w].kind = "breakdown" => lifecycles[Source] # "cancelled"
  /\ flows[w].kind # "execute" => t = flows[w].target
  /\ flows[w].graph = {Graph(flows[w].target)} /\ t \in Closure(flows[w].target)
  /\ ParentAllows(flows[w])

\* dependencySatisfied
Satisfied(e) ==
  CASE e.type = "requires_success" -> lifecycles[e.from] = "succeeded"
    [] e.type = "requires_terminal" -> lifecycles[e.from] \in Resolutions


TaskExecutionPrepared(w, t) ==
  /\ lifecycles[t] = "active" /\ Len(tries[t]) < MaxTries
  /\ IsPlanner(t) = (flows[w].kind = "breakdown")
  /\ ~HasLiveTry(t)
  /\ MayLaunch(w, t)
  /\ \A e \in edges : e.to = t => Satisfied(e)
  /\ tries' = [tries EXCEPT ![t] = Append(@, "planned")]
  /\ UNCHANGED <<lifecycles, edges, plans, planned, latestPlan, adopted, flows>>

Becomes(t, i, try) ==
  /\ tries' = [tries EXCEPT ![t][i] = try]
  /\ UNCHANGED <<lifecycles, edges, plans, planned, latestPlan, adopted, flows>>

TaskExecutionTransition(t, i) == tries[t][i] = "planned" /\ Becomes(t, i, "handed_off")
TaskExecutionAborted(t, i) == tries[t][i] = "planned" /\ Becomes(t, i, "ended")
TaskExecutionReceipt(t, i, outcome) == tries[t][i] = "handed_off" /\ Becomes(t, i, outcome)

\* resolveTask with no retry permitted: a success, or the end of every attempt.
MayResolve(t, resolution) ==
  LET succeeded == \E i \in 1 .. Len(tries[t]) : tries[t][i] = "succeeded"
  IN /\ succeeded => resolution = "succeeded"
     /\ ~succeeded => resolution # "succeeded" /\ ~HasLiveTry(t)

TaskResolved(t, resolution) ==
  /\ MayResolve(t, resolution)
  /\ lifecycles[t] = "active" \/ (lifecycles[t] = "draft" /\ resolution = "cancelled")
  /\ lifecycles' = [lifecycles EXCEPT ![t] = resolution]
  /\ UNCHANGED <<edges, tries, plans, planned, latestPlan, adopted, flows>>

-----------------------------------------------------------------------------
TaskPlanProposed(t, plan) ==
  /\ lifecycles[t] = "succeeded"
  /\ planned[t] = "nothing"
  /\ plans' = plans \cup {plan}
  /\ planned' = [planned EXCEPT ![t] = "plan"]
  /\ latestPlan' = plan
  /\ UNCHANGED <<lifecycles, edges, tries, adopted, flows>>

TaskPlanRejected(t) ==
  /\ lifecycles[t] = "succeeded"
  /\ planned[t] = "nothing"
  /\ planned' = [planned EXCEPT ![t] = "rejection"]
  /\ UNCHANGED <<lifecycles, edges, tries, plans, latestPlan, adopted, flows>>

\* assertTaskPlanRevisionV1
TaskPlanRevised(base, plan) ==
  /\ base \in plans /\ latestPlan = base
  /\ adopted = {}
  /\ lifecycles[Source] = "draft" /\ tries[Source] = <<>>
  /\ \A w \in Workflows :
       IsRunning(w) => /\ ~(flows[w].kind = "breakdown" \/ flows[w].auto)
                       /\ Source \notin Closure(flows[w].target)
  /\ plans' = plans \cup {plan}
  /\ latestPlan' = plan
  /\ UNCHANGED <<lifecycles, edges, tries, planned, adopted, flows>>

\* Its items become drafts, and the source waits for them.  A workflow that awaits
\* its plan is bound by the append that adopts it (TaskWorkflowPlanBoundV1).
TaskPlanAdopted(plan, binds) ==
  LET es == edges \cup AdoptedEdges(plan)
  IN /\ plan \in plans /\ adopted = {}
     /\ Mutable(Source, TRUE)
     /\ \A t \in Items(plan) : lifecycles[t] = "absent"
     /\ Acyclic(es)
     /\ lifecycles' = [t \in Tasks |-> IF t \in Items(plan) THEN "draft" ELSE lifecycles[t]]
     /\ edges' = es
     /\ adopted' = {plan}
     /\ flows' = [w \in Workflows |->
                    IF w \in binds THEN [flows[w] EXCEPT !.graph = {GraphOf(es, Source)}]
                    ELSE flows[w]]
     /\ UNCHANGED <<tries, plans, planned, latestPlan>>

\* By request, when no workflow runs for the source; or by the one that awaits it.
AdoptedByRequest(plan) ==
  /\ \A w \in Workflows : IsRunning(w) => flows[w].target # Source
  /\ TaskPlanAdopted(plan, {})
AdoptedByWorkflow(w, plan) ==
  /\ IsRunning(w) /\ flows[w].auto /\ flows[w].graph = {}
  /\ TaskPlanAdopted(plan, {w})

-----------------------------------------------------------------------------
Authorization(kind, target, auto, parent, graph) ==
  [state |-> "running", kind |-> kind, target |-> target, auto |-> auto,
   parent |-> parent, graph |-> graph]

\* A dispatch also activates its target, which must be ready for it.  An automatic
\* execution awaits its plan instead of naming its graph.
TaskWorkflowStarted(w, flow) ==
  /\ flows[w] = NoFlow
  /\ lifecycles[flow.target] \in {"draft", "active"}
  /\ \A v \in Workflows : IsRunning(v) => flows[v].target # flow.target
  /\ flow.kind = "dispatch" => \A e \in edges : e.to = flow.target => Satisfied(e)
  /\ lifecycles' = IF flow.kind = "dispatch"
                   THEN [lifecycles EXCEPT ![flow.target] = "active"] ELSE lifecycles
  /\ flows' = [flows EXCEPT ![w] = flow]
  /\ UNCHANGED <<edges, tries, plans, planned, latestPlan, adopted>>

WorkAuthorizations ==
  {Authorization("dispatch", t, FALSE, {}, {Graph(t)}) : t \in Created \ Planners}
  \cup {Authorization("execute", t, FALSE, {}, {Graph(t)}) : t \in Created \ Planners}
  \cup {Authorization("execute", Source, TRUE, {}, {})}

\* A breakdown comes with its planner, created and activated, whose graph is itself.
BreakdownStarted(w, parent) ==
  LET planner == Planner(w)
      graph == [tasks |-> {planner}, edges |-> {}]
      flow == Authorization("breakdown", planner, FALSE, parent, {graph})
  IN /\ flows[w] = NoFlow /\ lifecycles[planner] = "absent"
     /\ ParentAllows(flow)
     /\ lifecycles' = [lifecycles EXCEPT ![planner] = "active"]
     /\ flows' = [flows EXCEPT ![w] = flow]
     /\ UNCHANGED <<edges, tries, plans, planned, latestPlan, adopted>>

TaskWorkflowStopped(w, state) ==
  /\ IsRunning(w)
  /\ state = "succeeded" => lifecycles[flows[w].target] = "succeeded"
  /\ flows' = [flows EXCEPT ![w].state = state]
  /\ UNCHANGED <<lifecycles, edges, tries, plans, planned, latestPlan, adopted>>

-----------------------------------------------------------------------------
LedgerInit ==
  /\ lifecycles = [t \in Tasks |-> IF t \in OtherTasks \cup {Source} THEN "draft" ELSE "absent"]
  /\ edges = {}
  /\ tries = [t \in Tasks |-> <<>>]
  /\ plans = {} /\ latestPlan = 0 /\ adopted = {}
  /\ planned = [t \in Planners |-> "nothing"]
  /\ flows = [w \in Workflows |-> NoFlow]

Requested == edges \ UNION {AdoptedEdges(p) : p \in adopted}

TaskEvent ==
  \E t \in Tasks :
    \/ TaskActivated(t)
    \/ \E w \in Workflows : TaskExecutionPrepared(w, t)
    \/ \E r \in Resolutions : TaskResolved(t, r)
    \/ \E i \in 1 .. Len(tries[t]) :
         \/ TaskExecutionTransition(t, i) \/ TaskExecutionAborted(t, i)
         \/ \E o \in {"succeeded", "ended"} : TaskExecutionReceipt(t, i, o)
    \/ \E u \in Tasks \ Planners, type \in EdgeTypes :
         t # u /\ Cardinality(Requested) < MaxEdges /\ DependencyAdded(Edge(u, t, type))

PlanEvent ==
  \E p \in PlanIds :
    \/ \E t \in Planners : TaskPlanProposed(t, p) \/ TaskPlanRejected(t)
    \/ \E q \in PlanIds \ {p} : TaskPlanRevised(q, p)
    \/ AdoptedByRequest(p)
    \/ \E w \in Workflows : AdoptedByWorkflow(w, p)

WorkflowEvent ==
  \E w \in Workflows :
    \/ \E flow \in WorkAuthorizations : TaskWorkflowStarted(w, flow)
    \/ \E parent \in {{}} \cup {{v} : v \in Workflows} : BreakdownStarted(w, parent)
    \/ \E s \in {"succeeded", "stopped"} : TaskWorkflowStopped(w, s)

LedgerNext == TaskEvent \/ PlanEvent \/ WorkflowEvent

LedgerSpec == LedgerInit /\ [][LedgerNext]_ledgerVars

-----------------------------------------------------------------------------
LedgerTypeOK ==
  /\ lifecycles \in [Tasks -> {"absent", "draft", "active"} \cup Resolutions]
  /\ edges \subseteq Edges
  /\ tries \in [Tasks -> Seq({"planned", "handed_off", "succeeded", "ended"})]
  /\ flows \in [Workflows -> Authorizations]
  /\ plans \subseteq PlanIds /\ latestPlan \in {0} \cup plans /\ adopted \subseteq plans

\* The graph a running workflow was authorized with is the one it executes (l. 198
\* never refuses WORKFLOW_GRAPH_CHANGED while it runs): no request, no adoption and
\* no other workflow's plan changes what its target waits for.
BoundGraphsHold ==
  \A w \in Workflows :
    IsRunning(w) /\ flows[w].graph # {} => flows[w].graph = {Graph(flows[w].target)}

\* Work starts only after all it waits for, whatever was adopted or added since
\* (mutable, l. 174), and a task that is resolved has no attempt that still runs.
WorkIsReady ==
  \A t \in Tasks :
    /\ tries[t] # <<>> => \A e \in edges : e.to = t => Satisfied(e)
    /\ lifecycles[t] \in Resolutions => ~HasLiveTry(t)
=============================================================================
