--------------------------- MODULE TaskDispatchProofs ---------------------------
(***************************************************************************)
(* Proofs about the ledger of tasks (TaskLedger) and the dispatch of an    *)
(* attempt (DispatchAuthority).  For any tasks, plans and workflows, a     *)
(* running workflow executes the graph it was authorized with, and work    *)
(* starts only after all it waits for.  For any number of processes and    *)
(* handles and any clock, the provider is called under the stored lease    *)
(* only, and what is stored is never taken back.                           *)
(***************************************************************************)
EXTENDS TaskLedger, DispatchAuthority, TLAPS

-----------------------------------------------------------------------------
(* The ledger of tasks                                                     *)

\* The lifecycles of a task that may have attempts.
Started == {"active"} \cup Resolutions

\* Dependencies join tasks that have a contract.
EdgesJoinCreated == \A e \in edges : e.from \in Created /\ e.to \in Created
TriedAreStarted == \A t \in Tasks : tries[t] # <<>> => lifecycles[t] \in Started
TriedAreReady ==
  \A t \in Tasks : tries[t] # <<>> => \A e \in edges : e.to = t => Satisfied(e)

\* An automatic execution is of the source, and a graph that is bound holds.
FlowFits(w) ==
  /\ flows[w].auto => flows[w].target = Source
  /\ IsRunning(w) => flows[w].target \in Created
  /\ IsRunning(w) /\ flows[w].graph # {} => flows[w].graph = {Graph(flows[w].target)}

LedgerInv ==
  /\ LedgerTypeOK
  /\ EdgesJoinCreated /\ TriedAreStarted /\ TriedAreReady
  /\ \A w \in Workflows : FlowFits(w)

(* What visit reaches holds where it started and has nothing to go on to.  *)
LEMMA BeforeIsClosed ==
  ASSUME NEW es, NEW ts
  PROVE  ts \subseteq Before(es, ts) /\ Closed(es, Before(es, ts))
<1> DEFINE sources == {e.from : e \in es}
<1>1. ts \subseteq Before(es, ts)
  BY DEF Before
<1>2. ASSUME NEW e \in es, e.to \in Before(es, ts)
      PROVE  e.from \in Before(es, ts)
  <2>1. e.from \in sources
    OBVIOUS
  <2>2. ASSUME NEW S \in SUBSET sources, Closed(es, ts \cup S)
        PROVE  e.from \in ts \cup S
    <3>1. e.to \in ts \cup S
      BY <1>2, <2>2 DEF Before
    <3> QED
      BY <2>2, <3>1 DEF Closed
  <2> QED
    BY <2>1, <2>2 DEF Before
<1> QED
  BY <1>1, <1>2 DEF Closed

(* It is inside every such set.                                            *)
LEMMA BeforeIsLeast ==
  ASSUME NEW es, NEW ts, NEW C, ts \subseteq C, Closed(es, C)
  PROVE  Before(es, ts) \subseteq C
<1> DEFINE sources == {e.from : e \in es}
           S == C \cap sources
<1>1. S \in SUBSET sources /\ ts \cup S \subseteq C
  OBVIOUS
<1>2. Closed(es, ts \cup S)
  <2> SUFFICES ASSUME NEW e \in es, e.to \in ts \cup S
               PROVE  e.from \in ts \cup S
    BY DEF Closed
  <2>1. e.from \in C /\ e.from \in sources
    BY <1>1 DEF Closed
  <2> QED
    BY <2>1
<1>3. Before(es, ts) \subseteq ts \cup S
  BY <1>1, <1>2 DEF Before
<1> QED
  BY <1>1, <1>3

(* A dependency whose dependent a target does not wait for leaves what the *)
(* target waits for, and so its graph digest, as it was.                   *)
LEMMA GraphStays ==
  ASSUME NEW es, NEW fs, NEW t, es \subseteq fs,
         \A e \in fs \ es : e.to \notin Before(es, {t})
  PROVE  Before(fs, {t}) = Before(es, {t}) /\ GraphOf(fs, t) = GraphOf(es, t)
<1>1. Closed(fs, Before(es, {t}))
  BY BeforeIsClosed DEF Closed
<1>2. Before(fs, {t}) \subseteq Before(es, {t})
  BY <1>1, BeforeIsClosed, BeforeIsLeast
<1>3. Closed(es, Before(fs, {t})) /\ {t} \subseteq Before(fs, {t})
  BY BeforeIsClosed DEF Closed
<1>4. Before(es, {t}) \subseteq Before(fs, {t})
  BY <1>3, BeforeIsLeast
<1>5. Before(fs, {t}) = Before(es, {t})
  BY <1>2, <1>4
<1>6. {e \in fs : e.from \in Before(es, {t}) /\ e.to \in Before(es, {t})}
        = {e \in es : e.from \in Before(es, {t}) /\ e.to \in Before(es, {t})}
  OBVIOUS
<1> QED
  BY <1>5, <1>6 DEF GraphOf

(* A created task waits for created tasks only.                            *)
LEMMA ClosureIsCreated ==
  ASSUME EdgesJoinCreated, NEW t \in Created
  PROVE  Closure(t) \subseteq Created
<1>1. Closed(edges, Created)
  BY DEF Closed, EdgesJoinCreated
<1> QED
  BY <1>1, BeforeIsLeast DEF Closure

(* A graph has tasks and edges.                                            *)
LEMMA GraphIsTyped ==
  ASSUME NEW es \in SUBSET Edges, NEW t \in Tasks
  PROVE  GraphOf(es, t) \in TaskGraphs
<1>1. Closed(es, Tasks)
  BY DEF Closed, Edges
<1>2. Before(es, {t}) \subseteq Tasks
  BY <1>1, BeforeIsLeast
<1> QED
  BY <1>2 DEF GraphOf, TaskGraphs

(* The dependencies a plan adds lead from its items to items or the source *)
(* (derivePlanAdoptionV1).                                                 *)
LEMMA ItemsAreTasks ==
  ASSUME NEW p \in PlanIds
  PROVE  /\ Items(p) \subseteq Tasks
         /\ AdoptedEdges(p) \subseteq Edges
         /\ \A e \in AdoptedEdges(p) : e.from \in Items(p) /\ e.to \in Items(p) \cup {Source}
<1>1. Items(p) \subseteq Tasks /\ Source \in Tasks
  BY DEF Tasks
<1>2. ASSUME NEW i \in 1 .. MaxItems
      PROVE  Item(p, i) \in Items(p)
  BY DEF Items
<1>3. ASSUME NEW e \in AdoptedEdges(p)
      PROVE  e \in Edges /\ e.from \in Items(p) /\ e.to \in Items(p) \cup {Source}
  <2>1. CASE \E i \in 1 .. MaxItems - 1 : e = Edge(Item(p, i), Item(p, i + 1), "requires_success")
    <3>1. PICK i \in 1 .. MaxItems - 1 : e = Edge(Item(p, i), Item(p, i + 1), "requires_success")
      BY <2>1
    <3>2. i \in 1 .. MaxItems /\ i + 1 \in 1 .. MaxItems
      BY LedgerAssumption
    <3>3. Item(p, i) \in Items(p) /\ Item(p, i + 1) \in Items(p)
      BY <1>2, <3>2
    <3> HIDE DEF Items, Tasks
    <3> QED
      BY <1>1, <3>1, <3>3 DEF Edge, Edges, EdgeTypes
  <2>2. CASE e = Edge(Item(p, MaxItems), Source, "requires_success")
    <3>1. Item(p, MaxItems) \in Items(p)
      BY <1>2, LedgerAssumption
    <3> QED
      BY <1>1, <2>2, <3>1 DEF Edge, Edges, EdgeTypes
  <2> QED
    BY <2>1, <2>2 DEF AdoptedEdges
<1> QED
  BY <1>1, <1>3

\* What every event keeps of the lifecycles.
KeepsLifecycles ==
  \A t \in Tasks :
    /\ t \in Created => t \in Created'
    /\ lifecycles[t] \in Started => lifecycles'[t] \in Started
    /\ lifecycles[t] \in Resolutions => lifecycles'[t] = lifecycles[t]

(* Edges join created tasks when none is added.                            *)
LEMMA EdgesStayJoined ==
  ASSUME LedgerInv, KeepsLifecycles, edges' = edges
  PROVE  EdgesJoinCreated'
BY DEF EdgesJoinCreated, KeepsLifecycles, Created, LedgerInv

(* Work that was started stays ready: what it waits for stays resolved, and *)
(* it waits for nothing new.                                               *)
LEMMA ReadyStays ==
  ASSUME LedgerInv, KeepsLifecycles,
         \A t \in Tasks : tries'[t] = tries[t],
         \A e \in edges' \ edges : tries[e.to] = <<>>
  PROVE  TriedAreReady'
<1> SUFFICES ASSUME NEW t \in Tasks, tries'[t] # <<>>, NEW e \in edges', e.to = t
             PROVE  Satisfied(e)'
  BY DEF TriedAreReady
<1>1. e \in edges /\ tries[t] # <<>>
  OBVIOUS
<1>2. Satisfied(e) /\ e \in Edges
  BY <1>1 DEF LedgerInv, TriedAreReady, LedgerTypeOK
<1>3. lifecycles[e.from] \in Resolutions /\ e.from \in Tasks
  BY <1>2 DEF Satisfied, Edges, EdgeTypes, Resolutions
<1>4. lifecycles'[e.from] = lifecycles[e.from]
  BY <1>3 DEF KeepsLifecycles
<1> QED
  BY <1>2, <1>4 DEF Satisfied, Edges, EdgeTypes

(* A workflow that does not change keeps its graph when no task its target *)
(* waits for gets a dependency.                                            *)
LEMMA FlowStays ==
  ASSUME LedgerInv, KeepsLifecycles, NEW w \in Workflows, edges \subseteq edges',
         flows'[w] = flows[w],
         IsRunning(w) => \A e \in edges' \ edges : e.to \notin Closure(flows[w].target)
  PROVE  FlowFits(w)'
<1> DEFINE t == flows[w].target
<1>1. FlowFits(w) /\ t \in Tasks
  BY DEF LedgerInv, LedgerTypeOK, Authorizations
<1>2. IsRunning(w)' <=> IsRunning(w)
  BY DEF IsRunning
<1>3. t \in Created => t \in Created'
  BY <1>1 DEF KeepsLifecycles
<1>4. ASSUME IsRunning(w)
      PROVE  GraphOf(edges', t) = Graph(t)
  BY <1>4, GraphStays DEF Graph, Closure
<1> QED
  BY <1>1, <1>2, <1>3, <1>4 DEF FlowFits, Graph

(* No workflow loses its graph when no dependency is added.                *)
LEMMA FlowsStay ==
  ASSUME LedgerInv, KeepsLifecycles, edges' = edges, flows' = flows
  PROVE  \A w \in Workflows : FlowFits(w)'
BY FlowStays

(* TaskActivatedV1.                                                        *)
LEMMA ActivatedKeeps ==
  ASSUME LedgerInv, NEW t \in Tasks, TaskActivated(t)
  PROVE  LedgerInv'
<1>1. LedgerTypeOK'
  BY DEF TaskActivated, LedgerInv, LedgerTypeOK
<1>2. KeepsLifecycles /\ TriedAreStarted'
  BY DEF TaskActivated, LedgerInv, LedgerTypeOK, KeepsLifecycles, Started, Resolutions, Created,
     TriedAreStarted
<1> QED
  BY <1>1, <1>2, FlowsStay, ReadyStays, EdgesStayJoined DEF TaskActivated, LedgerInv

(* TaskResolvedV2.                                                         *)
LEMMA ResolvedKeeps ==
  ASSUME LedgerInv, NEW t \in Tasks, NEW r \in Resolutions, TaskResolved(t, r)
  PROVE  LedgerInv'
<1>1. LedgerTypeOK'
  BY DEF TaskResolved, LedgerInv, LedgerTypeOK
<1>2. KeepsLifecycles /\ TriedAreStarted'
  BY DEF TaskResolved, LedgerInv, LedgerTypeOK, KeepsLifecycles, Started, Resolutions, Created,
     TriedAreStarted
<1> QED
  BY <1>1, <1>2, FlowsStay, ReadyStays, EdgesStayJoined DEF TaskResolved, LedgerInv

(* DependencyAddedV1: what may change no workflow holds and nobody tried.  *)
LEMMA AddedKeeps ==
  ASSUME LedgerInv, NEW e \in Edges, DependencyAdded(e)
  PROVE  LedgerInv'
<1>1. LedgerTypeOK' /\ KeepsLifecycles
  BY DEF DependencyAdded, LedgerInv, LedgerTypeOK, KeepsLifecycles, Created
<1>2. TriedAreStarted' /\ EdgesJoinCreated'
  BY DEF DependencyAdded, LedgerInv, TriedAreStarted, EdgesJoinCreated, Created
<1>3. TriedAreReady'
  BY <1>1, ReadyStays DEF DependencyAdded, Mutable
<1>4. ASSUME NEW w \in Workflows
      PROVE  FlowFits(w)'
  BY <1>1, FlowStays DEF DependencyAdded, Mutable
<1> QED
  BY <1>1, <1>2, <1>3, <1>4 DEF LedgerInv

(* TaskExecutionPreparedV1.                                                *)
LEMMA PreparedKeeps ==
  ASSUME LedgerInv, NEW t \in Tasks, NEW w \in Workflows, TaskExecutionPrepared(w, t)
  PROVE  LedgerInv'
<1>1. LedgerTypeOK' /\ KeepsLifecycles
  BY DEF TaskExecutionPrepared, LedgerInv, LedgerTypeOK, KeepsLifecycles, Created
<1>2. \A u \in Tasks : u # t => tries'[u] = tries[u]
  BY DEF TaskExecutionPrepared, LedgerInv, LedgerTypeOK
<1>3. TriedAreStarted'
  BY <1>2 DEF TaskExecutionPrepared, LedgerInv, TriedAreStarted, Started
<1>4. TriedAreReady'
  BY <1>2 DEF TaskExecutionPrepared, LedgerInv, TriedAreReady, Satisfied
<1> QED
  BY <1>1, <1>3, <1>4, FlowsStay, EdgesStayJoined DEF TaskExecutionPrepared, LedgerInv

(* The events of an attempt.                                               *)
LEMMA BecomesKeeps ==
  ASSUME LedgerInv, NEW t \in Tasks, NEW i \in 1 .. Len(tries[t]),
         NEW try \in {"planned", "handed_off", "succeeded", "ended"}, Becomes(t, i, try)
  PROVE  LedgerInv'
<1>1. /\ tries'[t] \in Seq({"planned", "handed_off", "succeeded", "ended"})
      /\ tries[t] # <<>>
      /\ \A u \in Tasks : u # t => tries'[u] = tries[u]
  BY DEF Becomes, LedgerInv, LedgerTypeOK
<1>2. LedgerTypeOK' /\ KeepsLifecycles
  BY <1>1 DEF Becomes, LedgerInv, LedgerTypeOK, KeepsLifecycles, Created
<1>3. \A u \in Tasks : tries'[u] # <<>> => tries[u] # <<>>
  BY <1>1
<1>4. TriedAreStarted'
  BY <1>3 DEF Becomes, LedgerInv, TriedAreStarted
<1>5. TriedAreReady'
  BY <1>3 DEF Becomes, LedgerInv, TriedAreReady, Satisfied
<1> QED
  BY <1>2, <1>4, <1>5, FlowsStay, EdgesStayJoined DEF Becomes, LedgerInv

(* Plans that are proposed, rejected and revised.                          *)
LEMMA PlannedKeeps ==
  ASSUME LedgerInv, NEW p \in PlanIds,
         \/ \E t \in Planners : TaskPlanProposed(t, p) \/ TaskPlanRejected(t)
         \/ \E q \in PlanIds : TaskPlanRevised(q, p)
  PROVE  LedgerInv'
<1>1. UNCHANGED <<lifecycles, edges, tries, adopted, flows>>
  BY DEF TaskPlanProposed, TaskPlanRejected, TaskPlanRevised
<1>2. plans' \subseteq PlanIds /\ latestPlan' \in {0} \cup plans' /\ plans \subseteq plans'
  BY DEF TaskPlanProposed, TaskPlanRejected, TaskPlanRevised, LedgerInv, LedgerTypeOK
<1>3. LedgerTypeOK' /\ KeepsLifecycles
  BY <1>1, <1>2 DEF LedgerInv, LedgerTypeOK, KeepsLifecycles, Created
<1>4. TriedAreStarted' /\ TriedAreReady'
  BY <1>1 DEF LedgerInv, TriedAreStarted, TriedAreReady, Satisfied
<1> QED
  BY <1>1, <1>3, <1>4, FlowsStay, EdgesStayJoined DEF LedgerInv

(* An authorization that is bound to a graph.                              *)
LEMMA BoundIsTyped ==
  ASSUME NEW f \in Authorizations, NEW g \in TaskGraphs
  PROVE  /\ [f EXCEPT !.graph = {g}] \in Authorizations
         /\ [f EXCEPT !.graph = {g}].graph = {g}
         /\ [f EXCEPT !.graph = {g}].target = f.target
         /\ [f EXCEPT !.graph = {g}].state = f.state
         /\ [f EXCEPT !.graph = {g}].auto = f.auto
BY DEF Authorizations

(* An authorization that names its graph.                                  *)
LEMMA NamedIsTyped ==
  ASSUME NEW kind \in {"dispatch", "execute", "breakdown"}, NEW t \in Tasks,
         NEW parent \in SUBSET Workflows, NEW g \in TaskGraphs,
         NEW flow, flow = [state |-> "running", kind |-> kind, target |-> t, auto |-> FALSE,
                           parent |-> parent, graph |-> {g}]
  PROVE  flow \in Authorizations /\ flow.target = t /\ flow.graph = {g} /\ ~flow.auto
BY DEF Authorizations

(* A workflow that stops.                                                  *)
LEMMA StoppedIsTyped ==
  ASSUME NEW f \in Authorizations, NEW s \in {"succeeded", "stopped"}
  PROVE  /\ [f EXCEPT !.state = s] \in Authorizations
         /\ [f EXCEPT !.state = s].target = f.target
         /\ [f EXCEPT !.state = s].state = s
         /\ [f EXCEPT !.state = s].auto = f.auto
BY DEF Authorizations

(* TaskPlanAdoptedV1: the items are new to every workflow, and those that  *)
(* have a graph do not wait for the source (mutable).                      *)
LEMMA AdoptedKeeps ==
  ASSUME LedgerInv, NEW p \in PlanIds, NEW binds \in SUBSET Workflows, TaskPlanAdopted(p, binds),
         \A w \in binds : IsRunning(w) /\ flows[w].auto /\ flows[w].graph = {}
  PROVE  LedgerInv'
<1> DEFINE es == edges \cup AdoptedEdges(p)
<1>1. /\ Items(p) \subseteq Tasks /\ AdoptedEdges(p) \subseteq Edges
      /\ \A e \in AdoptedEdges(p) : e.from \in Items(p) /\ e.to \in Items(p) \cup {Source}
      /\ Source \in Tasks
  BY ItemsAreTasks DEF Tasks
<1>2. /\ \A t \in Items(p) : lifecycles[t] = "absent"
      /\ Mutable(Source, TRUE)
      /\ lifecycles' = [t \in Tasks |-> IF t \in Items(p) THEN "draft" ELSE lifecycles[t]]
      /\ edges' = es /\ adopted' = {p} /\ p \in plans
      /\ flows' = [w \in Workflows |->
                     IF w \in binds THEN [flows[w] EXCEPT !.graph = {GraphOf(es, Source)}]
                     ELSE flows[w]]
      /\ UNCHANGED <<tries, plans, planned, latestPlan>>
  BY DEF TaskPlanAdopted
<1> HIDE DEF es
<1>3. es \subseteq Edges /\ edges \subseteq es
  BY <1>1 DEF es, LedgerInv, LedgerTypeOK
<1>4. GraphOf(es, Source) \in TaskGraphs
  BY <1>1, <1>3, GraphIsTyped
<1>5. flows' \in [Workflows -> Authorizations]
  BY <1>2, <1>4, BoundIsTyped DEF LedgerInv, LedgerTypeOK
<1>6. LedgerTypeOK' /\ KeepsLifecycles
  BY <1>1, <1>2, <1>3, <1>5 DEF LedgerInv, LedgerTypeOK, KeepsLifecycles, Created, Started, Resolutions
<1>7. /\ Source \in Created /\ Source \notin Items(p) /\ tries[Source] = <<>>
      /\ \A t \in Items(p) : t \notin Created /\ t \in Created' /\ tries[t] = <<>>
  BY <1>1, <1>2 DEF Mutable, Created, LedgerInv, TriedAreStarted, Started, Resolutions
<1>8. EdgesJoinCreated'
  BY <1>1, <1>2, <1>6, <1>7 DEF EdgesJoinCreated, LedgerInv, es, KeepsLifecycles, Created
<1>9. TriedAreStarted'
  BY <1>2, <1>6 DEF TriedAreStarted, LedgerInv, KeepsLifecycles
<1>10. TriedAreReady'
  BY <1>1, <1>2, <1>6, <1>7, ReadyStays DEF es
<1>11. ASSUME NEW w \in binds
       PROVE  FlowFits(w)'
  <2>1. flows[w].target = Source /\ flows[w] \in Authorizations
    BY DEF LedgerInv, FlowFits, LedgerTypeOK
  <2>2. /\ flows'[w].target = Source /\ flows'[w].state = flows[w].state
        /\ flows'[w].graph = {GraphOf(es, Source)}
    BY <1>2, <1>4, <2>1, BoundIsTyped
  <2>3. Graph(Source)' = GraphOf(es, Source)
    BY <1>2 DEF Graph
  <2>4. Source \in Created'
    BY <1>1, <1>6, <1>7 DEF KeepsLifecycles
  <2> QED
    BY <2>2, <2>3, <2>4 DEF FlowFits
<1>12. ASSUME NEW w \in Workflows \ binds
       PROVE  FlowFits(w)'
  <2>1. flows'[w] = flows[w] /\ FlowFits(w) /\ flows[w].target \in Tasks
    BY <1>2 DEF LedgerInv, LedgerTypeOK, Authorizations
  <2>2. CASE IsRunning(w) /\ flows[w].graph # {}
    <3>1. Closure(flows[w].target) \subseteq Created /\ Source \notin Closure(flows[w].target)
      BY <1>2, <2>1, <2>2, ClosureIsCreated DEF FlowFits, Mutable, LedgerInv
    <3>2. \A e \in es \ edges : e.to \notin Closure(flows[w].target)
      BY <1>1, <1>7, <3>1 DEF es
    <3> QED
      BY <1>2, <1>3, <1>6, <2>1, <3>2, FlowStays
  <2>3. CASE ~(IsRunning(w) /\ flows[w].graph # {})
    BY <1>6, <2>1, <2>3 DEF FlowFits, IsRunning, KeepsLifecycles
  <2> QED
    BY <2>2, <2>3
<1> QED
  BY <1>6, <1>8, <1>9, <1>10, <1>11, <1>12 DEF LedgerInv

(* TaskWorkflowStartedV1 of a dispatch or an execution.                    *)
LEMMA StartedKeeps ==
  ASSUME LedgerInv, NEW w \in Workflows, NEW flow \in WorkAuthorizations,
         TaskWorkflowStarted(w, flow)
  PROVE  LedgerInv'
<1>1. /\ flow \in Authorizations /\ flow.target \in Tasks
      /\ flow.auto => flow.target = Source
      /\ flow.graph # {} => flow.graph = {Graph(flow.target)}
  <2>1. CASE flow = Authorization("execute", Source, TRUE, {}, {})
    BY <2>1 DEF Authorization, Authorizations, Tasks
  <2>2. CASE flow # Authorization("execute", Source, TRUE, {}, {})
    <3>1. PICK t \in Created \ Planners :
            \/ flow = Authorization("dispatch", t, FALSE, {}, {Graph(t)})
            \/ flow = Authorization("execute", t, FALSE, {}, {Graph(t)})
      BY <2>2 DEF WorkAuthorizations
    <3>2. t \in Tasks /\ Graph(t) \in TaskGraphs
      BY GraphIsTyped DEF Created, Graph, LedgerInv, LedgerTypeOK
    <3>3. flow \in Authorizations /\ flow.target = t /\ flow.graph = {Graph(t)} /\ ~flow.auto
      BY <3>1, <3>2, NamedIsTyped DEF Authorization
    <3> QED
      BY <3>2, <3>3
  <2> QED
    BY <2>1, <2>2
<1>2. /\ edges' = edges /\ tries' = tries
      /\ UNCHANGED <<plans, planned, latestPlan, adopted>>
      /\ flows' = [flows EXCEPT ![w] = flow]
      /\ lifecycles[flow.target] \in {"draft", "active"}
      /\ lifecycles' = lifecycles \/ lifecycles' = [lifecycles EXCEPT ![flow.target] = "active"]
  BY DEF TaskWorkflowStarted
<1>3. LedgerTypeOK'
  BY <1>1, <1>2 DEF LedgerInv, LedgerTypeOK
<1>4. KeepsLifecycles /\ flow.target \in Created'
  BY <1>1, <1>2 DEF LedgerInv, LedgerTypeOK, KeepsLifecycles, Created, Started, Resolutions
<1>5. TriedAreStarted'
  BY <1>2, <1>4 DEF TriedAreStarted, LedgerInv, KeepsLifecycles
<1>6. TriedAreReady' /\ EdgesJoinCreated'
  BY <1>2, <1>4, ReadyStays, EdgesStayJoined
<1>7. ASSUME NEW v \in Workflows
      PROVE  FlowFits(v)'
  <2>1. CASE v = w
    <3>1. flows'[v] = flow /\ Graph(flow.target)' = Graph(flow.target)
      BY <1>2, <2>1 DEF Graph, LedgerInv, LedgerTypeOK
    <3> QED
      BY <1>1, <1>4, <3>1 DEF FlowFits
  <2>2. CASE v # w
    BY <1>2, <1>4, <2>2, FlowStays DEF LedgerInv, LedgerTypeOK
  <2> QED
    BY <2>1, <2>2
<1> QED
  BY <1>3, <1>5, <1>6, <1>7 DEF LedgerInv

(* The workflow of a planner: nothing waits for it yet.                    *)
LEMMA BreakdownKeeps ==
  ASSUME LedgerInv, NEW w \in Workflows, NEW parent \in SUBSET Workflows,
         BreakdownStarted(w, parent)
  PROVE  LedgerInv'
<1> DEFINE t == Planner(w)
           graph == [tasks |-> {t}, edges |-> {}]
           flow == Authorization("breakdown", t, FALSE, parent, {graph})
<1>1. /\ edges' = edges /\ tries' = tries
      /\ UNCHANGED <<plans, planned, latestPlan, adopted>>
      /\ flows' = [flows EXCEPT ![w] = flow]
      /\ lifecycles[t] = "absent"
      /\ lifecycles' = [lifecycles EXCEPT ![t] = "active"]
  BY DEF BreakdownStarted
<1>2. t \in Tasks
  BY DEF Tasks, Planners
<1>3. flow \in Authorizations /\ flow.target = t /\ flow.graph = {graph} /\ ~flow.auto
  <2>1. graph \in TaskGraphs
    BY <1>2 DEF TaskGraphs
  <2>2. flow = [state |-> "running", kind |-> "breakdown", target |-> t, auto |-> FALSE,
                parent |-> parent, graph |-> {graph}]
    BY DEF Authorization
  <2> HIDE DEF graph, t, flow
  <2> QED
    BY <1>2, <2>1, <2>2, NamedIsTyped
<1> HIDE DEF t, flow
<1>4. LedgerTypeOK'
  BY <1>1, <1>2, <1>3 DEF LedgerInv, LedgerTypeOK
<1>5. KeepsLifecycles /\ t \in Created'
  BY <1>1, <1>2 DEF LedgerInv, LedgerTypeOK, KeepsLifecycles, Created, Started, Resolutions
<1>6. TriedAreStarted'
  BY <1>1, <1>5 DEF TriedAreStarted, LedgerInv, KeepsLifecycles
<1>7. TriedAreReady' /\ EdgesJoinCreated'
  BY <1>1, <1>5, ReadyStays, EdgesStayJoined
<1>8. GraphOf(edges, t) = graph
  <2>1. \A e \in edges : e.to # t
    BY <1>1 DEF LedgerInv, EdgesJoinCreated, Created
  <2>2. Before(edges, {t}) = {t}
    <3>1. Closed(edges, {t})
      BY <2>1 DEF Closed
    <3> QED
      BY <3>1, BeforeIsClosed, BeforeIsLeast
  <2> QED
    BY <2>1, <2>2 DEF GraphOf
<1>9. ASSUME NEW v \in Workflows
      PROVE  FlowFits(v)'
  <2>1. CASE v = w
    <3>1. flows'[v] = flow /\ Graph(t)' = graph
      BY <1>1, <1>8, <2>1 DEF Graph, LedgerInv, LedgerTypeOK
    <3>2. Graph(flow.target)' = graph
      BY <1>3, <3>1
    <3> QED
      BY <1>3, <1>5, <3>1, <3>2 DEF FlowFits
  <2>2. CASE v # w
    BY <1>1, <1>5, <2>2, FlowStays DEF LedgerInv, LedgerTypeOK
  <2> QED
    BY <2>1, <2>2
<1> QED
  BY <1>4, <1>6, <1>7, <1>9 DEF LedgerInv

(* TaskWorkflowStoppedV1.                                                  *)
LEMMA StoppedKeeps ==
  ASSUME LedgerInv, NEW w \in Workflows, NEW s \in {"succeeded", "stopped"},
         TaskWorkflowStopped(w, s)
  PROVE  LedgerInv'
<1>1. /\ flows' = [flows EXCEPT ![w].state = s]
      /\ UNCHANGED <<lifecycles, edges, tries, plans, planned, latestPlan, adopted>>
  BY DEF TaskWorkflowStopped
<1>2. /\ flows' \in [Workflows -> Authorizations]
      /\ \A v \in Workflows : v # w => flows'[v] = flows[v]
      /\ flows'[w].state = s /\ flows'[w].auto = flows[w].auto
      /\ flows'[w].target = flows[w].target
  <2>1. flows[w] \in Authorizations /\ flows' = [flows EXCEPT ![w] = [flows[w] EXCEPT !.state = s]]
    BY <1>1 DEF LedgerInv, LedgerTypeOK
  <2> QED
    BY <2>1, StoppedIsTyped DEF LedgerInv, LedgerTypeOK
<1>3. LedgerTypeOK' /\ KeepsLifecycles
  BY <1>1, <1>2 DEF LedgerInv, LedgerTypeOK, KeepsLifecycles, Created
<1>4. TriedAreStarted' /\ TriedAreReady' /\ EdgesJoinCreated'
  BY <1>1, <1>3, ReadyStays, EdgesStayJoined DEF TriedAreStarted, LedgerInv
<1>5. ASSUME NEW v \in Workflows
      PROVE  FlowFits(v)'
  <2>1. CASE v = w
    BY <1>2, <2>1 DEF LedgerInv, FlowFits, IsRunning
  <2>2. CASE v # w
    BY <1>1, <1>2, <1>3, <2>2, FlowStays
  <2> QED
    BY <2>1, <2>2
<1> QED
  BY <1>3, <1>4, <1>5 DEF LedgerInv

(* The ledger starts well.                                                 *)
LEMMA LedgerStarts ==
  ASSUME LedgerInit
  PROVE  LedgerInv
<1>1. LedgerTypeOK
  BY DEF LedgerInit, LedgerTypeOK, NoFlow, Authorizations, Tasks
<1>2. EdgesJoinCreated /\ TriedAreStarted /\ TriedAreReady
  BY DEF LedgerInit, EdgesJoinCreated, TriedAreStarted, TriedAreReady
<1>3. \A w \in Workflows : FlowFits(w)
  BY DEF LedgerInit, FlowFits, NoFlow, IsRunning
<1> QED
  BY <1>1, <1>2, <1>3 DEF LedgerInv

(* Every event the reducer accepts keeps the invariant.                    *)
LEMMA LedgerSteps ==
  ASSUME LedgerInv, [LedgerNext]_ledgerVars
  PROVE  LedgerInv'
<1>1. CASE TaskEvent
  <2>1. PICK t \in Tasks :
          \/ TaskActivated(t)
          \/ \E w \in Workflows : TaskExecutionPrepared(w, t)
          \/ \E r \in Resolutions : TaskResolved(t, r)
          \/ \E i \in 1 .. Len(tries[t]) :
               \/ TaskExecutionTransition(t, i) \/ TaskExecutionAborted(t, i)
               \/ \E o \in {"succeeded", "ended"} : TaskExecutionReceipt(t, i, o)
          \/ \E u \in Tasks, type \in EdgeTypes : DependencyAdded(Edge(u, t, type))
    BY <1>1 DEF TaskEvent
  <2>2. ASSUME NEW i \in 1 .. Len(tries[t]),
               \/ TaskExecutionTransition(t, i) \/ TaskExecutionAborted(t, i)
               \/ \E o \in {"succeeded", "ended"} : TaskExecutionReceipt(t, i, o)
        PROVE  LedgerInv'
    <3>1. \E try \in {"planned", "handed_off", "succeeded", "ended"} : Becomes(t, i, try)
      BY <2>2 DEF TaskExecutionTransition, TaskExecutionAborted, TaskExecutionReceipt
    <3> QED
      BY <3>1, BecomesKeeps
  <2>3. ASSUME NEW u \in Tasks, NEW type \in EdgeTypes, DependencyAdded(Edge(u, t, type))
        PROVE  LedgerInv'
    <3>1. Edge(u, t, type) \in Edges
      BY DEF Edge, Edges
    <3> QED
      BY <2>3, <3>1, AddedKeeps
  <2> QED
    BY <2>1, <2>2, <2>3, ActivatedKeeps, PreparedKeeps, ResolvedKeeps
<1>2. CASE PlanEvent
  <2>1. PICK p \in PlanIds :
          \/ \E t \in Planners : TaskPlanProposed(t, p) \/ TaskPlanRejected(t)
          \/ \E q \in PlanIds : TaskPlanRevised(q, p)
          \/ AdoptedByRequest(p)
          \/ \E w \in Workflows : AdoptedByWorkflow(w, p)
    BY <1>2 DEF PlanEvent
  <2>2. CASE AdoptedByRequest(p)
    BY <2>2, AdoptedKeeps DEF AdoptedByRequest
  <2>3. ASSUME NEW w \in Workflows, AdoptedByWorkflow(w, p)
        PROVE  LedgerInv'
    BY <2>3, AdoptedKeeps DEF AdoptedByWorkflow
  <2> QED
    BY <2>1, <2>2, <2>3, PlannedKeeps
<1>3. CASE WorkflowEvent
  <2>1. PICK w \in Workflows :
          \/ \E flow \in WorkAuthorizations : TaskWorkflowStarted(w, flow)
          \/ \E parent \in SUBSET Workflows : BreakdownStarted(w, parent)
          \/ \E s \in {"succeeded", "stopped"} : TaskWorkflowStopped(w, s)
    BY <1>3 DEF WorkflowEvent
  <2> QED
    BY <2>1, StartedKeeps, BreakdownKeeps, StoppedKeeps
<1>4. CASE UNCHANGED ledgerVars
  <2>1. LedgerTypeOK' /\ KeepsLifecycles /\ TriedAreStarted'
    BY <1>4 DEF ledgerVars, LedgerInv, LedgerTypeOK, KeepsLifecycles, Created, TriedAreStarted
  <2> QED
    BY <1>4, <2>1, FlowsStay, ReadyStays, EdgesStayJoined DEF ledgerVars, LedgerInv
<1> QED
  BY <1>1, <1>2, <1>3, <1>4 DEF LedgerNext

(* In every ledger that replay can build, whatever the order of its events,*)
(* dependencies join created tasks, work that was started waits for        *)
(* nothing that is open, and a running workflow has the graph it was       *)
(* authorized with (reduceTaskExecutionV1).                                *)
THEOREM LedgerIsSound == LedgerSpec => []LedgerInv
<1>1. LedgerInit => LedgerInv
  BY LedgerStarts
<1>2. LedgerInv /\ [LedgerNext]_ledgerVars => LedgerInv'
  BY LedgerSteps
<1> QED
  BY <1>1, <1>2, PTL DEF LedgerSpec

(* A running workflow executes the graph it was authorized with: no        *)
(* request, no adoption and no other workflow changes what its target      *)
(* waits for, whatever plans and tasks there are (mutable).                *)
THEOREM GraphsStayBound == LedgerSpec => []BoundGraphsHold
<1>1. LedgerInv => BoundGraphsHold
  BY DEF LedgerInv, FlowFits, BoundGraphsHold
<1> QED
  BY <1>1, LedgerIsSound, PTL

\* A task that is resolved has no live attempt, as it had one at most.
RestWhenResolved ==
  \A t \in Tasks :
    /\ Len(tries[t]) <= 1
    /\ lifecycles[t] \in Resolutions => ~HasLiveTry(t)

(* A step that resolves no task and touches no attempt.                    *)
LEMMA RestStays ==
  ASSUME RestWhenResolved, tries' = tries,
         \A t \in Tasks : lifecycles'[t] \in Resolutions => lifecycles[t] \in Resolutions
  PROVE  RestWhenResolved'
BY DEF RestWhenResolved, HasLiveTry

(* Every event keeps a resolved task without a live attempt.               *)
LEMMA RestSteps ==
  ASSUME LedgerInv, RestWhenResolved, MaxTries = 1, [LedgerNext]_ledgerVars
  PROVE  RestWhenResolved'
<1>1. /\ lifecycles \in [Tasks -> {"absent", "draft", "active"} \cup Resolutions]
      /\ tries \in [Tasks -> Seq({"planned", "handed_off", "succeeded", "ended"})]
  BY DEF LedgerInv, LedgerTypeOK
<1>2. ASSUME NEW t \in Tasks, NEW w \in Workflows, TaskExecutionPrepared(w, t)
      PROVE  RestWhenResolved'
  <2>1. /\ lifecycles' = lifecycles /\ lifecycles[t] \notin Resolutions
        /\ tries[t] = <<>> /\ tries'[t] = Append(tries[t], "planned")
        /\ \A u \in Tasks : u # t => tries'[u] = tries[u]
    BY <1>1, <1>2 DEF TaskExecutionPrepared, Resolutions
  <2>2. Len(tries'[t]) <= 1
    BY <2>1
  <2> QED
    BY <2>1, <2>2 DEF RestWhenResolved, HasLiveTry
<1>3. ASSUME NEW t \in Tasks, NEW i \in 1 .. Len(tries[t]), IsLive(tries[t][i]),
             NEW try \in {"planned", "handed_off", "succeeded", "ended"}, Becomes(t, i, try)
      PROVE  RestWhenResolved'
  <2>1. /\ lifecycles' = lifecycles /\ Len(tries'[t]) = Len(tries[t])
        /\ \A u \in Tasks : u # t => tries'[u] = tries[u]
    BY <1>1, <1>3 DEF Becomes
  <2>2. lifecycles[t] \notin Resolutions
    BY <1>3 DEF RestWhenResolved, HasLiveTry
  <2> QED
    BY <2>1, <2>2 DEF RestWhenResolved, HasLiveTry
<1>4. ASSUME NEW t \in Tasks, NEW r \in Resolutions, TaskResolved(t, r)
      PROVE  RestWhenResolved'
  <2>1. /\ tries' = tries /\ lifecycles' = [lifecycles EXCEPT ![t] = r]
        /\ (\E i \in 1 .. Len(tries[t]) : tries[t][i] = "succeeded") \/ ~HasLiveTry(t)
    BY <1>4 DEF TaskResolved, MayResolve
  <2>2. ~HasLiveTry(t)
    BY <1>1, <2>1 DEF RestWhenResolved, HasLiveTry, IsLive
  <2> QED
    BY <1>1, <2>1, <2>2 DEF RestWhenResolved, HasLiveTry
<1>5. ASSUME TaskEvent
      PROVE  RestWhenResolved'
  <2>1. PICK t \in Tasks :
          \/ TaskActivated(t)
          \/ \E w \in Workflows : TaskExecutionPrepared(w, t)
          \/ \E r \in Resolutions : TaskResolved(t, r)
          \/ \E i \in 1 .. Len(tries[t]) :
               \/ TaskExecutionTransition(t, i) \/ TaskExecutionAborted(t, i)
               \/ \E o \in {"succeeded", "ended"} : TaskExecutionReceipt(t, i, o)
          \/ \E u \in Tasks, type \in EdgeTypes : DependencyAdded(Edge(u, t, type))
    BY <1>5 DEF TaskEvent
  <2>2. ASSUME NEW i \in 1 .. Len(tries[t]),
               \/ TaskExecutionTransition(t, i) \/ TaskExecutionAborted(t, i)
               \/ \E o \in {"succeeded", "ended"} : TaskExecutionReceipt(t, i, o)
        PROVE  RestWhenResolved'
    <3>1. /\ \E try \in {"planned", "handed_off", "succeeded", "ended"} : Becomes(t, i, try)
          /\ IsLive(tries[t][i])
      BY <2>2 DEF TaskExecutionTransition, TaskExecutionAborted, TaskExecutionReceipt, IsLive
    <3> QED
      BY <1>3, <3>1
  <2>3. TaskActivated(t) => RestWhenResolved'
    BY <1>1, RestStays DEF TaskActivated, Resolutions
  <2>4. (\E u \in Tasks, type \in EdgeTypes : DependencyAdded(Edge(u, t, type))) => RestWhenResolved'
    BY RestStays DEF DependencyAdded
  <2> QED
    BY <1>2, <1>4, <2>1, <2>2, <2>3, <2>4
<1>6. ASSUME PlanEvent
      PROVE  RestWhenResolved'
  <2>1. /\ tries' = tries
        /\ \/ lifecycles' = lifecycles
           \/ \E p \in PlanIds :
                lifecycles' = [t \in Tasks |-> IF t \in Items(p) THEN "draft" ELSE lifecycles[t]]
    BY <1>6 DEF PlanEvent, TaskPlanProposed, TaskPlanRejected, TaskPlanRevised, AdoptedByRequest,
       AdoptedByWorkflow, TaskPlanAdopted
  <2> QED
    BY <2>1, RestStays DEF Resolutions
<1>7. ASSUME WorkflowEvent
      PROVE  RestWhenResolved'
  <2>1. /\ tries' = tries
        /\ \/ lifecycles' = lifecycles
           \/ \E t : lifecycles' = [lifecycles EXCEPT ![t] = "active"]
    BY <1>7 DEF WorkflowEvent, TaskWorkflowStarted, BreakdownStarted, TaskWorkflowStopped
  <2> QED
    BY <1>1, <2>1, RestStays DEF Resolutions
<1>8. UNCHANGED ledgerVars => RestWhenResolved'
  BY RestStays DEF ledgerVars
<1> QED
  BY <1>5, <1>6, <1>7, <1>8 DEF LedgerNext

(* Work starts only after all it waits for, whatever is added or adopted   *)
(* since, and a resolved task has no attempt that runs.  One attempt per   *)
(* task is what prepare makes of any number of calls: it returns the one   *)
(* it retains (service.ts, l. 403-408).                                    *)
THEOREM ReadyWorkStarts ==
  ASSUME MaxTries = 1
  PROVE  LedgerSpec => []WorkIsReady
<1>1. LedgerInit => RestWhenResolved
  BY DEF LedgerInit, RestWhenResolved, HasLiveTry, Resolutions
<1>2. LedgerInv /\ RestWhenResolved /\ [LedgerNext]_ledgerVars => RestWhenResolved'
  BY RestSteps
<1>3. LedgerInv /\ RestWhenResolved => WorkIsReady
  BY DEF LedgerInv, TriedAreReady, RestWhenResolved, WorkIsReady
<1> QED
  BY <1>1, <1>2, <1>3, LedgerIsSound, PTL DEF LedgerSpec

-----------------------------------------------------------------------------
(* The dispatch of an attempt                                              *)


Held == {p \in Dispatchers : copies[p] # NoCopy}

\* A record that has a handle has an operation.
RecordFits(r) == r.handle # Unset => r.operation

\* What a change of a record keeps.
KeepsRecord(was, is) ==
  /\ IsSettled(was) => is.phase = was.phase
  /\ was.cancel => is.cancel
  /\ was.operation => is.operation
  /\ was.handle # Unset => is.handle = was.handle

\* A lease that another followed has expired, and lasts no longer than the one stored.
LeaseFollowed(old, new) ==
  old # NoLease =>
    /\ new # NoLease
    /\ old.token <= new.token
    /\ old.token = new.token => old.owner = new.owner /\ old.expires <= new.expires
    /\ old.token < new.token => old.expires <= leaseClock

\* No copy was made from a later row than the stored one.
BasesAreOld ==
  \A p \in Held :
    copies[p].base # NoRow =>
      /\ dispatchRow # NoRow
      /\ LeaseFollowed(copies[p].base.lease, dispatchRow.lease)

\* What a copy that is not stored yet may have changed: the lease, or the record.
ChangeFits(p, base, lease, record) ==
  /\ RecordFits(record)
  /\ base = NoRow => lease = NoLease /\ record = Planned
  /\ base # NoRow =>
       /\ RecordFits(base.record)
       /\ KeepsRecord(base.record, record)
       /\ lease # base.lease =>
            /\ record = base.record /\ lease # NoLease
            /\ LeaseFollowed(base.lease, lease)
            /\ base.lease = NoLease => lease.token = 1
       /\ record.cancel # base.record.cancel =>
            /\ base.lease # NoLease /\ base.lease.owner = p
            /\ lease = base.lease

ChangesAreOrdered ==
  \A p \in Held : ChangeFits(p, copies[p].base, copies[p].lease, copies[p].record)

\* The holder of a lease that lasts knows of every cancellation that is stored.
HolderIsTold ==
  \A p \in Held :
    LET base == copies[p].base IN
    base # NoRow /\ base.lease # NoLease /\ base.lease.owner = p /\ leaseClock < base.lease.expires =>
      base.record.cancel = dispatchRow.record.cancel

\* Nothing is leased for longer than a lease lasts.
LeaseIsShort(lease) == lease # NoLease => lease.expires <= leaseClock + LeaseLength

RowFits == dispatchRow # NoRow => RecordFits(dispatchRow.record) /\ LeaseIsShort(dispatchRow.lease)
CopiesAreShort == \A p \in Held : LeaseIsShort(copies[p].lease)

DispatchInv ==
  DispatchTypeOK /\ BasesAreOld /\ ChangesAreOrdered /\ HolderIsTold /\ RowFits /\ CopiesAreShort

-----------------------------------------------------------------------------
(* The reducer: what a step of the record keeps and how many events it takes *)

\* A record a process may come to from r with at most n more events.
Follows(r, next, n) ==
  /\ next \in Records /\ next.events <= r.events + n
  /\ RecordFits(next) /\ KeepsRecord(r, next)

\* evolve keeps everything of an unsettled record but the phase.
LEMMA EvolveFollows ==
  ASSUME NEW r \in Records, RecordFits(r), ~IsSettled(r), r.events < MaxRecordEvents,
         NEW phase \in DispatchPhases
  PROVE  Follows(r, Evolve(r, phase), 1) /\ Evolve(r, phase).cancel = r.cancel
                                         /\ Evolve(r, phase).phase = phase
<1> DEFINE next == Evolve(r, phase)
<1>1. next = [r EXCEPT !.phase = phase, !.events = r.events + 1]
  BY DEF Evolve
<1>2. r.events \in Nat /\ r.events + 1 \in 0..MaxRecordEvents
  BY DispatchBoundsAssumption DEF Records
<1> HIDE DEF next
<1>3. /\ next \in Records /\ next.phase = phase /\ next.events = r.events + 1
      /\ next.operation = r.operation /\ next.handle = r.handle /\ next.cancel = r.cancel
  BY <1>1, <1>2 DEF Records
<1>4. next.events <= r.events + 1
  BY <1>2, <1>3
<1>5. Follows(r, next, 1)
  BY <1>3, <1>4 DEF Follows, RecordFits, KeepsRecord
<1> QED  BY <1>3, <1>5 DEF next

\* recordProviderHandle never replaces a handle, nor settles a record.
LEMMA HandleFollows ==
  ASSUME NEW r \in Records, RecordFits(r), ~IsSettled(r), r.events < MaxRecordEvents,
         NEW h \in Handles, r.handle \in {Unset, h}
  PROVE  Follows(r, RecordHandle(r, h), 1) /\ RecordHandle(r, h).cancel = r.cancel
                                           /\ ~IsSettled(RecordHandle(r, h))
<1>1. CASE r.handle = h
  BY <1>1, DispatchBoundsAssumption DEF Follows, Records, RecordHandle, RecordFits, KeepsRecord
<1>2. CASE r.handle # h
  <2> DEFINE handled == Evolve(r, "handle_recorded")
             next == [handled EXCEPT !.operation = TRUE, !.handle = h]
  <2>1. handled \in Records /\ handled.events = r.events + 1 /\ handled.cancel = r.cancel
        /\ handled.phase = "handle_recorded"
    <3>1. handled = [r EXCEPT !.phase = "handle_recorded", !.events = r.events + 1]
      BY DEF Evolve
    <3>2. r.events \in Nat /\ r.events + 1 \in 0..MaxRecordEvents
      BY DispatchBoundsAssumption DEF Records
    <3> QED  BY <3>1, <3>2 DEF Records, DispatchPhases
  <2>2. RecordHandle(r, h) = next
    BY <1>2 DEF RecordHandle
  <2> HIDE DEF handled
  <2>3. /\ next \in Records /\ next.phase = "handle_recorded" /\ next.events = r.events + 1
        /\ next.operation = TRUE /\ next.handle = h /\ next.cancel = r.cancel
    BY <2>1 DEF Records
  <2> HIDE DEF next
  <2>4. next.events <= r.events + 1 /\ r.handle = Unset
    BY <2>3, <1>2 DEF Records
  <2> QED  BY <2>2, <2>3, <2>4 DEF Follows, RecordFits, KeepsRecord, IsSettled
<1> QED  BY <1>1, <1>2

\* One step after the other.
LEMMA FollowsTwice ==
  ASSUME NEW r \in Records, NEW mid \in Records, NEW next, ~IsSettled(mid),
         Follows(r, mid, 1), Follows(mid, next, 1)
  PROVE  Follows(r, next, 2)
BY DispatchBoundsAssumption DEF Follows, Records, RecordFits, KeepsRecord, IsSettled

\* lookupDispatch and the catch around it.
LEMMA LookupFollows ==
  ASSUME NEW r \in Records, RecordFits(r), ~IsSettled(r), r.events < MaxRecordEvents,
         NEW next \in LookupOutcomes(r)
  PROVE  Follows(r, next, 1) /\ next.cancel = r.cancel
<1>1. /\ "unknown_outcome" \in DispatchPhases /\ "intent_committed" \in DispatchPhases
      /\ Follows(r, r, 1)
  BY DispatchBoundsAssumption DEF DispatchPhases, Follows, RecordFits, KeepsRecord, Records
<1>2. \A phase \in DispatchPhases : Follows(r, Evolve(r, phase), 1) /\ Evolve(r, phase).cancel = r.cancel
  BY EvolveFollows
<1>3. Follows(r, LookupFailed(r), 1) /\ LookupFailed(r).cancel = r.cancel
  BY <1>1, <1>2 DEF LookupFailed
<1>4. \A h \in Handles : AcceptsHandle(r, h) =>
        Follows(r, RecordHandle(r, h), 1) /\ RecordHandle(r, h).cancel = r.cancel
  BY HandleFollows DEF AcceptsHandle
<1> QED  BY <1>1, <1>2, <1>3, <1>4 DEF LookupOutcomes

-----------------------------------------------------------------------------
(* The lease *)

\* Every later lease follows every earlier one.
LEMMA LeaseFollowedTwice ==
  ASSUME leaseClock \in Nat,
         NEW a \in Leases \cup {NoLease}, NEW b \in Leases \cup {NoLease}, NEW c \in Leases \cup {NoLease},
         LeaseFollowed(a, b), LeaseFollowed(b, c)
  PROVE  LeaseFollowed(a, c)
BY DispatchBoundsAssumption DEF LeaseFollowed, Leases

\* Only the owner of the lease that lasts has one that lasts.
LEMMA OneHolder ==
  ASSUME leaseClock \in Nat, NEW a \in Leases, NEW b \in Leases \cup {NoLease},
         LeaseFollowed(a, b), leaseClock < a.expires
  PROVE  b # NoLease /\ b.token = a.token /\ b.owner = a.owner
<1>1. a # NoLease /\ b \in Leases /\ b # NoLease
  BY NoLeaseAssumption DEF LeaseFollowed
<1>2. a.token \in Nat /\ b.token \in Nat /\ a.expires \in Nat
  BY <1>1, DispatchBoundsAssumption DEF Leases
<1> QED  BY <1>1, <1>2 DEF LeaseFollowed

-----------------------------------------------------------------------------
(* The steps of a process in its memory *)

\* A process changes its copy in a way the invariant allows.
Works(p) ==
  /\ p \in Held
  /\ \E c \in Copies :
       /\ copies' = [copies EXCEPT ![p] = c]
       /\ c.base = copies[p].base
       /\ ChangeFits(p, c.base, c.lease, c.record)
       /\ LeaseIsShort(c.lease)
  /\ UNCHANGED <<dispatchRow, leaseClock, runHead>>

\* Such a step keeps the invariant.
LEMMA WorkKeepsInv ==
  ASSUME DispatchInv, NEW p \in Dispatchers, Works(p),
         provider' \in [launched : BOOLEAN, call : ProviderCalls]
  PROVE  DispatchInv'
<1>1. PICK c \in Copies :
        /\ copies' = [copies EXCEPT ![p] = c]
        /\ c.base = copies[p].base
        /\ ChangeFits(p, c.base, c.lease, c.record)
        /\ LeaseIsShort(c.lease)
  BY DEF Works
<1>2. /\ p \in Held /\ UNCHANGED <<dispatchRow, leaseClock, runHead>>
      /\ copies \in [Dispatchers -> Copies \cup {NoCopy}]
  BY DEF Works, DispatchInv, DispatchTypeOK
<1>3. Held' = Held /\ copies'[p] = c /\ \A q \in Dispatchers \ {p} : copies'[q] = copies[q]
  BY <1>1, <1>2, NoCopyAssumption DEF Held
<1>4. DispatchTypeOK'
  BY <1>1, <1>2 DEF DispatchInv, DispatchTypeOK
<1>5. \A q \in Held : copies'[q].base = copies[q].base
  BY <1>1, <1>3 DEF Held
<1>6. BasesAreOld' /\ HolderIsTold'
  BY <1>2, <1>3, <1>5 DEF DispatchInv, BasesAreOld, HolderIsTold, LeaseFollowed
<1>7. ChangesAreOrdered'
  <2>1. \A q \in Held : ChangeFits(q, copies'[q].base, copies'[q].lease, copies'[q].record)
    BY <1>1, <1>3 DEF DispatchInv, ChangesAreOrdered, Held
  <2> QED  BY <2>1, <1>2, <1>3 DEF ChangesAreOrdered, ChangeFits, LeaseFollowed
<1>8. RowFits' /\ CopiesAreShort'
  BY <1>1, <1>2, <1>3 DEF DispatchInv, RowFits, CopiesAreShort, LeaseIsShort, Held
<1> QED  BY <1>4, <1>6, <1>7, <1>8 DEF DispatchInv

\* What a process knows of a copy it has stored.
LEMMA StoredCopy ==
  ASSUME DispatchInv, NEW p \in Dispatchers, IsStored(p)
  PROVE  /\ p \in Held /\ copies[p] \in Copies /\ copies[p].record \in Records
         /\ copies[p].lease \in Leases \cup {NoLease} /\ copies[p].base \in Rows
         /\ copies[p] = [base |-> copies[p].base, lease |-> copies[p].base.lease, record |-> copies[p].base.record]
         /\ copies[p].lease = copies[p].base.lease /\ copies[p].record = copies[p].base.record
         /\ RecordFits(copies[p].record) /\ LeaseIsShort(copies[p].lease)
BY DEF DispatchInv, DispatchTypeOK, IsStored, Copies, Rows, Held, ChangesAreOrdered, ChangeFits, CopiesAreShort

\* A step of the record by a process that has stored its copy.
LEMMA RecordWork ==
  ASSUME DispatchInv, NEW p \in Dispatchers, IsStored(p), NEW next,
         Follows(copies[p].record, next, 2),
         next.cancel # copies[p].record.cancel => HoldsLease(p),
         copies' = [copies EXCEPT ![p].record = next],
         UNCHANGED <<dispatchRow, leaseClock, runHead>>
  PROVE  Works(p)
<1> DEFINE c == [base |-> copies[p].base, lease |-> copies[p].lease, record |-> next]
<1>1. /\ p \in Held /\ copies[p] \in Copies /\ copies[p].lease = copies[p].base.lease
      /\ copies[p].record = copies[p].base.record
      /\ RecordFits(copies[p].record) /\ LeaseIsShort(copies[p].lease)
  BY StoredCopy
<1>2. c \in Copies /\ copies' = [copies EXCEPT ![p] = c]
  <2>1. [copies[p] EXCEPT !.record = next] = c
    BY <1>1 DEF Copies
  <2> QED  BY <1>1, <2>1 DEF Copies, Follows
<1>3. copies[p].base # NoRow
  BY DEF IsStored
<1>4. next.cancel # copies[p].base.record.cancel => copies[p].base.lease # NoLease /\ copies[p].base.lease.owner = p
  BY <1>1 DEF HoldsLease
<1>5. ChangeFits(p, c.base, c.lease, c.record)
  BY <1>1, <1>3, <1>4 DEF ChangeFits, Follows
<1> QED  BY <1>1, <1>2, <1>5 DEF Works

\* A step of the lease by a process that has stored its copy.
LEMMA LeaseWork ==
  ASSUME DispatchInv, NEW p \in Dispatchers, IsStored(p), NEW lease \in Leases,
         LeaseFollowed(copies[p].lease, lease), LeaseIsShort(lease),
         copies[p].lease = NoLease => lease.token = 1,
         copies' = [copies EXCEPT ![p].lease = lease],
         UNCHANGED <<dispatchRow, leaseClock, runHead>>
  PROVE  Works(p)
<1> DEFINE c == [base |-> copies[p].base, lease |-> lease, record |-> copies[p].record]
<1>1. /\ p \in Held /\ copies[p] \in Copies /\ copies[p].lease = copies[p].base.lease
      /\ copies[p].record = copies[p].base.record /\ RecordFits(copies[p].record)
  BY StoredCopy
<1>2. c \in Copies /\ copies' = [copies EXCEPT ![p] = c]
  <2>1. [copies[p] EXCEPT !.lease = lease] = c
    BY <1>1 DEF Copies
  <2> QED  BY <1>1, <2>1 DEF Copies
<1>3. copies[p].base # NoRow
  BY DEF IsStored
<1>4. ChangeFits(p, c.base, c.lease, c.record)
  BY <1>1, <1>3, NoLeaseAssumption DEF ChangeFits, KeepsRecord
<1> QED  BY <1>1, <1>2, <1>4 DEF Works

-----------------------------------------------------------------------------
(* Each action of a process keeps the invariant *)

\* Nothing but the clock moved between what a copy knows and what is stored.
LEMMA LeaseKept ==
  ASSUME DispatchInv, NEW p \in Dispatchers, IsStored(p), HoldsLease(p)
  PROVE  /\ dispatchRow \in Rows /\ dispatchRow.lease \in Leases /\ dispatchRow.lease # NoLease
         /\ dispatchRow.lease.token = copies[p].lease.token /\ dispatchRow.lease.owner = p
         /\ dispatchRow.record.cancel = copies[p].record.cancel
<1>1. /\ p \in Held /\ copies[p].lease = copies[p].base.lease /\ copies[p].record = copies[p].base.record
      /\ copies[p].lease \in Leases /\ copies[p].base # NoRow /\ copies[p].lease # NoLease
      /\ copies[p].lease.owner = p /\ leaseClock < copies[p].lease.expires
  BY StoredCopy DEF HoldsLease, IsStored
<1>2. dispatchRow # NoRow /\ LeaseFollowed(copies[p].lease, dispatchRow.lease)
  BY <1>1 DEF DispatchInv, BasesAreOld
<1>3. dispatchRow \in Rows /\ dispatchRow.lease \in Leases \cup {NoLease} /\ leaseClock \in Nat
  BY <1>2, DispatchBoundsAssumption DEF DispatchInv, DispatchTypeOK, Rows
<1>4. dispatchRow.lease # NoLease /\ dispatchRow.lease.token = copies[p].lease.token
      /\ dispatchRow.lease.owner = p
  BY <1>1, <1>2, <1>3, OneHolder
<1>5. dispatchRow.record.cancel = copies[p].record.cancel
  BY <1>1 DEF DispatchInv, HolderIsTold
<1> QED  BY <1>3, <1>4, <1>5

\* A process that holds its lease calls under the stored one.
LEMMA CallIsFenced ==
  ASSUME DispatchInv, NEW p \in Dispatchers, IsStored(p), HoldsLease(p),
         NEW kind \in {"dispatch", "lookup", "cancel"}
  PROVE  Calling(p, kind) = [kind |-> kind, fenced |-> TRUE, cancelled |-> copies[p].record.cancel]
BY LeaseKept DEF Calling

\* acquireLease: the next token, after the last lease has expired.
LEMMA AcquireKeepsInv ==
  ASSUME DispatchInv, NEW p \in Dispatchers, AcquireLease(p)
  PROVE  DispatchInv' /\ provider' = provider
<1> DEFINE held == copies[p].lease
           lease == [owner |-> p, token |-> Token(held) + 1, expires |-> leaseClock + LeaseLength, cursor |-> runHead]
<1>1. /\ IsStored(p)
      /\ held # NoLease => held.expires <= leaseClock
      /\ Token(held) <= MaxTime /\ copies' = [copies EXCEPT ![p].lease = lease]
      /\ UNCHANGED <<dispatchRow, leaseClock, runHead, provider>>
  BY DEF AcquireLease
<1> HIDE DEF held, lease
<1>2. /\ held = copies[p].lease /\ held \in Leases \cup {NoLease}
      /\ leaseClock \in 0..MaxTime /\ runHead \in 0..MaxRunHeads
      /\ provider \in [launched : BOOLEAN, call : ProviderCalls]
  BY <1>1, StoredCopy DEF DispatchInv, DispatchTypeOK, held
<1>3. /\ Token(held) \in Nat
      /\ held # NoLease => Token(held) = held.token
      /\ held = NoLease => Token(held) = 0
  BY <1>2, DispatchBoundsAssumption DEF Token, Leases
<1>4. /\ lease \in Leases /\ lease.token = Token(held) + 1
      /\ lease.expires = leaseClock + LeaseLength
  BY <1>1, <1>2, <1>3, DispatchBoundsAssumption DEF Leases, lease
<1>5. /\ lease # NoLease /\ LeaseFollowed(held, lease) /\ LeaseIsShort(lease)
      /\ held = NoLease => lease.token = 1
  BY <1>1, <1>2, <1>3, <1>4, NoLeaseAssumption, DispatchBoundsAssumption DEF LeaseFollowed, LeaseIsShort, Leases
<1>6. Works(p)
  BY <1>1, <1>2, <1>4, <1>5, LeaseWork
<1> QED  BY <1>1, <1>2, <1>6, WorkKeepsInv

\* renewLease: the same token, for longer.
LEMMA RenewKeepsInv ==
  ASSUME DispatchInv, NEW p \in Dispatchers, RenewLease(p)
  PROVE  DispatchInv' /\ provider' = provider
<1> DEFINE held == copies[p].lease
           lease == [held EXCEPT !.expires = leaseClock + LeaseLength]
<1>1. /\ IsStored(p) /\ HoldsLease(p) /\ held # NoLease
      /\ copies' = [copies EXCEPT ![p].lease.expires = leaseClock + LeaseLength]
      /\ UNCHANGED <<dispatchRow, leaseClock, runHead, provider>>
  BY DEF RenewLease, HoldsLease
<1>2. /\ held \in Leases /\ leaseClock \in 0..MaxTime /\ held.expires <= leaseClock + LeaseLength
      /\ provider \in [launched : BOOLEAN, call : ProviderCalls] /\ copies[p] \in Copies
      /\ copies \in [Dispatchers -> Copies \cup {NoCopy}]
  BY <1>1, StoredCopy DEF DispatchInv, DispatchTypeOK, LeaseIsShort
<1>3. lease \in Leases /\ lease.owner = held.owner /\ lease.token = held.token
      /\ lease.expires = leaseClock + LeaseLength
  BY <1>2, DispatchBoundsAssumption DEF Leases
<1>4. lease # NoLease /\ LeaseFollowed(held, lease) /\ LeaseIsShort(lease)
  BY <1>2, <1>3, NoLeaseAssumption, DispatchBoundsAssumption DEF LeaseFollowed, LeaseIsShort, Leases
<1>5. copies' = [copies EXCEPT ![p].lease = lease]
  BY <1>1, <1>2
<1>6. Works(p)
  <2> HIDE DEF lease
  <2> QED  BY <1>1, <1>3, <1>4, <1>5, LeaseWork
<1> QED  BY <1>1, <1>2, <1>6, WorkKeepsInv

\* commitLaunchIntent.
LEMMA CommitKeepsInv ==
  ASSUME DispatchInv, NEW p \in Dispatchers, CommitLaunchIntent(p)
  PROVE  DispatchInv' /\ provider' = provider
<1> DEFINE r == copies[p].record
           committed == Evolve(r, "intent_committed")
           next == [committed EXCEPT !.intent = TRUE]
<1>1. /\ IsStored(p) /\ r.phase = "planned" /\ r.events < MaxRecordEvents
      /\ copies' = [copies EXCEPT ![p].record = next]
      /\ UNCHANGED <<dispatchRow, leaseClock, runHead, provider>>
  BY DEF CommitLaunchIntent
<1>2. r \in Records /\ RecordFits(r) /\ provider \in [launched : BOOLEAN, call : ProviderCalls]
  BY <1>1, StoredCopy DEF DispatchInv, DispatchTypeOK
<1>3. Follows(r, committed, 1) /\ committed.cancel = r.cancel /\ committed.phase = "intent_committed"
  BY <1>1, <1>2, EvolveFollows DEF IsSettled, DispatchPhases
<1> HIDE DEF committed
<1>4. /\ next \in Records /\ next.phase = committed.phase /\ next.events = committed.events
      /\ next.operation = committed.operation /\ next.handle = committed.handle
      /\ next.cancel = committed.cancel
  BY <1>3 DEF Follows, Records
<1> HIDE DEF next
<1>5. Follows(r, next, 2) /\ next.cancel = r.cancel
  BY <1>1, <1>2, <1>3, <1>4, DispatchBoundsAssumption DEF Follows, RecordFits, KeepsRecord, IsSettled, Records
<1>6. Works(p)
  BY <1>1, <1>5, RecordWork
<1> QED  BY <1>1, <1>2, <1>6, WorkKeepsInv

\* dispatchCommittedIntent: the provider is called under the stored lease, and
\* is asked to launch only where no cancellation is stored.
LEMMA DispatchKeepsInv ==
  ASSUME DispatchInv, NEW p \in Dispatchers, DispatchCommittedIntent(p)
  PROVE  /\ DispatchInv'
         /\ provider'.call = [kind |-> "dispatch", fenced |-> TRUE, cancelled |-> FALSE]
<1> DEFINE r == copies[p].record
           dispatched == Evolve(r, "dispatched")
           bound == [dispatched EXCEPT !.operation = TRUE]
<1>1. /\ IsStored(p) /\ HoldsLease(p) /\ r.phase = "intent_committed" /\ ~r.cancel /\ ~r.operation
      /\ r.events + 2 <= MaxRecordEvents
      /\ UNCHANGED <<dispatchRow, leaseClock, runHead>>
      /\ \E launches \in {TRUE, provider.launched} :
           /\ provider' = [launched |-> launches, call |-> Calling(p, "dispatch")]
           /\ \E next \in {r} \cup (IF launches THEN {bound} \cup {RecordHandle(bound, h) : h \in Handles} ELSE {}) :
                copies' = [copies EXCEPT ![p].record = next]
  BY DEF DispatchCommittedIntent
<1>2. r \in Records /\ RecordFits(r) /\ provider \in [launched : BOOLEAN, call : ProviderCalls]
      /\ r.events \in Nat /\ r.handle = Unset
  BY <1>1, StoredCopy, DispatchBoundsAssumption DEF DispatchInv, DispatchTypeOK, Records, RecordFits
<1>3. Follows(r, dispatched, 1) /\ dispatched.cancel = r.cancel /\ dispatched.phase = "dispatched"
      /\ dispatched.handle = r.handle
  <2>1. r.events < MaxRecordEvents
    BY <1>1, <1>2, DispatchBoundsAssumption
  <2>2. dispatched.handle = r.handle
    BY <1>2 DEF Evolve, Records
  <2> QED  BY <1>1, <1>2, <2>1, <2>2, EvolveFollows DEF IsSettled, DispatchPhases
<1> HIDE DEF dispatched
<1>4. /\ bound \in Records /\ bound.events = dispatched.events /\ bound.phase = "dispatched"
      /\ bound.handle = r.handle /\ bound.cancel = r.cancel /\ bound.operation = TRUE
  BY <1>3 DEF Follows, Records
<1> HIDE DEF bound
<1>5. Follows(r, bound, 1) /\ ~IsSettled(bound) /\ RecordFits(bound) /\ bound.events < MaxRecordEvents
  BY <1>1, <1>2, <1>3, <1>4, DispatchBoundsAssumption DEF Follows, RecordFits, KeepsRecord, IsSettled, Records
<1>6. \A h \in Handles : Follows(r, RecordHandle(bound, h), 2) /\ RecordHandle(bound, h).cancel = r.cancel
  <2> TAKE h \in Handles
  <2>1. Follows(bound, RecordHandle(bound, h), 1) /\ RecordHandle(bound, h).cancel = r.cancel
    BY <1>2, <1>4, <1>5, HandleFollows
  <2> QED  BY <1>2, <1>4, <1>5, <2>1, FollowsTwice
<1>7. Follows(r, r, 2) /\ Follows(r, bound, 2)
  BY <1>2, <1>5, DispatchBoundsAssumption DEF Follows, KeepsRecord, Records
<1>8. PICK next \in {r, bound} \cup {RecordHandle(bound, h) : h \in Handles} :
        copies' = [copies EXCEPT ![p].record = next]
  BY <1>1
<1>9. Works(p)
  <2>1. Follows(r, next, 2) /\ next.cancel = r.cancel
    BY <1>4, <1>6, <1>7, <1>8
  <2> QED  BY <1>1, <1>8, <2>1, RecordWork
<1>10. Calling(p, "dispatch") = [kind |-> "dispatch", fenced |-> TRUE, cancelled |-> FALSE]
  BY <1>1, CallIsFenced
<1>11. PICK launches \in BOOLEAN : provider' = [launched |-> launches, call |-> Calling(p, "dispatch")]
  BY <1>1, <1>2
<1>12. PICK launched \in BOOLEAN :
         provider' = [launched |-> launched,
                      call |-> [kind |-> "dispatch", fenced |-> TRUE, cancelled |-> FALSE]]
  BY <1>10, <1>11
<1>13. /\ provider' \in [launched : BOOLEAN, call : ProviderCalls]
       /\ provider'.call = [kind |-> "dispatch", fenced |-> TRUE, cancelled |-> FALSE]
  BY <1>12 DEF ProviderCalls
<1> QED  BY <1>9, <1>13, WorkKeepsInv
\* recoverDispatch, which asks for a lookup, or hands a cancellation off.
LEMMA RecoverKeepsInv ==
  ASSUME DispatchInv, NEW p \in Dispatchers, NEW cancels \in BOOLEAN, RecoverDispatch(p, cancels)
  PROVE  /\ DispatchInv'
         /\ \/ provider'.call = provider.call
            \/ /\ provider'.call.fenced = TRUE
               /\ provider'.call.kind \in {"lookup", "cancel"}
<1> DEFINE stored == copies[p].record
           r == IF cancels THEN WithCancellation(stored) ELSE stored
           hands == r.cancel /\ r.intent /\ r.phase # "cancel_handed_off"
<1>1. /\ IsStored(p) /\ HoldsLease(p)
      /\ r.phase \notin {"planned", "unknown_outcome"} /\ ~IsSettled(r)
      /\ stored.events + 2 <= MaxRecordEvents
      /\ \E next \in IF hands THEN HandoffOutcomes(r) ELSE IF r.cancel THEN {r} ELSE LookupOutcomes(r) :
           copies' = [copies EXCEPT ![p].record = next]
      /\ provider' = IF hands THEN [provider EXCEPT !.call = Calling(p, "cancel")]
                     ELSE IF r.cancel THEN provider
                     ELSE [provider EXCEPT !.call = Calling(p, "lookup")]
      /\ UNCHANGED <<dispatchRow, leaseClock, runHead>>
  BY DEF RecoverDispatch
<1>2. stored \in Records /\ RecordFits(stored) /\ provider \in [launched : BOOLEAN, call : ProviderCalls]
      /\ stored.events \in Nat
  BY <1>1, StoredCopy DEF DispatchInv, DispatchTypeOK, Records
<1>3. Follows(stored, stored, 1)
  BY <1>2, DispatchBoundsAssumption DEF Follows, KeepsRecord, Records
<1>4. ~IsSettled(stored) => Follows(stored, WithCancellation(stored), 1)
  <2> SUFFICES ASSUME ~IsSettled(stored) PROVE Follows(stored, WithCancellation(stored), 1)
    OBVIOUS
  <2> DEFINE asked == Evolve(stored, "cancel_requested")
             next == [asked EXCEPT !.cancel = TRUE]
  <2>1. Follows(stored, asked, 1)
    BY <1>1, <1>2, EvolveFollows, DispatchBoundsAssumption DEF DispatchPhases
  <2> HIDE DEF asked
  <2>2. /\ next \in Records /\ next.phase = asked.phase /\ next.events = asked.events
        /\ next.operation = asked.operation /\ next.handle = asked.handle /\ next.cancel = TRUE
    BY <2>1 DEF Follows, Records
  <2> HIDE DEF next
  <2>3. Follows(stored, next, 1)
    BY <2>1, <2>2 DEF Follows, RecordFits, KeepsRecord
  <2>4. WithCancellation(stored) = IF stored.cancel THEN stored ELSE next
    BY DEF WithCancellation, next, asked
  <2> QED  BY <2>3, <2>4, <1>3
<1>5. ~IsSettled(stored)
  BY <1>1 DEF WithCancellation
<1>6. Follows(stored, r, 1)
  BY <1>3, <1>4, <1>5
<1> HIDE DEF r
<1>7. /\ r \in Records /\ RecordFits(r) /\ r.events < MaxRecordEvents /\ r.events \in Nat
      /\ Follows(r, r, 1)
  BY <1>1, <1>2, <1>6, DispatchBoundsAssumption DEF Follows, Records, KeepsRecord
<1>8. \A next \in HandoffOutcomes(r) \cup LookupOutcomes(r) \cup {r} : Follows(r, next, 1)
  <2>1. \A phase \in DispatchPhases : Follows(r, Evolve(r, phase), 1)
    BY <1>1, <1>7, EvolveFollows
  <2>2. \A next \in HandoffOutcomes(r) : Follows(r, next, 1)
    BY <2>1, <1>7 DEF HandoffOutcomes, DispatchPhases
  <2>3. \A next \in LookupOutcomes(r) : Follows(r, next, 1)
    BY <1>1, <1>7, LookupFollows
  <2> QED  BY <2>2, <2>3, <1>7
<1>9. PICK next : copies' = [copies EXCEPT ![p].record = next] /\ Follows(r, next, 1)
  BY <1>1, <1>8
<1>10. Follows(stored, next, 2)
  BY <1>1, <1>2, <1>6, <1>7, <1>9, FollowsTwice
<1>11. Works(p)
  BY <1>1, <1>9, <1>10, RecordWork
<1>12. \A kind \in {"lookup", "cancel"} :
         Calling(p, kind) \in ProviderCalls /\ Calling(p, kind).fenced = TRUE /\ Calling(p, kind).kind = kind
  <2> TAKE kind \in {"lookup", "cancel"}
  <2>1. Calling(p, kind) = [kind |-> kind, fenced |-> TRUE, cancelled |-> stored.cancel]
    BY <1>1, CallIsFenced
  <2> QED  BY <2>1, <1>2 DEF ProviderCalls, Records
<1>13. /\ provider' \in [launched : BOOLEAN, call : ProviderCalls]
       /\ \/ provider'.call = provider.call
          \/ /\ provider'.call.fenced = TRUE
             /\ provider'.call.kind \in {"lookup", "cancel"}
  <2> HIDE DEF hands
  <2>1. CASE hands
    BY <1>1, <1>2, <1>12, <2>1
  <2>2. CASE ~hands /\ r.cancel
    BY <1>1, <1>2, <2>2
  <2>3. CASE ~hands /\ ~r.cancel
    BY <1>1, <1>2, <1>12, <2>3
  <2> QED  BY <2>1, <2>2, <2>3
<1> QED  BY <1>11, <1>13, WorkKeepsInv

\* recordTerminalReceipt: whoever knows the outcome may record it.
LEMMA TerminalKeepsInv ==
  ASSUME DispatchInv, NEW p \in Dispatchers, RecordTerminalReceipt(p)
  PROVE  DispatchInv' /\ provider' = provider
<1> DEFINE r == copies[p].record
<1>1. /\ IsStored(p) /\ ~IsSettled(r) /\ r.events + 2 <= MaxRecordEvents
      /\ UNCHANGED <<dispatchRow, leaseClock, runHead, provider>>
  BY DEF RecordTerminalReceipt
<1>2. /\ r \in Records /\ RecordFits(r) /\ r.events \in Nat /\ r.events < MaxRecordEvents
      /\ provider \in [launched : BOOLEAN, call : ProviderCalls]
  BY <1>1, StoredCopy, DispatchBoundsAssumption DEF DispatchInv, DispatchTypeOK, Records
<1>3. PICK outcome \in {"succeeded", "failed"},
           taken \in {r} \cup {RecordHandle(r, h) : h \in {k \in Handles : AcceptsHandle(r, k)}} :
        copies' = [copies EXCEPT ![p].record = Evolve(taken, outcome)]
  BY DEF RecordTerminalReceipt
<1>4. Follows(r, taken, 1) /\ taken.cancel = r.cancel /\ ~IsSettled(taken)
  <2>1. Follows(r, r, 1)
    BY <1>2 DEF Follows, KeepsRecord
  <2>2. \A h \in Handles : AcceptsHandle(r, h) =>
          Follows(r, RecordHandle(r, h), 1) /\ RecordHandle(r, h).cancel = r.cancel
          /\ ~IsSettled(RecordHandle(r, h))
    BY <1>1, <1>2, HandleFollows DEF AcceptsHandle
  <2> QED  BY <1>1, <1>3, <2>1, <2>2
<1>5. /\ taken \in Records /\ RecordFits(taken) /\ taken.events < MaxRecordEvents
      /\ outcome \in DispatchPhases
  BY <1>1, <1>2, <1>3, <1>4, DispatchBoundsAssumption DEF Follows, Records, DispatchPhases
<1>6. Follows(taken, Evolve(taken, outcome), 1) /\ Evolve(taken, outcome).cancel = taken.cancel
  BY <1>4, <1>5, EvolveFollows
<1>7. Follows(r, Evolve(taken, outcome), 2) /\ Evolve(taken, outcome).cancel = r.cancel
  BY <1>2, <1>4, <1>5, <1>6, FollowsTwice
<1>8. Works(p)
  BY <1>1, <1>3, <1>7, RecordWork
<1> QED  BY <1>1, <1>2, <1>8, WorkKeepsInv

\* auditLateHandle.
LEMMA AuditKeepsInv ==
  ASSUME DispatchInv, NEW p \in Dispatchers, AuditLateHandle(p)
  PROVE  DispatchInv' /\ provider' = provider
<1> DEFINE r == copies[p].record
<1>1. /\ IsStored(p) /\ ~IsSettled(r) /\ r.events < MaxRecordEvents
      /\ UNCHANGED <<dispatchRow, leaseClock, runHead, provider>>
  BY DEF AuditLateHandle
<1>2. r \in Records /\ RecordFits(r) /\ provider \in [launched : BOOLEAN, call : ProviderCalls]
  BY <1>1, StoredCopy DEF DispatchInv, DispatchTypeOK
<1>3. PICK h \in Handles : AcceptsHandle(r, h) /\ copies' = [copies EXCEPT ![p].record = RecordHandle(r, h)]
  BY DEF AuditLateHandle
<1>4. Follows(r, RecordHandle(r, h), 1) /\ RecordHandle(r, h).cancel = r.cancel
  BY <1>1, <1>2, <1>3, HandleFollows DEF AcceptsHandle
<1>5. Follows(r, RecordHandle(r, h), 2)
  BY <1>2, <1>4, DispatchBoundsAssumption DEF Follows, Records
<1>6. Works(p)
  BY <1>1, <1>3, <1>4, <1>5, RecordWork
<1> QED  BY <1>1, <1>2, <1>6, WorkKeepsInv

-----------------------------------------------------------------------------
(* The store *)

\* createBoundAttempt: a new copy knows of no row.
LEMMA BindKeepsInv ==
  ASSUME DispatchInv, NEW p \in Dispatchers, BindAttempt(p)
  PROVE  DispatchInv' /\ provider' = provider
<1> DEFINE c == [base |-> NoRow, lease |-> NoLease, record |-> Planned]
<1>1. /\ copies' = [copies EXCEPT ![p] = c] /\ UNCHANGED <<dispatchRow, leaseClock, runHead, provider>>
      /\ copies \in [Dispatchers -> Copies \cup {NoCopy}]
  BY DEF BindAttempt, DispatchInv, DispatchTypeOK
<1>2. c \in Copies /\ RecordFits(Planned)
  BY DispatchBoundsAssumption DEF Copies, Records, Planned, DispatchPhases, RecordFits
<1>3. Held' = Held \cup {p} /\ copies'[p] = c /\ \A q \in Dispatchers \ {p} : copies'[q] = copies[q]
  BY <1>1, <1>2, NoCopyAssumption DEF Held
<1> HIDE DEF c
<1>4. c.base = NoRow /\ c.lease = NoLease /\ c.record = Planned
  BY DEF c
<1>5. DispatchTypeOK'
  BY <1>1, <1>2 DEF DispatchInv, DispatchTypeOK
<1>6. BasesAreOld' /\ HolderIsTold'
  BY <1>1, <1>3, <1>4 DEF DispatchInv, BasesAreOld, HolderIsTold, LeaseFollowed, Held
<1>7. ChangesAreOrdered'
  <2>1. \A q \in Held \cup {p} : ChangeFits(q, copies'[q].base, copies'[q].lease, copies'[q].record)
    BY <1>2, <1>3, <1>4 DEF DispatchInv, ChangesAreOrdered, ChangeFits, Held
  <2> QED  BY <2>1, <1>1, <1>3 DEF ChangesAreOrdered, ChangeFits, LeaseFollowed
<1>8. RowFits' /\ CopiesAreShort'
  BY <1>1, <1>3, <1>4 DEF DispatchInv, RowFits, CopiesAreShort, LeaseIsShort, Held
<1> QED  BY <1>1, <1>5, <1>6, <1>7, <1>8 DEF DispatchInv

\* dispatchAuthority: a copy that is read is the row.
LEMMA LoadKeepsInv ==
  ASSUME DispatchInv, NEW p \in Dispatchers, LoadDispatch(p)
  PROVE  DispatchInv' /\ provider' = provider
<1> DEFINE c == [base |-> dispatchRow, lease |-> dispatchRow.lease, record |-> dispatchRow.record]
<1>1. /\ copies' = [copies EXCEPT ![p] = c] /\ UNCHANGED <<dispatchRow, leaseClock, runHead, provider>>
      /\ copies \in [Dispatchers -> Copies \cup {NoCopy}]
      /\ dispatchRow # NoRow /\ dispatchRow \in Rows /\ leaseClock \in Nat
      /\ RecordFits(dispatchRow.record) /\ LeaseIsShort(dispatchRow.lease)
  BY DispatchBoundsAssumption DEF LoadDispatch, DispatchInv, DispatchTypeOK, RowFits
<1>2. c \in Copies /\ dispatchRow.lease \in Leases \cup {NoLease} /\ dispatchRow.record \in Records
  BY <1>1 DEF Copies, Rows
<1>3. Held' = Held \cup {p} /\ copies'[p] = c /\ \A q \in Dispatchers \ {p} : copies'[q] = copies[q]
  BY <1>1, <1>2, NoCopyAssumption DEF Held
<1> HIDE DEF c
<1>4. c.base = dispatchRow /\ c.lease = dispatchRow.lease /\ c.record = dispatchRow.record
  BY DEF c
<1>5. DispatchTypeOK'
  BY <1>1, <1>2 DEF DispatchInv, DispatchTypeOK
<1>6. LeaseFollowed(dispatchRow.lease, dispatchRow.lease)
  BY <1>2, DispatchBoundsAssumption DEF LeaseFollowed, Leases
<1>7. BasesAreOld' /\ HolderIsTold'
  BY <1>1, <1>3, <1>4, <1>6 DEF DispatchInv, BasesAreOld, HolderIsTold, LeaseFollowed, Held
<1>8. ChangesAreOrdered'
  <2>1. \A q \in Held \cup {p} : ChangeFits(q, copies'[q].base, copies'[q].lease, copies'[q].record)
    BY <1>1, <1>2, <1>3, <1>4 DEF DispatchInv, ChangesAreOrdered, ChangeFits, Held, KeepsRecord
  <2> QED  BY <2>1, <1>1, <1>3 DEF ChangesAreOrdered, ChangeFits, LeaseFollowed
<1>9. RowFits' /\ CopiesAreShort'
  BY <1>1, <1>3, <1>4 DEF DispatchInv, RowFits, CopiesAreShort, LeaseIsShort, Held
<1> QED  BY <1>1, <1>5, <1>7, <1>8, <1>9 DEF DispatchInv

\* A process that dies leaves the others what they know.
LEMMA LoseKeepsInv ==
  ASSUME DispatchInv, NEW p \in Dispatchers, LoseCopy(p)
  PROVE  DispatchInv' /\ provider' = provider
<1>1. /\ copies' = [copies EXCEPT ![p] = NoCopy] /\ UNCHANGED <<dispatchRow, leaseClock, runHead, provider>>
      /\ copies \in [Dispatchers -> Copies \cup {NoCopy}]
  BY DEF LoseCopy, DispatchInv, DispatchTypeOK
<1>2. Held' = Held \ {p} /\ \A q \in Held' : copies'[q] = copies[q]
  BY <1>1 DEF Held
<1>3. DispatchTypeOK'
  BY <1>1 DEF DispatchInv, DispatchTypeOK
<1>4. BasesAreOld' /\ HolderIsTold' /\ RowFits' /\ CopiesAreShort'
  BY <1>1, <1>2 DEF DispatchInv, BasesAreOld, HolderIsTold, LeaseFollowed, RowFits, CopiesAreShort, LeaseIsShort
<1>5. ChangesAreOrdered'
  BY <1>1, <1>2 DEF DispatchInv, ChangesAreOrdered, ChangeFits, LeaseFollowed
<1> QED  BY <1>1, <1>3, <1>4, <1>5 DEF DispatchInv

\* What the compare-and-swap replaces is what the copy was made from.
LEMMA PersistReplacesBase ==
  ASSUME DispatchInv, NEW p \in Dispatchers, PersistDispatchAuthority(p)
  PROVE  /\ p \in Held
         /\ dispatchRow = NoRow => copies[p].base = NoRow
         /\ dispatchRow # NoRow =>
              /\ copies[p].base # NoRow /\ copies[p].base.lease = dispatchRow.lease
              /\ copies[p].base.record = dispatchRow.record
         /\ dispatchRow' = [lease |-> copies[p].lease, record |-> copies[p].record, cursor |-> runHead]
         /\ copies' = [copies EXCEPT ![p] = [base |-> dispatchRow', lease |-> copies[p].lease,
                                             record |-> copies[p].record]]
         /\ UNCHANGED <<leaseClock, runHead, provider>>
<1> DEFINE stored == [lease |-> copies[p].lease, record |-> copies[p].record, cursor |-> runHead]
<1>1. /\ copies[p] # NoCopy /\ Matches(copies[p].base)
      /\ dispatchRow' = stored /\ copies' = [copies EXCEPT ![p].base = stored]
      /\ UNCHANGED <<leaseClock, runHead, provider>>
  BY DEF PersistDispatchAuthority
<1>2. copies \in [Dispatchers -> Copies \cup {NoCopy}] /\ copies[p] \in Copies
  BY <1>1 DEF DispatchInv, DispatchTypeOK
<1> HIDE DEF stored
<1>3. [copies[p] EXCEPT !.base = stored] =
        [base |-> stored, lease |-> copies[p].lease, record |-> copies[p].record]
  BY <1>2 DEF Copies
<1>4. copies' = [copies EXCEPT ![p] = [copies[p] EXCEPT !.base = stored]]
  BY <1>1, <1>2
<1> QED  BY <1>1, <1>3, <1>4 DEF Matches, Held, stored

\* What is stored follows what was stored.
LEMMA StoredFollows ==
  ASSUME DispatchInv, NEW p \in Dispatchers, PersistDispatchAuthority(p), dispatchRow # NoRow
  PROVE  /\ KeepsRecord(dispatchRow.record, copies[p].record)
         /\ LeaseFollowed(dispatchRow.lease, copies[p].lease)
         /\ copies[p].record.cancel # dispatchRow.record.cancel =>
              dispatchRow.lease # NoLease /\ dispatchRow.lease.owner = p
<1>1. /\ p \in Held /\ copies[p].base # NoRow /\ copies[p].base.lease = dispatchRow.lease
      /\ copies[p].base.record = dispatchRow.record
  BY PersistReplacesBase
<1>2. ChangeFits(p, copies[p].base, copies[p].lease, copies[p].record)
  BY <1>1 DEF DispatchInv, ChangesAreOrdered
<1>3. dispatchRow.lease \in Leases \cup {NoLease}
  BY DEF DispatchInv, DispatchTypeOK, Rows
<1>4. LeaseFollowed(dispatchRow.lease, dispatchRow.lease)
  BY <1>3, DispatchBoundsAssumption DEF LeaseFollowed, Leases
<1> QED  BY <1>1, <1>2, <1>4 DEF ChangeFits

\* persistDispatchAuthorityAtomic.
LEMMA PersistKeepsInv ==
  ASSUME DispatchInv, NEW p \in Dispatchers, PersistDispatchAuthority(p)
  PROVE  DispatchInv' /\ provider' = provider
<1> DEFINE c == [base |-> dispatchRow', lease |-> copies[p].lease, record |-> copies[p].record]
<1>1. /\ p \in Held /\ copies' = [copies EXCEPT ![p] = c]
      /\ dispatchRow' = [lease |-> copies[p].lease, record |-> copies[p].record, cursor |-> runHead]
      /\ UNCHANGED <<leaseClock, runHead, provider>>
  BY PersistReplacesBase
<1>2. /\ copies \in [Dispatchers -> Copies \cup {NoCopy}] /\ copies[p] \in Copies
      /\ leaseClock \in Nat /\ runHead \in 0..MaxRunHeads
      /\ ChangeFits(p, copies[p].base, copies[p].lease, copies[p].record) /\ LeaseIsShort(copies[p].lease)
      /\ RecordFits(copies[p].record)
  BY <1>1, DispatchBoundsAssumption DEF DispatchInv, DispatchTypeOK, Held, ChangesAreOrdered, CopiesAreShort, ChangeFits
<1>3. /\ dispatchRow' \in Rows /\ dispatchRow' # NoRow
      /\ dispatchRow'.lease = copies[p].lease /\ dispatchRow'.record = copies[p].record
  BY <1>1, <1>2, NoRowAssumption DEF Rows, Copies
<1>4. /\ c \in Copies /\ c.base = dispatchRow' /\ c.lease = dispatchRow'.lease
      /\ c.record = dispatchRow'.record
  BY <1>2, <1>3 DEF Copies
<1> HIDE DEF c
<1>5. /\ Held' = Held /\ copies'[p] = c
      /\ \A q \in Dispatchers \ {p} : copies'[q] = copies[q]
  BY <1>1, <1>2, <1>4, NoCopyAssumption DEF Held
<1>6. DispatchTypeOK'
  BY <1>1, <1>2, <1>3, <1>4 DEF DispatchInv, DispatchTypeOK
<1>7. dispatchRow'.lease \in Leases \cup {NoLease} /\ LeaseFollowed(dispatchRow'.lease, dispatchRow'.lease)
  BY <1>3, DispatchBoundsAssumption DEF LeaseFollowed, Leases, Rows
<1>8. ASSUME NEW q \in Held, q # p, copies[q].base # NoRow
      PROVE  /\ dispatchRow # NoRow /\ LeaseFollowed(copies[q].base.lease, dispatchRow.lease)
             /\ LeaseFollowed(copies[q].base.lease, dispatchRow'.lease)
             /\ copies[q].base.lease \in Leases \cup {NoLease}
  <2>1. dispatchRow # NoRow /\ LeaseFollowed(copies[q].base.lease, dispatchRow.lease)
    BY <1>8 DEF DispatchInv, BasesAreOld
  <2>2. LeaseFollowed(dispatchRow.lease, dispatchRow'.lease)
    BY <1>3, <2>1, StoredFollows
  <2>3. copies[q].base.lease \in Leases \cup {NoLease} /\ dispatchRow.lease \in Leases \cup {NoLease}
    BY <1>8, <2>1 DEF DispatchInv, DispatchTypeOK, Copies, Rows, Held
  <2> QED  BY <1>2, <1>7, <2>1, <2>2, <2>3, LeaseFollowedTwice
<1>9. BasesAreOld'
  <2>1. \A q \in Held : copies'[q].base # NoRow => LeaseFollowed(copies'[q].base.lease, dispatchRow'.lease)
    BY <1>4, <1>5, <1>7, <1>8 DEF Held
  <2> QED  BY <1>1, <1>3, <1>5, <2>1 DEF BasesAreOld, LeaseFollowed
<1>10. HolderIsTold'
  <2>1. ASSUME NEW q \in Held, q # p, copies[q].base # NoRow, copies[q].base.lease # NoLease,
               copies[q].base.lease.owner = q, leaseClock < copies[q].base.lease.expires
        PROVE  copies[q].base.record.cancel = dispatchRow'.record.cancel
    <3>1. copies[q].base.record.cancel = dispatchRow.record.cancel
      BY <2>1 DEF DispatchInv, HolderIsTold
    <3>2. /\ dispatchRow # NoRow /\ copies[q].base.lease \in Leases
          /\ dispatchRow.lease \in Leases \cup {NoLease}
          /\ LeaseFollowed(copies[q].base.lease, dispatchRow.lease)
      BY <1>8, <2>1 DEF DispatchInv, DispatchTypeOK, Rows
    <3>3. dispatchRow.lease.owner = q
      BY <1>2, <2>1, <3>2, OneHolder
    <3> QED  BY <1>3, <2>1, <3>1, <3>2, <3>3, StoredFollows
  <2>2. \A q \in Held : LET base == copies'[q].base IN
          base # NoRow /\ base.lease # NoLease /\ base.lease.owner = q /\ leaseClock < base.lease.expires =>
            base.record.cancel = dispatchRow'.record.cancel
    BY <1>4, <1>5, <2>1 DEF Held
  <2> QED  BY <1>1, <1>5, <2>2 DEF HolderIsTold
<1>11. ChangesAreOrdered'
  <2>1. ChangeFits(p, c.base, c.lease, c.record)
    BY <1>2, <1>3, <1>4 DEF ChangeFits, KeepsRecord
  <2>2. \A q \in Held : ChangeFits(q, copies'[q].base, copies'[q].lease, copies'[q].record)
    BY <1>5, <2>1 DEF DispatchInv, ChangesAreOrdered, Held
  <2> QED  BY <2>2, <1>1, <1>5 DEF ChangesAreOrdered, ChangeFits, LeaseFollowed
<1>12. RowFits' /\ CopiesAreShort'
  BY <1>1, <1>2, <1>3, <1>4, <1>5 DEF DispatchInv, RowFits, CopiesAreShort, LeaseIsShort, Held
<1> QED  BY <1>1, <1>6, <1>9, <1>10, <1>11, <1>12 DEF DispatchInv

-----------------------------------------------------------------------------
(* What goes on around *)

\* Time only takes leases away.
LEMMA TickKeepsInv ==
  ASSUME DispatchInv, TickLease
  PROVE  DispatchInv' /\ provider' = provider
<1>1. /\ leaseClock' = leaseClock + 1 /\ UNCHANGED <<dispatchRow, copies, runHead, provider>>
      /\ leaseClock \in Nat /\ leaseClock' \in 0..MaxTime
  BY DispatchBoundsAssumption DEF TickLease, DispatchInv, DispatchTypeOK
<1>2. DispatchTypeOK'
  BY <1>1 DEF DispatchInv, DispatchTypeOK
<1>3. Held' = Held /\ \A q \in Held : copies[q] \in Copies
  BY <1>1 DEF Held, DispatchInv, DispatchTypeOK
<1>4. \A a, b \in Leases \cup {NoLease} : LeaseFollowed(a, b) => LeaseFollowed(a, b)'
  BY <1>1, DispatchBoundsAssumption DEF LeaseFollowed, Leases
<1>5. \A a \in Leases \cup {NoLease} : LeaseIsShort(a) => LeaseIsShort(a)'
  BY <1>1, DispatchBoundsAssumption DEF LeaseIsShort, Leases
<1>6. /\ dispatchRow # NoRow => dispatchRow.lease \in Leases \cup {NoLease}
      /\ \A q \in Held : copies[q].lease \in Leases \cup {NoLease}
      /\ \A q \in Held : copies[q].base # NoRow => copies[q].base.lease \in Leases \cup {NoLease}
  BY <1>3 DEF DispatchInv, DispatchTypeOK, Copies, Rows
<1>7. BasesAreOld'
  BY <1>1, <1>3, <1>4, <1>6 DEF DispatchInv, BasesAreOld
<1>8. HolderIsTold'
  BY <1>1, <1>3, <1>6, DispatchBoundsAssumption DEF DispatchInv, HolderIsTold, Leases
<1>9. ChangesAreOrdered'
  <2>1. ASSUME NEW q \in Held PROVE ChangeFits(q, copies[q].base, copies[q].lease, copies[q].record)'
    BY <1>1, <1>4, <1>6 DEF DispatchInv, ChangesAreOrdered, ChangeFits
  <2> QED  BY <1>1, <1>3, <2>1 DEF ChangesAreOrdered
<1>10. RowFits' /\ CopiesAreShort'
  BY <1>1, <1>3, <1>5, <1>6 DEF DispatchInv, RowFits, CopiesAreShort
<1> QED  BY <1>1, <1>2, <1>7, <1>8, <1>9, <1>10 DEF DispatchInv

\* Nothing the invariant speaks of changes with the run's head.
LEMMA HeadKeepsInv ==
  ASSUME DispatchInv, \/ MoveRunHead \/ UNCHANGED dispatchVars
  PROVE  DispatchInv' /\ provider' = provider
<1>1. /\ UNCHANGED <<dispatchRow, copies, leaseClock, provider>> /\ runHead' \in 0..MaxRunHeads
  BY DispatchBoundsAssumption DEF MoveRunHead, dispatchVars, DispatchInv, DispatchTypeOK
<1> QED  BY <1>1 DEF DispatchInv, DispatchTypeOK, BasesAreOld, ChangesAreOrdered, HolderIsTold, RowFits,
     CopiesAreShort, Held, ChangeFits, LeaseFollowed, LeaseIsShort

-----------------------------------------------------------------------------
(* The theorems *)

LEMMA InitEstablishesInv == DispatchInit => DispatchInv /\ CallsAreFenced
BY DispatchBoundsAssumption DEF DispatchInit, DispatchInv, CallsAreFenced, DispatchTypeOK, ProviderCalls,
   Held, BasesAreOld, ChangesAreOrdered, HolderIsTold, RowFits, CopiesAreShort

LEMMA StepKeepsInv ==
  ASSUME DispatchInv, CallsAreFenced, [DispatchNext]_dispatchVars
  PROVE  DispatchInv' /\ CallsAreFenced'
<1>1. ASSUME NEW p \in Dispatchers,
             \/ BindAttempt(p) \/ LoadDispatch(p) \/ LoseCopy(p)
             \/ AcquireLease(p) \/ RenewLease(p) \/ CommitLaunchIntent(p)
             \/ RecordTerminalReceipt(p) \/ AuditLateHandle(p) \/ PersistDispatchAuthority(p)
      PROVE  DispatchInv' /\ provider' = provider
  BY <1>1, BindKeepsInv, LoadKeepsInv, LoseKeepsInv, AcquireKeepsInv, RenewKeepsInv, CommitKeepsInv,
     TerminalKeepsInv, AuditKeepsInv, PersistKeepsInv
<1>2. ASSUME NEW p \in Dispatchers, DispatchCommittedIntent(p)
      PROVE  DispatchInv' /\ CallsAreFenced'
  BY <1>2, DispatchKeepsInv DEF CallsAreFenced
<1>3. ASSUME NEW p \in Dispatchers, NEW cancels \in BOOLEAN, RecoverDispatch(p, cancels)
      PROVE  DispatchInv' /\ CallsAreFenced'
  BY <1>3, RecoverKeepsInv DEF CallsAreFenced
<1>4. CASE TickLease \/ MoveRunHead \/ UNCHANGED dispatchVars
  BY <1>4, TickKeepsInv, HeadKeepsInv DEF CallsAreFenced
<1> QED  BY <1>1, <1>2, <1>3, <1>4 DEF DispatchNext, CallsAreFenced

LEMMA InvHolds == DispatchSpec => [](DispatchInv /\ CallsAreFenced)
BY InitEstablishesInv, StepKeepsInv, PTL DEF DispatchSpec

\* The copies, the row and the calls have the types of the source's records
\* in every state.
THEOREM TypeCorrect == DispatchSpec => []DispatchTypeOK
<1>1. DispatchInv => DispatchTypeOK
  BY DEF DispatchInv
<1> QED  BY <1>1, InvHolds, PTL

\* The provider is called only by the process whose lease is stored, and is
\* not asked to launch once a cancellation is stored, for any number of
\* processes and however long a process sleeps between its steps
\* (assertLeaseFence, acquireLease, persistDispatchAuthorityAtomic).
THEOREM CallsFenced == DispatchSpec => []CallsAreFenced
BY InvHolds, PTL

\* No process takes back what is stored, whatever copy it wakes up with
\* (the compare-and-swap of persistDispatchAuthorityAtomic).
THEOREM StoredStays == DispatchSpec => DispatchNeverGoesBack
<1> DEFINE Goes == dispatchRow # NoRow =>
       LET was == dispatchRow.record  is == dispatchRow'.record IN
       /\ IsSettled(was) => is.phase = was.phase
       /\ was.cancel => is.cancel
       /\ was.operation => is.operation
       /\ was.handle # Unset => is.handle = was.handle
       /\ Token(dispatchRow'.lease) >= Token(dispatchRow.lease)
<1>1. ASSUME DispatchInv, DispatchNext, dispatchRow # NoRow  PROVE Goes
  <2>1. dispatchRow.lease \in Leases \cup {NoLease} /\ Token(dispatchRow.lease) \in Nat
    BY <1>1, DispatchBoundsAssumption DEF DispatchInv, DispatchTypeOK, Rows, Leases, Token
  <2>2. ASSUME NEW p \in Dispatchers, PersistDispatchAuthority(p)  PROVE Goes
    <3>1. /\ dispatchRow' = [lease |-> copies[p].lease, record |-> copies[p].record, cursor |-> runHead]
          /\ p \in Held
      BY <1>1, <2>2, PersistReplacesBase
    <3>2. /\ KeepsRecord(dispatchRow.record, dispatchRow'.record)
          /\ LeaseFollowed(dispatchRow.lease, dispatchRow'.lease)
          /\ dispatchRow'.lease \in Leases \cup {NoLease}
      BY <1>1, <2>2, <3>1, StoredFollows DEF DispatchInv, DispatchTypeOK, Copies, Held
    <3>3. Token(dispatchRow'.lease) >= Token(dispatchRow.lease)
      BY <2>1, <3>2, NoLeaseAssumption, DispatchBoundsAssumption DEF LeaseFollowed, Leases, Token
    <3> QED  BY <3>2, <3>3 DEF KeepsRecord
  <2>3. CASE UNCHANGED dispatchRow
    BY SMTT(30), <2>1, <2>3
  <2>4. ASSUME NEW p \in Dispatchers,
             \/ BindAttempt(p) \/ LoadDispatch(p) \/ LoseCopy(p) \/ AcquireLease(p) \/ RenewLease(p)
             \/ CommitLaunchIntent(p) \/ DispatchCommittedIntent(p)
             \/ \E cancels \in BOOLEAN : RecoverDispatch(p, cancels)
             \/ RecordTerminalReceipt(p) \/ AuditLateHandle(p)
        PROVE UNCHANGED dispatchRow
    BY <2>4 DEF BindAttempt, LoadDispatch, LoseCopy, AcquireLease, RenewLease, CommitLaunchIntent,
       DispatchCommittedIntent, RecoverDispatch, RecordTerminalReceipt, AuditLateHandle
  <2> QED  BY <1>1, <2>2, <2>3, <2>4 DEF DispatchNext, MoveRunHead, TickLease
<1>2. DispatchInv /\ [DispatchNext]_dispatchVars => [Goes]_dispatchVars
  BY <1>1
<1> QED  BY <1>2, InvHolds, PTL DEF DispatchSpec, DispatchNeverGoesBack
=============================================================================
