-------------------------------- MODULE RunView --------------------------------
(* The view of a run that the renderers of the CLI fold from its events     *)
(* (run-view-model.ts, run-plan.ts, run-topology.ts).  The plain renderer    *)
(* folds one event after the other (Reduce); the interactive one folds what  *)
(* has arrived since it last drew (ReduceBatch), where runs of created and   *)
(* of started events take a path of their own.                               *)
(*                                                                           *)
(* The plan comes first and fills the view with placeholders; an invocation  *)
(* that is created takes the place of the placeholder of its plan node, or   *)
(* of the only one of its task.  Containers carry the counts of everything   *)
(* below them, kept up to date by deltas along their ancestors and counted   *)
(* anew when the topology changes.  The order of the rows, timestamps,       *)
(* labels, retained output and values, and the limit on dependency edges     *)
(* are left out.                                                             *)
EXTENDS Integers, Sequences, FiniteSets, SequencesExt, FiniteSetsExt, Functions

CONSTANT NoId  \* no parent, no placeholder

Containers == {"workflow", "loop", "choice"}
EndStates == {"succeeded", "failed", "skipped", "cancelled"}
NodeStates == {"queued", "waiting", "active", "retrying"} \cup EndStates

Placeholder(n) == <<"plan", n>>
IsPlaceholder(id) == id[1] = "plan"

(* createRunViewModel. *)
EmptyView(limit) ==
    [nodes |-> <<>>, children |-> {}, dependents |-> {}, byPlan |-> <<>>, byTask |-> {},
     expanded |-> {}, roots |-> {}, state |-> "idle", limit |-> limit, omitted |-> 0,
     planned |-> {}, dynamic |-> 0]

-----------------------------------------------------------------------------
(* Topology and aggregates. *)

NoneOf == [s \in NodeStates |-> 0]
One(state) == [NoneOf EXCEPT ![state] = 1]
Plus(a, b) == [s \in NodeStates |-> a[s] + b[s]]
Minus(a, b) == [s \in NodeStates |-> a[s] - b[s]]

(* The chain of parents that are in the view, from a parent id upwards. *)
ChainFrom(nodes, parent) ==
    LET up[k \in 0..Cardinality(DOMAIN nodes)] ==
            IF k = 0 THEN {parent} \cap DOMAIN nodes
            ELSE LET a == up[k - 1] IN a \cup ({nodes[n].parent : n \in a} \cap DOMAIN nodes)
    IN  up[Cardinality(DOMAIN nodes)]

CountBelow(nodes, id) ==
    LET below == {n \in DOMAIN nodes : id \in ChainFrom(nodes, nodes[n].parent)}
    IN  [s \in NodeStates |-> Cardinality({n \in below : nodes[n].state = s})]

(* rootInvocationIds. *)
RootsOf(nodes) == {n \in DOMAIN nodes : nodes[n].parent \notin DOMAIN nodes}

(* rebuildTopology, rebuildAggregates. *)
Rebuild(view) ==
    LET nodes == view.nodes IN
    [view EXCEPT
        !.children = {<<nodes[n].parent, n>> : n \in {m \in DOMAIN nodes : nodes[m].parent # NoId}},
        !.dependents = UNION {{<<d, n>> : d \in nodes[n].deps} : n \in DOMAIN nodes},
        !.roots = RootsOf(nodes),
        !.nodes = [n \in DOMAIN nodes |->
            [nodes[n] EXCEPT !.below = IF nodes[n].kind \in Containers
                                       THEN CountBelow(nodes, n) ELSE One(nodes[n].state)]]]
(* What a rename leaves of a set of ids. *)
Swap(S, old, new) == IF old \in S THEN (S \ {old}) \cup {new} ELSE S

(* applyAncestorAggregateDelta: the containers above count it too. *)
AddAbove(nodes, parent, delta) ==
    LET above == {a \in ChainFrom(nodes, parent) : nodes[a].kind \in Containers} IN
    [n \in DOMAIN nodes |->
        IF n \in above THEN [nodes[n] EXCEPT !.below = Plus(@, delta)] ELSE nodes[n]]

(* updateNode: a node that is not in the view is not added by an update. *)
UpdateNode(view, id, updated) ==
    IF id \notin DOMAIN view.nodes THEN view ELSE
    LET current == view.nodes[id]
        stored == IF updated.kind \in Containers THEN updated
                  ELSE [updated EXCEPT !.below = One(updated.state)]
    IN  [view EXCEPT !.nodes = AddAbove([@ EXCEPT ![id] = stored], updated.parent,
                                        Minus(One(updated.state), One(current.state)))]

(* updateNodeDependencies: "deps" holds the new dependencies, if any. *)
UpdateDependencies(view, id, deps, updated) ==
    IF id \notin DOMAIN view.nodes \/ deps = {} THEN UpdateNode(view, id, updated)
    ELSE LET new == CHOOSE d \in deps : TRUE
             old == view.nodes[id].deps
         IN  [UpdateNode(view, id, [updated EXCEPT !.deps = new]) EXCEPT
                !.dependents = (@ \ {<<d, id>> : d \in old}) \cup {<<d, id>> : d \in new}]

(* The parents from an invocation upwards, the one that is not shown too. *)
Above(nodes, id) ==
    {nodes[n].parent : n \in {id} \cup ChainFrom(nodes, nodes[id].parent)} \ {NoId}

(* revealAncestors. *)
Reveal(view, id) ==
    IF id \notin DOMAIN view.nodes THEN view
    ELSE [view EXCEPT !.expanded = @ \cup (Above(view.nodes, id) \cap DOMAIN view.nodes)]

(* getRunVisibleRows: from the roots down, below what is expanded. *)
Visible(view) ==
    LET known == DOMAIN view.nodes
        shown[k \in 0..Cardinality(known)] ==
            IF k = 0 THEN view.roots \cap known
            ELSE LET open == shown[k - 1] \cap view.expanded
                     below == {p[2] : p \in {q \in view.children : q[1] \in open}}
                 IN  shown[k - 1] \cup (below \cap known)
    IN  shown[Cardinality(known)]

-----------------------------------------------------------------------------
(* Placeholders. *)

(* indexPlanPlaceholders. *)
Index(view) ==
    LET held == {n \in DOMAIN view.nodes : IsPlaceholder(n)} IN
    [view EXCEPT
        !.byPlan = [p \in {view.nodes[n].plan : n \in held} |->
                        CHOOSE n \in held : view.nodes[n].plan = p],
        !.byTask = {<<view.nodes[n].task, n>> : n \in held}]

Only(S) == IF Cardinality(S) = 1 THEN CHOOSE x \in S : TRUE ELSE NoId
OfTask(view, task) == Only({p[2] : p \in {q \in view.byTask : q[1] = task}})
OfPlanNode(view, n) == IF n \in DOMAIN view.byPlan THEN view.byPlan[n] ELSE NoId

(* plannedInvocationForCreated: only a task is looked for by its id. *)
PlannedForCreated(view, e) ==
    IF e.plan \in DOMAIN view.byPlan \/ e.subject.type # "task"
    THEN OfPlanNode(view, e.plan)
    ELSE OfTask(view, e.subject.name)

(* plannedInvocationForSubject. *)
PlannedForSubject(view, subject) ==
    LET checks == {n \in Range(view.byPlan) :
                      /\ n \in DOMAIN view.nodes /\ view.nodes[n].kind = "validation"
                      /\ subject.type = "task" \/ view.nodes[n].task = subject.name}
    IN  IF subject.type \in {"choice", "validation-gate"} THEN OfPlanNode(view, subject.name)
        ELSE IF OfTask(view, subject.name) # NoId THEN OfTask(view, subject.name)
        ELSE IF subject.type = "workflow" THEN NoId ELSE Only(checks)

(* reconcilePlanPlaceholder: one placeholder is renamed, and what refers to *)
(* it is found through the indexes.                                         *)
Rename(view, old, new) ==
    IF old \notin DOMAIN view.nodes THEN view ELSE
    LET held == view.nodes[old]
        below == {p[2] : p \in {q \in view.children : q[1] = old}}
        waiting == {p[2] : p \in {q \in view.dependents : q[1] = old}}
        nodes == [n \in (DOMAIN view.nodes \ {old}) \cup {new} |->
                    LET node == view.nodes[IF n = new THEN old ELSE n] IN
                    [node EXCEPT !.parent = IF n \in below THEN new ELSE @,
                                 !.deps = IF n \in waiting THEN Swap(@, old, new) ELSE @]]
        (* The entry of the old id takes the place of one of the new id. *)
        Kept(index) == IF \E q \in index : q[1] = old THEN {q \in index : q[1] # new} ELSE index
        Moved(index, keys) ==
            {<<IF q[1] = old THEN new ELSE q[1],
               IF q[1] \in keys /\ q[2] = old THEN new ELSE q[2]>> : q \in Kept(index)}
    IN  [view EXCEPT
            !.nodes = nodes,
            !.children = Moved(@, {held.parent}),
            !.dependents = Moved(@, held.deps),
            !.expanded = Swap(@, old, new),
            !.roots = Swap(@, old, new),
            !.byPlan = [n \in DOMAIN @ \ {held.plan} |-> @[n]],
            !.byTask = @ \ {<<held.task, old>>}]
-----------------------------------------------------------------------------
(* One event. *)

(* emptyNode.  The task of a row is what its subject names. *)
EmptyNode(e) ==
    [plan |-> e.plan, task |-> e.subject.name, kind |-> e.kind, parent |-> e.parent,
     deps |-> e.deps, state |-> "queued", below |-> NoneOf]

(* reduceCreated for an invocation that has a row.  References the view     *)
(* does not know yet leave what the plan said.                              *)
Recreate(view, e) ==
    LET held == view.nodes[e.id]
        deps == IF e.deps \subseteq DOMAIN view.nodes THEN e.deps ELSE held.deps
        parent == IF e.parent \in DOMAIN view.nodes \cup {NoId} THEN e.parent ELSE held.parent
        next == [view EXCEPT !.nodes[e.id] =
                    [@ EXCEPT !.kind = e.kind, !.parent = parent, !.deps = deps]]
    IN  IF parent = held.parent /\ deps = held.deps THEN next ELSE Rebuild(next)

(* reduceCreated for an invocation that has none. *)
AddNode(view, e) ==
    LET nodes == (e.id :> EmptyNode(e)) @@ view.nodes
        next == [view EXCEPT
                    !.nodes = nodes,
                    !.children = @ \cup (IF e.parent = NoId THEN {} ELSE {<<e.parent, e.id>>}),
                    !.dependents = @ \cup {<<d, e.id>> : d \in e.deps},
                    !.roots = RootsOf(nodes),
                    !.expanded = IF e.kind \in Containers THEN @ \cup {e.id} ELSE @]
    IN  IF \E q \in view.children \cup view.dependents : q[1] = e.id
        THEN Rebuild(next)
        ELSE [next EXCEPT !.nodes = AddAbove(@, e.parent, One("queued"))]

(* reduceCreated. *)
ReduceCreated(view, e) ==
    LET held == PlannedForCreated(view, e)
        known == IF held = NoId THEN view ELSE Rename(view, held, e.id)
        isNew == e.id \notin DOMAIN known.nodes
        counted == IF held = NoId /\ isNew /\ e.kind = "task" /\ e.plan \notin view.planned
                   THEN [known EXCEPT !.dynamic = @ + 1] ELSE known
    IN  IF ~isNew THEN Recreate(known, e)
        ELSE IF held # NoId THEN known
        ELSE IF Cardinality(DOMAIN view.nodes) >= view.limit
        THEN [counted EXCEPT !.omitted = @ + 1]
        ELSE AddNode(counted, e)

(* reducePlan: rows for the plan nodes that have none, within the limit. *)
ReducePlan(view, rows) ==
    LET unknown == SelectSeq(rows, LAMBDA r : \A n \in DOMAIN view.nodes : view.nodes[n].plan # r.plan)
        room == Max({0, view.limit - Cardinality(DOMAIN view.nodes)})
        accepted == Range(SubSeq(unknown, 1, Min({room, Len(unknown)})))
        IdOf(p) == IF \E n \in DOMAIN view.nodes : view.nodes[n].plan = p
                   THEN CHOOSE n \in DOMAIN view.nodes : view.nodes[n].plan = p
                   ELSE Placeholder(p)
        added == [id \in {Placeholder(r.plan) : r \in accepted} |->
                    LET r == CHOOSE x \in accepted : Placeholder(x.plan) = id IN
                    EmptyNode([r EXCEPT !.parent = IF @ = NoId THEN NoId ELSE IdOf(@),
                                        !.deps = {IdOf(d) : d \in @}])]
        shown == {id \in DOMAIN added : added[id].kind \in Containers}
        next == Index(Rebuild([view EXCEPT !.nodes = added @@ @, !.expanded = @ \cup shown]))
    IN  [next EXCEPT !.state = "active",
                     !.omitted = @ + Len(unknown) - Cardinality(accepted),
                     !.planned = {r.plan : r \in {x \in Range(rows) : x.kind = "task"}}]

(* materializePlanPlaceholder. *)
Materialize(view, e) ==
    LET held == PlannedForSubject(view, e.subject) IN
    IF e.id \in DOMAIN view.nodes \/ held = NoId THEN view ELSE Rename(view, held, e.id)

Begun(node, e) == [node EXCEPT !.state = "active", !.task = e.subject.name]

(* reduceRunViewModel for an invocation that ends, or is tried again. *)
ReduceEnd(view, e) ==
    LET ended == [view.nodes[e.id] EXCEPT !.state = e.type] IN
    CASE e.type = "skipped" -> UpdateDependencies(view, e.id, e.deps, ended)
      [] e.type = "failed" -> Reveal(UpdateNode(view, e.id, ended), e.id)
      [] OTHER -> UpdateNode(view, e.id, ended)

(* reduceRunViewModel.  Progress does not take an end back; the others do. *)
Reduce(view, e) ==
    LET node == view.nodes[e.id]
        shown == Materialize(view, e) IN
    CASE e.type = "run" -> [view EXCEPT !.state = e.state]
      [] e.type = "plan" -> ReducePlan(view, e.rows)
      [] e.type = "created" -> [ReduceCreated(view, e) EXCEPT !.state = "active"]
      [] e.type = "started" ->
            Reveal(UpdateNode(shown, e.id, Begun(shown.nodes[e.id], e)), e.id)
      [] e.type = "progress" ->
            UpdateDependencies(view, e.id, e.deps,
                IF node.state \in EndStates THEN node ELSE [node EXCEPT !.state = e.state])
      [] OTHER -> ReduceEnd(view, e)

(* One event after the other, as CIRenderer.handle does. *)
ReduceEach(view, events) == FoldLeft(Reduce, view, events)

-----------------------------------------------------------------------------
(* A batch. *)

(* The rows that are replaced get their new ids everywhere at once, "rows"   *)
(* being the rows with what else changes of them.                            *)
ReplaceRows(view, replaced, rows) ==
    LET New(id) == IF id \in DOMAIN replaced THEN replaced[id] ELSE id
        Old(id) == CHOOSE o \in DOMAIN view.nodes : New(o) = id
        nodes == [id \in {New(o) : o \in DOMAIN view.nodes} |->
                    [rows[Old(id)] EXCEPT !.parent = New(@), !.deps = {New(d) : d \in @}]]
    IN  Index(Rebuild([view EXCEPT !.nodes = nodes, !.expanded = {New(o) : o \in @}]))

(* reconcileCreatedBatch: which placeholder each created event replaces,    *)
(* all looked up in the view before the batch.                              *)
CreatedReplacements(view, events) ==
    LET held == {n \in DOMAIN view.nodes : IsPlaceholder(n)}
        For(e) ==
            LET byPlan == {n \in held : view.nodes[n].plan = e.plan} IN
            IF byPlan # {} THEN CHOOSE n \in byPlan : TRUE
            ELSE IF e.subject.type # "task" THEN NoId
            ELSE Only({n \in held : view.nodes[n].task = e.subject.name})
        Add(replaced, e) ==
            IF For(e) = NoId \/ e.id \in DOMAIN view.nodes \/ For(e) \in DOMAIN replaced
            THEN replaced ELSE (For(e) :> e.id) @@ replaced
    IN  FoldLeft(Add, <<>>, events)

(* reduceCreatedBatch: what replaced nothing is reduced by itself. *)
ReduceCreatedBatch(view, events) ==
    LET replaced == IF Len(events) < 2 THEN <<>> ELSE CreatedReplacements(view, events)
        EventOf(id) == CHOOSE e \in Range(events) : e.id = id
        fresh == [n \in DOMAIN replaced |-> LET e == EventOf(replaced[n]) IN
            [view.nodes[n] EXCEPT !.kind = e.kind, !.parent = e.parent, !.deps = e.deps]]
        next == IF replaced = <<>> THEN view ELSE ReplaceRows(view, replaced, fresh @@ view.nodes)
        rest == SelectSeq(events, LAMBDA e : e.id \notin Range(replaced))
    IN  ReduceEach([next EXCEPT !.state = "active"], rest)

(* reconcileStartedBatch. *)
StartedReplacements(view, events) ==
    LET Add(replaced, e) ==
            LET held == PlannedForSubject(view, e.subject) IN
            IF e.id \in DOMAIN view.nodes \cup Range(replaced) \/ held \in DOMAIN replaced \cup {NoId}
            THEN replaced ELSE (held :> e.id) @@ replaced
    IN  FoldLeft(Add, <<>>, events)

(* A faulty ReduceStartedBatch: the counts stay as they are. *)
StartedBatchUncounted(view, events) ==
    LET replaced == StartedReplacements(view, events)
        known == IF replaced = <<>> THEN view ELSE ReplaceRows(view, replaced, view.nodes)
        Begin(v, e) ==
            IF e.id \notin DOMAIN v.nodes THEN v
            ELSE [v EXCEPT !.nodes[e.id] = Begun(@, e), !.expanded = @ \cup Above(v.nodes, e.id)]
    IN  FoldLeft(Begin, known, events)

(* reduceStartedBatch: the counts are made anew at its end. *)
ReduceStartedBatch(view, events) ==
    LET replaced == StartedReplacements(view, events)
        known == IF replaced = <<>> THEN view ELSE ReplaceRows(view, replaced, view.nodes)
        Begin(v, e) ==
            IF e.id \notin DOMAIN v.nodes THEN v
            ELSE [v EXCEPT !.nodes[e.id] = Begun(@, e), !.expanded = @ \cup Above(v.nodes, e.id)]
    IN  Rebuild(FoldLeft(Begin, known, events))

(* collectEventBatch: the batches of a sequence of events, in their order. *)
SameBatch(e, f) == e.type = f.type /\ e.type \in {"created", "started"}
Batches(events) ==
    LET Add(batches, e) ==
            IF batches # <<>> /\ SameBatch(e, Head(Last(batches)))
            THEN ReplaceAt(batches, Len(batches), Append(Last(batches), e))
            ELSE Append(batches, <<e>>)
    IN  FoldLeft(Add, <<>>, events)

(* reduceRunEventBatch. *)
ReduceBatch(view, events) ==
    LET Step(v, batch) ==
            CASE Head(batch).type = "created" -> ReduceCreatedBatch(v, batch)
              [] Head(batch).type = "started" /\ Len(batch) > 1 -> ReduceStartedBatch(v, batch)
              [] OTHER -> Reduce(v, Head(batch))
    IN  FoldLeft(Step, view, Batches(events))

-----------------------------------------------------------------------------
(* The plain renderer of a run (ci-renderer.ts): a line for each event that  *)
(* is news, annotations of failures, a heartbeat while the run is active,    *)
(* and a summary at the end.  Of an invocation the last line is kept; what   *)
(* the lines say beside the state, retained output and values, durations and *)
(* costs are left out.                                                       *)

(* createRunViewModel and the fields of CIRenderer.  "outcome" is what the   *)
(* renderer was told of the end of the run.                                  *)
NewRenderer(limit) ==
    [view |-> EmptyView(limit), lastProgress |-> <<>>, last |-> <<>>, warned |-> {},
     heartbeat |-> FALSE, finished |-> FALSE]

RunEnds == {"succeeded", "failed", "cancelled"}

(* The key of a progress event: what it waits for decides the phase. *)
ProgressKey(e) == <<e.state, e.deps>>

(* A faulty IsTerminalNode: progress that comes after the end is written. *)
NeverTerminal(r, id) == FALSE

(* isTerminalNode. *)
IsTerminalNode(r, id) == id \in DOMAIN r.view.nodes /\ r.view.nodes[id].state \in EndStates

(* lineFor of a progress event: not what was said last, nothing once the     *)
(* invocation has ended, and nothing that leaves state and phase as they     *)
(* were.                                                                     *)
IsNews(r, e) ==
    LET known == e.id \in DOMAIN r.lastProgress
        same == known /\ r.lastProgress[e.id][1] = e.state
    IN  /\ ~(known /\ r.lastProgress[e.id] = ProgressKey(e))
        /\ ~IsTerminalNode(r, e.id)
        /\ ~(e.id \in DOMAIN r.view.nodes /\ r.view.nodes[e.id].state = e.state /\ same)

Say(r, id, line) == [r EXCEPT !.last = (id :> line) @@ @]

(* lineFor; the view has been folded already, "r" still has the one before.  *)
(* The key of an invocation that has ended decides nothing: it is dropped.   *)
Lines(r, e) ==
    CASE e.type = "started" -> Say(r, e.id, e.type)
      [] e.type \in EndStates ->
            [Say(r, e.id, e.type) EXCEPT !.lastProgress = [n \in DOMAIN @ \ {e.id} |-> @[n]]]
      [] e.type = "progress" ->
            LET told == IF IsNews(r, e) THEN Say(r, e.id, e.state) ELSE r IN
            IF IsTerminalNode(r, e.id) THEN told
            ELSE [told EXCEPT !.lastProgress = (e.id :> ProgressKey(e)) @@ @]
      [] OTHER -> r

(* writeAnnotation: the invocations that were annotated as failed. *)
Annotated(r, e) == IF e.type = "failed" THEN r.warned \cup {e.id} ELSE r.warned

(* startHeartbeat, stopHeartbeat. *)
Beat(r, e) ==
    IF e.type # "run" THEN r.heartbeat ELSE e.state \notin RunEnds

(* handle. *)
Handle(r, e) ==
    IF r.finished THEN r
    ELSE [Lines(r, e) EXCEPT
            !.view = Reduce(r.view, e),
            !.heartbeat = Beat(r, e),
            !.warned = Annotated(r, e)]

HandleEach(r, events) == FoldLeft(Handle, r, events)

(* handleRunnerFailure: the run has failed, whatever its events told. *)
HandleRunnerFailure(r) ==
    IF r.finished THEN r ELSE [r EXCEPT !.heartbeat = FALSE, !.view.state = "failed"]

(* emitHeartbeat: the invocations it names. *)
HeartbeatNames(r) ==
    IF r.finished \/ ~r.heartbeat \/ r.view.state # "active" THEN {}
    ELSE {n \in DOMAIN r.view.nodes : r.view.nodes[n].state \in {"active", "retrying"}}

(* finish. *)
FinishRenderer(r) == [r EXCEPT !.finished = TRUE, !.heartbeat = FALSE]

(* aggregateView. *)
CountOf(nodes) ==
    [s \in NodeStates |-> Cardinality({n \in DOMAIN nodes : nodes[n].state = s})]

(* createSummary: the counts, the tasks that have ended and the failures.    *)
Summary(r) ==
    LET nodes == r.view.nodes IN
    [outcome |-> r.view.state,
     counts |-> CountOf(nodes),
     tasks |-> {n \in DOMAIN nodes : nodes[n].kind \notin Containers /\ nodes[n].state \in EndStates},
     failures |-> {n \in DOMAIN nodes : nodes[n].state = "failed"}]
===============================================================================
