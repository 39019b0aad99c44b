------------------------------ MODULE RunDisplay ------------------------------
(* A run (WorkflowRun) and the two renderers that show it (RunView).  Its   *)
(* events wait in the pipe to the CLI; the renderers see what has arrived,  *)
(* the plain one event by event (CIRenderer), the interactive one as        *)
(* a batch when the turn ends (HumanTTYRenderer.flushEvents).  When the run *)
(* is over, or its process is lost with events in the pipe, they finish.    *)
(* The children of a nested workflow and the attempts of a repeat are the   *)
(* invocations that no plan of the run announces by its id; of their runs   *)
(* only the events are modelled.                                            *)
EXTENDS WorkflowRun, RunView

CONSTANTS
    Limits,       \* limits.nodes of the renderers
    MaxPending,   \* the run goes on while the pipe holds at most this much
    MaxAttempts   \* attempts of a repeat

(* What is shown of a plan: the order of its nodes, the kind, the subject    *)
(* and the authored dependencies of every row, the attempt of a repeat and   *)
(* the children of a nested workflow.                                        *)
ASSUME DisplayAssumption ==
    \A p \in Plans :
        /\ ToSet(p.order) = DOMAIN p.kind /\ Len(p.order) = Cardinality(DOMAIN p.kind)
        /\ \A n \in DOMAIN p.kind : p.own[n] \subseteq p.deps[n]
        /\ DOMAIN p.row = DOMAIN p.kind \cup DOMAIN p.source \cup DOMAIN p.inside
        /\ \A i \in DOMAIN p.inside : p.inside[i] \in DOMAIN p.kind

VARIABLES
    inner,    \* the invocations inside nodes, and their states
    pending,  \* events in the pipe
    ci,       \* CIRenderer
    drawn,    \* HumanTTYRenderer.view
    lost      \* the runner ended with events in the pipe

displayVars == <<inner, pending, ci, drawn, lost>>
allVars == <<vars, displayVars>>

-----------------------------------------------------------------------------
(* Events. *)

Id(i) == <<"run", i>>
Ids(S) == {Id(i) : i \in S}
Kind(i) == plan.row[i].kind
Subject(i) == plan.row[i].subject
ChoiceOf(a) == CHOOSE c \in ChoiceNodes : a \in ArmsOf(c)
Inside(n) == {i \in DOMAIN plan.inside : plan.inside[i] = n}

(* dependencyInvocationIds: an arm depends on its session source. *)
DependsOn(i) ==
    CASE i \in Nodes -> plan.deps[i]
      [] i \in Arms -> {plan.source[i]} \ {NoSource}
      [] OTHER -> {}

Created(id, i, parent, deps) ==
    [type |-> "created", id |-> id, plan |-> i, kind |-> Kind(i), subject |-> Subject(i),
     parent |-> parent, deps |-> deps]

(* The lifecycle events of an invocation.  An arm that is skipped waits for  *)
(* its choice, a node for its dependencies.                                  *)
Event(id, i, what) ==
    CASE what = "started" -> [type |-> what, id |-> id, subject |-> Subject(i)]
      [] what = "skipped" -> [type |-> what, id |-> id,
                              deps |-> {IF i \in Arms THEN {Id(ChoiceOf(i))} ELSE Ids(DependsOn(i))}]
      [] OTHER -> [type |-> what, id |-> id]
Progress(id, state, deps) == [type |-> "progress", id |-> id, state |-> state, deps |-> deps]
RunEvent(state) == [type |-> "run", state |-> state]

(* releaseWorkspace is told as progress, and after the end of a workflow and *)
(* of a task that failed.                                                    *)
Releases == {<<"workflow", "succeeded">>, <<"workflow", "failed">>, <<"task", "failed">>}
Events(id, i, what, began) ==
    <<Event(id, i, what)>> \o
    (IF began /\ <<Kind(i), what>> \in Releases THEN <<Progress(id, "active", {})>> ELSE <<>>)

(* createSeqlanePlanSnapshot: the nodes, then what is inside them. *)
PlanEvent(p) ==
    LET Row(i, parent, deps) == [plan |-> i, kind |-> p.row[i].kind, subject |-> p.row[i].subject,
                                 parent |-> parent, deps |-> deps]
        Below(n) ==
            IF p.kind[n] = "choice"
            THEN LET arm(a) == Row(a, n, {p.source[a]} \ {NoSource})
                 IN  <<arm(p.arms[n].then), arm(p.arms[n].else)>>
            ELSE IF p.kind[n] = "repeat"
            THEN LET i == CHOOSE i \in DOMAIN p.inside : p.inside[i] = n IN <<Row(i, n, {})>>
            ELSE <<>>
    IN  [type |-> "plan",
         rows |-> [k \in DOMAIN p.order |-> Row(p.order[k], NoId, p.own[p.order[k]])]
                  \o FlattenSeq([k \in DOMAIN p.order |-> Below(p.order[k])])]

(* emitMastraInvocationTopology: the created events before the run. *)
Topology ==
    LET Arm(a, c) == Created(Id(a), a, Id(c), Ids(DependsOn(a)))
        Of(n) ==
            <<Created(Id(n), n, NoId, Ids(plan.deps[n]))>>
            \o (IF plan.deps[n] = {} THEN <<>>
                ELSE <<Progress(Id(n), "waiting", {Ids(plan.deps[n])})>>)
            \o (IF n \in ChoiceNodes
                THEN <<Arm(plan.arms[n].then, n), Arm(plan.arms[n].else, n)>> ELSE <<>>)
    IN  FlattenSeq([k \in DOMAIN plan.order |-> Of(plan.order[k])])

(* What a step of the run tells, in the order of the code: a choice starts   *)
(* before its arms are skipped and fails after; the sweep at the end of the  *)
(* run takes a choice before its arms.                                       *)
Told ==
    LET New(i) == LET told == SubSeq(log'[i], Len(log[i]) + 1, Len(log'[i]))
                      began == "started" \in ToSet(log[i])
                  IN  FlattenSeq([k \in DOMAIN told |-> Events(Id(i), i, told[k], began)])
        OfArms(n) == IF n \in ChoiceNodes THEN New(plan.arms[n].then) \o New(plan.arms[n].else) ELSE <<>>
        Of(n) == IF New(n) = <<>> THEN OfArms(n) ELSE <<Head(New(n))>> \o OfArms(n) \o Tail(New(n))
    IN  FlattenSeq([k \in DOMAIN plan.order |-> Of(plan.order[k])])

(* The terminal event of the run: see startRun. *)
Outcome(status) ==
    CASE status = "success" -> <<RunEvent("succeeded")>>
      [] status = "failed" -> <<RunEvent("failed")>>
      [] status \in {"canceled", "unstarted"} -> <<RunEvent("cancelled")>>
      [] OTHER -> <<>>

-----------------------------------------------------------------------------
(* The pipe and the renderers. *)

Send(events) == pending' = pending \o events
Flowing == Len(pending) <= MaxPending

(* The plan is sent first, and the topology before the run is created. *)
DisplayInit ==
    /\ Init
    /\ inner = <<>>
    /\ pending = <<RunEvent("active"), PlanEvent(plan)>> \o Topology
    /\ \E limit \in Limits : ci = NewRenderer(limit)
    /\ drawn = ci.view /\ lost = FALSE

(* What has arrived when the turn ends is drawn at once. *)
Draw ==
    /\ pending # <<>>
    /\ \E k \in DOMAIN pending :
          LET arrived == SubSeq(pending, 1, k) IN
          /\ ci' = HandleEach(ci, arrived)
          /\ drawn' = ReduceBatch(drawn, arrived)
          /\ pending' = SubSeq(pending, k + 1, Len(pending))
    /\ UNCHANGED <<vars, inner, lost>>

(* reportRunnerFailure, both renderers. *)
RunnerFails ==
    /\ Over /\ pending # <<>> /\ ~lost
    /\ lost' = TRUE /\ pending' = <<>>
    /\ ci' = HandleRunnerFailure(ci) /\ drawn' = [drawn EXCEPT !.state = "failed"]
    /\ UNCHANGED <<vars, inner>>

(* closeRunResources finishes the renderer last. *)
FinishRun ==
    /\ Over /\ pending = <<>> /\ ~ci.finished
    /\ ci' = FinishRenderer(ci)
    /\ UNCHANGED <<vars, inner, pending, drawn, lost>>

-----------------------------------------------------------------------------
(* Inside a node: the attempts of a repeat, the children of a workflow. *)

Of(n) == {id \in DOMAIN inner : plan.inside[inner[id].item] = n}
StateOf(S, state) == {id \in S : inner[id].state = state}
Attempt(n, k) == <<"attempt", n, k>>
Child(i) == <<"child", i>>

(* dispatchRepeatAttempt: an attempt follows one whose result was refused.   *)
Dispatch(n) ==
    LET k == Cardinality(Of(n)) + 1
        i == CHOOSE i \in Inside(n) : TRUE
        id == Attempt(n, k)
    IN  /\ plan.kind[n] = "repeat" /\ phase[n] = "executing" /\ ~aborted
        /\ k <= MaxAttempts
        /\ Of(n) = StateOf(Of(n), "succeeded")
        /\ inner' = (id :> [item |-> i, state |-> "created"]) @@ inner
        /\ Send(<<Created(id, i, Id(n), IF k = 1 THEN {} ELSE {Attempt(n, k - 1)})>>)

(* The child run of a workflow creates its invocations. *)
Nest(n) ==
    LET items == SetToSeq(Inside(n)) IN
    /\ plan.kind[n] = "task" /\ phase[n] = "executing" /\ items # <<>> /\ Of(n) = {}
    /\ inner' = [id \in {Child(i) : i \in Inside(n)} |-> [item |-> id[2], state |-> "created"]] @@ inner
    /\ Send([k \in DOMAIN items |-> Created(Child(items[k]), items[k], Id(n), {})])

(* An invocation inside a node starts, and ends. *)
InnerStep(id) ==
    /\ phase[plan.inside[inner[id].item]] = "executing"
    /\ \E what \in {"started", "succeeded", "failed"} :
          /\ inner[id].state = IF what = "started" THEN "created" ELSE "started"
          /\ what # "succeeded" => ~aborted
          /\ inner' = [inner EXCEPT ![id].state = what]
          /\ Send(Events(id, inner[id].item, what, TRUE))

Inner ==
    /\ Flowing
    /\ \/ \E n \in Nodes : Dispatch(n) \/ Nest(n)
       \/ \E id \in DOMAIN inner : InnerStep(id)
    /\ UNCHANGED <<vars, ci, drawn, lost>>

(* The nodes whose callback ends: what is inside has succeeded if the node   *)
(* has, and only a cancelled invocation may be silent.                      *)
Returning == {n \in Nodes : Inside(n) # {} /\ phase[n] = "executing" /\ phase'[n] # "executing"}
InnerAgrees ==
    \A n \in Returning :
        /\ Has(n, "succeeded")' => Of(n) # {} /\ Of(n) = StateOf(Of(n), "succeeded")
        /\ StateOf(Of(n), "started") # {} => aborted

(* The child run of a workflow tells the invocations that never started. *)
Swept == {id \in DOMAIN inner : inner[id].state = "created"
                                /\ plan.inside[inner[id].item] \in Returning
                                /\ plan.kind[plan.inside[inner[id].item]] = "task"}

(* A step of the run. *)
RunStep ==
    /\ Flowing
    /\ Advance \/ Abort
    /\ InnerAgrees
    /\ UNCHANGED <<ci, drawn, lost>>
    /\ \E what \in IF aborted THEN {"skipped", "cancelled"} ELSE {"skipped"} :
          LET swept == SetToSeq(Swept) IN
          /\ inner' = [id \in DOMAIN inner |->
                          IF id \in Swept THEN [inner[id] EXCEPT !.state = what] ELSE inner[id]]
          /\ Send([k \in DOMAIN swept |-> Event(swept[k], inner[swept[k]].item, what)]
                  \o Told \o (IF run' = run THEN <<>> ELSE Outcome(run')))

(* The runtime reports what an invocation waits for or does. *)
Report ==
    /\ pending = <<>>
    /\ \E i \in Invocations :
          \/ phase[i] = "admission" /\ Send(<<Progress(Id(i), "waiting", {})>>)
          \/ phase[i] = "executing" /\ Send(<<Progress(Id(i), "active", {})>>)
    /\ UNCHANGED <<vars, inner, ci, drawn, lost>>

Shown == ci.finished /\ UNCHANGED allVars

DisplayNext == RunStep \/ Inner \/ Report \/ Draw \/ RunnerFails \/ FinishRun \/ Shown

(* The run and what is inside its nodes go on, and the pipe is read. *)
Arrive == \E k \in DOMAIN pending : pending' = SubSeq(pending, k + 1, Len(pending))
DisplaySpec ==
    /\ DisplayInit /\ [][DisplayNext]_allVars
    /\ WF_vars(Flowing /\ Advance /\ InnerAgrees) /\ WF_inner(Inner) /\ WF_pending(Arrive)

-----------------------------------------------------------------------------
(* Properties. *)

plain == ci.view

(* The indexes of a view and the counts of its containers are those of its  *)
(* rows, although most events change them by deltas only.                   *)
Sound(view) ==
    LET Counts(nodes) == [n \in {m \in DOMAIN nodes : nodes[m].kind \in Containers} |-> nodes[n].below]
        fresh == Rebuild(view)
    IN  /\ view.children = fresh.children
        /\ view.dependents = fresh.dependents
        /\ view.roots = fresh.roots
        /\ Counts(view.nodes) = Counts(fresh.nodes)

(* Both renderers show the same, however the events were cut into batches:   *)
(* the same rows with the same states, relations and counts (reduceCreated   *)
(* against reduceCreatedBatch, updateNode against reduceStartedBatch), and   *)
(* both as if they had been made anew.  Only while a row of the batched view *)
(* waits for an invocation that is not shown yet do the dependencies differ. *)
ViewsAgree ==
    LET Rows(view) == [n \in DOMAIN view.nodes |-> [view.nodes[n] EXCEPT !.below = NoneOf, !.deps = {}]]
        Deps(view) == [n \in DOMAIN view.nodes |-> view.nodes[n].deps]
        Dangling(view) == UNION Range(Deps(view)) \ DOMAIN view.nodes
    IN  /\ Sound(plain) /\ Sound(drawn) /\ Rows(plain) = Rows(drawn)
        /\ \A part \in {"children", "roots", "expanded", "state", "omitted", "dynamic", "byPlan", "byTask"} :
              plain[part] = drawn[part]
        /\ Dangling(drawn) = {} => Deps(plain) = Deps(drawn) /\ plain.dependents = drawn.dependents

(* What has arrived is shown: an invocation whose events have all arrived    *)
(* has a row of its own in the state its last event told, below the          *)
(* invocation that contains it, unless the limit on rows has cut it.  The    *)
(* rows of what runs or has failed are not hidden below a closed one.        *)
Showing(event) == CASE event = "created" -> {"queued", "waiting"}
                    [] event = "started" -> {"active", "retrying"}
                    [] OTHER -> {event}
Arrived(id) == ~lost /\ \A k \in DOMAIN pending : pending[k].type \notin {"run", "plan"} => pending[k].id # id
ShowsTheRun ==
    LET ParentOf(i) == IF i \in Arms THEN Id(ChoiceOf(i)) ELSE NoId
        Fits(id, parent, event) ==
            Arrived(id) /\ id \in DOMAIN plain.nodes =>
                plain.nodes[id].parent = parent /\ plain.nodes[id].state \in Showing(event)
    IN  /\ \A i \in Invocations : Fits(Id(i), ParentOf(i), Last(log[i]))
        /\ \A id \in DOMAIN inner : Fits(id, Id(plan.inside[inner[id].item]), inner[id].state)
        /\ plain.omitted = 0 =>
              \A id \in Ids(Invocations) \cup DOMAIN inner : Arrived(id) => id \in DOMAIN plain.nodes
        /\ {n \in DOMAIN drawn.nodes : drawn.nodes[n].state \in {"active", "failed"}} \subseteq Visible(drawn)

(* The last line of an invocation is what the view shows of it, although     *)
(* progress that is no news is not written; a heartbeat names nothing that   *)
(* has been said to be over (lineFor, emitHeartbeat).                        *)
LogFollows ==
    /\ \A id \in DOMAIN ci.last \cap DOMAIN plain.nodes :
          plain.nodes[id].state \in Showing(ci.last[id]) \cup {ci.last[id]}
    /\ \A id \in HeartbeatNames(ci) : id \in DOMAIN ci.last => ci.last[id] \notin EndStates
    /\ ci.heartbeat <=> plain.state = "active" /\ ~ci.finished

(* The summary tells the outcome of the run, or its failure when its process *)
(* was lost; a run that succeeded leaves no row that has not ended, and the  *)
(* failures are those that were annotated (createSummary, finish).           *)
SummaryTruthful ==
    ci.finished =>
        LET summary == Summary(ci) IN
        /\ summary.outcome = IF lost THEN "failed" ELSE Outcome(run)[1].state
        /\ summary.failures = ci.warned \cap DOMAIN plain.nodes
        /\ summary.outcome = "succeeded" /\ plain.omitted = 0 =>
              \A s \in NodeStates \ EndStates : summary.counts[s] = 0

(* Both views show the run as it is, and the same of it, and so do the lines *)
(* and the summary of the plain renderer.                                    *)
ViewsTruthful == ViewsAgree /\ ShowsTheRun /\ LogFollows /\ SummaryTruthful

=============================================================================
