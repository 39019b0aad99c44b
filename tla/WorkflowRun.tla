------------------------------ MODULE WorkflowRun ------------------------------
(* One run of a compiled plan: mastra-plan-compiler.ts lowers the plan to   *)
(* layers of Mastra steps, mastra-choice-compiler.ts lowers a choice to a   *)
(* branch workflow inside one step, and mastra-execution.ts tells every     *)
(* created invocation how it ended, the ones that never ran included.       *)
(*                                                                         *)
(* Mastra itself is external: the steps of a layer run concurrently, the    *)
(* next layer starts when all of them have succeeded, and after a           *)
(* cancellation a settled step is reported with its own status or as        *)
(* canceled.  Admission is JointAdmission's, the inside of a task is        *)
(* TaskInvocation's and that of a repeat RepeatLoop's; here an invocation   *)
(* is admitted or not, and succeeds or not.                                 *)
(* A workflow node is a "task" and every arm is a task: a workflow arm is   *)
(* one without a session source whose preflight passes.                     *)
EXTENDS Naturals, Sequences, SequencesExt, FiniteSetsExt

CONSTANTS
    Plans,    \* the lowered plans that may be run
    NoSource  \* not a node: the arm reuses no session

(* A plan: the kind and the lowered dependsOn of every node, the two arms  *)
(* of a choice, and the session source of an arm.  Validation has refused  *)
(* dependencies that form a cycle and ids that are used twice; the arms of *)
(* a choice are named after it.                                            *)
ASSUME PlanAssumption ==
    \A p \in Plans :
        /\ \A n \in DOMAIN p.kind :
              /\ p.kind[n] \in {"task", "check", "repeat", "choice"}
              /\ p.deps[n] \subseteq DOMAIN p.kind
        /\ IsFiniteSet(DOMAIN p.kind)
        /\ \E rank \in [DOMAIN p.kind -> 0..Cardinality(DOMAIN p.kind)] :
              \A n \in DOMAIN p.kind : \A d \in p.deps[n] : rank[d] < rank[n]
        /\ DOMAIN p.arms = {n \in DOMAIN p.kind : p.kind[n] = "choice"}
        /\ \A c \in DOMAIN p.arms :
              /\ p.arms[c].then \in DOMAIN p.source /\ p.arms[c].else \in DOMAIN p.source
              /\ p.arms[c].then # p.arms[c].else
        /\ \A c, d \in DOMAIN p.arms :
              {p.arms[c].then, p.arms[c].else} \cap {p.arms[d].then, p.arms[d].else} # {} => c = d
        /\ DOMAIN p.source \cap DOMAIN p.kind = {}
        /\ \A a \in DOMAIN p.source :
              p.source[a] \in {NoSource} \cup {n \in DOMAIN p.kind : p.kind[n] = "task"}
        /\ NoSource \notin DOMAIN p.kind

VARIABLES
    plan,     \* the plan that is run
    aborted,  \* the run has been asked to cancel
    run,      \* status of the Mastra run
    layer,    \* the layer that is running
    step,     \* status of the Mastra step of a node
    phase,    \* how far the callback of a node or of an arm has come
    log,      \* lifecycle events of every invocation
    gate      \* ChoiceSourceGate.states

vars == <<plan, aborted, run, layer, step, phase, log, gate>>

Nodes == DOMAIN plan.kind
ChoiceNodes == DOMAIN plan.arms
Arms == DOMAIN plan.source
Invocations == Nodes \cup Arms
ArmsOf(c) == {plan.arms[c].then, plan.arms[c].else}

Ends == {"succeeded", "failed", "skipped", "cancelled"}
Settled == {"success", "failed", "canceled"}

TypeOK ==
    /\ plan \in Plans
    /\ aborted \in BOOLEAN
    /\ run \in Settled \cup {"creating", "running", "unstarted"}
    /\ layer \in Nat
    /\ step \in [Nodes -> Settled \cup {"none", "running"}]
    /\ phase \in [Invocations -> {"idle", "input", "condition", "branching", "gate",
                                  "admission", "executing", "done", "thrown"}]
    /\ log \in [Invocations -> Seq(Ends \cup {"created", "started"})]
    /\ gate \in [Nodes -> {"none", "succeeded", "failed"}]

(* emitMastraInvocationTopology has created the invocations. *)
Init ==
    /\ plan \in Plans
    /\ aborted = FALSE
    /\ run = "creating" /\ layer = 0
    /\ step = [n \in Nodes |-> "none"]
    /\ phase = [i \in Invocations |-> "idle"]
    /\ log = [i \in Invocations |-> <<"created">>]
    /\ gate = [n \in Nodes |-> "none"]

-----------------------------------------------------------------------------
(* Operators. *)

(* nodeLayers: a node is one layer above its highest dependency. *)
NodeLayers(p) ==
    LET L[n \in DOMAIN p.kind] ==
            IF p.deps[n] = {} THEN 0 ELSE 1 + Max({L[d] : d \in p.deps[n]})
    IN  L

LayerOf == NodeLayers(plan)
InLayer(l) == {n \in Nodes : LayerOf[n] = l}
Ended(i) == \E k \in DOMAIN log[i] : log[i][k] \in Ends

(* What Mastra reports of a step that has thrown, and of one that returned. *)
Threw == IF aborted THEN {"failed", "canceled"} ELSE {"failed"}
Returned == IF aborted THEN {"success", "canceled"} ELSE {"success"}

Tell(i, events) == log' = [log EXCEPT ![i] = @ \o events]
MoveTo(i, p) == phase' = [phase EXCEPT ![i] = p]

(* The step of a node settles. *)
Settle(n, statuses) ==
    \E s \in statuses :
        /\ step' = [step EXCEPT ![n] = s]
        /\ phase' = [phase EXCEPT ![n] = IF s = "success" THEN "done" ELSE "thrown"]

(* ExecutionContext.events.emit: the gate sees what the context emits. *)
Observed(n, outcome) == gate' = [gate EXCEPT ![n] = outcome]

(* The steps of a layer start. *)
StartLayer(l) ==
    /\ layer' = l
    /\ step' = [n \in Nodes |-> IF n \in InLayer(l) THEN "running" ELSE step[n]]
    /\ phase' = [i \in Invocations |->
                    IF i \in InLayer(l)
                    THEN IF plan.kind[i] = "choice" THEN "condition" ELSE "input"
                    ELSE phase[i]]

(* A faulty Targets: a choice answers for itself only. *)
TargetsAlone(n) == {n}

(* A choice answers for its arms. *)
Targets(n) == {n} \cup (IF n \in ChoiceNodes THEN ArmsOf(n) ELSE {})

(* nonTerminalDisposition. *)
Disposition(status, stepStatus) ==
    CASE stepStatus = "canceled" \/ (status = "canceled" /\ stepStatus = "none") -> <<"cancelled">>
      [] status = "failed" /\ stepStatus = "none" -> <<"skipped">>
      [] OTHER -> <<>>

(* emitMastraNonTerminalInvocations. *)
TellTheRest(status) ==
    log' = [i \in Invocations |->
              IF Ended(i) \/ ~\E n \in Nodes : i \in Targets(n)
              THEN log[i]
              ELSE log[i] \o Disposition(status, step[CHOOSE n \in Nodes : i \in Targets(n)])]

-----------------------------------------------------------------------------
(* The run. *)

(* requestCancellation. *)
Abort ==
    /\ ~aborted /\ run \in {"creating", "running"}
    /\ aborted' = TRUE
    /\ UNCHANGED <<plan, run, layer, step, phase, log, gate>>

(* createRun has returned or failed.  A run that was cancelled meanwhile   *)
(* is not started; Mastra validates the workflow's input before the first  *)
(* layer.                                                                  *)
CreateRun ==
    /\ run = "creating"
    /\ \/ /\ run' = "unstarted"
          /\ UNCHANGED <<layer, step, phase, log>>
       \/ /\ ~aborted /\ run' = "running"
          /\ StartLayer(0) /\ UNCHANGED log
       \/ /\ ~aborted /\ run' = "failed" /\ TellTheRest("failed")
          /\ UNCHANGED <<layer, step, phase>>
    /\ UNCHANGED <<plan, aborted, gate>>

LayerSettled == run = "running" /\ \A n \in InLayer(layer) : step[n] \in Settled
LayerSucceeded == \A n \in InLayer(layer) : step[n] = "success"
LastLayer == InLayer(layer + 1) = {}

NextLayer ==
    /\ LayerSettled /\ LayerSucceeded /\ ~LastLayer /\ ~aborted
    /\ StartLayer(layer + 1)
    /\ UNCHANGED <<plan, aborted, run, log, gate>>

(* The Mastra run has a result, after the result step if all went well,    *)
(* and onWorkflowResult tells the invocations that have not ended.         *)
EndRun ==
    /\ LayerSettled
    /\ \E status \in Settled :
          /\ \/ status = "canceled" /\ aborted
             \/ status = "failed" /\ (~LayerSucceeded \/ LastLayer)
             \/ status = "success" /\ LayerSucceeded /\ LastLayer
          /\ run' = status
          /\ TellTheRest(status)
    /\ UNCHANGED <<plan, aborted, layer, step, phase, gate>>

-----------------------------------------------------------------------------
(* A node that is not a choice. *)

(* onInputValidationFailure tells of a parse that failed through the sink   *)
(* of the run, which the gate does not watch.                               *)
RefuseInput(n) == Settle(n, Threw) /\ Tell(n, <<"started", "failed">>)

(* The input binding is resolved and parsed.  A path that is missing       *)
(* throws before any event.  A check and a repeat start without admission, *)
(* and a repeat parses the input of its attempts only.                     *)
ResolveInput(n) ==
    /\ phase[n] = "input" /\ n \in Nodes
    /\ \/ Settle(n, Threw) /\ UNCHANGED log
       \/ plan.kind[n] # "repeat" /\ RefuseInput(n)
       \/ /\ plan.kind[n] = "task" /\ MoveTo(n, "admission")
          /\ UNCHANGED <<step, log>>
       \/ /\ plan.kind[n] \in {"check", "repeat"} /\ MoveTo(n, "executing")
          /\ Tell(n, <<"started">>) /\ UNCHANGED step
    /\ UNCHANGED <<plan, aborted, run, layer, gate>>

(* Admission is refused to an aborted task and to one whose session is     *)
(* quarantined: it throws outside the block that emits invocation.failed.  *)
Admit(n) ==
    /\ phase[n] = "admission" /\ n \in Nodes
    /\ \/ Settle(n, Threw) /\ UNCHANGED log
       \/ /\ ~aborted /\ MoveTo(n, "executing")
          /\ Tell(n, <<"started">>) /\ UNCHANGED step
    /\ UNCHANGED <<plan, aborted, run, layer, gate>>

(* A faulty Execute: a failure after the abort is swallowed. *)
ExecuteDeaf(n) ==
    /\ phase[n] = "executing" /\ n \in Nodes
    /\ \/ Settle(n, Returned) /\ Tell(n, <<"succeeded">>) /\ Observed(n, "succeeded")
       \/ ~aborted /\ Settle(n, Threw) /\ Tell(n, <<"failed">>) /\ Observed(n, "failed")
    /\ UNCHANGED <<plan, aborted, run, layer>>

(* The task ends: an aborted one that fails says nothing, an aborted       *)
(* repeat says that it is cancelled.                                       *)
Execute(n) ==
    /\ phase[n] = "executing" /\ n \in Nodes
    /\ \/ Settle(n, Returned) /\ Tell(n, <<"succeeded">>) /\ Observed(n, "succeeded")
       \/ ~aborted /\ Settle(n, Threw) /\ Tell(n, <<"failed">>) /\ Observed(n, "failed")
       \/ /\ aborted /\ Settle(n, Threw)
          /\ Tell(n, IF plan.kind[n] = "repeat" THEN <<"cancelled">> ELSE <<>>)
          /\ UNCHANGED gate
    /\ UNCHANGED <<plan, aborted, run, layer>>

-----------------------------------------------------------------------------
(* A choice and its arms. *)

(* The catch block of the choice step: what is told, and the step throws. *)
Failure == IF aborted THEN <<"cancelled">> ELSE <<"failed">>

(* The choice and the arms that are not selected hear of it. *)
Skip(c, arms, events) ==
    log' = [i \in Invocations |->
              CASE i = c -> log[i] \o events
                [] i \in arms -> Append(log[i], "skipped")
                [] OTHER -> log[i]]

(* branchWorkflow has a step for either arm, and the condition starts one.  *)
BranchTo(c, a) ==
    /\ phase' = [phase EXCEPT ![c] = "branching", ![a] = "input"]
    /\ UNCHANGED step

(* The condition is resolved: its path may be missing, it may not be a     *)
(* Boolean, or it selects an arm, whose branch run may fail to be created  *)
(* or, after a cancellation, end before the arm is reached.                *)
Choose(c) ==
    /\ phase[c] = "condition" /\ c \in ChoiceNodes
    /\ \/ Skip(c, {}, <<"started">> \o Failure) /\ Settle(c, Threw)
       \/ Skip(c, ArmsOf(c), <<"started">> \o Failure) /\ Settle(c, Threw)
       \/ \E a \in ArmsOf(c) :
             \/ /\ Skip(c, ArmsOf(c) \ {a}, <<"started">> \o Failure)
                /\ Settle(c, Threw)
             \/ /\ Skip(c, ArmsOf(c) \ {a}, <<"started">>)
                /\ BranchTo(c, a)
    /\ UNCHANGED <<plan, aborted, run, layer, gate>>

(* The model and the session of the selected arm are checked. *)
PreflightArm(a) ==
    \/ MoveTo(a, "thrown") /\ Tell(a, Failure)
    \/ MoveTo(a, IF plan.source[a] = NoSource THEN "admission" ELSE "gate") /\ UNCHANGED log

(* The arm's input, then its preflight.  A missing path throws before any  *)
(* event, a failed parse is told even after an abort.                      *)
ResolveArmInput(a) ==
    /\ phase[a] = "input" /\ a \in Arms
    /\ \/ MoveTo(a, "thrown") /\ UNCHANGED log
       \/ MoveTo(a, "thrown") /\ Tell(a, <<"failed">>)
       \/ PreflightArm(a)
    /\ UNCHANGED <<plan, aborted, run, layer, step, gate>>

(* ChoiceSourceGate.wait and the materialization of the session, which may *)
(* fail too.  Of a source that settles and an abort the first one counts.  *)
PassGate(a) ==
    /\ phase[a] = "gate" /\ a \in Arms
    /\ \/ gate[plan.source[a]] = "succeeded" /\ MoveTo(a, "admission") /\ UNCHANGED log
       \/ gate[plan.source[a]] # "none" /\ MoveTo(a, "thrown") /\ Tell(a, Failure)
       \/ aborted /\ MoveTo(a, "thrown") /\ Tell(a, Failure)
    /\ UNCHANGED <<plan, aborted, run, layer, step, gate>>

AdmitArm(a) ==
    /\ phase[a] = "admission" /\ a \in Arms
    /\ \/ MoveTo(a, "thrown") /\ UNCHANGED log
       \/ ~aborted /\ MoveTo(a, "executing") /\ Tell(a, <<"started">>)
    /\ UNCHANGED <<plan, aborted, run, layer, step, gate>>

ExecuteArm(a) ==
    /\ phase[a] = "executing" /\ a \in Arms
    /\ \/ MoveTo(a, "done") /\ Tell(a, <<"succeeded">>)
       \/ ~aborted /\ MoveTo(a, "thrown") /\ Tell(a, <<"failed">>)
       \/ aborted /\ MoveTo(a, "thrown") /\ UNCHANGED log
    /\ UNCHANGED <<plan, aborted, run, layer, step, gate>>

(* The branch run has a result.  After a cancellation it is not a success, *)
(* even when the arm has returned.                                         *)
EndChoice(c) ==
    /\ phase[c] = "branching" /\ c \in ChoiceNodes
    /\ \E a \in ArmsOf(c) :
          \/ phase[a] = "done" /\ Tell(c, <<"succeeded">>) /\ Settle(c, Returned)
          \/ phase[a] = "done" /\ aborted /\ Tell(c, Failure) /\ Settle(c, Threw)
          \/ phase[a] = "thrown" /\ Tell(c, Failure) /\ Settle(c, Threw)
    /\ UNCHANGED <<plan, aborted, run, layer, gate>>

-----------------------------------------------------------------------------
(* The specification. *)
Advance ==
    \/ CreateRun \/ NextLayer \/ EndRun
    \/ \E n \in Nodes : ResolveInput(n) \/ Admit(n) \/ Execute(n) \/ Choose(n) \/ EndChoice(n)
    \/ \E a \in Arms : ResolveArmInput(a) \/ PassGate(a) \/ AdmitArm(a) \/ ExecuteArm(a)

Over == run \in Settled \cup {"unstarted"}
Done == Over /\ UNCHANGED vars

Next == Advance \/ Abort \/ Done

(* The runtime goes on and a task that was admitted returns; nothing says  *)
(* that a run is ever cancelled.                                           *)
Spec == Init /\ [][Next]_vars /\ WF_vars(Advance)

-----------------------------------------------------------------------------
(* Properties. *)

(* No invocation ends twice or is heard of after its end, although its own *)
(* callback, the choice around it and the sweep after the run all tell how *)
(* it ended (terminalTrackingSink).                                        *)
OneEnding ==
    \A i \in Invocations : \A k \in DOMAIN log[i] :
        log[i][k] \in Ends => k = Len(log[i])

Has(i, event) == event \in ToSet(log[i])

(* Layers and gate together keep the order of the plan: a node starts only *)
(* after every dependency succeeded, an arm only after its session source  *)
(* succeeded, and the other arm never starts as a fallback.                *)
StartedInOrder ==
    /\ \A n \in Nodes : Has(n, "started") => \A d \in plan.deps[n] : Has(d, "succeeded")
    /\ \A a \in Arms : Has(a, "started") /\ plan.source[a] # NoSource => Has(plan.source[a], "succeeded")
    /\ \A c \in ChoiceNodes : \A a, b \in ArmsOf(c) : Has(a, "started") /\ Has(b, "started") => a = b

(* When a started run is over, every invocation whose step never ran,      *)
(* succeeded or was canceled has been told its end, the arms of a choice   *)
(* included (emitMastraNonTerminalInvocations).                            *)
EveryoneTold ==
    run \in Settled =>
        \A n \in Nodes : step[n] \in {"none", "success", "canceled"} =>
            /\ Ended(n)
            /\ n \in ChoiceNodes => \A a \in ArmsOf(n) : Ended(a)

(* Every invocation is told its end, and told it once.                     *)
EveryoneToldOnce == OneEnding /\ EveryoneTold

(* The invocations of a run start in the order of the plan, whichever arm  *)
(* is taken and whatever is cancelled, and each hears of one end.          *)
InvocationsOrderly == StartedInOrder /\ EveryoneToldOnce

(* A cancelled run ends, even one whose arm waits for a session source     *)
(* that will not come.                                                     *)
AbortEnds == aborted ~> Over

=============================================================================
