------------------------------- MODULE PlanProgram -------------------------------
(* A plan from its submission to the end of its run as a dependency program:*)
(* PlanCompiler.compileWorkflow validates it, orders it and lowers its      *)
(* sessions and workspaces to edges, and startCompiledWorkflow runs a step  *)
(* per node and one for the result.  A result is kept until the last        *)
(* reader that was counted when the plan was compiled has consumed it.      *)
(* The locks an invocation takes are JointAdmission's; what it does with    *)
(* them is TaskInvocation's.                                                *)
EXTENDS PlanValidation

CONSTANTS
    Plans,      \* the plans that may be submitted
    Started     \* those that are also run when they are compiled

ASSUME PlansAssumption == Started \subseteq Plans

VARIABLES
    plan,
    phase,      \* how far the plan has come, or what refused it
    graph,      \* the dependencies of the nodes, lowered
    order,      \* orderedNodes
    step,       \* the steps of the program
    results,    \* nodes with a result in context.results
    remaining,  \* context.remainingConsumers
    missing,    \* steps that found no result where a binding refers to one
    cancelled,  \* cancellationRequested, and the signal of the program
    outcome

vars == <<plan, phase, graph, order, step, results, remaining, missing, cancelled, outcome>>
programVars == <<plan, phase, graph, order, outcome, cancelled>>

Result == -3       \* "__seqlane_result"
Steps == DOMAIN step

TypeOK ==
    /\ plan \in Plans
    /\ phase \in {"submitted", "rejected", "unordered", "cyclic", "unknown", "compiled", "starting", "running", "over"}
    /\ \A n \in Steps : step[n] \in {"waiting", "executing", "done", "failed"}
    /\ results \cup missing \subseteq Steps
    /\ \A n \in DOMAIN remaining : remaining[n] \in Nat
    /\ cancelled \in BOOLEAN
    /\ outcome \in {"none", "succeeded", "failed", "cancelled"}

Init ==
    /\ plan \in Plans /\ phase = "submitted"
    /\ graph = <<>> /\ order = <<>> /\ step = <<>>
    /\ results = {} /\ remaining = <<>> /\ missing = {}
    /\ cancelled = FALSE /\ outcome = "none"

-----------------------------------------------------------------------------
(* The compilation. *)

SessionOf(p) ==
    [id \in Ids(p) |-> IF NodeOf(p, id).kind = "task" THEN NodeOf(p, id).session ELSE NoSession]

(* workspaceAccessesForNode: an arm of a choice has none before it is       *)
(* selected, and of the resources of an attempt or an evaluator the first   *)
(* one counts.                                                              *)
AccessOf(p) ==
    [id \in Ids(p) |->
        LET n == NodeOf(p, id)
        IN  CASE n.kind \in {"task", "workflow", "check"} -> n.access
              [] n.kind = "repeat" -> n.attempt.access
              [] OTHER -> {}]

(* The references of a node that are counted, once per binding. *)
Bindings(n) ==
    IF n.kind = "choice" THEN <<{n.condition}, n.then.input, n.else.input>> ELSE <<n.input>>

(* A faulty Readers: the check of a gate is counted with its input.         *)
ReadersOfBindings(p, id) ==
    Cardinality({<<i, k>> \in (DOMAIN p.nodes) \X (1..3) :
                    /\ k \in DOMAIN Bindings(p.nodes[i])
                    /\ id \in ReadNodes(Bindings(p.nodes[i])[k])})
    + (IF id \in ReadNodes(p.output) THEN 1 ELSE 0)

(* computeRemainingConsumers *)
Readers(p, id) ==
    Cardinality({<<i, k>> \in (DOMAIN p.nodes) \X (1..3) :
                    /\ k \in DOMAIN Bindings(p.nodes[i])
                    /\ id \in ReadNodes(Bindings(p.nodes[i])[k])})
    + Cardinality({i \in DOMAIN p.nodes : p.nodes[i].kind = "gate" /\ p.nodes[i].check = id})
    + (IF id \in ReadNodes(p.output) THEN 1 ELSE 0)

(* Each pass of compileWorkflow either refuses the plan or hands it on. *)
Compile ==
    /\ phase = "submitted"
    /\ LET declared == Declared(plan)
           placed == TopologicalOrder(declared)
           sessions == LowerSessions(declared, placed, SessionOf(plan))
           lowered == LowerWorkspaces(sessions, placed, AccessOf(plan))
           compiled == /\ Accepted(plan) /\ Complete(declared, placed)
                       /\ Complete(lowered, TopologicalOrder(lowered))
                       /\ UNION Range(lowered) \subseteq DOMAIN lowered
       IN  /\ phase' = IF ~Accepted(plan) THEN "rejected"
                       ELSE IF ~Complete(declared, placed) THEN "unordered"
                       ELSE IF ~Complete(lowered, TopologicalOrder(lowered)) THEN "cyclic"
                       ELSE IF ~(UNION Range(lowered) \subseteq DOMAIN lowered) THEN "unknown"
                       ELSE "compiled"
           /\ IF compiled
              THEN /\ graph' = lowered /\ order' = placed
                   /\ remaining' = [id \in Ids(plan) |-> Readers(plan, id)]
                   /\ step' = [n \in Ids(plan) \cup {Result} |-> "waiting"]
              ELSE UNCHANGED <<graph, order, remaining, step>>
    /\ UNCHANGED <<plan, results, missing, cancelled, outcome>>

-----------------------------------------------------------------------------
(* The steps of the program. *)

Above(n) == IF n = Result THEN Ids(plan) ELSE graph[n]

(* consumeBindingReferences and consumeNodeReference: a node whose last     *)
(* counted reader has been there loses its result.  "read" has a set of     *)
(* nodes for each binding.                                                  *)
Left(read) ==
    [id \in DOMAIN remaining |->
        Max({0, remaining[id] - Cardinality({k \in DOMAIN read : id \in read[k]})})]
Kept(left) == {id \in results : remaining[id] = 0 \/ left[id] > 0}

Consume(read) == remaining' = Left(read) /\ results' = Kept(Left(read))

(* results.set and releaseIfUnused *)
Retained(n, kept, left) == IF left[n] > 0 THEN kept \cup {n} ELSE kept \ {n}

Fails(n) ==
    /\ step' = [step EXCEPT ![n] = "failed"]
    /\ UNCHANGED <<results, remaining>>

(* What a step reads: the bindings of its node, the check of a gate, or the *)
(* output of the plan.                                                      *)
Reads(n) ==
    IF n = Result THEN <<ReadNodes(plan.output)>>
    ELSE LET node == NodeOf(plan, n)
         IN  IF node.kind = "gate" THEN <<ReadNodes(node.input), {node.check}>>
             ELSE <<ReadNodes(node.input)>>

(* Promise.all rejects with the first dependency that fails. *)
Skip(n) ==
    /\ phase = "running" /\ step[n] = "waiting"
    /\ \E d \in Above(n) : step[d] = "failed"
    /\ Fails(n) /\ UNCHANGED <<programVars, missing>>

Ready(n) ==
    /\ phase = "running" /\ step[n] = "waiting"
    /\ \A d \in Above(n) : step[d] = "done"

(* A step that is cancelled before it executes, or whose kind this program  *)
(* does not execute.                                                        *)
Refuse(n) ==
    /\ Ready(n)
    /\ cancelled \/ (n # Result /\ NodeOf(plan, n).kind \in {"choice", "repeat", "workflow"})
    /\ Fails(n) /\ UNCHANGED <<programVars, missing>>

Executable(n) ==
    /\ Ready(n) /\ ~cancelled
    /\ n # Result => NodeOf(plan, n).kind \in {"task", "check", "gate"}

(* A binding that refers to a node without a result fails the step. *)
Absent(n) == IF UNION Range(Reads(n)) \subseteq results THEN {} ELSE {n}

(* A task, or a check by an evaluator, is admitted and resolves its input,  *)
(* or its input does not parse.                                             *)
Begin(n) ==
    /\ Executable(n) /\ n # Result
    /\ NodeOf(plan, n).kind = "task" \/ (NodeOf(plan, n).kind = "check" /\ NodeOf(plan, n).evaluator)
    /\ missing' = missing \cup Absent(n)
    /\ \/ Fails(n)
       \/ /\ Absent(n) = {}
          /\ step' = [step EXCEPT ![n] = "executing"]
          /\ Consume(Reads(n))
    /\ UNCHANGED programVars

Finish(n) ==
    /\ step[n] = "executing"
    /\ \/ Fails(n)
       \/ /\ step' = [step EXCEPT ![n] = "done"]
          /\ results' = Retained(n, results, remaining)
          /\ UNCHANGED remaining
    /\ UNCHANGED <<programVars, missing>>

(* A mechanical check and a gate have no await: they read, answer and are   *)
(* done, or refuse what they read.                                          *)
Validate(n) ==
    /\ Executable(n) /\ n # Result
    /\ NodeOf(plan, n).kind = "gate" \/ (NodeOf(plan, n).kind = "check" /\ ~NodeOf(plan, n).evaluator)
    /\ missing' = missing \cup Absent(n)
    /\ \/ Fails(n)
       \/ LET left == Left(Reads(n))
          IN  /\ Absent(n) = {} /\ remaining' = left
              /\ \/ step' = [step EXCEPT ![n] = "failed"] /\ results' = Kept(left)
                 \/ step' = [step EXCEPT ![n] = "done"] /\ results' = Retained(n, Kept(left), left)
    /\ UNCHANGED programVars

(* The step of the result; a path that is not there fails it. *)
Conclude ==
    /\ Executable(Result)
    /\ missing' = missing \cup Absent(Result)
    /\ \/ Fails(Result)
       \/ /\ Absent(Result) = {}
          /\ step' = [step EXCEPT ![Result] = "done"]
          /\ Consume(Reads(Result))
    /\ UNCHANGED programVars

-----------------------------------------------------------------------------
(* The run. *)

Start ==
    /\ phase = "compiled" /\ plan \in Started
    /\ phase' = "starting"
    /\ UNCHANGED <<plan, graph, order, step, results, remaining, missing, cancelled, outcome>>

Cancel ==
    /\ phase \in {"compiled", "starting", "running"} /\ plan \in Started /\ ~cancelled
    /\ cancelled' = TRUE
    /\ UNCHANGED <<plan, phase, graph, order, step, results, remaining, missing, outcome>>

(* The microtask in which startCompiledWorkflow looks at the cancellation.  *)
Launch ==
    /\ phase = "starting"
    /\ IF cancelled THEN phase' = "over" /\ outcome' = "cancelled"
                    ELSE phase' = "running" /\ UNCHANGED outcome
    /\ UNCHANGED <<plan, graph, order, step, results, remaining, missing, cancelled>>

(* A faulty End: the first failure ends the run.                            *)
EndAtFailure ==
    /\ phase = "running"
    /\ (\A n \in Steps : step[n] \in {"done", "failed"}) \/ (\E n \in Steps : step[n] = "failed")
    /\ phase' = "over"
    /\ outcome' = IF cancelled THEN "cancelled"
                  ELSE IF \E n \in Steps : step[n] = "failed" THEN "failed" ELSE "succeeded"
    /\ UNCHANGED <<plan, graph, order, step, results, remaining, missing, cancelled>>

(* Promise.allSettled has every step. *)
End ==
    /\ phase = "running"
    /\ \A n \in Steps : step[n] \in {"done", "failed"}
    /\ phase' = "over"
    /\ outcome' = IF cancelled THEN "cancelled"
                  ELSE IF \E n \in Steps : step[n] = "failed" THEN "failed" ELSE "succeeded"
    /\ UNCHANGED <<plan, graph, order, step, results, remaining, missing, cancelled>>

Progress ==
    \/ Compile \/ Start \/ Launch \/ Conclude \/ End
    \/ \E n \in Steps : Skip(n) \/ Refuse(n)
    \/ \E n \in Steps \ {Result} : Begin(n) \/ Finish(n) \/ Validate(n)

Next == Progress \/ Cancel

Spec == Init /\ [][Next]_vars

-----------------------------------------------------------------------------
(* Properties. *)

(* The nodes whose results or sessions a node needs when it executes, with  *)
(* those of its arms and its attempts.  The source of the session of an arm *)
(* is waited for when the arm is selected, and is not among them.           *)
Needs(p, id) ==
    LET n == NodeOf(p, id)
        source(t) == IF t.kind = "task" /\ Takes(t) THEN {t.session.from} ELSE {}
    IN  CASE n.kind = "choice" -> ReadNodes({n.condition} \cup n.then.input \cup n.else.input)
          [] n.kind = "repeat" ->
               (ReadNodes(n.input \cup {n.until} \cup n.next) \cup source(n.attempt))
                   \ {AttemptInput, n.attempt.id}
          [] n.kind = "gate" -> ReadNodes(n.input) \cup {n.check}
          [] OTHER -> ReadNodes(n.input) \cup source(n)

(* Whatever a node of a validated plan needs is in an earlier layer of the  *)
(* compiled one: the checks of plan-validation.ts leave no reference to a   *)
(* node that runs beside the reader or after it.                            *)
NeedsAreEarlier ==
    phase = "compiled" =>
        LET layer == Layers(graph, order)
        IN  \A id \in Ids(plan) : \A needed \in Needs(plan, id) :
                needed \in DOMAIN layer /\ layer[needed] < layer[id]

(* What the validation accepts the later passes complete: the order has     *)
(* every node and the added edges close no cycle.  In the result, two nodes *)
(* with a common resource that do not both share it are connected, and so   *)
(* are two tasks that reuse the session of one source.                      *)
LoweringSerializes ==
    /\ phase \notin {"unordered", "cyclic", "unknown"}
    /\ phase = "compiled" =>
          \A m, n \in Ids(plan) : m # n =>
              /\ (\E a \in AccessOf(plan)[m], b \in AccessOf(plan)[n] :
                     a[1] = b[1] /\ ~(a[2] = "shared" /\ b[2] = "shared"))
                  => Connected(graph, m, n)
              /\ (/\ SessionOf(plan)[m].kind = "reuse"
                  /\ SessionOf(plan)[m] = SessionOf(plan)[n])
                  => Connected(graph, m, n)

(* A plan that is accepted lowers to one that keeps its meaning.           *)
LoweringSound == NeedsAreEarlier /\ LoweringSerializes

(* No step finds that the result it refers to has been deleted, and a run   *)
(* that succeeds has deleted every result.                                  *)
ResultsInTime ==
    /\ missing = {}
    /\ outcome = "succeeded" => results = {}

(* The outcome comes when no step is under way any more, and tells what the *)
(* steps have done: cancelled if it was asked for, whatever the steps did.  *)
OutcomeAfterWork ==
    outcome # "none" =>
        /\ \A n \in Steps : step[n] # "executing"
        /\ cancelled <=> (outcome = "cancelled")
        /\ outcome = "succeeded" => \A n \in Steps : step[n] = "done"
        /\ outcome = "failed" => \E n \in Steps : step[n] = "failed"

(* A run keeps what its steps still read, and ends after them.             *)
RunSound == ResultsInTime /\ OutcomeAfterWork

=============================================================================
