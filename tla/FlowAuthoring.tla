------------------------------ MODULE FlowAuthoring ------------------------------
(* The fluent API of libs/core: createFlow of dsl.ts collects declarations,  *)
(* and buildWorkflow of builder.ts turns them into the nodes of a plan,      *)
(* which is then submitted as any other (PlanProgram).  Declarations are     *)
(* named by their numbers.  What an author can write is what the types of    *)
(* contracts.ts allow: a binding, a condition or a dependency names earlier  *)
(* declarations, a session only one with a session policy.  The registries   *)
(* of definitions are left out; nested workflows are built on their own.     *)
EXTENDS PlanProgram

CONSTANTS
    MaxDeclarations,   \* bound on the declarations of a flow
    Runnables,         \* tasks and child workflows with their options
    Conditions,        \* references of conditions
    NextInputs,        \* sets of references of the next input of a repeat
    Validators         \* "mechanical" and "evaluator"

(* A runnable: the declarations its input reads, those it comes after, its   *)
(* session policy, its workspaces, and the validator of its output.          *)
ASSUME RunnablesAssumption ==
    \A r \in Runnables :
        /\ r.kind \in {"task", "workflow"}
        /\ r.read \cup r.after \subseteq 1..MaxDeclarations
        /\ r.session.kind \in {"none", "isolated", "reuse", "fork"}
        /\ r.validated \in Validators \cup {"none"}
        /\ r.kind = "workflow" => r.session = NoSession /\ r.validated = "none"

VARIABLES
    declarations,  \* the declarations of the builder
    pendingTask,   \* the last call was task(), which until() may follow
    authored       \* the plan at hand was built from declarations

authoringVars == <<declarations, pendingTask, authored>>
allVars == <<vars, authoringVars>>

-----------------------------------------------------------------------------
(* The nodes of a plan (builder.ts). *)

OutputRef(id) == [node |-> id, path |-> "output"]
InputRef == [node |-> WorkflowInput, path |-> "root"]
NoRef == [node |-> NoId, path |-> "root"]
ResultRef(id) == [node |-> ArmId(id, 1), path |-> "output"]
AttemptInputRef == [node |-> AttemptInput, path |-> "root"]

(* What a declaration may refer to: the input and the result of its own     *)
(* attempt, the input of the workflow, or a field of an earlier handle.      *)
Resolved(handles, c, input, result) ==
    CASE c.of = "input" -> input
      [] c.of = "result" -> result
      [] c.of = "output" -> handles[c.name].output
      [] c.of = "validation" -> handles[c.name].validation

OutputsOf(handles, names) == {handles[n].output : n \in names}

(* buildRunnableNode: dependsOn of a runnable as it is eligible, ... *)
Eligible(handles, r) == ReadNodes(OutputsOf(handles, r.read \cup r.after))
Sourced(handles, r) ==
    IF r.session.kind \in {"reuse", "fork"} THEN {handles[r.session.from].session} ELSE {}

(* ... and the node with the source of its session. *)
RunnableNode(handles, r, id, input, deps) ==
    [kind |-> r.kind, id |-> id, deps |-> SetToSeq(deps \cup Sourced(handles, r)),
     input |-> input, access |-> r.access, defined |-> TRUE,
     session |-> IF Sourced(handles, r) = {} THEN r.session
                 ELSE [kind |-> r.session.kind, from |-> handles[r.session.from].session]]

(* validate: a check of what is read, and a gate that passes it on. *)
Checked(id, input, validator, access) ==
    LET read == ReadNodes(input)
    IN  << [kind |-> "check", id |-> id, deps |-> SetToSeq(read), input |-> input, defined |-> TRUE,
            evaluator |-> validator = "evaluator",
            access |-> IF validator = "evaluator" THEN access ELSE {}],
           [kind |-> "gate", id |-> id + 1, deps |-> SetToSeq(read \cup {id}), input |-> input,
            check |-> id, policy |-> "fail", defined |-> TRUE] >>

Handle(output, session, validation) ==
    [output |-> output, session |-> session, validation |-> validation]
GateRef(gate, field) == [node |-> gate, path |-> field]

(* run: a task whose output is validated is followed by a check and a gate,  *)
(* and its handle gives the output of the gate.                              *)
BuildTask(handles, r, id) ==
    LET node == RunnableNode(handles, r, id, OutputsOf(handles, r.read), Eligible(handles, r))
        session == IF r.session.kind = "none" THEN NoId ELSE id
    IN  IF r.validated = "none"
        THEN [nodes |-> <<node>>, handle |-> Handle(OutputRef(id), session, NoRef)]
        ELSE [nodes |-> <<node>> \o Checked(id + 1, {OutputRef(id)}, r.validated, {<<"w", "exclusive">>}),
              handle |-> Handle(GateRef(id + 2, "value"), session, NoRef)]

BuildValidation(handles, d, id) ==
    [nodes |-> Checked(id, OutputsOf(handles, d.read), d.validator, d.access),
     handle |-> Handle(GateRef(id + 1, "value"), NoId, GateRef(id + 1, "validation"))]

(* A faulty BuildRepeat: what only the condition reads is not waited for. *)
RepeatWithoutCondition(handles, d, id) ==
    LET r == d.runnable
        outer == ReadNodes(OutputsOf(handles, r.after))
        until == Resolved(handles, d.until, AttemptInputRef, ResultRef(id))
        next == {Resolved(handles, c, AttemptInputRef, ResultRef(id)) : c \in d.next}
        attempt == RunnableNode(handles, r, ArmId(id, 1), {AttemptInputRef}, outer)
        read == OutputsOf(handles, r.read)
    IN  [nodes |-> <<[kind |-> "repeat", id |-> id, input |-> read, limit |-> 2, attempt |-> attempt,
                      deps |-> SetToSeq(ReadNodes(read) \cup ToSet(attempt.deps)
                                        \cup (ReadNodes(next) \ {AttemptInput, ArmId(id, 1)})),
                      until |-> until, next |-> next]>>,
         handle |-> Handle(OutputRef(id), NoId, NoRef)]

(* buildRepeatNode: the repeat waits for what its first input, its attempt,  *)
(* its condition and its next input need from outside.                       *)
BuildRepeat(handles, d, id) ==
    LET r == d.runnable
        outer == ReadNodes(OutputsOf(handles, r.after))
        until == Resolved(handles, d.until, AttemptInputRef, ResultRef(id))
        next == {Resolved(handles, c, AttemptInputRef, ResultRef(id)) : c \in d.next}
        attempt == RunnableNode(handles, r, ArmId(id, 1), {AttemptInputRef}, outer)
        read == OutputsOf(handles, r.read)
    IN  [nodes |-> <<[kind |-> "repeat", id |-> id, input |-> read, limit |-> 2, attempt |-> attempt,
                      deps |-> SetToSeq(ReadNodes(read) \cup ToSet(attempt.deps)
                                        \cup (ReadNodes({until} \cup next) \ {AttemptInput, ArmId(id, 1)})),
                      until |-> until, next |-> next]>>,
         handle |-> Handle(OutputRef(id), NoId, NoRef)]

(* buildChoiceNode: the choice waits for its condition and for what its arms *)
(* are eligible after, not for the sources of their sessions.                *)
BuildChoice(handles, d, id) ==
    LET Arm(r, key) == RunnableNode(handles, r, ArmId(id, key), OutputsOf(handles, r.read), Eligible(handles, r))
        condition == Resolved(handles, d.condition, InputRef, NoRef)
    IN  [nodes |-> <<[kind |-> "choice", id |-> id, condition |-> condition,
                      then |-> Arm(d.then, 1), else |-> Arm(d.else, 2),
                      deps |-> SetToSeq(ReadNodes({condition}) \cup Eligible(handles, d.then)
                                        \cup Eligible(handles, d.else))]>>,
         handle |-> Handle(OutputRef(id), NoId, NoRef)]

(* buildWorkflow: the declarations in their order. *)
Built(ds) ==
    LET Declare(built, d) ==
            LET id == Len(built.nodes) + 1
                made == CASE d.type = "task" -> BuildTask(built.handles, d.runnable, id)
                          [] d.type = "validate" -> BuildValidation(built.handles, d, id)
                          [] d.type = "until" -> BuildRepeat(built.handles, d, id)
                          [] d.type = "choice" -> BuildChoice(built.handles, d, id)
            IN  [nodes |-> built.nodes \o made.nodes, handles |-> Append(built.handles, made.handle)]
    IN  FoldLeft(Declare, [nodes |-> <<>>, handles |-> <<>>], ds)

-----------------------------------------------------------------------------
(* The fluent builder (dsl.ts) and the types of its calls (contracts.ts). *)

(* The handle of a declaration has a session or a verdict by its type. *)
WithSession(ds) ==
    {i \in DOMAIN ds : ds[i].type = "task" /\ ds[i].runnable.session.kind # "none"}
WithVerdict(ds) == {i \in DOMAIN ds : ds[i].type = "validate"}

Allows(ds, r) ==
    /\ r.read \cup r.after \subseteq DOMAIN ds
    /\ r.session.kind \in {"reuse", "fork"} => r.session.from \in WithSession(ds)
Names(ds, c) ==
    /\ c.of = "output" => c.name \in DOMAIN ds
    /\ c.of = "validation" => c.name \in WithVerdict(ds)

Push(d) ==
    /\ phase = "authoring" /\ Len(declarations) < MaxDeclarations
    /\ declarations' = Append(declarations, d)
    /\ UNCHANGED <<vars, authored>>

DeclareTask(r) ==
    /\ Allows(declarations, r)
    /\ Push([type |-> "task", runnable |-> r])
    /\ pendingTask' = TRUE

DeclareValidation(read, validator, access) ==
    /\ read \subseteq DOMAIN declarations
    /\ Push([type |-> "validate", read |-> read, validator |-> validator, access |-> access])
    /\ pendingTask' = FALSE

(* when().task().otherwise(): validators of arms are no nodes of the plan. *)
DeclareChoice(c, r, s) ==
    /\ c.of # "result" /\ Names(declarations, c)
    /\ Allows(declarations, r) /\ Allows(declarations, s)
    /\ Push([type |-> "choice", condition |-> c, then |-> r, else |-> s])
    /\ pendingTask' = FALSE

(* until() replaces the task that was declared last; its condition and its  *)
(* next input are given the handles before that task.                       *)
DeclareUntil(c, next) ==
    /\ phase = "authoring" /\ pendingTask
    /\ c.of # "input" /\ \A ref \in {c} \cup next : Names(Front(declarations), ref)
    /\ declarations' = Append(Front(declarations),
            [type |-> "until", runnable |-> Last(declarations).runnable, until |-> c, next |-> next])
    /\ pendingTask' = FALSE
    /\ UNCHANGED <<vars, authored>>

(* output(), define() and the submission of what is built. *)
Define(read) ==
    /\ phase = "authoring" /\ declarations # <<>>
    /\ read \subseteq DOMAIN declarations
    /\ plan' = LET built == Built(declarations)
               IN  [nodes |-> built.nodes, output |-> OutputsOf(built.handles, read), wellFormed |-> TRUE]
    /\ phase' = "submitted" /\ authored' = TRUE
    /\ UNCHANGED <<graph, order, step, results, remaining, missing, cancelled, outcome,
                   declarations, pendingTask>>

Author ==
    \/ \E r \in Runnables : DeclareTask(r)
    \/ \E n \in 1..MaxDeclarations, v \in Validators : DeclareValidation({n}, v, {<<"w", "shared">>})
    \/ \E c \in Conditions, r, s \in Runnables : DeclareChoice(c, r, s)
    \/ \E c \in Conditions, next \in NextInputs : DeclareUntil(c, next)
    \/ Define({Len(declarations)})

(* A plan that was handed in, or one that is about to be written. *)
AuthoringInit ==
    /\ declarations = <<>> /\ pendingTask = FALSE /\ authored = FALSE
    /\ \/ Init
       \/ /\ plan = [nodes |-> <<>>, output |-> {}, wellFormed |-> TRUE] /\ phase = "authoring"
          /\ graph = <<>> /\ order = <<>> /\ step = <<>>
          /\ results = {} /\ remaining = <<>> /\ missing = {}
          /\ cancelled = FALSE /\ outcome = "none"

AuthoringNext == (Next /\ UNCHANGED authoringVars) \/ Author
AuthoringSpec == AuthoringInit /\ [][AuthoringNext]_allVars

-----------------------------------------------------------------------------
(* What validation does not let a condition or a next input refer to        *)
(* although the handle offers it: the output or the verdict of a gate in    *)
(* the condition of a choice, and the output of a choice in a repeat.       *)
Unreadable(n) ==
    \/ n.kind = "choice" /\ IsKind(plan, n.condition.node, {"gate"})
    \/ n.kind = "repeat" /\ \E r \in {n.until} \cup n.next : IsKind(plan, r.node, {"choice"})

(* The fluent API and the validation agree: whatever the types let an       *)
(* author write is built into a plan that is accepted, ordered and lowered, *)
(* but for the two references above.                                        *)
AuthoredAccepted ==
    authored =>
        /\ phase = "rejected" => \E i \in DOMAIN plan.nodes : Unreadable(plan.nodes[i])
        /\ phase \in {"unordered", "cyclic", "unknown", "compiled"} =>
               phase = "compiled" /\ \A i \in DOMAIN plan.nodes : ~Unreadable(plan.nodes[i])
=============================================================================
