----------------------------- MODULE PlanValidation -----------------------------
(* What plan-validation.ts says of a plan that it is handed: the codes of   *)
(* its issues.  A plan is                                                   *)
(*   nodes       a sequence of nodes, in the order they are written         *)
(*   output      the references of its output                               *)
(*   wellFormed  whether the schema of a plan accepts it                    *)
(* and a node has an id, a kind, deps (a sequence), input (the references   *)
(* of its binding), defined (its definitions are registered and sound) and, *)
(* by its kind, session, access, check, condition and arms, or attempt,     *)
(* limit, until and next.  Ids are numbers, for the order of the strings;   *)
(* what the schema alone rejects (paths, policies, models) is wellFormed.   *)
(*                                                                          *)
(* Before that, the passes that turn the nodes of a plan into an execution  *)
(* order: plan-ordering.ts, session-ordering.ts, workspace-ordering.ts and  *)
(* the layers of mastra-plan-compiler.ts, as functions of a graph.  A graph *)
(* gives each node the set of nodes it depends on; an order is a sequence   *)
(* of all nodes.                                                            *)
EXTENDS Integers, Sequences, SequencesExt, FiniteSets, FiniteSetsExt

(* The nodes above a node: hasDependencyPath walks this set. *)
Ancestors(graph, n) ==
    LET above[k \in Nat] ==
            IF k = 0 THEN graph[n]
            ELSE above[k - 1] \cup UNION {graph[m] : m \in above[k - 1] \cap DOMAIN graph}
    IN  above[Cardinality(DOMAIN graph)]

Connected(graph, m, n) == m \in Ancestors(graph, n) \/ n \in Ancestors(graph, m)

Acyclic(graph) == \A n \in DOMAIN graph : n \notin Ancestors(graph, n)

(* orderParsedPlanNodes: of the nodes whose dependencies are placed the     *)
(* smallest id comes next.  A cycle leaves nodes out.                       *)
TopologicalOrder(graph) ==
    LET rest[placed \in SUBSET DOMAIN graph] ==
            LET ready == {n \in DOMAIN graph \ placed : graph[n] \subseteq placed}
            IN  IF ready = {} THEN <<>>
                ELSE <<Min(ready)>> \o rest[placed \cup {Min(ready)}]
    IN  rest[{}]

Complete(graph, order) == Len(order) = Cardinality(DOMAIN graph)

-----------------------------------------------------------------------------
(* Sessions.  "session" gives each node the policy of a task and the node   *)
(* whose session it takes.                                                  *)

(* A faulty LowerSessions: a fork takes the place of the last consumer.     *)
LowerSessionsWithForks(graph, order, session) ==
    LET At(n) == CHOOSE i \in DOMAIN order : order[i] = n
        Earlier(n) == {i \in 1..(At(n) - 1) :
                         /\ session[order[i]].kind \in {"reuse", "fork"}
                         /\ session[order[i]].from = session[n].from}
        Previous(n) == IF session[n].kind = "reuse" /\ Earlier(n) # {}
                       THEN {order[Max(Earlier(n))]} ELSE {}
        Source(n) == IF session[n].kind \in {"reuse", "fork"} THEN {session[n].from} ELSE {}
    IN  [n \in DOMAIN graph |-> graph[n] \cup Source(n) \cup Previous(n)]

(* lowerReuseSessionOrdering: a task depends on the source of its session,  *)
(* and one that reuses a session on the last one before it that reuses the  *)
(* session of the same source.                                              *)
LowerSessions(graph, order, session) ==
    LET At(n) == CHOOSE i \in DOMAIN order : order[i] = n
        Earlier(n) == {i \in 1..(At(n) - 1) :
                         /\ session[order[i]].kind = "reuse"
                         /\ session[order[i]].from = session[n].from}
        Previous(n) == IF session[n].kind = "reuse" /\ Earlier(n) # {}
                       THEN {order[Max(Earlier(n))]} ELSE {}
        Source(n) == IF session[n].kind \in {"reuse", "fork"} THEN {session[n].from} ELSE {}
    IN  [n \in DOMAIN graph |-> graph[n] \cup Source(n) \cup Previous(n)]

-----------------------------------------------------------------------------
(* Workspaces.  "access" gives each node its pairs of a resource and a      *)
(* policy.                                                                  *)

Conflict(access, m, n) ==
    \E a \in access[m], b \in access[n] : a[1] = b[1] /\ "exclusive" \in {a[2], b[2]}

(* lowerWorkspaceOrdering: of two nodes that conflict and that no path      *)
(* connects yet, pair by pair, the later in the order waits for the earlier.*)
LowerWorkspaces(graph, order, access) ==
    LET count == Len(order)
        pairs == [k \in 1..(count * count) |->
                    <<order[1 + ((k - 1) \div count)], order[1 + ((k - 1) % count)],
                      ((k - 1) \div count) < ((k - 1) % count)>>]
        Serialize(lowered, pair) ==
            IF pair[3] /\ Conflict(access, pair[1], pair[2]) /\ ~Connected(lowered, pair[1], pair[2])
            THEN [lowered EXCEPT ![pair[2]] = @ \cup {pair[1]}]
            ELSE lowered
    IN  FoldLeft(Serialize, graph, pairs)

-----------------------------------------------------------------------------
(* nodeLayers: a node is one layer above the highest of its dependencies;   *)
(* one that the order has not placed yet counts as if it were in the first. *)
Layers(graph, order) ==
    LET layer[i \in DOMAIN order] ==
            Max({0} \cup {1 + (IF \E j \in 1..(i - 1) : order[j] = d
                               THEN layer[CHOOSE j \in 1..(i - 1) : order[j] = d]
                               ELSE 0) : d \in graph[order[i]]})
    IN  [n \in ToSet(order) |-> layer[CHOOSE i \in DOMAIN order : order[i] = n]]

-----------------------------------------------------------------------------
(* Plans. *)

NoId == 0                \* the empty id
WorkflowInput == -1      \* WORKFLOW_INPUT_NODE_ID
AttemptInput == -2       \* the reserved input of the attempt of a repeat
MaxRepeatBodyExecutions == 1000

ArmId(id, key) == 10 * id + key    \* the ids of the arms of a choice
NoSession == [kind |-> "none", from |-> NoId]

Issue(holds, code) == IF holds THEN {code} ELSE {}

-----------------------------------------------------------------------------
(* The map nodesById, in which the first of two equal ids stays. *)

Ids(plan) == {plan.nodes[i].id : i \in DOMAIN plan.nodes}
FirstAt(plan, id) == Min({i \in DOMAIN plan.nodes : plan.nodes[i].id = id})
NodeOf(plan, id) == plan.nodes[FirstAt(plan, id)]
Prior(plan, id) == {plan.nodes[i].id : i \in 1..(FirstAt(plan, id) - 1)}

(* The known node of this id has one of these kinds. *)
IsKind(plan, id, kinds) == id \in Ids(plan) /\ NodeOf(plan, id).kind \in kinds

Targets(references) == {r.node : r \in references}
ReadNodes(references) == Targets(references) \ {WorkflowInput}
Takes(node) == node.session.kind \in {"reuse", "fork"}

-----------------------------------------------------------------------------
(* The checks of a node. *)

DependencyIssues(plan, n) ==
    LET deps == ToSet(n.deps)
    IN  Issue(~IsInjective(n.deps), "duplicate-dependency")
        \cup Issue(n.id \in deps, "self-dependency")
        \cup Issue(~(deps \subseteq Ids(plan) \cup {n.id}), "unknown-dependency")

(* validateReferences for the binding of a node. *)
ReferenceIssues(plan, n, references) ==
    Issue(ReadNodes(references) \ Ids(plan) # {}, "unknown-value-ref-target")
    \cup Issue((ReadNodes(references) \cap Ids(plan)) \ ToSet(n.deps) # {},
               "missing-value-ref-dependency")

(* resolveSessionSelections: every task on the way to a source is a task of *)
(* the plan, so what it says of the sources is said of them in their turn.  *)
SessionIssues(plan, n) ==
    IF ~Takes(n) THEN {}
    ELSE Issue(~IsKind(plan, n.session.from, {"task"}), "invalid-session-source")
         \cup Issue(n.session.from \notin ToSet(n.deps), "missing-session-dependency")

TaskIssues(plan, n) == Issue(~n.defined, "missing-task-definition") \cup SessionIssues(plan, n)

(* validateValidationNode, which is called for the nodes of the plan only. *)
ValidationIssues(plan, n) ==
    IF n.kind = "check" THEN Issue(~n.defined, "invalid-task-definition")
    ELSE Issue(n.policy # "fail", "repeat-postcondition-outside-body")
         \cup (IF IsKind(plan, n.check, {"check"})
               THEN Issue(n.check \notin ToSet(n.deps), "validation-check-not-dependency")
               ELSE {"unknown-validation-check"})

-----------------------------------------------------------------------------
(* Choices. *)

(* The arm of a choice depends on, and reads, nodes that are written before *)
(* the choice and that the choice depends on; only the source of its session*)
(* need not be a dependency of the choice.                                  *)
ArmIssues(plan, n, arm, key) ==
    LET prior == Prior(plan, n.id)
        sessionOnly == IF Takes(arm) THEN {arm.session.from} \ Targets(arm.input) ELSE {}
    IN  Issue(arm.id # ArmId(n.id, key) \/ arm.id \in Ids(plan), "duplicate-node-id")
        \cup Issue(\/ ~(ToSet(arm.deps) \subseteq prior)
                   \/ ~(ToSet(arm.deps) \ sessionOnly \subseteq ToSet(n.deps))
                   \/ ~(ReadNodes(arm.input) \subseteq prior \cap ToSet(arm.deps) \cap ToSet(n.deps)),
                   "invalid-choice-arm-reference")
        \cup SessionIssues(plan, arm)
        \cup Issue(Takes(arm) /\ ~(/\ arm.session.from \in prior \cap ToSet(arm.deps)
                                   /\ IsKind(plan, arm.session.from, {"task"})),
                   "invalid-session-source")
        \cup Issue(~arm.defined, "missing-task-definition")

ChoiceIssues(plan, n) ==
    LET c == n.condition
    IN  (IF \/ c.node = WorkflowInput
            \/ c.node \in Prior(plan, n.id) /\ c.path = "output"
         THEN ReferenceIssues(plan, n, {c})
         ELSE {"invalid-choice-condition"})
        \cup ArmIssues(plan, n, n.then, 1) \cup ArmIssues(plan, n, n.else, 2)

-----------------------------------------------------------------------------
(* Repeats. *)

(* isValidRepeatOuterReference *)
Readable(plan, r) ==
    \/ IsKind(plan, r.node, {"gate"}) /\ r.path \in {"value", "validation"}
    \/ IsKind(plan, r.node, {"task", "workflow", "repeat"}) /\ r.path = "output"

AttemptIssues(plan, n) ==
    LET a == n.attempt
        outer == ToSet(a.deps) \ {a.id}
    IN  Issue(a.id = NoId \/ a.id \in Ids(plan), "duplicate-node-id")
        \cup Issue(~IsInjective(a.deps), "duplicate-dependency")
        \cup Issue(a.id \in ToSet(a.deps), "self-dependency")
        \cup Issue(~(outer \subseteq Ids(plan)), "invalid-repeat-reference")
        \cup Issue(~(outer \cap Ids(plan) \subseteq ToSet(n.deps)), "missing-value-ref-dependency")
        \cup Issue(a.input # {[node |-> AttemptInput, path |-> "root"]}, "invalid-repeat-reference")
        \cup Issue(~a.defined, "missing-task-definition")
        \cup SessionIssues(plan, a)

(* The condition reads the attempt or a node the repeat depends on. *)
UntilIssues(plan, n) ==
    LET u == n.until
        prior == u.node \in Prior(plan, n.id)
    IN  Issue(prior /\ u.node \notin ToSet(n.deps), "missing-value-ref-dependency")
        \cup Issue(~(\/ u.node = n.attempt.id /\ u.path = "output"
                     \/ prior /\ u.node \in ToSet(n.deps) /\ Readable(plan, u)),
                   "invalid-repeat-condition")

(* validateRepeatScopedReferences for the input of the next attempt. *)
NextIssues(plan, n, r) ==
    Issue(r.node \in Ids(plan) \ {n.attempt.id} /\ r.node \notin ToSet(n.deps),
          "missing-value-ref-dependency")
    \cup Issue(\/ r.node \notin {AttemptInput, n.attempt.id} \cup Prior(plan, n.id)
               \/ r.node = n.attempt.id /\ r.path # "output"
               \/ r.node \in Ids(plan) \ {n.attempt.id} /\ ~Readable(plan, r),
               "invalid-repeat-reference")

RepeatIssues(plan, n) ==
    Issue(n.limit \notin 1..MaxRepeatBodyExecutions, "invalid-repeat-limit")
    \cup AttemptIssues(plan, n) \cup UntilIssues(plan, n)
    \cup UNION {NextIssues(plan, n, r) : r \in n.next}

-----------------------------------------------------------------------------
(* The plan. *)

NodeIssues(plan, i) ==
    LET n == plan.nodes[i]
    IN  Issue(n.id = NoId, "empty-node-id")
        \cup Issue(\E j \in 1..(i - 1) : plan.nodes[j].id = n.id, "duplicate-node-id")
        \cup DependencyIssues(plan, n)
        \cup (IF n.kind = "choice" THEN {} ELSE ReferenceIssues(plan, n, n.input))
        \cup CASE n.kind = "task" -> TaskIssues(plan, n)
               [] n.kind = "workflow" -> Issue(~n.defined, "missing-workflow-definition")
               [] n.kind \in {"check", "gate"} -> ValidationIssues(plan, n)
               [] n.kind = "repeat" -> RepeatIssues(plan, n)
               [] n.kind = "choice" -> ChoiceIssues(plan, n)

(* The graph that the nodes of a plan declare. *)
Declared(plan) == [id \in Ids(plan) |-> ToSet(NodeOf(plan, id).deps)]

(* A cycle and the schema are looked at when nothing else is wrong. *)
Issues(plan) ==
    LET semantic == UNION {NodeIssues(plan, i) : i \in DOMAIN plan.nodes}
                    \cup Issue(~(ReadNodes(plan.output) \subseteq Ids(plan)), "unknown-value-ref-target")
        all == IF semantic = {} THEN Issue(~Acyclic(Declared(plan)), "dependency-cycle") ELSE semantic
    IN  IF all = {} THEN Issue(~plan.wellFormed, "invalid-plan-schema") ELSE all

Accepted(plan) == Issues(plan) = {}

=============================================================================
