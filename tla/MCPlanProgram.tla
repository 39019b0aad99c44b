------------------------------ MODULE MCPlanProgram ------------------------------
(* Families of plans.  Four tasks around one session source and one         *)
(* workspace; a repeat after a checked task, and a choice after two tasks,  *)
(* each with every set of dependencies and references that the family       *)
(* allows, sound or not; a gate; and five small plans that are also run.    *)
(* Besides, the plans of three declarations of the fluent API.              *)
EXTENDS FlowAuthoring

Ref(n) == [node |-> n, path |-> "output"]
Refs(nodes) == {Ref(n) : n \in nodes}
Deps(set) == SetToSortSeq(set, <)
None == {}
Sharing == {<<"w", "shared">>}
Alone == {<<"w", "exclusive">>}

Task(id, deps, read, session, access) ==
    [kind |-> "task", id |-> id, deps |-> Deps(deps), input |-> Refs(read),
     session |-> session, access |-> access, defined |-> TRUE]
Plain(id, deps, read) == Task(id, deps, read, NoSession, Sharing)
Isolated == [kind |-> "isolated", from |-> NoId]
Reuse(id) == [kind |-> "reuse", from |-> id]
Fork(id) == [kind |-> "fork", from |-> id]
Check(id, deps, read, evaluator, access) ==
    [kind |-> "check", id |-> id, deps |-> Deps(deps), input |-> Refs(read),
     evaluator |-> evaluator, access |-> access, defined |-> TRUE]
Gate(id, deps, read, check) ==
    [kind |-> "gate", id |-> id, deps |-> Deps(deps), input |-> Refs(read), check |-> check,
     policy |-> "fail", defined |-> TRUE]
Child(id, deps) ==
    [kind |-> "workflow", id |-> id, deps |-> Deps(deps), input |-> {}, access |-> Alone,
     defined |-> TRUE]
PlanOf(nodes, read) == [nodes |-> nodes, output |-> Refs(read), wellFormed |-> TRUE]

(* Sessions and workspaces. *)
Serialized ==
    {PlanOf(<<Task(4, d4, None, s4, Sharing), Task(2, d2, None, s2, a2),
              Task(3, d3, None, s3, a3), Task(1, None, None, Isolated, Sharing)>>, {4}) :
        d2 \in {{1}, {1, 3}}, d3 \in {None, {1}, {1, 4}}, d4 \in {{1}, {1, 2}, {1, 2, 3}},
        s2 \in {NoSession, Reuse(1)}, s3 \in {NoSession, Reuse(1), Fork(1)}, s4 \in {Reuse(1), Reuse(2)},
        a2 \in {Sharing, Alone}, a3 \in {Sharing, Alone, {<<"v", "exclusive">>}}}

(* A repeat after a gate. *)
Gated == <<Plain(1, None, None), Check(2, {1}, {1}, FALSE, None), Gate(3, {1, 2}, {1}, 2)>>
Repeat(deps, outer, session, until, next) ==
    [kind |-> "repeat", id |-> 4, deps |-> Deps(deps), input |-> {}, limit |-> 3,
     attempt |-> [Task(41, outer, None, session, Alone)
                    EXCEPT !.input = {[node |-> AttemptInput, path |-> "root"]}],
     until |-> until, next |-> next]
Repeats ==
    {PlanOf(nodes \o <<Repeat(deps, outer, session, until, next)>>, {4}) :
        nodes \in {Gated, Tail(Gated)}, deps \in SUBSET {1, 3}, outer \in {None, {1}},
        session \in {NoSession, Reuse(1)}, until \in {Ref(41), Ref(1), [node |-> 3, path |-> "value"], Ref(3)},
        next \in {None, {Ref(41)}, {Ref(1), Ref(41)}, {[node |-> 3, path |-> "value"]},
                  {[node |-> AttemptInput, path |-> "root"]}}}

(* A choice between a task that may reuse or fork and a child workflow.     *)
Choice(deps, condition, read, armDeps, session) ==
    [kind |-> "choice", id |-> 3, deps |-> Deps(deps), condition |-> condition,
     then |-> Task(31, armDeps, read, session, Sharing),
     else |-> [Child(32, None) EXCEPT !.input = {}] @@ [session |-> NoSession]]
ChoicePlans ==
    {PlanOf(nodes, {3}) : nodes \in
        UNION {{<<Task(1, None, None, Isolated, Sharing), Plain(2, {1}, {1}), c>>,
                <<Task(1, None, None, Isolated, Sharing), c, Plain(2, {1, 3}, {1, 3})>>} :
            c \in {Choice(deps, condition, read, armDeps, session) :
                deps \in SUBSET {1, 2}, condition \in {[node |-> WorkflowInput, path |-> "root"], Ref(1), Ref(2)},
                read \in {None, {2}}, armDeps \in SUBSET {1, 2}, session \in {NoSession, Reuse(1), Fork(1)}}}}

(* Plans that are wrong in one place each, and one that is not. *)
Cycle == PlanOf(<<Plain(1, {3}, {3}), Plain(2, {1}, {1}), Plain(3, {2}, {2})>>, {3})
Twice == PlanOf(<<Plain(1, None, None), Plain(1, None, None)>>, {1})
Odd == {Cycle, Twice, PlanOf(<<Plain(1, {1}, None)>>, None), PlanOf(<<Plain(NoId, None, None)>>, None),
        PlanOf(<<Plain(1, {2}, None)>>, None), PlanOf(<<Plain(1, None, None)>>, {2}),
        PlanOf(<<[Plain(1, None, None) EXCEPT !.defined = FALSE]>>, None),
        PlanOf(<<Plain(1, None, None), Check(2, None, None, TRUE, Alone), Gate(3, None, {1}, 2)>>, None),
        PlanOf(<<Plain(1, None, None), Gate(3, {1}, {1}, 1)>>, None),
        [PlanOf(<<Plain(1, None, None)>>, {1}) EXCEPT !.wellFormed = FALSE]}

(* The plans that are run: a diamond under a gate whose check is read twice,*)
(* an evaluator beside a writer, a result nobody reads, a child workflow    *)
(* beside a task, and a mechanical gate.                                    *)
MCStarted ==
    {PlanOf(<<Plain(1, None, None), Check(2, {1}, {1}, FALSE, None), Gate(3, {1, 2}, {1, 2}, 2),
              Plain(4, {1}, {1}), Plain(5, {3, 4}, {3, 4})>>, {1, 5}),
     PlanOf(<<Plain(1, None, None), Check(2, {1}, {1}, TRUE, Alone), Gate(3, {1, 2}, {1}, 2),
              Task(4, None, None, NoSession, Alone)>>, {2, 3}),
     PlanOf(<<Plain(1, None, None), Plain(2, None, None), Plain(3, {1, 2}, {2})>>, {2}),
     PlanOf(<<Plain(1, None, None), Child(2, None), Plain(3, {1}, {1})>>, {3}),
     PlanOf(Gated, {3})}

MCPlans == Serialized \cup Repeats \cup ChoicePlans \cup Odd \cup MCStarted

(* What an author may write. *)
Runnable(kind, read, after, session, validated) ==
    [kind |-> kind, read |-> read, after |-> after, session |-> session, access |-> Sharing,
     validated |-> validated]
MCRunnables ==
    {Runnable("task", None, None, Isolated, "none"), Runnable("task", None, None, NoSession, "evaluator"),
     Runnable("task", {1}, None, Fork(1), "none"), Runnable("task", None, {1}, Reuse(1), "mechanical"),
     Runnable("workflow", {1}, {2}, NoSession, "none")}
MCConditions ==
    {[of |-> "input"], [of |-> "result"], [of |-> "output", name |-> 1], [of |-> "output", name |-> 2],
     [of |-> "validation", name |-> 1]}
MCNextInputs == {None, {[of |-> "input"], [of |-> "output", name |-> 1]},
                 {[of |-> "result"], [of |-> "output", name |-> 2]}}
=============================================================================
