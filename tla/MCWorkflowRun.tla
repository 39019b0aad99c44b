----------------------------- MODULE MCWorkflowRun -----------------------------
(* Four small plans: a choice on the output of its session source, a choice *)
(* beside its session source, a diamond with a nested workflow, and two     *)
(* repeats of one task.                                                     *)
EXTENDS RunDisplay

Row(kind, type, name) == [kind |-> kind, subject |-> [type |-> type, name |-> name]]
Task(name) == Row("task", "task", name)

MCPlans == {
    (* The source, the choice it decides, a task that reads both. *)
    [kind |-> "s" :> "task" @@ "c" :> "choice" @@ "d" :> "task",
     deps |-> "s" :> {} @@ "c" :> {"s"} @@ "d" :> {"c", "s"},
     own |-> "s" :> {} @@ "c" :> {} @@ "d" :> {"c", "s"},
     arms |-> "c" :> [then |-> "then", else |-> "else"],
     source |-> "then" :> "s" @@ "else" :> NoSource,
     order |-> <<"s", "c", "d">>, inside |-> <<>>,
     row |-> "s" :> Task("S") @@ "c" :> Row("choice", "choice", "c") @@ "d" :> Task("D")
             @@ "then" :> Task("S") @@ "else" :> Task("E")],
    (* The choice is in the layer of the source of its first arm. *)
    [kind |-> "s" :> "task" @@ "c" :> "choice" @@ "d" :> "check",
     deps |-> "s" :> {} @@ "c" :> {} @@ "d" :> {"c"},
     own |-> "s" :> {} @@ "c" :> {} @@ "d" :> {"c"},
     arms |-> "c" :> [then |-> "then", else |-> "else"],
     source |-> "then" :> "s" @@ "else" :> NoSource,
     order |-> <<"c", "d", "s">>, inside |-> <<>>,
     row |-> "s" :> Task("S") @@ "c" :> Row("choice", "choice", "c")
             @@ "d" :> Row("validation", "validator", "V")
             @@ "then" :> Task("T") @@ "else" :> Task("E")],
    (* A diamond of a task, a nested workflow and a check. *)
    [kind |-> "s" :> "task" @@ "l" :> "task" @@ "r" :> "check" @@ "d" :> "task",
     deps |-> "s" :> {} @@ "l" :> {"s"} @@ "r" :> {"s"} @@ "d" :> {"l", "r", "s"},
     own |-> "s" :> {} @@ "l" :> {"s"} @@ "r" :> {"s"} @@ "d" :> {"l", "r"},
     arms |-> <<>>, source |-> <<>>,
     order |-> <<"s", "l", "r", "d">>, inside |-> "x" :> "l",
     row |-> "s" :> Task("S") @@ "l" :> Row("workflow", "workflow", "W")
             @@ "r" :> Row("validation", "task", "R") @@ "d" :> Task("D")
             @@ "x" :> Task("D")],
    (* Two repeats of one task. *)
    [kind |-> "p" :> "repeat" @@ "q" :> "repeat",
     deps |-> "p" :> {} @@ "q" :> {"p"},
     own |-> "p" :> {} @@ "q" :> {"p"},
     arms |-> <<>>, source |-> <<>>,
     order |-> <<"p", "q">>, inside |-> "t" :> "p" @@ "u" :> "q",
     row |-> "p" :> Row("loop", "task", "p") @@ "q" :> Row("loop", "task", "q")
             @@ "t" :> Task("T") @@ "u" :> Task("T")] }
=============================================================================
