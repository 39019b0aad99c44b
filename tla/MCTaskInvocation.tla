--------------------------- MODULE MCTaskInvocation ---------------------------
(* A task with two managed effects and an activity.  Its checkpoint is     *)
(* wanted by three tasks and a choice arm: with two forks and evaluators;  *)
(* or admitted by its session alone (its workflow holds the workspace) and *)
(* forked by the arm only; or without the means to fork at all.  Instead   *)
(* of effects the task may run a process, or have a classifier call whose   *)
(* last backoff fits into the budget if nothing before it takes long.      *)
EXTENDS AwaitedCalls, TLC

CONSTANTS procE, childE, toolA, consR, consF, consG, armD

MCEagerConsumers == <<consF, consR, consG>>
MCSetups ==
    {[forks |-> {consF, consG, armD}, leases |-> {"workspace", "session"}, canFork |-> TRUE, validated |-> TRUE],
     [forks |-> {armD}, leases |-> {"session"}, canFork |-> TRUE, validated |-> FALSE],
     [forks |-> {consF}, leases |-> {"workspace", "session"}, canFork |-> FALSE, validated |-> FALSE]}
MCBackoff == <<1, 2, 4>>
===============================================================================
