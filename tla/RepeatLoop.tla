------------------------------ MODULE RepeatLoop ------------------------------
(* The repeat nodes of one layer of a run: mastra-repeat-compiler.ts lowers *)
(* each to a Mastra dountil loop in a run of its own, started and settled   *)
(* by mastra-repeat-lifecycle.ts, whose step is executeRepeatAttempt of     *)
(* mastra-repeat-attempt-runtime.ts.  They share the abort signal of the    *)
(* outer run and the budget of repeat-body executions.                      *)
(*                                                                         *)
(* The value of an attempt is its number; an input is the number of the     *)
(* attempt whose result it was bound from, or 0 for the initial input.      *)
(* Mastra is external: dountil runs the step, then the condition, and a     *)
(* cancelled run starts no further step.                                    *)
EXTENDS Naturals, Sequences, FiniteSets

CONSTANTS
    Repeats,            \* the repeat nodes
    MaximumIterations,  \* node.maximumIterations of each
    WithNextInput,      \* the repeats that declare nextInput
    MaxBodyExecutions   \* MAX_REPEAT_BODY_EXECUTIONS

ASSUME RepeatAssumption ==
    /\ IsFiniteSet(Repeats)
    /\ WithNextInput \subseteq Repeats
    /\ MaxBodyExecutions \in Nat \ {0}
    /\ MaximumIterations \in [Repeats -> 1..MaxBodyExecutions]

VARIABLES
    aborted,   \* the abort signal of the outer run
    executed,  \* repeatBudget.executed
    phase,     \* how far each repeat has come
    heard,     \* the loop's own run has been cancelled
    reason,    \* why a repeat fails
    inputs,    \* the inputs of the attempts that were started
    verdicts,  \* the until values of the attempts that were persisted
    state      \* the durable state: the next input and the last result

vars == <<aborted, executed, phase, heard, reason, inputs, verdicts, state>>

Ended == {"succeeded", "failed", "cancelled"}
InLoop == {"resolving", "attempt", "persisting", "condition", "extracting"}

TypeOK ==
    /\ aborted \in BOOLEAN
    /\ executed \in Nat
    /\ phase \in [Repeats -> Ended \cup InLoop \cup {"idle", "creating", "failing"}]
    /\ heard \in [Repeats -> BOOLEAN]
    /\ reason \in [Repeats -> {"none", "limit", "budget", "other"}]
    /\ inputs \in [Repeats -> Seq(Nat)]
    /\ verdicts \in [Repeats -> Seq(BOOLEAN)]
    /\ state \in [Repeats -> [input : Nat, result : Nat]]

Init ==
    /\ aborted = FALSE
    /\ executed = 0
    /\ phase = [r \in Repeats |-> "idle"]
    /\ heard = [r \in Repeats |-> FALSE]
    /\ reason = [r \in Repeats |-> "none"]
    /\ inputs = [r \in Repeats |-> <<>>]
    /\ verdicts = [r \in Repeats |-> <<>>]
    /\ state = [r \in Repeats |-> [input |-> 0, result |-> 0]]

MoveTo(r, p) == phase' = [phase EXCEPT ![r] = p]

(* The Mastra run of the loop does not succeed. *)
Fail(r, why) == MoveTo(r, "failing") /\ reason' = [reason EXCEPT ![r] = why]

(* iterationCount of the loop. *)
Iterations(r) == Len(verdicts[r])

-----------------------------------------------------------------------------
(* The abort of the outer run reaches the loops that have a run: the       *)
(* listener does nothing before createRun has returned.                    *)
Abort ==
    /\ ~aborted
    /\ aborted' = TRUE
    /\ heard' = [r \in Repeats |-> heard[r] \/ phase[r] \in InLoop]
    /\ UNCHANGED <<executed, phase, reason, inputs, verdicts, state>>

(* The step of a repeat starts: a cancelled run starts no step. *)
Start(r) ==
    /\ phase[r] = "idle" /\ ~aborted
    /\ MoveTo(r, "creating")
    /\ UNCHANGED <<aborted, executed, heard, reason, inputs, verdicts, state>>

(* createRun returns and the loop starts, or it throws. *)
CreateRun(r) ==
    /\ phase[r] = "creating"
    /\ \/ MoveTo(r, "resolving") /\ UNCHANGED reason
       \/ Fail(r, "other")
    /\ UNCHANGED <<aborted, executed, heard, inputs, verdicts, state>>

(* The faulty Dispatch of a repeat that counts its own attempts only. *)
DispatchAlone(r) ==
    /\ phase[r] = "resolving"
    /\ executed' = executed + 1
    /\ IF Len(inputs[r]) >= MaxBodyExecutions
       THEN Fail(r, "budget") /\ UNCHANGED inputs
       ELSE /\ inputs' = [inputs EXCEPT ![r] = Append(@, state[r].input)]
            /\ MoveTo(r, "attempt") /\ UNCHANGED reason
    /\ UNCHANGED <<aborted, heard, verdicts, state>>

(* The state is not one, is that of another run, or names a snapshot that  *)
(* cannot be read, or the input does not resolve.                          *)
LoseState(r) ==
    /\ phase[r] = "resolving"
    /\ Fail(r, "other")
    /\ UNCHANGED <<aborted, executed, heard, inputs, verdicts, state>>

(* The durable state has been read, the budget is charged and the attempt  *)
(* is invoked.  Admission refuses the attempt of a run that was cancelled  *)
(* while the state was read.                                               *)
Dispatch(r) ==
    /\ phase[r] = "resolving"
    /\ executed' = executed + 1
    /\ \/ /\ executed >= MaxBodyExecutions
          /\ Fail(r, "budget") /\ UNCHANGED inputs
       \/ /\ executed < MaxBodyExecutions /\ heard[r]
          /\ Fail(r, "other") /\ UNCHANGED inputs
       \/ /\ executed < MaxBodyExecutions /\ ~heard[r]
          /\ inputs' = [inputs EXCEPT ![r] = Append(@, state[r].input)]
          /\ MoveTo(r, "attempt") /\ UNCHANGED reason
    /\ UNCHANGED <<aborted, heard, verdicts, state>>

(* The task or the child workflow returns or fails; it is not retried. *)
EndAttempt(r) ==
    /\ phase[r] = "attempt"
    /\ \/ MoveTo(r, "persisting") /\ UNCHANGED reason
       \/ Fail(r, "other")
    /\ UNCHANGED <<aborted, executed, heard, inputs, verdicts, state>>

(* The input of the attempt after this one. *)
NextInput(r, until) ==
    IF ~until /\ r \in WithNextInput THEN Len(inputs[r]) ELSE 0

(* until and nextInput are resolved and the state is saved, or one of them *)
(* does not resolve, or the state is too large.                            *)
Persist(r) ==
    /\ phase[r] = "persisting"
    /\ \/ /\ Fail(r, "other") /\ UNCHANGED <<verdicts, state>>
       \/ \E until \in BOOLEAN :
             /\ state' = [state EXCEPT ![r] = [input |-> NextInput(r, until),
                                               result |-> Len(inputs[r])]]
             /\ verdicts' = [verdicts EXCEPT ![r] = Append(@, until)]
             /\ MoveTo(r, "condition") /\ UNCHANGED reason
    /\ UNCHANGED <<aborted, executed, heard, inputs>>

AtLimit(r) == Iterations(r) >= MaximumIterations[r]

(* buildRepeatCondition, asked after every attempt. *)
Decide(r) ==
    /\ phase[r] = "condition"
    /\ LET until == verdicts[r][Iterations(r)] IN
       \/ until /\ MoveTo(r, "extracting") /\ UNCHANGED reason
       \/ ~until /\ AtLimit(r) /\ Fail(r, "limit")
       \/ ~until /\ ~AtLimit(r) /\ ~heard[r] /\ MoveTo(r, "resolving") /\ UNCHANGED reason
       \/ heard[r] /\ Fail(r, "other")
    /\ UNCHANGED <<aborted, executed, heard, inputs, verdicts, state>>

(* The result step, whose output schema may refuse the result. *)
Extract(r) ==
    /\ phase[r] = "extracting"
    /\ \/ MoveTo(r, "succeeded") /\ UNCHANGED reason
       \/ Fail(r, "other")
    /\ UNCHANGED <<aborted, executed, heard, inputs, verdicts, state>>

(* A faulty Conclude: a result that is no success is only looked at after  *)
(* an abort.                                                               *)
ConcludeAborted(r) ==
    /\ phase[r] = "failing" /\ aborted
    /\ MoveTo(r, "cancelled")
    /\ UNCHANGED <<aborted, executed, heard, reason, inputs, verdicts, state>>

(* The catch block: an abort that came meanwhile decides what is told. *)
Conclude(r) ==
    /\ phase[r] = "failing"
    /\ MoveTo(r, IF aborted THEN "cancelled" ELSE "failed")
    /\ UNCHANGED <<aborted, executed, heard, reason, inputs, verdicts, state>>

-----------------------------------------------------------------------------
Advance(r) ==
    \/ Start(r) \/ CreateRun(r) \/ LoseState(r) \/ Dispatch(r) \/ EndAttempt(r)
    \/ Persist(r) \/ Decide(r) \/ Extract(r) \/ Conclude(r)

Over == \A r \in Repeats : phase[r] \in Ended \/ (aborted /\ phase[r] = "idle")
Done == Over /\ UNCHANGED vars

Next == Abort \/ (\E r \in Repeats : Advance(r)) \/ Done

(* Mastra runs what is ready and an attempt that was started returns. *)
Spec == Init /\ [][Next]_vars /\ \A r \in Repeats : WF_vars(Advance(r))

-----------------------------------------------------------------------------
(* Properties. *)

Attempts == UNION {{r} \X DOMAIN inputs[r] : r \in Repeats}
Started == Cardinality(Attempts)

(* All repeats of the run draw on one budget, and it is used up before any *)
(* repeat fails for it (repeatBudget, executeRepeatAttempt): two loops     *)
(* that interleave neither exceed it together nor starve each other early. *)
BudgetShared ==
    /\ Started <= MaxBodyExecutions
    /\ ~aborted /\ (\E r \in Repeats : reason[r] = "budget") => Started = MaxBodyExecutions

(* A repeat stops at the first true condition and not before the limit,    *)
(* the result it returns is that of the attempt the condition accepted,    *)
(* and each attempt has the input the attempt before it bound, whatever    *)
(* the other repeats and an abort did between its steps.                   *)
StopsWhereItShould ==
    \A r \in Repeats :
        /\ Len(inputs[r]) <= MaximumIterations[r]
        /\ \A k \in DOMAIN verdicts[r] : verdicts[r][k] => k = Len(inputs[r])
        /\ phase[r] = "succeeded" => /\ verdicts[r][Len(inputs[r])]
                                     /\ state[r].result = Len(inputs[r])
        /\ reason[r] = "limit" => Len(inputs[r]) = MaximumIterations[r] /\ ~\E k \in DOMAIN verdicts[r] : verdicts[r][k]
        /\ \A k \in DOMAIN inputs[r] : inputs[r][k] = IF r \in WithNextInput THEN k - 1 ELSE 0

(* The attempts of a run are bounded by what the plan and the budget say.   *)
AttemptsBounded == BudgetShared /\ StopsWhereItShould

(* Every repeat that was started has ended, cancelled or not. *)
RepeatsOver == \A r \in Repeats : phase[r] \in Ended \cup {"idle"}

=============================================================================
