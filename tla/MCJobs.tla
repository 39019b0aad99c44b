-------------------------------- MODULE MCJobs --------------------------------
(* Machines around the runtime, one at a time: the repeats of a workflow,   *)
(* two in one layer, one with nextInput, whose limits together exceed the   *)
(* budget, so that either may use it up; the steps of a service action; the *)
(* resolution of merge conflicts; the reviews of one pull request; a run    *)
(* that an application starts itself; two calls of an ACP adapter; what a   *)
(* call of the OpenCode adapter tells of its tools; and what the view of a  *)
(* run keeps of two rows, a task and a validation.                          *)
(* The machines share no state; those that do not run keep their first.     *)
EXTENDS RepeatLoop, TLC

CONSTANTS
    Kinds, MaxFaults,                         \* ServiceAction
    MaxAttempts, MaxMoves,                    \* MergeResolution
    MaxReviews, MaxTries, MaxPushes, MaxCuts, \* ReviewRun
    MaxStarts,                                \* DirectRun
    AcpCalls, Tools, MaxRepairs, MaxRecords,  \* AcpSession
    ProjectedTools, MessageOf, Old, MaxPrompts, PageSize, MaxPages, MaxSpans, MaxRefusals, \* OpenCodeProjection
    MaxEvents                                 \* RunDetails

VARIABLES
    machine,   \* the machine that runs
    kind, step, tool, folder, process, adopted, link, asked, sent, foreign, known, saved,
    stopping, told, harmed, faults,
    request, at, remote, checkout, read, conflicts, marked, attempts, lifecycle, lazy,
    server, token, published, lost, outcome,
    reviews, pushed, comment, job, doing, prior, created, clearing, kept, ledger, leftover, cuts,
    profile, policy, offer, stage, cancelling, verdict, task, selection, session, adapter,
    pinned, generation, checkpoint, forkedAt, service, starts, lease, unclean,
    call, answered, line, agent, prompt, busy, gone, scope, requested, permitting, attempt,
    used, closings, records, spans, left,
    projecting, textual, format, prompts, listed, ran, seen, named, located, shown, strange,
    span, disabled, refusals, history, pages, unsent, blind, fallback,
    row, entries, retained, details, events

Unset == "unset"
MCPolicies ==
    LET Own(model) == [kind |-> "isolated", from |-> 0, model |-> model]
        Reuse(t) == [kind |-> "reuse", from |-> t, model |-> Unset]
        Fork(t, model) == [kind |-> "fork", from |-> t, model |-> model]
        Plan(second, third, default, late) ==
            [session |-> <<Own(Unset), second, third>>, default |-> default, late |-> late]
    IN  {Plan(Own("b"), Fork(2, Unset), Unset, FALSE),
         Plan(Fork(1, "b"), Fork(1, Unset), "b", FALSE),
         Plan(Fork(1, "b"), Reuse(1), Unset, TRUE),
         Plan(Reuse(1), Fork(1, Unset), "b", TRUE),
         Plan(Reuse(1), Reuse(1), "b", FALSE)}

Service == INSTANCE ServiceAction
Merge == INSTANCE MergeResolution
Review == INSTANCE ReviewRun
Direct == INSTANCE DirectRun WITH Policies <- MCPolicies
Acp == INSTANCE AcpSession WITH at <- call, tool <- used, asked <- permitting
Projection == INSTANCE OpenCodeProjection WITH phase <- projecting, Tools <- ProjectedTools

Details == INSTANCE RunDetails
    WITH Rows <- {"t", "c"}, Checks <- {"c"}, Observations <- {"o"}, Parts <- {"p"},
         Activities <- {<<"tool", "x">>, <<"skill", "x">>},
         ValueBytes <- 4, ValueEntries <- 2, RowBytes <- 3, RunBytes <- 4, Chunks <- 2,
         told <- events

(* The bounds are numbers. *)
ASSUME ServiceAssumption == MaxFaults \in Nat
ASSUME MergeAssumption == MaxMoves \in Nat /\ MaxAttempts \in Nat
ASSUME ReviewAssumption ==
    MaxReviews \in Nat /\ MaxTries \in Nat \ {0} /\ MaxPushes \in Nat /\ MaxCuts \in Nat

(* An agent has a call, or none; a tool is part of a message.              *)
ASSUME AcpAssumption ==
    IsFiniteSet(AcpCalls) /\ Acp!Nobody \notin AcpCalls /\ MaxRepairs \in Nat /\ MaxRecords \in Nat
ASSUME ProjectionAssumption ==
    /\ Old \in Nat /\ {MaxPrompts, PageSize, MaxPages} \subseteq Nat \ {0} /\ MaxRefusals \in Nat
    /\ MessageOf \in [ProjectedTools -> Projection!Messages]

serviceVars == <<kind, step, tool, folder, process, adopted, link, asked, sent, foreign,
                 known, saved, stopping, told, harmed, faults>>
mergeVars == <<request, at, remote, checkout, read, conflicts, marked, attempts,
               lifecycle, lazy, server, token, published, lost, outcome>>
reviewVars == <<reviews, pushed, comment, job, doing, prior, created, clearing, kept,
                ledger, leftover, cuts>>
runVars == <<profile, policy, offer, stage, cancelling, verdict, task, selection, session,
             adapter, pinned, generation, checkpoint, forkedAt, service, starts, lease, unclean>>
acpVars == <<call, answered, line, agent, prompt, busy, gone, scope, requested, permitting,
             attempt, used, closings, records, spans, left>>
projectionVars == <<projecting, textual, format, prompts, listed, ran, seen, named, located,
                    shown, strange, span, disabled, refusals, history, pages, unsent, blind,
                    fallback>>
detailVars == <<row, entries, retained, details, events>>
jobVars == <<machine, vars, serviceVars, mergeVars, reviewVars, runVars, acpVars,
             projectionVars, detailVars>>

MCLimits == "p" :> 2 @@ "q" :> 3
MCMessageOf == "t0" :> 3 @@ "t1" :> 4

Machines == {"repeats", "service", "merge", "review", "run", "acp", "projection", "details"}

JobsInit ==
    /\ machine \in Machines
    /\ Init
    /\ Service!ServiceInit /\ (machine # "service" => kind = "zvec")
    /\ Merge!MergeInit
    /\ machine # "merge" => request = [strategy |-> "merge", commit |-> FALSE, push |-> FALSE]
    /\ Review!ReviewInit
    /\ Direct!RunInit
    /\ machine # "run" => profile = "direct" /\ ~offer.able /\ policy.session[3].kind = "reuse" /\ ~policy.late
    /\ Acp!AcpInit
    /\ Projection!ProjectionInit
    /\ machine # "projection" => textual /\ \A t \in ProjectedTools : format[t] = "native"
    /\ Details!DetailsInit

(* Only the machine that was chosen moves. *)
OthersStay ==
    /\ UNCHANGED machine
    /\ machine = "repeats" \/ UNCHANGED vars
    /\ machine = "service" \/ UNCHANGED serviceVars
    /\ machine = "merge" \/ UNCHANGED mergeVars
    /\ machine = "review" \/ UNCHANGED reviewVars
    /\ machine = "run" \/ UNCHANGED runVars
    /\ machine = "acp" \/ UNCHANGED acpVars
    /\ machine = "projection" \/ UNCHANGED projectionVars
    /\ machine = "details" \/ UNCHANGED detailVars

RepeatStep == machine = "repeats" /\ Next /\ OthersStay
ServiceStep == machine = "service" /\ Service!ServiceNext /\ OthersStay
MergeStep == machine = "merge" /\ Merge!MergeNext /\ OthersStay
ReviewStep == machine = "review" /\ Review!ReviewNext /\ OthersStay
RunStep == machine = "run" /\ Direct!DirectNext /\ OthersStay
AcpStep == machine = "acp" /\ Acp!AcpNext /\ OthersStay
ProjectionStep == machine = "projection" /\ Projection!ProjectionNext /\ OthersStay
DetailsStep == machine = "details" /\ Details!DetailsNext /\ OthersStay

(* The machine has nothing left to do, or nothing that it has begun. *)
Finished ==
    CASE machine = "repeats" -> FALSE
      [] machine = "service" -> Service!ServiceOver
      [] machine = "merge" -> Merge!MergeOver
      [] machine = "review" -> Review!ReviewsOver
      [] machine = "run" -> Direct!DirectOver
      [] machine = "acp" -> Acp!AcpOver
      [] machine = "projection" -> Projection!ProjectionOver
      [] machine = "details" -> Details!DetailsOver

AtRest ==
    CASE machine = "repeats" -> RepeatsOver
      [] machine = "review" -> job = 0
      [] machine = "acp" -> Acp!AcpRests
      [] machine = "details" -> TRUE
      [] OTHER -> Finished

JobsDone ==
    /\ Finished
    /\ UNCHANGED jobVars

JobsNext ==
    \/ RepeatStep \/ ServiceStep \/ MergeStep \/ ReviewStep \/ RunStep \/ AcpStep
    \/ ProjectionStep \/ DetailsStep \/ JobsDone

JobsFairness ==
    /\ \A r \in Repeats : WF_vars(machine = "repeats" /\ Advance(r))
    /\ WF_serviceVars(machine = "service" /\ Service!ServiceProgress)
    /\ WF_serviceVars(machine = "service" /\ Service!Anchor)
    /\ WF_mergeVars(machine = "merge" /\ Merge!MergeProgress)
    /\ WF_reviewVars(machine = "review" /\ Review!ReviewProgress)
    /\ WF_runVars(machine = "run" /\ Direct!RunProgress)
    /\ WF_acpVars(machine = "acp" /\ Acp!AcpProgress)
    /\ WF_acpVars(machine = "acp" /\ Acp!Interrupted)
    /\ WF_projectionVars(machine = "projection" /\ Projection!CallProgress)

JobsSpec == JobsInit /\ [][JobsNext]_jobVars /\ JobsFairness

(* A service group is never lost sight of, no signal reaches a stranger,    *)
(* and nothing but what was asked for runs (ServiceAction).                 *)
ServiceSafe == machine = "service" => Service!ServiceSafe

(* A push of the merge action overwrites nobody and publishes no conflict   *)
(* marker, with the agent out of the way (MergeResolution).  No review is   *)
(* in progress for ever, and no report is lost or replaced by that of an    *)
(* older run (ReviewRun).                                                   *)
ActionsSafe ==
    /\ machine = "merge" => Merge!MergeSafe
    /\ machine = "review" => Review!ReviewSafe

(* A run in the process of its application leaves no agent and no service   *)
(* behind, takes none away from a task, gives each the model the workflow   *)
(* names and forks from nothing stale (DirectRun).  A call of an ACP adapter *)
(* is refused a decision only for its own agent, and its tools end once     *)
(* (AcpSession).  A call of the OpenCode adapter reports the end of a tool  *)
(* once, leaves no span open and tells of no earlier call's tools           *)
(* (OpenCodeProjection).  The view keeps of what agents tell no more than   *)
(* its limits allow, and counts what it keeps (RunDetails).                 *)
AgentsSafe ==
    CASE machine = "run" -> Direct!RunSafe
      [] machine = "acp" -> Acp!AcpTypeOK /\ Acp!OwnDecision /\ Acp!ToolsEndOnce
      [] machine = "projection" -> Projection!ProjectionSafe
      [] machine = "details" -> Details!DetailsSafe
      [] OTHER -> TRUE

(* The resolution implements the states of resolution-state.ts, and the ACP *)
(* adapter what the runtime relies on in an agent adapter (AgentSession).   *)
PromisesKept == Merge!ResolutionFollows /\ Acp!AcpAccounted

(* Every machine ends: the job of a service, a resolution, each review, a   *)
(* run, each call and each repeat that was started, whatever is cancelled,  *)
(* killed or pushed.                                                        *)
JobsEnd == <>[]AtRest
=============================================================================
