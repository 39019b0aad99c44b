---------------------------- MODULE TaskInvocation ----------------------------
(* One task invocation: executeTaskNode of invocation-execution.ts with    *)
(* InvocationEffects (invocation-effects.ts), ChildSessionRegistry         *)
(* (child-session.ts), executeTask (task-execution.ts) and                 *)
(* publishSessionCheckpoint (session-resolution.ts).                       *)
(*                                                                         *)
(* The executor answers once, but the work it started may outlive its      *)
(* answer: tool activities, managed effects (background processes, child   *)
(* sessions, uncertain requests whose termination is known) and uncertain  *)
(* requests whose termination is not.  Its callbacks stay usable for as    *)
(* long as it likes, also when the invocation no longer listens.  The      *)
(* invocation holds the leases it was admitted with and gives them back in *)
(* its finally block.                                                      *)
EXTENDS Naturals, Sequences, FiniteSets

CONSTANTS
    Effects,           \* managed effects the executor may report
    Activities,        \* tool and skill activities it may report
    EagerConsumers,    \* consumers of the session checkpoint, in plan order
    DeferredConsumers, \* consumers that are choice arms
    Setups             \* what may differ between invocations

(* The eager consumers are a sequence. *)
ASSUME ConsumersAssumption ==
    EagerConsumers \in Seq({EagerConsumers[n] : n \in DOMAIN EagerConsumers})

(* forks: the consumers that fork, the others reuse; leases: what the      *)
(* admission gives; canFork: the session has checkpoint() and fork();      *)
(* validated: the output has evaluators.                                   *)
ASSUME SetupsAssumption ==
    Setups \subseteq [forks : SUBSET (DeferredConsumers \cup {EagerConsumers[n] : n \in DOMAIN EagerConsumers}),
                      leases : SUBSET {"workspace", "session"},
                      canFork : BOOLEAN, validated : BOOLEAN]

VARIABLES
    setup,          \* the invocation at hand, one of Setups
    step,           \* where executeTaskNode is
    leases,         \* the leases not yet given back
    aborted,        \* abortSignal.aborted
    effects,        \* #effectCompletions: state of every managed effect
    activities,     \* #activeActivityIds: state of every activity
    late,           \* what was reported when nobody waits for it any more
    effectFailed,   \* #failure
    answer,         \* what executeTask returned, or that it threw
    unconfirmed,    \* unconfirmedActivity is set (and the session quarantined)
    result,         \* the node's output is in results
    deferredSource, \* the entry of deferredSessionSources
    materialized,   \* how many eager consumers have their session ready
    resolved,       \* resolvedSessions of the eager consumers
    outcome

workVars == <<effects, activities, late, effectFailed, unconfirmed>>
publishVars == <<result, deferredSource, materialized, resolved>>
vars == <<setup, step, leases, aborted, effects, activities, late, effectFailed,
          answer, unconfirmed, result, deferredSource, materialized, resolved,
          outcome>>

Steps == {"admission", "executing", "draining", "asleep", "validating",
          "capturing", "forking", "ended"}
Waiting == {"executing", "draining", "asleep"}
Forks == setup.forks
LeasesTaken == setup.leases
CanFork == setup.canFork
Validated == setup.validated
Eager == 1..Len(EagerConsumers)
EagerForks == {n \in Eager : EagerConsumers[n] \in Forks}
HasSession == "session" \in LeasesTaken

TypeOK ==
    /\ setup \in Setups
    /\ step \in Steps
    /\ leases \subseteq LeasesTaken
    /\ aborted \in BOOLEAN
    /\ effects \in [Effects -> {"new", "running", "settled", "rejected", "ended"}]
    /\ activities \in [Activities -> {"new", "running", "ended"}]
    /\ late \subseteq Effects \cup Activities
    /\ effectFailed \in BOOLEAN
    /\ answer \in {"none", "output", "failure"}
    /\ unconfirmed \in BOOLEAN
    /\ result \in BOOLEAN
    /\ deferredSource \in {"none", "session", "checkpoint", "failure"}
    /\ materialized \in 0..Len(EagerConsumers)
    /\ resolved \in [Eager -> {"none", "source", "fork"}]
    /\ outcome \in {"none", "refused", "succeeded", "failed", "cancelled"}

Init ==
    /\ setup \in Setups
    /\ step = "admission"
    /\ leases = {}
    /\ aborted = FALSE
    /\ effects = [e \in Effects |-> "new"]
    /\ activities = [a \in Activities |-> "new"]
    /\ late = {}
    /\ effectFailed = FALSE
    /\ answer = "none"
    /\ unconfirmed = FALSE
    /\ result = FALSE
    /\ deferredSource = "none"
    /\ materialized = 0
    /\ resolved = [n \in Eager |-> "none"]
    /\ outcome = "none"

-----------------------------------------------------------------------------
PendingEffects(es) == {e \in Effects : es[e] \in {"running", "settled", "rejected"}}
ActiveActivities(as) == {a \in Activities : as[a] = "running"}

(* A faulty Terminated: only activities are looked at. *)
TerminatedActivities(es, as) == ActiveActivities(as) = {}

(* #isTerminated. *)
Terminated(es, as) == PendingEffects(es) = {} /\ ActiveActivities(as) = {}

(* The executor has been called, so its callbacks exist. *)
Called == step \in Steps \ {"admission", "ended"} \/ answer # "none"

(* A faulty Notified: the waiter is not told. *)
NotifiedNever(es, as) == step

(* #notifyIfTerminated: the sleeping waiter is resolved. *)
Notified(es, as) ==
    IF step = "asleep" /\ Terminated(es, as) THEN "draining" ELSE step

(* throwInvocationFailure or the return of the output, and the finally     *)
(* block: an aborted invocation reports no failure of its own, and leases  *)
(* are given back unless activity is unconfirmed.                          *)
Finally(failed) ==
    /\ step' = "ended"
    /\ outcome' = IF ~failed THEN "succeeded"
                  ELSE IF aborted THEN "cancelled" ELSE "failed"
    /\ leases' = IF unconfirmed THEN leases ELSE {}

-----------------------------------------------------------------------------
(* The admission rejects: aborted, or the session is quarantined. *)
Refuse ==
    /\ step = "admission"
    /\ step' = "ended"
    /\ outcome' = IF aborted THEN "cancelled" ELSE "refused"
    /\ UNCHANGED <<leases, aborted, workVars, answer, publishVars>>

(* The admission resolves; the input is parsed and the executor called in  *)
(* the same turn, or the input is refused and the leases go back.          *)
Admit ==
    /\ step = "admission"
    /\ \/ step' = "executing" /\ leases' = LeasesTaken /\ UNCHANGED outcome
       \/ /\ step' = "ended"
          /\ leases' = {}
          /\ outcome' = IF aborted THEN "cancelled" ELSE "failed"
    /\ UNCHANGED <<aborted, workVars, answer, publishVars>>

(* The executor answers or throws; an answer that comes after the abort    *)
(* counts as thrown.                                                       *)
Answer ==
    /\ step = "executing"
    /\ step' = "draining"
    /\ \/ answer' = "failure"
       \/ ~aborted /\ answer' = "output"
    /\ UNCHANGED <<leases, aborted, workVars, publishVars, outcome>>

(* #trackTermination: a background process, a child session or an          *)
(* uncertain request with a termination.                                   *)
Track(e) ==
    /\ Called
    /\ effects[e] = "new"
    /\ effects' = [effects EXCEPT ![e] = "running"]
    /\ late' = IF step \in Waiting THEN late ELSE late \cup {e}
    /\ UNCHANGED <<step, leases, aborted, activities, effectFailed, answer,
                   unconfirmed, publishVars, outcome>>

(* The termination promise of an effect settles (a child session leaves    *)
(* the child session registry), ...                                        *)
Settle(e) ==
    /\ effects[e] = "running"
    /\ \E end \in {"settled", "rejected"} : effects' = [effects EXCEPT ![e] = end]
    /\ UNCHANGED <<step, leases, aborted, activities, late, effectFailed,
                   answer, unconfirmed, publishVars, outcome>>

(* ... and in a later turn its completion is removed and a failure kept.   *)
Complete(e) ==
    /\ effects[e] \in {"settled", "rejected"}
    /\ effects' = [effects EXCEPT ![e] = "ended"]
    /\ effectFailed' = (effectFailed \/ effects[e] = "rejected")
    /\ step' = Notified(effects', activities)
    /\ UNCHANGED <<leases, aborted, activities, late, answer, unconfirmed,
                   publishVars, outcome>>

(* observeActivity with "started". *)
StartActivity(a) ==
    /\ Called
    /\ activities[a] = "new"
    /\ activities' = [activities EXCEPT ![a] = "running"]
    /\ late' = IF step \in Waiting THEN late ELSE late \cup {a}
    /\ UNCHANGED <<step, leases, aborted, effects, effectFailed, answer,
                   unconfirmed, publishVars, outcome>>

(* observeActivity with "succeeded" or "failed". *)
EndActivity(a) ==
    /\ activities[a] = "running"
    /\ activities' = [activities EXCEPT ![a] = "ended"]
    /\ step' = Notified(effects, activities')
    /\ UNCHANGED <<leases, aborted, effects, late, effectFailed, answer,
                   unconfirmed, publishVars, outcome>>

(* onUncertainActivity without a termination: the session is quarantined.  *)
ReportUncertain ==
    /\ Called
    /\ ~unconfirmed
    /\ unconfirmed' = TRUE
    /\ UNCHANGED <<step, leases, aborted, effects, activities, late,
                   effectFailed, answer, publishVars, outcome>>

Abort ==
    /\ ~aborted
    /\ aborted' = TRUE
    /\ UNCHANGED <<step, leases, workVars, answer, publishVars, outcome>>

-----------------------------------------------------------------------------
(* All eager consumers get their session: the source's, or their fork.     *)
ResolveAll ==
    resolved' = [n \in Eager |-> IF n \in EagerForks THEN "fork" ELSE "source"]

(* A faulty Defer: choice arms are forgotten unless a task forks as well. *)
DeferWithForks(entry) ==
    deferredSource' = IF EagerForks = {} THEN deferredSource ELSE entry

(* What the arms of later choices find in deferredSessionSources. *)
Defer(entry) ==
    deferredSource' = IF DeferredConsumers = {} THEN deferredSource ELSE entry

(* No checkpoint can be had: an eager fork fails the invocation, otherwise *)
(* the eager consumers reuse the session and choice arms are told why.     *)
WithoutCheckpoint ==
    IF EagerForks # {}
    THEN /\ Finally(TRUE)
         /\ UNCHANGED <<deferredSource, materialized, resolved>>
    ELSE /\ deferredSource' = "failure"
         /\ ResolveAll
         /\ Finally(FALSE)
         /\ UNCHANGED materialized

(* results.set, then publishSessionCheckpoint up to its first await. *)
Publish ==
    /\ result' = TRUE
    /\ IF ~HasSession \/ (Eager = {} /\ DeferredConsumers = {})
       THEN Finally(FALSE) /\ UNCHANGED <<deferredSource, materialized, resolved>>
       ELSE IF EagerForks = {} /\ DeferredConsumers \cap Forks = {}
       THEN Defer("session") /\ ResolveAll /\ Finally(FALSE) /\ UNCHANGED materialized
       ELSE IF ~CanFork THEN WithoutCheckpoint
       ELSE /\ step' = "capturing"
            /\ UNCHANGED <<leases, deferredSource, materialized, resolved, outcome>>

(* releaseWorkspace before the evaluators run. *)
GiveWorkspaceBack == leases' = leases \ {"workspace"}

(* A faulty WorkFailed: what happened after the answer does not count. *)
AnswerFailed == answer = "failure"

(* The executor, an effect or an unconfirmed request failed. *)
WorkFailed == answer = "failure" \/ effectFailed \/ unconfirmed

(* waitForTermination looks: it sleeps while something runs; else a        *)
(* failure is thrown, or the output is parsed and validated or published.  *)
Drain ==
    /\ step = "draining"
    /\ UNCHANGED <<aborted, workVars, answer>>
    /\ IF ~Terminated(effects, activities)
       THEN step' = "asleep" /\ UNCHANGED <<leases, publishVars, outcome>>
       ELSE \/ Finally(TRUE) /\ UNCHANGED publishVars
            \/ /\ ~WorkFailed /\ Validated
               /\ step' = "validating"
               /\ GiveWorkspaceBack
               /\ UNCHANGED <<publishVars, outcome>>
            \/ ~WorkFailed /\ ~Validated /\ Publish

(* validateOutput: the evaluators reject the output or accept it. *)
Validate ==
    /\ step = "validating"
    /\ UNCHANGED <<aborted, workVars, answer>>
    /\ \/ Finally(TRUE) /\ UNCHANGED publishVars
       \/ Publish

(* captureCheckpoint() settles. *)
Capture ==
    /\ step = "capturing"
    /\ UNCHANGED <<aborted, workVars, answer, result>>
    /\ \/ WithoutCheckpoint
       \/ /\ Defer("checkpoint")
          /\ UNCHANGED materialized
          /\ IF EagerForks = {}
             THEN ResolveAll /\ Finally(FALSE)
             ELSE step' = "forking" /\ UNCHANGED <<leases, resolved, outcome>>

(* fork() of the next eager fork settles; once every session exists all    *)
(* are published in one turn.                                              *)
Fork ==
    LET next == CHOOSE n \in EagerForks :
                    n > materialized /\ \A m \in EagerForks : m > materialized => n <= m
        rest == {n \in EagerForks : n > next}
    IN  /\ step = "forking"
        /\ UNCHANGED <<aborted, workVars, answer, result, deferredSource>>
        /\ \/ Finally(TRUE) /\ UNCHANGED <<materialized, resolved>>
           \/ IF rest # {}
              THEN materialized' = next /\ UNCHANGED <<step, leases, resolved, outcome>>
              ELSE materialized' = Len(EagerConsumers) /\ ResolveAll /\ Finally(FALSE)

Invoke ==
    \/ Refuse \/ Admit \/ Answer \/ ReportUncertain \/ Abort
    \/ Drain \/ Validate \/ Capture \/ Fork
    \/ \E e \in Effects : Track(e) \/ Settle(e) \/ Complete(e)
    \/ \E a \in Activities : StartActivity(a) \/ EndActivity(a)

Next == Invoke /\ UNCHANGED setup

(* Promises that are awaited settle: executors have deadlines, effects and *)
(* activities end.  Nothing forces an admission, an abort or a report.     *)
WorkFairness ==
    /\ WF_vars(Drain /\ UNCHANGED setup)
    /\ WF_vars(Validate /\ UNCHANGED setup)
    /\ WF_vars(Capture /\ UNCHANGED setup)
    /\ WF_vars(Fork /\ UNCHANGED setup)
    /\ \A e \in Effects : WF_vars((Settle(e) \/ Complete(e)) /\ UNCHANGED setup)
    /\ \A a \in Activities : WF_vars(EndActivity(a) /\ UNCHANGED setup)
Fairness == WF_vars(Answer /\ UNCHANGED setup) /\ WorkFairness

Spec == Init /\ [][Next]_vars
FairSpec == Spec /\ Fairness

-----------------------------------------------------------------------------
(* While work the executor reported before its invocation stopped          *)
(* listening is in progress, every lease of the admission is held: nobody  *)
(* else enters a workspace a background process may still write.  And the  *)
(* session stays locked until its checkpoint is captured and its forks     *)
(* exist, evaluators or not: no other task can add to the conversation     *)
(* that is being captured.                                                 *)
LeasesCoverWork ==
    /\ (PendingEffects(effects) \cup ActiveActivities(activities)) \ late # {}
          => leases = LeasesTaken
    /\ step \in {"validating", "capturing", "forking"} /\ HasSession => "session" \in leases

(* A failure of the executor, of an effect that outlived its answer or of  *)
(* an unconfirmed request is never lost: the invocation does not go on to  *)
(* use the output and does not succeed.                                    *)
FailureIsNotLost ==
    [][(answer = "failure" \/ effectFailed \/ unconfirmed) /\ step \in Waiting /\ step' \notin Waiting
        => outcome' \in {"failed", "cancelled"} /\ ~result']_vars

(* Eager fan-out: a consumer that reuses the session is only let in when   *)
(* every fork of it exists; consumers get sessions all together, and only  *)
(* from an invocation that succeeds.                                       *)
PublishedTogether ==
    \A n \in Eager :
        resolved[n] # "none" <=>
            outcome = "succeeded" /\ HasSession

(* A choice arm selected later finds its source: the session, and the      *)
(* checkpoint it would fork or the reason why there is none                *)
(* (materializeDeferredSessionConsumer).                                   *)
ArmFindsSource ==
    outcome = "succeeded" /\ HasSession /\ DeferredConsumers # {} =>
        /\ deferredSource # "none"
        /\ DeferredConsumers \cap Forks # {} => deferredSource \in {"checkpoint", "failure"}

(* Whoever continues the session of an invocation, at once or later, finds *)
(* what the source published, and finds it only when all of it exists.     *)
SessionsPublished == PublishedTogether /\ ArmFindsSource

(* An invocation that starts executing ends. *)
InvocationEnds == (step = "executing") ~> (step = "ended")
=============================================================================
