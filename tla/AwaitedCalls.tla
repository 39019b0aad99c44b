----------------------------- MODULE AwaitedCalls -----------------------------
(* What the execute of a task may await, inside the task invocation whose   *)
(* signal it shares: a classification, or a process.                        *)
EXTENDS TaskInvocation

-----------------------------------------------------------------------------
(* context.classify: SystemOneClient.classify, its attempts                 *)
(* (runSystemOneAttempts) and the observation of each.  Time is counted in  *)
(* units of the first backoff.  The clock that assertActive reads and the   *)
(* timer that aborts the request may be apart: both are late by as much as  *)
(* the event loop is.  What is sent and answered is left out, but for       *)
(* whether it can be retried.                                               *)
CONSTANTS
    Budget,       \* CLASSIFIER_TRANSPORT_BUDGET_MS
    Backoff,      \* CLASSIFIER_RETRY_BACKOFF_MS
    RetryAfters   \* delays a response may ask for, 0 where it asks for none

ASSUME BackoffAssumption == Budget \in Nat /\ Backoff \in Seq(Nat) /\ RetryAfters \subseteq Nat

(* step: "off" for a task that does not classify; sent, sentAt: attempts    *)
(* with a request and when the last was sent; until: the end of the backoff;*)
(* asked: the Retry-After of a response that is being dropped; observed: the*)
(* states of the observations that were made; result: what classify came to.*)
VARIABLE call

callVars == <<vars, call>>

MaxAttempts == Len(Backoff) + 1     \* CLASSIFIER_MAX_ATTEMPTS
NotRetryable == Budget + 1          \* a response that is not asked for again
UnderWay == call.step \in {"fetching", "dropping", "reading", "waiting"}

NewCall(at) ==
    [step |-> at, sent |-> 0, sentAt |-> 0, now |-> 0, timedOut |-> FALSE, until |-> 0, asked |-> 0,
     observed |-> <<>>, result |-> "none"]

CallInit == Init /\ call \in {NewCall("off"), NewCall("idle")}

(* The time passes while the call waits; a tick beyond the budget is enough *)
(* for the timer to be late.                                                *)
Elapse ==
    /\ UnderWay /\ call.now <= Budget
    /\ call' = [call EXCEPT !.now = @ + 1]

TimerFires ==
    /\ UnderWay /\ call.now >= Budget /\ ~call.timedOut
    /\ call' = [call EXCEPT !.timedOut = TRUE]

(* The signal that the requests and the backoff have. *)
SignalAborted == aborted \/ call.timedOut

(* assertActive *)
Verdict(time) ==
    CASE aborted -> "cancelled"
      [] ~aborted /\ (call.timedOut \/ time >= Budget) -> "deadline"
      [] OTHER -> "active"

-----------------------------------------------------------------------------
(* One observation, final before the sink is called, whatever the sink does.*)
Observe(state, sinkThrows) == <<state>>

Over(end, observation) ==
    call' = [call EXCEPT !.step = "over", !.result = end, !.observed = @ \o observation]

Request == call' = [call EXCEPT !.step = "fetching", !.sent = @ + 1, !.sentAt = call.now]

(* The next attempt sends its request, unless the call is not active.       *)
Attempt ==
    IF Verdict(call.now) # "active" THEN Over(Verdict(call.now), <<>>)
    ELSE Request

(* prepareRequest, or validateConnection, refuses: nothing was sent, and    *)
(* there is nothing to observe.                                             *)
NotPrepared == Over("failed", <<>>)

(* classify up to its first request. *)
Classify ==
    /\ call.step = "idle" /\ step = "executing"
    /\ IF aborted THEN Over("cancelled", <<>>) ELSE Attempt \/ NotPrepared

(* retryDelayFor, where there is a backoff left *)
RetryDelay(attempt, asked) == IF asked > Backoff[attempt] THEN asked ELSE Backoff[attempt]

(* An attempt ends without a result: it is observed, and retried after a    *)
(* delay when its failure allows it and the delay fits the budget.  A sink  *)
(* that throws replaces the failure.                                        *)
AttemptFails(asked) ==
    LET verdict == Verdict(call.now)
        state == IF aborted THEN "cancelled" ELSE "failed"
        retries == asked # NotRetryable /\ call.sent < MaxAttempts
    IN  \/ Over("failed", Observe(state, TRUE))
        \/ verdict # "active" /\ Over(verdict, Observe(state, FALSE))
        \/ /\ verdict = "active" /\ ~retries
           /\ Over("failed", Observe(state, FALSE))
        \/ /\ verdict = "active" /\ retries
           /\ IF RetryDelay(call.sent, asked) < Budget - call.now
              THEN call' = [call EXCEPT !.step = "waiting", !.observed = @ \o Observe(state, FALSE),
                                        !.until = call.now + RetryDelay(call.sent, asked)]
              ELSE Over("failed", Observe(state, FALSE))

(* fetch settles: it rejects, as it does when the signal aborts, or there   *)
(* is a response.  The body of one with an error status is cancelled first. *)
FetchSettles ==
    /\ call.step = "fetching"
    /\ \/ AttemptFails(0)
       \/ Verdict(call.now) = "active" /\ call' = [call EXCEPT !.step = "reading"]
       \/ /\ Verdict(call.now) = "active"
          /\ \E asked \in RetryAfters \cup {NotRetryable} :
                call' = [call EXCEPT !.step = "dropping", !.asked = asked]

BodyDropped ==
    /\ call.step = "dropping"
    /\ AttemptFails(call.asked)

(* The body cannot be read, which is retried as a connection that failed;   *)
(* or it is too large, no text or no JSON, which is not.                    *)
BodyFails == AttemptFails(0) \/ AttemptFails(NotRetryable)

(* The body fails, is no answer to the questions, or is mapped and observed *)
(* as succeeded; the clock is read once more after the sink has returned.   *)
ReadSettles ==
    /\ call.step = "reading"
    /\ \/ BodyFails \/ AttemptFails(NotRetryable)
       \/ /\ Verdict(call.now) = "active"
          /\ \/ Over("failed", Observe("succeeded", TRUE))
             \/ \E later \in {call.now, call.now + 1} :
                    Over(IF Verdict(later) = "active" THEN "result" ELSE Verdict(later),
                         Observe("succeeded", FALSE))

(* A faulty backoff that does not look whether the call is still active. *)
WaitEndsBlindly ==
    /\ call.step = "waiting"
    /\ \/ SignalAborted /\ Over(Verdict(call.now), <<>>)
       \/ call.now >= call.until /\ Request

(* waitForRetry: the delay is over, or the signal aborts it. *)
WaitEnds ==
    /\ call.step = "waiting"
    /\ \/ SignalAborted /\ Over(Verdict(call.now), <<>>)
       \/ call.now >= call.until /\ Attempt

Settles == FetchSettles \/ BodyDropped \/ ReadSettles \/ WaitEnds

-----------------------------------------------------------------------------
(* The invocation: execute answers when its call has settled.  A task that  *)
(* classifies runs no agent, so that it reports neither effects nor         *)
(* activities.                                                              *)
InvokeBeside ==
    /\ Next /\ UNCHANGED call
    /\ step = "executing" /\ step' = "draining" => call.step \in {"off", "over"}
    /\ call.step # "off" => effects' = effects /\ activities' = activities

CallNext ==
    \/ InvokeBeside
    \/ UNCHANGED vars /\ (Classify \/ Settles \/ Elapse \/ TimerFires)

AnswerBeside == Answer /\ UNCHANGED <<setup, call>> /\ call.step \in {"off", "over"}

(* Time passes, the timer fires, and what the signal has aborted settles;   *)
(* the provider need not answer.                                            *)
ClassifyFairness ==
    /\ WF_callVars(UNCHANGED vars /\ (Classify \/ Elapse))
    /\ WF_callVars(UNCHANGED vars /\ TimerFires)
    /\ WF_callVars(UNCHANGED vars /\ SignalAborted /\ Settles)
    /\ WF_callVars(UNCHANGED vars /\ BodyDropped)

-----------------------------------------------------------------------------
(* Every request has exactly one observation, made before the next request  *)
(* and before the call settles, and none but the last is anything else than *)
(* failed.                                                                  *)
OneObservationEach ==
    /\ Len(call.observed) =
          call.sent - (IF call.step \in {"fetching", "dropping", "reading"} THEN 1 ELSE 0)
    /\ \A i \in DOMAIN call.observed : i < call.sent => call.observed[i] = "failed"

(* A call that gives a result has observed it as succeeded.                *)
ResultObserved ==
    call.result = "result" => call.observed[call.sent] = "succeeded"

(* When an attempt may be made at the earliest: after the backoffs before it.*)
Earliest[n \in 1..MaxAttempts] ==
    IF n = 1 THEN 0 ELSE Earliest[n - 1] + Backoff[n - 1]

(* There are four requests at most, none is sent when the budget is spent,  *)
(* and each is sent after all the backoffs before it.                       *)
RequestsSpaced ==
    /\ call.sent <= MaxAttempts
    /\ call.sent > 0 => Earliest[call.sent] <= call.sentAt /\ call.sentAt < Budget

(* The retries of a call keep to its budget, and every attempt is accounted *)
(* for by what is observed of it.                                           *)
AttemptsObserved == OneObservationEach /\ ResultObserved /\ RequestsSpaced

-----------------------------------------------------------------------------
(* context.exec: runMastraProcess with its cancellation barrier.  Mastra's  *)
(* sandbox is external: a command starts a process group that ends when it  *)
(* likes, sooner if it is told to, and the command may return while         *)
(* descendants still run.  The sandbox lists the process until it is        *)
(* destroyed.  Time is left out: a grace period may end at any moment.      *)

(* step: "off" for a task that runs no process; group: the process group;   *)
(* barrier: the termination that the barrier has begun; end: what           *)
(* runMastraProcess returns or throws.                                      *)
VARIABLE exec

execVars == <<callVars, exec>>

NewExec(at) == [step |-> at, group |-> "none", barrier |-> "none", end |-> "none"]

(* A task makes one of the calls, or none. *)
ExecInit ==
    /\ CallInit
    /\ exec \in {NewExec("off"), NewExec("idle")}
    /\ exec.step = "idle" => call.step = "off"

(* beginTermination, which is begun once *)
Begun(barrier) == IF barrier = "none" THEN "listing" ELSE barrier

(* Until the finally block the barrier listens to the signal. *)
Listening == exec.step \in {"running", "terminating"}

(* wait: an abort that the listener has not heard begins the termination.   *)
Stopping(barrier) == IF aborted THEN Begun(barrier) ELSE barrier

(* The finally block of runMastraProcess, up to its await. *)
EnterFinally(end, barrier) ==
    exec' = [exec EXCEPT !.step = "waiting", !.end = end, !.barrier = Stopping(barrier)]

(* runMastraProcess up to the command: an abort or a request that is        *)
(* refused, and a command that does not start.                              *)
Exec ==
    /\ exec.step = "idle" /\ step = "executing"
    /\ \/ exec' = [exec EXCEPT !.step = "over", !.end = IF aborted THEN "cancelled" ELSE "failure"]
       \/ ~aborted /\ exec' = [exec EXCEPT !.step = "running", !.group = "alive"]
    /\ UNCHANGED callVars

(* The last process of the group ends. *)
GroupEnds ==
    /\ exec.group = "alive"
    /\ exec' = [exec EXCEPT !.group = "gone"]
    /\ UNCHANGED callVars

(* executeCommand settles: with the exit of the command, whose output may   *)
(* have been too long; because it did not start or was killed by the abort; *)
(* or because the sandbox's timeout has killed it.                          *)
CommandSettles ==
    /\ exec.step = "running"
    /\ \/ \E end \in {"output", "failure"} : EnterFinally(end, exec.barrier)
       \/ aborted /\ EnterFinally("cancelled", exec.barrier)
       \/ exec' = [exec EXCEPT !.step = "terminating", !.barrier = Begun(@)]
    /\ UNCHANGED callVars

(* list, and kill every process that is listed; waitForProcessGroupsToExit  *)
(* polls until a group has gone or its grace is over, escalates once, and   *)
(* gives up a group that does not go.                                       *)
BarrierSteps ==
    /\ \/ exec.barrier = "listing" /\ exec' = [exec EXCEPT !.barrier = "polling"]
       \/ /\ exec.barrier \in {"polling", "killed"} /\ exec.group # "alive"
          /\ exec' = [exec EXCEPT !.barrier = "done"]
       \/ exec.barrier = "polling" /\ exec.group = "alive" /\ exec' = [exec EXCEPT !.barrier = "killed"]
       \/ exec.barrier = "killed" /\ exec.group = "alive" /\ exec' = [exec EXCEPT !.barrier = "rejected"]
    /\ UNCHANGED callVars

(* terminate settles after a timeout. *)
TerminationSettles ==
    /\ exec.step = "terminating" /\ exec.barrier \in {"done", "rejected"}
    /\ EnterFinally(IF exec.barrier = "done" THEN "timeout" ELSE "unconfirmed", exec.barrier)
    /\ UNCHANGED callVars

(* A faulty WaitSettles: the sandbox is destroyed without waiting. *)
WaitSettlesAtOnce ==
    /\ exec.step = "waiting"
    /\ exec' = [exec EXCEPT !.step = "destroying"]
    /\ UNCHANGED callVars

(* wait settles: its rejection replaces what was returned or thrown. *)
WaitSettles ==
    /\ exec.step = "waiting" /\ exec.barrier \in {"none", "done", "rejected"}
    /\ exec' = [exec EXCEPT !.step = "destroying",
                            !.end = IF exec.barrier = "rejected" THEN "unconfirmed" ELSE @]
    /\ UNCHANGED callVars

(* destroy settles, and exec of the task's context reports a termination    *)
(* that was not confirmed.                                                  *)
Destroyed ==
    /\ exec.step = "destroying"
    /\ exec' = [exec EXCEPT !.step = "over"]
    /\ IF exec.end = "unconfirmed" /\ ~unconfirmed
       THEN ReportUncertain /\ UNCHANGED <<setup, call>>
       ELSE UNCHANGED callVars

ExecSteps == CommandSettles \/ BarrierSteps \/ TerminationSettles \/ WaitSettles \/ Destroyed

(* The invocation with its call: an abort begins the termination, and       *)
(* execute answers when its process has settled.  A task that runs a        *)
(* process runs no agent.                                                   *)
InvokeAround ==
    /\ CallNext
    /\ step = "executing" /\ step' = "draining" => exec.step \in {"off", "over"}
    /\ exec.step # "off" => effects' = effects /\ activities' = activities
    /\ exec' = IF aborted' /\ ~aborted /\ Listening
               THEN [exec EXCEPT !.barrier = Begun(@)] ELSE exec

ExecNext == InvokeAround \/ Exec \/ GroupEnds \/ ExecSteps

AnswerAround == AnswerBeside /\ UNCHANGED exec /\ exec.step \in {"off", "over"}

(* The sandbox's timeout makes every command settle, and every grace period *)
(* ends; nothing makes a group end.                                         *)
ExecFairness ==
    /\ WorkFairness
    /\ ClassifyFairness
    /\ WF_execVars(AnswerAround)
    /\ WF_execVars(Exec)
    /\ WF_execVars(ExecSteps)

ExecSpec == ExecInit /\ [][ExecNext]_execVars /\ ExecFairness

-----------------------------------------------------------------------------
(* A process that was to be stopped, because of an abort or of its timeout, *)
(* and still runs keeps the leases of its invocation: it ends before they   *)
(* are given back, or they never are.                                       *)
LeasesCoverProcess ==
    exec.group = "alive" /\ exec.barrier # "none" => leases = LeasesTaken

(* What execute awaits is over when it is, and is accounted for: attempts   *)
(* of a classification by their observations, a process by the leases.      *)
CallsAccounted == AttemptsObserved /\ LeasesCoverProcess
================================================================================
