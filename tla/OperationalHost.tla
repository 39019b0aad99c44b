----------------------------- MODULE OperationalHost -----------------------------
(* The operational host: the calls of McpDispatcher run the handler that   *)
(* operational-host.ts registers, other runs are started directly on the   *)
(* instrumented workflow of operational-run-lifecycle.ts.  The invocations  *)
(* of a run share one prepared execution (adapter, sessions, executors);   *)
(* whoever ends the run has it closed: the watcher of the run, the caller  *)
(* that cancels, the start that returns, the handler, or the shutdown.     *)
(*                                                                         *)
(* Mastra is external: it begins the steps of a run at once, each calls    *)
(* its handler when its turn comes, a cancelled run may drop a step that   *)
(* has not been called, and the run ends when no step is under way.        *)
EXTENDS McpDispatcher

CONSTANTS
    DirectRuns,      \* runs that are started without the dispatcher
    Steps,           \* names for the steps of runs
    StepsOf,         \* the steps of each run
    Traffic          \* the sets of runs that may be made together

ASSUME HostAssumption ==
    /\ DirectRuns \cap Calls = {}
    /\ IsFiniteSet(Steps)
    /\ StepsOf \in [Calls \cup DirectRuns -> SUBSET Steps]
    /\ Traffic \subseteq SUBSET (Calls \cup DirectRuns)

VARIABLES
    pc,         \* how far the handler of a run has come
    cancelled,  \* runs that were asked to cancel
    step,       \* the steps of a run; "active" is membership in activeByRun
    uses,       \* the preparation a step uses
    prepared,   \* preparedByRun: the number of a preparation, or 0
    execution,  \* what has become of each preparation of a run
    cleanup,    \* closeRun of each preparation
    waitsFor,   \* the active steps that closeRun found
    latest,     \* cleanupByRun: the number of a preparation, or 0
    ending,     \* cleanupPromise of the instrumented run: {} or what it waits for
    closing,    \* what the finally block of the handler waits for
    states,     \* runStates
    shut        \* OperationalHost.close: its state and what it waits for

hostVars == <<pc, cancelled, step, uses, prepared, execution, cleanup, waitsFor,
              latest, ending, closing, states, shut>>
cleanupVars == <<prepared, cleanup, waitsFor, latest, states>>

Runs == Calls \cup DirectRuns

(* A step prepares at most once. *)
Preparations == 1..Cardinality(Steps)
Pending == Preparations \cup {0}

HostTypeOK ==
    /\ pc \in [Runs -> {"idle", "running", "ended", "terminating", "over"}]
    /\ cancelled \subseteq Runs
    /\ step \in [Runs -> [Steps -> {"idle", "begun", "active", "done"}]]
    /\ uses \in [Runs -> [Steps -> Pending]]
    /\ prepared \in [Runs -> Pending]
    /\ execution \in [Runs -> [Preparations -> {"none", "preparing", "ready", "failed",
                                                "closing", "closed"}]]
    /\ cleanup \in [Runs -> [Preparations -> {"none", "waiting", "closing", "done"}]]
    /\ waitsFor \in [Runs -> [Preparations -> SUBSET Steps]]
    /\ latest \in [Runs -> Pending]
    /\ ending \in [Runs -> SUBSET Pending]
    /\ closing \in [Runs -> Pending]
    /\ states \subseteq Runs
    /\ shut.state \in {"open", "closing", "closed"}

HostInit ==
    /\ \E made \in Traffic : pc = [r \in Runs |-> IF r \in made THEN "idle" ELSE "over"]
    /\ cancelled = {}
    /\ step = [r \in Runs |-> [s \in Steps |-> "idle"]]
    /\ uses = [r \in Runs |-> [s \in Steps |-> 0]]
    /\ prepared = [r \in Runs |-> 0]
    /\ execution = [r \in Runs |-> [k \in Preparations |-> "none"]]
    /\ cleanup = [r \in Runs |-> [k \in Preparations |-> "none"]]
    /\ waitsFor = [r \in Runs |-> [k \in Preparations |-> {}]]
    /\ latest = [r \in Runs |-> 0]
    /\ ending = [r \in Runs |-> {}]
    /\ closing = [r \in Runs |-> 0]
    /\ states = {}
    /\ shut = [state |-> "open", waits |-> {}, found |-> {}]

-----------------------------------------------------------------------------
(* Operators. *)

Active(r) == {s \in Steps : step[r][s] = "active"}
CleanedUp(r, k) == k # 0 => cleanup[r][k] = "done"
CleanupReturned(r) == \A k \in ending[r] : CleanedUp(r, k)

(* A faulty CloseRuns: the invocations that run are not waited for. *)
CloseRunsAtOnce(runs) ==
    /\ prepared' = [r \in Runs |-> IF r \in runs THEN 0 ELSE prepared[r]]
    /\ cleanup' = [r \in Runs |-> [k \in Preparations |->
                     IF r \in runs /\ k = prepared[r] THEN "waiting" ELSE cleanup[r][k]]]
    /\ waitsFor' = waitsFor
    /\ latest' = [r \in Runs |-> IF r \in runs THEN prepared[r] ELSE latest[r]]

(* closeRun for the preparations that the runs hold: it will wait for the  *)
(* invocations it finds, and replaces an earlier cleanup of the run in     *)
(* cleanupByRun.                                                           *)
CloseRuns(runs) ==
    /\ prepared' = [r \in Runs |-> IF r \in runs THEN 0 ELSE prepared[r]]
    /\ cleanup' = [r \in Runs |-> [k \in Preparations |->
                     IF r \in runs /\ k = prepared[r] THEN "waiting" ELSE cleanup[r][k]]]
    /\ waitsFor' = [r \in Runs |-> [k \in Preparations |->
                     IF r \in runs /\ k = prepared[r] THEN Active(r) ELSE waitsFor[r][k]]]
    /\ latest' = [r \in Runs |-> IF r \in runs THEN prepared[r] ELSE latest[r]]

(* terminate, and the preparation whose cleanup it returns. *)
Terminate(r) ==
    \/ /\ prepared[r] # 0 /\ CloseRuns({r}) /\ UNCHANGED states
    \/ /\ prepared[r] = 0 /\ latest[r] # 0
       /\ UNCHANGED cleanupVars
    \/ /\ prepared[r] = 0 /\ latest[r] = 0
       /\ states' = states \ {r}
       /\ UNCHANGED <<prepared, cleanup, waitsFor, latest>>

Terminates(r) == IF prepared[r] # 0 THEN prepared[r] ELSE latest[r]

(* cleanup of the instrumented run: the first call terminates the run. *)
Cleanup(r) ==
    IF ending[r] = {}
    THEN Terminate(r) /\ ending' = [ending EXCEPT ![r] = {Terminates(r)}]
    ELSE UNCHANGED <<cleanupVars, ending>>

MoveTo(r, p) == pc' = [pc EXCEPT ![r] = p]

(* prepareRunContext, and Mastra begins the steps. *)
BeginRun(r) ==
    /\ MoveTo(r, "running")
    /\ states' = states \cup {r}
    /\ step' = [step EXCEPT ![r] = [s \in Steps |-> IF s \in StepsOf[r] THEN "begun" ELSE "idle"]]

-----------------------------------------------------------------------------
(* The handler of a call. *)

(* createRun comes back: it may fail; a call that is aborted by then is    *)
(* cancelled instead of started, but its run state has been made.          *)
CreateRun(c) ==
    /\ call[c] \in {"started", "released"} /\ pc[c] = "idle"
    /\ \/ /\ MoveTo(c, "over") /\ Finish(c, "error")
          /\ UNCHANGED <<cancelled, step, states, closing, cleanupVars>>
       \/ /\ c \notin aborted /\ BeginRun(c)
          /\ UNCHANGED <<dispatcherVars, cancelled, closing, prepared, cleanup, waitsFor, latest>>
       \/ /\ c \in aborted
          /\ cancelled' = cancelled \cup {c}
          /\ MoveTo(c, "terminating")
          /\ Terminate(c) /\ closing' = [closing EXCEPT ![c] = Terminates(c)]
          /\ UNCHANGED <<dispatcherVars, step>>
    /\ UNCHANGED <<uses, execution, ending, shut>>

(* The listener on the signal of a call, while the handler has one. *)
HearAbort ==
    cancelled' = cancelled \cup {c \in aborted' \ aborted : pc[c] \in {"running", "ended"}}

CallAborted(c) ==
    /\ CallerAbort(c) \/ Deadline(c)
    /\ HearAbort
    /\ UNCHANGED <<pc, step, uses, execution, cleanupVars, ending, closing, shut>>

(* start has returned with the cleanup of the run; the finally block       *)
(* terminates the run once more.                                           *)
HandlerEnds(c) ==
    /\ pc[c] = "ended" /\ CleanupReturned(c)
    /\ MoveTo(c, "terminating")
    /\ Terminate(c) /\ closing' = [closing EXCEPT ![c] = Terminates(c)]
    /\ UNCHANGED <<dispatcherVars, cancelled, step, uses, execution, ending, shut>>

(* The dispatch of the call comes back. *)
HandlerReturns(c) ==
    /\ pc[c] = "terminating" /\ CleanedUp(c, closing[c])
    /\ MoveTo(c, "over") /\ Finish(c, "result")
    /\ UNCHANGED <<cancelled, step, uses, execution, cleanupVars, ending, closing, shut>>

-----------------------------------------------------------------------------
(* A run without a dispatcher. *)

StartDirect(d) ==
    /\ pc[d] = "idle" /\ BeginRun(d)
    /\ UNCHANGED <<dispatcherVars, cancelled, uses, execution, prepared, cleanup, waitsFor,
                   latest, ending, closing, shut>>

CancelDirect(d) ==
    /\ pc[d] \in {"running", "ended"} /\ d \notin cancelled
    /\ cancelled' = cancelled \cup {d}
    /\ UNCHANGED <<dispatcherVars, pc, step, uses, execution, cleanupVars, ending, closing, shut>>

DirectReturns(d) ==
    /\ pc[d] = "ended" /\ CleanupReturned(d)
    /\ MoveTo(d, "over")
    /\ UNCHANGED <<dispatcherVars, cancelled, step, uses, execution, cleanupVars, ending,
                   closing, shut>>

-----------------------------------------------------------------------------
(* Any run. *)

(* Mastra's cancel has returned and the instrumented one cleans up, at any *)
(* moment of the run and of its end.                                       *)
CancelReturns(r) ==
    /\ r \in cancelled /\ ending[r] = {}
    /\ Cleanup(r)
    /\ UNCHANGED <<dispatcherVars, pc, cancelled, step, uses, execution, closing, shut>>

(* invoke: the invocation joins the preparation of the run or, when there  *)
(* is none (any more), begins one.                                         *)
Invoke(r, s) ==
    /\ step[r][s] = "begun" /\ pc[r] = "running"
    /\ LET fresh == 1 + Cardinality({k \in Preparations : execution[r][k] # "none"})
           k == IF prepared[r] # 0 THEN prepared[r] ELSE fresh
       IN  /\ prepared' = [prepared EXCEPT ![r] = k]
           /\ uses' = [uses EXCEPT ![r][s] = k]
           /\ execution' = [execution EXCEPT ![r][k] = IF @ = "none" THEN "preparing" ELSE @]
    /\ step' = [step EXCEPT ![r][s] = "active"]
    /\ states' = states \cup {r}
    /\ UNCHANGED <<dispatcherVars, pc, cancelled, cleanup, waitsFor, latest, ending, closing, shut>>

(* The profile, the plan, the models and the sessions are prepared; if one *)
(* of them fails the preparation closes what it had opened.                *)
Prepare(r, k) ==
    /\ execution[r][k] = "preparing"
    /\ \E result \in {"ready", "failed"} : execution' = [execution EXCEPT ![r][k] = result]
    /\ UNCHANGED <<dispatcherVars, pc, cancelled, step, uses, cleanupVars, ending, closing, shut>>

(* An invocation ends: with its task, or with the failed preparation. *)
InvocationEnds(r, s) ==
    /\ step[r][s] = "active" /\ execution[r][uses[r][s]] # "preparing"
    /\ step' = [step EXCEPT ![r][s] = "done"]
    /\ UNCHANGED <<dispatcherVars, pc, cancelled, uses, execution, cleanupVars, ending, closing, shut>>

(* Mastra's run has a result, and the watcher hears of it. *)
RunEnds(r) ==
    /\ pc[r] = "running"
    /\ \A s \in StepsOf[r] : step[r][s] = "done" \/ (step[r][s] = "begun" /\ r \in cancelled)
    /\ MoveTo(r, "ended")
    /\ step' = [step EXCEPT ![r] = [s \in Steps |-> "done"]]
    /\ Cleanup(r)
    /\ UNCHANGED <<dispatcherVars, cancelled, uses, execution, closing, shut>>

(* A faulty BeginClose: it waits for a preparation that is there to close. *)
BeginCloseOfReady(r, k) ==
    /\ cleanup[r][k] = "waiting" /\ execution[r][k] = "ready"
    /\ \A s \in waitsFor[r][k] : step[r][s] = "done"
    /\ cleanup' = [cleanup EXCEPT ![r][k] = "closing"]
    /\ execution' = [execution EXCEPT ![r][k] = "closing"]
    /\ UNCHANGED <<dispatcherVars, pc, cancelled, step, uses, prepared, waitsFor, latest,
                   ending, closing, states, shut>>

(* closeRun goes on when the invocations it found are over and the         *)
(* preparation has settled: a failed one has nothing to close.             *)
BeginClose(r, k) ==
    /\ cleanup[r][k] = "waiting" /\ execution[r][k] # "preparing"
    /\ \A s \in waitsFor[r][k] : step[r][s] = "done"
    /\ cleanup' = [cleanup EXCEPT ![r][k] = "closing"]
    /\ execution' = [execution EXCEPT ![r][k] = IF @ = "ready" THEN "closing" ELSE @]
    /\ UNCHANGED <<dispatcherVars, pc, cancelled, step, uses, prepared, waitsFor, latest,
                   ending, closing, states, shut>>

(* The cleanup is over, whether or not the execution closed without error. *)
EndClose(r, k) ==
    /\ cleanup[r][k] = "closing"
    /\ cleanup' = [cleanup EXCEPT ![r][k] = "done"]
    /\ execution' = [execution EXCEPT ![r][k] = IF @ = "closing" THEN "closed" ELSE @]
    /\ latest' = [latest EXCEPT ![r] = IF @ = k THEN 0 ELSE @]
    /\ states' = states \ {r}
    /\ UNCHANGED <<dispatcherVars, pc, cancelled, step, uses, prepared, waitsFor, ending, closing, shut>>

-----------------------------------------------------------------------------
(* The shutdown of the host. *)

(* close and shutdown: every prepared run is closed, and the cleanups that *)
(* are then in cleanupByRun are waited for.  "found" is what existed.      *)
Shutdown ==
    /\ shut.state = "open"
    /\ CloseRuns({r \in Runs : prepared[r] # 0})
    /\ shut' = [state |-> "closing",
                waits |-> {<<r, latest'[r]>> : r \in {q \in Runs : latest'[q] # 0}},
                found |-> {rk \in Runs \X Preparations : execution[rk[1]][rk[2]] # "none"}]
    /\ UNCHANGED <<dispatcherVars, pc, cancelled, step, uses, execution, ending, closing, states>>

ShutdownReturns ==
    /\ shut.state = "closing"
    /\ \A rk \in shut.waits : cleanup[rk[1]][rk[2]] = "done"
    /\ shut' = [shut EXCEPT !.state = "closed"]
    /\ states' = {}
    /\ UNCHANGED <<dispatcherVars, pc, cancelled, step, uses, execution, prepared, cleanup,
                   waitsFor, latest, ending, closing>>

-----------------------------------------------------------------------------
(* The specification. *)
vars == <<dispatcherVars, hostVars>>

Init == DispatcherInit /\ HostInit

Progress ==
    \/ \E c \in Calls : CallAborted(c) \/ CreateRun(c) \/ HandlerEnds(c) \/ HandlerReturns(c)
    \/ \E d \in DirectRuns : DirectReturns(d)
    \/ \E r \in Runs :
          \/ CancelReturns(r) \/ RunEnds(r)
          \/ \E s \in Steps : Invoke(r, s)
          \/ \E k \in Preparations : Prepare(r, k) \/ BeginClose(r, k) \/ EndClose(r, k)
    \/ ShutdownReturns

Next ==
    \/ Progress
    \/ \E c \in Calls : pc[c] = "idle" /\ Dispatch(c) /\ UNCHANGED hostVars
    \/ \E d \in DirectRuns : StartDirect(d) \/ CancelDirect(d)
    \/ \E r \in Runs, s \in Steps : InvocationEnds(r, s)
    \/ Shutdown

(* The runtime goes on and timers fire; a task need not return, and no     *)
(* call need be made, cancelled or shut down.                              *)
Spec == Init /\ [][Next]_vars /\ WF_vars(Progress)

-----------------------------------------------------------------------------
(* Properties. *)

Open(r, k) == execution[r][k] \in {"preparing", "ready", "closing"}

(* No invocation is under way on an execution that is being closed,        *)
(* whoever closes it and whenever the invocation began.                    *)
NotClosedInUse ==
    \A r \in Runs : \A s \in Steps :
        step[r][s] = "active" => execution[r][uses[r][s]] \notin {"closing", "closed"}

(* When the handler of a call has returned nothing of its run is left: no  *)
(* execution is open, none is kept for a later invocation, and no run      *)
(* state is.  This is so while the host serves: a cleanup that a shutdown  *)
(* began is lost from cleanupByRun when the run begins another.            *)
CallLeavesNothing ==
    \A c \in Calls : pc[c] = "over" /\ shut.state = "open" =>
        /\ \A k \in Preparations : ~Open(c, k)
        /\ prepared[c] = 0 /\ c \notin states

(* A host that is shut down has closed the last execution of every run     *)
(* that it found, whoever was closing it already.                          *)
ShutdownCloses ==
    shut.state = "closed" =>
        \A rk \in shut.found :
            (\A other \in shut.found : other[1] = rk[1] => other[2] <= rk[2])
                => ~Open(rk[1], rk[2])

(* The adapter resources of a run are closed once nothing uses them, by    *)
(* the end of its call or of the host.                                     *)
ExecutionsClosed == NotClosedInUse /\ CallLeavesNothing /\ ShutdownCloses

(* It has closed every execution that it found: the adapter resources that *)
(* active runs own.                                                        *)
ShutdownClosesAll ==
    shut.state = "closed" => \A rk \in shut.found : ~Open(rk[1], rk[2])

(* Unless a task hangs every run that is begun ends, with its cleanups,    *)
(* although they wait for invocations, for preparations and for each other.*)
RunsEnd ==
    <>[](\A r \in Runs : Active(r) = {}) => []<>(\A r \in Runs : pc[r] \in {"idle", "over"})

(* Whatever the dispatcher, the handler and the runs wait for, every caller*)
(* is answered and every run ends.                                         *)
CallsAndRunsEnd == CallerAnswered /\ RunsEnd

=============================================================================
