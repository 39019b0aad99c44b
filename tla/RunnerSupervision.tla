--------------------------- MODULE RunnerSupervision ---------------------------
(* A run in a child process and the CLI process that supervises it: the    *)
(* supervisor (createRunnerSupervision of runner-client.ts, and the cleanup *)
(* of executeRunnerCommand), the runner (main.ts and startRun of run.ts),   *)
(* its bounded event queue (event-bridge.ts), the two directions of the IPC *)
(* channel and the signals the operating system delivers.                   *)
(*                                                                         *)
(* Each process is single-threaded: an action is one turn of one process.  *)
(* Within one turn of its event loop a process reads the channel before it *)
(* handles signals (libuv polls I/O first), so a signal is handled only    *)
(* when no message that was there before it is left.                       *)
EXTENDS Naturals, Sequences, SequencesExt

CONSTANTS
    MaxEvents,    \* bound: events the workflow emits, run.started included
    MaxSignals,   \* bound: signals the user sends
    QueueLimit    \* maxPendingBytes, in events

ASSUME BoundsAssumption ==
    MaxEvents \in Nat /\ MaxSignals \in Nat /\ QueueLimit \in Nat \ {0}

VARIABLES
    result,         \* what the supervision resolved with
    terminalEvent,  \* the supervisor's terminalEvent
    cancelling,     \* the supervisor's cancellationRequested
    graceTimer,
    turns,          \* what waits for a turn of the CLI besides messages
    cli,            \* executeRunnerCommand: running, closed, gone
    signalled,      \* signals the user has sent
    grouped,        \* how many of them the terminal sent to the child too
    down, up,       \* the channel to and from the child
    child,          \* where startRun is
    control,        \* RunnerRunControl.cancellationRequested
    activeRun,      \* RunnerRunControl.activeRun is set
    childSignals,   \* signals the child has not handled
    resources,      \* the resolved RuntimeExecution
    outcome,        \* outcome of the workflow
    pending, failure, transportFailed, sequence, delivered, \* the event queue
    exitCode

supervisorVars == <<result, terminalEvent, cancelling, graceTimer>>
osVars == <<turns, cli, signalled, grouped>>
queueVars == <<pending, failure, transportFailed, sequence, delivered>>
runVars == <<activeRun, resources, outcome>>
vars == <<supervisorVars, osVars, down, up, child, control, childSignals,
          runVars, queueVars, exitCode>>

Terminals == {"succeeded", "failed", "cancelled"}
Envelopes == [type : Terminals \cup {"event"}, seq : 1..(MaxEvents + 4)]
Phases == {"booting", "idle", "loading", "resolving", "preflight", "running",
           "closing", "flushing", "catching", "exited"}

TypeOK ==
    /\ result \in Terminals \cup {"none", "failure", "cancelFailure"}
    /\ terminalEvent \in Terminals \cup {"none"}
    /\ cancelling \in BOOLEAN
    /\ graceTimer \in {"off", "armed", "expired"}
    /\ turns \in Seq({"signal", "exit", "error"}) /\ Len(turns) <= MaxSignals + 1
    /\ cli \in {"running", "closed", "gone"}
    /\ signalled \in 0..MaxSignals /\ grouped \in 0..signalled
    /\ down \in {<<>>, <<"start">>, <<"cancel">>, <<"start", "cancel">>}
    /\ up \in Seq(Envelopes)
    /\ child \in Phases
    /\ control \in BOOLEAN /\ activeRun \in BOOLEAN
    /\ childSignals \in 0..(MaxSignals + 1)
    /\ resources \in {"none", "open", "closed"}
    /\ outcome \in Terminals \cup {"none"}
    /\ pending \in Seq(Envelopes) /\ Len(pending) <= QueueLimit
    /\ failure \in {"none", "overflow", "transport"}
    /\ transportFailed \in BOOLEAN
    /\ sequence \in 0..(MaxEvents + 4)
    /\ delivered \in 0..(MaxEvents + 4)
    /\ exitCode \in {"none", "0", "1", "130", "signal"}

(* launchRunner forks the child and sends run.start. *)
Init ==
    /\ result = "none" /\ terminalEvent = "none"
    /\ cancelling = FALSE /\ graceTimer = "off"
    /\ turns = <<>> /\ cli = "running" /\ signalled = 0 /\ grouped = 0
    /\ down = <<"start">> /\ up = <<>>
    /\ child = "booting" /\ control = FALSE /\ activeRun = FALSE
    /\ childSignals = 0
    /\ resources = "none" /\ outcome = "none"
    /\ pending = <<>> /\ failure = "none" /\ transportFailed = FALSE /\ sequence = 0 /\ delivered = 0
    /\ exitCode = "none"

-----------------------------------------------------------------------------
(* Operators. *)
Settled == result # "none"
Alive == child # "exited"

(* mapRunnerOutcomeToStatus and the failure results. *)
Status(r) == CASE r = "succeeded" -> 0
               [] r \in {"failed", "failure"} -> 1
               [] r \in {"cancelled", "cancelFailure"} -> 130

(* The child exits: the CLI will see the exit in a later turn. *)
Exits(code) ==
    /\ child' = "exited"
    /\ exitCode' = code
    /\ turns' = Append(turns, "exit")
    /\ childSignals' = 0

(* A faulty Accepts: the failure is not remembered. *)
AcceptsAgain == Len(pending) < QueueLimit

(* enqueue neither rethrows an earlier failure nor overflows. *)
Accepts == failure = "none" /\ Len(pending) < QueueLimit

Envelope(type) == [type |-> type, seq |-> sequence + 1]

(* emit: the event gets the next number and joins the queue. *)
Enqueue(type) ==
    /\ pending' = Append(pending, Envelope(type))
    /\ sequence' = sequence + 1
    /\ UNCHANGED <<failure, transportFailed, delivered>>

(* emit throws: the queue stays failed, and no number is used up. *)
Overflow ==
    /\ failure' = IF failure = "none" THEN "overflow" ELSE failure
    /\ UNCHANGED <<pending, transportFailed, sequence, delivered>>

(* emit as one step of startRun: on, or into its catch block. *)
EmitThen(type, next) ==
    \/ Accepts /\ Enqueue(type) /\ child' = next
    \/ ~Accepts /\ Overflow /\ child' = "catching"

-----------------------------------------------------------------------------
(* The runner. *)
Boot ==
    /\ child = "booting"
    /\ child' = "idle"
    /\ UNCHANGED <<supervisorVars, osVars, down, up, control, childSignals, runVars, queueVars, exitCode>>

(* The first message: run.started is emitted and the workflow is loaded. *)
ReceiveStart ==
    /\ child = "idle" /\ down # <<>>
    /\ down' = Tail(down)
    /\ Enqueue("event") /\ child' = "loading"
    /\ UNCHANGED <<supervisorVars, osVars, up, control, childSignals, runVars, exitCode>>

(* requestRunnerCancellation. *)
ReceiveCancel ==
    /\ child \in Phases \ {"booting", "idle", "exited"} /\ down # <<>>
    /\ down' = Tail(down)
    /\ control' = TRUE
    /\ UNCHANGED <<supervisorVars, osVars, up, child, childSignals, runVars, queueVars, exitCode>>

(* The CLI is gone: the channel disconnects. *)
Disconnect ==
    /\ cli = "gone" /\ Alive /\ child # "booting" /\ ~control
    /\ control' = TRUE
    /\ UNCHANGED <<supervisorVars, osVars, down, up, child, childSignals, runVars, queueVars, exitCode>>

(* bindRunnerCancellationSignals: the first request cancels, a signal that *)
(* repeats a request exits at once.  Before the listeners are installed    *)
(* the signal kills the process.                                           *)
Signal ==
    /\ childSignals > 0 /\ Alive
    /\ \/ /\ child = "booting" /\ Exits("signal")
          /\ UNCHANGED control
       \/ /\ child # "booting" /\ down = <<>> /\ control
          /\ Exits("130") /\ UNCHANGED control
       \/ /\ child # "booting" /\ down = <<>> /\ ~control
          /\ control' = TRUE
          /\ childSignals' = childSignals - 1
          /\ UNCHANGED <<child, exitCode, turns>>
    /\ UNCHANGED <<supervisorVars, cli, signalled, grouped, down, up, runVars, queueVars>>

(* loadWorkflow; then the plan is emitted, and a cancelled or dry run ends. *)
Load ==
    /\ child = "loading"
    /\ \/ child' = "catching" /\ UNCHANGED <<queueVars, outcome>>
       \/ /\ Accepts /\ Enqueue("event") /\ UNCHANGED outcome
          /\ child' = IF control THEN "closing" ELSE "resolving"
       \/ /\ Accepts /\ Enqueue("event") /\ ~control
          /\ outcome' = "succeeded" /\ child' = "closing"
       \/ ~Accepts /\ Overflow /\ child' = "catching" /\ UNCHANGED outcome
    /\ UNCHANGED <<supervisorVars, osVars, down, up, control, childSignals, activeRun, resources, exitCode>>

(* resolveExecution, and the topology that is emitted after it. *)
Resolve ==
    /\ child = "resolving"
    /\ \/ child' = "catching" /\ UNCHANGED <<queueVars, resources>>
       \/ EmitThen("event", "preflight") /\ resources' = "open"
    /\ UNCHANGED <<supervisorVars, osVars, down, up, control, childSignals, activeRun, outcome, exitCode>>

(* Model and session preflight; then a cancelled run is not started. *)
Preflight ==
    /\ child = "preflight"
    /\ \/ child' = "catching" /\ UNCHANGED activeRun
       \/ /\ child' = IF control THEN "closing" ELSE "running"
          /\ activeRun' = ~control
    /\ UNCHANGED <<supervisorVars, osVars, down, up, control, childSignals, resources, outcome, queueVars, exitCode>>

(* The workflow emits an event; what throws when the queue has failed is   *)
(* the executor's to handle or to fail from.                               *)
Work ==
    /\ child = "running" /\ sequence < MaxEvents
    /\ \/ Accepts /\ Enqueue("event")
       \/ failure = "none" /\ ~Accepts /\ Overflow
    /\ UNCHANGED <<supervisorVars, osVars, down, up, child, control, childSignals, runVars, exitCode>>

(* The workflow's outcome: a cancelled run has no other. *)
Finish ==
    /\ child = "running"
    /\ child' = "closing"
    /\ outcome' \in (IF control THEN {"cancelled"} ELSE {"succeeded", "failed"})
    /\ UNCHANGED <<supervisorVars, osVars, down, up, control, childSignals, activeRun, resources, queueVars, exitCode>>

(* A run that was cancelled before it was started has no outcome. *)
Terminal == IF outcome = "none" THEN "cancelled" ELSE outcome

(* A faulty CloseExecution: the terminal event does not wait for close. *)
CloseExecutionLater ==
    /\ child = "closing"
    /\ EmitThen(Terminal, "flushing")
    /\ UNCHANGED <<resources, supervisorVars, osVars, down, up, control, childSignals, activeRun, outcome, exitCode>>

(* execution.close, then the terminal event.  close may reject, and an     *)
(* output that is not JSON makes emit throw.                               *)
CloseExecution ==
    /\ child = "closing"
    /\ \/ /\ resources' = IF resources = "open" THEN "closed" ELSE resources
          /\ EmitThen(Terminal, "flushing")
       \/ /\ resources = "open" /\ resources' = "open"
          /\ child' = "catching" /\ UNCHANGED queueVars
       \/ /\ resources = "open" /\ resources' = "closed" /\ outcome = "succeeded"
          /\ child' = "catching" /\ UNCHANGED queueVars
    /\ UNCHANGED <<supervisorVars, osVars, down, up, control, childSignals, activeRun, outcome, exitCode>>

(* The head of the queue is sent, or its send fails; once one has failed   *)
(* the rest of the queue is dropped.                                       *)
Deliver ==
    /\ Alive /\ pending # <<>>
    /\ pending' = Tail(pending)
    /\ \/ /\ cli # "gone" /\ ~transportFailed
          /\ up' = Append(up, Head(pending))
          /\ delivered' = Head(pending).seq
          /\ UNCHANGED <<failure, transportFailed>>
       \/ /\ transportFailed' = TRUE
          /\ failure' = IF failure = "none" THEN "transport" ELSE failure
          /\ UNCHANGED <<up, delivered>>
    /\ UNCHANGED <<supervisorVars, osVars, down, child, control, childSignals, runVars, sequence, exitCode>>

(* flush: everything up to the terminal event has been sent or dropped. *)
Flush ==
    /\ child = "flushing"
    /\ \A e \in ToSet(pending) : e.type \notin Terminals
    /\ \/ /\ failure = "none" /\ Exits("0") /\ activeRun' = FALSE
       \/ /\ failure # "none" /\ child' = "catching"
          /\ UNCHANGED <<activeRun, exitCode, turns, childSignals>>
    /\ UNCHANGED <<supervisorVars, cli, signalled, grouped, down, up, control, resources, outcome, queueVars>>

(* The terminal event of a failed start or a failed delivery: it bypasses  *)
(* the queue and is numbered after what was delivered.                     *)
Settlement ==
    [type |-> IF control /\ ~activeRun /\ failure = "none" THEN "cancelled" ELSE "failed",
     seq |-> delivered + 1]

(* The catch block of startRun: close, settle, sendTerminal, exit. *)
Catch ==
    /\ child = "catching" /\ pending = <<>>
    /\ resources' = IF resources = "open" THEN "closed" ELSE resources
    /\ \/ cli # "gone" /\ Exits("0") /\ up' = Append(up, Settlement)
       \/ Exits("1") /\ UNCHANGED up
    /\ UNCHANGED <<supervisorVars, cli, signalled, grouped, down, control, activeRun, outcome, queueVars>>

-----------------------------------------------------------------------------
(* The supervisor. *)

(* The user interrupts the CLI, with kill or from a terminal, which sends  *)
(* the signal to the child as well.                                        *)
Interrupt ==
    /\ cli = "running" /\ signalled < MaxSignals
    /\ signalled' = signalled + 1
    /\ turns' = Append(turns, "signal")
    /\ \/ UNCHANGED <<grouped, childSignals>>
       \/ Alive /\ grouped' = grouped + 1 /\ childSignals' = childSignals + 1
    /\ UNCHANGED <<supervisorVars, cli, down, up, child, control, runVars, queueVars, exitCode>>

(* cancelRun is a no-op. *)
CannotCancel == Settled \/ terminalEvent # "none" \/ cancelling

(* What forwarding the cancellation leaves alone. *)
forwardUnchanged ==
    <<result, terminalEvent, cli, signalled, grouped, up, child, control, runVars, queueVars, exitCode>>

(* A faulty Forward: no timer. *)
ForwardUntimed ==
    /\ cancelling' = TRUE
    /\ down' = IF Alive THEN Append(down, "cancel") ELSE down
    /\ UNCHANGED <<graceTimer, childSignals>>
(* The message to the child, and the grace period. *)
Forward ==
    /\ cancelling' = TRUE
    /\ graceTimer' = "armed"
    /\ down' = IF Alive THEN Append(down, "cancel") ELSE down
    /\ UNCHANGED childSignals

(* cancelRun: only the first signal counts. *)
CancelRun ==
    /\ turns # <<>> /\ Head(turns) = "signal"
    /\ turns' = Tail(turns)
    /\ \/ CannotCancel /\ UNCHANGED <<cancelling, graceTimer, down, childSignals>>
       \/ ~CannotCancel /\ Forward
    /\ UNCHANGED forwardUnchanged

(* The grace period ends: SIGTERM, and the supervision is over. *)
GraceExpires ==
    /\ graceTimer = "armed" /\ ~Settled
    /\ graceTimer' = "expired"
    /\ IF terminalEvent = "none"
       THEN /\ result' = "cancelFailure"
            /\ childSignals' = IF Alive THEN childSignals + 1 ELSE 0
       ELSE UNCHANGED <<result, childSignals>>
    /\ UNCHANGED <<terminalEvent, cancelling, osVars, down, up, child, control, runVars, queueVars, exitCode>>

(* onMessage. *)
ReceiveEvent ==
    /\ up # <<>> /\ ~Settled
    /\ up' = Tail(up)
    /\ IF terminalEvent # "none"
       THEN result' = "failure" /\ UNCHANGED terminalEvent
       ELSE /\ terminalEvent' = IF Head(up).type \in Terminals THEN Head(up).type ELSE "none"
            /\ UNCHANGED result
    /\ UNCHANGED <<cancelling, graceTimer, osVars, down, child, control, childSignals, runVars, queueVars, exitCode>>

(* setImmediate after the terminal event. *)
SettleTerminal ==
    /\ terminalEvent # "none" /\ ~Settled
    /\ result' = terminalEvent
    /\ UNCHANGED <<terminalEvent, cancelling, graceTimer, osVars, down, up, child, control, childSignals, runVars, queueVars, exitCode>>

(* The process cannot be spawned: an error event, and no exit event. *)
SpawnFails ==
    /\ child = "booting"
    /\ child' = "exited" /\ exitCode' = "1" /\ childSignals' = 0
    /\ turns' = Append(turns, "error")
    /\ UNCHANGED <<supervisorVars, cli, signalled, grouped, down, up, control, runVars, queueVars>>

(* onExit and onError: nothing to add to a terminal event.  What the child *)
(* had written before is read first.                                       *)
ChildGone ==
    /\ turns # <<>> /\ Head(turns) \in {"exit", "error"}
    /\ up = <<>> \/ Settled
    /\ turns' = Tail(turns)
    /\ result' = IF Settled \/ terminalEvent # "none" THEN result
                 ELSE IF cancelling THEN "cancelFailure" ELSE "failure"
    /\ UNCHANGED <<terminalEvent, cancelling, graceTimer, cli, signalled, grouped, down, up, child, control, childSignals, runVars, queueVars, exitCode>>

(* closeRunResources: the child gets SIGTERM unless it was sent one. *)
CloseRunner ==
    /\ Settled /\ cli = "running"
    /\ cli' = "closed"
    /\ childSignals' = IF Alive /\ graceTimer # "expired" THEN childSignals + 1 ELSE childSignals
    /\ UNCHANGED <<supervisorVars, turns, signalled, grouped, down, up, child, control, runVars, queueVars, exitCode>>

(* The CLI process ends. *)
Leave ==
    /\ cli = "closed"
    /\ cli' = "gone"
    /\ UNCHANGED <<supervisorVars, turns, signalled, grouped, down, up, child, control, childSignals, runVars, queueVars, exitCode>>

-----------------------------------------------------------------------------
RunnerTurn == Boot \/ ReceiveStart \/ ReceiveCancel \/ Disconnect \/ Signal \/ Deliver \/ Flush
Supervise == CancelRun \/ GraceExpires \/ ReceiveEvent \/ SettleTerminal \/ ChildGone \/ CloseRunner \/ Leave

(* The system is done when both processes are. *)
Done == cli = "gone" /\ ~Alive /\ UNCHANGED vars

Next ==
    \/ Boot \/ ReceiveStart \/ ReceiveCancel \/ Disconnect \/ Signal
    \/ Load \/ Resolve \/ Preflight \/ Work \/ Finish
    \/ CloseExecution \/ Deliver \/ Flush \/ Catch
    \/ Interrupt \/ CancelRun \/ GraceExpires \/ ReceiveEvent \/ SettleTerminal
    \/ SpawnFails \/ ChildGone \/ CloseRunner \/ Leave
    \/ Done

(* Turns of both processes are fair; what a workflow, its executors and    *)
(* their close() do is not: any of them may hang.                          *)
Spec == Init /\ [][Next]_vars /\ WF_vars(RunnerTurn) /\ WF_vars(Supervise)

-----------------------------------------------------------------------------
(* Properties. *)

TerminalsIn(q) == {n \in DOMAIN q : q[n].type \in Terminals}

(* The exit status tells the truth: success is reported only for a run     *)
(* whose workflow succeeded and lost no event, 130 only to a user who sent *)
(* a signal, and a terminal event that was received decides, whatever the  *)
(* exit of the child and the grace timer do in the same turn               *)
(* (terminalResult, startRun).                                             *)
StatusTruthful ==
    /\ result = "succeeded" => outcome = "succeeded" /\ failure = "none"
    /\ Settled /\ Status(result) = 130 => signalled > 0
    /\ Settled /\ terminalEvent # "none" => result = terminalEvent

(* The supervisor sees every number once and in order, although events are *)
(* dropped and the last may bypass the queue; and however the queue fails, *)
(* no second terminal event is sent (the catch block of startRun).         *)
EventsInOrder ==
    /\ \A n \in 1..(Len(up) - 1) : up[n + 1].seq = up[n].seq + 1
    /\ Cardinality(TerminalsIn(up)) <= IF terminalEvent = "none" THEN 1 ELSE 0

(* What the supervisor is told and what the CLI reports is what happened:  *)
(* every event once and in order, one end, and the status that goes with it.*)
ReportsTruthful == StatusTruthful /\ EventsInOrder

(* The resources of the run are closed before its terminal event is sent;  *)
(* and signals that reach the CLI alone never make the child exit with     *)
(* them open before the grace period is over.                              *)
CleanupFirst ==
    /\ terminalEvent # "none" \/ TerminalsIn(up) # {} => resources # "open"
    /\ exitCode = "130" /\ resources = "open" => graceTimer = "expired" \/ grouped > 0

(* A cancellation ends the supervision, whatever the child does, and when  *)
(* the supervision is over no runner is left behind, though its executors  *)
(* may hang.                                                               *)
SupervisionEnds ==
    /\ cancelling ~> Settled
    /\ Settled ~> ~Alive
=============================================================================
