-------------------------------- MODULE HostedRun --------------------------------
(* A run of the command line through an operational host: a host of its own *)
(* or a server it is told of (executeOperationalHostRun).  OperationalClient *)
(* starts the run and observes it, a signal asks for its cancellation until *)
(* the server knows of it, and the events of the run go through a bounded   *)
(* bridge to the dispatcher, which feeds its consumers: the output and a    *)
(* recording.  The requests are answered or fail in the end; the host, its  *)
(* run and the file system are external.                                    *)
EXTENDS Naturals, Sequences, FiniteSets

CONSTANTS
    MaxWork,        \* events of the run itself
    BridgeRoom,     \* maxPendingBytes of the bridge, in events
    ConsumerRoom,   \* maxQueueSize of the dispatcher
    MaxUnseen,      \* maxConsecutiveObservationFailures
    CancelTries     \* attempts of cancelOperationalRun

Consumers == {"output", "recording"}
Ended == {"success", "failed", "canceled"}

VARIABLES
    command,        \* how far executeOperationalHostRun has come
    owned,          \* the host is its own, and sends it events
    execution,      \* the run at the server
    visible,        \* its record can be read
    unseen,         \* consecutiveObservationFailures
    signalled,      \* cancellationRequested, and whether the result was still open
    cancellation,   \* cancellationPromise
    tries,          \* requests it has made
    observing,      \* the observation has not been aborted
    bridge,         \* ExecutionEventBridge: queue, sequence, failure, last delivered
    delivery,       \* deliveryFailure of the recovery
    open,           \* the dispatcher is
    consumer,       \* ConsumerState of each consumer
    recorded,       \* the sequences in the recording
    terminals,      \* the terminal events that were dispatched
    accepted,       \* events that were dispatched
    report          \* the result and the exit status

commandVars == <<command, owned, unseen, observing, delivery, report>>
executionVars == <<execution, visible>>
cancelVars == <<signalled, cancellation, tries>>
consumerVars == <<open, consumer, recorded>>
eventVars == <<bridge, terminals, accepted>>
hostedVars == <<commandVars, executionVars, cancelVars, consumerVars, eventVars>>

Cleanup == {"closing-host", "flushing-events", "flushing-consumers", "closing-consumers"}

HostedTypeOK ==
    /\ command \in {"opening", "resolving", "posting", "observing", "waiting", "deciding", "flushing",
                    "recovering", "conceding", "done"} \cup Cleanup
    /\ execution \in {"absent", "running"} \cup Ended /\ visible \in BOOLEAN
    /\ unseen \in 0..MaxUnseen /\ tries \in 0..CancelTries
    /\ signalled \in {"no", "in-time", "late"}
    /\ cancellation \in {"none", "asking", "accepted", "failed"}
    /\ bridge.delivered <= bridge.sequence /\ Len(bridge.queue) <= BridgeRoom
    /\ \A c \in Consumers : Len(consumer[c].queue) <= ConsumerRoom
    /\ report \in [status : {"none", "succeeded", "failed", "cancelled"}, exitCode : {0, 1, 130}]

HostedInit ==
    /\ owned \in BOOLEAN /\ command = "opening"
    /\ execution = "absent" /\ visible = FALSE /\ unseen = 0
    /\ signalled = "no" /\ cancellation = "none" /\ tries = 0 /\ observing = TRUE
    /\ bridge = [queue |-> <<>>, sequence |-> 0, failed |-> FALSE, delivered |-> 0]
    /\ delivery = FALSE /\ open = TRUE /\ terminals = <<>> /\ accepted = 0
    /\ consumer = [c \in Consumers |-> [queue |-> <<>>, failed |-> FALSE, flushed |-> FALSE]]
    /\ recorded = <<>> /\ report = [status |-> "none", exitCode |-> 1]

Goto(to) == command' = to
Terminal(kind) == kind \in {"succeeded", "failed", "cancelled"}

-----------------------------------------------------------------------------
(* The event bridge and the dispatcher. *)

Overflows == bridge.failed \/ Len(bridge.queue) >= BridgeRoom

(* emit: queued with the next sequence; what does not fit fails the bridge, *)
(* and the caller, from then on.                                            *)
Emitted(kind) ==
    IF Overflows THEN [bridge EXCEPT !.failed = TRUE]
    ELSE [bridge EXCEPT !.queue = Append(@, [kind |-> kind, sequence |-> bridge.sequence + 1]),
                        !.sequence = @ + 1]

(* consume of the dispatcher: a consumer whose queue is full is disabled.   *)
Consume(event) ==
    IF ~open THEN UNCHANGED <<consumer, terminals, accepted>>
    ELSE /\ accepted' = accepted + 1
         /\ terminals' = IF Terminal(event.kind) THEN Append(terminals, event.kind) ELSE terminals
         /\ consumer' = [c \in Consumers |->
                LET s == consumer[c] IN
                IF s.failed THEN s
                ELSE IF Len(s.queue) >= ConsumerRoom THEN [s EXCEPT !.failed = TRUE, !.queue = <<>>]
                ELSE [s EXCEPT !.queue = Append(@, event)]]

(* The head of the bridge is sent: a dispatcher never refuses. *)
Deliver ==
    /\ bridge.queue # <<>>
    /\ LET event == Head(bridge.queue)
       IN  /\ Consume(event)
           /\ bridge' = [bridge EXCEPT !.queue = Tail(@), !.delivered = event.sequence]
    /\ UNCHANGED <<commandVars, executionVars, cancelVars, open, recorded>>

(* createRecordingEventValidator. *)
Recordable(event) ==
    /\ event.sequence = Len(recorded) + 1
    /\ recorded = <<>> => event.kind = "started"

(* createRecordingConsumer. *)
Record(event) == Recordable(event) /\ recorded' = Append(recorded, event.sequence)

Failed(c) == [consumer EXCEPT ![c].failed = TRUE, ![c].queue = <<>>]

(* A faulty Drain: a consumer that throws is not disabled. *)
DrainOn(c) ==
    LET event == Head(consumer[c].queue) IN
    /\ consumer[c].queue # <<>>
    /\ recorded' = IF c = "recording" /\ Recordable(event) THEN Append(recorded, event.sequence)
                   ELSE recorded
    /\ consumer' = [consumer EXCEPT ![c].queue = Tail(@)]
    /\ UNCHANGED <<commandVars, executionVars, cancelVars, eventVars, open>>

(* drain: the output swallows its errors; a recording that refuses an event *)
(* has no room for it or cannot be written is disabled, and what is in the  *)
(* file stays.                                                              *)
Drain(c) ==
    LET event == Head(consumer[c].queue) IN
    /\ consumer[c].queue # <<>>
    /\ \/ /\ IF c = "recording" THEN Record(event) ELSE UNCHANGED recorded
          /\ consumer' = [consumer EXCEPT ![c].queue = Tail(@)]
       \/ c = "recording" /\ consumer' = Failed(c) /\ UNCHANGED recorded
    /\ UNCHANGED <<commandVars, executionVars, cancelVars, eventVars, open>>

(* flushConsumer: after what is queued; close flushes what was not.         *)
FlushConsumer(c) ==
    /\ command \in {"flushing-consumers", "closing-consumers"}
    /\ consumer[c].queue = <<>> /\ ~consumer[c].failed /\ ~consumer[c].flushed
    /\ \/ consumer' = [consumer EXCEPT ![c].flushed = TRUE]
       \/ c = "recording" /\ consumer' = Failed(c)
    /\ UNCHANGED <<commandVars, executionVars, cancelVars, eventVars, open, recorded>>

ConsumersFlushed == \A c \in Consumers : consumer[c].failed \/ (consumer[c].flushed /\ consumer[c].queue = <<>>)

-----------------------------------------------------------------------------
(* The run at the server. *)

(* start-async has been received.  An event the bridge refuses fails the    *)
(* run.                                                                     *)
RunWorks ==
    /\ execution = "running" /\ owned /\ bridge.sequence < MaxWork + 1
    /\ bridge' = Emitted("work")
    /\ execution' \in IF Overflows THEN {"running", "failed"} ELSE {"running"}
    /\ UNCHANGED <<commandVars, visible, cancelVars, consumerVars, terminals, accepted>>

(* The record is stored after the run has begun. *)
RecordStored ==
    /\ execution # "absent" /\ ~visible /\ visible' = TRUE
    /\ UNCHANGED <<commandVars, execution, cancelVars, consumerVars, eventVars>>

RunEnds ==
    /\ execution = "running"
    /\ execution' \in IF cancellation = "accepted" THEN Ended ELSE {"success", "failed"}
    /\ UNCHANGED <<commandVars, visible, cancelVars, consumerVars, eventVars>>

-----------------------------------------------------------------------------
(* Cancellation. *)

interrupted == signalled # "no"

(* SIGINT or SIGTERM: before there is a client it is only remembered. *)
Signal ==
    /\ ~interrupted /\ command \notin Cleanup \cup {"done"}
    /\ signalled' = IF command = "flushing" THEN "late" ELSE "in-time"
    /\ cancellation' = IF command = "opening" THEN "none" ELSE "asking"
    /\ UNCHANGED <<commandVars, executionVars, tries, consumerVars, eventVars>>

HostOpen == ~owned \/ command \notin {"flushing-events", "flushing-consumers", "closing-consumers", "done"}

(* cancelOperationalRun: a run the server does not know yet is asked for    *)
(* again, a number of times; the last, and any other failure, aborts the    *)
(* observation.                                                             *)
CancelRun ==
    /\ cancellation = "asking"
    /\ \/ /\ HostOpen /\ execution # "absent"
          /\ cancellation' = "accepted" /\ UNCHANGED <<tries, observing>>
       \/ /\ HostOpen /\ ~(execution = "running" /\ visible) /\ tries + 1 < CancelTries
          /\ tries' = tries + 1 /\ UNCHANGED <<cancellation, observing>>
       \/ cancellation' = "failed" /\ observing' = FALSE /\ UNCHANGED tries
    /\ UNCHANGED <<command, owned, unseen, delivery, report, executionVars, signalled,
                   consumerVars, eventVars>>

-----------------------------------------------------------------------------
(* The command. *)

(* startOwnedOperationalHost: it listens, or has been closed again. *)
Open ==
    /\ command = "opening"
    /\ \/ /\ cancellation' = IF interrupted THEN "asking" ELSE "none"
          /\ bridge' = Emitted("started") /\ Goto("resolving")
       \/ owned /\ Goto("recovering") /\ UNCHANGED <<cancellation, bridge>>
    /\ UNCHANGED <<owned, unseen, observing, delivery, report, executionVars, signalled, tries,
                   consumerVars, terminals, accepted>>

(* resolveWorkflow.  Every request of startRun may fail, and rejects when   *)
(* the observation is aborted.                                              *)
Resolve ==
    /\ command = "resolving"
    /\ \/ observing /\ Goto("posting")
       \/ Goto("recovering")
    /\ UNCHANGED <<owned, unseen, observing, delivery, report, executionVars, cancelVars,
                   consumerVars, eventVars>>

(* The server receives the start, even when nobody waits for the answer.    *)
StartReceived ==
    /\ command = "posting" /\ execution = "absent"
    /\ execution' = "running"
    /\ UNCHANGED <<commandVars, visible, cancelVars, consumerVars, eventVars>>

(* start-async answers with the end of the run, or only acknowledges it.    *)
Posted ==
    /\ command = "posting"
    /\ \/ observing /\ execution \in Ended /\ Goto("deciding")
       \/ observing /\ execution # "absent" /\ Goto("observing")
       \/ Goto("recovering")
    /\ UNCHANGED <<owned, unseen, observing, delivery, report, executionVars, cancelVars,
                   consumerVars, eventVars>>

(* getRunForWorkflow: the end of the run; a run that goes on; no record, or *)
(* no answer in time, so often; or a failure.                               *)
Observe ==
    /\ command = "observing"
    /\ \/ observing /\ visible /\ execution \in Ended /\ Goto("deciding") /\ UNCHANGED unseen
       \/ observing /\ visible /\ execution = "running" /\ Goto("waiting") /\ unseen' = 0
       \/ observing /\ unseen + 1 < MaxUnseen /\ Goto("waiting") /\ unseen' = unseen + 1
       \/ Goto("recovering") /\ UNCHANGED unseen
    /\ UNCHANGED <<owned, observing, delivery, report, executionVars, cancelVars, consumerVars,
                   eventVars>>

(* waitForObservation. *)
Wait ==
    /\ command = "waiting"
    /\ IF observing THEN Goto("observing") ELSE Goto("recovering")
    /\ UNCHANGED <<owned, unseen, observing, delivery, report, executionVars, cancelVars,
                   consumerVars, eventVars>>

Outcome == IF interrupted \/ execution = "canceled" THEN "cancelled"
           ELSE IF execution = "success" THEN "succeeded" ELSE "failed"

Exit(status) == IF status = "succeeded" THEN 0 ELSE IF status = "cancelled" THEN 130 ELSE 1

Report(status) == report' = [status |-> status, exitCode |-> Exit(status)]

(* The run has ended, and the cancellation: the terminal event.  A result   *)
(* that is not JSON is a failure.                                           *)
Decide ==
    /\ command = "deciding" /\ cancellation # "asking"
    /\ IF cancellation = "failed" \/ Overflows
       THEN /\ Goto("recovering") /\ UNCHANGED report
            /\ bridge' = IF cancellation = "failed" THEN bridge ELSE Emitted("failed")
       ELSE \E status \in {Outcome} \cup (IF Outcome = "succeeded" THEN {"failed"} ELSE {}) :
               /\ bridge' = Emitted(status) /\ Report(status) /\ Goto("flushing")
    /\ UNCHANGED <<owned, unseen, observing, delivery, executionVars, cancelVars, consumerVars,
                   terminals, accepted>>

(* events.flush. *)
Flushed ==
    /\ command = "flushing" /\ bridge.queue = <<>>
    /\ IF bridge.failed THEN Goto("recovering") ELSE Goto("closing-host")
    /\ UNCHANGED <<owned, unseen, observing, delivery, report, executionVars, cancelVars,
                   consumerVars, eventVars>>

(* events.settle: whether the events could be delivered is read here. *)
Recover ==
    /\ command = "recovering" /\ bridge.queue = <<>>
    /\ delivery' = bridge.failed /\ Goto("conceding")
    /\ UNCHANGED <<owned, unseen, observing, report, executionVars, cancelVars, consumerVars,
                   eventVars>>

(* The cancellation is waited for, and sendTerminal sends past the queue,   *)
(* with the sequence that follows what was delivered.                       *)
Concede ==
    LET status == IF ~delivery /\ (interrupted \/ ~observing) THEN "cancelled" ELSE "failed" IN
    /\ command = "conceding" /\ cancellation # "asking"
    /\ Consume([kind |-> status, sequence |-> bridge.delivered + 1])
    /\ Report(status) /\ Goto("closing-host")
    /\ UNCHANGED <<owned, unseen, observing, delivery, executionVars, cancelVars, open, recorded,
                   bridge>>

(* close of its own host ends the run that is left; it may fail. *)
CloseHost ==
    /\ command = "closing-host" /\ Goto("flushing-events")
    /\ execution' \in IF owned /\ execution = "running" THEN {"failed", "running"} ELSE {execution}
    /\ UNCHANGED <<owned, unseen, observing, delivery, report, visible, cancelVars, consumerVars,
                   eventVars>>

FlushEvents ==
    /\ command = "flushing-events" /\ bridge.queue = <<>> /\ Goto("flushing-consumers")
    /\ UNCHANGED <<owned, unseen, observing, delivery, report, executionVars, cancelVars,
                   consumerVars, eventVars>>

FlushConsumers ==
    /\ command = "flushing-consumers" /\ ConsumersFlushed
    /\ open' = FALSE /\ Goto("closing-consumers")
    /\ UNCHANGED <<owned, unseen, observing, delivery, report, executionVars, cancelVars,
                   consumer, recorded, eventVars>>

CloseConsumers ==
    /\ command = "closing-consumers" /\ ConsumersFlushed /\ Goto("done")
    /\ UNCHANGED <<owned, unseen, observing, delivery, report, executionVars, cancelVars,
                   consumerVars, eventVars>>

CommandStep ==
    \/ Open \/ Resolve \/ Posted \/ Observe \/ Wait \/ Decide \/ Flushed
    \/ Recover \/ Concede \/ CloseHost \/ FlushEvents \/ FlushConsumers \/ CloseConsumers

EventStep == Deliver \/ \E c \in Consumers : Drain(c) \/ FlushConsumer(c)

RunStep == StartReceived \/ RecordStored \/ RunEnds

HostedNext == CommandStep \/ EventStep \/ CancelRun \/ RunStep \/ RunWorks \/ Signal

HostedOver == command = "done" /\ cancellation # "asking"

-----------------------------------------------------------------------------
(* What the command reports is what its consumers were told last, and a     *)
(* signal that it heard in time makes it a cancellation unless the events   *)
(* were lost; without one only the server says so (createRunCancellation-   *)
(* Result and the terminal events of executeOperationalHostRun).            *)
ReportedAsTold ==
    command \in Cleanup \cup {"done"} =>
        /\ terminals # <<>> /\ terminals[Len(terminals)] = report.status
        /\ signalled = "in-time" /\ ~bridge.failed => report.status = "cancelled"
        /\ report.status = "cancelled" => interrupted \/ execution = "canceled"

(* A recording that was not given up has every event that was dispatched,   *)
(* once and in order; one that was is still a beginning of the run          *)
(* (createRecordingConsumer, iterateSeqlaneRecording).                      *)
RecordingFaithful ==
    /\ \A i \in DOMAIN recorded : recorded[i] = i
    /\ command = "done" /\ ~consumer["recording"].failed => Len(recorded) = accepted
=============================================================================
