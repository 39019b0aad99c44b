------------------------------- MODULE CodexSession -------------------------------
(* The sessions of one Codex run: createCodexRun of run.ts and an adapter   *)
(* of adapter.ts for each session, over one CodexTransport.  The calls of a *)
(* session queue; each starts a turn, waits for its end, and interrupts it  *)
(* when it is cancelled or asked for a decision.  A turn whose end cannot   *)
(* be confirmed closes the run and is reported.                             *)
EXTENDS CodexTransport

Sessions == {SessionOf[c] : c \in Calls}

VARIABLES
    pc,             \* how far a call of execute has come
    queue,          \* the queue of each session, with the call that runs
    opener,         \* the call whose signal adapterPromise depends on
    adapter,        \* adapterPromise of each session
    thread,         \* threadPromise of each session
    invalidated,    \* sessions whose invalidated is set
    signal,         \* calls whose own signal has fired
    run,            \* CodexRun: "closing" until close has resolved
    reported,       \* calls that reported uncertain activity
    unread          \* calls whose turn/start had an answer nobody could read

sessionVars == <<pc, queue, opener, adapter, thread, invalidated, signal, run, reported, unread>>
vars == <<transportVars, sessionVars>>

Waiting == {"connecting", "queued", "preparing"}
Executing == {"starting", "confirmingStart", "running", "interrupting", "confirming", "invalidating"}

TypeOK ==
    /\ TransportTypeOK
    /\ pc \in [Calls -> {"absent", "idle", "settled"} \cup Waiting \cup Executing]
    /\ queue \in [Sessions -> Seq(Calls)]
    /\ adapter \in [Sessions -> {"none", "opening", "ready", "broken"}]
    /\ thread \in [Sessions -> {"none", "ready", "broken"}]
    /\ invalidated \subseteq Sessions
    /\ run \in {"open", "closing", "closed"}
    /\ signal \cup reported \cup unread \subseteq Calls

Init ==
    /\ TransportInit
    /\ \E made \in Traffic : pc = [c \in Calls |-> IF c \in made THEN "idle" ELSE "absent"]
    /\ queue = [s \in Sessions |-> <<>>]
    /\ opener = [s \in Sessions |-> {}]
    /\ adapter = [s \in Sessions |-> "none"]
    /\ thread = [s \in Sessions |-> "none"]
    /\ invalidated = {} /\ signal = {} /\ run = "open"
    /\ reported = {} /\ unread = {}

-----------------------------------------------------------------------------
(* Operators. *)

(* The signal of a run is part of the signal of each of its calls. *)
Aborted(c) == c \in signal \/ run # "open"
Usable(c) == SessionOf[c] \notin invalidated /\ run = "open"

Goto(c, to) == pc' = [pc EXCEPT ![c] = to]

(* The call answers, and the queue of its session moves on. *)
Settle(c) ==
    /\ Goto(c, "settled")
    /\ queue' = [queue EXCEPT ![SessionOf[c]] = SelectSeq(@, LAMBDA d : d # c)]
    /\ signal' = signal \ {c}

(* close of the run: the calls are aborted, the transport is closed. *)
CloseRun ==
    IF run = "open" THEN run' = "closing" /\ TellToEnd
                    ELSE UNCHANGED <<run, link, inbox, start, stop>>

-----------------------------------------------------------------------------
(* Connections. *)

Enter(c) ==
    /\ pc[c] = "idle"
    /\ Goto(c, "connecting")
    /\ LET s == SessionOf[c]
       IN  /\ adapter' = [adapter EXCEPT ![s] = IF @ # "none" THEN @
                                              ELSE IF run # "open" THEN "broken" ELSE "opening"]
           /\ opener' = [opener EXCEPT ![s] = IF adapter[s] = "none" THEN {c} ELSE @]
    /\ UNCHANGED <<transportVars, queue, thread, invalidated, signal, run, reported, unread>>

CreateTransport ==
    /\ "opening" \in {adapter[s] : s \in Sessions} /\ Create(run # "open")
    /\ UNCHANGED sessionVars

(* Open, or one of: no transport, no answer in time, a caller that left.    *)
OpenAdapter(s) ==
    /\ adapter[s] = "opening"
    /\ \/ link \notin {"none", "broken"} /\ adapter' = [adapter EXCEPT ![s] = "ready"]
       \/ link \in {"none", "broken"} /\ adapter' = [adapter EXCEPT ![s] = "broken"]
       \/ (\E c \in opener[s] : Aborted(c)) /\ adapter' = [adapter EXCEPT ![s] = "broken"]
    /\ opener' = [opener EXCEPT ![s] = {}]
    /\ UNCHANGED <<transportVars, pc, queue, thread, invalidated, signal, run, reported, unread>>

Connect(c) ==
    /\ pc[c] = "connecting" /\ adapter[SessionOf[c]] \in {"ready", "broken"}
    /\ IF adapter[SessionOf[c]] = "ready" /\ Usable(c)
       THEN /\ Goto(c, "queued")
            /\ queue' = [queue EXCEPT ![SessionOf[c]] = Append(@, c)] /\ UNCHANGED signal
       ELSE Settle(c)
    /\ UNCHANGED <<transportVars, opener, adapter, thread, invalidated, run, reported, unread>>

-----------------------------------------------------------------------------
(* The start of a turn. *)

Begin(c) ==
    /\ pc[c] = "queued" /\ Head(queue[SessionOf[c]]) = c
    /\ IF Usable(c) THEN Goto(c, "preparing") /\ UNCHANGED <<queue, signal>> ELSE Settle(c)
    /\ UNCHANGED <<transportVars, opener, adapter, thread, invalidated, run, reported, unread>>

(* resolveSelection and ensureThread: a thread is made once, and one that   *)
(* could not be made is not tried again.  A deadline invalidates.           *)
Prepare(c) ==
    LET s == SessionOf[c]
    IN  /\ pc[c] = "preparing" /\ Usable(c)
        /\ thread[s] = "ready" \/ (thread[s] = "none" /\ link = "open" /\ c \notin signal)
        /\ thread' = [thread EXCEPT ![s] = "ready"]
        /\ SendStart(c) /\ Goto(c, "starting")
        /\ UNCHANGED <<queue, opener, adapter, invalidated, signal, run, reported, unread>>

PrepareFails(c) ==
    LET s == SessionOf[c]
    IN  /\ pc[c] = "preparing"
        /\ thread[s] # "ready" \/ ~Usable(c)
        /\ \E made \in (IF thread[s] = "none" THEN {"none", "broken"} ELSE {thread[s]}) :
              thread' = [thread EXCEPT ![s] = made]
        /\ \E late \in (IF thread[s] = "none" THEN {{}, {s}} ELSE {{}}) : invalidated' = invalidated \cup late
        /\ Settle(c)
        /\ UNCHANGED <<transportVars, opener, adapter, run, reported, unread>>

(* turn/start has no answer after five seconds; the promise of the start    *)
(* fails when the run has been closed and the call has reported it.         *)
StartLate(c) ==
    /\ pc[c] \in {"starting", "confirmingStart"} /\ start[c] = "pending"
    /\ invalidated' = invalidated \cup {SessionOf[c]}
    /\ run' = "closing" /\ link' = "closing" /\ inbox' = <<>>
    /\ start' = [Rejected(start) EXCEPT ![c] = "late"]
    /\ stop' = Rejected(stop)
    /\ UNCHANGED <<terminated, turn, said, starting, buffer, listening, tracker,
                   pc, queue, opener, adapter, thread, signal, reported, unread>>

ReportLate(c) ==
    /\ start[c] = "late" /\ run = "closed"
    /\ reported' = reported \cup {c}
    /\ start' = [start EXCEPT ![c] = "failed"]
    /\ UNCHANGED <<link, terminated, inbox, turn, said, stop, starting, buffer, listening, tracker,
                   pc, queue, opener, adapter, thread, invalidated, signal, run, unread>>

Bind(c) ==
    /\ pc[c] = "starting" /\ start[c] = "accepted" /\ ~Aborted(c)
    /\ BindTracker(c) /\ Goto(c, "running")
    /\ UNCHANGED <<link, terminated, inbox, turn, said, start, stop,
                   queue, opener, adapter, thread, invalidated, signal, run, reported, unread>>

StartFails(c) ==
    /\ pc[c] = "starting" /\ start[c] \in {"failed", "unreadable"} /\ ~Aborted(c)
    /\ Detach(c) /\ Settle(c)
    /\ unread' = IF start[c] = "unreadable" THEN unread \cup {c} ELSE unread
    /\ UNCHANGED <<link, terminated, inbox, turn, said,
                   opener, adapter, thread, invalidated, run, reported>>

(* raceWithAbort: a cancelled call waits for the answer all the same. *)
ConfirmStart(c) ==
    /\ pc[c] = "starting" /\ Aborted(c)
    /\ Goto(c, "confirmingStart")
    /\ UNCHANGED <<transportVars, queue, opener, adapter, thread, invalidated, signal, run, reported, unread>>

-----------------------------------------------------------------------------
(* The end of a turn. *)

(* invalidateUnconfirmedTurn: done at once if the session is invalidated    *)
(* already.                                                                 *)
Invalidate(c) ==
    IF SessionOf[c] \in invalidated
    THEN Settle(c) /\ Detach(c) /\ UNCHANGED <<invalidated, run, link, inbox>>
    ELSE /\ invalidated' = invalidated \cup {SessionOf[c]}
         /\ CloseRun /\ Goto(c, "invalidating")
         /\ UNCHANGED <<queue, signal, starting, buffer, listening, tracker>>

(* A faulty StartUnconfirmed: a start that failed leaves nothing to report. *)
StartUnconfirmedSettles(c) ==
    /\ pc[c] = "confirmingStart" /\ start[c] \in {"failed", "unreadable"}
    /\ Settle(c) /\ Detach(c)
    /\ UNCHANGED <<link, terminated, inbox, turn, said, opener, adapter, thread,
                   invalidated, run, reported, unread>>

(* The five seconds of the confirmation may be over before a late start has *)
(* been reported: the call answers first, and is reported afterwards.       *)
StartUnconfirmed(c) ==
    /\ pc[c] = "confirmingStart" /\ start[c] \in {"failed", "unreadable", "late"}
    /\ Invalidate(c)
    /\ UNCHANGED <<terminated, turn, said, opener, adapter, thread, reported, unread>>

StopStarted(c) ==
    /\ pc[c] = "confirmingStart" /\ start[c] = "accepted"
    /\ BindTracker(c) /\ SendStop(c) /\ Goto(c, "interrupting")
    /\ UNCHANGED <<link, terminated, inbox, turn, said, start,
                   queue, opener, adapter, thread, invalidated, signal, run, reported, unread>>

(* The turn has ended, well or not, and its answer is read. *)
Finish(c) ==
    /\ pc[c] = "running" /\ tracker[c].completed /\ ~tracker[c].alarm /\ ~Aborted(c)
    /\ Settle(c) /\ Detach(c)
    /\ UNCHANGED <<link, terminated, inbox, turn, said,
                   opener, adapter, thread, invalidated, run, reported, unread>>

Interrupt(c) ==
    /\ pc[c] = "running"
    /\ tracker[c].alarm \/ Aborted(c)
    /\ SendStop(c) /\ Goto(c, "interrupting")
    /\ UNCHANGED <<link, terminated, inbox, turn, said, start, starting, buffer, listening, tracker,
                   queue, opener, adapter, thread, invalidated, signal, run, reported, unread>>

Interrupted(c) ==
    /\ pc[c] = "interrupting" /\ stop[c] = "done"
    /\ Goto(c, "confirming")
    /\ UNCHANGED <<transportVars, queue, opener, adapter, thread, invalidated, signal, run, reported, unread>>

Confirm(c) ==
    /\ pc[c] = "confirming" /\ tracker[c].completed
    /\ Settle(c) /\ Detach(c)
    /\ UNCHANGED <<link, terminated, inbox, turn, said,
                   opener, adapter, thread, invalidated, run, reported, unread>>

(* The request to interrupt was rejected, or one of the timers has fired.   *)
Unconfirmed(c) ==
    /\ pc[c] \in {"interrupting", "confirming"} /\ ~(pc[c] = "confirming" /\ tracker[c].completed)
    /\ Invalidate(c)
    /\ UNCHANGED <<terminated, turn, said, opener, adapter, thread, reported, unread>>

Report(c) ==
    /\ pc[c] = "invalidating" /\ run = "closed"
    /\ reported' = reported \cup {c}
    /\ Settle(c) /\ Detach(c)
    /\ UNCHANGED <<link, terminated, inbox, turn, said,
                   opener, adapter, thread, invalidated, run, unread>>

-----------------------------------------------------------------------------
(* The run and its callers. *)

(* close resolves when the termination of the transport has. *)
RunClosed ==
    /\ run = "closing"
    /\ terminated \/ link \in {"none", "broken"}
    /\ run' = "closed"
    /\ UNCHANGED <<transportVars, pc, queue, opener, adapter, thread, invalidated, signal, reported, unread>>

(* The owner of the run is done with it. *)
Close ==
    /\ run = "open" /\ CloseRun
    /\ UNCHANGED <<terminated, turn, said, starting, buffer, listening, tracker,
                   pc, queue, opener, adapter, thread, invalidated, signal, reported, unread>>

Abort(c) ==
    /\ pc[c] \in Waiting \cup Executing /\ c \notin signal
    /\ signal' = signal \cup {c}
    /\ UNCHANGED <<transportVars, pc, queue, opener, adapter, thread, invalidated, run, reported, unread>>

(* The deadline that onExecutionStarted has started. *)
Deadline(c) == pc[c] \in Executing /\ Abort(c)

Progress ==
    \/ CreateTransport \/ RunClosed \/ (Force /\ UNCHANGED sessionVars)
    \/ \E s \in Sessions : OpenAdapter(s)
    \/ \E c \in Calls :
          \/ Connect(c) \/ Begin(c) \/ Prepare(c) \/ PrepareFails(c)
          \/ StartLate(c) \/ ReportLate(c) \/ Bind(c) \/ StartFails(c) \/ ConfirmStart(c)
          \/ StartUnconfirmed(c) \/ StopStarted(c) \/ Finish(c) \/ Interrupt(c)
          \/ Interrupted(c) \/ Confirm(c) \/ Unconfirmed(c) \/ Report(c) \/ Deadline(c)

Environment ==
    \/ (Server \/ Read \/ Garble \/ Exit) /\ UNCHANGED sessionVars
    \/ Close
    \/ \E c \in Calls : Enter(c) \/ Abort(c)

Next == Environment \/ Progress

Spec == Init /\ [][Next]_vars /\ WF_vars(Progress)

-----------------------------------------------------------------------------
(* Properties. *)

Contract ==
    INSTANCE AgentSession WITH
        call <- [c \in Calls |-> CASE pc[c] \in {"absent", "idle"} -> "idle"
                               [] pc[c] = "settled" -> "settled"
                               [] OTHER -> "open"],
        work <- {c \in Calls : turn[c] = "working"},
        known <- IF link \in {"closing", "closed"} THEN Calls ELSE reported \cup unread

(* The sessions of a Codex run keep the contract of an adapter: a session   *)
(* starts no turn beside one that nobody knows of, and a call answers only  *)
(* when its turn has ended, was reported as uncertain, or the process that  *)
(* runs it has been told to end.  The only other turn that is left behind   *)
(* is the one whose turn/start had an unreadable answer.                    *)
TurnsAccounted == Contract!Spec

(* Every call answers, whatever the app-server does or leaves undone.       *)
CallsSettle == <>[](\A c \in Calls : pc[c] \notin Waiting \cup Executing)

=============================================================================
