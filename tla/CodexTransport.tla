------------------------------ MODULE CodexTransport ------------------------------
(* The app-server process of a Codex run and the pipe to it (transport.ts,  *)
(* session-events.ts): requests, their answers and the events of turns,     *)
(* read in the order they were written; events of a turn may be read before *)
(* the answer that names it.  The app-server is external: it may refuse a   *)
(* turn, end it, ask for a decision, answer late, never, or unreadably, and *)
(* exit at any time.                                                        *)
EXTENDS Naturals, Sequences, SequencesExt, FiniteSets

CONSTANTS
    Calls,          \* calls of execute, each of which starts one turn
    SessionOf,      \* the thread a call belongs to
    Traffic,        \* the sets of calls that may be made in one run
    Unruly,         \* calls whose turn the server may do more with than end it
    PipeRoom        \* bound: what has been written and is not read yet

ASSUME TrafficAssumption == Traffic \subseteq SUBSET Calls /\ Unruly \subseteq Calls

VARIABLES
    link,           \* the transport; "closing" once its process is told to end
    terminated,     \* CodexTransport.termination
    inbox,          \* stdout of the process
    turn,           \* a turn at the server
    said,           \* what the server has said of each turn
    start,          \* the request turn/start of each call
    stop,           \* its request turn/interrupt
    starting,       \* CodexSessionEventDispatcher.starts
    buffer,         \* the events each of them has buffered
    listening,      \* CodexSessionEventDispatcher.active
    tracker         \* TurnTracker: what it has heard

transportVars == <<link, terminated, inbox, turn, said, start, stop, starting, buffer,
                   listening, tracker>>
clientVars == <<start, stop, starting, buffer, listening, tracker>>

Unheard == [settled |-> FALSE, completed |-> FALSE, alarm |-> FALSE]
Answers == {"accepted", "unreadable", "refused", "interrupted", "late"}

TransportTypeOK ==
    /\ link \in {"none", "open", "closing", "closed", "broken"}
    /\ terminated \in BOOLEAN
    /\ \A i \in DOMAIN inbox : inbox[i].about \in Calls
    /\ turn \in [Calls -> {"none", "working", "ended"}]
    /\ said \in [Calls -> SUBSET (Answers \cup {"asks", "completed", "overfull"})]
    /\ start \in [Calls -> {"none", "pending", "accepted", "unreadable", "failed", "late"}]
    /\ stop \in [Calls -> {"none", "pending", "done", "failed"}]
    /\ starting \cup listening \subseteq Calls
    /\ tracker \in [Calls -> [settled : BOOLEAN, completed : BOOLEAN, alarm : BOOLEAN]]

TransportInit ==
    /\ link = "none" /\ terminated = FALSE /\ inbox = <<>>
    /\ turn = [c \in Calls |-> "none"]
    /\ said = [c \in Calls |-> {}]
    /\ start = [c \in Calls |-> "none"]
    /\ stop = [c \in Calls |-> "none"]
    /\ starting = {} /\ listening = {}
    /\ buffer = [c \in Calls |-> <<>>]
    /\ tracker = [c \in Calls |-> Unheard]

-----------------------------------------------------------------------------
(* The process and its pipe. *)

(* rejectPending, and the requests that are made when the transport is not  *)
(* open any more.                                                           *)
Rejected(requests) == [c \in Calls |-> IF requests[c] = "pending" THEN "failed" ELSE requests[c]]

(* fail, and close; what has not been read is not read any more. *)
TellToEnd ==
    IF link = "open"
    THEN /\ link' = "closing" /\ inbox' = <<>>
         /\ start' = Rejected(start) /\ stop' = Rejected(stop)
    ELSE UNCHANGED <<link, inbox, start, stop>>

(* createCodexStdioTransport; a handshake that fails leaves none. *)
Create(aborted) ==
    /\ link = "none"
    /\ \/ ~aborted /\ link' = "open"
       \/ link' = "broken"
    /\ UNCHANGED <<terminated, inbox, turn, said, start, stop, starting, buffer, listening, tracker>>

(* Output that cannot be read, or one limit of several that is exceeded. *)
Garble ==
    /\ link = "open" /\ TellToEnd
    /\ UNCHANGED <<terminated, turn, said, starting, buffer, listening, tracker>>

(* The process has closed, told to or not. *)
Exit ==
    /\ link \in {"open", "closing"}
    /\ link' = "closed" /\ terminated' = TRUE /\ inbox' = <<>>
    /\ turn' = [c \in Calls |-> IF turn[c] = "working" THEN "ended" ELSE turn[c]]
    /\ start' = Rejected(start) /\ stop' = Rejected(stop)
    /\ UNCHANGED <<said, starting, buffer, listening, tracker>>

(* A faulty Force: the termination settles when the process has closed.     *)
ForceNever == FALSE /\ UNCHANGED transportVars

(* SIGKILL was sent, and the process has not been seen to close since.      *)
Force ==
    /\ link = "closing" /\ ~terminated
    /\ terminated' = TRUE
    /\ UNCHANGED <<link, inbox, turn, said, clientVars>>

-----------------------------------------------------------------------------
(* The app-server. *)

Say(c, kind) ==
    /\ link = "open" /\ kind \notin said[c] /\ Len(inbox) < PipeRoom
    /\ said' = [said EXCEPT ![c] = @ \cup {kind}]
    /\ inbox' = Append(inbox, [about |-> c, kind |-> kind])

RefuseTurn(c) ==
    /\ turn[c] = "working" /\ said[c] = {} /\ Say(c, "refused")
    /\ turn' = [turn EXCEPT ![c] = "ended"]
    /\ UNCHANGED <<link, terminated, clientVars>>

AnswerStart(c, kind) ==
    /\ turn[c] # "none" /\ said[c] \cap {"accepted", "unreadable", "refused"} = {} /\ Say(c, kind)
    /\ UNCHANGED <<link, terminated, turn, clientVars>>

(* turn/completed, with items that the client has room for or not. *)
EndTurn(c, kind) ==
    /\ turn[c] = "working" /\ Say(c, kind)
    /\ turn' = [turn EXCEPT ![c] = "ended"]
    /\ UNCHANGED <<link, terminated, clientVars>>

(* An approval, a question, or a request the client does not support. *)
AskClient(c) ==
    /\ turn[c] = "working" /\ Say(c, "asks")
    /\ UNCHANGED <<link, terminated, turn, clientVars>>

(* A turn that has ended cannot be interrupted any more. *)
AnswerStop(c) ==
    /\ stop[c] = "pending" /\ said[c] \cap {"interrupted", "late"} = {}
    /\ Say(c, IF turn[c] = "working" THEN "interrupted" ELSE "late")
    /\ UNCHANGED <<link, terminated, turn, clientVars>>

Server ==
    \E c \in Calls :
        \/ c \in Unruly /\ (RefuseTurn(c) \/ AskClient(c))
        \/ AnswerStart(c, "accepted") \/ EndTurn(c, "completed") \/ AnswerStop(c)
        \/ c \in Unruly /\ (AnswerStart(c, "unreadable") \/ EndTurn(c, "overfull"))

-----------------------------------------------------------------------------
(* Reading. *)

(* onMessage of a tracker.  A turn is settled before its items are counted. *)
Hear(heard, kind) ==
    IF heard.settled THEN heard
    ELSE CASE kind = "asks" -> [heard EXCEPT !.alarm = TRUE]
           [] kind = "completed" -> [heard EXCEPT !.settled = TRUE, !.completed = TRUE]
           [] kind = "overfull" -> [heard EXCEPT !.settled = TRUE, !.alarm = TRUE]

(* Starts of the same thread, which may turn out to be the turn of an event.*)
Candidates(c) == {d \in starting : SessionOf[d] = SessionOf[c]}

(* An event is heard by the tracker of its turn, or kept for the starts it  *)
(* may belong to; a question that nobody is there for ends the transport.   *)
DispatchEvent(event) ==
    LET c == event.about IN
    IF c \in listening
    THEN /\ inbox' = Tail(inbox)
         /\ tracker' = [tracker EXCEPT ![c] = Hear(@, event.kind)]
         /\ UNCHANGED <<link, start, stop, buffer>>
    ELSE IF event.kind = "asks" /\ Candidates(c) = {}
    THEN TellToEnd /\ UNCHANGED <<buffer, tracker>>
    ELSE /\ inbox' = Tail(inbox)
         /\ buffer' = [d \in Calls |-> IF d \in Candidates(c) THEN Append(buffer[d], event) ELSE buffer[d]]
         /\ UNCHANGED <<link, start, stop, tracker>>

(* An answer settles the request it is for, when that is still pending. *)
SettleRequest(c, kind) ==
    /\ inbox' = Tail(inbox)
    /\ start' = CASE start[c] # "pending" \/ kind \in {"interrupted", "late"} -> start
                  [] start[c] = "pending" /\ kind = "refused" -> [start EXCEPT ![c] = "failed"]
                  [] OTHER -> [start EXCEPT ![c] = kind]
    /\ stop' = CASE stop[c] # "pending" \/ kind \notin {"interrupted", "late"} -> stop
                 [] stop[c] = "pending" /\ kind = "interrupted" -> [stop EXCEPT ![c] = "done"]
                 [] OTHER -> [stop EXCEPT ![c] = "failed"]
    /\ UNCHANGED <<link, buffer, tracker>>

Read ==
    /\ link = "open" /\ inbox # <<>>
    /\ IF Head(inbox).kind \in Answers
       THEN SettleRequest(Head(inbox).about, Head(inbox).kind)
       ELSE DispatchEvent(Head(inbox))
    /\ UNCHANGED <<terminated, turn, said, starting, listening>>

-----------------------------------------------------------------------------
(* What a session does with the transport. *)

(* turn/start, between begin of the dispatcher and the answer. *)
SendStart(c) ==
    /\ starting' = starting \cup {c}
    /\ IF link = "open"
       THEN /\ start' = [start EXCEPT ![c] = "pending"]
            /\ turn' = [turn EXCEPT ![c] = "working"]
       ELSE /\ start' = [start EXCEPT ![c] = "failed"]
            /\ UNCHANGED turn
    /\ UNCHANGED <<link, terminated, inbox, said, stop, buffer, listening, tracker>>

(* A faulty BindTracker: whatever the thread has sent is replayed.          *)
BindTrackerToThread(c) ==
    /\ starting' = starting \ {c} /\ listening' = listening \cup {c}
    /\ tracker' = [tracker EXCEPT ![c] =
                     FoldLeft(LAMBDA heard, event : Hear(heard, event.kind), Unheard, buffer[c])]
    /\ buffer' = [buffer EXCEPT ![c] = <<>>]

(* bind: the buffered events of this turn are heard first. *)
BindTracker(c) ==
    /\ starting' = starting \ {c} /\ listening' = listening \cup {c}
    /\ tracker' = [tracker EXCEPT ![c] =
                     FoldLeft(LAMBDA heard, event : IF event.about = c THEN Hear(heard, event.kind) ELSE heard,
                              Unheard, buffer[c])]
    /\ buffer' = [buffer EXCEPT ![c] = <<>>]

(* cancel of the registration and dispose of the tracker. *)
Detach(c) ==
    /\ starting' = starting \ {c} /\ listening' = listening \ {c}
    /\ buffer' = [buffer EXCEPT ![c] = <<>>]
    /\ tracker' = [tracker EXCEPT ![c] = Unheard]
    /\ start' = [start EXCEPT ![c] = IF @ = "late" THEN @ ELSE "none"]
    /\ stop' = [stop EXCEPT ![c] = "none"]

SendStop(c) == stop' = [stop EXCEPT ![c] = IF link = "open" THEN "pending" ELSE "failed"]

=============================================================================
