----------------------------- MODULE McpDispatcher -----------------------------
(* BoundedMcpDispatcher of mastra-server.ts: at most MaxConcurrent calls    *)
(* of a workflow tool are dispatched at once, at most MaxQueued wait, and a *)
(* timer per call ends the wait of its caller.  What a dispatched call does *)
(* is the module's environment: OperationalHost composes it with the        *)
(* handler that is registered there.                                        *)
EXTENDS Naturals, Sequences, SequencesExt, FiniteSets

CONSTANTS
    Calls,          \* the calls of the tools
    MaxConcurrent,  \* slots for dispatched calls
    MaxQueued       \* places for waiting calls

ASSUME DispatcherAssumption ==
    /\ MaxConcurrent \in Nat \ {0}
    /\ MaxQueued \in Nat

VARIABLES
    queue,     \* BoundedMcpDispatcher.queue
    active,    \* BoundedMcpDispatcher.active
    call,      \* what has become of a call: entry.started and entry.slotReleased
    answer,    \* what its caller was told: entry.settled and the promise
    aborted,   \* calls whose controller is aborted
    over       \* calls whose dispatch has come back

dispatcherVars == <<queue, active, call, answer, aborted, over>>

DispatcherTypeOK ==
    /\ queue \in Seq(Calls)
    /\ active \in Nat
    /\ call \in [Calls -> {"new", "refused", "queued", "left", "started", "released"}]
    /\ answer \in [Calls -> {"none", "result", "error", "cancelled", "deadline", "full"}]
    /\ aborted \subseteq Calls
    /\ over \subseteq Calls

DispatcherInit ==
    /\ queue = <<>> /\ active = 0
    /\ call = [c \in Calls |-> "new"]
    /\ answer = [c \in Calls |-> "none"]
    /\ aborted = {} /\ over = {}

-----------------------------------------------------------------------------
(* Operators. *)

(* pump: the longest waiting calls take the free slots.  A queued call is  *)
(* never aborted (its abort takes it out of the queue), so the branch that *)
(* skips aborted entries is not reached.                                   *)
Pump(q, a, state) ==
    LET free == MaxConcurrent - a
        n == IF Len(q) < free THEN Len(q) ELSE free
        first == SubSeq(q, 1, n)
    IN  /\ queue' = SubSeq(q, n + 1, Len(q))
        /\ active' = a + n
        /\ call' = [c \in Calls |-> IF c \in ToSet(first) THEN "started" ELSE state[c]]

(* reject, and the settlement in run: only the first answer reaches the    *)
(* caller, and with it the timer and the listener of the call are gone.    *)
Answer(c, outcome) == answer' = [answer EXCEPT ![c] = IF @ = "none" THEN outcome ELSE @]
Waiting(c) == call[c] \in {"queued", "started"} /\ answer[c] = "none"

(* remove: the entry of c is taken out of the queue.                       *)
Without(q, c) ==
    LET at == CHOOSE n \in 1..Len(q) : q[n] = c
    IN  [n \in 1..(Len(q) - 1) |-> IF n < at THEN q[n] ELSE q[n + 1]]

(* A faulty ReleaseSlot: it does not look whether the slot is back.        *)
ReleaseSlotAgain(c) == Pump(queue, IF active > 0 THEN active - 1 ELSE 0, [call EXCEPT ![c] = "released"])

(* releaseSlot: a slot is given back once, and a waiting call takes it. *)
ReleaseSlot(c) ==
    IF call[c] = "started"
    THEN Pump(queue, active - 1, [call EXCEPT ![c] = "released"])
    ELSE UNCHANGED <<queue, active, call>>

-----------------------------------------------------------------------------
(* The calls. *)

(* dispatchInvocation: the signal of the caller may be aborted already. *)
Dispatch(c) ==
    /\ call[c] = "new"
    /\ \/ /\ call' = [call EXCEPT ![c] = "refused"]
          /\ Answer(c, "cancelled") /\ UNCHANGED <<queue, active>>
       \/ /\ Len(queue) >= MaxQueued /\ active >= MaxConcurrent
          /\ call' = [call EXCEPT ![c] = "refused"]
          /\ Answer(c, "full") /\ UNCHANGED <<queue, active>>
       \/ /\ ~(Len(queue) >= MaxQueued /\ active >= MaxConcurrent)
          /\ Pump(Append(queue, c), active, [call EXCEPT ![c] = "queued"])
          /\ UNCHANGED answer
    /\ UNCHANGED <<aborted, over>>

(* onCallerAbort: a queued call leaves the queue, a started one is told.   *)
CallerAbort(c) ==
    /\ Waiting(c) /\ c \notin aborted
    /\ \/ /\ call[c] = "queued"
          /\ Pump(Without(queue, c), active, [call EXCEPT ![c] = "left"])
          /\ Answer(c, "cancelled") /\ UNCHANGED aborted
       \/ /\ call[c] = "started"
          /\ aborted' = aborted \cup {c}
          /\ UNCHANGED <<queue, active, call, answer>>
    /\ UNCHANGED over

(* A faulty Deadline: the caller of a started call waits for its dispatch. *)
DeadlineWaits(c) ==
    /\ Waiting(c) /\ c \notin aborted
    /\ \/ /\ call[c] = "started"
          /\ aborted' = aborted \cup {c}
          /\ UNCHANGED <<queue, active, call, answer>>
       \/ /\ call[c] = "queued"
          /\ queue' = Without(queue, c) /\ call' = [call EXCEPT ![c] = "left"]
          /\ Answer(c, "deadline")
          /\ UNCHANGED <<active, aborted>>
    /\ UNCHANGED over

(* The timer of a call.  A started one is aborted and its slot given back  *)
(* although it still runs; a queued one leaves, and nothing is pumped.     *)
Deadline(c) ==
    /\ Waiting(c)
    /\ Answer(c, "deadline")
    /\ \/ /\ call[c] = "started"
          /\ aborted' = aborted \cup {c}
          /\ ReleaseSlot(c)
       \/ /\ call[c] = "queued"
          /\ queue' = Without(queue, c) /\ call' = [call EXCEPT ![c] = "left"]
          /\ UNCHANGED <<active, aborted>>
    /\ UNCHANGED over

(* run: the dispatch of a call comes back, perhaps after its deadline. *)
Finish(c, outcome) ==
    /\ call[c] \in {"started", "released"} /\ c \notin over
    /\ over' = over \cup {c}
    /\ Answer(c, outcome)
    /\ ReleaseSlot(c)
    /\ UNCHANGED aborted

-----------------------------------------------------------------------------
(* The specification of the dispatcher with any dispatch. *)
DispatcherNext ==
    \E c \in Calls :
        \/ Dispatch(c) \/ CallerAbort(c) \/ Deadline(c)
        \/ \E outcome \in {"result", "error"} : Finish(c, outcome)

(* A timer that is armed fires; a dispatch need not come back. *)
DispatcherSpec ==
    /\ DispatcherInit /\ [][DispatcherNext]_dispatcherVars
    /\ \A c \in Calls : WF_dispatcherVars(Deadline(c))

-----------------------------------------------------------------------------
(* Properties. *)

(* Whoever is still waited for holds a slot, and no more than              *)
(* MaxConcurrent do.  The bound is not one on the calls that run: a call   *)
(* past its deadline runs on without a slot.                               *)
SlotsBounded ==
    /\ active = Cardinality({c \in Calls : call[c] = "started"})
    /\ active <= MaxConcurrent
    /\ \A c \in Calls : call[c] = "released" => answer[c] # "none"

(* No call waits while a slot is free, and each that waits is in the queue *)
(* once: aborts, deadlines and returns in any order lose no wake-up, and   *)
(* leave no entry whose caller is gone to take a slot.                     *)
NobodyStranded ==
    /\ queue # <<>> => active = MaxConcurrent
    /\ ToSet(queue) = {c \in Calls : call[c] = "queued"}
    /\ \A c \in ToSet(queue) : answer[c] = "none"
    /\ Len(queue) = Cardinality(ToSet(queue)) /\ Len(queue) <= MaxQueued

(* Slots and queue agree: no call too many holds a slot, and none waits    *)
(* for one that nobody holds.                                              *)
DispatcherSound == SlotsBounded /\ NobodyStranded

(* Every caller hears something, whether or not the dispatch comes back.   *)
CallerAnswered == []<>(\A c \in Calls : call[c] # "new" => answer[c] # "none")

=============================================================================
