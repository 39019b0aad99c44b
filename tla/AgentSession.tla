------------------------------ MODULE AgentSession ------------------------------
(* What the runtime relies on in an agent adapter (libs/adapter), whoever   *)
(* implements it: the calls of one session follow one another, and a call   *)
(* answers only when its work outside has stopped or is known to go on.     *)
(* invocation-execution.ts gives the leases of an invocation back on that   *)
(* answer.                                                                  *)
CONSTANTS
    Calls,          \* calls of AgentAdapter.execute
    SessionOf       \* the session each call belongs to

VARIABLES
    call,           \* "idle", "open" or "settled"
    work,           \* calls whose work may be going on outside
    known           \* work that was reported, or was told to stop

vars == <<call, work, known>>

Init ==
    /\ call = [c \in Calls |-> "idle"]
    /\ work = {}
    /\ known = {}

(* What is known stays known as long as it goes on. *)
Remembered == known \cap work' \subseteq known'

(* Nothing of the session goes on that nobody knows of. *)
Quiet(c) == \A d \in work : SessionOf[d] = SessionOf[c] => d \in known

Enter(c) ==
    /\ call[c] = "idle"
    /\ call' = [call EXCEPT ![c] = "open"]
    /\ UNCHANGED <<work, known>>

Send(c) ==
    /\ call[c] = "open" /\ Quiet(c)
    /\ work' = work \cup {c}
    /\ UNCHANGED <<call, known>>

(* Work ends, or becomes known. *)
Subside ==
    /\ work' \subseteq work /\ Remembered
    /\ UNCHANGED call

Settle(c) ==
    /\ call[c] # "settled"
    /\ call' = [call EXCEPT ![c] = "settled"]
    /\ work' \subseteq work /\ Remembered
    /\ c \in work' => c \in known'

Next == Subside \/ \E c \in Calls : Enter(c) \/ Send(c) \/ Settle(c)

Spec == Init /\ [][Next]_vars

=============================================================================
