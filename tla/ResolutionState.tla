---------------------------- MODULE ResolutionState ----------------------------
(* What a resolution of merge conflicts promises: the states and events of  *)
(* resolution-state.ts.  The controller does not go through them by calling *)
(* transitionResolutionState; MergeResolution implements them nevertheless. *)
(* The outcome is left out: the controller reports a clean rebase that has  *)
(* moved the head as updated, transitionResolutionState as no change.       *)
EXTENDS Naturals

CONSTANT MaxAttempts   \* maxAttempts of the request

VARIABLES
    phase,      \* ResolutionAttemptPhase
    attempts    \* attempts of ResolutionState

stateVars == <<phase, attempts>>

Terminal == {"completed", "failed"}

StateInit == phase = "ready" /\ attempts = 0

(* An event that takes the resolution from one phase to another. *)
Event(from, to) == phase \in from /\ phase' = to /\ UNCHANGED attempts

AttemptStarted ==
    /\ phase = "conflicted" /\ attempts < MaxAttempts
    /\ phase' = "preparing" /\ attempts' = attempts + 1

StateNext ==
    \/ Event({"ready"}, "integrating")
    \/ Event({"integrating"}, "completed")
    \/ Event({"integrating"}, "conflicted")
    \/ AttemptStarted
    \/ Event({"preparing"}, "resolving")
    \/ Event({"resolving"}, "validating")
    \/ Event({"validating"}, "continuing")
    \/ Event({"continuing"}, "conflicted")
    \/ Event({"continuing", "conflicted"}, "completed")
    \/ phase \notin Terminal /\ phase' = "failed" /\ UNCHANGED attempts

StateSpec == StateInit /\ [][StateNext]_stateVars

=============================================================================
