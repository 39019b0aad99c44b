------------------------- MODULE TaskInvocationProofs -------------------------
(* Proofs about TaskInvocation, for any effects, activities and consumers, *)
(* and about what AwaitedCalls adds to it.                                 *)
EXTENDS AwaitedCalls, WellFoundedInduction, NaturalsInduction, TLAPS

(* What the invocation waits for: reported before it stopped listening and *)
(* still in progress.                                                      *)
AwaitedWork == (PendingEffects(effects) \cup ActiveActivities(activities)) \ late

(* What holds at each place executeTaskNode can be.                        *)
StepInv ==
    /\ step = "admission" =>
          /\ leases = {} /\ answer = "none" /\ ~result /\ AwaitedWork = {}
          /\ \A e \in Effects : effects[e] = "new"
          /\ \A a \in Activities : activities[a] = "new"
    /\ step \in Waiting => leases = LeasesTaken /\ ~result
    /\ step \in {"validating", "capturing", "forking"} =>
          AwaitedWork = {} /\ (HasSession => "session" \in leases)
    /\ step = "ended" => AwaitedWork = {}

(* Nobody has a session before the invocation has ended, and what the arms *)
(* of later choices find is there before the last fork.                    *)
PublishInv ==
    /\ step # "ended" =>
          outcome = "none" /\ \A n \in Eager : resolved[n] = "none"
    /\ step \in {"capturing", "forking"} => HasSession
    /\ step = "capturing" => ~(EagerForks = {} /\ DeferredConsumers \cap Forks = {})
    /\ step \notin {"forking", "ended"} => materialized = 0
    /\ step = "forking" => \E n \in EagerForks : n > materialized
    /\ step = "forking" /\ DeferredConsumers # {} => deferredSource = "checkpoint"

InvocationInv == TypeOK /\ StepInv /\ PublishInv /\ SessionsPublished

-----------------------------------------------------------------------------
(* The constants of a setup, and the number of eager consumers.            *)
LEMMA SetupTyping ==
    ASSUME setup \in Setups
    PROVE  /\ LeasesTaken \subseteq {"workspace", "session"}
           /\ Len(EagerConsumers) \in Nat
           /\ Eager = 1..Len(EagerConsumers)
           /\ EagerForks \subseteq Eager
           /\ Validated \in BOOLEAN /\ CanFork \in BOOLEAN
BY ConsumersAssumption, SetupsAssumption DEF LeasesTaken, Eager, EagerForks, Validated, CanFork

(* The next eager fork in plan order.                                      *)
LEMMA NextFork ==
    ASSUME setup \in Setups, NEW m \in Nat, \E n \in EagerForks : n > m
    PROVE  \E n \in EagerForks : n > m /\ \A k \in EagerForks : k > m => n <= k
<1> DEFINE T == {n \in EagerForks : n > m}
<1>1. T \subseteq Nat /\ T # {}
  BY SetupTyping
<1>2. IsWellFoundedOn(OpToRel(<, Nat), Nat)
  BY NatLessThanWellFounded
<1>3. PICK x \in T : \A y \in T : ~(<<y, x>> \in OpToRel(<, Nat))
  BY <1>1, <1>2, WFMin
<1>4. \A y \in T : <<y, x>> \in OpToRel(<, Nat) <=> y < x
  BY <1>1 DEF OpToRel
<1>5. \A y \in T : ~(y < x)
  BY <1>3, <1>4, Zenon
<1> QED BY <1>1, <1>5

LEMMA InitInvocationInv == Init => InvocationInv
<1> SUFFICES ASSUME Init PROVE InvocationInv
  OBVIOUS
<1> USE DEF Init
<1>1. TypeOK
  <2>1. setup \in Setups /\ 0 \in 0..Len(EagerConsumers)
    BY SetupTyping
  <2>2. resolved \in [Eager -> {"none", "source", "fork"}]
    OBVIOUS
  <2> QED BY <2>1, <2>2 DEF TypeOK, Steps
<1>2. StepInv
  BY DEF StepInv, AwaitedWork, PendingEffects, ActiveActivities, Waiting
<1>3. PublishInv
  BY DEF PublishInv
<1>4. SessionsPublished
  BY DEF SessionsPublished, PublishedTogether, ArmFindsSource
<1> QED BY <1>1, <1>2, <1>3, <1>4 DEF InvocationInv

-----------------------------------------------------------------------------
(* The callbacks of the executor, and the abort. *)

(* A step that only changes what is in progress: what it adds is awaited   *)
(* by an invocation that still listens, or is late.                        *)
LEMMA WorkKeepsInv ==
    ASSUME InvocationInv, TypeOK',
           UNCHANGED <<setup, leases, answer, publishVars, outcome>>,
           step' = step \/ (step = "asleep" /\ step' = "draining"),
           step = "admission" => UNCHANGED <<effects, activities>>,
           step \in Waiting \/ AwaitedWork' \subseteq AwaitedWork
    PROVE  InvocationInv'
<1> USE DEF InvocationInv, publishVars
<1>1. step' \in Waiting <=> step \in Waiting
  BY DEF Waiting
<1>2. StepInv'
  BY <1>1 DEF StepInv, LeasesTaken, HasSession, Waiting
<1>3. PublishInv'
  BY DEF PublishInv, HasSession, LeasesTaken, EagerForks, Forks
<1>4. SessionsPublished'
  BY DEF SessionsPublished, PublishedTogether, ArmFindsSource, HasSession, LeasesTaken, Forks
<1> QED BY <1>2, <1>3, <1>4

LEMMA CallbackKeepsInv ==
    ASSUME InvocationInv, UNCHANGED setup,
           \/ \E e \in Effects : Track(e) \/ Settle(e) \/ Complete(e)
           \/ \E a \in Activities : StartActivity(a) \/ EndActivity(a)
           \/ ReportUncertain \/ Abort
    PROVE  InvocationInv'
<1> USE DEF InvocationInv, publishVars, workVars, LeasesTaken
<1> DEFINE Kept == /\ UNCHANGED <<leases, answer, publishVars, outcome>>
                   /\ step' = step \/ (step = "asleep" /\ step' = "draining")
                   /\ step = "admission" => UNCHANGED <<effects, activities>>
                   /\ step \in Waiting \/ AwaitedWork' \subseteq AwaitedWork
<1>1. ASSUME NEW e \in Effects, Track(e) PROVE TypeOK' /\ Kept
  <2>1. TypeOK'
    BY <1>1 DEF Track, TypeOK
  <2>2. step # "admission"
    BY <1>1 DEF Track, Called, StepInv
  <2>3. step \in Waiting \/ AwaitedWork' \subseteq AwaitedWork
    BY <1>1 DEF Track, TypeOK, AwaitedWork, PendingEffects, ActiveActivities
  <2> QED BY <1>1, <2>1, <2>2, <2>3 DEF Track
<1>2. ASSUME NEW e \in Effects, Settle(e) \/ Complete(e) PROVE TypeOK' /\ Kept
  <2>1. effects' \in [Effects -> {"new", "running", "settled", "rejected", "ended"}]
    BY <1>2 DEF Settle, Complete, TypeOK
  <2>2. TypeOK'
    <3>1. effectFailed' \in BOOLEAN /\ step' \in Steps
      BY <1>2 DEF Settle, Complete, TypeOK, Notified, Steps
    <3> QED BY <1>2, <2>1, <3>1 DEF Settle, Complete, TypeOK
  <2>3. step # "admission"
    <3>1. effects[e] # "new"
      BY <1>2 DEF Settle, Complete
    <3> QED BY <3>1 DEF StepInv
  <2>4. AwaitedWork' \subseteq AwaitedWork
    <3>1. effects[e] \in {"running", "settled", "rejected"} /\ activities' = activities /\ late' = late
      BY <1>2 DEF Settle, Complete
    <3>2. \A f \in Effects : f # e => effects'[f] = effects[f]
      BY <1>2 DEF Settle, Complete, TypeOK
    <3>3. PendingEffects(effects') \subseteq PendingEffects(effects)
      BY <3>1, <3>2 DEF PendingEffects
    <3> QED BY <3>1, <3>3 DEF AwaitedWork
  <2>5. step' = step \/ (step = "asleep" /\ step' = "draining")
    BY <1>2 DEF Settle, Complete, Notified
  <2> QED BY <1>2, <2>2, <2>3, <2>4, <2>5 DEF Settle, Complete
<1>3. ASSUME NEW a \in Activities, StartActivity(a) PROVE TypeOK' /\ Kept
  <2>1. TypeOK'
    BY <1>3 DEF StartActivity, TypeOK
  <2>2. step # "admission"
    BY <1>3 DEF StartActivity, Called, StepInv
  <2>3. step \in Waiting \/ AwaitedWork' \subseteq AwaitedWork
    BY <1>3 DEF StartActivity, TypeOK, AwaitedWork, PendingEffects, ActiveActivities
  <2> QED BY <1>3, <2>1, <2>2, <2>3 DEF StartActivity
<1>4. ASSUME NEW a \in Activities, EndActivity(a) PROVE TypeOK' /\ Kept
  <2>1. TypeOK'
    BY <1>4 DEF EndActivity, TypeOK, Notified, Steps
  <2>2. step # "admission"
    BY <1>4 DEF EndActivity, StepInv
  <2>3. AwaitedWork' \subseteq AwaitedWork
    BY <1>4 DEF EndActivity, TypeOK, AwaitedWork, PendingEffects, ActiveActivities
  <2>4. step' = step \/ (step = "asleep" /\ step' = "draining")
    BY <1>4 DEF EndActivity, Notified
  <2> QED BY <1>4, <2>1, <2>2, <2>3, <2>4 DEF EndActivity
<1>5. ASSUME ReportUncertain \/ Abort PROVE TypeOK' /\ Kept
  <2>1. TypeOK'
    BY <1>5 DEF ReportUncertain, Abort, TypeOK
  <2>2. AwaitedWork' \subseteq AwaitedWork
    BY <1>5 DEF ReportUncertain, Abort, AwaitedWork, PendingEffects, ActiveActivities
  <2> QED BY <1>5, <2>1, <2>2 DEF ReportUncertain, Abort
<1>6. TypeOK' /\ Kept
  BY <1>1, <1>2, <1>3, <1>4, <1>5
<1> QED BY <1>6, WorkKeepsInv

-----------------------------------------------------------------------------
(* The steps of executeTaskNode itself. *)

(* throwInvocationFailure and the finally block. *)
LEMMA FailureKeepsInv ==
    ASSUME InvocationInv, UNCHANGED <<setup, aborted, workVars, answer, materialized, resolved>>,
           result' \in BOOLEAN,
           deferredSource' \in {"none", "session", "checkpoint", "failure"},
           step # "ended", AwaitedWork = {}, Finally(TRUE)
    PROVE  InvocationInv'
<1> USE DEF InvocationInv, workVars, Finally
<1>1. TypeOK'
  BY DEF TypeOK, Steps, LeasesTaken
<1>2. StepInv'
  BY DEF StepInv, AwaitedWork, Waiting
<1>3. PublishInv' /\ SessionsPublished'
  BY DEF PublishInv, SessionsPublished, PublishedTogether, ArmFindsSource
<1> QED BY <1>1, <1>2, <1>3

(* The return of the output: the consumers get their sessions with it.     *)
LEMMA SuccessKeepsInv ==
    ASSUME InvocationInv, UNCHANGED <<setup, aborted, workVars, answer>>, result' \in BOOLEAN,
           step # "ended", AwaitedWork = {}, Finally(FALSE),
           deferredSource' \in {"none", "session", "checkpoint", "failure"},
           materialized' \in 0..Len(EagerConsumers),
           \/ ResolveAll /\ HasSession
           \/ UNCHANGED resolved /\ (HasSession => Eager = {}),
           HasSession /\ DeferredConsumers # {} =>
               /\ deferredSource' # "none"
               /\ DeferredConsumers \cap Forks # {} => deferredSource' \in {"checkpoint", "failure"}
    PROVE  InvocationInv'
<1> USE DEF InvocationInv, workVars, Finally
<1>1. TypeOK'
  BY DEF TypeOK, Steps, LeasesTaken, ResolveAll
<1>2. StepInv'
  BY DEF StepInv, AwaitedWork, Waiting
<1>3. PublishInv'
  BY DEF PublishInv
<1>4. PublishedTogether'
  BY DEF PublishInv, PublishedTogether, ResolveAll, HasSession, LeasesTaken
<1>5. ArmFindsSource'
  BY DEF ArmFindsSource, HasSession, LeasesTaken, Forks
<1> QED BY <1>1, <1>2, <1>3, <1>4, <1>5 DEF SessionsPublished

(* No checkpoint: an eager fork fails the invocation, a choice arm is told.*)
LEMMA WithoutCheckpointKeepsInv ==
    ASSUME InvocationInv, UNCHANGED <<setup, aborted, workVars, answer>>, result' \in BOOLEAN,
           step # "ended", AwaitedWork = {}, HasSession, WithoutCheckpoint
    PROVE  InvocationInv'
<1> USE DEF WithoutCheckpoint
<1>1. CASE EagerForks # {}
  BY <1>1, FailureKeepsInv DEF InvocationInv, TypeOK
<1>2. CASE EagerForks = {}
  BY <1>2, SuccessKeepsInv DEF InvocationInv, TypeOK
<1> QED BY <1>1, <1>2

LEMMA PublishKeepsInv ==
    ASSUME InvocationInv, UNCHANGED <<setup, aborted, workVars, answer>>,
           step \in {"draining", "validating"}, AwaitedWork = {},
           step = "draining" => ~Validated,
           Publish
    PROVE  InvocationInv'
<1> USE DEF InvocationInv
<1>1. result' = TRUE
  BY DEF Publish
<1>2. CASE ~HasSession \/ (Eager = {} /\ DeferredConsumers = {})
  BY <1>1, <1>2, SuccessKeepsInv DEF Publish, TypeOK
<1>3. CASE /\ ~(~HasSession \/ (Eager = {} /\ DeferredConsumers = {}))
           /\ EagerForks = {} /\ DeferredConsumers \cap Forks = {}
  BY <1>1, <1>3, SuccessKeepsInv DEF Publish, Defer, TypeOK
<1>4. CASE /\ ~(~HasSession \/ (Eager = {} /\ DeferredConsumers = {}))
           /\ ~(EagerForks = {} /\ DeferredConsumers \cap Forks = {})
           /\ ~CanFork
  BY <1>1, <1>4, WithoutCheckpointKeepsInv DEF Publish
<1>5. CASE /\ ~(~HasSession \/ (Eager = {} /\ DeferredConsumers = {}))
           /\ ~(EagerForks = {} /\ DeferredConsumers \cap Forks = {})
           /\ CanFork
  <2>1. /\ step' = "capturing" /\ HasSession
        /\ UNCHANGED <<leases, deferredSource, materialized, resolved, outcome>>
    BY <1>5 DEF Publish
  <2>2. TypeOK'
    BY <1>1, <2>1 DEF TypeOK, Steps, LeasesTaken, workVars
  <2>3. StepInv'
    BY <2>1 DEF StepInv, AwaitedWork, workVars, Waiting, HasSession, LeasesTaken
  <2>4. PublishInv'
    BY <1>5, <2>1 DEF PublishInv, HasSession, LeasesTaken, EagerForks, Forks
  <2>5. SessionsPublished'
    BY <2>1 DEF PublishInv, SessionsPublished, PublishedTogether, ArmFindsSource
  <2> QED BY <2>2, <2>3, <2>4, <2>5
<1> QED BY <1>2, <1>3, <1>4, <1>5

(* The step from admission to the end of the wait.                         *)
LEMMA WorkStepKeepsInv ==
    ASSUME InvocationInv, UNCHANGED setup, Refuse \/ Admit \/ Answer \/ Drain
    PROVE  InvocationInv'
<1> USE DEF InvocationInv
<1>1. CASE Refuse
  <2>1. TypeOK'
    BY <1>1 DEF Refuse, TypeOK, Steps, LeasesTaken, workVars, publishVars
  <2>2. StepInv'
    BY <1>1 DEF Refuse, StepInv, AwaitedWork, Waiting, workVars, publishVars
  <2>3. PublishInv' /\ SessionsPublished'
    BY <1>1 DEF Refuse, PublishInv, SessionsPublished, PublishedTogether, ArmFindsSource, publishVars
  <2> QED BY <2>1, <2>2, <2>3
<1>2. CASE Admit
  <2>1. TypeOK'
    BY <1>2 DEF Admit, TypeOK, Steps, LeasesTaken, workVars, publishVars
  <2>2. StepInv'
    BY <1>2 DEF Admit, StepInv, AwaitedWork, Waiting, workVars, publishVars, LeasesTaken
  <2>3. PublishInv' /\ SessionsPublished'
    BY <1>2 DEF Admit, PublishInv, SessionsPublished, PublishedTogether, ArmFindsSource, publishVars
  <2> QED BY <2>1, <2>2, <2>3
<1>3. CASE Answer
  <2>1. TypeOK'
    BY <1>3 DEF Answer, TypeOK, Steps, LeasesTaken, workVars, publishVars
  <2>2. StepInv'
    BY <1>3 DEF Answer, StepInv, AwaitedWork, Waiting, workVars, publishVars, LeasesTaken
  <2>3. PublishInv' /\ SessionsPublished'
    BY <1>3 DEF Answer, PublishInv, SessionsPublished, PublishedTogether, ArmFindsSource, publishVars
  <2> QED BY <2>1, <2>2, <2>3
<1>4. CASE Drain
  <2>1. UNCHANGED <<aborted, workVars, answer>> /\ step = "draining" /\ ~result
    BY <1>4 DEF Drain, StepInv, Waiting
  <2>2. CASE ~Terminated(effects, activities)
    <3>1. step' = "asleep" /\ UNCHANGED <<leases, publishVars, outcome>>
      BY <1>4, <2>2 DEF Drain
    <3>2. TypeOK'
      BY <2>1, <3>1 DEF TypeOK, Steps, LeasesTaken, workVars, publishVars
    <3>3. StepInv'
      BY <2>1, <3>1 DEF StepInv, AwaitedWork, Waiting, workVars, publishVars, LeasesTaken
    <3>4. PublishInv' /\ SessionsPublished'
      BY <2>1, <3>1 DEF PublishInv, SessionsPublished, PublishedTogether, ArmFindsSource, publishVars
    <3> QED BY <3>2, <3>3, <3>4
  <2>3. CASE Terminated(effects, activities)
    <3>1. AwaitedWork = {}
      BY <2>3 DEF Terminated, AwaitedWork
    <3>2. CASE Finally(TRUE) /\ UNCHANGED publishVars
      BY <2>1, <3>1, <3>2, FailureKeepsInv DEF TypeOK, publishVars
    <3>3. CASE /\ Validated /\ step' = "validating" /\ GiveWorkspaceBack
               /\ UNCHANGED <<publishVars, outcome>>
      <4>1. leases = LeasesTaken /\ leases' = leases \ {"workspace"}
        BY <2>1, <3>3 DEF StepInv, Waiting, GiveWorkspaceBack
      <4>2. TypeOK'
        BY <2>1, <3>3, <4>1 DEF TypeOK, Steps, LeasesTaken, workVars, publishVars
      <4>3. StepInv'
        BY <2>1, <3>1, <3>3, <4>1 DEF StepInv, AwaitedWork, Waiting, workVars, publishVars, LeasesTaken, HasSession
      <4>4. PublishInv' /\ SessionsPublished'
        BY <2>1, <3>3 DEF PublishInv, SessionsPublished, PublishedTogether, ArmFindsSource, publishVars
      <4> QED BY <4>2, <4>3, <4>4
    <3>4. CASE ~Validated /\ Publish
      BY <2>1, <3>1, <3>4, PublishKeepsInv
    <3> QED BY <1>4, <2>3, <3>2, <3>3, <3>4 DEF Drain
  <2> QED BY <2>2, <2>3
<1> QED BY <1>1, <1>2, <1>3, <1>4

(* The evaluators, the capture of the checkpoint and its forks.            *)
LEMMA PublishStepKeepsInv ==
    ASSUME InvocationInv, UNCHANGED setup, Validate \/ Capture \/ Fork
    PROVE  InvocationInv'
<1> USE DEF InvocationInv
<1>1. AwaitedWork = {} /\ (HasSession => "session" \in leases)
  BY DEF Validate, Capture, Fork, StepInv
<1>2. CASE Validate
  <2>1. UNCHANGED <<aborted, workVars, answer>> /\ step = "validating"
    BY <1>2 DEF Validate
  <2>2. CASE Finally(TRUE) /\ UNCHANGED publishVars
    BY <1>1, <2>1, <2>2, FailureKeepsInv DEF TypeOK, publishVars
  <2>3. CASE Publish
    BY <1>1, <2>1, <2>3, PublishKeepsInv
  <2> QED BY <1>2, <2>2, <2>3 DEF Validate
<1>3. CASE Capture
  <2>1. /\ UNCHANGED <<aborted, workVars, answer, result>> /\ step = "capturing"
        /\ HasSession /\ result' \in BOOLEAN
    BY <1>3 DEF Capture, PublishInv, TypeOK
  <2>2. CASE WithoutCheckpoint
    BY <1>1, <2>1, <2>2, WithoutCheckpointKeepsInv
  <2>3. CASE /\ Defer("checkpoint") /\ UNCHANGED materialized
             /\ EagerForks = {} /\ ResolveAll /\ Finally(FALSE)
    BY <1>1, <2>1, <2>3, SuccessKeepsInv DEF Defer, TypeOK
  <2>4. CASE /\ Defer("checkpoint") /\ UNCHANGED materialized
             /\ EagerForks # {} /\ step' = "forking" /\ UNCHANGED <<leases, resolved, outcome>>
    <3>1. TypeOK'
      BY <2>1, <2>4 DEF TypeOK, Steps, LeasesTaken, workVars, Defer
    <3>2. StepInv'
      BY <1>1, <2>1, <2>4 DEF StepInv, AwaitedWork, Waiting, workVars, HasSession, LeasesTaken
    <3>3. PublishInv'
      <4>1. \E n \in EagerForks : n > materialized
        BY <2>1, <2>4, SetupTyping DEF PublishInv, TypeOK
      <4> QED BY <2>1, <2>4, <4>1 DEF PublishInv, HasSession, LeasesTaken, EagerForks, Forks, Defer
    <3>4. SessionsPublished'
      BY <2>1, <2>4 DEF PublishInv, SessionsPublished, PublishedTogether, ArmFindsSource
    <3> QED BY <3>1, <3>2, <3>3, <3>4
  <2> QED BY <1>3, <2>2, <2>3, <2>4 DEF Capture
<1>4. CASE Fork
  <2> DEFINE next == CHOOSE n \in EagerForks :
                        n > materialized /\ \A m \in EagerForks : m > materialized => n <= m
  <2>1. /\ UNCHANGED <<aborted, workVars, answer, result, deferredSource>> /\ step = "forking"
        /\ HasSession /\ result' \in BOOLEAN
        /\ DeferredConsumers # {} => deferredSource = "checkpoint"
    BY <1>4 DEF Fork, PublishInv, TypeOK
  <2>2. CASE Finally(TRUE) /\ UNCHANGED <<materialized, resolved>>
    BY <1>1, <2>1, <2>2, FailureKeepsInv DEF TypeOK
  <2>3. CASE /\ materialized' = next /\ UNCHANGED <<step, leases, resolved, outcome>>
             /\ \E n \in EagerForks : n > next
    <3>1. next \in EagerForks
      BY <2>1, NextFork DEF PublishInv, TypeOK
    <3>2. next \in 0..Len(EagerConsumers)
      BY <3>1, SetupTyping DEF TypeOK
    <3>3. TypeOK'
      BY <2>1, <2>3, <3>2 DEF TypeOK, Steps, LeasesTaken, workVars
    <3>4. StepInv' /\ SessionsPublished'
      BY <2>1, <2>3 DEF StepInv, SessionsPublished, PublishedTogether, ArmFindsSource,
          AwaitedWork, workVars, HasSession, LeasesTaken, Forks, Waiting
    <3>5. PublishInv'
      BY <2>1, <2>3 DEF PublishInv, HasSession, LeasesTaken, EagerForks, Forks
    <3> QED BY <3>3, <3>4, <3>5
  <2>4. CASE materialized' = Len(EagerConsumers) /\ ResolveAll /\ Finally(FALSE)
    <3>1. materialized' \in 0..Len(EagerConsumers)
      BY <2>4, SetupTyping DEF TypeOK
    <3> QED BY <1>1, <2>1, <2>4, <3>1, SuccessKeepsInv DEF TypeOK
  <2> QED BY <1>4, <2>2, <2>3, <2>4 DEF Fork
<1> QED BY <1>2, <1>3, <1>4

-----------------------------------------------------------------------------
(* The theorems. *)

LEMMA NextKeepsInv == InvocationInv /\ [Next]_vars => InvocationInv'
<1>1. ASSUME InvocationInv, Next PROVE InvocationInv'
  BY <1>1, CallbackKeepsInv, WorkStepKeepsInv, PublishStepKeepsInv DEF Next, Invoke
<1>2. ASSUME InvocationInv, UNCHANGED vars PROVE InvocationInv'
  BY <1>2 DEF vars, InvocationInv, TypeOK, StepInv, PublishInv, SessionsPublished, PublishedTogether,
      ArmFindsSource, AwaitedWork, HasSession, LeasesTaken, EagerForks, Forks
<1> QED BY <1>1, <1>2

(* The inductive invariant of an invocation. *)
THEOREM InvocationInvariant == Spec => []InvocationInv
BY InitInvocationInv, NextKeepsInv, PTL DEF Spec

(* The variables keep their types.                                         *)
THEOREM InvocationTypeCorrect == Spec => []TypeOK
<1>1. InvocationInv => TypeOK
  BY DEF InvocationInv
<1> QED BY <1>1, InvocationInvariant, PTL

(* No lease of an invocation is given back while work it waits for goes    *)
(* on, and the session not before its forks exist.                         *)
THEOREM LeasesCover == Spec => []LeasesCoverWork
<1>1. InvocationInv => LeasesCoverWork
  <2> SUFFICES ASSUME InvocationInv PROVE LeasesCoverWork
    OBVIOUS
  <2>1. step \in Steps
    BY DEF InvocationInv, TypeOK
  <2>2. AwaitedWork # {} => leases = LeasesTaken
    BY <2>1 DEF InvocationInv, StepInv, Steps, Waiting
  <2> QED BY <2>2 DEF InvocationInv, StepInv, LeasesCoverWork, AwaitedWork
<1> QED BY <1>1, InvocationInvariant, PTL

(* Consumers of the session find it all together, or nothing.              *)
THEOREM PublishedOrNot == Spec => []SessionsPublished
<1>1. InvocationInv => SessionsPublished
  BY DEF InvocationInv
<1> QED BY <1>1, InvocationInvariant, PTL

(* An invocation that stops listening after a failure does not succeed.    *)
THEOREM FailureKept == Spec => FailureIsNotLost
<1> DEFINE Kept == (answer = "failure" \/ effectFailed \/ unconfirmed) /\ step \in Waiting /\ step' \notin Waiting
                      => outcome' \in {"failed", "cancelled"} /\ ~result'
<1>1. InvocationInv /\ [Next]_vars => [Kept]_vars
  <2> SUFFICES ASSUME InvocationInv, Next, answer = "failure" \/ effectFailed \/ unconfirmed,
                      step \in Waiting, step' \notin Waiting
               PROVE  outcome' \in {"failed", "cancelled"} /\ ~result'
    OBVIOUS
  <2>1. Drain
    BY DEF Next, Invoke, Waiting, Refuse, Admit, Answer, ReportUncertain, Abort, Validate, Capture, Fork,
        Track, Settle, Complete, StartActivity, EndActivity, Notified
  <2>2. Finally(TRUE) /\ UNCHANGED publishVars
    BY <2>1 DEF Drain, WorkFailed, Waiting
  <2> QED BY <2>2 DEF Finally, publishVars, InvocationInv, StepInv
<1> QED BY <1>1, InvocationInvariant, PTL DEF Spec, FailureIsNotLost
-----------------------------------------------------------------------------
(* What execute awaits. *)

(* The steps of a call are the invocation's, or leave it alone.            *)
LEMMA ExecStepInvokes == ExecNext => [Next]_vars
<1>1. InvokeAround => [Next]_vars
  BY DEF InvokeAround, CallNext, InvokeBeside
<1>2. Exec \/ GroupEnds \/ CommandSettles \/ BarrierSteps \/ TerminationSettles \/ WaitSettles
         => UNCHANGED vars
  BY DEF Exec, GroupEnds, CommandSettles, BarrierSteps, TerminationSettles, WaitSettles, callVars
<1>3. Destroyed => [Next]_vars
  BY DEF Destroyed, callVars, Next, Invoke
<1> QED BY <1>1, <1>2, <1>3 DEF ExecNext, ExecSteps

(* An invocation that awaits a classification or a process is an           *)
(* invocation: what is proved of every one holds of it.                    *)
THEOREM AwaitingInvocation == ExecSpec => Spec
<1>1. ExecInit => Init
  BY DEF ExecInit, CallInit
<1>2. [ExecNext]_execVars => [Next]_vars
  BY ExecStepInvokes DEF execVars, callVars
<1> QED BY <1>1, <1>2, PTL DEF ExecSpec, Spec

-----------------------------------------------------------------------------
(* The attempts of a classification. *)

Pending == {"fetching", "dropping", "reading"}
States == {"failed", "cancelled", "succeeded"}

(* What a call is made of.                                                 *)
CallTyped ==
    call \in [step : {"off", "idle", "waiting", "over"} \cup Pending,
              sent : Nat, sentAt : Nat, now : Nat, timedOut : BOOLEAN, until : Nat, asked : Nat,
              observed : Seq(States), result : {"none", "failed", "cancelled", "deadline", "result"}]

(* Where the clock stands, and what the backoff in progress waits for.     *)
CallTimed ==
    /\ call.sentAt <= call.now
    /\ call.step \in {"off", "idle"} => call.sent = 0
    /\ call.step \in Pending => call.sent > 0
    /\ call.step \in Pending \cup {"idle", "waiting"} => call.result = "none"
    /\ call.step = "waiting" =>
          /\ call.sent > 0 /\ call.sent < MaxAttempts
          /\ call.observed[call.sent] = "failed"
          /\ Earliest[call.sent + 1] <= call.until

CallInv == CallTyped /\ CallTimed /\ AttemptsObserved

-----------------------------------------------------------------------------
(* The process. *)

(* What a process is made of.                                              *)
ExecTyped ==
    exec \in [step : {"off", "idle", "running", "terminating", "waiting", "destroying", "over"},
              group : {"none", "alive", "gone"},
              barrier : {"none", "listing", "polling", "killed", "done", "rejected"},
              end : {"none", "output", "failure", "cancelled", "timeout", "unconfirmed"}]

(* execute waits for the process; the barrier has settled before the       *)
(* sandbox is destroyed; and a group that was given up is reported, before *)
(* execute answers, to an invocation that then keeps its leases.           *)
ExecFits ==
    /\ exec.step \in {"off", "idle"} => exec.group = "none" /\ exec.barrier = "none"
    /\ exec.step \in {"running", "terminating", "waiting", "destroying"} => step = "executing"
    /\ exec.step \in {"destroying", "over"} => exec.barrier \in {"none", "done", "rejected"}
    /\ exec.barrier = "done" => exec.group # "alive"
    /\ exec.step = "destroying" /\ exec.barrier = "rejected" => exec.end = "unconfirmed"
    /\ exec.step = "over" => step # "admission"
    /\ exec.step = "over" /\ exec.barrier = "rejected" => unconfirmed /\ leases = LeasesTaken

AwaitedInv == InvocationInv /\ CallInv /\ ExecTyped /\ ExecFits

-----------------------------------------------------------------------------
(* A table of the earliest times of the first attempts. *)
IsTable(f, k) ==
    /\ f \in [1..k -> Nat]
    /\ \A n \in 1..k : f[n] = IF n = 1 THEN 0 ELSE f[n - 1] + Backoff[n - 1]

(* There is a table for every number of attempts: there is no least number *)
(* without one.                                                            *)
LEMMA TableExists ==
    ASSUME NEW k \in 0..MaxAttempts
    PROVE  \E f : IsTable(f, k)
<1> DEFINE Without == {m \in 0..MaxAttempts : ~ \E f : IsTable(f, m)}
<1> SUFFICES ASSUME Without # {} PROVE FALSE
  OBVIOUS
<1>1. Len(Backoff) \in Nat /\ \A m \in 1..Len(Backoff) : Backoff[m] \in Nat
  BY BackoffAssumption
<1>2. Without \subseteq Nat
  BY <1>1 DEF MaxAttempts
<1>3. IsWellFoundedOn(OpToRel(<, Nat), Nat)
  BY NatLessThanWellFounded
<1>4. PICK m \in Without : \A l \in Without : ~(<<l, m>> \in OpToRel(<, Nat))
  BY <1>2, <1>3, WFMin
<1>5. \A l \in Without : ~(l < m)
  <2>1. \A l \in Without : <<l, m>> \in OpToRel(<, Nat) <=> l < m
    BY <1>2 DEF OpToRel
  <2> QED BY <1>4, <2>1, Zenon
<1>6. m # 0
  <2>1. IsTable([n \in 1..0 |-> 0], 0)
    BY DEF IsTable
  <2> QED BY <2>1
<1>7. m \in Nat /\ m - 1 \in 0..MaxAttempts /\ m \in 0..MaxAttempts
  BY <1>1, <1>2, <1>6 DEF MaxAttempts
<1>8. m - 1 \notin Without
  BY <1>5, <1>7
<1>9. PICK f : IsTable(f, m - 1)
  BY <1>7, <1>8
<1> DEFINE g == [n \in 1..m |-> IF n = 1 THEN 0 ELSE f[n - 1] + Backoff[n - 1]]
<1>10. \A n \in 1..m : n # 1 => n - 1 \in 1..(m - 1) /\ n - 1 \in 1..Len(Backoff)
  BY <1>1, <1>7 DEF MaxAttempts
<1>11. \A n \in 1..m : g[n] \in Nat
  <2> SUFFICES ASSUME NEW n \in 1..m, n # 1 PROVE f[n - 1] + Backoff[n - 1] \in Nat
    OBVIOUS
  <2>1. n - 1 \in 1..(m - 1) /\ n - 1 \in 1..Len(Backoff)
    BY <1>10
  <2>2. f[n - 1] \in Nat
    BY <1>9, <2>1 DEF IsTable
  <2>3. Backoff[n - 1] \in Nat
    BY <1>1, <2>1
  <2> QED BY <2>2, <2>3
<1>12. \A n \in 1..(m - 1) : g[n] = f[n]
  BY <1>7, <1>9 DEF IsTable
<1>13. \A n \in 1..m : g[n] = IF n = 1 THEN 0 ELSE g[n - 1] + Backoff[n - 1]
  BY <1>10, <1>12
<1>14. IsTable(g, m)
  BY <1>11, <1>13 DEF IsTable
<1> QED BY <1>14

(* When an attempt may be made is what the backoffs before it add up to.   *)
LEMMA EarliestFacts ==
    /\ \A n \in 1..MaxAttempts : Earliest[n] \in Nat
    /\ Earliest[1] = 0
    /\ \A n \in 1..Len(Backoff) : Earliest[n + 1] = Earliest[n] + Backoff[n]
<1> DEFINE IsEarliest(f) == f = [n \in 1..MaxAttempts |-> IF n = 1 THEN 0 ELSE f[n - 1] + Backoff[n - 1]]
<1>1. Len(Backoff) \in Nat /\ MaxAttempts \in 0..MaxAttempts
  BY BackoffAssumption DEF MaxAttempts
<1>2. PICK f : IsTable(f, MaxAttempts)
  BY <1>1, TableExists
<1>3. IsEarliest(f)
  BY <1>2 DEF IsTable
<1>4. Earliest = CHOOSE g : IsEarliest(g)
  BY DEF Earliest
<1> HIDE DEF IsEarliest
<1>5. IsEarliest(Earliest)
  BY <1>3, <1>4, Zenon
<1>6. Earliest = [n \in 1..MaxAttempts |-> IF n = 1 THEN 0 ELSE Earliest[n - 1] + Backoff[n - 1]]
  BY <1>5 DEF IsEarliest
<1>7. Earliest[1] = 0
  BY <1>1, <1>6 DEF MaxAttempts
<1>8. \A n \in 1..Len(Backoff) : Earliest[n + 1] = Earliest[n] + Backoff[n]
  BY <1>1, <1>6 DEF MaxAttempts
(* It is a number: no attempt is the first for which it is not.            *)
<1>9. \A n \in 1..MaxAttempts : Earliest[n] \in Nat
  <2> DEFINE Odd == {n \in 1..MaxAttempts : Earliest[n] \notin Nat}
  <2> SUFFICES ASSUME Odd # {} PROVE FALSE
    OBVIOUS
  <2>1. Odd \subseteq Nat
    OBVIOUS
  <2>2. IsWellFoundedOn(OpToRel(<, Nat), Nat)
    BY NatLessThanWellFounded
  <2>3. PICK m \in Odd : \A l \in Odd : ~(<<l, m>> \in OpToRel(<, Nat))
    BY <2>1, <2>2, WFMin
  <2>4. \A l \in Odd : ~(l < m)
    <3>1. \A l \in Odd : <<l, m>> \in OpToRel(<, Nat) <=> l < m
      BY <2>1 DEF OpToRel
    <3> QED BY <2>3, <3>1, Zenon
  <2>5. m # 1 /\ m - 1 \in 1..Len(Backoff) /\ m - 1 \in 1..MaxAttempts /\ m - 1 < m
    BY <1>1, <1>7 DEF MaxAttempts
  <2>6. Earliest[m - 1] \in Nat
    BY <2>4, <2>5
  <2>7. Earliest[m] = Earliest[m - 1] + Backoff[m - 1]
    BY <1>6, <2>5
  <2>8. Backoff[m - 1] \in Nat
    BY <2>5, BackoffAssumption
  <2> QED BY <2>6, <2>7, <2>8
<1> QED BY <1>7, <1>8, <1>9

(* The lengths and the delays of the backoff.                              *)
LEMMA BackoffFacts ==
    /\ MaxAttempts \in Nat /\ MaxAttempts > 0
    /\ Budget \in Nat
    /\ \A n \in Nat : n > 0 /\ n < MaxAttempts => n \in 1..Len(Backoff) /\ Backoff[n] \in Nat
    /\ RetryAfters \subseteq Nat /\ NotRetryable \in Nat
BY BackoffAssumption DEF MaxAttempts, NotRetryable

-----------------------------------------------------------------------------
(* An observation more. *)
LEMMA ObservationAdded ==
    ASSUME NEW s \in Seq(States), NEW x \in States
    PROVE  /\ s \o <<x>> \in Seq(States) /\ Len(s \o <<x>>) = Len(s) + 1
           /\ \A i \in 1..Len(s) : (s \o <<x>>)[i] = s[i]
           /\ (s \o <<x>>)[Len(s) + 1] = x
           /\ s \o <<>> = s
           /\ Len(s) \in Nat /\ DOMAIN s = 1..Len(s)
           /\ DOMAIN (s \o <<x>>) = 1..(Len(s) + 1)
OBVIOUS

(* An attempt is observed, and the call ends with it.                      *)
LEMMA EndsObserved ==
    ASSUME CallInv, call.step \in Pending, NEW state \in States,
           NEW end \in {"failed", "cancelled", "deadline", "result"},
           end = "result" => state = "succeeded",
           Over(end, <<state>>)
    PROVE  CallInv'
<1> USE DEF CallInv, CallTyped
<1> DEFINE o == call.observed
           p == o \o <<state>>
<1>1. call' = [call EXCEPT !.step = "over", !.result = end, !.observed = p]
  BY DEF Over
<1>2. o \in Seq(States) /\ call.sent \in Nat /\ call.sent > 0 /\ Len(o) = call.sent - 1
  BY DEF CallTimed, AttemptsObserved, OneObservationEach, Pending
<1>3. /\ p \in Seq(States) /\ Len(p) = call.sent /\ DOMAIN p = 1..call.sent /\ p[call.sent] = state
      /\ \A i \in 1..Len(o) : p[i] = o[i]
      /\ DOMAIN o = 1..Len(o)
  BY <1>2, ObservationAdded
<1> HIDE DEF p, o
<1>4. CallTyped'
  BY <1>1, <1>3
<1>5. CallTimed'
  BY <1>1 DEF CallTimed, Pending
<1>6. \A i \in DOMAIN p : i < call.sent => p[i] = "failed"
  <2>1. \A i \in DOMAIN o : o[i] = "failed"
    BY <1>2, <1>3 DEF o, AttemptsObserved, OneObservationEach
  <2> QED BY <1>2, <1>3, <2>1
<1>7. /\ call'.step = "over" /\ call'.sent = call.sent /\ call'.sentAt = call.sentAt
      /\ call'.observed = p /\ call'.result = end
  BY <1>1
<1>8. OneObservationEach'
  BY <1>2, <1>3, <1>6, <1>7 DEF OneObservationEach
<1>9. ResultObserved'
  BY <1>3, <1>7 DEF ResultObserved
<1>10. RequestsSpaced'
  BY <1>7 DEF AttemptsObserved, RequestsSpaced
<1> QED BY <1>4, <1>5, <1>8, <1>9, <1>10 DEF AttemptsObserved

(* The call ends while no request is under way.                            *)
LEMMA EndsUnobserved ==
    ASSUME CallInv, call.step \in {"idle", "waiting"},
           NEW end \in {"failed", "cancelled", "deadline"},
           Over(end, <<>>)
    PROVE  CallInv'
<1> USE DEF CallInv, CallTyped
<1>1. call.observed \o <<>> = call.observed
  BY ObservationAdded
<1>2. call' = [call EXCEPT !.step = "over", !.result = end, !.observed = call.observed]
  BY <1>1 DEF Over
<1>3. CallTyped' /\ CallTimed'
  BY <1>2 DEF CallTimed, Pending
<1>4. /\ call'.step = "over" /\ call'.sent = call.sent /\ call'.sentAt = call.sentAt
      /\ call'.observed = call.observed /\ call'.result = end
  BY <1>2
<1>5. OneObservationEach' /\ ResultObserved' /\ RequestsSpaced'
  BY <1>4 DEF AttemptsObserved, OneObservationEach, ResultObserved, RequestsSpaced
<1> QED BY <1>3, <1>5 DEF AttemptsObserved

(* A request is sent: the first, or the next after its backoff.            *)
LEMMA Requests ==
    ASSUME CallInv, call.step \in {"idle", "waiting"},
           call.step = "waiting" => call.now >= call.until,
           Verdict(call.now) = "active", Request
    PROVE  CallInv'
<1> USE DEF CallInv, CallTyped
<1>1. call.now < Budget
  BY BackoffFacts DEF Verdict
<1>2. call.sent \in Nat /\ call.sent < MaxAttempts
  BY BackoffFacts DEF CallTimed
<1>3. call' = [call EXCEPT !.step = "fetching", !.sent = call.sent + 1, !.sentAt = call.now]
  BY DEF Request
<1>4. CallTyped'
  <2>1. call.sent + 1 \in Nat /\ call.now \in Nat
    BY <1>2
  <2> DEFINE k == call.sent + 1
             t == call.now
  <2>2. k \in Nat /\ t \in Nat
    BY <2>1
  <2>3. call' = [call EXCEPT !.step = "fetching", !.sent = k, !.sentAt = t]
    BY <1>3
  <2> HIDE DEF k, t
  <2> QED BY <2>2, <2>3 DEF Pending
<1>5. call.result = "none"
  BY DEF CallTimed
<1>6. /\ call'.step = "fetching" /\ call'.sent = call.sent + 1 /\ call'.sentAt = call.now
      /\ call'.observed = call.observed /\ call'.result = "none" /\ call'.now = call.now
  BY <1>3, <1>5
<1>6a. CallTimed'
  BY <1>2, <1>6 DEF CallTimed, Pending
<1>7. Len(call.observed) = call.sent /\ DOMAIN call.observed = 1..call.sent
  BY ObservationAdded DEF AttemptsObserved, OneObservationEach
<1>8. \A i \in DOMAIN call.observed : call.observed[i] = "failed"
  <2> SUFFICES ASSUME NEW i \in 1..call.sent PROVE call.observed[i] = "failed"
    BY <1>7
  <2>1. CASE i < call.sent
    BY <1>7, <2>1 DEF AttemptsObserved, OneObservationEach
  <2>2. CASE i = call.sent
    BY <2>2 DEF CallTimed
  <2> QED BY <1>2, <2>1, <2>2
<1>9. OneObservationEach'
  <2>1. Len(call'.observed) = call'.sent - 1
    BY <1>2, <1>6, <1>7
  <2>2. \A i \in DOMAIN call'.observed : call'.observed[i] = "failed"
    BY <1>6, <1>8
  <2> QED BY <1>6, <2>1, <2>2 DEF OneObservationEach
<1>10. ResultObserved'
  BY <1>6 DEF ResultObserved
<1>11. Earliest[call.sent + 1] <= call.now
  <2>1. CASE call.step = "idle"
    BY <2>1, EarliestFacts DEF CallTimed
  <2>2. CASE call.step = "waiting"
    <3>1. call.sent + 1 \in 1..MaxAttempts
      BY <1>2, BackoffFacts
    <3>2. Earliest[call.sent + 1] \in Nat
      BY <3>1, EarliestFacts
    <3> QED BY <2>2, <3>2 DEF CallTimed
  <2> QED BY <2>1, <2>2
<1>12. RequestsSpaced'
  BY <1>1, <1>2, <1>6, <1>11, BackoffFacts DEF RequestsSpaced
<1> QED BY <1>4, <1>6a, <1>9, <1>10, <1>12 DEF AttemptsObserved

(* A failed attempt is observed and its backoff begins.                    *)
LEMMA BackoffBegins ==
    ASSUME CallInv, call.step \in Pending, call.sent < MaxAttempts,
           NEW delay \in Nat, delay >= Backoff[call.sent],
           call' = [call EXCEPT !.step = "waiting", !.observed = @ \o <<"failed">>,
                                !.until = call.now + delay]
    PROVE  CallInv'
<1> USE DEF CallInv, CallTyped
<1> DEFINE o == call.observed
           p == o \o <<"failed">>
           u == call.now + delay
<1>1. call' = [call EXCEPT !.step = "waiting", !.observed = p, !.until = u]
  OBVIOUS
<1>2. o \in Seq(States) /\ call.sent \in Nat /\ call.sent > 0 /\ Len(o) = call.sent - 1
  BY DEF CallTimed, AttemptsObserved, OneObservationEach, Pending
<1>3. /\ p \in Seq(States) /\ Len(p) = call.sent /\ DOMAIN p = 1..call.sent /\ p[call.sent] = "failed"
      /\ \A i \in 1..Len(o) : p[i] = o[i]
      /\ DOMAIN o = 1..Len(o)
  BY <1>2, ObservationAdded DEF States
<1>4. u \in Nat
  OBVIOUS
<1>5. Earliest[call.sent + 1] <= u
  <2>1. call.sent \in 1..Len(Backoff) /\ Backoff[call.sent] \in Nat /\ call.sent \in 1..MaxAttempts
    BY <1>2, BackoffFacts
  <2>2. Earliest[call.sent + 1] = Earliest[call.sent] + Backoff[call.sent] /\ Earliest[call.sent] \in Nat
    BY <2>1, EarliestFacts
  <2>3. Earliest[call.sent] <= call.sentAt /\ call.sentAt <= call.now
    BY <1>2 DEF AttemptsObserved, RequestsSpaced, CallTimed
  <2> QED BY <2>1, <2>2, <2>3
<1> HIDE DEF p, o, u
<1>6. CallTyped'
  BY <1>1, <1>3, <1>4
<1>7. /\ call'.step = "waiting" /\ call'.sent = call.sent /\ call'.sentAt = call.sentAt
      /\ call'.observed = p /\ call'.result = call.result /\ call'.until = u /\ call'.now = call.now
  BY <1>1
<1>8. CallTimed'
  BY <1>2, <1>3, <1>5, <1>7 DEF CallTimed, Pending
<1>9. \A i \in DOMAIN p : i < call.sent => p[i] = "failed"
  <2>1. \A i \in DOMAIN o : o[i] = "failed"
    BY <1>2, <1>3 DEF o, AttemptsObserved, OneObservationEach
  <2> QED BY <1>2, <1>3, <2>1
<1>10. OneObservationEach'
  BY <1>2, <1>3, <1>7, <1>9 DEF OneObservationEach
<1>11. ResultObserved' /\ RequestsSpaced'
  BY <1>7 DEF AttemptsObserved, ResultObserved, RequestsSpaced, CallTimed, Pending
<1> QED BY <1>6, <1>8, <1>10, <1>11 DEF AttemptsObserved

(* An attempt that comes to nothing.                                       *)
LEMMA FailuresKeepInv ==
    ASSUME CallInv, call.step \in Pending, NEW asked \in Nat, AttemptFails(asked)
    PROVE  CallInv'
<1> DEFINE state == IF aborted THEN "cancelled" ELSE "failed"
           delay == RetryDelay(call.sent, asked)
<1>1. call.sent \in Nat /\ call.sent > 0 /\ call.now \in Nat
  BY DEF CallInv, CallTyped, CallTimed
<1>2. Verdict(call.now) \in {"active", "cancelled", "deadline"}
  BY DEF Verdict
<1>3. state \in States
  BY DEF States
<1>4. CASE Over("failed", Observe(state, TRUE)) \/ Over("failed", Observe(state, FALSE))
  BY <1>3, <1>4, EndsObserved DEF Observe
<1>5. CASE Verdict(call.now) # "active" /\ Over(Verdict(call.now), Observe(state, FALSE))
  BY <1>2, <1>3, <1>5, EndsObserved DEF Observe
<1>6. CASE /\ Verdict(call.now) = "active" /\ call.sent < MaxAttempts
           /\ call' = [call EXCEPT !.step = "waiting", !.observed = @ \o Observe(state, FALSE),
                                   !.until = call.now + delay]
  <2>1. Backoff[call.sent] \in Nat
    BY <1>1, <1>6, BackoffFacts
  <2>2. delay \in Nat /\ delay >= Backoff[call.sent]
    BY <2>1 DEF RetryDelay
  <2>3. Observe(state, FALSE) = <<"failed">>
    BY <1>6 DEF Verdict, Observe
  <2> HIDE DEF delay
  <2> QED BY <1>6, <2>2, <2>3, BackoffBegins
<1> QED BY <1>4, <1>5, <1>6 DEF AttemptFails

(* The call goes on with nothing sent or observed.                         *)
LEMMA CallGoesOn ==
    ASSUME CallInv, CallTyped', call.step \in Pending \cup {"waiting"},
           \/ call'.step = call.step
           \/ call.step \in Pending /\ call'.step \in Pending,
           call'.now >= call.now, call'.sent = call.sent, call'.sentAt = call.sentAt,
           call'.until = call.until, call'.observed = call.observed, call'.result = call.result
    PROVE  CallInv'
<1>1. CallTimed'
  BY DEF CallInv, CallTimed, CallTyped, Pending
<1>2. AttemptsObserved'
  BY DEF CallInv, AttemptsObserved, OneObservationEach, ResultObserved, RequestsSpaced, Pending
<1> QED BY <1>1, <1>2 DEF CallInv

(* What the call does by itself.                                           *)
LEMMA CallKeepsInv ==
    ASSUME CallInv, Classify \/ Settles \/ Elapse \/ TimerFires
    PROVE  CallInv'
<1>1. /\ call \in [step : {"off", "idle", "waiting", "over"} \cup Pending,
                   sent : Nat, sentAt : Nat, now : Nat, timedOut : BOOLEAN, until : Nat, asked : Nat,
                   observed : Seq(States), result : {"none", "failed", "cancelled", "deadline", "result"}]
  BY DEF CallInv, CallTyped
<1>2. \A t : Verdict(t) \in {"active", "cancelled", "deadline"}
  BY DEF Verdict
<1>3. NotRetryable \in Nat /\ RetryAfters \subseteq Nat /\ 0 \in Nat
  BY BackoffFacts
<1>4. CASE Classify
  <2>1. call.step = "idle"
    BY <1>4 DEF Classify
  <2>2. CASE Over("cancelled", <<>>) \/ Over("failed", <<>>)
    BY <2>1, <2>2, EndsUnobserved
  <2>3. CASE Attempt
    <3>1. CASE Verdict(call.now) # "active"
      BY <1>2, <2>1, <2>3, <3>1, EndsUnobserved DEF Attempt
    <3>2. CASE Verdict(call.now) = "active"
      BY <2>1, <2>3, <3>2, Requests DEF Attempt
    <3> QED BY <3>1, <3>2
  <2> QED BY <1>4, <2>2, <2>3 DEF Classify, NotPrepared
<1>5. CASE FetchSettles
  <2>1. call.step \in Pending
    BY <1>5 DEF FetchSettles, Pending
  <2>2. CASE AttemptFails(0)
    BY <1>3, <2>1, <2>2, FailuresKeepInv
  <2>3. CASE call' = [call EXCEPT !.step = "reading"]
    <3>1. /\ CallTyped' /\ call'.step \in Pending /\ call'.now = call.now /\ call.now \in Nat
          /\ call'.sent = call.sent /\ call'.sentAt = call.sentAt /\ call'.until = call.until
          /\ call'.observed = call.observed /\ call'.result = call.result
      BY <1>1, <2>3 DEF CallTyped, Pending
    <3> QED BY <2>1, <3>1, CallGoesOn
  <2>4. ASSUME NEW asked \in RetryAfters \cup {NotRetryable},
               call' = [call EXCEPT !.step = "dropping", !.asked = asked]
        PROVE  CallInv'
    <3>1. /\ CallTyped' /\ call'.step \in Pending /\ call'.now = call.now /\ call.now \in Nat
          /\ call'.sent = call.sent /\ call'.sentAt = call.sentAt /\ call'.until = call.until
          /\ call'.observed = call.observed /\ call'.result = call.result
      BY <1>1, <1>3, <2>4 DEF CallTyped, Pending
    <3> QED BY <2>1, <3>1, CallGoesOn
  <2> QED BY <1>5, <2>2, <2>3, <2>4 DEF FetchSettles
<1>6. CASE BodyDropped
  BY <1>1, <1>6, FailuresKeepInv DEF BodyDropped, Pending
<1>7. CASE ReadSettles
  <2>1. call.step \in Pending
    BY <1>7 DEF ReadSettles, Pending
  <2>2. CASE AttemptFails(0) \/ AttemptFails(NotRetryable)
    BY <1>3, <2>1, <2>2, FailuresKeepInv
  <2>3. CASE Over("failed", <<"succeeded">>)
    BY <2>1, <2>3, EndsObserved DEF States
  <2>4. ASSUME NEW later, Over(IF Verdict(later) = "active" THEN "result" ELSE Verdict(later), <<"succeeded">>)
        PROVE  CallInv'
    <3> DEFINE end == IF Verdict(later) = "active" THEN "result" ELSE Verdict(later)
    <3>1. end \in {"failed", "cancelled", "deadline", "result"}
      BY <1>2
    <3>2. Over(end, <<"succeeded">>) /\ "succeeded" \in States
      BY <2>4 DEF States
    <3> HIDE DEF end
    <3> QED BY <2>1, <3>1, <3>2, EndsObserved
  <2> QED BY <1>7, <2>2, <2>3, <2>4 DEF ReadSettles, BodyFails, Observe
<1>8. CASE WaitEnds
  <2>1. call.step = "waiting"
    BY <1>8 DEF WaitEnds
  <2>2. CASE SignalAborted /\ Over(Verdict(call.now), <<>>)
    <3>1. Verdict(call.now) \in {"failed", "cancelled", "deadline"}
      BY <2>2 DEF SignalAborted, Verdict
    <3> QED BY <2>1, <2>2, <3>1, EndsUnobserved
  <2>3. CASE call.now >= call.until /\ Attempt
    <3>1. CASE Verdict(call.now) # "active"
      BY <1>2, <2>1, <2>3, <3>1, EndsUnobserved DEF Attempt
    <3>2. CASE Verdict(call.now) = "active"
      BY <2>1, <2>3, <3>2, Requests DEF Attempt
    <3> QED BY <3>1, <3>2
  <2> QED BY <1>8, <2>2, <2>3 DEF WaitEnds
<1>9. CASE Elapse \/ TimerFires
  <2>1. call.step \in Pending \cup {"waiting"}
    BY <1>9 DEF Elapse, TimerFires, UnderWay, Pending
  <2>2. /\ CallTyped' /\ call'.step = call.step /\ call'.now >= call.now
        /\ call'.sent = call.sent /\ call'.sentAt = call.sentAt /\ call'.until = call.until
        /\ call'.observed = call.observed /\ call'.result = call.result
    <3>1. CASE Elapse
      <4>1. call.now + 1 \in Nat /\ call.now + 1 >= call.now
        BY <1>1
      <4> DEFINE t == call.now + 1
      <4>2. t \in Nat /\ t >= call.now /\ call' = [call EXCEPT !.now = t]
        BY <3>1, <4>1 DEF Elapse
      <4> HIDE DEF t
      <4> QED BY <1>1, <4>2 DEF CallTyped
    <3>2. CASE TimerFires
      <4>1. call' = [call EXCEPT !.timedOut = TRUE] /\ call.now \in Nat
        BY <1>1, <3>2 DEF TimerFires
      <4>2. CallTyped'
        BY <1>1, <4>1 DEF CallTyped
      <4>3. call'.now = call.now /\ call'.step = call.step /\ call'.sent = call.sent
        BY <1>1, <4>1
      <4>4. /\ call'.sentAt = call.sentAt /\ call'.until = call.until
            /\ call'.observed = call.observed /\ call'.result = call.result
        BY <1>1, <4>1
      <4> QED BY <4>1, <4>2, <4>3, <4>4
    <3> QED BY <1>9, <3>1, <3>2
  <2> QED BY <2>1, <2>2, CallGoesOn
<1> QED BY <1>4, <1>5, <1>6, <1>7, <1>8, <1>9 DEF Settles

-----------------------------------------------------------------------------
(* An invocation that knows of unconfirmed activity keeps its leases.      *)
LEMMA UnconfirmedKeepsLeases ==
    ASSUME InvocationInv, [Next]_vars, step # "admission"
    PROVE  /\ step' # "admission"
           /\ unconfirmed => unconfirmed' /\ leases' = leases
           /\ LeasesTaken' = LeasesTaken
<1>1. CASE UNCHANGED vars
  BY <1>1 DEF vars, LeasesTaken
<1>2. CASE Next
  <2>1. ASSUME NEW e \in Effects, Track(e) \/ Settle(e) \/ Complete(e)
        PROVE  step' # "admission" /\ UNCHANGED <<unconfirmed, leases>>
    BY <2>1 DEF Track, Settle, Complete, Notified
  <2>2. ASSUME NEW a \in Activities, StartActivity(a) \/ EndActivity(a)
        PROVE  step' # "admission" /\ UNCHANGED <<unconfirmed, leases>>
    BY <2>2 DEF StartActivity, EndActivity, Notified
  <2>3. Answer \/ ReportUncertain \/ Abort =>
           step' # "admission" /\ (unconfirmed => unconfirmed') /\ leases' = leases
    BY DEF Answer, ReportUncertain, Abort, workVars
  <2>4. \A failed : Finally(failed) => step' # "admission" /\ (unconfirmed => leases' = leases)
    BY DEF Finally
  <2>5. WithoutCheckpoint => step' # "admission" /\ (unconfirmed => leases' = leases)
    BY <2>4 DEF WithoutCheckpoint
  <2>6. Publish => step' # "admission" /\ (unconfirmed => leases' = leases)
    BY <2>4, <2>5 DEF Publish
  <2>7. Drain \/ Validate \/ Capture \/ Fork =>
           step' # "admission" /\ unconfirmed' = unconfirmed /\ (unconfirmed => leases' = leases)
    <3>1. Drain => step' # "admission" /\ unconfirmed' = unconfirmed /\ (unconfirmed => leases' = leases)
      BY <2>4, <2>6 DEF Drain, WorkFailed, workVars
    <3>2. Validate => step' # "admission" /\ unconfirmed' = unconfirmed /\ (unconfirmed => leases' = leases)
      BY <2>4, <2>6 DEF Validate, workVars
    <3>3. Capture => step' # "admission" /\ unconfirmed' = unconfirmed /\ (unconfirmed => leases' = leases)
      BY <2>4, <2>5 DEF Capture, workVars
    <3>4. Fork => step' # "admission" /\ unconfirmed' = unconfirmed /\ (unconfirmed => leases' = leases)
      BY <2>4 DEF Fork, workVars
    <3> QED BY <3>1, <3>2, <3>3, <3>4
  <2>8. LeasesTaken' = LeasesTaken
    BY <1>2 DEF Next, LeasesTaken
  <2> QED BY <1>2, <2>1, <2>2, <2>3, <2>7, <2>8 DEF Next, Invoke, Refuse, Admit
<1> QED BY <1>1, <1>2

(* An invocation that is executing goes on, or its executor has answered.  *)
LEMMA ExecutingGoesOn ==
    ASSUME [Next]_vars, step = "executing"
    PROVE  step' \in {"executing", "draining"}
BY DEF Next, Invoke, vars, Refuse, Admit, Answer, ReportUncertain, Abort, Drain, Validate, Capture, Fork,
    Track, Settle, Complete, StartActivity, EndActivity, Notified

(* What the process and its barrier do by themselves: the invocation does  *)
(* not move.                                                               *)
LEMMA ProcessKeepsInv ==
    ASSUME InvocationInv, ExecTyped, ExecFits,
           Exec \/ GroupEnds \/ CommandSettles \/ BarrierSteps \/ TerminationSettles \/ WaitSettles
    PROVE  ExecTyped' /\ ExecFits'
<1> USE DEF ExecTyped
<1>1. UNCHANGED <<step, unconfirmed, leases, LeasesTaken, aborted>>
  BY DEF Exec, GroupEnds, CommandSettles, BarrierSteps, TerminationSettles, WaitSettles, callVars, vars, LeasesTaken
<1>2. CASE Exec
  BY <1>1, <1>2 DEF Exec, ExecFits
<1>3. CASE GroupEnds
  BY <1>1, <1>3 DEF GroupEnds, ExecFits
<1>4. CASE CommandSettles
  BY <1>1, <1>4 DEF CommandSettles, EnterFinally, Stopping, Begun, ExecFits
<1>5. CASE BarrierSteps
  BY <1>1, <1>5 DEF BarrierSteps, ExecFits
<1>6. CASE TerminationSettles
  BY <1>1, <1>6 DEF TerminationSettles, EnterFinally, Stopping, Begun, ExecFits
<1>7. CASE WaitSettles
  BY <1>1, <1>7 DEF WaitSettles, ExecFits
<1> QED BY <1>2, <1>3, <1>4, <1>5, <1>6, <1>7

(* destroy settles: a group that was given up is reported.                 *)
LEMMA DestroyedKeepsInv ==
    ASSUME InvocationInv, ExecTyped, ExecFits, Destroyed
    PROVE  ExecTyped' /\ ExecFits'
<1> USE DEF ExecTyped
<1>1. step = "executing" /\ leases = LeasesTaken
  BY DEF Destroyed, ExecFits, InvocationInv, StepInv, Waiting
<1>2. step' = step /\ leases' = leases /\ LeasesTaken' = LeasesTaken
  BY DEF Destroyed, ReportUncertain, callVars, vars, LeasesTaken
<1>3. exec.end = "unconfirmed" => unconfirmed'
  BY DEF Destroyed, ReportUncertain, callVars, vars
<1> QED BY <1>1, <1>2, <1>3 DEF Destroyed, ExecFits

(* The invocation moves around its process.                                *)
LEMMA InvokeKeepsInv ==
    ASSUME InvocationInv, ExecTyped, ExecFits, InvokeAround
    PROVE  ExecTyped' /\ ExecFits'
<1> USE DEF ExecTyped
<1>1. [Next]_vars
  BY DEF InvokeAround, CallNext, InvokeBeside
<1>2. ExecTyped'
  BY DEF InvokeAround, Begun
<1>3. /\ exec'.step = exec.step /\ exec'.group = exec.group /\ exec'.end = exec.end
      /\ \/ exec'.barrier = exec.barrier
         \/ exec.step \in {"running", "terminating"} /\ exec'.barrier = "listing"
  BY DEF InvokeAround, Begun, Listening
<1>4. exec.step \in {"running", "terminating", "waiting", "destroying"} => step' = "executing"
  BY <1>1, ExecutingGoesOn DEF InvokeAround, ExecFits
<1>5. exec.step = "over" => step' # "admission"
  BY <1>1, UnconfirmedKeepsLeases DEF ExecFits
<1>6. exec.step = "over" /\ exec.barrier = "rejected" => unconfirmed' /\ leases' = LeasesTaken'
  BY <1>1, UnconfirmedKeepsLeases DEF ExecFits
<1> QED BY <1>2, <1>3, <1>4, <1>5, <1>6 DEF ExecFits

(* The inductive invariant of an invocation that awaits a call. *)
THEOREM AwaitedInvariant == ExecSpec => []AwaitedInv
<1>1. ExecInit => AwaitedInv
  <2> SUFFICES ASSUME ExecInit PROVE AwaitedInv
    OBVIOUS
  <2>1. InvocationInv
    BY InitInvocationInv DEF ExecInit, CallInit
  <2>2. call \in {NewCall("off"), NewCall("idle")} /\ exec \in {NewExec("off"), NewExec("idle")}
    BY DEF ExecInit, CallInit
  <2>3. /\ CallTyped /\ CallTimed /\ call.sent = 0 /\ call.observed = <<>> /\ call.result = "none"
        /\ call.step \in {"off", "idle"}
    <3>1. PICK at \in {"off", "idle"} :
             call = [step |-> at, sent |-> 0, sentAt |-> 0, now |-> 0, timedOut |-> FALSE, until |-> 0,
                     asked |-> 0, observed |-> <<>>, result |-> "none"]
      BY <2>2 DEF NewCall
    <3>2. <<>> \in Seq(States)
      OBVIOUS
    <3>3. CallTyped
      BY <3>1, <3>2 DEF CallTyped
    <3>4. /\ call.step = at /\ call.sent = 0 /\ call.sentAt = 0 /\ call.now = 0
          /\ call.observed = <<>> /\ call.result = "none"
      BY <3>1
    <3> QED BY <3>3, <3>4 DEF CallTimed, Pending
  <2>4. AttemptsObserved
    <3>1. Len(call.observed) = 0 /\ DOMAIN call.observed = {}
      BY <2>3
    <3>2. OneObservationEach
      <4>1. call.step \notin {"fetching", "dropping", "reading"} /\ call.sent = 0
        BY <2>3
      <4>2. (IF call.step \in {"fetching", "dropping", "reading"} THEN 1 ELSE 0) = 0
        BY <4>1, Zenon
      <4>3. call.sent - 0 = 0
        BY <4>1
      <4>4. Len(call.observed) = call.sent - (IF call.step \in {"fetching", "dropping", "reading"} THEN 1 ELSE 0)
        BY <3>1, <4>2, <4>3, Zenon
      <4> QED BY <3>1, <4>4 DEF OneObservationEach
    <3>3. ResultObserved /\ RequestsSpaced
      BY <2>3, BackoffFacts DEF ResultObserved, RequestsSpaced
    <3> QED BY <3>2, <3>3 DEF AttemptsObserved
  <2>5. ExecTyped /\ ExecFits
    BY <2>2 DEF NewExec, ExecTyped, ExecFits
  <2> QED BY <2>1, <2>3, <2>4, <2>5 DEF AwaitedInv, CallInv
<1>2. AwaitedInv /\ [ExecNext]_execVars => AwaitedInv'
  <2> SUFFICES ASSUME AwaitedInv, [ExecNext]_execVars PROVE AwaitedInv'
    OBVIOUS
  <2> USE DEF AwaitedInv
  <2>1. InvocationInv'
    BY ExecStepInvokes, NextKeepsInv DEF execVars, callVars
  <2>2. CallInv'
    <3>1. CASE UNCHANGED call
      BY <3>1 DEF CallInv, CallTyped, CallTimed, AttemptsObserved, OneObservationEach, ResultObserved, RequestsSpaced
    <3>2. CASE Classify \/ Settles \/ Elapse \/ TimerFires
      BY <3>2, CallKeepsInv
    <3>3. UNCHANGED call \/ Classify \/ Settles \/ Elapse \/ TimerFires
      BY DEF ExecNext, InvokeAround, CallNext, InvokeBeside, Exec, GroupEnds, ExecSteps, CommandSettles, BarrierSteps,
          TerminationSettles, WaitSettles, Destroyed, callVars, execVars
    <3> QED BY <3>1, <3>2, <3>3
  <2>3. ExecTyped' /\ ExecFits'
    <3>1. CASE UNCHANGED execVars
      BY <3>1 DEF execVars, callVars, vars, ExecTyped, ExecFits, LeasesTaken
    <3>2. CASE ExecNext
      BY <3>2, InvokeKeepsInv, ProcessKeepsInv, DestroyedKeepsInv DEF ExecNext, ExecSteps
    <3> QED BY <3>1, <3>2
  <2> QED BY <2>1, <2>2, <2>3
<1> QED BY <1>1, <1>2, PTL DEF ExecSpec

(* What execute awaits is accounted for: every request of a classification *)
(* by one observation, within the budget and after its backoffs, and a     *)
(* process that was to be stopped by the leases it keeps.                  *)
THEOREM AwaitedAccounted == ExecSpec => []CallsAccounted
<1>1. AwaitedInv => CallsAccounted
  <2> SUFFICES ASSUME AwaitedInv PROVE CallsAccounted
    OBVIOUS
  <2>1. AttemptsObserved
    BY DEF AwaitedInv, CallInv
  <2>2. exec.step \in {"running", "terminating", "waiting", "destroying"} => leases = LeasesTaken
    BY DEF AwaitedInv, ExecFits, InvocationInv, StepInv, Waiting
  <2>3. LeasesCoverProcess
    BY <2>2 DEF AwaitedInv, ExecTyped, ExecFits, LeasesCoverProcess
  <2> QED BY <2>1, <2>3 DEF CallsAccounted
<1> QED BY <1>1, AwaitedInvariant, PTL
=============================================================================
