------------------------------- MODULE JobsProofs -------------------------------
(* Proofs about the machines of MCJobs, for any values of their bounds: the *)
(* repeats of a run (RepeatLoop), the service of a CI job (ServiceAction),  *)
(* the resolution of merge conflicts (MergeResolution), the reviews of a    *)
(* pull request (ReviewRun), the calls of an ACP adapter (AcpSession) and   *)
(* what a call of the OpenCode adapter tells of its tools                   *)
(* (OpenCodeProjection).                                                    *)
EXTENDS MCJobs, FiniteSetTheorems, SequenceTheorems, NaturalsInduction, WellFoundedInduction,
        TLAPS

-----------------------------------------------------------------------------
(* The repeats of a run. *)

(* The input an attempt with this many predecessors is bound to get.       *)
InputAfter(r, n) == IF r \in WithNextInput THEN n ELSE 0

NoTrueVerdict(r) == \A k \in DOMAIN verdicts[r] : ~verdicts[r][k]

(* Every attempt that was started has charged the budget, and without an   *)
(* abort nothing else has.                                                 *)
BudgetInv ==
    /\ IsFiniteSet(Attempts)
    /\ Started <= executed /\ Started <= MaxBodyExecutions
    /\ \A r \in Repeats : heard[r] => aborted
    /\ ~aborted => Started = executed \/ Started = MaxBodyExecutions
    /\ (\E r \in Repeats : reason[r] = "budget") => executed >= MaxBodyExecutions

(* What the durable state holds wherever the loop is.                      *)
LoopInv(r) ==
    /\ phase[r] \in {"idle", "creating"} =>
          inputs[r] = <<>> /\ verdicts[r] = <<>> /\ state[r].input = 0
    /\ phase[r] = "resolving" =>
          /\ Len(inputs[r]) = Len(verdicts[r]) /\ NoTrueVerdict(r)
          /\ Len(inputs[r]) < MaximumIterations[r]
          /\ state[r].input = InputAfter(r, Len(inputs[r]))
    /\ phase[r] \in {"attempt", "persisting"} =>
          Len(inputs[r]) = Len(verdicts[r]) + 1 /\ NoTrueVerdict(r)
    /\ phase[r] \in {"condition", "extracting", "succeeded"} =>
          /\ Len(inputs[r]) = Len(verdicts[r]) /\ Len(inputs[r]) > 0
          /\ state[r].result = Len(inputs[r])
          /\ ~verdicts[r][Len(inputs[r])] => state[r].input = InputAfter(r, Len(inputs[r]))
    /\ phase[r] \in {"extracting", "succeeded"} => verdicts[r][Len(inputs[r])]
    /\ reason[r] # "none" => phase[r] \in {"failing", "failed", "cancelled"}

(* StopsWhereItShould of one repeat. *)
Stops(r) ==
    /\ Len(inputs[r]) <= MaximumIterations[r]
    /\ \A k \in DOMAIN verdicts[r] : verdicts[r][k] => k = Len(inputs[r])
    /\ phase[r] = "succeeded" => /\ verdicts[r][Len(inputs[r])]
                                 /\ state[r].result = Len(inputs[r])
    /\ reason[r] = "limit" => Len(inputs[r]) = MaximumIterations[r] /\ ~\E k \in DOMAIN verdicts[r] : verdicts[r][k]
    /\ \A k \in DOMAIN inputs[r] : inputs[r][k] = IF r \in WithNextInput THEN k - 1 ELSE 0

RepeatInv ==
    /\ TypeOK /\ BudgetInv
    /\ \A r \in Repeats : LoopInv(r) /\ Stops(r)

-----------------------------------------------------------------------------
LEMMA Typing ==
    ASSUME TypeOK, NEW r \in Repeats
    PROVE  /\ inputs[r] \in Seq(Nat) /\ verdicts[r] \in Seq(BOOLEAN)
           /\ Len(inputs[r]) \in Nat /\ Len(verdicts[r]) \in Nat
           /\ DOMAIN inputs[r] = 1..Len(inputs[r])
           /\ DOMAIN verdicts[r] = 1..Len(verdicts[r])
           /\ state[r].input \in Nat /\ state[r].result \in Nat
           /\ MaximumIterations[r] \in Nat /\ MaximumIterations[r] > 0
<1>1. inputs[r] \in Seq(Nat) /\ verdicts[r] \in Seq(BOOLEAN) /\ state[r] \in [input : Nat, result : Nat]
  BY DEF TypeOK
<1>2. MaximumIterations[r] \in 1..MaxBodyExecutions
  BY RepeatAssumption
<1> QED BY <1>1, <1>2, RepeatAssumption

LEMMA InitRepeatInv == Init => RepeatInv
<1> SUFFICES ASSUME Init PROVE RepeatInv
  OBVIOUS
<1> USE DEF Init
<1>1. TypeOK
  <2>1. <<>> \in Seq(Nat) /\ <<>> \in Seq(BOOLEAN)
    OBVIOUS
  <2>2. inputs \in [Repeats -> Seq(Nat)] /\ verdicts \in [Repeats -> Seq(BOOLEAN)]
    BY <2>1
  <2>3. state \in [Repeats -> [input : Nat, result : Nat]]
    OBVIOUS
  <2> QED BY <2>2, <2>3 DEF TypeOK, Ended, InLoop
<1>2. BudgetInv
  <2>1. Attempts = {}
    BY DEF Attempts
  <2>2. IsFiniteSet(Attempts) /\ Started = 0
    BY <2>1, FS_EmptySet DEF Started
  <2> QED BY <2>2, RepeatAssumption DEF BudgetInv
<1>3. ASSUME NEW r \in Repeats PROVE LoopInv(r) /\ Stops(r)
  BY <1>1, <1>3, Typing DEF LoopInv, Stops
<1> QED BY <1>1, <1>2, <1>3 DEF RepeatInv

-----------------------------------------------------------------------------
(* What one repeat does. *)

(* The other repeats keep what they have. *)
LEMMA OtherRepeats ==
    ASSUME RepeatInv, NEW r \in Repeats, NEW s \in Repeats \ {r},
           phase'[s] = phase[s], inputs'[s] = inputs[s], verdicts'[s] = verdicts[s],
           state'[s] = state[s], reason'[s] = reason[s]
    PROVE  LoopInv(s)' /\ Stops(s)'
BY DEF RepeatInv, LoopInv, Stops, NoTrueVerdict, InputAfter

(* A step that starts no attempt keeps the budget in order. *)
LEMMA NoAttemptKeepsBudget ==
    ASSUME RepeatInv, UNCHANGED <<aborted, executed, heard, inputs>>,
           \A r \in Repeats : reason'[r] = "budget" => reason[r] = "budget"
    PROVE  BudgetInv'
<1>1. Attempts' = Attempts /\ Started' = Started
  BY DEF Attempts, Started
<1> QED BY <1>1 DEF RepeatInv, BudgetInv

LEMMA FailFacts ==
    ASSUME TypeOK, NEW r \in Repeats, NEW why \in {"limit", "budget", "other"}, Fail(r, why)
    PROVE  /\ phase'[r] = "failing" /\ reason'[r] = why
           /\ \A s \in Repeats \ {r} : phase'[s] = phase[s] /\ reason'[s] = reason[s]
           /\ phase' \in [Repeats -> Ended \cup InLoop \cup {"idle", "creating", "failing"}]
           /\ reason' \in [Repeats -> {"none", "limit", "budget", "other"}]
BY DEF Fail, MoveTo, TypeOK

LEMMA MoveFacts ==
    ASSUME TypeOK, NEW r \in Repeats, NEW p \in Ended \cup InLoop \cup {"idle", "creating", "failing"}, MoveTo(r, p)
    PROVE  /\ phase'[r] = p
           /\ \A s \in Repeats \ {r} : phase'[s] = phase[s]
           /\ phase' \in [Repeats -> Ended \cup InLoop \cup {"idle", "creating", "failing"}]
BY DEF MoveTo, TypeOK

(* A failure, wherever the loop is, that is not one of its limits. *)
LEMMA FailKeepsInv ==
    ASSUME RepeatInv, NEW r \in Repeats, NEW why \in {"limit", "other"}, Fail(r, why),
           UNCHANGED <<aborted, executed, heard, inputs, verdicts, state>>,
           why = "limit" => /\ phase[r] = "condition" /\ AtLimit(r)
                            /\ ~verdicts[r][Iterations(r)]
    PROVE  RepeatInv'
<1> USE DEF RepeatInv
<1>1. /\ phase'[r] = "failing" /\ reason'[r] = why
      /\ \A s \in Repeats \ {r} : phase'[s] = phase[s] /\ reason'[s] = reason[s]
  BY FailFacts
<1>2. TypeOK'
  BY FailFacts DEF TypeOK
<1>3. BudgetInv'
  BY <1>1, NoAttemptKeepsBudget
<1>4. LoopInv(r)'
  BY <1>1 DEF LoopInv
<1>5. Stops(r)'
  BY <1>1, Typing DEF LoopInv, Stops, AtLimit, Iterations
<1>6. \A s \in Repeats \ {r} : LoopInv(s)' /\ Stops(s)'
  BY <1>1, OtherRepeats
<1> QED BY <1>2, <1>3, <1>4, <1>5, <1>6

(* A step that only goes on to the next place of the loop. *)
LEMMA MoveKeepsInv ==
    ASSUME RepeatInv, NEW r \in Repeats,
           NEW p \in Ended \cup InLoop \cup {"idle", "creating", "failing"}, MoveTo(r, p),
           UNCHANGED <<aborted, executed, heard, reason, inputs, verdicts, state>>,
           LoopInv(r)', p = "succeeded" => phase[r] = "extracting"
    PROVE  RepeatInv'
<1> USE DEF RepeatInv
<1>1. phase'[r] = p /\ \A s \in Repeats \ {r} : phase'[s] = phase[s]
  BY MoveFacts
<1>2. TypeOK'
  BY MoveFacts DEF TypeOK
<1>3. BudgetInv'
  BY NoAttemptKeepsBudget
<1>4. Stops(r)'
  BY <1>1 DEF LoopInv, Stops
<1>5. \A s \in Repeats \ {r} : LoopInv(s)' /\ Stops(s)'
  BY <1>1, OtherRepeats
<1> QED BY <1>2, <1>3, <1>4, <1>5

-----------------------------------------------------------------------------
(* The attempt that Dispatch starts is one more, and charged. *)
LEMMA OneMoreAttempt ==
    ASSUME RepeatInv, NEW r \in Repeats, executed < MaxBodyExecutions, ~heard[r],
           executed' = executed + 1, inputs' = [inputs EXCEPT ![r] = Append(@, state[r].input)],
           UNCHANGED <<aborted, heard, reason>>
    PROVE  BudgetInv'
<1> USE DEF RepeatInv
<1> DEFINE new == <<r, Len(inputs[r]) + 1>>
<1>1. inputs[r] \in Seq(Nat) /\ state[r].input \in Nat /\ Len(inputs[r]) \in Nat
  BY Typing
<1>2. DOMAIN inputs'[r] = DOMAIN inputs[r] \cup {Len(inputs[r]) + 1}
  <2>1. inputs'[r] = Append(inputs[r], state[r].input)
    BY DEF TypeOK
  <2>2. DOMAIN inputs'[r] = 1..(Len(inputs[r]) + 1) /\ DOMAIN inputs[r] = 1..Len(inputs[r])
    BY <1>1, <2>1
  <2> QED BY <1>1, <2>2
<1>3. \A s \in Repeats \ {r} : inputs'[s] = inputs[s]
  BY DEF TypeOK
<1>4. Attempts' = Attempts \cup {new}
  BY <1>2, <1>3 DEF Attempts
<1>5. new \notin Attempts
  <2>1. Len(inputs[r]) + 1 \notin DOMAIN inputs[r]
    BY <1>1
  <2> QED BY <2>1 DEF Attempts
<1>6. IsFiniteSet(Attempts') /\ Started' = Started + 1 /\ Started \in Nat
  <2>1. IsFiniteSet(Attempts)
    BY DEF BudgetInv
  <2>2. Cardinality(Attempts \cup {new}) = Cardinality(Attempts) + 1 /\ IsFiniteSet(Attempts \cup {new})
    BY <1>5, <2>1, FS_AddElement
  <2>3. Cardinality(Attempts) \in Nat
    BY <2>1, FS_CardinalityType
  <2> QED BY <1>4, <2>2, <2>3 DEF Started
<1> QED BY <1>6, RepeatAssumption DEF BudgetInv, TypeOK

(* A charge that starts no attempt: the budget is used up, or the run was  *)
(* aborted.                                                                *)
LEMMA ChargeKeepsInv ==
    ASSUME RepeatInv, NEW r \in Repeats, NEW why \in {"budget", "other"}, Fail(r, why),
           phase[r] = "resolving", executed' = executed + 1,
           why = "budget" => executed >= MaxBodyExecutions,
           why = "other" => heard[r],
           UNCHANGED <<aborted, heard, inputs, verdicts, state>>
    PROVE  RepeatInv'
<1> USE DEF RepeatInv
<1>1. /\ phase'[r] = "failing" /\ reason'[r] = why
      /\ \A s \in Repeats \ {r} : phase'[s] = phase[s] /\ reason'[s] = reason[s]
  BY FailFacts
<1>2. TypeOK'
  BY FailFacts DEF TypeOK
<1>3. BudgetInv'
  <2>1. Attempts' = Attempts /\ Started' = Started
    BY DEF Attempts, Started
  <2>2. Started \in Nat
    BY FS_CardinalityType DEF BudgetInv, Started
  <2>3. executed \in Nat /\ MaxBodyExecutions \in Nat
    BY RepeatAssumption DEF TypeOK
  <2>4. why = "other" => aborted
    BY DEF BudgetInv
  <2>5. ~aborted => Started = MaxBodyExecutions
    <3>1. CASE why = "budget"
      BY <2>2, <2>3, <3>1 DEF BudgetInv
    <3> QED BY <2>4, <3>1
  <2>6. \A s \in Repeats : reason'[s] = "budget" => executed' >= MaxBodyExecutions
    BY <1>1, <2>3 DEF BudgetInv
  <2> QED BY <2>1, <2>2, <2>3, <2>5, <2>6 DEF BudgetInv
<1>4. LoopInv(r)'
  BY <1>1 DEF LoopInv
<1>5. Stops(r)'
  BY <1>1 DEF Stops
<1>6. \A s \in Repeats \ {r} : LoopInv(s)' /\ Stops(s)'
  BY <1>1, OtherRepeats
<1> QED BY <1>2, <1>3, <1>4, <1>5, <1>6

LEMMA DispatchKeepsInv ==
    ASSUME RepeatInv, NEW r \in Repeats, Dispatch(r)
    PROVE  RepeatInv'
<1> USE DEF RepeatInv
<1>1. CASE executed >= MaxBodyExecutions /\ Fail(r, "budget") /\ UNCHANGED inputs
  BY <1>1, ChargeKeepsInv DEF Dispatch
<1>2. CASE heard[r] /\ Fail(r, "other") /\ UNCHANGED inputs
  BY <1>2, ChargeKeepsInv DEF Dispatch
<1>3. CASE /\ executed < MaxBodyExecutions /\ ~heard[r]
           /\ inputs' = [inputs EXCEPT ![r] = Append(@, state[r].input)]
           /\ MoveTo(r, "attempt") /\ UNCHANGED reason
  <2> USE <1>3
  <2> DEFINE n == Len(inputs[r])
  <2>1. phase[r] = "resolving" /\ executed' = executed + 1 /\ UNCHANGED <<aborted, heard, verdicts, state>>
    BY DEF Dispatch
  <2>2. phase'[r] = "attempt" /\ \A s \in Repeats \ {r} : phase'[s] = phase[s]
    BY MoveFacts DEF InLoop
  <2>3. /\ inputs'[r] = Append(inputs[r], state[r].input)
        /\ \A s \in Repeats \ {r} : inputs'[s] = inputs[s]
    BY DEF TypeOK
  <2>4. /\ inputs[r] \in Seq(Nat) /\ n \in Nat /\ state[r].input \in Nat
        /\ Len(verdicts[r]) \in Nat /\ MaximumIterations[r] \in Nat
    BY Typing
  <2>5. TypeOK'
    <3>1. inputs' \in [Repeats -> Seq(Nat)]
      BY <2>4 DEF TypeOK
    <3>2. phase' \in [Repeats -> Ended \cup InLoop \cup {"idle", "creating", "failing"}]
      BY MoveFacts DEF InLoop
    <3> QED BY <2>1, <3>1, <3>2 DEF TypeOK
  <2>6. BudgetInv'
    BY <2>1, OneMoreAttempt
  <2>7. /\ Len(inputs'[r]) = n + 1 /\ DOMAIN inputs'[r] = 1..(n + 1)
        /\ \A k \in 1..n : inputs'[r][k] = inputs[r][k]
        /\ inputs'[r][n + 1] = state[r].input /\ DOMAIN inputs[r] = 1..n
    BY <2>3, <2>4
  <2>8. LoopInv(r)'
    BY <2>1, <2>2, <2>4, <2>7 DEF LoopInv, NoTrueVerdict
  <2>9. Stops(r)'
    <3>1. \A k \in 1..(n + 1) : inputs'[r][k] = IF r \in WithNextInput THEN k - 1 ELSE 0
      BY <2>1, <2>4, <2>7 DEF LoopInv, InputAfter, Stops
    <3>2. Len(inputs'[r]) <= MaximumIterations[r] /\ NoTrueVerdict(r)
      BY <2>1, <2>4, <2>7 DEF LoopInv
    <3>3. reason[r] = "none"
      BY <2>1 DEF LoopInv
    <3> QED BY <2>1, <2>2, <2>7, <3>1, <3>2, <3>3 DEF Stops, NoTrueVerdict
  <2>10. \A s \in Repeats \ {r} : LoopInv(s)' /\ Stops(s)'
    BY <2>1, <2>2, <2>3, OtherRepeats
  <2> QED BY <2>5, <2>6, <2>8, <2>9, <2>10
<1> QED BY <1>1, <1>2, <1>3 DEF Dispatch

(* The verdict of an attempt is persisted with the input of the next one.  *)
LEMMA PersistKeepsInv ==
    ASSUME RepeatInv, NEW r \in Repeats, Persist(r)
    PROVE  RepeatInv'
<1> USE DEF RepeatInv
<1>1. CASE Fail(r, "other") /\ UNCHANGED <<verdicts, state>>
  BY <1>1, FailKeepsInv DEF Persist
<1>2. ASSUME NEW until \in BOOLEAN,
             state' = [state EXCEPT ![r] = [input |-> NextInput(r, until), result |-> Len(inputs[r])]],
             verdicts' = [verdicts EXCEPT ![r] = Append(@, until)],
             MoveTo(r, "condition"), UNCHANGED reason
      PROVE  RepeatInv'
  <2> USE <1>2
  <2> DEFINE n == Len(inputs[r])
  <2>1. phase[r] = "persisting" /\ UNCHANGED <<aborted, executed, heard, inputs>>
    BY DEF Persist
  <2>2. phase'[r] = "condition" /\ \A s \in Repeats \ {r} : phase'[s] = phase[s]
    BY MoveFacts DEF InLoop
  <2>3. /\ verdicts[r] \in Seq(BOOLEAN) /\ n \in Nat /\ Len(verdicts[r]) \in Nat
        /\ n = Len(verdicts[r]) + 1 /\ NoTrueVerdict(r)
    BY <2>1, Typing DEF LoopInv
  <2>4. /\ verdicts'[r] = Append(verdicts[r], until)
        /\ state'[r] = [input |-> NextInput(r, until), result |-> n]
        /\ \A s \in Repeats \ {r} : verdicts'[s] = verdicts[s] /\ state'[s] = state[s]
    BY DEF TypeOK
  <2>5. NextInput(r, until) = IF until THEN 0 ELSE InputAfter(r, n)
    BY DEF NextInput, InputAfter
  <2>6. TypeOK'
    <3>1. NextInput(r, until) \in Nat
      BY <2>3 DEF NextInput
    <3>2. Append(verdicts[r], until) \in Seq(BOOLEAN)
      BY <2>3
    <3>3. verdicts' \in [Repeats -> Seq(BOOLEAN)] /\ state' \in [Repeats -> [input : Nat, result : Nat]]
      BY <2>3, <3>1, <3>2 DEF TypeOK
    <3>4. phase' \in [Repeats -> Ended \cup InLoop \cup {"idle", "creating", "failing"}]
      BY MoveFacts DEF InLoop
    <3> QED BY <2>1, <3>3, <3>4 DEF TypeOK
  <2>7. BudgetInv'
    BY <2>1, NoAttemptKeepsBudget
  <2>8. /\ Len(verdicts'[r]) = n /\ DOMAIN verdicts'[r] = 1..n
        /\ \A k \in 1..(n - 1) : verdicts'[r][k] = verdicts[r][k]
        /\ verdicts'[r][n] = until /\ DOMAIN verdicts[r] = 1..(n - 1)
    BY <2>3, <2>4
  <2>9. LoopInv(r)'
    <3>1. reason'[r] = "none" /\ inputs'[r] = inputs[r]
      BY <2>1 DEF LoopInv
    <3>2. state'[r].result = n /\ state'[r].input = IF until THEN 0 ELSE InputAfter(r, n)
      BY <2>4, <2>5
    <3>3. /\ Len(inputs'[r]) = n /\ n > 0
          /\ ~verdicts'[r][n] => state'[r].input = InputAfter(r, n)
      BY <2>3, <2>8, <3>1, <3>2
    <3>4. /\ Len(inputs'[r]) = Len(verdicts'[r]) /\ Len(inputs'[r]) > 0
          /\ state'[r].result = Len(inputs'[r])
          /\ ~verdicts'[r][Len(inputs'[r])] => state'[r].input = InputAfter(r, Len(inputs'[r]))
      BY <2>8, <3>1, <3>2, <3>3
    <3> QED BY <2>2, <3>1, <3>4 DEF LoopInv, InputAfter
  <2>10. Stops(r)'
    <3>1. reason[r] = "none"
      BY <2>1 DEF LoopInv
    <3>2. \A k \in 1..n : verdicts'[r][k] => k = n
      BY <2>3, <2>8 DEF NoTrueVerdict
    <3> QED BY <2>1, <2>2, <2>8, <3>1, <3>2 DEF Stops
  <2>11. \A s \in Repeats \ {r} : LoopInv(s)' /\ Stops(s)'
    BY <2>1, <2>2, <2>4, OtherRepeats
  <2> QED BY <2>6, <2>7, <2>9, <2>10, <2>11
<1> QED BY <1>1, <1>2 DEF Persist

LEMMA AbortKeepsInv ==
    ASSUME RepeatInv, Abort
    PROVE  RepeatInv'
<1> USE DEF RepeatInv, Abort
<1>1. TypeOK'
  BY DEF TypeOK
<1>2. Attempts' = Attempts /\ Started' = Started
  BY DEF Attempts, Started
<1>3. BudgetInv'
  BY <1>2 DEF BudgetInv
<1>4. \A r \in Repeats : LoopInv(r)' /\ Stops(r)'
  BY DEF LoopInv, Stops, NoTrueVerdict, InputAfter
<1> QED BY <1>1, <1>3, <1>4

(* The steps that only move a loop on or fail it.                          *)
LEMMA AdvanceKeepsInv ==
    ASSUME RepeatInv, NEW r \in Repeats, Advance(r)
    PROVE  RepeatInv'
<1> USE DEF RepeatInv
<1> DEFINE Places == Ended \cup InLoop \cup {"idle", "creating", "failing"}
<1>1. CASE \/ CreateRun(r) /\ Fail(r, "other")
           \/ LoseState(r)
           \/ EndAttempt(r) /\ Fail(r, "other")
           \/ Extract(r) /\ Fail(r, "other")
           \/ Decide(r) /\ Fail(r, "other")
  BY <1>1, FailKeepsInv DEF CreateRun, LoseState, EndAttempt, Extract, Decide
<1>2. CASE Start(r)
  <2>1. LoopInv(r)' /\ MoveTo(r, "creating") /\ "creating" \in Places
    BY <1>2, MoveFacts DEF Start, LoopInv
  <2> QED BY <1>2, <2>1, MoveKeepsInv DEF Start
<1>3. CASE CreateRun(r) /\ MoveTo(r, "resolving") /\ UNCHANGED reason
  <2>1. phase'[r] = "resolving"
    BY <1>3, MoveFacts DEF InLoop
  <2>2. LoopInv(r)'
    BY <1>3, <2>1, Typing DEF CreateRun, LoopInv, NoTrueVerdict, InputAfter
  <2> QED BY <1>3, <2>2, MoveKeepsInv DEF CreateRun, InLoop
<1>4. CASE EndAttempt(r) /\ MoveTo(r, "persisting") /\ UNCHANGED reason
  <2>1. phase'[r] = "persisting"
    BY <1>4, MoveFacts DEF InLoop
  <2>2. LoopInv(r)'
    BY <1>4, <2>1 DEF EndAttempt, LoopInv, NoTrueVerdict
  <2> QED BY <1>4, <2>2, MoveKeepsInv DEF EndAttempt, InLoop
<1>5. CASE Decide(r) /\ verdicts[r][Iterations(r)] /\ MoveTo(r, "extracting") /\ UNCHANGED reason
  <2>1. phase'[r] = "extracting"
    BY <1>5, MoveFacts DEF InLoop
  <2>2. LoopInv(r)'
    BY <1>5, <2>1 DEF Decide, LoopInv, Iterations, InputAfter
  <2> QED BY <1>5, <2>2, MoveKeepsInv DEF Decide, InLoop
<1>6. CASE /\ Decide(r) /\ ~verdicts[r][Iterations(r)] /\ ~AtLimit(r)
           /\ MoveTo(r, "resolving") /\ UNCHANGED reason
  <2>1. phase'[r] = "resolving"
    BY <1>6, MoveFacts DEF InLoop
  <2>2. /\ Len(inputs[r]) = Len(verdicts[r]) /\ ~verdicts[r][Len(inputs[r])]
        /\ state[r].input = InputAfter(r, Len(inputs[r])) /\ reason[r] = "none"
    BY <1>6 DEF Decide, LoopInv, Iterations
  <2>3. NoTrueVerdict(r)
    BY <2>2 DEF Stops, NoTrueVerdict
  <2>4. Len(inputs[r]) < MaximumIterations[r]
    BY <1>6, <2>2, Typing DEF AtLimit, Iterations
  <2>5. LoopInv(r)'
    BY <1>6, <2>1, <2>2, <2>3, <2>4 DEF Decide, LoopInv, NoTrueVerdict, InputAfter
  <2> QED BY <1>6, <2>5, MoveKeepsInv DEF Decide, InLoop
<1>7. CASE Decide(r) /\ ~verdicts[r][Iterations(r)] /\ AtLimit(r) /\ Fail(r, "limit")
  BY <1>7, FailKeepsInv DEF Decide
<1>8. CASE Extract(r) /\ MoveTo(r, "succeeded") /\ UNCHANGED reason
  <2>1. phase'[r] = "succeeded"
    BY <1>8, MoveFacts DEF Ended
  <2>2. LoopInv(r)'
    BY <1>8, <2>1 DEF Extract, LoopInv, InputAfter
  <2> QED BY <1>8, <2>2, MoveKeepsInv DEF Extract, Ended
<1>9. CASE Conclude(r)
  <2> DEFINE p == IF aborted THEN "cancelled" ELSE "failed"
  <2>1. p \in Places /\ MoveTo(r, p) /\ p \in {"cancelled", "failed"}
    BY <1>9 DEF Conclude, Ended
  <2>2. phase'[r] = p
    BY <2>1, MoveFacts
  <2>3. LoopInv(r)'
    BY <1>9, <2>1, <2>2 DEF Conclude, LoopInv
  <2> QED BY <1>9, <2>1, <2>3, MoveKeepsInv DEF Conclude
<1> QED BY <1>1, <1>2, <1>3, <1>4, <1>5, <1>6, <1>7, <1>8, <1>9, DispatchKeepsInv, PersistKeepsInv
        DEF Advance, CreateRun, EndAttempt, Extract, Decide

-----------------------------------------------------------------------------
(* The theorems. *)

LEMMA NextKeepsInv == RepeatInv /\ [Next]_vars => RepeatInv'
<1>1. ASSUME RepeatInv, Next PROVE RepeatInv'
  <2>1. CASE Done
    BY <1>1, <2>1 DEF Done, vars, RepeatInv, TypeOK, BudgetInv, Attempts, Started, LoopInv, Stops, NoTrueVerdict
  <2> QED BY <1>1, <2>1, AbortKeepsInv, AdvanceKeepsInv DEF Next
<1>2. ASSUME RepeatInv, UNCHANGED vars PROVE RepeatInv'
  BY <1>2 DEF vars, RepeatInv, TypeOK, BudgetInv, Attempts, Started, LoopInv, Stops, NoTrueVerdict
<1> QED BY <1>1, <1>2

(* The inductive invariant of the repeats of a run. *)
THEOREM RepeatInvariant == Spec => []RepeatInv
BY InitRepeatInv, NextKeepsInv, PTL DEF Spec

(* The variables keep their types.                                         *)
THEOREM RepeatTypeCorrect == Spec => []TypeOK
<1>1. RepeatInv => TypeOK
  BY DEF RepeatInv
<1> QED BY <1>1, RepeatInvariant, PTL

(* Budget and limits bound the attempts, whatever number of repeats        *)
(* interleave, and no repeat fails for a budget that is not used up.       *)
THEOREM AttemptsStayBounded == Spec => []AttemptsBounded
<1>1. RepeatInv => AttemptsBounded
  <2> SUFFICES ASSUME RepeatInv PROVE AttemptsBounded
    OBVIOUS
  <2>1. StopsWhereItShould
    BY DEF RepeatInv, Stops, StopsWhereItShould
  <2>2. Started \in Nat /\ executed \in Nat /\ MaxBodyExecutions \in Nat
    BY FS_CardinalityType, RepeatAssumption DEF RepeatInv, BudgetInv, TypeOK, Started
  <2>3. BudgetShared
    BY <2>2 DEF RepeatInv, BudgetInv, BudgetShared
  <2> QED BY <2>1, <2>3 DEF AttemptsBounded
<1> QED BY <1>1, RepeatInvariant, PTL

-----------------------------------------------------------------------------
(* The service of a CI job. *)

NoGroupYet == \A m \in Service!Members : process[m] = "none"
StateSaved == Service!Identified \subseteq saved
Abandoned == faults > 0 /\ (Service!GroupRuns => Service!Dying)

(* Process and channel. *)
ServiceGroup ==
    /\ foreign => ~Service!GroupRuns /\ process["anchor"] = "gone"
    /\ ~harmed
    /\ tool.from \in {"unpacked", "installed"} => tool.sound
    /\ asked \/ adopted => StateSaved
    /\ faults = 0 /\ Service!GroupRuns => Service!Up("anchor")

(* What the steps know and have saved. *)
ServiceKnown ==
    /\ step \in {"install", "check", "spawn"} => NoGroupYet
    /\ "folder-only" \in saved => NoGroupYet /\ step \in Service!Ending
    /\ step = "ready" => known = {"anchor"}
    /\ step \in {"save", "adopt", "adopting", "probe", "clean"} => known = Service!Identified
    /\ step \in {"adopt", "adopting", "probe"} => StateSaved
    /\ step = "stop" => known = Service!SavedMembers /\ saved \cap {"pid", "anchor"} # {}
    /\ kind = "ripwire" /\ "pid" \in saved => StateSaved
    /\ "folder" \in saved => kind = "ripwire"

ServiceStop ==
    /\ stopping # "off" => step \in {"reap", "discard", "clean", "stop"}
    /\ stopping = "stopped" => ~Service!GroupRuns \/ known = {}
    /\ stopping = "unverified" /\ "anchor" \in known => ~Service!Up("anchor")
    /\ step = "reap" /\ known = {} => ~Service!Up("anchor")
    /\ step = "reap" /\ stopping # "off" => "anchor" \in known

ServiceFolder ==
    /\ kind = "ripwire" /\ step \in Service!Starting =>
          /\ tool.from \in {"none", "archive", "unpacked", "installed"}
          /\ tool.from # "none" => folder
          /\ step # "install" => folder
    /\ folder => kind = "ripwire"
    /\ step = "remove" => ~Service!GroupRuns
    /\ kind = "ripwire" /\ Service!GroupRuns => folder

ServiceTold ==
    /\ step \in Service!Ending /\ ~told => StateSaved \/ Abandoned
    /\ step = "over" /\ ~told => ~Service!GroupRuns \/ Abandoned

ServiceInv == Service!ServiceTypeOK /\ ServiceGroup /\ ServiceKnown /\ ServiceStop /\ ServiceFolder

LEMMA KillIs ==
    ASSUME Service!ServiceTypeOK, NEW S, Service!Kill(S)
    PROVE  /\ process' \in [Service!Members -> {"none", "up", "gone"}]
           /\ \A m \in Service!Members : process'[m] = IF m \in S
                /\ Service!Up(m) THEN "gone" ELSE process[m]
BY DEF Service!ServiceTypeOK, Service!Kill

LEMMA PrepareKeeps ==
    ASSUME ServiceInv, Service!Prepare
    PROVE  ServiceInv'
<1> DEFINE ToolStates == [from : {"none", "missed", "cache", "archive", "unpacked", "installed"},
             sound : BOOLEAN]
<1> USE DEF ServiceInv, Service!ServiceTypeOK
<1>0. UNCHANGED <<process, adopted, foreign, harmed, link, asked, sent, told, faults, kind, known,
        stopping>>
  BY DEF Service!Prepare, Service!Install, Service!processVars, Service!channelVars,
         Service!stateVars
<1>1. ASSUME Service!Restore, UNCHANGED Service!stateVars PROVE ServiceInv'
  <2>1. tool' \in ToolStates /\ tool'.from = "cache" /\ UNCHANGED <<step, folder, saved>>
    BY <1>1 DEF Service!Restore, Service!stateVars
  <2>2. Service!ServiceTypeOK'
    BY <1>0, <2>1
  <2>3. ServiceFolder'
    BY <1>0, <2>1, <1>1 DEF ServiceFolder, Service!GroupRuns, Service!Up, Service!Restore
  <2> QED BY <1>0, <2>1, <2>3
             DEF ServiceGroup, ServiceKnown, ServiceStop, Service!GroupRuns, Service!Up,
                 StateSaved, NoGroupYet, Service!SavedMembers
<1>2. ASSUME Service!UseRestored, UNCHANGED Service!stateVars PROVE ServiceInv'
  <2>1. tool' \in ToolStates /\ UNCHANGED <<step, folder, saved>>
    BY <1>2 DEF Service!UseRestored, Service!stateVars
  <2>2. Service!ServiceTypeOK'
    BY <1>0, <2>1
  <2>3. tool.from = "cache" /\ (tool'.from = "installed" => tool'.sound) /\ tool'.from # "unpacked"
    BY <1>2 DEF Service!UseRestored
  <2>4. ServiceFolder'
    BY <1>0, <2>1, <2>3 DEF ServiceFolder, Service!GroupRuns, Service!Up
  <2> QED BY <1>0, <2>1, <2>3, <2>4
             DEF ServiceGroup, ServiceKnown, ServiceStop, Service!GroupRuns, Service!Up,
                 StateSaved, NoGroupYet, Service!SavedMembers
<1>3. ASSUME Service!Unpack, UNCHANGED Service!stateVars PROVE ServiceInv'
  <2>1. tool' \in ToolStates /\ UNCHANGED <<step, folder, saved>>
    BY <1>3 DEF Service!Unpack, Service!stateVars
  <2>2. Service!ServiceTypeOK'
    BY <1>0, <2>1
  <2>3. tool.from = "archive" /\ tool'.from = "unpacked" /\ tool'.sound
    BY <1>3 DEF Service!Unpack
  <2>4. ServiceFolder'
    BY <1>0, <2>1, <2>3 DEF ServiceFolder, Service!GroupRuns, Service!Up
  <2> QED BY <1>0, <2>1, <2>3, <2>4
             DEF ServiceGroup, ServiceKnown, ServiceStop, Service!GroupRuns, Service!Up,
                 StateSaved, NoGroupYet, Service!SavedMembers
<1>4. ASSUME Service!Checked, UNCHANGED Service!stateVars PROVE ServiceInv'
  <2>1. step = "install" /\ step' = "spawn" /\ UNCHANGED <<tool, folder, saved>>
    BY <1>4 DEF Service!Checked, Service!stateVars, Service!Prepare
  <2>2. Service!ServiceTypeOK'
    BY <1>0, <2>1 DEF Service!Starting
  <2>3. ServiceFolder'
    BY <1>0, <2>1, <1>4 DEF ServiceFolder, Service!Checked, Service!Starting
  <2> QED BY <1>0, <2>1, <2>2, <2>3
             DEF ServiceGroup, ServiceKnown, ServiceStop, Service!GroupRuns, Service!Up,
                 StateSaved, NoGroupYet, Service!Ending
<1>5. ASSUME Service!Download PROVE ServiceInv'
  <2>1. tool' \in ToolStates /\ tool'.from = "archive" /\ folder' = (kind = "ripwire")
          /\ UNCHANGED <<step, saved>>
    BY <1>5 DEF Service!Download, Service!Prepare, Service!Install, Service!stateVars
  <2>2. Service!ServiceTypeOK'
    BY <1>0, <2>1
  <2>3. ServiceFolder'
    BY <1>0, <2>1 DEF ServiceFolder, Service!GroupRuns, Service!Up
  <2> QED BY <1>0, <2>1, <2>3
             DEF ServiceGroup, ServiceKnown, ServiceStop, Service!GroupRuns, Service!Up,
                 StateSaved, NoGroupYet, Service!SavedMembers
<1>6. ASSUME Service!Install PROVE ServiceInv'
  <2>1. tool' \in ToolStates /\ UNCHANGED <<step, folder>> /\ saved' \in {saved, saved \cup {"folder"}}
    BY <1>6 DEF Service!Install
  <2>2. tool.from = "unpacked" /\ tool'.from = "installed" /\ tool'.sound = tool.sound
          /\ ("folder" \in saved' \ saved => kind = "ripwire")
    BY <1>6 DEF Service!Install
  <2>3. Service!ServiceTypeOK'
    BY <1>0, <2>1
  <2>4. ServiceFolder'
    BY <1>0, <2>1, <2>2 DEF ServiceFolder, Service!GroupRuns, Service!Up
  <2>5. ServiceKnown'
    BY <1>0, <2>1, <2>2 DEF ServiceKnown, Service!Prepare, StateSaved, NoGroupYet
  <2> QED BY <1>0, <2>1, <2>2, <2>4, <2>5
             DEF ServiceGroup, ServiceStop, Service!GroupRuns, Service!Up, StateSaved
<1> QED BY <1>1, <1>2, <1>3, <1>4, <1>5, <1>6 DEF Service!Prepare

LEMMA InstallFailsKeeps ==
    ASSUME ServiceInv, Service!InstallFails
    PROVE  ServiceInv'
<1>1. Service!ServiceTypeOK'
  BY DEF Service!InstallFails, ServiceInv, Service!channelVars, Service!processVars, ServiceFolder,
         ServiceGroup, ServiceKnown, ServiceStop, Service!ServiceTypeOK, Service!GroupRuns,
         Service!Starting, StateSaved, Service!Up, Service!Ending, Service!Identified, NoGroupYet,
         Service!SavedMembers, Service!Members
<1>2. ServiceGroup'
  BY DEF Service!InstallFails, ServiceInv, Service!channelVars, Service!processVars, ServiceGroup,
         Service!GroupRuns, StateSaved, Service!Up
<1>3. ServiceKnown'
  BY DEF Service!InstallFails, ServiceInv, Service!processVars, ServiceFolder, ServiceKnown,
         StateSaved, Service!Ending, NoGroupYet
<1>4. ServiceStop'
  BY DEF Service!InstallFails, ServiceInv, ServiceStop
<1>5. ServiceFolder'
  BY DEF Service!InstallFails, ServiceInv, Service!processVars, ServiceFolder, ServiceKnown,
         Service!GroupRuns, Service!Starting, Service!Up, NoGroupYet
<1> QED BY <1>1, <1>2, <1>3, <1>4, <1>5 DEF ServiceInv

LEMMA CheckFailsKeeps ==
    ASSUME ServiceInv, Service!CheckFails
    PROVE  ServiceInv'
<1>1. Service!ServiceTypeOK'
  BY DEF Service!CheckFails, ServiceInv, Service!Fail, Service!channelVars, Service!processVars,
         ServiceFolder, ServiceGroup, ServiceKnown, ServiceStop, Service!ServiceTypeOK,
         Service!GroupRuns, Service!Starting, StateSaved, Service!Up, Service!Ending,
         Service!Identified, NoGroupYet, Service!SavedMembers, Service!Members
<1>2. ServiceGroup'
  BY DEF Service!CheckFails, ServiceInv, Service!channelVars, Service!processVars, ServiceGroup,
         Service!GroupRuns, StateSaved, Service!Up
<1>3. ServiceKnown'
  BY DEF Service!CheckFails, ServiceInv, Service!Fail, ServiceKnown, StateSaved, Service!Ending
<1>4. ServiceStop'
  BY DEF Service!CheckFails, ServiceInv, Service!Fail, ServiceStop
<1>5. ServiceFolder'
  BY DEF Service!CheckFails, ServiceInv, Service!Fail, Service!channelVars, Service!processVars,
         ServiceFolder, ServiceGroup, ServiceKnown, ServiceStop, Service!ServiceTypeOK,
         Service!GroupRuns, Service!Starting, StateSaved, Service!Up, Service!Ending,
         Service!Identified, NoGroupYet, Service!SavedMembers, Service!Members
<1> QED BY <1>1, <1>2, <1>3, <1>4, <1>5 DEF ServiceInv

LEMMA SpawnFailsKeeps ==
    ASSUME ServiceInv, Service!SpawnFails
    PROVE  ServiceInv'
<1>1. Service!ServiceTypeOK'
  BY DEF Service!SpawnFails, ServiceInv, Service!Fail, Service!channelVars, Service!processVars,
         Service!ServiceTypeOK, Service!Ending
<1>2. ServiceGroup'
  BY DEF Service!SpawnFails, ServiceInv, Service!channelVars, Service!processVars, ServiceGroup,
         Service!GroupRuns, StateSaved, Service!Up
<1>3. ServiceKnown'
  BY DEF Service!SpawnFails, ServiceInv, Service!Fail, ServiceKnown, StateSaved, Service!Ending
<1>4. ServiceStop'
  BY DEF Service!SpawnFails, ServiceInv, Service!Fail, ServiceStop
<1>5. ServiceFolder'
  BY DEF Service!SpawnFails, ServiceInv, Service!Fail, ServiceFolder, Service!Starting
<1> QED BY <1>1, <1>2, <1>3, <1>4, <1>5 DEF ServiceInv

LEMMA SpawnKeeps ==
    ASSUME ServiceInv, Service!Spawn
    PROVE  ServiceInv'
<1>1. Service!ServiceTypeOK'
  BY DEF Service!Spawn, ServiceInv, Service!stateVars, Service!ServiceTypeOK, Service!Starting,
         Service!Members
<1>2. ServiceGroup'
  BY DEF Service!Spawn, ServiceInv, Service!stateVars, ServiceGroup, ServiceKnown,
         Service!ServiceTypeOK, Service!GroupRuns, StateSaved, Service!Up, NoGroupYet
<1>3. ServiceKnown'
  BY DEF Service!Spawn, ServiceInv, Service!stateVars, ServiceKnown, StateSaved, Service!Ending
<1>4. ServiceStop'
  BY DEF Service!Spawn, ServiceInv, Service!stateVars, ServiceStop
<1>5. ServiceFolder'
  BY DEF Service!Spawn, ServiceInv, Service!stateVars, ServiceFolder, Service!Starting
<1> QED BY <1>1, <1>2, <1>3, <1>4, <1>5 DEF ServiceInv

LEMMA IdentifyKeeps ==
    ASSUME ServiceInv, Service!Identify
    PROVE  ServiceInv'
<1>1. Service!ServiceTypeOK'
  BY DEF Service!Identify, ServiceInv, Service!Up, Service!channelVars, Service!processVars,
         ServiceFolder, ServiceGroup, ServiceKnown, ServiceStop, Service!ServiceTypeOK,
         Service!GroupRuns, Service!Starting, StateSaved, Service!Ending, Service!Identified,
         NoGroupYet, Service!SavedMembers, Service!Members
<1>2. ServiceGroup'
  BY DEF Service!Identify, ServiceInv, Service!Up, Service!channelVars, Service!processVars,
         ServiceGroup, Service!GroupRuns, StateSaved
<1>3. ServiceKnown'
  BY DEF Service!Identify, ServiceInv, ServiceKnown, StateSaved, Service!Ending
<1>4. ServiceStop'
  BY DEF Service!Identify, ServiceInv, Service!Up, Service!processVars, ServiceStop
<1>5. ServiceFolder'
  BY DEF Service!Identify, ServiceInv, ServiceFolder, Service!Starting
<1> QED BY <1>1, <1>2, <1>3, <1>4, <1>5 DEF ServiceInv

LEMMA ReadyKeeps ==
    ASSUME ServiceInv, Service!Ready
    PROVE  ServiceInv'
<1>1. Service!ServiceTypeOK'
  BY DEF Service!Ready, ServiceInv, Service!processVars, Service!ServiceTypeOK, Service!Starting
<1>2. ServiceGroup'
  BY DEF Service!Ready, ServiceInv, Service!Up, Service!processVars, ServiceGroup,
         Service!GroupRuns, StateSaved
<1>3. ServiceKnown'
  BY DEF Service!Ready, ServiceInv, ServiceKnown, StateSaved, Service!Ending
<1>4. ServiceStop'
  BY DEF Service!Ready, ServiceInv, ServiceKnown, ServiceStop
<1>5. ServiceFolder'
  BY DEF Service!Ready, ServiceInv, ServiceFolder, Service!Starting
<1> QED BY <1>1, <1>2, <1>3, <1>4, <1>5 DEF ServiceInv

LEMMA DisconnectFailedKeeps ==
    ASSUME ServiceInv, Service!DisconnectFailed
    PROVE  ServiceInv'
<1>1. Service!ServiceTypeOK'
  BY DEF Service!DisconnectFailed, ServiceInv, Service!processVars, Service!stateVars,
         ServiceFolder, ServiceGroup, ServiceKnown, ServiceStop, Service!ServiceTypeOK,
         Service!GroupRuns, Service!Starting, StateSaved, Service!Up, Service!Ending,
         Service!Identified, NoGroupYet, Service!SavedMembers, Service!Members
<1>2. ServiceGroup'
  BY DEF Service!DisconnectFailed, ServiceInv, Service!processVars, Service!stateVars,
         ServiceGroup, Service!GroupRuns, StateSaved, Service!Up
<1>3. ServiceKnown'
  BY DEF Service!DisconnectFailed, ServiceInv, Service!stateVars, ServiceKnown, StateSaved,
         Service!Ending
<1>4. ServiceStop'
  BY DEF Service!DisconnectFailed, ServiceInv, Service!processVars, Service!stateVars, ServiceStop,
         Service!GroupRuns, Service!Up
<1>5. ServiceFolder'
  BY DEF Service!DisconnectFailed, ServiceInv, Service!stateVars, ServiceFolder, Service!Starting
<1> QED BY <1>1, <1>2, <1>3, <1>4, <1>5 DEF ServiceInv

LEMMA StopKeeps ==
    ASSUME ServiceInv, Service!Stop
    PROVE  ServiceInv'
<1>1. Service!ServiceTypeOK'
  BY DEF Service!Stop, ServiceInv, Service!BeginStop, Service!EndStop, Service!channelVars,
         Service!ServiceTypeOK, Service!Signal, Service!Kill
<1>2. ServiceGroup'
  <2> USE DEF ServiceInv
  <2>1. UNCHANGED <<tool, adopted, foreign, known, saved, faults, asked>>
    BY DEF Service!Stop, Service!channelVars
  <2>2. ASSUME Service!Owner # {} PROVE ~foreign
    <3>1. PICK m \in Service!Members : Service!Up(m)
      BY <2>2 DEF Service!Owner, Service!ServiceTypeOK, Service!Identified, Service!Members
    <3> QED BY <3>1 DEF ServiceGroup, Service!GroupRuns
  <2>3. ~harmed'
    BY <2>2 DEF ServiceGroup, Service!Stop, Service!BeginStop, Service!EndStop, Service!Signal
  <2>4. process' = process \/ \A m \in Service!Members : process'[m] = IF Service!Up(m) THEN "gone" ELSE process[m]
    BY KillIs DEF Service!Stop, Service!BeginStop, Service!EndStop
  <2>5. Service!GroupRuns' => process' = process
    BY <2>4 DEF Service!GroupRuns, Service!Up
  <2>6. process["anchor"] = "gone" => process'["anchor"] = "gone"
    BY <2>4 DEF Service!Members
  <2> QED BY <2>1, <2>3, <2>5, <2>6 DEF ServiceGroup, StateSaved, Service!Up, Service!GroupRuns
<1>3. ServiceKnown'
  BY DEF Service!Stop, ServiceInv, Service!BeginStop, Service!EndStop, ServiceKnown, Service!Kill,
         StateSaved, Service!Up, NoGroupYet, Service!SavedMembers
<1>4. ServiceStop'
  BY DEF Service!Stop, Service!BeginStop, Service!EndStop, ServiceStop, Service!GroupAlive,
         Service!Owner, Service!Kill, Service!GroupRuns, Service!Up
<1>5. ServiceFolder'
  BY DEF Service!Stop, ServiceInv, Service!BeginStop, Service!EndStop, ServiceFolder, Service!Kill,
         Service!GroupRuns, Service!Up
<1> QED BY <1>1, <1>2, <1>3, <1>4, <1>5 DEF ServiceInv

LEMMA ReapKeeps ==
    ASSUME ServiceInv, Service!Reap
    PROVE  ServiceInv'
<1>1. Service!ServiceTypeOK'
  BY DEF Service!Reap, ServiceInv, Service!Kill, Service!channelVars, Service!stateVars,
         Service!ServiceTypeOK, Service!Starting
<1>2. ServiceGroup'
  BY DEF Service!Reap, ServiceInv, Service!Kill, Service!channelVars, Service!stateVars,
         ServiceGroup, ServiceStop, Service!ServiceTypeOK, Service!Up, Service!GroupRuns,
         StateSaved
<1>3. ServiceKnown'
  BY DEF Service!Reap, ServiceInv, Service!stateVars, ServiceKnown, StateSaved, Service!Ending
<1>4. ServiceStop'
  BY DEF Service!Reap, ServiceInv, Service!Kill, Service!stateVars, ServiceStop,
         Service!ServiceTypeOK, Service!Up
<1>5. ServiceFolder'
  BY DEF Service!Reap, ServiceInv, Service!stateVars, ServiceFolder, Service!Starting
<1> QED BY <1>1, <1>2, <1>3, <1>4, <1>5 DEF ServiceInv

LEMMA DiscardKeeps ==
    ASSUME ServiceInv, Service!Discard
    PROVE  ServiceInv'
<1>1. Service!ServiceTypeOK'
  BY DEF Service!Discard, ServiceInv, Service!Fail, Service!GroupAlive, Service!channelVars,
         Service!processVars, ServiceFolder, ServiceGroup, ServiceKnown, ServiceStop,
         Service!ServiceTypeOK, Service!GroupRuns, Service!Starting, StateSaved, Service!Up,
         Service!Ending, Service!Identified, NoGroupYet, Service!SavedMembers, Service!Members
<1>2. ServiceGroup'
  BY DEF Service!Discard, ServiceInv, Service!Fail, Service!GroupAlive, Service!channelVars,
         Service!processVars, ServiceFolder, ServiceGroup, ServiceKnown, ServiceStop,
         Service!ServiceTypeOK, Service!GroupRuns, Service!Starting, StateSaved, Service!Up,
         Service!Ending, Service!Identified, NoGroupYet, Service!SavedMembers, Service!Members
<1>3. ServiceKnown'
  BY DEF Service!Discard, ServiceInv, Service!Fail, Service!GroupAlive, Service!channelVars,
         Service!processVars, ServiceFolder, ServiceGroup, ServiceKnown, ServiceStop,
         Service!ServiceTypeOK, Service!GroupRuns, Service!Starting, StateSaved, Service!Up,
         Service!Ending, Service!Identified, NoGroupYet, Service!SavedMembers, Service!Members
<1>4. ServiceStop'
  BY DEF Service!Discard, ServiceInv, Service!Fail, Service!GroupAlive, Service!channelVars,
         Service!processVars, ServiceFolder, ServiceGroup, ServiceKnown, ServiceStop,
         Service!ServiceTypeOK, Service!GroupRuns, Service!Starting, StateSaved, Service!Up,
         Service!Ending, Service!Identified, NoGroupYet, Service!SavedMembers, Service!Members
<1>5. ServiceFolder'
  BY DEF Service!Discard, ServiceInv, Service!Fail, Service!GroupAlive, Service!channelVars,
         Service!processVars, ServiceFolder, ServiceGroup, ServiceKnown, ServiceStop,
         Service!ServiceTypeOK, Service!GroupRuns, Service!Starting, StateSaved, Service!Up,
         Service!Ending, Service!Identified, NoGroupYet, Service!SavedMembers, Service!Members
<1> QED BY <1>1, <1>2, <1>3, <1>4, <1>5 DEF ServiceInv

LEMMA SaveKeeps ==
    ASSUME ServiceInv, Service!Save
    PROVE  ServiceInv'
<1>1. Service!ServiceTypeOK'
  BY DEF Service!Save, ServiceInv, Service!channelVars, Service!processVars, ServiceFolder,
         ServiceGroup, ServiceKnown, ServiceStop, Service!ServiceTypeOK, Service!GroupRuns,
         Service!Starting, StateSaved, Service!Up, Service!Ending, Service!Identified, NoGroupYet,
         Service!SavedMembers, Service!Members
<1>2. ServiceGroup'
  BY DEF Service!Save, ServiceInv, Service!channelVars, Service!processVars, ServiceGroup,
         Service!GroupRuns, StateSaved, Service!Up
<1>3. ServiceKnown'
  BY DEF Service!Save, ServiceInv, ServiceKnown, StateSaved, Service!Ending, Service!Identified
<1>4. ServiceStop'
  BY DEF Service!Save, ServiceInv, ServiceStop
<1>5. ServiceFolder'
  BY DEF Service!Save, ServiceInv, ServiceFolder, Service!Starting
<1> QED BY <1>1, <1>2, <1>3, <1>4, <1>5 DEF ServiceInv

LEMMA AdoptKeeps ==
    ASSUME ServiceInv, Service!Adopt
    PROVE  ServiceInv'
<1>1. Service!ServiceTypeOK'
  BY DEF Service!Adopt, ServiceInv, Service!processVars, Service!stateVars, ServiceFolder,
         ServiceGroup, ServiceKnown, ServiceStop, Service!ServiceTypeOK, Service!GroupRuns,
         Service!Starting, StateSaved, Service!Up, Service!Ending, Service!Identified, NoGroupYet,
         Service!SavedMembers, Service!Members
<1>2. ServiceGroup'
  BY DEF Service!Adopt, ServiceInv, Service!processVars, Service!stateVars, ServiceGroup,
         ServiceKnown, Service!GroupRuns, StateSaved, Service!Up
<1>3. ServiceKnown'
  BY DEF Service!Adopt, ServiceInv, Service!stateVars, ServiceKnown, StateSaved, Service!Ending
<1>4. ServiceStop'
  BY DEF Service!Adopt, ServiceInv, Service!stateVars, ServiceStop
<1>5. ServiceFolder'
  BY DEF Service!Adopt, ServiceInv, Service!stateVars, ServiceFolder, Service!Starting
<1> QED BY <1>1, <1>2, <1>3, <1>4, <1>5 DEF ServiceInv

LEMMA AdoptedKeeps ==
    ASSUME ServiceInv, Service!Adopted
    PROVE  ServiceInv'
<1>1. Service!ServiceTypeOK'
  BY DEF Service!Adopted, ServiceInv, Service!processVars, Service!stateVars, ServiceFolder,
         ServiceGroup, ServiceKnown, ServiceStop, Service!ServiceTypeOK, Service!GroupRuns,
         Service!Starting, StateSaved, Service!Up, Service!Ending, Service!Identified, NoGroupYet,
         Service!SavedMembers, Service!Members
<1>2. ServiceGroup'
  BY DEF Service!Adopted, ServiceInv, Service!processVars, Service!stateVars, ServiceGroup,
         Service!GroupRuns, StateSaved, Service!Up
<1>3. ServiceKnown'
  BY DEF Service!Adopted, ServiceInv, Service!stateVars, ServiceKnown, StateSaved, Service!Ending
<1>4. ServiceStop'
  BY DEF Service!Adopted, ServiceInv, Service!stateVars, ServiceStop
<1>5. ServiceFolder'
  BY DEF Service!Adopted, ServiceInv, Service!stateVars, ServiceFolder, Service!Starting
<1> QED BY <1>1, <1>2, <1>3, <1>4, <1>5 DEF ServiceInv

LEMMA ProbeKeeps ==
    ASSUME ServiceInv, Service!Probe
    PROVE  ServiceInv'
<1>1. Service!ServiceTypeOK'
  BY DEF Service!Probe, ServiceInv, Service!Probed, Service!channelVars, Service!processVars,
         Service!stateVars, Service!ServiceTypeOK, Service!Starting, Service!Ending
<1>2. ServiceGroup'
  BY DEF Service!Probe, ServiceInv, Service!channelVars, Service!processVars, Service!stateVars,
         ServiceGroup, Service!GroupRuns, StateSaved, Service!Up
<1>3. ServiceKnown'
  BY DEF Service!Probe, ServiceInv, Service!Probed, Service!stateVars, ServiceKnown, StateSaved,
         Service!Ending
<1>4. ServiceStop'
  BY DEF Service!Probe, ServiceInv, Service!Probed, Service!stateVars, ServiceStop
<1>5. ServiceFolder'
  BY DEF Service!Probe, ServiceInv, Service!Probed, Service!stateVars, ServiceFolder,
         Service!Starting
<1> QED BY <1>1, <1>2, <1>3, <1>4, <1>5 DEF ServiceInv

LEMMA CleanKeeps ==
    ASSUME ServiceInv, Service!Clean
    PROVE  ServiceInv'
<1>1. Service!ServiceTypeOK'
  BY DEF Service!Clean, ServiceInv, Service!Fail, Service!channelVars, Service!processVars,
         ServiceFolder, ServiceGroup, ServiceKnown, ServiceStop, Service!ServiceTypeOK,
         Service!GroupRuns, Service!Starting, StateSaved, Service!Up, Service!Ending,
         Service!Identified, NoGroupYet, Service!SavedMembers, Service!Members
<1>2. ServiceGroup'
  BY DEF Service!Clean, ServiceInv, Service!channelVars, Service!processVars, ServiceGroup,
         Service!GroupRuns, StateSaved, Service!Up
<1>3. ServiceKnown'
  BY DEF Service!Clean, ServiceInv, Service!Fail, ServiceKnown, StateSaved, Service!Ending
<1>4. ServiceStop'
  BY DEF Service!Clean, Service!Fail, ServiceStop
<1>5. ServiceFolder'
  BY DEF Service!Clean, ServiceInv, Service!Fail, Service!channelVars, Service!processVars,
         ServiceFolder, ServiceGroup, ServiceKnown, ServiceStop, Service!ServiceTypeOK,
         Service!GroupRuns, Service!Starting, StateSaved, Service!Up, Service!Ending,
         Service!Identified, NoGroupYet, Service!SavedMembers, Service!Members
<1> QED BY <1>1, <1>2, <1>3, <1>4, <1>5 DEF ServiceInv

LEMMA PostKeeps ==
    ASSUME ServiceInv, Service!Post
    PROVE  ServiceInv'
<1>1. Service!ServiceTypeOK'
  BY DEF Service!Post, ServiceInv, Service!SavedMembers, Service!channelVars, Service!processVars,
         ServiceFolder, ServiceGroup, ServiceKnown, ServiceStop, Service!ServiceTypeOK,
         Service!Identified, Service!GroupRuns, Service!Starting, StateSaved, Service!Up,
         Service!Ending, NoGroupYet, Service!Members
<1>2. ServiceGroup'
  BY DEF Service!Post, ServiceInv, Service!channelVars, Service!processVars, ServiceGroup,
         Service!GroupRuns, StateSaved, Service!Up
<1>3. ServiceKnown'
  BY DEF Service!Post, ServiceInv, Service!SavedMembers, Service!processVars, ServiceKnown,
         StateSaved, Service!Ending, NoGroupYet
<1>4. ServiceStop'
  BY DEF Service!Post, ServiceInv, ServiceStop
<1>5. ServiceFolder'
  BY DEF Service!Post, ServiceInv, Service!processVars, ServiceFolder, ServiceKnown,
         Service!GroupRuns, Service!Starting, Service!Up, NoGroupYet
<1> QED BY <1>1, <1>2, <1>3, <1>4, <1>5 DEF ServiceInv

LEMMA PostStoppedKeeps ==
    ASSUME ServiceInv, Service!PostStopped
    PROVE  ServiceInv'
<1>1. Service!ServiceTypeOK'
  BY DEF Service!PostStopped, ServiceInv, Service!channelVars, Service!processVars,
         Service!ServiceTypeOK, Service!Ending
<1>2. ServiceGroup'
  BY DEF Service!PostStopped, ServiceInv, Service!channelVars, Service!processVars, ServiceGroup,
         Service!GroupRuns, StateSaved, Service!Up
<1>3. ServiceKnown'
  BY DEF Service!PostStopped, ServiceInv, Service!processVars, ServiceKnown, StateSaved,
         Service!Ending, NoGroupYet
<1>4. ServiceStop'
  BY DEF Service!PostStopped, ServiceStop
<1>5. ServiceFolder'
  BY DEF Service!PostStopped, ServiceInv, Service!processVars, ServiceFolder, ServiceKnown,
         ServiceStop, Service!GroupRuns, Service!Starting, StateSaved, Service!Up,
         Service!Identified, Service!SavedMembers
<1> QED BY <1>1, <1>2, <1>3, <1>4, <1>5 DEF ServiceInv

LEMMA RemoveKeeps ==
    ASSUME ServiceInv, Service!Remove
    PROVE  ServiceInv'
<1>1. Service!ServiceTypeOK'
  BY DEF Service!Remove, ServiceInv, Service!channelVars, Service!processVars, ServiceFolder,
         ServiceGroup, ServiceKnown, ServiceStop, Service!ServiceTypeOK, Service!GroupRuns,
         Service!Starting, StateSaved, Service!Up, Service!Ending, Service!Identified, NoGroupYet,
         Service!SavedMembers, Service!Members
<1>2. ServiceGroup'
  BY DEF Service!Remove, ServiceInv, Service!channelVars, Service!processVars, ServiceGroup,
         Service!GroupRuns, StateSaved, Service!Up
<1>3. ServiceKnown'
  BY DEF Service!Remove, ServiceInv, Service!processVars, ServiceKnown, StateSaved, Service!Ending,
         NoGroupYet
<1>4. ServiceStop'
  BY DEF Service!Remove, ServiceInv, ServiceStop
<1>5. ServiceFolder'
  BY DEF Service!Remove, ServiceInv, Service!processVars, ServiceFolder, Service!GroupRuns,
         Service!Starting, Service!Up
<1> QED BY <1>1, <1>2, <1>3, <1>4, <1>5 DEF ServiceInv

LEMMA AnchorStartsKeeps ==
    ASSUME ServiceInv, Service!AnchorStarts
    PROVE  ServiceInv'
<1>1. Service!ServiceTypeOK'
  <2> USE DEF ServiceInv
  <2>1. process' \in [Service!Members -> {"none", "up", "gone"}]
    BY KillIs DEF Service!AnchorStarts, Service!ServiceTypeOK
  <2>2. link' \in BOOLEAN /\ sent' \subseteq {"ready", "error", "adopted"}
    BY DEF Service!AnchorStarts, Service!ServiceTypeOK
  <2> QED BY <2>1, <2>2
             DEF Service!AnchorStarts, Service!groupUnchanged, Service!stateVars,
                 Service!ServiceTypeOK
<1>2. ServiceGroup'
  BY DEF Service!AnchorStarts, ServiceInv, Service!Kill, Service!Members, Service!Up,
         Service!groupUnchanged, ServiceGroup, Service!ServiceTypeOK, Service!stateVars,
         Service!GroupRuns, StateSaved
<1>3. ServiceKnown'
  BY DEF Service!AnchorStarts, ServiceInv, Service!Members, Service!Up, Service!groupUnchanged,
         ServiceKnown, Service!stateVars, StateSaved, NoGroupYet, Service!SavedMembers
<1>4. ServiceStop'
  BY DEF Service!AnchorStarts, ServiceInv, Service!Members, Service!groupUnchanged, ServiceStop,
         Service!stateVars, Service!GroupRuns
<1>5. ServiceFolder'
  BY DEF Service!AnchorStarts, ServiceInv, Service!Members, Service!groupUnchanged, ServiceFolder,
         Service!stateVars, Service!GroupRuns
<1> QED BY <1>1, <1>2, <1>3, <1>4, <1>5 DEF ServiceInv

LEMMA AnchorAdoptsKeeps ==
    ASSUME ServiceInv, Service!AnchorAdopts
    PROVE  ServiceInv'
<1>1. Service!ServiceTypeOK'
  BY DEF Service!AnchorAdopts, ServiceInv, Service!Up, Service!groupUnchanged, ServiceFolder,
         ServiceGroup, ServiceKnown, ServiceStop, Service!ServiceTypeOK, Service!stateVars,
         Service!GroupRuns, Service!Starting, StateSaved, Service!Ending, Service!Identified,
         NoGroupYet, Service!SavedMembers, Service!Members
<1>2. ServiceGroup'
  BY DEF Service!AnchorAdopts, ServiceInv, Service!Up, Service!groupUnchanged, ServiceGroup,
         Service!stateVars, StateSaved
<1>3. ServiceKnown'
  BY DEF Service!AnchorAdopts, ServiceInv, Service!groupUnchanged, ServiceKnown, Service!stateVars,
         StateSaved, NoGroupYet, Service!SavedMembers
<1>4. ServiceStop'
  BY DEF Service!AnchorAdopts, ServiceInv, Service!Up, Service!groupUnchanged, ServiceStop,
         Service!stateVars, Service!GroupRuns
<1>5. ServiceFolder'
  BY DEF Service!AnchorAdopts, ServiceInv, Service!Up, Service!groupUnchanged, ServiceFolder,
         Service!stateVars, Service!GroupRuns
<1> QED BY <1>1, <1>2, <1>3, <1>4, <1>5 DEF ServiceInv

LEMMA AnchorLetGoKeeps ==
    ASSUME ServiceInv, Service!AnchorLetGo
    PROVE  ServiceInv'
<1>1. Service!ServiceTypeOK'
  BY DEF Service!AnchorLetGo, ServiceInv, Service!Kill, Service!channelVars,
         Service!groupUnchanged, Service!ServiceTypeOK, Service!stateVars
<1>2. ServiceGroup'
  BY DEF Service!AnchorLetGo, ServiceInv, Service!Kill, Service!Up, Service!channelVars,
         Service!groupUnchanged, ServiceGroup, Service!GroupRuns
<1>3. ServiceKnown'
  BY DEF Service!AnchorLetGo, ServiceInv, Service!Kill, Service!Up, Service!groupUnchanged,
         ServiceKnown, Service!stateVars, StateSaved, NoGroupYet, Service!SavedMembers
<1>4. ServiceStop'
  BY DEF Service!AnchorLetGo, ServiceInv, Service!Members, Service!groupUnchanged, ServiceStop,
         Service!stateVars, Service!GroupRuns
<1>5. ServiceFolder'
  BY DEF Service!AnchorLetGo, ServiceInv, Service!Members, Service!groupUnchanged, ServiceFolder,
         Service!stateVars, Service!GroupRuns
<1> QED BY <1>1, <1>2, <1>3, <1>4, <1>5 DEF ServiceInv

LEMMA ServiceExitsKeeps ==
    ASSUME ServiceInv, Service!ServiceExits
    PROVE  ServiceInv'
<1>1. Service!ServiceTypeOK'
  <2> USE DEF ServiceInv
  <2>1. process' \in [Service!Members -> {"none", "up", "gone"}]
    BY KillIs DEF Service!ServiceExits
  <2>2. link' \in BOOLEAN
    BY DEF Service!ServiceExits, Service!ServiceTypeOK
  <2> QED BY <2>1, <2>2
             DEF Service!ServiceExits, Service!groupUnchanged, Service!stateVars,
                 Service!ServiceTypeOK
<1>2. ServiceGroup'
  BY DEF Service!ServiceExits, ServiceInv, Service!Kill, Service!Members, Service!Up,
         Service!groupUnchanged, ServiceGroup, Service!stateVars, Service!GroupRuns, StateSaved
<1>3. ServiceKnown'
  BY DEF Service!ServiceExits, ServiceInv, Service!Kill, Service!Up, Service!groupUnchanged,
         ServiceKnown, Service!stateVars, StateSaved, NoGroupYet, Service!SavedMembers
<1>4. ServiceStop'
  BY DEF Service!ServiceExits, ServiceInv, Service!Kill, Service!Members, Service!Up,
         Service!groupUnchanged, ServiceStop, Service!stateVars, Service!GroupRuns
<1>5. ServiceFolder'
  BY DEF Service!ServiceExits, ServiceInv, Service!Members, Service!groupUnchanged, ServiceFolder,
         Service!stateVars, Service!GroupRuns
<1> QED BY <1>1, <1>2, <1>3, <1>4, <1>5 DEF ServiceInv

LEMMA ReuseKeeps ==
    ASSUME ServiceInv, Service!Reuse
    PROVE  ServiceInv'
<1>1. Service!ServiceTypeOK'
  BY DEF Service!Reuse, ServiceInv, Service!channelVars, Service!groupUnchanged,
         Service!ServiceTypeOK, Service!stateVars
<1>2. ServiceGroup'
  BY DEF Service!Reuse, ServiceInv, Service!GroupRuns, Service!channelVars, Service!groupUnchanged,
         ServiceGroup, Service!Up, Service!stateVars, StateSaved
<1>3. ServiceKnown'
  BY DEF Service!Reuse, ServiceInv, Service!groupUnchanged, ServiceKnown, Service!stateVars,
         StateSaved, NoGroupYet, Service!SavedMembers
<1>4. ServiceStop'
  BY DEF Service!Reuse, ServiceInv, Service!GroupRuns, Service!groupUnchanged, ServiceStop,
         Service!Up, Service!stateVars
<1>5. ServiceFolder'
  BY DEF Service!Reuse, ServiceInv, Service!GroupRuns, Service!groupUnchanged, ServiceFolder,
         Service!Up, Service!stateVars
<1> QED BY <1>1, <1>2, <1>3, <1>4, <1>5 DEF ServiceInv

LEMMA KillStepKeeps ==
    ASSUME ServiceInv, Service!KillStep
    PROVE  ServiceInv'
<1>1. Service!ServiceTypeOK'
  <2> USE DEF ServiceInv
  <2>1. faults' \in 0..MaxFaults
    BY ServiceAssumption DEF Service!KillStep, Service!ServiceTypeOK
  <2>2. sent' = {} /\ stopping' = "off" /\ step' = "left" /\ link' = FALSE
    BY DEF Service!KillStep
  <2>3. UNCHANGED <<kind, tool, folder, known, saved, told, asked, process, adopted, foreign, harmed>>
    BY DEF Service!KillStep, Service!processVars
  <2> QED BY <2>1, <2>2, <2>3 DEF Service!ServiceTypeOK, Service!Ending
<1>2. ServiceGroup'
  BY DEF Service!KillStep, ServiceInv, Service!processVars, ServiceGroup, Service!ServiceTypeOK,
         Service!GroupRuns, StateSaved, Service!Up
<1>3. ServiceKnown'
  BY DEF Service!KillStep, ServiceInv, Service!Starting, ServiceKnown, StateSaved, Service!Ending
<1>4. ServiceStop'
  BY DEF Service!KillStep, ServiceStop
<1>5. ServiceFolder'
  BY DEF Service!KillStep, ServiceInv, Service!Starting, Service!processVars, ServiceFolder,
         Service!GroupRuns, Service!Up
<1> QED BY <1>1, <1>2, <1>3, <1>4, <1>5 DEF ServiceInv

LEMMA KillMemberKeeps ==
    ASSUME ServiceInv, NEW m \in Service!Identified, Service!KillMember(m)
    PROVE  ServiceInv'
<1> USE DEF ServiceInv
<1>0. m \in Service!Members /\ Service!Up(m) /\ m # "service"
  BY DEF Service!KillMember, Service!Identified, Service!Members
<1>1. faults' \in 0..MaxFaults /\ faults' > 0
  BY ServiceAssumption DEF Service!KillMember, Service!ServiceTypeOK
<1>2. /\ process' \in [Service!Members -> {"none", "up", "gone"}]
      /\ \A k \in Service!Members : process'[k] = IF k = m THEN "gone" ELSE process[k]
  BY KillIs DEF Service!KillMember
<1>3. link' \in BOOLEAN
  BY DEF Service!KillMember
<1>4. UNCHANGED <<kind, step, tool, told, adopted, foreign, harmed, asked, sent, folder, known, saved,
        stopping>>
  BY DEF Service!KillMember, Service!stateVars
<1>5. Service!ServiceTypeOK'
  BY <1>1, <1>2, <1>3, <1>4 DEF Service!ServiceTypeOK
<1>6. Service!GroupRuns /\ (Service!GroupRuns' => Service!GroupRuns)
        /\ \A k \in Service!Members : Service!Up(k)' => Service!Up(k)
  BY <1>0, <1>2 DEF Service!GroupRuns, Service!Up
<1>7. ~NoGroupYet
  BY <1>0 DEF NoGroupYet, Service!Up
<1>8. ServiceGroup'
  BY <1>1, <1>4, <1>6 DEF ServiceGroup, StateSaved
<1>9. ServiceKnown'
  BY <1>7, <1>4 DEF ServiceKnown, StateSaved, Service!SavedMembers
<1>10. ServiceStop'
  BY <1>6, <1>4 DEF ServiceStop, Service!Members
<1>11. ServiceFolder'
  BY <1>6, <1>4 DEF ServiceFolder
<1> QED BY <1>5, <1>8, <1>9, <1>10, <1>11

LEMMA PrepareTells ==
    ASSUME MaxFaults \in {0, 1}, ServiceInv, ServiceTold, Service!Prepare
    PROVE  ServiceTold'
BY DEF Service!Prepare, ServiceTold, Service!Checked, Service!Download, Service!Install,
       Service!Restore, Service!Unpack, Service!UseRestored, Service!Ending

LEMMA InstallFailsTells ==
    ASSUME MaxFaults \in {0, 1}, ServiceInv, ServiceTold, Service!InstallFails
    PROVE  ServiceTold'
BY DEF Service!InstallFails, ServiceTold

LEMMA CheckFailsTells ==
    ASSUME MaxFaults \in {0, 1}, ServiceInv, ServiceTold, Service!CheckFails
    PROVE  ServiceTold'
BY DEF Service!CheckFails, ServiceTold, Service!Fail

LEMMA SpawnFailsTells ==
    ASSUME MaxFaults \in {0, 1}, ServiceInv, ServiceTold, Service!SpawnFails
    PROVE  ServiceTold'
BY DEF Service!SpawnFails, ServiceTold, Service!Fail

LEMMA SpawnTells ==
    ASSUME MaxFaults \in {0, 1}, ServiceInv, ServiceTold, Service!Spawn
    PROVE  ServiceTold'
BY DEF Service!Spawn, ServiceTold, Service!Ending

LEMMA IdentifyTells ==
    ASSUME MaxFaults \in {0, 1}, ServiceInv, ServiceTold, Service!Identify
    PROVE  ServiceTold'
BY DEF Service!Identify, ServiceTold, Service!Ending

LEMMA ReadyTells ==
    ASSUME MaxFaults \in {0, 1}, ServiceInv, ServiceTold, Service!Ready
    PROVE  ServiceTold'
BY DEF Service!Ready, ServiceTold, Service!Ending

LEMMA DisconnectFailedTells ==
    ASSUME MaxFaults \in {0, 1}, ServiceInv, ServiceTold, Service!DisconnectFailed
    PROVE  ServiceTold'
BY DEF Service!DisconnectFailed, ServiceTold, Service!Ending

LEMMA StopTells ==
    ASSUME MaxFaults \in {0, 1}, ServiceInv, ServiceTold, Service!Stop
    PROVE  ServiceTold'
BY DEF Service!Stop, ServiceTold, Service!BeginStop, Service!EndStop, Service!channelVars,
       Abandoned, Service!GroupRuns, StateSaved, Service!Kill, Service!Up, Service!Dying

LEMMA ReapTells ==
    ASSUME MaxFaults \in {0, 1}, ServiceInv, ServiceTold, Service!Reap
    PROVE  ServiceTold'
BY DEF Service!Reap, ServiceTold, Service!Ending

LEMMA DiscardTells ==
    ASSUME MaxFaults \in {0, 1}, ServiceInv, ServiceTold, Service!Discard
    PROVE  ServiceTold'
BY DEF Service!Discard, ServiceInv, ServiceTold, Service!Fail, Service!GroupAlive,
       Service!channelVars, Service!processVars, ServiceFolder, ServiceGroup, ServiceKnown,
       ServiceStop, Service!ServiceTypeOK, Abandoned, Service!Ending, Service!GroupRuns,
       StateSaved, Service!Starting, Service!Up, Service!Identified, NoGroupYet,
       Service!SavedMembers, Service!Members, Service!Dying

LEMMA SaveTells ==
    ASSUME MaxFaults \in {0, 1}, ServiceInv, ServiceTold, Service!Save
    PROVE  ServiceTold'
BY DEF Service!Save, ServiceTold, Service!Ending

LEMMA AdoptTells ==
    ASSUME MaxFaults \in {0, 1}, ServiceInv, ServiceTold, Service!Adopt
    PROVE  ServiceTold'
BY DEF Service!Adopt, ServiceTold, Service!Ending

LEMMA AdoptedTells ==
    ASSUME MaxFaults \in {0, 1}, ServiceInv, ServiceTold, Service!Adopted
    PROVE  ServiceTold'
BY DEF Service!Adopted, ServiceTold, Service!Ending

LEMMA ProbeTells ==
    ASSUME MaxFaults \in {0, 1}, ServiceInv, ServiceTold, Service!Probe
    PROVE  ServiceTold'
BY DEF Service!Probe, ServiceInv, ServiceTold, Service!Probed, Service!stateVars, ServiceKnown,
       StateSaved

LEMMA CleanTells ==
    ASSUME MaxFaults \in {0, 1}, ServiceInv, ServiceTold, Service!Clean
    PROVE  ServiceTold'
BY DEF Service!Clean, ServiceTold, Service!Fail

LEMMA PostTells ==
    ASSUME MaxFaults \in {0, 1}, ServiceInv, ServiceTold, Service!Post
    PROVE  ServiceTold'
BY DEF Service!Post, ServiceInv, ServiceTold, Service!channelVars, Service!processVars,
       Service!ServiceTypeOK, Abandoned, Service!Ending, Service!GroupRuns, StateSaved,
       Service!Identified, Service!Up, Service!Dying

LEMMA RemoveTells ==
    ASSUME MaxFaults \in {0, 1}, ServiceInv, ServiceTold, Service!Remove
    PROVE  ServiceTold'
BY DEF Service!Remove, ServiceInv, ServiceTold, Service!processVars, ServiceFolder, Abandoned,
       Service!Ending, Service!GroupRuns, StateSaved, Service!Up

LEMMA AnchorStartsTells ==
    ASSUME MaxFaults \in {0, 1}, ServiceInv, ServiceTold, Service!AnchorStarts
    PROVE  ServiceTold'
BY DEF Service!AnchorStarts, ServiceInv, ServiceTold, Service!Kill, Service!Members, Service!Up,
       Service!groupUnchanged, Service!ServiceTypeOK, Abandoned, Service!GroupRuns, StateSaved,
       Service!stateVars, Service!Dying

LEMMA AnchorAdoptsTells ==
    ASSUME MaxFaults \in {0, 1}, ServiceInv, ServiceTold, Service!AnchorAdopts
    PROVE  ServiceTold'
BY DEF Service!AnchorAdopts, ServiceTold, Service!Up, Service!groupUnchanged, Abandoned,
       Service!GroupRuns, StateSaved, Service!stateVars, Service!Dying

LEMMA AnchorLetGoTells ==
    ASSUME MaxFaults \in {0, 1}, ServiceInv, ServiceTold, Service!AnchorLetGo
    PROVE  ServiceTold'
BY DEF Service!AnchorLetGo, ServiceTold, Service!Kill, Service!Up, Service!groupUnchanged,
       Abandoned, Service!GroupRuns, StateSaved, Service!stateVars

LEMMA ServiceExitsTells ==
    ASSUME MaxFaults \in {0, 1}, ServiceInv, ServiceTold, Service!ServiceExits
    PROVE  ServiceTold'
BY DEF Service!ServiceExits, ServiceTold, Service!Kill, Service!Members, Service!Up,
       Service!groupUnchanged, Abandoned, Service!GroupRuns, StateSaved, Service!stateVars,
       Service!Dying

LEMMA ReuseTells ==
    ASSUME MaxFaults \in {0, 1}, ServiceInv, ServiceTold, Service!Reuse
    PROVE  ServiceTold'
BY DEF Service!Reuse, ServiceTold, Service!GroupRuns, Service!groupUnchanged, Abandoned,
       StateSaved, Service!Up, Service!stateVars

LEMMA KillStepTells ==
    ASSUME MaxFaults \in {0, 1}, ServiceInv, ServiceTold, Service!KillStep
    PROVE  ServiceTold'
BY DEF Service!KillStep, ServiceInv, ServiceTold, Service!processVars, ServiceGroup,
       Service!ServiceTypeOK, Abandoned, Service!GroupRuns, StateSaved, Service!Up, Service!Dying

LEMMA KillMemberTells ==
    ASSUME MaxFaults \in {0, 1}, ServiceInv, ServiceTold, NEW m \in Service!Identified,
             Service!KillMember(m)
    PROVE  ServiceTold'
BY DEF Service!KillMember, ServiceInv, ServiceTold, Service!Kill, Service!Up, Service!stateVars,
       Service!ServiceTypeOK, Abandoned, Service!GroupRuns, StateSaved

LEMMA PostStoppedTells ==
    ASSUME MaxFaults \in {0, 1}, ServiceInv, ServiceTold, Service!PostStopped
    PROVE  ServiceTold'
<1>1. step = "stop" /\ step' \in Service!Ending /\ (told' <=> told \/ stopping = "unverified")
  BY DEF Service!PostStopped, Service!Ending
<1>2. StateSaved' = StateSaved /\ Abandoned' = Abandoned /\ Service!GroupRuns' = Service!GroupRuns
  BY DEF Service!PostStopped, Service!processVars, Service!channelVars, StateSaved, Abandoned,
         Service!GroupRuns, Service!Dying, Service!Up
<1>3. ~told => StateSaved \/ Abandoned
  BY <1>1 DEF ServiceTold, Service!Ending
<1>4. ASSUME ~told' PROVE ~Service!GroupRuns \/ Abandoned
  <2>1. stopping = "stopped"
    BY <1>1, <1>4 DEF Service!PostStopped
  <2>2. ~Service!GroupRuns \/ known = {}
    BY <2>1 DEF ServiceInv, ServiceStop
  <2>3. known = {} => ~StateSaved
    BY <1>1 DEF ServiceInv, ServiceKnown, Service!SavedMembers, StateSaved, Service!Identified
  <2> QED BY <1>1, <1>3, <1>4, <2>2, <2>3
<1> QED BY <1>1, <1>2, <1>3, <1>4 DEF ServiceTold

LEMMA ServiceInitInv == Service!ServiceInit => ServiceInv /\ ServiceTold
<1> SUFFICES ASSUME Service!ServiceInit PROVE ServiceInv /\ ServiceTold
  OBVIOUS
<1>1. Service!ServiceTypeOK
  <2>1. kind \in Kinds /\ step \in Service!Starting \cup Service!Ending
    BY DEF Service!ServiceInit, Service!Starting
  <2>2. tool \in [from : {"none", "missed", "cache", "archive", "unpacked", "installed"},
          sound : BOOLEAN]
    BY DEF Service!ServiceInit
  <2>3. process \in [Service!Members -> {"none", "up", "gone"}]
    BY DEF Service!ServiceInit
  <2>4. {folder, adopted, link, asked, foreign, told, harmed} \subseteq BOOLEAN
    BY DEF Service!ServiceInit
  <2>5. faults \in 0..MaxFaults
    BY ServiceAssumption DEF Service!ServiceInit
  <2> QED BY <2>1, <2>2, <2>3, <2>4, <2>5 DEF Service!ServiceInit, Service!ServiceTypeOK
<1>2. ServiceGroup /\ ServiceStop
  BY DEF Service!ServiceInit, ServiceGroup, ServiceStop, Service!GroupRuns, Service!Up
<1>3. ServiceKnown /\ ServiceFolder
  BY DEF Service!ServiceInit, ServiceKnown, ServiceFolder, NoGroupYet, Service!GroupRuns, Service!Up
<1>4. ServiceTold
  BY DEF Service!ServiceInit, ServiceTold, Service!Ending
<1> QED BY <1>1, <1>2, <1>3, <1>4 DEF ServiceInv

LEMMA ServiceInvStutter == ASSUME ServiceInv, UNCHANGED Service!serviceVars PROVE ServiceInv'
BY DEF Service!serviceVars, ServiceInv, Service!ServiceTypeOK, ServiceGroup, ServiceKnown,
       ServiceStop, ServiceFolder, StateSaved, NoGroupYet, Service!SavedMembers, Service!GroupRuns,
       Service!Up

LEMMA ServiceToldStutter == ASSUME ServiceTold, UNCHANGED Service!serviceVars PROVE ServiceTold'
BY DEF Service!serviceVars, ServiceTold, StateSaved, Abandoned, Service!Dying, Service!GroupRuns,
       Service!Up

LEMMA ServiceInvNext == ASSUME ServiceInv, Service!ServiceNext PROVE ServiceInv'
<1>1. CASE Service!ServiceProgress
  BY <1>1, PrepareKeeps, InstallFailsKeeps, CheckFailsKeeps, SpawnFailsKeeps, SpawnKeeps,
     IdentifyKeeps, ReadyKeeps, DisconnectFailedKeeps, StopKeeps, ReapKeeps, DiscardKeeps,
     SaveKeeps, AdoptKeeps, AdoptedKeeps, ProbeKeeps, CleanKeeps, PostKeeps, PostStoppedKeeps,
     RemoveKeeps
     DEF Service!ServiceProgress
<1>2. CASE Service!Anchor
  BY <1>2, AnchorStartsKeeps, AnchorAdoptsKeeps, AnchorLetGoKeeps DEF Service!Anchor
<1> QED BY <1>1, <1>2, ServiceExitsKeeps, ReuseKeeps, KillStepKeeps, KillMemberKeeps
           DEF Service!ServiceNext

LEMMA ServiceToldNext == ASSUME MaxFaults \in {0, 1}, ServiceInv, ServiceTold,
  Service!ServiceNext PROVE ServiceTold'
<1>1. CASE Service!ServiceProgress
  BY <1>1, PrepareTells, InstallFailsTells, CheckFailsTells, SpawnFailsTells, SpawnTells,
     IdentifyTells, ReadyTells, DisconnectFailedTells, StopTells, ReapTells, DiscardTells,
     SaveTells, AdoptTells, AdoptedTells, ProbeTells, CleanTells, PostTells, PostStoppedTells,
     RemoveTells
     DEF Service!ServiceProgress
<1>2. CASE Service!Anchor
  BY <1>2, AnchorStartsTells, AnchorAdoptsTells, AnchorLetGoTells DEF Service!Anchor
<1> QED BY <1>1, <1>2, ServiceExitsTells, ReuseTells, KillStepTells, KillMemberTells
           DEF Service!ServiceNext

LEMMA ServiceInvSafe == ServiceInv => Service!StrangersSpared /\ Service!FolderKept /\ Service!ToolSound
BY DEF ServiceInv, ServiceGroup, ServiceFolder, Service!StrangersSpared, Service!FolderKept,
       Service!ToolSound

LEMMA ServiceToldSafe == ServiceInv /\ ServiceTold => Service!ServiceSafe
<1>1. ServiceTold => Service!GroupAccounted
  BY DEF ServiceTold, Service!GroupAccounted, Service!ServiceOver, Abandoned
<1> QED BY <1>1, ServiceInvSafe DEF Service!ServiceSafe

-----------------------------------------------------------------------------
(* The resolution of merge conflicts. *)

(* What is integrated is the head that was read, and what is published has *)
(* no conflict marker.                                                     *)
MergeWork ==
    /\ at \in Merge!Attempting \cup Merge!Publishing => checkout = read.head
    /\ ~lost
    /\ at \in {"preflight", "base", "integrate", "continue"} \cup Merge!Publishing => marked = {}
    /\ marked # {} => at \in {"concluding", "over"} \/ marked \subseteq conflicts
    /\ published => at \in {"concluding", "over"} /\ marked = {}

(* The server of the agent runs only between its start and its stop, and   *)
(* the token is there only after that.                                     *)
MergeAgent ==
    /\ lifecycle.stopped => lifecycle.started
    /\ server = "up" => lifecycle.started /\ ~lifecycle.stopped
    /\ at \in {"token", "fetch", "fetched", "push"} => Merge!NoAgent
    /\ token => at \in {"fetch", "fetched", "push", "concluding", "over"} /\ server # "up"
    /\ at = "over" => server # "up"

(* The outcome is open until the resolution is concluded.                  *)
MergeOutcome ==
    /\ outcome # "none" <=> at \in {"concluding", "over"}
    /\ outcome = "updated" /\ request.push => published
    /\ outcome = "no-change" => ~published /\ attempts = 0
    /\ at \in {"preflight", "base", "integrate"} => attempts = 0
    /\ at \in Merge!Attempting \ {"stop"} => attempts > 0

MergeInv == Merge!MergeTypeOK /\ MergeWork /\ MergeAgent /\ MergeOutcome

LEMMA ReadPullRequestKeeps ==
    ASSUME MergeInv, Merge!ReadPullRequest
    PROVE  MergeInv'
<1>1. Merge!MergeTypeOK'
  BY DEF Merge!ReadPullRequest, MergeInv, Merge!GoOn, Merge!agentVars, Merge!pushVars,
         Merge!MergeTypeOK, Merge!Fail, Merge!Revisions
<1>2. MergeWork'
  BY DEF Merge!ReadPullRequest, MergeInv, Merge!GoOn, Merge!pushVars, MergeWork, Merge!Fail,
         Merge!Attempting, Merge!Publishing
<1>3. MergeAgent'
  BY DEF Merge!ReadPullRequest, MergeInv, Merge!GoOn, Merge!agentVars, Merge!pushVars, MergeAgent,
         Merge!Fail
<1>4. MergeOutcome'
  BY DEF Merge!ReadPullRequest, MergeInv, Merge!GoOn, MergeOutcome, Merge!Fail, Merge!Attempting
<1> QED BY <1>1, <1>2, <1>3, <1>4 DEF MergeInv

LEMMA ReadBaseKeeps ==
    ASSUME MergeInv, Merge!ReadBase
    PROVE  MergeInv'
<1>1. Merge!MergeTypeOK'
  BY DEF Merge!ReadBase, MergeInv, Merge!GoOn, Merge!agentVars, Merge!pushVars, Merge!MergeTypeOK,
         Merge!Fail, Merge!Revisions
<1>2. MergeWork'
  BY DEF Merge!ReadBase, MergeInv, Merge!GoOn, Merge!pushVars, MergeWork, Merge!Fail,
         Merge!Attempting, Merge!Publishing
<1>3. MergeAgent'
  BY DEF Merge!ReadBase, MergeInv, Merge!GoOn, Merge!agentVars, Merge!pushVars, MergeAgent,
         Merge!Fail
<1>4. MergeOutcome'
  BY DEF Merge!ReadBase, MergeInv, Merge!GoOn, MergeOutcome, Merge!Fail, Merge!Attempting
<1> QED BY <1>1, <1>2, <1>3, <1>4 DEF MergeInv

LEMMA IntegrateKeeps ==
    ASSUME MergeInv, Merge!Integrate
    PROVE  MergeInv'
<1>1. Merge!MergeTypeOK'
  BY MergeAssumption
     DEF Merge!Integrate, MergeInv, Merge!ConflictSets, Merge!Fail, Merge!HeadUnchanged,
         Merge!agentVars, Merge!pushVars, MergeAgent, MergeOutcome, Merge!MergeTypeOK, MergeWork,
         Merge!Classes, Merge!NoAgent, Merge!Attempting, Merge!Publishing, Merge!Requests,
         Merge!Revisions
<1>2. MergeWork'
  BY MergeAssumption
     DEF Merge!Integrate, MergeInv, Merge!ConflictSets, Merge!Fail, Merge!HeadUnchanged,
         Merge!agentVars, Merge!pushVars, MergeAgent, MergeOutcome, Merge!MergeTypeOK, MergeWork,
         Merge!Classes, Merge!NoAgent, Merge!Attempting, Merge!Publishing, Merge!Requests,
         Merge!Revisions
<1>3. MergeAgent'
  BY DEF Merge!Integrate, MergeInv, Merge!Fail, Merge!agentVars, Merge!pushVars, MergeAgent
<1>4. MergeOutcome'
  BY DEF Merge!Integrate, MergeInv, Merge!Fail, Merge!pushVars, MergeOutcome, MergeWork,
         Merge!Attempting
<1> QED BY <1>1, <1>2, <1>3, <1>4 DEF MergeInv

LEMMA BeginAttemptKeeps ==
    ASSUME MergeInv, Merge!BeginAttempt
    PROVE  MergeInv'
<1>1. Merge!MergeTypeOK'
  BY MergeAssumption
     DEF Merge!BeginAttempt, MergeInv, Merge!Fail, Merge!agentVars, Merge!baseUnchanged,
         Merge!MergeTypeOK, Merge!pushVars, Merge!Attempting
<1>2. MergeWork'
  BY DEF Merge!BeginAttempt, MergeInv, Merge!Fail, Merge!baseUnchanged, Merge!MergeTypeOK,
         MergeWork, Merge!pushVars, Merge!Publishing
<1>3. MergeAgent'
  BY DEF Merge!BeginAttempt, MergeInv, Merge!Fail, Merge!agentVars, Merge!baseUnchanged,
         MergeAgent, Merge!pushVars
<1>4. MergeOutcome'
  BY DEF Merge!BeginAttempt, MergeInv, Merge!Fail, MergeOutcome, Merge!MergeTypeOK, Merge!Attempting
<1> QED BY <1>1, <1>2, <1>3, <1>4 DEF MergeInv

LEMMA RunHandlersKeeps ==
    ASSUME MergeInv, Merge!RunHandlers
    PROVE  MergeInv'
<1>1. Merge!MergeTypeOK'
  BY MergeAssumption
     DEF Merge!RunHandlers, MergeInv, Merge!GoOn, Merge!Resolve, Merge!agentVars,
         Merge!baseUnchanged, MergeAgent, MergeOutcome, Merge!MergeTypeOK, MergeWork, Merge!Fail,
         Merge!pushVars, Merge!NoAgent, Merge!Attempting, Merge!Classes, Merge!Publishing,
         Merge!Requests, Merge!Revisions
<1>2. MergeWork'
  BY MergeAssumption
     DEF Merge!RunHandlers, MergeInv, Merge!GoOn, Merge!Resolve, Merge!agentVars,
         Merge!baseUnchanged, MergeAgent, MergeOutcome, Merge!MergeTypeOK, MergeWork, Merge!Fail,
         Merge!pushVars, Merge!NoAgent, Merge!Attempting, Merge!Classes, Merge!Publishing,
         Merge!Requests, Merge!Revisions
<1>3. MergeAgent'
  BY DEF Merge!RunHandlers, MergeInv, Merge!GoOn, Merge!agentVars, Merge!baseUnchanged, MergeAgent,
         Merge!Fail, Merge!pushVars
<1>4. MergeOutcome'
  BY DEF Merge!RunHandlers, MergeInv, Merge!GoOn, MergeOutcome, Merge!Fail, Merge!Attempting
<1> QED BY <1>1, <1>2, <1>3, <1>4 DEF MergeInv

LEMMA StartAgentKeeps ==
    ASSUME MergeInv, Merge!StartAgent
    PROVE  MergeInv'
<1>1. Merge!MergeTypeOK'
  BY MergeAssumption
     DEF Merge!StartAgent, MergeInv, Merge!Fail, Merge!baseUnchanged, MergeAgent, MergeOutcome,
         Merge!MergeTypeOK, MergeWork, Merge!pushVars, Merge!NoAgent, Merge!Attempting,
         Merge!Classes, Merge!Publishing, Merge!Requests, Merge!Revisions
<1>2. MergeWork'
  BY DEF Merge!StartAgent, MergeInv, Merge!Fail, Merge!baseUnchanged, Merge!MergeTypeOK, MergeWork,
         Merge!pushVars, Merge!Publishing
<1>3. MergeAgent'
  <2>1. ~lifecycle.stopped
    BY DEF MergeInv, MergeAgent, Merge!StartAgent
  <2>2. lifecycle'.started /\ lifecycle'.stopped = lifecycle.stopped
    BY DEF Merge!StartAgent
  <2>3. server # "up" /\ ~token /\ at = "agent"
    BY DEF MergeInv, MergeAgent, Merge!StartAgent
  <2>4. at' \in {"agent", "concluding"} /\ (server' # server => server' = "up") /\ token' = token
    BY DEF Merge!StartAgent, Merge!Fail, Merge!baseUnchanged, Merge!pushVars
  <2> QED BY <2>1, <2>2, <2>3, <2>4 DEF MergeAgent
<1>4. MergeOutcome'
  BY DEF Merge!StartAgent, MergeInv, Merge!Fail, MergeOutcome, Merge!Attempting
<1> QED BY <1>1, <1>2, <1>3, <1>4 DEF MergeInv

LEMMA PrepareAgentKeeps ==
    ASSUME MergeInv, Merge!PrepareAgent
    PROVE  MergeInv'
<1>1. Merge!MergeTypeOK'
  BY DEF Merge!PrepareAgent, MergeInv, Merge!GoOn, Merge!agentVars, Merge!baseUnchanged,
         Merge!MergeTypeOK, Merge!Fail, Merge!pushVars, Merge!Attempting
<1>2. MergeWork'
  BY DEF Merge!PrepareAgent, MergeInv, Merge!GoOn, Merge!baseUnchanged, Merge!MergeTypeOK,
         MergeWork, Merge!Fail, Merge!pushVars, Merge!Publishing
<1>3. MergeAgent'
  BY DEF Merge!PrepareAgent, MergeInv, Merge!GoOn, Merge!agentVars, Merge!baseUnchanged,
         MergeAgent, Merge!Fail, Merge!pushVars
<1>4. MergeOutcome'
  BY DEF Merge!PrepareAgent, MergeInv, Merge!GoOn, MergeOutcome, Merge!Fail, Merge!Attempting
<1> QED BY <1>1, <1>2, <1>3, <1>4 DEF MergeInv

LEMMA AgentResolvesKeeps ==
    ASSUME MergeInv, Merge!AgentResolves
    PROVE  MergeInv'
<1>1. Merge!MergeTypeOK'
  BY DEF Merge!AgentResolves, MergeInv, Merge!GoOn, Merge!Resolve, Merge!agentVars,
         Merge!baseUnchanged, Merge!MergeTypeOK, Merge!Fail, Merge!pushVars, Merge!Attempting
<1>2. MergeWork'
  BY DEF Merge!AgentResolves, MergeInv, Merge!GoOn, Merge!Resolve, Merge!baseUnchanged,
         Merge!MergeTypeOK, MergeWork, Merge!Fail, Merge!pushVars, Merge!Publishing
<1>3. MergeAgent'
  BY DEF Merge!AgentResolves, MergeInv, Merge!GoOn, Merge!agentVars, Merge!baseUnchanged,
         MergeAgent, Merge!Fail, Merge!pushVars
<1>4. MergeOutcome'
  BY DEF Merge!AgentResolves, MergeInv, Merge!GoOn, MergeOutcome, Merge!Fail, Merge!Attempting
<1> QED BY <1>1, <1>2, <1>3, <1>4 DEF MergeInv

LEMMA RegenerateKeeps ==
    ASSUME MergeInv, Merge!Regenerate
    PROVE  MergeInv'
<1>1. Merge!MergeTypeOK'
  BY MergeAssumption
     DEF Merge!Regenerate, MergeInv, Merge!GoOn, Merge!agentVars, Merge!baseUnchanged, MergeAgent,
         MergeOutcome, Merge!MergeTypeOK, MergeWork, Merge!Fail, Merge!pushVars, Merge!NoAgent,
         Merge!Attempting, Merge!Classes, Merge!Publishing, Merge!Requests, Merge!Revisions
<1>2. MergeWork'
  BY MergeAssumption
     DEF Merge!Regenerate, MergeInv, Merge!GoOn, Merge!agentVars, Merge!baseUnchanged, MergeAgent,
         MergeOutcome, Merge!MergeTypeOK, MergeWork, Merge!Fail, Merge!pushVars, Merge!NoAgent,
         Merge!Attempting, Merge!Classes, Merge!Publishing, Merge!Requests, Merge!Revisions
<1>3. MergeAgent'
  BY DEF Merge!Regenerate, MergeInv, Merge!GoOn, Merge!agentVars, Merge!baseUnchanged, MergeAgent,
         Merge!Fail, Merge!pushVars
<1>4. MergeOutcome'
  BY DEF Merge!Regenerate, MergeInv, Merge!GoOn, MergeOutcome, Merge!Fail, Merge!Attempting
<1> QED BY <1>1, <1>2, <1>3, <1>4 DEF MergeInv

LEMMA StageResolvedKeeps ==
    ASSUME MergeInv, Merge!StageResolved
    PROVE  MergeInv'
<1>1. Merge!MergeTypeOK'
  BY DEF Merge!StageResolved, MergeInv, Merge!GoOn, Merge!agentVars, Merge!baseUnchanged,
         Merge!MergeTypeOK, Merge!Fail, Merge!pushVars, Merge!Attempting
<1>2. MergeWork'
  BY DEF Merge!StageResolved, MergeInv, Merge!GoOn, Merge!baseUnchanged, Merge!MergeTypeOK,
         MergeWork, Merge!Fail, Merge!pushVars, Merge!Publishing
<1>3. MergeAgent'
  BY DEF Merge!StageResolved, MergeInv, Merge!GoOn, Merge!agentVars, Merge!baseUnchanged,
         MergeAgent, Merge!Fail, Merge!pushVars
<1>4. MergeOutcome'
  BY DEF Merge!StageResolved, MergeInv, Merge!GoOn, MergeOutcome, Merge!Fail, Merge!Attempting
<1> QED BY <1>1, <1>2, <1>3, <1>4 DEF MergeInv

LEMMA ValidateStagedKeeps ==
    ASSUME MergeInv, Merge!ValidateStaged
    PROVE  MergeInv'
<1>1. Merge!MergeTypeOK'
  BY DEF Merge!ValidateStaged, MergeInv, Merge!Fail, Merge!agentVars, Merge!baseUnchanged,
         Merge!MergeTypeOK, Merge!pushVars, Merge!Attempting, Merge!Publishing
<1>2. MergeWork'
  BY DEF Merge!ValidateStaged, MergeInv, Merge!Clean, Merge!Fail, Merge!baseUnchanged,
         Merge!MergeTypeOK, MergeWork, Merge!pushVars, Merge!Publishing
<1>3. MergeAgent'
  BY DEF Merge!ValidateStaged, MergeInv, Merge!Fail, Merge!agentVars, Merge!baseUnchanged,
         MergeAgent, Merge!pushVars
<1>4. MergeOutcome'
  BY DEF Merge!ValidateStaged, MergeInv, Merge!Fail, MergeOutcome, Merge!Attempting
<1> QED BY <1>1, <1>2, <1>3, <1>4 DEF MergeInv

LEMMA ContinueRebaseKeeps ==
    ASSUME MergeInv, Merge!ContinueRebase
    PROVE  MergeInv'
<1>1. Merge!MergeTypeOK'
  BY MergeAssumption
     DEF Merge!ContinueRebase, MergeInv, Merge!ConflictSets, Merge!GoOn, Merge!agentVars,
         Merge!baseUnchanged, MergeAgent, MergeOutcome, Merge!MergeTypeOK, MergeWork,
         Merge!Classes, Merge!Fail, Merge!pushVars, Merge!NoAgent, Merge!Attempting,
         Merge!Publishing, Merge!Requests, Merge!Revisions
<1>2. MergeWork'
  BY MergeAssumption
     DEF Merge!ContinueRebase, MergeInv, Merge!ConflictSets, Merge!GoOn, Merge!agentVars,
         Merge!baseUnchanged, MergeAgent, MergeOutcome, Merge!MergeTypeOK, MergeWork,
         Merge!Classes, Merge!Fail, Merge!pushVars, Merge!NoAgent, Merge!Attempting,
         Merge!Publishing, Merge!Requests, Merge!Revisions
<1>3. MergeAgent'
  BY DEF Merge!ContinueRebase, MergeInv, Merge!GoOn, Merge!agentVars, Merge!baseUnchanged,
         MergeAgent, Merge!Fail, Merge!pushVars
<1>4. MergeOutcome'
  BY DEF Merge!ContinueRebase, MergeInv, Merge!GoOn, MergeOutcome, Merge!Fail, Merge!Attempting
<1> QED BY <1>1, <1>2, <1>3, <1>4 DEF MergeInv

LEMMA CommitKeeps ==
    ASSUME MergeInv, Merge!Commit
    PROVE  MergeInv'
<1>1. Merge!MergeTypeOK'
  BY DEF Merge!Commit, MergeInv, Merge!GoOn, Merge!agentVars, Merge!pushVars, Merge!workUnchanged,
         Merge!MergeTypeOK, Merge!Fail, Merge!Publishing
<1>2. MergeWork'
  BY DEF Merge!Commit, MergeInv, Merge!pushVars, Merge!workUnchanged, Merge!MergeTypeOK, MergeWork,
         Merge!Attempting
<1>3. MergeAgent'
  BY DEF Merge!Commit, MergeInv, Merge!GoOn, Merge!agentVars, Merge!pushVars, MergeAgent, Merge!Fail
<1>4. MergeOutcome'
  BY DEF Merge!Commit, MergeInv, Merge!GoOn, MergeOutcome, Merge!Fail, Merge!Attempting
<1> QED BY <1>1, <1>2, <1>3, <1>4 DEF MergeInv

LEMMA StopForPushKeeps ==
    ASSUME MergeInv, Merge!StopForPush
    PROVE  MergeInv'
<1>1. Merge!MergeTypeOK'
  BY MergeAssumption
     DEF Merge!StopForPush, MergeInv, Merge!Fail, Merge!NoAgent, Merge!StopAgent, Merge!agentVars,
         Merge!pushVars, Merge!workUnchanged, MergeAgent, MergeOutcome, Merge!MergeTypeOK,
         MergeWork, Merge!Attempting, Merge!Classes, Merge!Publishing, Merge!Requests,
         Merge!Revisions
<1>2. MergeWork'
  BY DEF Merge!StopForPush, MergeInv, Merge!pushVars, Merge!workUnchanged, Merge!MergeTypeOK,
         MergeWork, Merge!Attempting
<1>3. MergeAgent'
  BY DEF Merge!StopForPush, MergeInv, Merge!Fail, Merge!NoAgent, Merge!StopAgent, Merge!agentVars,
         Merge!pushVars, MergeAgent, Merge!MergeTypeOK
<1>4. MergeOutcome'
  BY DEF Merge!StopForPush, MergeInv, Merge!Fail, MergeOutcome, Merge!Attempting
<1> QED BY <1>1, <1>2, <1>3, <1>4 DEF MergeInv

LEMMA NoPushKeeps ==
    ASSUME MergeInv, Merge!NoPush
    PROVE  MergeInv'
<1>1. Merge!MergeTypeOK'
  BY DEF Merge!NoPush, MergeInv, Merge!agentVars, Merge!pushVars, Merge!workUnchanged,
         Merge!MergeTypeOK
<1>2. MergeWork'
  BY DEF Merge!NoPush, MergeInv, Merge!pushVars, Merge!workUnchanged, Merge!MergeTypeOK, MergeWork,
         Merge!Attempting
<1>3. MergeAgent'
  BY DEF Merge!NoPush, MergeInv, Merge!agentVars, Merge!pushVars, MergeAgent
<1>4. MergeOutcome'
  BY DEF Merge!NoPush, Merge!workUnchanged, MergeOutcome, Merge!Attempting
<1> QED BY <1>1, <1>2, <1>3, <1>4 DEF MergeInv

LEMMA BeforePushKeeps ==
    ASSUME MergeInv, Merge!BeforePush
    PROVE  MergeInv'
<1>1. Merge!MergeTypeOK'
  BY DEF Merge!BeforePush, MergeInv, Merge!agentVars, Merge!workUnchanged, Merge!MergeTypeOK,
         Merge!Publishing
<1>2. MergeWork'
  BY DEF Merge!BeforePush, MergeInv, Merge!workUnchanged, Merge!MergeTypeOK, MergeWork,
         Merge!Attempting
<1>3. MergeAgent'
  BY DEF Merge!BeforePush, MergeInv, Merge!agentVars, MergeAgent, Merge!NoAgent
<1>4. MergeOutcome'
  BY DEF Merge!BeforePush, MergeInv, MergeOutcome, Merge!Attempting
<1> QED BY <1>1, <1>2, <1>3, <1>4 DEF MergeInv

LEMMA CheckBaseKeeps ==
    ASSUME MergeInv, Merge!CheckBase
    PROVE  MergeInv'
<1>1. Merge!MergeTypeOK'
  BY DEF Merge!CheckBase, MergeInv, Merge!Fail, Merge!agentVars, Merge!pushVars,
         Merge!workUnchanged, Merge!MergeTypeOK, Merge!Publishing
<1>2. MergeWork'
  BY DEF Merge!CheckBase, MergeInv, Merge!pushVars, Merge!workUnchanged, Merge!MergeTypeOK,
         MergeWork, Merge!Attempting
<1>3. MergeAgent'
  BY DEF Merge!CheckBase, MergeInv, Merge!Fail, Merge!agentVars, MergeAgent, Merge!NoAgent
<1>4. MergeOutcome'
  BY DEF Merge!CheckBase, MergeInv, Merge!Fail, MergeOutcome, Merge!Attempting
<1> QED BY <1>1, <1>2, <1>3, <1>4 DEF MergeInv

LEMMA CheckHeadKeeps ==
    ASSUME MergeInv, Merge!CheckHead
    PROVE  MergeInv'
<1>1. Merge!MergeTypeOK'
  BY DEF Merge!CheckHead, MergeInv, Merge!Fail, Merge!agentVars, Merge!pushVars,
         Merge!workUnchanged, Merge!MergeTypeOK, Merge!Publishing
<1>2. MergeWork'
  BY DEF Merge!CheckHead, MergeInv, Merge!pushVars, Merge!workUnchanged, Merge!MergeTypeOK,
         MergeWork, Merge!Attempting
<1>3. MergeAgent'
  BY DEF Merge!CheckHead, MergeInv, Merge!Fail, Merge!agentVars, MergeAgent, Merge!NoAgent
<1>4. MergeOutcome'
  BY DEF Merge!CheckHead, MergeInv, Merge!Fail, MergeOutcome, Merge!Attempting
<1> QED BY <1>1, <1>2, <1>3, <1>4 DEF MergeInv

LEMMA PushKeeps ==
    ASSUME MergeInv, Merge!Push
    PROVE  MergeInv'
<1>1. Merge!MergeTypeOK'
  BY MergeAssumption
     DEF Merge!Push, MergeInv, Merge!Fail, Merge!Lease, Merge!agentVars, Merge!workUnchanged,
         MergeAgent, MergeOutcome, Merge!MergeTypeOK, MergeWork, Merge!NoAgent, Merge!Attempting,
         Merge!Classes, Merge!Publishing, Merge!Requests, Merge!Revisions
<1>2. MergeWork'
  BY DEF Merge!Push, MergeInv, Merge!Fail, Merge!Lease, Merge!workUnchanged, Merge!MergeTypeOK,
         MergeWork, Merge!Attempting
<1>3. MergeAgent'
  BY DEF Merge!Push, MergeInv, Merge!Fail, Merge!agentVars, MergeAgent
<1>4. MergeOutcome'
  BY DEF Merge!Push, Merge!Fail, MergeOutcome, Merge!Attempting
<1> QED BY <1>1, <1>2, <1>3, <1>4 DEF MergeInv

LEMMA ConcludeKeeps ==
    ASSUME MergeInv, Merge!Conclude
    PROVE  MergeInv'
<1>1. Merge!MergeTypeOK'
  BY MergeAssumption
     DEF Merge!Conclude, MergeInv, Merge!NoAgent, Merge!StopAgent, Merge!agentVars, Merge!pushVars,
         Merge!workUnchanged, MergeAgent, MergeOutcome, Merge!MergeTypeOK, MergeWork,
         Merge!Attempting, Merge!Classes, Merge!Publishing, Merge!Requests, Merge!Revisions
<1>2. MergeWork'
  BY DEF Merge!Conclude, MergeInv, Merge!pushVars, Merge!workUnchanged, MergeWork,
         Merge!Attempting, Merge!Publishing
<1>3. MergeAgent'
  BY DEF Merge!Conclude, MergeInv, Merge!NoAgent, Merge!StopAgent, Merge!agentVars, MergeAgent,
         Merge!MergeTypeOK
<1>4. MergeOutcome'
  BY DEF Merge!Conclude, MergeInv, Merge!pushVars, Merge!workUnchanged, MergeOutcome,
         Merge!Attempting
<1> QED BY <1>1, <1>2, <1>3, <1>4 DEF MergeInv

LEMMA OthersPushKeeps ==
    ASSUME MergeInv, Merge!OthersPush
    PROVE  MergeInv'
<1>1. Merge!MergeTypeOK'
  BY MergeAssumption
     DEF Merge!OthersPush, MergeInv, Merge!agentVars, Merge!pushVars, Merge!workUnchanged,
         Merge!MergeTypeOK, Merge!Revisions
<1>2. MergeWork'
  BY DEF Merge!OthersPush, MergeInv, Merge!pushVars, Merge!workUnchanged, MergeWork
<1>3. MergeAgent'
  BY DEF Merge!OthersPush, MergeInv, Merge!agentVars, Merge!pushVars, MergeAgent, Merge!NoAgent
<1>4. MergeOutcome'
  BY DEF Merge!OthersPush, MergeInv, Merge!pushVars, Merge!workUnchanged, MergeOutcome
<1> QED BY <1>1, <1>2, <1>3, <1>4 DEF MergeInv

LEMMA MergeInitInv == Merge!MergeInit => MergeInv
<1> SUFFICES ASSUME Merge!MergeInit PROVE MergeInv
  OBVIOUS
<1>1. Merge!MergeTypeOK
  <2> USE MergeAssumption DEF Merge!MergeInit
  <2>1. remote \in Merge!Revisions /\ read \in Merge!Revisions /\ checkout \in 0..MaxMoves
    BY DEF Merge!Revisions
  <2>2. conflicts \in SUBSET Merge!Classes /\ marked \in SUBSET Merge!Classes
          /\ attempts \in 0..MaxAttempts
    OBVIOUS
  <2>3. lifecycle \in [started : BOOLEAN, stopped : BOOLEAN]
    OBVIOUS
  <2> QED BY <2>1, <2>2, <2>3 DEF Merge!MergeTypeOK
<1>2. MergeWork
  BY DEF Merge!MergeInit, MergeWork
<1>3. MergeAgent
  BY DEF Merge!MergeInit, MergeAgent
<1>4. MergeOutcome
  BY DEF Merge!MergeInit, MergeOutcome, Merge!Attempting
<1> QED BY <1>1, <1>2, <1>3, <1>4 DEF MergeInv

LEMMA MergeInvNext ==
    ASSUME MergeInv, [Merge!MergeNext]_Merge!mergeVars
    PROVE  MergeInv'
<1>1. CASE UNCHANGED Merge!mergeVars
  BY <1>1
     DEF Merge!mergeVars, MergeInv, Merge!MergeTypeOK, MergeWork, MergeAgent, MergeOutcome,
         Merge!NoAgent
<1>2. CASE Merge!MergeNext
  BY <1>2, ReadPullRequestKeeps, ReadBaseKeeps, IntegrateKeeps, BeginAttemptKeeps,
     RunHandlersKeeps, StartAgentKeeps, PrepareAgentKeeps, AgentResolvesKeeps, RegenerateKeeps,
     StageResolvedKeeps, ValidateStagedKeeps, ContinueRebaseKeeps, CommitKeeps, StopForPushKeeps,
     NoPushKeeps, BeforePushKeeps, CheckBaseKeeps, CheckHeadKeeps, PushKeeps, ConcludeKeeps,
     OthersPushKeeps
     DEF Merge!MergeNext, Merge!MergeProgress
<1> QED BY <1>1, <1>2

LEMMA MergeInvSafe == MergeInv => Merge!MergeSafe
<1>1. MergeInv => Merge!NothingLost /\ Merge!PublishedResolved /\ Merge!AgentKeptOut
  BY DEF MergeInv, MergeWork, MergeAgent, Merge!NothingLost, Merge!PublishedResolved,
         Merge!AgentKeptOut
<1>2. MergeInv => Merge!ResultTruthful
  BY DEF MergeInv, MergeOutcome, Merge!ResultTruthful
<1> QED BY <1>1, <1>2 DEF Merge!MergeSafe

LEMMA PhaseThen ==
    /\ at' \in {"preflight", "base"} => Merge!Phase' = "ready"
    /\ at' = "integrate" => Merge!Phase' = "integrating"
    /\ at' = "stop" => Merge!Phase' = "conflicted"
    /\ at' \in {"handlers", "agent"} => Merge!Phase' = "preparing"
    /\ at' \in {"resolve", "lockfile"} => Merge!Phase' = "resolving"
    /\ at' \in {"validate", "staged"} => Merge!Phase' = "validating"
    /\ at' = "continue" => Merge!Phase' = "continuing"
    /\ at' \in Merge!Publishing => Merge!Phase' = Merge!Publish'
    /\ at' = "concluding" => Merge!Phase' = IF outcome' = "error" THEN "failed" ELSE Merge!Publish'
    /\ at' = "over" => Merge!Phase' = IF outcome' = "error" THEN "failed" ELSE "completed"
BY DEF Merge!Phase, Merge!Publishing

LEMMA PhaseNow ==
    /\ at \in {"preflight", "base"} => Merge!Phase = "ready"
    /\ at = "integrate" => Merge!Phase = "integrating"
    /\ at = "stop" => Merge!Phase = "conflicted"
    /\ at \in {"handlers", "agent"} => Merge!Phase = "preparing"
    /\ at \in {"resolve", "lockfile"} => Merge!Phase = "resolving"
    /\ at \in {"validate", "staged"} => Merge!Phase = "validating"
    /\ at = "continue" => Merge!Phase = "continuing"
    /\ at \in Merge!Publishing => Merge!Phase = Merge!Publish
    /\ at = "concluding" => Merge!Phase = IF outcome = "error" THEN "failed" ELSE Merge!Publish
    /\ at = "over" => Merge!Phase = IF outcome = "error" THEN "failed" ELSE "completed"
BY DEF Merge!Phase, Merge!Publishing

LEMMA PhaseInit == Merge!MergeInit => Merge!Machine!StateInit
BY PhaseNow DEF Merge!MergeInit, Merge!Machine!StateInit

LEMMA PublishStays == attempts' = attempts => Merge!Publish' = Merge!Publish
  /\ Merge!Publish \in {"integrating", "continuing"}
BY DEF Merge!Publish

LEMMA FailFollows ==
    ASSUME MergeInv, at \notin {"concluding", "over"}, Merge!Fail, attempts' = attempts
    PROVE  Merge!Machine!StateNext
<1>1. Merge!Phase' = "failed"
  BY PhaseThen DEF Merge!Fail
<1>2. Merge!Phase \in {"ready", "integrating", "conflicted", "preparing", "resolving", "validating",
        "continuing"}
  BY PhaseNow, PublishStays DEF MergeInv, Merge!MergeTypeOK, Merge!Attempting
<1> QED BY <1>1, <1>2 DEF Merge!Machine!StateNext, Merge!Machine!Terminal

LEMMA StayFollows ==
    ASSUME at' = at, outcome' = outcome, attempts' = attempts
    PROVE  UNCHANGED Merge!Machine!stateVars
<1>1. Merge!Phase' = Merge!Phase
  BY DEF Merge!Phase
<1> QED BY <1>1 DEF Merge!Machine!stateVars

LEMMA PublishFollows ==
    ASSUME at \in Merge!Publishing, at' \in Merge!Publishing, attempts' = attempts
    PROVE  UNCHANGED Merge!Machine!stateVars
<1>1. Merge!Phase' = Merge!Phase
  BY PhaseNow, PhaseThen, PublishStays
<1> QED BY <1>1 DEF Merge!Machine!stateVars

LEMMA IntegrateFollows == MergeInv /\ Merge!Integrate
  => [Merge!Machine!StateNext]_Merge!Machine!stateVars
<1> SUFFICES ASSUME MergeInv, Merge!Integrate PROVE [Merge!Machine!StateNext]_Merge!Machine!stateVars
  OBVIOUS
<1>1. at = "integrate" /\ Merge!Phase = "integrating" /\ attempts' = attempts /\ attempts = 0
  BY PhaseNow DEF Merge!Integrate, MergeInv, MergeOutcome
<1>2. CASE Merge!Fail
  BY <1>1, <1>2, FailFollows
<1>3. CASE at' = "stop"
  <2>1. Merge!Phase' = "conflicted"
    BY <1>3, PhaseThen
  <2> QED BY <1>1, <2>1 DEF Merge!Machine!StateNext, Merge!Machine!Event
<1>4. CASE at' = "resolved" \/ (at' = "concluding" /\ outcome' = "no-change")
  <2>1. Merge!Phase' = "integrating"
    BY <1>4, <1>1, PhaseThen DEF Merge!Publishing, Merge!Publish
  <2> QED BY <1>1, <2>1 DEF Merge!Machine!stateVars
<1> QED BY <1>2, <1>3, <1>4 DEF Merge!Integrate

LEMMA ValidateStagedFollows == MergeInv /\ Merge!ValidateStaged
  => [Merge!Machine!StateNext]_Merge!Machine!stateVars
<1> SUFFICES ASSUME MergeInv, Merge!ValidateStaged PROVE [Merge!Machine!StateNext]_Merge!Machine!stateVars
  OBVIOUS
<1>1. at = "staged" /\ Merge!Phase = "validating" /\ attempts' = attempts
  BY PhaseNow DEF Merge!ValidateStaged
<1>2. CASE Merge!Fail
  BY <1>1, <1>2, FailFollows
<1>3. CASE at' \in {"resolved", "continue"}
  <2>1. attempts # 0
    BY <1>1 DEF MergeInv, MergeOutcome, Merge!Attempting
  <2>2. Merge!Phase' = "continuing"
    BY <1>1, <1>3, <2>1, PhaseThen DEF Merge!Publishing, Merge!Publish
  <2> QED BY <1>1, <2>2 DEF Merge!Machine!StateNext, Merge!Machine!Event
<1> QED BY <1>2, <1>3 DEF Merge!ValidateStaged

LEMMA ContinueRebaseFollows == MergeInv /\ Merge!ContinueRebase
  => [Merge!Machine!StateNext]_Merge!Machine!stateVars
<1> SUFFICES ASSUME MergeInv, Merge!ContinueRebase PROVE [Merge!Machine!StateNext]_Merge!Machine!stateVars
  OBVIOUS
<1>1. at = "continue" /\ Merge!Phase = "continuing" /\ attempts' = attempts
  BY PhaseNow DEF Merge!ContinueRebase
<1>2. CASE Merge!Fail
  BY <1>1, <1>2, FailFollows
<1>3. CASE at' = "resolved"
  <2>1. attempts # 0
    BY <1>1 DEF MergeInv, MergeOutcome, Merge!Attempting
  <2>2. Merge!Phase' = "continuing"
    BY <1>1, <1>3, <2>1, PhaseThen DEF Merge!Publishing, Merge!Publish
  <2> QED BY <1>1, <2>2 DEF Merge!Machine!stateVars
<1>4. CASE at' = "stop"
  <2>1. Merge!Phase' = "conflicted"
    BY <1>4, PhaseThen
  <2> QED BY <1>1, <2>1 DEF Merge!Machine!StateNext, Merge!Machine!Event
<1> QED BY <1>2, <1>3, <1>4 DEF Merge!ContinueRebase, Merge!GoOn

LEMMA PublishingFollows ==
    ASSUME MergeInv,
           Merge!Commit \/ Merge!StopForPush \/ Merge!NoPush \/ Merge!BeforePush \/ Merge!CheckBase
             \/ Merge!CheckHead \/ Merge!Push
    PROVE  [Merge!Machine!StateNext]_Merge!Machine!stateVars
<1>1. at \in Merge!Publishing /\ attempts' = attempts /\ at \notin {"concluding", "over"}
  BY DEF Merge!Commit, Merge!StopForPush, Merge!NoPush, Merge!BeforePush, Merge!CheckBase,
         Merge!CheckHead, Merge!Push, Merge!workUnchanged, Merge!Publishing
<1>2. Merge!Fail \/ at' \in Merge!Publishing \/ (at' = "concluding" /\ outcome' = "updated")
  BY DEF Merge!Commit, Merge!StopForPush, Merge!NoPush, Merge!BeforePush, Merge!CheckBase,
         Merge!CheckHead, Merge!Push, Merge!Publishing, Merge!GoOn
<1>3. CASE at' = "concluding" /\ outcome' = "updated"
  <2>1. Merge!Phase' = Merge!Phase
    BY <1>1, <1>3, PhaseNow, PhaseThen, PublishStays
  <2> QED BY <1>1, <2>1 DEF Merge!Machine!stateVars
<1> QED BY <1>1, <1>2, <1>3, FailFollows, PublishFollows

LEMMA ConcludeFollows == MergeInv /\ Merge!Conclude => [Merge!Machine!StateNext]_Merge!Machine!stateVars
<1> SUFFICES ASSUME MergeInv, Merge!Conclude PROVE [Merge!Machine!StateNext]_Merge!Machine!stateVars
  OBVIOUS
<1>1. at = "concluding" /\ at' = "over" /\ attempts' = attempts /\ outcome' \in {"error", outcome}
  BY DEF Merge!Conclude, Merge!workUnchanged
<1>2. Merge!Phase = (IF outcome = "error" THEN "failed" ELSE Merge!Publish)
        /\ Merge!Phase' = IF outcome' = "error" THEN "failed" ELSE "completed"
  BY <1>1, PhaseNow, PhaseThen
<1>3. CASE outcome = "error"
  BY <1>1, <1>2, <1>3 DEF Merge!Machine!stateVars
<1>4. CASE outcome # "error"
  BY <1>1, <1>2, <1>4, PublishStays
     DEF Merge!Machine!StateNext, Merge!Machine!Event, Merge!Machine!Terminal
<1> QED BY <1>3, <1>4

LEMMA OthersPushFollows == Merge!OthersPush => [Merge!Machine!StateNext]_Merge!Machine!stateVars
BY StayFollows DEF Merge!OthersPush, Merge!workUnchanged

LEMMA ReadPullRequestFollows == MergeInv /\ Merge!ReadPullRequest
  => [Merge!Machine!StateNext]_Merge!Machine!stateVars
BY PhaseNow, PhaseThen
   DEF Merge!ReadPullRequest, Merge!GoOn, Merge!Fail, Merge!Machine!StateNext,
       Merge!Machine!stateVars, Merge!Machine!Terminal

LEMMA ReadBaseFollows == MergeInv /\ Merge!ReadBase => [Merge!Machine!StateNext]_Merge!Machine!stateVars
BY PhaseNow, PhaseThen
   DEF Merge!ReadBase, Merge!GoOn, Merge!Fail, Merge!Machine!StateNext, Merge!Machine!Event,
       Merge!Machine!Terminal

LEMMA BeginAttemptFollows == MergeInv /\ Merge!BeginAttempt
  => [Merge!Machine!StateNext]_Merge!Machine!stateVars
BY PhaseNow, PhaseThen
   DEF Merge!BeginAttempt, Merge!Fail, Merge!Machine!StateNext, Merge!Machine!AttemptStarted,
       Merge!Machine!Terminal

LEMMA RunHandlersFollows == MergeInv /\ Merge!RunHandlers
  => [Merge!Machine!StateNext]_Merge!Machine!stateVars
BY PhaseNow, PhaseThen
   DEF Merge!RunHandlers, Merge!GoOn, Merge!Fail, Merge!Machine!StateNext, Merge!Machine!stateVars,
       Merge!Machine!Event, Merge!Machine!Terminal

LEMMA StartAgentFollows == MergeInv /\ Merge!StartAgent
  => [Merge!Machine!StateNext]_Merge!Machine!stateVars
BY PhaseNow, PhaseThen
   DEF Merge!StartAgent, Merge!Fail, Merge!Machine!StateNext, Merge!Machine!stateVars,
       Merge!Machine!Terminal

LEMMA PrepareAgentFollows == MergeInv /\ Merge!PrepareAgent
  => [Merge!Machine!StateNext]_Merge!Machine!stateVars
BY PhaseNow, PhaseThen
   DEF Merge!PrepareAgent, Merge!GoOn, Merge!Fail, Merge!Machine!StateNext, Merge!Machine!Event,
       Merge!Machine!Terminal

LEMMA AgentResolvesFollows == MergeInv /\ Merge!AgentResolves
  => [Merge!Machine!StateNext]_Merge!Machine!stateVars
BY PhaseNow, PhaseThen
   DEF Merge!AgentResolves, Merge!GoOn, Merge!Fail, Merge!Machine!StateNext,
       Merge!Machine!stateVars, Merge!Machine!Terminal

LEMMA RegenerateFollows == MergeInv /\ Merge!Regenerate
  => [Merge!Machine!StateNext]_Merge!Machine!stateVars
BY PhaseNow, PhaseThen
   DEF Merge!Regenerate, Merge!GoOn, Merge!Fail, Merge!Machine!StateNext, Merge!Machine!Event,
       Merge!Machine!Terminal

LEMMA StageResolvedFollows == MergeInv /\ Merge!StageResolved
  => [Merge!Machine!StateNext]_Merge!Machine!stateVars
BY PhaseNow, PhaseThen
   DEF Merge!StageResolved, Merge!GoOn, Merge!Fail, Merge!Machine!StateNext,
       Merge!Machine!stateVars, Merge!Machine!Terminal

LEMMA MergeNextFollows ==
    ASSUME MergeInv, [Merge!MergeNext]_Merge!mergeVars
    PROVE  [Merge!Machine!StateNext]_Merge!Machine!stateVars
<1>1. CASE UNCHANGED Merge!mergeVars
  BY <1>1, StayFollows DEF Merge!mergeVars
<1>2. CASE Merge!MergeNext
  BY <1>2, IntegrateFollows, ValidateStagedFollows, ContinueRebaseFollows, PublishingFollows,
     ConcludeFollows, OthersPushFollows, ReadPullRequestFollows, ReadBaseFollows,
     BeginAttemptFollows, RunHandlersFollows, StartAgentFollows, PrepareAgentFollows,
     AgentResolvesFollows, RegenerateFollows, StageResolvedFollows
     DEF Merge!MergeNext, Merge!MergeProgress
<1> QED BY <1>1, <1>2

-----------------------------------------------------------------------------
(* The reviews of a pull request. *)

(* The attempts that were started, and the publications by them.           *)
AttemptsBegun == {x \in Review!Reviews : x[1] \in DOMAIN reviews /\ x[2] <= reviews[x[1]].tries}
Publishers == {p.by : p \in ledger}

(* A job is active where its action is; nothing names an attempt that has  *)
(* not been started, nor the one that has not written yet.                 *)
ReviewOrder ==
    /\ job = 0 <=> doing = "idle"
    /\ job # 0 => job \in DOMAIN reviews
    /\ Publishers \subseteq AttemptsBegun /\ comment.marker \in AttemptsBegun \cup {Review!None}
    /\ doing \in {"admit", "keep", "live", "mark", "create"} =>
          comment.marker # Review!Me /\ Review!Me \notin Publishers

(* Whose marker it is, and what will take it away.                         *)
ReviewMarker ==
    /\ ~comment.there => comment = Review!NoComment
    /\ comment.marker # Review!None =>
          leftover[comment.marker] # "none" \/ (job # 0 /\ comment.marker = Review!Me /\ kept)
    /\ doing = "live" => created \/ kept
    /\ doing = "mark" => ~created /\ kept
    /\ doing \in {"keep", "live", "mark", "create"} => created = ~comment.there
    /\ doing = "keep" => ~created
    /\ doing = "create" => created
    /\ created /\ comment.marker # Review!None => ledger = {}

(* What the report is, and what it will be made from.                      *)
ReviewReport ==
    /\ comment.report.runs = Publishers
    /\ doing \in {"keep", "live", "mark", "create", "created", "review", "check", "publish", "write"} =>
          prior = Publishers
    /\ ledger # {} => [by |-> comment.report.by, head |-> comment.report.head] \in ledger
    /\ \A p \in ledger : p.head <= comment.report.head /\ p.head <= pushed
    /\ Review!NewestKept
    /\ clearing # "none" => doing \in {"clear", "thrown", "post"}
    /\ Review!PublishedTruthful

CommentStates ==
    [there : BOOLEAN, marker : Review!Reviews \cup {Review!None},
     report : [by : Review!Reviews \cup {Review!None}, head : 0..MaxPushes,
       runs : SUBSET Review!Reviews]]

ReviewInv == Review!ReviewTypeOK /\ ReviewOrder /\ ReviewMarker /\ ReviewReport

LEMMA ReviewTyped ==
    ASSUME ReviewInv
    PROVE  /\ comment \in CommentStates /\ comment.marker \in Review!Reviews \cup {Review!None}
                  /\ comment.there \in BOOLEAN
           /\ comment.report \in [by : Review!Reviews \cup {Review!None}, head : 0..MaxPushes,
                runs : SUBSET Review!Reviews]
           /\ comment.report.by \in Review!Reviews \cup {Review!None}
                /\ comment.report.head \in 0..MaxPushes
           /\ Review!NoComment \in CommentStates
           /\ Review!None \notin Review!Reviews
           /\ Len(reviews) \in Nat /\ DOMAIN reviews = 1..Len(reviews)
           /\ \A p \in ledger : p.by \in Review!Reviews /\ p.head \in 0..MaxPushes
<1>1. comment \in CommentStates
  BY DEF ReviewInv, Review!ReviewTypeOK, CommentStates
<1>2. Review!NoComment \in CommentStates
  BY ReviewAssumption DEF CommentStates, Review!NoComment, Review!NoReport
<1>3. Review!None \notin Review!Reviews
  BY DEF Review!None, Review!Reviews, Review!Runs
<1>4. Len(reviews) \in Nat /\ DOMAIN reviews = 1..Len(reviews)
  BY DEF ReviewInv, Review!ReviewTypeOK
<1>5. \A p \in ledger : p.by \in Review!Reviews /\ p.head \in 0..MaxPushes
  BY DEF ReviewInv, Review!ReviewTypeOK
<1> QED BY <1>1, <1>2, <1>3, <1>4, <1>5 DEF CommentStates

LEMMA RowTyped ==
    ASSUME NEW S, reviews \in Seq(S), NEW r \in DOMAIN reviews
    PROVE  reviews[r] \in S
<1>1. Len(reviews) \in Nat /\ DOMAIN reviews = 1..Len(reviews)
  OBVIOUS
<1> QED BY <1>1

LEMMA ReviewNamed ==
    ASSUME ReviewInv, job # 0
    PROVE  /\ job \in DOMAIN reviews /\ job \in Review!Runs
           /\ Review!Me \in Review!Reviews /\ Review!Me \in AttemptsBegun /\ Review!Me # Review!None
           /\ Review!Expected \in 0..MaxPushes
<1>1. job \in DOMAIN reviews /\ job \in Review!Runs
  BY ReviewTyped, ReviewAssumption DEF ReviewInv, ReviewOrder, Review!ReviewTypeOK, Review!Runs
<1>2. reviews[job] \in [head : 0..MaxPushes, tries : 1..MaxTries]
  BY <1>1, RowTyped DEF ReviewInv, Review!ReviewTypeOK
<1>3. Review!Me \in Review!Reviews /\ Review!Me[1] = job /\ Review!Me[2] = reviews[job].tries
  BY <1>1, <1>2 DEF Review!Me, Review!Reviews
<1>4. Review!Me \in AttemptsBegun
  <2>1. reviews[job].tries \in Nat
    BY <1>2, ReviewAssumption
  <2>2. reviews[job].tries <= reviews[job].tries
    BY <2>1
  <2> QED BY <1>1, <1>3, <2>2 DEF AttemptsBegun
<1> QED BY <1>1, <1>2, <1>3, <1>4, ReviewTyped DEF Review!Expected

LEMMA Remarked ==
    ASSUME comment \in CommentStates, NEW v \in Review!Reviews \cup {Review!None},
           comment' = [comment EXCEPT !.marker = v]
    PROVE  /\ comment' \in CommentStates /\ comment'.marker = v
           /\ comment'.there = comment.there /\ comment'.report = comment.report
BY DEF CommentStates

LEMMA StartAgainTyped ==
    ASSUME ReviewInv, NEW r \in Review!Runs, Review!StartAgain(r)
    PROVE  /\ reviews' \in Seq([head : 0..MaxPushes, tries : 1..MaxTries])
                  /\ Len(reviews') = Len(reviews)
           /\ DOMAIN reviews' = DOMAIN reviews /\ r \in DOMAIN reviews
           /\ reviews'[r].tries = reviews[r].tries + 1 /\ reviews[r].tries \in Nat
           /\ reviews'[r].head = reviews[r].head
           /\ \A k \in DOMAIN reviews \ {r} : reviews'[k] = reviews[k]
<1> DEFINE Rows == [head : 0..MaxPushes, tries : 1..MaxTries]
<1>0. reviews \in Seq(Rows) /\ r \in DOMAIN reviews
  BY DEF ReviewInv, Review!ReviewTypeOK, Review!StartAgain
<1>1. reviews[r] \in Rows
  BY <1>0, RowTyped
<1>2. reviews[r].tries < MaxTries /\ reviews' = [reviews EXCEPT ![r].tries = @ + 1]
  BY DEF Review!StartAgain
<1>3. reviews[r].tries + 1 \in 1..MaxTries
  BY <1>1, <1>2, ReviewAssumption
<1>4. [reviews[r] EXCEPT !.tries = @ + 1] \in Rows
  BY <1>1, <1>3
<1>5. reviews' = [reviews EXCEPT ![r] = [reviews[r] EXCEPT !.tries = @ + 1]]
  BY <1>2
<1>6. reviews' \in Seq(Rows) /\ Len(reviews') = Len(reviews) /\ DOMAIN reviews' = DOMAIN reviews
  BY <1>0, <1>4, <1>5
<1>7. reviews'[r] = [reviews[r] EXCEPT !.tries = @ + 1]
        /\ \A k \in DOMAIN reviews \ {r} : reviews'[k] = reviews[k]
  BY <1>0, <1>5
<1> QED BY <1>0, <1>1, <1>6, <1>7, ReviewAssumption

LEMMA ClearedIs ==
    ASSUME ReviewInv, comment.marker \in {Review!None, Review!Me}
    PROVE  /\ Review!Cleared \in CommentStates /\ Review!Cleared.marker = Review!None
           /\ ~Review!Cleared.there => Review!Cleared = Review!NoComment
           /\ \/ Review!Cleared.report = comment.report
              \/ Review!Cleared = Review!NoComment /\ ledger = {} /\ comment.marker # Review!None
<1>1. CASE comment.marker = Review!None
  BY <1>1, ReviewTyped DEF Review!Cleared, ReviewInv, ReviewMarker
<1>2. CASE comment.marker # Review!None /\ created
  <2>1. ledger = {}
    BY <1>2 DEF ReviewInv, ReviewMarker
  <2>2. Review!Cleared = Review!NoComment
    BY <1>2 DEF Review!Cleared
  <2>3. Review!NoComment.marker = Review!None
    BY DEF Review!NoComment
  <2> QED BY <1>2, <2>1, <2>2, <2>3, ReviewTyped
<1>3. CASE comment.marker # Review!None /\ ~created
  <2>1. Review!Cleared = Review!Unmarked /\ comment.there
    BY <1>3 DEF Review!Cleared, ReviewInv, ReviewMarker, Review!NoComment
  <2>2. Review!Unmarked \in CommentStates /\ Review!Unmarked.marker = Review!None
          /\ Review!Unmarked.there = comment.there /\ Review!Unmarked.report = comment.report
    BY ReviewTyped DEF Review!Unmarked, CommentStates
  <2> QED BY <2>1, <2>2
<1> QED BY <1>1, <1>2, <1>3

LEMMA UnmarkedKept ==
    ASSUME ReviewInv, UNCHANGED <<ledger, pushed, reviews, clearing, job>>,
             doing' \in {"post", "thrown"}, job # 0,
           doing \notin {"admit", "keep", "live", "mark", "create"},
           comment' \in CommentStates, comment'.marker = Review!None, ~comment'.there => comment' = Review!NoComment,
           \/ comment'.report = comment.report
           \/ comment' = Review!NoComment /\ ledger = {} /\ comment.marker # Review!None
    PROVE  ReviewOrder' /\ ReviewMarker' /\ ReviewReport'
<1>1. Publishers' = Publishers /\ AttemptsBegun' = AttemptsBegun /\ Review!Me' = Review!Me
  BY DEF Publishers, AttemptsBegun, Review!Me
<1>2. ReviewOrder'
  BY <1>1 DEF ReviewInv, ReviewOrder
<1>3. ReviewMarker'
  BY DEF ReviewMarker
<1>4. CASE comment'.report = comment.report
  <2>1. Review!PublishedTruthful'
    BY <1>1, <1>4 DEF ReviewInv, ReviewReport, Review!PublishedTruthful
  <2>2. Review!NewestKept'
    BY <1>4 DEF ReviewInv, ReviewReport, Review!NewestKept
  <2>3. comment'.report.runs = Publishers'
          /\ (ledger' # {} => [by |-> comment'.report.by, head |-> comment'.report.head] \in ledger')
    BY <1>1, <1>4 DEF ReviewInv, ReviewReport
  <2>4. \A p \in ledger' : p.head <= comment'.report.head /\ p.head <= pushed'
    BY <1>4 DEF ReviewInv, ReviewReport
  <2>5. doing' \in {"post", "thrown"} /\ UNCHANGED clearing
    OBVIOUS
  <2> QED BY <1>2, <1>3, <2>1, <2>2, <2>3, <2>4, <2>5 DEF ReviewReport
<1>5. CASE comment' = Review!NoComment /\ ledger = {} /\ comment.marker # Review!None
  <2>1. comment'.report.runs = {} /\ Publishers = {}
    BY <1>5 DEF Review!NoComment, Review!NoReport, Publishers
  <2>2. clearing # "published"
    <3>1. Review!PublishedTruthful
      BY DEF ReviewInv, ReviewReport
    <3> QED BY <1>5, <3>1 DEF Review!PublishedTruthful
  <2>3. comment'.report.runs = Publishers' /\ ledger' = {}
    BY <1>1, <1>5, <2>1
  <2> QED BY <1>2, <1>3, <2>2, <2>3 DEF ReviewReport, Review!NewestKept, Review!PublishedTruthful
<1> QED BY <1>4, <1>5

LEMMA EndJobKept ==
    ASSUME ReviewInv, job # 0, NEW why \in {"none", "told", "lost"}, Review!EndJob(why),
           UNCHANGED <<reviews, pushed, ledger>>, cuts' \in 0..MaxCuts,
           comment' \in CommentStates, comment'.report = comment.report, comment'.there = comment.there,
           comment'.marker = comment.marker \/ comment'.marker = Review!None,
           ~comment.there => comment' = comment,
           comment'.marker = Review!Me => why # "none" \/ ~kept
    PROVE  ReviewInv'
<1>1. /\ job' = 0 /\ doing' = "idle" /\ prior' = {} /\ created' = FALSE /\ clearing' = "none"
           /\ kept' = FALSE
      /\ leftover' = [leftover EXCEPT ![Review!Me] = IF why = "none" THEN @ ELSE why]
  BY DEF Review!EndJob
<1>2. leftover' \in [Review!Reviews -> {"none", "lost", "unsaved", "told"}]
        /\ leftover'[Review!Me] = IF why = "none" THEN leftover[Review!Me] ELSE why
  BY <1>1, ReviewNamed DEF ReviewInv, Review!ReviewTypeOK
<1>3. \A m \in Review!Reviews \ {Review!Me} : leftover'[m] = leftover[m]
  BY <1>1, ReviewNamed DEF ReviewInv, Review!ReviewTypeOK
<1>4. Review!ReviewTypeOK'
  <2>1. prior' \in SUBSET Review!Reviews
    BY <1>1
  <2>4. {created', kept'} \subseteq BOOLEAN
    BY <1>1
  <2>5. job' \in 0..MaxReviews
    BY <1>1, ReviewAssumption
  <2>2. comment' \in [there : BOOLEAN, marker : Review!Reviews \cup {Review!None},
                      report : [by : Review!Reviews \cup {Review!None}, head : 0..MaxPushes,
                        runs : SUBSET Review!Reviews]]
    BY DEF CommentStates
  <2>3. UNCHANGED <<reviews, pushed, ledger>> /\ doing' = "idle" /\ clearing' = "none"
    BY <1>1
  <2> QED BY <1>2, <2>1, <2>2, <2>3, <2>4, <2>5 DEF ReviewInv, Review!ReviewTypeOK
<1>5. Publishers' = Publishers /\ AttemptsBegun' = AttemptsBegun
  BY DEF Publishers, AttemptsBegun
<1>6. ReviewOrder'
  BY <1>1, <1>5 DEF ReviewInv, ReviewOrder
<1>7. ASSUME comment'.marker # Review!None PROVE leftover'[comment'.marker] # "none"
  <2>1. comment'.marker = comment.marker /\ comment.marker \in Review!Reviews
    BY <1>7, ReviewTyped
  <2>2. leftover[comment.marker] # "none" \/ (comment.marker = Review!Me /\ kept)
    BY <1>7, <2>1 DEF ReviewInv, ReviewMarker
  <2> QED BY <1>2, <1>3, <2>1, <2>2
<1>8. ReviewMarker'
  BY <1>1, <1>7 DEF ReviewInv, ReviewMarker
<1>9. ReviewReport'
  BY <1>1, <1>5 DEF ReviewInv, ReviewReport, Review!NewestKept, Review!PublishedTruthful
<1> QED BY <1>4, <1>6, <1>8, <1>9 DEF ReviewInv

LEMMA PushedKeeps ==
    ASSUME ReviewInv, Review!Pushed
    PROVE  ReviewInv'
<1>1. Review!ReviewTypeOK'
  <2>1. pushed' \in 0..MaxPushes
    BY ReviewAssumption DEF Review!Pushed, ReviewInv, Review!ReviewTypeOK
  <2> QED BY <2>1 DEF Review!Pushed, ReviewInv, Review!ReviewTypeOK
<1>2. ReviewOrder'
  BY ReviewAssumption
     DEF Review!Pushed, ReviewInv, ReviewMarker, ReviewOrder, ReviewReport, Review!ReviewTypeOK,
         Review!Me, Review!NoComment, Review!None, Publishers, AttemptsBegun, Review!NewestKept,
         Review!PublishedTruthful, Review!Reviews, Review!NoReport, Review!NotNewer, Review!Runs
<1>3. ReviewMarker'
  BY ReviewAssumption
     DEF Review!Pushed, ReviewInv, ReviewMarker, ReviewOrder, ReviewReport, Review!ReviewTypeOK,
         Review!Me, Review!NoComment, Review!None, Publishers, AttemptsBegun, Review!NewestKept,
         Review!PublishedTruthful, Review!Reviews, Review!NoReport, Review!NotNewer, Review!Runs
<1>4. ReviewReport'
  <2>1. UNCHANGED <<comment, ledger, job, reviews, clearing, doing, prior>>
    BY DEF Review!Pushed
  <2>2. pushed' = pushed + 1 /\ pushed \in Nat
    BY ReviewAssumption DEF Review!Pushed, ReviewInv, Review!ReviewTypeOK
  <2>3. \A p \in ledger : p.head <= pushed'
    BY <2>2, ReviewTyped, ReviewAssumption DEF ReviewInv, ReviewReport
  <2> QED BY <2>1, <2>3
             DEF ReviewInv, ReviewReport, Publishers, Review!NewestKept, Review!PublishedTruthful,
                 Review!Me
<1> QED BY <1>1, <1>2, <1>3, <1>4 DEF ReviewInv

LEMMA StartNewKeeps ==
    ASSUME ReviewInv, Review!StartNew
    PROVE  ReviewInv'
<1>1. Review!ReviewTypeOK'
  <2>1. Len(reviews) \in Nat /\ Len(reviews) + 1 \in 0..MaxReviews
          /\ reviews \in Seq([head : 0..MaxPushes, tries : 1..MaxTries])
    BY ReviewAssumption DEF Review!StartNew, ReviewInv, Review!ReviewTypeOK
  <2>2. /\ job' = Len(reviews) + 1 /\ doing' = "admit"
        /\ UNCHANGED <<pushed, comment, prior, created, clearing, kept, ledger, leftover, cuts>>
    BY DEF Review!StartNew, Review!startUnchanged
  <2>3. PICK head \in 0..pushed : reviews' = Append(reviews, [head |-> head, tries |-> 1])
    BY DEF Review!StartNew
  <2>4. [head |-> head, tries |-> 1] \in [head : 0..MaxPushes, tries : 1..MaxTries]
    BY ReviewAssumption DEF ReviewInv, Review!ReviewTypeOK
  <2>5. reviews' \in Seq([head : 0..MaxPushes, tries : 1..MaxTries]) /\ Len(reviews') = Len(reviews) + 1
    BY <2>1, <2>3, <2>4
  <2> QED BY <2>1, <2>2, <2>5 DEF ReviewInv, Review!ReviewTypeOK
<1>2. ReviewOrder'
  <2>0. Len(reviews) \in Nat /\ DOMAIN reviews = 1..Len(reviews)
    BY ReviewTyped
  <2>1. UNCHANGED <<comment, ledger>> /\ job' = Len(reviews) + 1 /\ doing' = "admit"
    BY DEF Review!StartNew, Review!startUnchanged
  <2>2. PICK head \in 0..pushed : reviews' = Append(reviews, [head |-> head, tries |-> 1])
    BY DEF Review!StartNew
  <2>3. /\ DOMAIN reviews' = 1..Len(reviews) + 1 /\ reviews'[job'].tries = 1
        /\ \A r \in DOMAIN reviews : reviews'[r] = reviews[r]
    BY <2>0, <2>1, <2>2 DEF ReviewInv, Review!ReviewTypeOK
  <2>4. AttemptsBegun \subseteq AttemptsBegun'
    BY <2>0, <2>3 DEF AttemptsBegun
  <2>5. Review!Me' = <<Len(reviews) + 1, 1>> /\ Review!Me' # Review!None
    BY <2>0, <2>1, <2>3 DEF Review!Me, Review!None
  <2>6. Review!Me' \notin AttemptsBegun
    BY <2>0, <2>5 DEF AttemptsBegun
  <2>7. Publishers' = Publishers
    BY <2>1 DEF Publishers
  <2>8. job' # 0 /\ job' \in DOMAIN reviews'
    BY <2>0, <2>1, <2>3
  <2> QED BY <2>1, <2>4, <2>5, <2>6, <2>7, <2>8 DEF ReviewInv, ReviewOrder
<1>3. ReviewMarker'
  BY DEF Review!StartNew, ReviewInv, Review!startUnchanged, ReviewMarker
<1>4. ReviewReport'
  BY ReviewAssumption
     DEF Review!StartNew, ReviewInv, Review!startUnchanged, ReviewMarker, ReviewOrder,
         ReviewReport, Review!ReviewTypeOK, Review!Me, Review!NoComment, Review!None, Publishers,
         AttemptsBegun, Review!NewestKept, Review!PublishedTruthful, Review!Reviews,
         Review!NoReport, Review!NotNewer, Review!Runs
<1> QED BY <1>1, <1>2, <1>3, <1>4 DEF ReviewInv

LEMMA StartAgainKeeps ==
    ASSUME ReviewInv, NEW r \in Review!Runs, Review!StartAgain(r)
    PROVE  ReviewInv'
<1>1. Review!ReviewTypeOK'
  <2>1. job' \in 0..MaxReviews /\ doing' = "admit"
          /\ UNCHANGED <<pushed, comment, prior, created, clearing, kept, ledger, leftover, cuts>>
    BY ReviewAssumption DEF Review!StartAgain, Review!startUnchanged, Review!Runs
  <2> QED BY <2>1, StartAgainTyped DEF ReviewInv, Review!ReviewTypeOK
<1>2. ReviewOrder'
  <2>0. Len(reviews) \in Nat /\ DOMAIN reviews = 1..Len(reviews)
    BY ReviewTyped
  <2>1. UNCHANGED <<comment, ledger>> /\ job' = r /\ doing' = "admit"
    BY DEF Review!StartAgain, Review!startUnchanged
  <2>3. /\ DOMAIN reviews' = DOMAIN reviews /\ r \in DOMAIN reviews
        /\ reviews'[r].tries = reviews[r].tries + 1 /\ reviews[r].tries \in Nat
        /\ \A k \in DOMAIN reviews \ {r} : reviews'[k] = reviews[k]
    BY StartAgainTyped
  <2>4. AttemptsBegun \subseteq AttemptsBegun'
    <3> SUFFICES ASSUME NEW x \in AttemptsBegun PROVE x \in AttemptsBegun'
      OBVIOUS
    <3>1. x[2] \in Nat
      BY DEF AttemptsBegun, Review!Reviews, Review!Runs
    <3>2. CASE x[1] = r
      BY <3>1, <3>2, <2>3 DEF AttemptsBegun
    <3>3. CASE x[1] # r
      BY <3>3, <2>3 DEF AttemptsBegun
    <3> QED BY <3>2, <3>3
  <2>5. Review!Me' = <<r, reviews[r].tries + 1>> /\ Review!Me' # Review!None
    BY <2>1, <2>3 DEF Review!Me, Review!None
  <2>6. Review!Me' \notin AttemptsBegun
    BY <2>3, <2>5 DEF AttemptsBegun
  <2>7. Publishers' = Publishers
    BY <2>1 DEF Publishers
  <2>8. job' # 0 /\ job' \in DOMAIN reviews'
    BY <2>0, <2>1, <2>3
  <2> QED BY <2>1, <2>4, <2>5, <2>6, <2>7, <2>8 DEF ReviewInv, ReviewOrder
<1>3. ReviewMarker'
  BY ReviewAssumption
     DEF Review!StartAgain, ReviewInv, Review!startUnchanged, ReviewMarker, ReviewOrder,
         ReviewReport, Review!ReviewTypeOK, Review!Me, Review!NoComment, Review!None, Publishers,
         AttemptsBegun, Review!NewestKept, Review!PublishedTruthful, Review!Reviews,
         Review!NoReport, Review!NotNewer, Review!Runs
<1>4. ReviewReport'
  BY ReviewAssumption
     DEF Review!StartAgain, ReviewInv, Review!startUnchanged, ReviewMarker, ReviewOrder,
         ReviewReport, Review!ReviewTypeOK, Review!Me, Review!NoComment, Review!None, Publishers,
         AttemptsBegun, Review!NewestKept, Review!PublishedTruthful, Review!Reviews,
         Review!NoReport, Review!NotNewer, Review!Runs
<1> QED BY <1>1, <1>2, <1>3, <1>4 DEF ReviewInv

LEMMA AdmitKeeps ==
    ASSUME ReviewInv, Review!Admit
    PROVE  ReviewInv'
<1>1. Review!ReviewTypeOK'
  BY ReviewAssumption
     DEF Review!Admit, ReviewInv, Review!Live, Review!Stale, Review!jobUnchanged,
         Review!writeUnchanged, ReviewMarker, ReviewOrder, ReviewReport, Review!ReviewTypeOK,
         Review!Expected, Review!Me, Review!NoComment, Review!None, Publishers, AttemptsBegun,
         Review!NewestKept, Review!PublishedTruthful, Review!Reviews, Review!NoReport,
         Review!NotNewer, Review!Runs
<1>2. ReviewOrder'
  BY ReviewAssumption
     DEF Review!Admit, ReviewInv, Review!Live, Review!Stale, Review!jobUnchanged,
         Review!writeUnchanged, ReviewMarker, ReviewOrder, ReviewReport, Review!ReviewTypeOK,
         Review!Expected, Review!Me, Review!NoComment, Review!None, Publishers, AttemptsBegun,
         Review!NewestKept, Review!PublishedTruthful, Review!Reviews, Review!NoReport,
         Review!NotNewer, Review!Runs
<1>3. ReviewMarker'
  <2>1. UNCHANGED <<comment, ledger, leftover, reviews, job>> /\ Review!Me' = Review!Me
          /\ comment.there \in BOOLEAN
    BY ReviewTyped DEF Review!Admit, Review!writeUnchanged, Review!jobUnchanged, Review!Me
  <2>2. job # 0 /\ comment.marker # Review!Me /\ doing = "admit"
    BY DEF ReviewInv, ReviewOrder, Review!Admit
  <2>3. created' = ~comment.there /\ doing' \in {"keep", "live", "post", "thrown"}
          /\ (doing' = "keep" => comment.there) /\ (doing' = "live" => ~comment.there)
    BY DEF Review!Admit, Review!Stale
  <2>4. ~comment.there => comment.marker = Review!None
    BY DEF ReviewInv, ReviewMarker, Review!NoComment
  <2> QED BY <2>1, <2>2, <2>3, <2>4 DEF ReviewInv, ReviewMarker
<1>4. ReviewReport'
  BY ReviewAssumption
     DEF Review!Admit, ReviewInv, Review!Live, Review!Stale, Review!jobUnchanged,
         Review!writeUnchanged, ReviewMarker, ReviewOrder, ReviewReport, Review!ReviewTypeOK,
         Review!Expected, Review!Me, Review!NoComment, Review!None, Publishers, AttemptsBegun,
         Review!NewestKept, Review!PublishedTruthful, Review!Reviews, Review!NoReport,
         Review!NotNewer, Review!Runs
<1> QED BY <1>1, <1>2, <1>3, <1>4 DEF ReviewInv

LEMMA KeepKeeps ==
    ASSUME ReviewInv, Review!Keep
    PROVE  ReviewInv'
<1>1. Review!ReviewTypeOK'
  BY ReviewAssumption
     DEF Review!Keep, ReviewInv, Review!jobUnchanged, Review!writeUnchanged, ReviewMarker,
         ReviewOrder, ReviewReport, Review!ReviewTypeOK, Review!Me, Review!NoComment, Review!None,
         Publishers, AttemptsBegun, Review!NewestKept, Review!PublishedTruthful, Review!Reviews,
         Review!NoReport, Review!NotNewer, Review!Runs
<1>2. ReviewOrder'
  BY ReviewAssumption
     DEF Review!Keep, ReviewInv, Review!jobUnchanged, Review!writeUnchanged, ReviewMarker,
         ReviewOrder, ReviewReport, Review!ReviewTypeOK, Review!Me, Review!NoComment, Review!None,
         Publishers, AttemptsBegun, Review!NewestKept, Review!PublishedTruthful, Review!Reviews,
         Review!NoReport, Review!NotNewer, Review!Runs
<1>3. ReviewMarker'
  BY ReviewAssumption
     DEF Review!Keep, ReviewInv, Review!jobUnchanged, Review!writeUnchanged, ReviewMarker,
         ReviewOrder, ReviewReport, Review!ReviewTypeOK, Review!Me, Review!NoComment, Review!None,
         Publishers, AttemptsBegun, Review!NewestKept, Review!PublishedTruthful, Review!Reviews,
         Review!NoReport, Review!NotNewer, Review!Runs
<1>4. ReviewReport'
  BY ReviewAssumption
     DEF Review!Keep, ReviewInv, Review!jobUnchanged, Review!writeUnchanged, ReviewMarker,
         ReviewOrder, ReviewReport, Review!ReviewTypeOK, Review!Me, Review!NoComment, Review!None,
         Publishers, AttemptsBegun, Review!NewestKept, Review!PublishedTruthful, Review!Reviews,
         Review!NoReport, Review!NotNewer, Review!Runs
<1> QED BY <1>1, <1>2, <1>3, <1>4 DEF ReviewInv

LEMMA CheckLiveKeeps ==
    ASSUME ReviewInv, Review!CheckLive
    PROVE  ReviewInv'
<1>1. Review!ReviewTypeOK'
  BY ReviewAssumption
     DEF Review!CheckLive, ReviewInv, Review!Guarded, Review!Live, Review!Stale,
         Review!jobUnchanged, Review!writeUnchanged, ReviewMarker, ReviewOrder, ReviewReport,
         Review!ReviewTypeOK, Review!Expected, Review!Me, Review!None, Review!NotNewer,
         Review!NoComment, Publishers, AttemptsBegun, Review!NewestKept, Review!PublishedTruthful,
         Review!Reviews, Review!NoReport, Review!Runs
<1>2. ReviewOrder'
  BY ReviewAssumption
     DEF Review!CheckLive, ReviewInv, Review!Guarded, Review!Live, Review!Stale,
         Review!jobUnchanged, Review!writeUnchanged, ReviewMarker, ReviewOrder, ReviewReport,
         Review!ReviewTypeOK, Review!Expected, Review!Me, Review!None, Review!NotNewer,
         Review!NoComment, Publishers, AttemptsBegun, Review!NewestKept, Review!PublishedTruthful,
         Review!Reviews, Review!NoReport, Review!Runs
<1>3. ReviewMarker'
  BY ReviewAssumption
     DEF Review!CheckLive, ReviewInv, Review!Guarded, Review!Live, Review!Stale,
         Review!jobUnchanged, Review!writeUnchanged, ReviewMarker, ReviewOrder, ReviewReport,
         Review!ReviewTypeOK, Review!Expected, Review!Me, Review!None, Review!NotNewer,
         Review!NoComment, Publishers, AttemptsBegun, Review!NewestKept, Review!PublishedTruthful,
         Review!Reviews, Review!NoReport, Review!Runs
<1>4. ReviewReport'
  BY ReviewAssumption
     DEF Review!CheckLive, ReviewInv, Review!Guarded, Review!Live, Review!Stale,
         Review!jobUnchanged, Review!writeUnchanged, ReviewMarker, ReviewOrder, ReviewReport,
         Review!ReviewTypeOK, Review!Expected, Review!Me, Review!None, Review!NotNewer,
         Review!NoComment, Publishers, AttemptsBegun, Review!NewestKept, Review!PublishedTruthful,
         Review!Reviews, Review!NoReport, Review!Runs
<1> QED BY <1>1, <1>2, <1>3, <1>4 DEF ReviewInv

LEMMA MarkKeeps ==
    ASSUME ReviewInv, Review!Mark
    PROVE  ReviewInv'
<1>1. doing = "mark" /\ job # 0
  BY DEF Review!Mark, ReviewInv, ReviewOrder
<1>2. UNCHANGED <<prior, created, clearing, kept, ledger, leftover, reviews, pushed, job, cuts>>
        /\ Review!Me' = Review!Me
  BY DEF Review!Mark, Review!jobUnchanged, Review!Me
<1>3. doing' \in {"review", "thrown"}
        /\ (comment' = comment \/ comment' = [comment EXCEPT !.marker = Review!Me])
  BY DEF Review!Mark, Review!Write
<1>4. /\ comment' \in CommentStates /\ comment'.marker \in {Review!Me, comment.marker}
      /\ comment'.there = comment.there /\ comment'.report = comment.report
  BY <1>1, <1>3, ReviewTyped, ReviewNamed, Remarked
<1>5. Review!ReviewTypeOK'
  BY <1>2, <1>3, <1>4 DEF ReviewInv, Review!ReviewTypeOK, CommentStates
<1>6. Publishers' = Publishers /\ AttemptsBegun' = AttemptsBegun
  BY <1>2 DEF Publishers, AttemptsBegun
<1>7. ReviewOrder'
  BY <1>1, <1>2, <1>3, <1>4, <1>6, ReviewNamed DEF ReviewInv, ReviewOrder
<1>8. ~created /\ kept /\ comment.there
  BY <1>1 DEF ReviewInv, ReviewMarker
<1>9. ReviewMarker'
  BY <1>1, <1>2, <1>3, <1>4, <1>8 DEF ReviewInv, ReviewMarker
<1>10. ReviewReport'
  BY <1>1, <1>2, <1>3, <1>4, <1>6
     DEF ReviewInv, ReviewReport, Review!NewestKept, Review!PublishedTruthful
<1> QED BY <1>5, <1>7, <1>9, <1>10 DEF ReviewInv

LEMMA CreateKeeps ==
    ASSUME ReviewInv, Review!Create
    PROVE  ReviewInv'
<1> DEFINE new == [there |-> TRUE, marker |-> Review!Me,
                   report |-> [Review!NoReport EXCEPT !.by = Review!Me, !.head = Review!Expected]]
<1>1. doing = "create" /\ job # 0 /\ created /\ ~comment.there /\ comment = Review!NoComment
        /\ ledger = {}
  <2>1. doing = "create" /\ job # 0 /\ created /\ ~comment.there
    BY DEF Review!Create, ReviewInv, ReviewOrder, ReviewMarker
  <2>2. comment = Review!NoComment
    BY <2>1 DEF ReviewInv, ReviewMarker
  <2>3. comment.report.runs = {}
    BY <2>2 DEF Review!NoComment, Review!NoReport
  <2> QED BY <2>1, <2>2, <2>3 DEF ReviewInv, ReviewReport, Publishers
<1>2. UNCHANGED <<prior, created, clearing, kept, ledger, reviews, pushed, job, cuts>>
        /\ Review!Me' = Review!Me
  BY DEF Review!Create, Review!jobUnchanged, Review!Me
<1>3. doing' \in {"created", "thrown"} /\ comment' \in {comment, new}
  BY DEF Review!Create, Review!Write
<1>4. /\ new.report = [by |-> Review!Me, head |-> Review!Expected, runs |-> {}]
      /\ new.there = TRUE /\ new.marker = Review!Me
  BY DEF Review!NoReport
<1>5. new \in CommentStates
  BY <1>1, <1>4, ReviewNamed DEF CommentStates
<1>6. leftover' \in [Review!Reviews -> {"none", "lost", "unsaved", "told"}]
        /\ leftover'[Review!Me] = "unsaved"
  BY <1>1, ReviewNamed DEF Review!Create, ReviewInv, Review!ReviewTypeOK
<1>7. comment' \in CommentStates /\ comment'.report.runs = {}
        /\ comment'.marker \in {Review!None, Review!Me}
  <2>1. comment.report.runs = {} /\ comment.marker = Review!None
    BY <1>1 DEF Review!NoComment, Review!NoReport
  <2>2. new.report.runs = {}
    BY <1>4
  <2> HIDE DEF new
  <2> QED BY <1>3, <1>4, <1>5, <2>1, <2>2, ReviewTyped
<1>8. Review!ReviewTypeOK'
  BY <1>2, <1>3, <1>6, <1>7 DEF ReviewInv, Review!ReviewTypeOK, CommentStates
<1>9. Publishers' = {} /\ Publishers = {} /\ AttemptsBegun' = AttemptsBegun
  BY <1>1, <1>2 DEF Publishers, AttemptsBegun
<1>10. ReviewOrder'
  BY <1>1, <1>2, <1>3, <1>7, <1>9, ReviewNamed DEF ReviewInv, ReviewOrder
<1>11. ~comment'.there => comment' = Review!NoComment
  BY <1>1, <1>3, <1>4
<1> HIDE DEF new
<1>12. ReviewMarker'
  BY <1>1, <1>2, <1>3, <1>6, <1>7, <1>11 DEF ReviewInv, ReviewMarker
<1>13. ReviewReport'
  BY <1>1, <1>2, <1>3, <1>7, <1>9
     DEF ReviewInv, ReviewReport, Review!NewestKept, Review!PublishedTruthful
<1> QED BY <1>8, <1>10, <1>12, <1>13 DEF ReviewInv

LEMMA KeepCreatedKeeps ==
    ASSUME ReviewInv, Review!KeepCreated
    PROVE  ReviewInv'
<1>1. Review!ReviewTypeOK'
  BY ReviewAssumption
     DEF Review!KeepCreated, ReviewInv, Review!Me, Review!jobUnchanged, Review!writeUnchanged,
         ReviewMarker, ReviewOrder, ReviewReport, Review!ReviewTypeOK, Review!NoComment,
         Review!None, Publishers, AttemptsBegun, Review!NewestKept, Review!PublishedTruthful,
         Review!Reviews, Review!NoReport, Review!NotNewer, Review!Runs
<1>2. ReviewOrder'
  BY ReviewAssumption
     DEF Review!KeepCreated, ReviewInv, Review!Me, Review!jobUnchanged, Review!writeUnchanged,
         ReviewMarker, ReviewOrder, ReviewReport, Review!ReviewTypeOK, Review!NoComment,
         Review!None, Publishers, AttemptsBegun, Review!NewestKept, Review!PublishedTruthful,
         Review!Reviews, Review!NoReport, Review!NotNewer, Review!Runs
<1>3. ReviewMarker'
  BY ReviewAssumption
     DEF Review!KeepCreated, ReviewInv, Review!Me, Review!jobUnchanged, Review!writeUnchanged,
         ReviewMarker, ReviewOrder, ReviewReport, Review!ReviewTypeOK, Review!NoComment,
         Review!None, Publishers, AttemptsBegun, Review!NewestKept, Review!PublishedTruthful,
         Review!Reviews, Review!NoReport, Review!NotNewer, Review!Runs
<1>4. ReviewReport'
  BY ReviewAssumption
     DEF Review!KeepCreated, ReviewInv, Review!Me, Review!jobUnchanged, Review!writeUnchanged,
         ReviewMarker, ReviewOrder, ReviewReport, Review!ReviewTypeOK, Review!NoComment,
         Review!None, Publishers, AttemptsBegun, Review!NewestKept, Review!PublishedTruthful,
         Review!Reviews, Review!NoReport, Review!NotNewer, Review!Runs
<1> QED BY <1>1, <1>2, <1>3, <1>4 DEF ReviewInv

LEMMA ReviewKeeps ==
    ASSUME ReviewInv, Review!Review
    PROVE  ReviewInv'
<1>1. Review!ReviewTypeOK'
  BY ReviewAssumption
     DEF Review!Review, ReviewInv, Review!jobUnchanged, Review!writeUnchanged, ReviewMarker,
         ReviewOrder, ReviewReport, Review!ReviewTypeOK, Review!Me, Review!NoComment, Review!None,
         Publishers, AttemptsBegun, Review!NewestKept, Review!PublishedTruthful, Review!Reviews,
         Review!NoReport, Review!NotNewer, Review!Runs
<1>2. ReviewOrder'
  BY ReviewAssumption
     DEF Review!Review, ReviewInv, Review!jobUnchanged, Review!writeUnchanged, ReviewMarker,
         ReviewOrder, ReviewReport, Review!ReviewTypeOK, Review!Me, Review!NoComment, Review!None,
         Publishers, AttemptsBegun, Review!NewestKept, Review!PublishedTruthful, Review!Reviews,
         Review!NoReport, Review!NotNewer, Review!Runs
<1>3. ReviewMarker'
  BY ReviewAssumption
     DEF Review!Review, ReviewInv, Review!jobUnchanged, Review!writeUnchanged, ReviewMarker,
         ReviewOrder, ReviewReport, Review!ReviewTypeOK, Review!Me, Review!NoComment, Review!None,
         Publishers, AttemptsBegun, Review!NewestKept, Review!PublishedTruthful, Review!Reviews,
         Review!NoReport, Review!NotNewer, Review!Runs
<1>4. ReviewReport'
  BY ReviewAssumption
     DEF Review!Review, ReviewInv, Review!jobUnchanged, Review!writeUnchanged, ReviewMarker,
         ReviewOrder, ReviewReport, Review!ReviewTypeOK, Review!Me, Review!NoComment, Review!None,
         Publishers, AttemptsBegun, Review!NewestKept, Review!PublishedTruthful, Review!Reviews,
         Review!NoReport, Review!NotNewer, Review!Runs
<1> QED BY <1>1, <1>2, <1>3, <1>4 DEF ReviewInv

LEMMA CheckReviewedKeeps ==
    ASSUME ReviewInv, Review!CheckReviewed
    PROVE  ReviewInv'
<1>1. Review!ReviewTypeOK'
  BY ReviewAssumption
     DEF Review!CheckReviewed, ReviewInv, Review!Live, Review!jobUnchanged, Review!writeUnchanged,
         ReviewMarker, ReviewOrder, ReviewReport, Review!ReviewTypeOK, Review!Expected, Review!Me,
         Review!NoComment, Review!None, Publishers, AttemptsBegun, Review!NewestKept,
         Review!PublishedTruthful, Review!Reviews, Review!NoReport, Review!NotNewer, Review!Runs
<1>2. ReviewOrder'
  BY ReviewAssumption
     DEF Review!CheckReviewed, ReviewInv, Review!Live, Review!jobUnchanged, Review!writeUnchanged,
         ReviewMarker, ReviewOrder, ReviewReport, Review!ReviewTypeOK, Review!Expected, Review!Me,
         Review!NoComment, Review!None, Publishers, AttemptsBegun, Review!NewestKept,
         Review!PublishedTruthful, Review!Reviews, Review!NoReport, Review!NotNewer, Review!Runs
<1>3. ReviewMarker'
  <2>1. UNCHANGED <<comment, ledger, leftover, job, kept>> /\ Review!Me' = Review!Me
          /\ doing' \in {"publish", "write", "clear", "thrown"}
    BY DEF Review!CheckReviewed, Review!writeUnchanged, Review!jobUnchanged, Review!Me
  <2>2. created' => created
    BY DEF Review!CheckReviewed
  <2> QED BY <2>1, <2>2 DEF ReviewInv, ReviewMarker
<1>4. ReviewReport'
  BY ReviewAssumption
     DEF Review!CheckReviewed, ReviewInv, Review!Live, Review!jobUnchanged, Review!writeUnchanged,
         ReviewMarker, ReviewOrder, ReviewReport, Review!ReviewTypeOK, Review!Expected, Review!Me,
         Review!NoComment, Review!None, Publishers, AttemptsBegun, Review!NewestKept,
         Review!PublishedTruthful, Review!Reviews, Review!NoReport, Review!NotNewer, Review!Runs
<1> QED BY <1>1, <1>2, <1>3, <1>4 DEF ReviewInv

LEMMA PublishKeeps ==
    ASSUME ReviewInv, Review!Publish
    PROVE  ReviewInv'
<1>1. doing = "write" /\ doing' = "clear" /\ job # 0 /\ clearing' \in {"stale", "failed", "published"}
  BY DEF Review!Publish, ReviewInv, ReviewOrder
<1>2. UNCHANGED <<prior, kept, leftover, reviews, pushed, job, cuts>> /\ Review!Me' = Review!Me
        /\ AttemptsBegun' = AttemptsBegun
  BY DEF Review!Publish, Review!jobUnchanged, Review!Me, AttemptsBegun
<1>3. created' \in BOOLEAN /\ (created' => created)
  <2>1. created \in BOOLEAN
    BY DEF ReviewInv, Review!ReviewTypeOK
  <2>2. ASSUME created' # created PROVE created' = FALSE
    BY <2>2 DEF Review!Publish
  <2>3. CASE created' = created
    BY <2>1, <2>3
  <2>4. CASE created' = FALSE
    BY <2>4
  <2> QED BY <2>2, <2>3, <2>4
<1>4. CASE Review!writeUnchanged /\ clearing' # "published"
  <2>1. UNCHANGED <<comment, ledger>> /\ Publishers' = Publishers
    BY <1>4 DEF Review!writeUnchanged, Publishers
  <2>2. Review!ReviewTypeOK'
    BY <1>1, <1>2, <1>3, <2>1 DEF ReviewInv, Review!ReviewTypeOK
  <2> QED BY <1>1, <1>2, <1>3, <1>4, <2>1, <2>2
             DEF ReviewInv, ReviewOrder, ReviewMarker, ReviewReport, Review!NewestKept,
                 Review!PublishedTruthful
<1>5. CASE /\ Review!Live /\ Review!Guarded /\ comment.there
           /\ comment' = [comment EXCEPT !.marker = Review!None, !.report = Review!Report]
           /\ ledger' = ledger \cup {[by |-> Review!Me, head |-> Review!Expected]}
  <2>1. /\ comment'.there /\ comment'.marker = Review!None
        /\ comment'.report = [by |-> Review!Me, head |-> Review!Expected,
             runs |-> prior \cup {Review!Me}]
    BY <1>5, ReviewTyped DEF CommentStates, Review!Report
  <2>2. comment' \in CommentStates
    <3>1. [by |-> Review!Me, head |-> Review!Expected, runs |-> prior \cup {Review!Me}]
             \in [by : Review!Reviews \cup {Review!None}, head : 0..MaxPushes,
               runs : SUBSET Review!Reviews]
      BY <1>1, ReviewNamed DEF ReviewInv, Review!ReviewTypeOK
    <3> QED BY <1>5, <2>1, <3>1, ReviewTyped DEF CommentStates, Review!Report
  <2>3. ledger' \subseteq [by : Review!Reviews, head : 0..MaxPushes]
    BY <1>1, <1>5, ReviewNamed DEF ReviewInv, Review!ReviewTypeOK
  <2>4. Review!ReviewTypeOK'
    BY <1>1, <1>2, <1>3, <2>2, <2>3 DEF ReviewInv, Review!ReviewTypeOK, CommentStates
  <2>5. Publishers' = Publishers \cup {Review!Me}
    <3>1. Publishers' \subseteq Publishers \cup {Review!Me}
      BY <1>5 DEF Publishers
    <3>2. Review!Me \in Publishers' /\ Publishers \subseteq Publishers'
      <4>1. [by |-> Review!Me, head |-> Review!Expected].by = Review!Me
        OBVIOUS
      <4> QED BY <1>5, <4>1 DEF Publishers
    <3> QED BY <3>1, <3>2
  <2>6. ReviewOrder'
    BY <1>1, <1>2, <2>1, <2>5, ReviewNamed DEF ReviewInv, ReviewOrder
  <2>7. ReviewMarker'
    BY <1>1, <2>1 DEF ReviewMarker
  <2>8. pushed = Review!Expected /\ pushed \in Nat
    BY <1>5, ReviewAssumption DEF Review!Live, ReviewInv, Review!ReviewTypeOK
  <2>9. \A p \in ledger' : p.head <= Review!Expected
    BY <1>5, <2>8 DEF ReviewInv, ReviewReport
  <2>10. ASSUME NEW p \in ledger, p.head = Review!Expected PROVE Review!NotNewer(p.by, Review!Me)
    <3>1. comment.report.head = Review!Expected
      <4>1. [by |-> comment.report.by, head |-> comment.report.head] \in ledger
        BY DEF ReviewInv, ReviewReport
      <4>2. comment.report.head <= pushed /\ p.head <= comment.report.head
        BY <4>1 DEF ReviewInv, ReviewReport
      <4> QED BY <2>8, <2>10, <4>2, ReviewTyped, ReviewAssumption
    <3>2. Review!NotNewer(p.by, comment.report.by) /\ Review!NotNewer(comment.report.by, Review!Me)
      BY <1>5, <2>10, <3>1 DEF Review!Guarded, ReviewInv, ReviewReport, Review!NewestKept
    <3>3. p.by[1] \in Nat /\ p.by[2] \in Nat
      BY ReviewTyped DEF Review!Reviews, Review!Runs
    <3>4. comment.report.by[1] \in Nat /\ comment.report.by[2] \in Nat
      BY ReviewTyped DEF Review!Reviews, Review!Runs, Review!None
    <3>5. Review!Me[1] \in Nat /\ Review!Me[2] \in Nat
      BY <1>1, ReviewNamed DEF Review!Reviews, Review!Runs
    <3> QED BY <3>2, <3>3, <3>4, <3>5 DEF Review!NotNewer
  <2>11. Review!NewestKept'
    <3>1. Review!NotNewer(Review!Me, Review!Me)
      BY <1>1, ReviewNamed, ReviewAssumption DEF Review!NotNewer, Review!Reviews, Review!Runs
    <3> QED BY <1>5, <2>1, <2>10, <3>1 DEF Review!NewestKept
  <2>12. ReviewReport'
    <3>1. comment'.report.runs = Publishers'
      BY <1>1, <2>1, <2>5 DEF ReviewInv, ReviewReport
    <3>2. [by |-> comment'.report.by, head |-> comment'.report.head] \in ledger'
      BY <1>5, <2>1
    <3>3. \A p \in ledger' : p.head <= comment'.report.head /\ p.head <= pushed'
      BY <1>2, <2>1, <2>8, <2>9
    <3>4. Review!PublishedTruthful'
      BY <1>2, <2>1 DEF Review!PublishedTruthful
    <3> QED BY <1>1, <3>1, <3>2, <3>3, <3>4, <2>11 DEF ReviewReport
  <2> QED BY <2>4, <2>6, <2>7, <2>12 DEF ReviewInv
<1> QED BY <1>4, <1>5 DEF Review!Publish

LEMMA ClearMarkerKeeps ==
    ASSUME ReviewInv, Review!ClearMarker
    PROVE  ReviewInv'
<1>1. doing = "clear" /\ job # 0
  BY DEF Review!ClearMarker, ReviewInv, ReviewOrder
<1>2. /\ UNCHANGED <<prior, created, clearing, ledger, leftover, reviews, pushed, job, cuts>>
      /\ Review!Me' = Review!Me /\ Publishers' = Publishers /\ AttemptsBegun' = AttemptsBegun
  BY DEF Review!ClearMarker, Review!jobUnchanged, Review!Me, Publishers, AttemptsBegun
<1>3. doing' \in {"post", "thrown"} /\ kept' \in BOOLEAN
  BY DEF Review!ClearMarker, Review!Write, ReviewInv, Review!ReviewTypeOK
<1>4. Review!ReviewTypeOK' <=> comment' \in CommentStates
  BY <1>2, <1>3 DEF ReviewInv, Review!ReviewTypeOK, CommentStates
<1>5. CASE comment' = comment /\ (kept' \/ comment.marker \notin {Review!None, Review!Me}
             \/ kept' = kept)
  <2>1. Review!ReviewTypeOK' /\ ReviewOrder'
    BY <1>1, <1>2, <1>3, <1>4, <1>5, ReviewTyped DEF ReviewInv, ReviewOrder
  <2>2. ReviewMarker'
    BY <1>1, <1>2, <1>3, <1>5 DEF ReviewInv, ReviewMarker
  <2>3. ReviewReport'
    BY <1>1, <1>2, <1>3, <1>5 DEF ReviewInv, ReviewReport, Review!NewestKept,
           Review!PublishedTruthful
  <2> QED BY <2>1, <2>2, <2>3 DEF ReviewInv
<1>6. CASE comment.marker \in {Review!None, Review!Me} /\ comment' = Review!Cleared
  BY <1>1, <1>2, <1>3, <1>4, <1>6, ClearedIs, UnmarkedKept DEF ReviewInv
<1>7. \/ comment' = comment /\ (kept' \/ comment.marker \notin {Review!None, Review!Me} \/ kept' = kept)
      \/ comment.marker \in {Review!None, Review!Me} /\ comment' = Review!Cleared
  BY DEF Review!ClearMarker, Review!Write
<1> QED BY <1>5, <1>6, <1>7

LEMMA ThrownKeeps ==
    ASSUME ReviewInv, Review!Thrown
    PROVE  ReviewInv'
<1>1. Review!ReviewTypeOK'
  BY ReviewAssumption
     DEF Review!Thrown, ReviewInv, Review!jobUnchanged, Review!writeUnchanged, ReviewMarker,
         ReviewOrder, ReviewReport, Review!ReviewTypeOK, Review!Me, Review!NoComment, Review!None,
         Publishers, AttemptsBegun, Review!NewestKept, Review!PublishedTruthful, Review!Reviews,
         Review!NoReport, Review!NotNewer, Review!Runs
<1>2. ReviewOrder'
  BY ReviewAssumption
     DEF Review!Thrown, ReviewInv, Review!jobUnchanged, Review!writeUnchanged, ReviewMarker,
         ReviewOrder, ReviewReport, Review!ReviewTypeOK, Review!Me, Review!NoComment, Review!None,
         Publishers, AttemptsBegun, Review!NewestKept, Review!PublishedTruthful, Review!Reviews,
         Review!NoReport, Review!NotNewer, Review!Runs
<1>3. ReviewMarker'
  BY ReviewAssumption
     DEF Review!Thrown, ReviewInv, Review!jobUnchanged, Review!writeUnchanged, ReviewMarker,
         ReviewOrder, ReviewReport, Review!ReviewTypeOK, Review!Me, Review!NoComment, Review!None,
         Publishers, AttemptsBegun, Review!NewestKept, Review!PublishedTruthful, Review!Reviews,
         Review!NoReport, Review!NotNewer, Review!Runs
<1>4. ReviewReport'
  BY ReviewAssumption
     DEF Review!Thrown, ReviewInv, Review!jobUnchanged, Review!writeUnchanged, ReviewMarker,
         ReviewOrder, ReviewReport, Review!ReviewTypeOK, Review!Me, Review!NoComment, Review!None,
         Publishers, AttemptsBegun, Review!NewestKept, Review!PublishedTruthful, Review!Reviews,
         Review!NoReport, Review!NotNewer, Review!Runs
<1> QED BY <1>1, <1>2, <1>3, <1>4 DEF ReviewInv

LEMMA PostReviewKeeps ==
    ASSUME ReviewInv, Review!PostReview
    PROVE  ReviewInv'
<1>1. job # 0 /\ UNCHANGED <<reviews, pushed, ledger>> /\ cuts' \in 0..MaxCuts
  BY DEF Review!PostReview, ReviewInv, ReviewOrder, Review!ReviewTypeOK
<1>2. CASE kept /\ Review!PostClears /\ Review!EndJob("none")
  <2>1. CASE comment.there /\ comment.marker = Review!Me
    <3>1. comment' = [comment EXCEPT !.marker = Review!None]
      BY <1>2, <2>1 DEF Review!PostClears, Review!Unmarked
    <3>2. comment' \in CommentStates /\ comment'.marker = Review!None /\ comment'.there = comment.there
            /\ comment'.report = comment.report
      BY <3>1, ReviewTyped, Remarked
    <3>3. Review!None # Review!Me
      BY <1>1, ReviewNamed
    <3> QED BY <1>1, <1>2, <2>1, <3>2, <3>3, EndJobKept
  <2>2. CASE ~(comment.there /\ comment.marker = Review!Me)
    <3>1. comment' = comment
      BY <1>2, <2>2 DEF Review!PostClears
    <3>2. comment.marker # Review!Me
      BY <1>1, <2>2, ReviewNamed DEF ReviewInv, ReviewMarker, Review!NoComment
    <3> QED BY <1>1, <1>2, <3>1, <3>2, EndJobKept, ReviewTyped
  <2> QED BY <2>1, <2>2
<1>3. CASE UNCHANGED comment /\ (Review!EndJob("told") \/ (~kept /\ Review!EndJob("none")))
  BY <1>1, <1>3, EndJobKept, ReviewTyped
<1> QED BY <1>2, <1>3 DEF Review!PostReview

LEMMA CutKeeps ==
    ASSUME ReviewInv, Review!Cut
    PROVE  ReviewInv'
<1>1. job # 0 /\ UNCHANGED <<reviews, pushed, ledger, comment>> /\ cuts' \in 0..MaxCuts
  BY ReviewAssumption DEF Review!Cut, Review!writeUnchanged, ReviewInv, Review!ReviewTypeOK
<1>2. CASE Review!EndJob("lost")
  BY <1>1, <1>2, EndJobKept, ReviewTyped
<1>3. CASE doing' = "post" /\ UNCHANGED <<job, prior, created, clearing, kept, leftover>>
  <2>1. Publishers' = Publishers /\ AttemptsBegun' = AttemptsBegun /\ Review!Me' = Review!Me
    BY <1>1, <1>3 DEF Publishers, AttemptsBegun, Review!Me
  <2>2. Review!ReviewTypeOK'
    BY <1>1, <1>3 DEF ReviewInv, Review!ReviewTypeOK
  <2>3. ReviewOrder' /\ ReviewMarker'
    BY <1>1, <1>3, <2>1 DEF ReviewInv, ReviewOrder, ReviewMarker
  <2>4. ReviewReport'
    BY <1>1, <1>3, <2>1 DEF ReviewInv, ReviewReport, Review!NewestKept, Review!PublishedTruthful
  <2> QED BY <2>2, <2>3, <2>4 DEF ReviewInv
<1> QED BY <1>2, <1>3 DEF Review!Cut

LEMMA ReviewInitInv == Review!ReviewInit => ReviewInv
<1> SUFFICES ASSUME Review!ReviewInit PROVE ReviewInv
  OBVIOUS
<1>1. Review!ReviewTypeOK
  <2>1. comment \in CommentStates
    BY ReviewAssumption DEF Review!ReviewInit, CommentStates, Review!NoComment, Review!NoReport
  <2>2. reviews \in Seq([head : 0..MaxPushes, tries : 1..MaxTries]) /\ Len(reviews) <= MaxReviews
    BY ReviewAssumption DEF Review!ReviewInit
  <2>3. leftover \in [Review!Reviews -> {"none", "lost", "unsaved", "told"}]
    BY DEF Review!ReviewInit
  <2>4. pushed \in 0..MaxPushes /\ job \in 0..MaxReviews /\ cuts \in 0..MaxCuts
    BY ReviewAssumption DEF Review!ReviewInit
  <2>5. prior \in SUBSET Review!Reviews /\ {created, kept} \subseteq BOOLEAN /\ ledger = {}
    BY DEF Review!ReviewInit
  <2> QED BY <2>1, <2>2, <2>3, <2>4, <2>5 DEF Review!ReviewInit, Review!ReviewTypeOK, CommentStates
<1>2. ReviewOrder
  BY ReviewAssumption
     DEF Review!ReviewInit, ReviewOrder, Review!NoComment, Review!Reviews, Review!Me, Review!None,
         Publishers, AttemptsBegun, Review!NoReport, Review!Runs
<1>3. ReviewMarker
  BY ReviewAssumption
     DEF Review!ReviewInit, ReviewMarker, Review!NoComment, Review!Reviews, Review!Me, Review!None,
         Review!NoReport, Review!Runs
<1>4. ReviewReport
  BY ReviewAssumption
     DEF Review!ReviewInit, ReviewReport, Review!NoComment, Review!Reviews, Review!NewestKept,
         Publishers, Review!PublishedTruthful, Review!NoReport, Review!None, Review!Runs,
         Review!NotNewer, Review!Me
<1> QED BY <1>1, <1>2, <1>3, <1>4 DEF ReviewInv

LEMMA ReviewInvNext ==
    ASSUME ReviewInv, [Review!ReviewNext]_Review!reviewVars
    PROVE  ReviewInv'
<1>1. CASE UNCHANGED Review!reviewVars
  <2>1. UNCHANGED <<reviews, pushed, comment, job, doing, prior, created, clearing, kept, ledger,
          leftover, cuts>>
    BY <1>1 DEF Review!reviewVars
  <2>2. Review!Me' = Review!Me /\ AttemptsBegun' = AttemptsBegun /\ Publishers' = Publishers
    BY <2>1 DEF Review!Me, AttemptsBegun, Publishers
  <2>3. Review!ReviewTypeOK'
    BY <2>1 DEF ReviewInv, Review!ReviewTypeOK
  <2>4. ReviewOrder' /\ ReviewMarker'
    BY <2>1, <2>2 DEF ReviewInv, ReviewOrder, ReviewMarker
  <2>5. ReviewReport'
    BY <2>1, <2>2 DEF ReviewInv, ReviewReport, Review!NewestKept, Review!PublishedTruthful
  <2> QED BY <2>3, <2>4, <2>5 DEF ReviewInv
<1>2. CASE Review!ReviewNext
  BY <1>2, PushedKeeps, StartNewKeeps, StartAgainKeeps, AdmitKeeps, KeepKeeps, CheckLiveKeeps,
     MarkKeeps, CreateKeeps, KeepCreatedKeeps, ReviewKeeps, CheckReviewedKeeps, PublishKeeps,
     ClearMarkerKeeps, ThrownKeeps, PostReviewKeeps, CutKeeps
     DEF Review!ReviewNext, Review!ReviewProgress
<1> QED BY <1>1, <1>2

LEMMA ReviewInvSafe == ReviewInv => Review!ReviewSafe
<1> SUFFICES ASSUME ReviewInv PROVE Review!ReviewSafe
  OBVIOUS
<1>1. Review!MarkersGo
  BY DEF ReviewInv, ReviewMarker, Review!MarkersGo
<1>2. ASSUME ledger # {} PROVE comment.there
  <2>1. comment.report.runs # {}
    BY <1>2 DEF ReviewInv, ReviewReport, Publishers
  <2>2. comment # Review!NoComment
    BY <2>1 DEF Review!NoComment, Review!NoReport
  <2> QED BY <2>2 DEF ReviewInv, ReviewMarker
<1>3. Review!ReportsKept
  BY <1>2 DEF ReviewInv, ReviewReport, Publishers, Review!ReportsKept
<1> QED BY <1>1, <1>3 DEF ReviewInv, ReviewReport, Review!ReviewSafe

-----------------------------------------------------------------------------
(* The calls of an ACP adapter. *)

Working == Acp!InStream \cup {"prompting", "answering"}
AtWork(c) == call[c] \in Working
StandsInLine(q, c) == \E n \in DOMAIN q : q[n] = c
NoneTwice(q) == \A m, n \in DOMAIN q : q[m] = q[n] => m = n
Answered == {c \in AcpCalls : call[c] = "settled"}

AcpTyped ==
    /\ Acp!AcpTypeOK
    /\ prompt \in [Acp!Agents -> AcpCalls \cup {Acp!Nobody}]
    /\ line \in Seq(AcpCalls)
    /\ requested \cup permitting \cup left \subseteq AcpCalls
    /\ attempt \in [AcpCalls -> Nat] /\ records \in [AcpCalls -> Nat]
    /\ closings \in [AcpCalls -> [Tools -> Nat]]

(* The queue holds the calls that have neither answered nor are idle, each *)
(* of them once, and only the first of them is at work.                    *)
AcpLine ==
    /\ \A c \in AcpCalls : call[c] \notin {"idle", "settled"} <=> StandsInLine(line, c)
    /\ NoneTwice(line)
    /\ \A c \in AcpCalls : AtWork(c) => c = Head(line)

(* Every agent before the last was told to end, and the last one works for *)
(* the call at work or not at all.                                         *)
AcpAgents ==
    /\ agent <= Cardinality(Answered) + 1
    /\ \A a \in Acp!Agents : a < agent => a \in gone /\ scope[a] = Acp!Nobody
    /\ \A a \in Acp!Agents : a > agent => a \notin busy \cup gone /\ scope[a] = Acp!Nobody
    /\ \A a \in busy : prompt[a] # Acp!Nobody
    /\ agent \in gone <=> \E c \in AcpCalls : call[c] = "failing"
    /\ agent \in busy => prompt[agent] = scope[agent] /\ \E c \in AcpCalls : call[c] \in Acp!InStream
    /\ \A c \in AcpCalls : AtWork(c) <=> scope[agent] = c

(* Only a call at work has something open, and who was asked was asked by  *)
(* an agent of its own.                                                    *)
AcpTools ==
    /\ \A c \in AcpCalls, x \in Tools : closings[c][x] = IF used[c][x] \in Acp!Outcomes THEN 1 ELSE 0
    /\ \A c \in AcpCalls : Acp!Opened(c) # {} => call[c] = "streaming"
    /\ \A s \in spans : \E c \in AcpCalls : s[1] = c /\ AtWork(c)
    /\ requested \subseteq permitting
    /\ Acp!OwnDecision

AcpInv == AcpTyped /\ AcpLine /\ AcpAgents /\ AcpTools

(* What a queue holds when one is added at its end, and when the first goes. *)

(* What a queue holds when one is added at its end, and when the first goes. *)
LEMMA AddedLast ==
    ASSUME NEW S, NEW q \in Seq(S), NEW c \in S, ~StandsInLine(q, c), NoneTwice(q)
    PROVE  /\ Append(q, c) \in Seq(S) /\ NoneTwice(Append(q, c))
           /\ \A d : StandsInLine(Append(q, c), d) <=> StandsInLine(q, d) \/ d = c
           /\ q # <<>> => Head(Append(q, c)) = Head(q)
<1> DEFINE new == Append(q, c)
<1>1. /\ new \in Seq(S) /\ Len(q) \in Nat /\ DOMAIN q = 1..Len(q) /\ DOMAIN new = 1..Len(q) + 1
      /\ new[Len(q) + 1] = c /\ \A n \in 1..Len(q) : new[n] = q[n]
  OBVIOUS
<1> HIDE DEF new
<1>2. NoneTwice(new)
  BY <1>1 DEF NoneTwice, StandsInLine
<1>3. ASSUME NEW d PROVE StandsInLine(new, d) <=> StandsInLine(q, d) \/ d = c
  <2>1. Len(q) + 1 \in DOMAIN new /\ \A n \in DOMAIN q : n \in DOMAIN new
    BY <1>1
  <2>2. \A n \in DOMAIN new : n \in DOMAIN q \/ n = Len(q) + 1
    BY <1>1
  <2> QED BY <1>1, <2>1, <2>2 DEF StandsInLine
<1>4. q # <<>> => Head(Append(q, c)) = Head(q)
  OBVIOUS
<1> QED BY <1>1, <1>2, <1>3, <1>4 DEF new

LEMMA FirstGone ==
    ASSUME NEW S, NEW q \in Seq(S), q # <<>>, NoneTwice(q)
    PROVE  /\ Tail(q) \in Seq(S) /\ NoneTwice(Tail(q)) /\ StandsInLine(q, Head(q))
           /\ \A d : StandsInLine(Tail(q), d) <=> StandsInLine(q, d) /\ d # Head(q)
<1> DEFINE new == Tail(q)
<1>1. /\ new \in Seq(S) /\ Len(q) \in Nat \ {0} /\ DOMAIN q = 1..Len(q) /\ DOMAIN new = 1..Len(q) - 1
      /\ Head(q) = q[1] /\ \A n \in 1..Len(q) - 1 : new[n] = q[n + 1]
  OBVIOUS
<1> HIDE DEF new
<1>2. NoneTwice(new)
  <2> SUFFICES ASSUME NEW m \in DOMAIN new, NEW n \in DOMAIN new, new[m] = new[n] PROVE m = n
    BY DEF NoneTwice
  <2>1. m + 1 \in DOMAIN q /\ n + 1 \in DOMAIN q /\ q[m + 1] = q[n + 1]
    BY <1>1
  <2>2. m + 1 = n + 1
    BY <2>1 DEF NoneTwice
  <2> QED BY <1>1, <2>2
<1>3. ASSUME NEW d, StandsInLine(new, d) PROVE StandsInLine(q, d) /\ d # Head(q)
  <2>1. PICK n \in DOMAIN new : new[n] = d
    BY <1>3 DEF StandsInLine
  <2>2. n + 1 \in DOMAIN q /\ q[n + 1] = d /\ 1 \in DOMAIN q /\ n + 1 # 1
    BY <1>1, <2>1
  <2> QED BY <1>1, <2>2 DEF StandsInLine, NoneTwice
<1>4. ASSUME NEW d, StandsInLine(q, d), d # Head(q) PROVE StandsInLine(new, d)
  <2>1. PICK n \in DOMAIN q : q[n] = d
    BY <1>4 DEF StandsInLine
  <2>2. n - 1 \in DOMAIN new /\ new[n - 1] = d
    BY <1>1, <1>4, <2>1
  <2> QED BY <2>2 DEF StandsInLine
<1>5. StandsInLine(q, Head(q))
  BY <1>1 DEF StandsInLine
<1> QED BY <1>1, <1>2, <1>3, <1>4, <1>5 DEF new

LEMMA HoldsSome == ASSUME NEW S, NEW q \in Seq(S), NEW c, StandsInLine(q, c) PROVE q # <<>>
  /\ Len(q) > 0
BY DEF StandsInLine

(* A call goes somewhere. *)
LEMMA GotoIs ==
    ASSUME Acp!AcpTypeOK, NEW c \in AcpCalls,
           NEW to \in {"idle", "queued", "prompting", "answering", "settled"} \cup Acp!InStream,
             Acp!Goto(c, to)
    PROVE  /\ call' \in [AcpCalls -> {"idle", "queued", "prompting", "answering",
                  "settled"} \cup Acp!InStream]
           /\ call'[c] = to /\ \A d \in AcpCalls \ {c} : call'[d] = call[d]
BY DEF Acp!Goto, Acp!AcpTypeOK

(* A call at work goes on, and nothing changes for the others. *)
LEMMA WorkGoesOn ==
    ASSUME AcpTyped, AcpLine, NEW c \in AcpCalls, AtWork(c), NEW to \in Working, Acp!Goto(c, to),
             line' = line
    PROVE  /\ AcpLine'
           /\ call' \in [AcpCalls -> {"idle", "queued", "prompting", "answering",
                "settled"} \cup Acp!InStream]
           /\ call'[c] = to /\ \A d \in AcpCalls \ {c} : call'[d] = call[d] /\ ~AtWork(d)
           /\ \A d \in AcpCalls : AtWork(d)' <=> d = c
           /\ Answered' = Answered
<1>1. /\ call' \in [AcpCalls -> {"idle", "queued", "prompting", "answering",
           "settled"} \cup Acp!InStream]
      /\ call'[c] = to /\ \A d \in AcpCalls \ {c} : call'[d] = call[d]
  BY GotoIs DEF AcpTyped, Working
<1>2. \A d \in AcpCalls \ {c} : ~AtWork(d)
  BY DEF AcpLine
<1>3. \A d \in AcpCalls : AtWork(d)' <=> d = c
  BY <1>1, <1>2 DEF AtWork
<1>4. call[c] \notin {"idle", "settled"} /\ to \notin {"idle", "settled"}
  BY DEF AtWork, Working, Acp!InStream
<1>5. Answered' = Answered
  BY <1>1, <1>4 DEF Answered
<1>6. AcpLine'
  BY <1>1, <1>3, <1>4 DEF AcpLine
<1> QED BY <1>1, <1>2, <1>3, <1>5, <1>6

(* The first call of the queue answers, and nobody is at work then. *)
LEMMA SettleIs ==
    ASSUME AcpTyped, AcpLine, NEW c \in AcpCalls, call[c] \notin {"idle", "settled"}, c = Head(line),
             NEW how, Acp!Settle(c, how)
    PROVE  /\ AcpLine' /\ line' \in Seq(AcpCalls)
           /\ call' \in [AcpCalls -> {"idle", "queued", "prompting", "answering",
                "settled"} \cup Acp!InStream]
           /\ call'[c] = "settled" /\ \A d \in AcpCalls \ {c} : call'[d] = call[d] /\ ~AtWork(d)
           /\ \A d \in AcpCalls : ~AtWork(d)'
           /\ answered' = [answered EXCEPT ![c] = how]
           /\ Cardinality(Answered') = Cardinality(Answered) + 1
           /\ \A s \in spans' : s \in spans /\ s[1] # c
<1>1. /\ call' \in [AcpCalls -> {"idle", "queued", "prompting", "answering",
           "settled"} \cup Acp!InStream]
      /\ call'[c] = "settled" /\ \A d \in AcpCalls \ {c} : call'[d] = call[d]
  BY GotoIs DEF AcpTyped, Acp!Settle
<1>2. \A d \in AcpCalls \ {c} : ~AtWork(d)
  BY DEF AcpLine
<1>3. \A d \in AcpCalls : ~AtWork(d)'
  BY <1>1, <1>2 DEF AtWork, Working, Acp!InStream
<1>4. line # <<>> /\ line \in Seq(AcpCalls) /\ NoneTwice(line) /\ line' = Tail(line)
  BY HoldsSome DEF AcpTyped, AcpLine, Acp!Settle
<1>5. line' \in Seq(AcpCalls) /\ NoneTwice(line') /\ \A d : StandsInLine(line', d)
        <=> StandsInLine(line, d) /\ d # c
  BY <1>4, FirstGone
<1>6. AcpLine'
  BY <1>1, <1>3, <1>5 DEF AcpLine
<1>7. Answered' = Answered \cup {c} /\ c \notin Answered
  BY <1>1 DEF Answered
<1>8. Cardinality(Answered') = Cardinality(Answered) + 1
  <2>1. IsFiniteSet(Answered)
    BY AcpAssumption, FS_Subset DEF Answered
  <2> QED BY <1>7, <2>1, FS_AddElement
<1> QED BY <1>1, <1>2, <1>3, <1>5, <1>6, <1>8 DEF Acp!Settle

(* There is an agent for every call. *)
LEMMA AgentsEnough ==
    /\ Cardinality(AcpCalls) \in Nat /\ Acp!Agents = 1..Cardinality(AcpCalls) + 1
    /\ Cardinality(Answered) \in Nat /\ Cardinality(Answered) <= Cardinality(AcpCalls)
<1>1. Answered \subseteq AcpCalls
  BY DEF Answered
<1>2. IsFiniteSet(AcpCalls)
  BY AcpAssumption
<1>3. IsFiniteSet(Answered) /\ Cardinality(Answered) <= Cardinality(AcpCalls)
  BY <1>1, <1>2, FS_Subset
<1>4. Cardinality(Answered) \in Nat /\ Cardinality(AcpCalls) \in Nat
  BY <1>2, <1>3, FS_CardinalityType
<1>5. Acp!Agents = 1..Cardinality(AcpCalls) + 1
  BY DEF Acp!Agents, Acp!Cardinality, Cardinality
<1> QED BY <1>3, <1>4, <1>5

LEMMA CloseIs ==
    ASSUME AcpTyped, NEW c \in AcpCalls, NEW which \in SUBSET Tools, NEW closedAs \in Acp!Outcomes,
             Acp!Close(c, which, closedAs)
    PROVE  /\ used' \in [AcpCalls -> [Tools -> {"none", "open"} \cup Acp!Outcomes]]
           /\ closings' \in [AcpCalls -> [Tools -> Nat]]
           /\ \A d \in AcpCalls, x \in Tools :
                 /\ used'[d][x] = IF d = c /\ x \in which THEN closedAs ELSE used[d][x]
                 /\ closings'[d][x] = IF d = c
                      /\ x \in which THEN closings[d][x] + 1 ELSE closings[d][x]
           /\ spans' \subseteq spans
<1>1. /\ used \in [AcpCalls -> [Tools -> {"none", "open"} \cup Acp!Outcomes]]
      /\ closings \in [AcpCalls -> [Tools -> Nat]]
  BY DEF AcpTyped, Acp!AcpTypeOK
<1> DEFINE tools == [x \in Tools |-> IF x \in which THEN closedAs ELSE used[c][x]]
           ends == [x \in Tools |-> IF x \in which THEN closings[c][x] + 1 ELSE closings[c][x]]
<1>2. tools \in [Tools -> {"none", "open"} \cup Acp!Outcomes] /\ ends \in [Tools -> Nat]
  BY <1>1
<1>3. used' = [used EXCEPT ![c] = tools] /\ closings' = [closings EXCEPT ![c] = ends]
  BY DEF Acp!Close
<1>4. \A x \in Tools : tools[x] = (IF x \in which THEN closedAs ELSE used[c][x])
                    /\ ends[x] = IF x \in which THEN closings[c][x] + 1 ELSE closings[c][x]
  OBVIOUS
<1>5. spans' \subseteq spans
  BY DEF Acp!Close
<1> HIDE DEF tools, ends
<1> QED BY <1>1, <1>2, <1>3, <1>4, <1>5

(* Tools that are open are closed once. *)
LEMMA CloseOpen ==
    ASSUME AcpTyped, AcpTools, NEW c \in AcpCalls, NEW which \in SUBSET Acp!Opened(c),
             NEW closedAs \in Acp!Outcomes,
           Acp!Close(c, which, closedAs)
    PROVE  /\ \A d \in AcpCalls, x \in Tools : closings'[d][x] = IF used'[d][x] \in Acp!Outcomes THEN 1 ELSE 0
           /\ Acp!Opened(c)' = Acp!Opened(c) \ which
                /\ \A d \in AcpCalls \ {c} : Acp!Opened(d)' = Acp!Opened(d)
           /\ spans' \subseteq spans
<1>1. \A x \in which : x \in Tools /\ used[c][x] = "open"
  BY DEF Acp!Opened
<1>2. "open" \notin Acp!Outcomes /\ "none" \notin Acp!Outcomes
  BY DEF Acp!Outcomes
<1>3. /\ \A d \in AcpCalls, x \in Tools :
            /\ used'[d][x] = IF d = c /\ x \in which THEN closedAs ELSE used[d][x]
            /\ closings'[d][x] = IF d = c /\ x \in which THEN closings[d][x] + 1 ELSE closings[d][x]
      /\ spans' \subseteq spans
  <2> DEFINE tools == [x \in Tools |-> IF x \in which THEN closedAs ELSE used[c][x]]
             ends == [x \in Tools |-> IF x \in which THEN closings[c][x] + 1 ELSE closings[c][x]]
  <2>1. /\ used \in [AcpCalls -> [Tools -> {"none", "open"} \cup Acp!Outcomes]]
        /\ closings \in [AcpCalls -> [Tools -> Nat]]
    BY DEF AcpTyped, Acp!AcpTypeOK
  <2>2. used' = [used EXCEPT ![c] = tools] /\ closings' = [closings EXCEPT ![c] = ends]
    BY DEF Acp!Close
  <2>3. \A x \in Tools : tools[x] = (IF x \in which THEN closedAs ELSE used[c][x])
                      /\ ends[x] = IF x \in which THEN closings[c][x] + 1 ELSE closings[c][x]
    OBVIOUS
  <2>4. spans' \subseteq spans
    BY DEF Acp!Close
  <2> HIDE DEF tools, ends
  <2> QED BY <2>1, <2>2, <2>3, <2>4
<1>4. \A d \in AcpCalls, x \in Tools : closings[d][x] = IF used[d][x] \in Acp!Outcomes THEN 1 ELSE 0
  BY DEF AcpTools
<1>5. \A d \in AcpCalls, x \in Tools : closings'[d][x] = IF used'[d][x] \in Acp!Outcomes THEN 1 ELSE 0
  BY <1>1, <1>2, <1>3, <1>4
<1>6. Acp!Opened(c)' = Acp!Opened(c) \ which /\ \A d \in AcpCalls \ {c} : Acp!Opened(d)' = Acp!Opened(d)
  BY <1>2, <1>3 DEF Acp!Opened
<1> QED BY <1>3, <1>5, <1>6

LEMMA ToolCallKeeps ==
    ASSUME AcpInv, NEW c \in AcpCalls, NEW x \in Tools, Acp!ToolCall(c, x)
    PROVE  AcpInv'
<1>1. AcpTyped'
  <2>1. used' = [used EXCEPT ![c][x] = "open"] /\ records' = [records EXCEPT ![c] = @ + 1]
        /\ UNCHANGED <<call, answered, line, agent, prompt, busy, gone, scope, requested, permitting,
             attempt, closings, left>>
    BY DEF Acp!ToolCall, Acp!agentVars
  <2>2. used' \in [AcpCalls -> [Tools -> {"none", "open"} \cup Acp!Outcomes]]
    BY <2>1 DEF AcpInv, AcpTyped, Acp!AcpTypeOK
  <2>3. records' \in [AcpCalls -> Nat]
    BY <2>1 DEF AcpInv, AcpTyped
  <2> QED BY <2>1, <2>2, <2>3 DEF AcpInv, AcpTyped, Acp!AcpTypeOK
<1>2. AcpLine'
  BY DEF Acp!ToolCall, AcpInv, AcpLine, AtWork
<1>3. AcpAgents'
  BY AcpAssumption
     DEF Acp!ToolCall, AcpInv, Acp!agentVars, AcpAgents, AcpLine, AcpTools, AcpTyped, Acp!Agents,
         Answered, AtWork, Acp!InStream, Acp!Nobody, StandsInLine, NoneTwice, Acp!Opened,
         Acp!Outcomes, Acp!OwnDecision, Acp!AcpTypeOK, Working
<1>4. AcpTools'
  <2>1. used' = [used EXCEPT ![c][x] = "open"] /\ spans' = spans \cup {<<c, x>>} /\ call[c] = "streaming"
        /\ used[c][x] = "none" /\ UNCHANGED <<call, answered, requested, permitting, closings>>
    BY DEF Acp!ToolCall
  <2>2. \A d \in AcpCalls, y \in Tools : used'[d][y] = IF d = c /\ y = x THEN "open" ELSE used[d][y]
    BY <2>1 DEF AcpInv, AcpTyped, Acp!AcpTypeOK
  <2>3. \A d \in AcpCalls, y \in Tools : closings'[d][y] = IF used'[d][y] \in Acp!Outcomes THEN 1 ELSE 0
    BY <2>1, <2>2 DEF AcpInv, AcpTools, Acp!Outcomes
  <2>4. \A d \in AcpCalls : Acp!Opened(d)' # {} => call'[d] = "streaming"
    BY <2>1, <2>2 DEF AcpInv, AcpTools, Acp!Opened
  <2>5. \A s \in spans' : \E d \in AcpCalls : s[1] = d /\ AtWork(d)'
    BY <2>1 DEF AcpInv, AcpTools, AtWork, Working, Acp!InStream
  <2> QED BY <2>1, <2>3, <2>4, <2>5 DEF AcpInv, AcpTools, Acp!OwnDecision
<1> QED BY <1>1, <1>2, <1>3, <1>4 DEF AcpInv

LEMMA ToolResultKeeps ==
    ASSUME AcpInv, NEW c \in AcpCalls, NEW x \in Tools, Acp!ToolResult(c, x)
    PROVE  AcpInv'
<1>1. AcpTyped'
  BY AcpAssumption
     DEF Acp!ToolResult, AcpInv, Acp!Close, Acp!agentVars, AcpAgents, AcpLine, AcpTools, AcpTyped,
         Acp!Agents, Answered, AtWork, Acp!InStream, Acp!Nobody, StandsInLine, NoneTwice,
         Acp!Opened, Acp!Outcomes, Acp!OwnDecision, Acp!AcpTypeOK, Working
<1>2. AcpLine'
  BY AcpAssumption
     DEF Acp!ToolResult, AcpInv, Acp!Close, Acp!agentVars, AcpAgents, AcpLine, AcpTools, AcpTyped,
         Acp!Agents, Answered, AtWork, Acp!InStream, Acp!Nobody, StandsInLine, NoneTwice,
         Acp!Opened, Acp!Outcomes, Acp!OwnDecision, Acp!AcpTypeOK, Working
<1>3. AcpAgents'
  BY AcpAssumption
     DEF Acp!ToolResult, AcpInv, Acp!Close, Acp!agentVars, AcpAgents, AcpLine, AcpTools, AcpTyped,
         Acp!Agents, Answered, AtWork, Acp!InStream, Acp!Nobody, StandsInLine, NoneTwice,
         Acp!Opened, Acp!Outcomes, Acp!OwnDecision, Acp!AcpTypeOK, Working
<1>4. AcpTools'
  <2>1. call[c] = "streaming" /\ x \in Acp!Opened(c)
          /\ UNCHANGED <<call, answered, requested, permitting>>
    BY DEF Acp!ToolResult, Acp!Opened
  <2>2. PICK closedAs \in Acp!Outcomes : Acp!Close(c, {x}, closedAs)
    BY DEF Acp!ToolResult, Acp!Outcomes
  <2>3. /\ \A d \in AcpCalls, y \in Tools : closings'[d][y] = IF used'[d][y] \in Acp!Outcomes THEN 1 ELSE 0
        /\ Acp!Opened(c)' = Acp!Opened(c) \ {x}
             /\ \A d \in AcpCalls \ {c} : Acp!Opened(d)' = Acp!Opened(d)
        /\ spans' \subseteq spans
    BY <2>1, <2>2, CloseOpen DEF AcpInv
  <2> QED BY <2>1, <2>3 DEF AcpInv, AcpTools, Acp!OwnDecision, AtWork
<1> QED BY <1>1, <1>2, <1>3, <1>4 DEF AcpInv

LEMMA EnqueueKeeps ==
    ASSUME AcpInv, NEW c \in AcpCalls, Acp!Enqueue(c)
    PROVE  AcpInv'
<1> USE DEF AcpInv
<1>1. call[c] = "idle" /\ line' = Append(line, c) /\ Acp!Goto(c, "queued")
      /\ UNCHANGED <<answered, agent, prompt, busy, gone, scope, requested, permitting, attempt, used,
           closings, records, spans, left>>
  BY DEF Acp!Enqueue, Acp!agentVars, Acp!toolVars
<1>2. /\ call' \in [AcpCalls -> {"idle", "queued", "prompting", "answering",
           "settled"} \cup Acp!InStream]
      /\ call'[c] = "queued" /\ \A d \in AcpCalls \ {c} : call'[d] = call[d]
  BY <1>1, GotoIs DEF AcpTyped
<1>3. Answered' = Answered /\ \A d \in AcpCalls : AtWork(d)' <=> AtWork(d)
  BY <1>1, <1>2 DEF Answered, AtWork, Working, Acp!InStream
<1>4. line \in Seq(AcpCalls) /\ ~StandsInLine(line, c) /\ NoneTwice(line)
  BY <1>1 DEF AcpTyped, AcpLine
<1>5. /\ line' \in Seq(AcpCalls) /\ NoneTwice(line') /\ \A d : StandsInLine(line', d)
           <=> StandsInLine(line, d) \/ d = c
      /\ line # <<>> => Head(line') = Head(line)
  BY <1>1, <1>4, AddedLast
<1>6. AcpTyped'
  BY <1>1, <1>2, <1>5 DEF AcpTyped, Acp!AcpTypeOK
<1>7. AcpLine'
  <2>1. ASSUME NEW d \in AcpCalls, AtWork(d) PROVE line # <<>>
    BY <1>4, <2>1, HoldsSome DEF AcpLine, AtWork, Working, Acp!InStream
  <2> QED BY <1>2, <1>3, <1>5, <2>1 DEF AcpLine
<1>8. AcpAgents'
  BY <1>1, <1>2, <1>3 DEF AcpAgents, Acp!InStream
<1>9. AcpTools'
  BY <1>1, <1>2, <1>3 DEF AcpTools, Acp!Opened, Acp!OwnDecision
<1> QED BY <1>6, <1>7, <1>8, <1>9

LEMMA ExecuteKeeps ==
    ASSUME AcpInv, NEW c \in AcpCalls, Acp!Execute(c)
    PROVE  AcpInv'
<1> USE DEF AcpInv
<1>1. call[c] = "queued" /\ c = Head(line)
        /\ UNCHANGED <<agent, prompt, busy, gone, requested, permitting, attempt, used, closings,
             records, left>>
  BY DEF Acp!Execute
<1>2. \A d \in AcpCalls : ~AtWork(d)
  <2>1. ~AtWork(c)
    BY <1>1 DEF AtWork, Working, Acp!InStream
  <2> QED BY <1>1, <2>1 DEF AcpLine
<1>3. scope[agent] \notin AcpCalls /\ agent \notin busy /\ agent \notin gone /\ agent \in Acp!Agents
  BY <1>2 DEF AcpAgents, AtWork, Working, Acp!InStream, AcpTyped, Acp!AcpTypeOK
<1>4. CASE Acp!Goto(c, "prompting") /\ scope' = [scope EXCEPT ![agent] = c]
             /\ spans' = spans \cup {Acp!Span(c)} /\ UNCHANGED <<answered, line>>
  <2>1. /\ call' \in [AcpCalls -> {"idle", "queued", "prompting", "answering",
             "settled"} \cup Acp!InStream]
        /\ call'[c] = "prompting" /\ \A d \in AcpCalls \ {c} : call'[d] = call[d]
    BY <1>4, GotoIs DEF AcpTyped
  <2>2. \A d \in AcpCalls : AtWork(d)' <=> d = c
    BY <1>2, <2>1 DEF AtWork, Working
  <2>3. Answered' = Answered
    BY <1>1, <2>1 DEF Answered
  <2>4. scope' \in [Acp!Agents -> AcpCalls \cup {Acp!Nobody}] /\ scope'[agent] = c
          /\ \A a \in Acp!Agents \ {agent} : scope'[a] = scope[a]
    BY <1>3, <1>4 DEF AcpTyped, Acp!AcpTypeOK
  <2>5. AcpTyped'
    BY <1>1, <1>4, <2>1, <2>4 DEF AcpTyped, Acp!AcpTypeOK
  <2>6. AcpLine'
    BY <1>1, <1>4, <2>1, <2>2 DEF AcpLine
  <2>7. AcpAgents'
    <3>1. call'[c] \notin Acp!InStream /\ \A d \in AcpCalls : call'[d] # "failing"
      BY <1>2, <2>1 DEF AtWork, Working, Acp!InStream
    <3>2. \A a \in Acp!Agents : a < agent \/ a > agent => a # agent
      BY AgentsEnough DEF AcpTyped, Acp!AcpTypeOK
    <3> QED BY <1>1, <1>3, <2>2, <2>3, <2>4, <3>1, <3>2 DEF AcpAgents
  <2>8. AcpTools'
    <3>1. \A s \in spans' : \E d \in AcpCalls : s[1] = d /\ AtWork(d)'
      BY <1>2, <1>4, <2>2 DEF AcpTools, Acp!Span
    <3>2. \A d \in AcpCalls : Acp!Opened(d)' = {}
      BY <1>1, <1>2 DEF AcpTools, Acp!Opened, AtWork, Working, Acp!InStream
    <3> QED BY <1>1, <1>4, <3>1, <3>2 DEF AcpTools, Acp!OwnDecision
  <2> QED BY <2>5, <2>6, <2>7, <2>8
<1>5. ASSUME Acp!Settle(c, IF c \in left THEN "cancelled" ELSE "failed"), UNCHANGED scope PROVE AcpInv'
  <2> DEFINE how == IF c \in left THEN "cancelled" ELSE "failed"
  <2>0. how \in {"cancelled", "failed"} /\ Acp!Settle(c, how)
    BY <1>5
  <2> HIDE DEF how
  <2>1. /\ AcpLine' /\ line' \in Seq(AcpCalls)
        /\ call' \in [AcpCalls -> {"idle", "queued", "prompting", "answering",
             "settled"} \cup Acp!InStream]
        /\ call'[c] = "settled" /\ (\A d \in AcpCalls \ {c} : call'[d] = call[d])
        /\ (\A d \in AcpCalls : ~AtWork(d)') /\ answered' = [answered EXCEPT ![c] = how]
        /\ Cardinality(Answered') = Cardinality(Answered) + 1
        /\ \A s \in spans' : s \in spans /\ s[1] # c
    BY <1>1, <2>0, SettleIs
  <2>2. AcpTyped'
    BY <1>1, <1>5, <2>0, <2>1 DEF AcpTyped, Acp!AcpTypeOK
  <2>3. AcpAgents'
    <3>1. agent \in Nat /\ agent <= Cardinality(Answered)' + 1
      BY <1>1, <2>1, AgentsEnough DEF AcpAgents, AcpTyped, Acp!AcpTypeOK
    <3>2. \A d \in AcpCalls : call'[d] # "failing"
      BY <2>1 DEF AtWork, Working, Acp!InStream
    <3> QED BY <1>1, <1>3, <1>5, <2>1, <3>1, <3>2 DEF AcpAgents
  <2>4. AcpTools'
    <3>1. \A d \in AcpCalls : Acp!Opened(d)' = {}
      BY <1>1, <1>2 DEF AcpTools, Acp!Opened, AtWork, Working, Acp!InStream
    <3>2. spans' = {}
      BY <1>2, <2>1 DEF AcpTools
    <3>3. Acp!OwnDecision'
      BY <1>1, <2>0, <2>1 DEF AcpTools, Acp!OwnDecision, AcpTyped, Acp!AcpTypeOK
    <3> QED BY <1>1, <3>1, <3>2, <3>3 DEF AcpTools
  <2> QED BY <2>1, <2>2, <2>3, <2>4
<1> QED BY <1>4, <1>5 DEF Acp!Execute

LEMMA StartStreamKeeps ==
    ASSUME AcpInv, NEW c \in AcpCalls, Acp!StartStream(c)
    PROVE  AcpInv'
<1> USE DEF AcpInv
<1>1. call[c] = "prompting"
        /\ UNCHANGED <<answered, line, agent, scope, requested, permitting, records, spans, left>>
  BY DEF Acp!StartStream
<1>2. AtWork(c) /\ agent \in Acp!Agents /\ c # Acp!Nobody
  BY <1>1, AcpAssumption DEF AtWork, Working, AcpTyped, Acp!AcpTypeOK
<1>3. PICK to \in Acp!InStream : Acp!Goto(c, to)
  BY DEF Acp!StartStream, Acp!InStream
<1>4. /\ AcpLine'
      /\ call' \in [AcpCalls -> {"idle", "queued", "prompting", "answering",
           "settled"} \cup Acp!InStream]
      /\ call'[c] = to /\ (\A d \in AcpCalls \ {c} : call'[d] = call[d] /\ ~AtWork(d))
      /\ (\A d \in AcpCalls : AtWork(d)' <=> d = c) /\ Answered' = Answered
  BY <1>1, <1>2, <1>3, WorkGoesOn DEF Working
<1>5. /\ used' \in [AcpCalls -> [Tools -> {"none", "open"} \cup Acp!Outcomes]]
      /\ closings' \in [AcpCalls -> [Tools -> Nat]]
      /\ \A d \in AcpCalls, x \in Tools :
            /\ used'[d][x] = IF d = c THEN "none" ELSE used[d][x]
            /\ closings'[d][x] = IF d = c THEN 0 ELSE closings[d][x]
  BY DEF Acp!StartStream, AcpTyped, Acp!AcpTypeOK
<1>6. attempt' \in [AcpCalls -> Nat]
  BY DEF Acp!StartStream, AcpTyped
<1>7. /\ prompt' \in [Acp!Agents -> AcpCalls \cup {Acp!Nobody}] /\ busy' \subseteq Acp!Agents
           /\ gone' \subseteq Acp!Agents
      /\ \A a \in Acp!Agents \ {agent} : prompt'[a] = prompt[a] /\ (a \in busy' <=> a \in busy)
           /\ (a \in gone' <=> a \in gone)
      /\ agent \in busy' => to = "streaming" /\ prompt'[agent] = c
      /\ agent \in gone' <=> to = "failing"
  <2>1. agent \notin busy /\ agent \notin gone
    BY <1>1, <1>2, <1>4 DEF AcpAgents, AtWork, Working, Acp!InStream
  <2>2. CASE to = "streaming"
    <3>1. prompt' = [prompt EXCEPT ![agent] = c] /\ busy' = busy \cup {agent} /\ gone' = gone
      BY <1>2, <1>4, <2>2, GotoIs DEF Acp!StartStream, AcpTyped, Acp!InStream
    <3> QED BY <1>2, <2>1, <2>2, <3>1 DEF AcpTyped, Acp!AcpTypeOK
  <2>3. CASE to = "failing"
    <3>1. gone' = gone \cup {agent} /\ UNCHANGED <<prompt, busy>>
      BY <1>2, <1>4, <2>3, GotoIs DEF Acp!StartStream, AcpTyped, Acp!InStream
    <3> QED BY <1>2, <2>1, <2>3, <3>1 DEF AcpTyped, Acp!AcpTypeOK
  <2> QED BY <2>2, <2>3 DEF Acp!InStream
<1>8. AcpTyped'
  BY <1>1, <1>4, <1>5, <1>6, <1>7 DEF AcpTyped, Acp!AcpTypeOK
<1>9. AcpAgents'
  <2>1. scope[agent] = c
    BY <1>2 DEF AcpAgents
  <2>2. \A a \in Acp!Agents : a < agent \/ a > agent => a # agent
    BY AgentsEnough DEF AcpTyped, Acp!AcpTypeOK
  <2>3. (\E d \in AcpCalls : call'[d] = "failing") <=> to = "failing"
    BY <1>4 DEF AtWork, Working, Acp!InStream
  <2>4. \A a \in busy' : prompt'[a] # Acp!Nobody
    BY <1>2, <1>7 DEF AcpAgents
  <2> QED BY <1>1, <1>2, <1>4, <1>7, <2>1, <2>2, <2>3, <2>4 DEF AcpAgents
<1>10. AcpTools'
  <2>1. \A d \in AcpCalls : Acp!Opened(d)' = {}
    BY <1>1, <1>4, <1>5 DEF AcpTools, Acp!Opened, AtWork, Working, Acp!InStream
  <2>2. \A d \in AcpCalls, x \in Tools : closings'[d][x] = IF used'[d][x] \in Acp!Outcomes THEN 1 ELSE 0
    BY <1>5 DEF AcpTools, Acp!Outcomes
  <2>3. \A s \in spans' : \E d \in AcpCalls : s[1] = d /\ AtWork(d)'
    BY <1>1, <1>4 DEF AcpTools
  <2> QED BY <1>1, <2>1, <2>2, <2>3 DEF AcpTools, Acp!OwnDecision
<1> QED BY <1>4, <1>8, <1>9, <1>10

LEMMA StreamFailsKeeps ==
    ASSUME AcpInv, NEW c \in AcpCalls, Acp!StreamFails(c)
    PROVE  AcpInv'
<1> USE DEF AcpInv
<1>1. /\ call[c] = "streaming" /\ gone' = gone \cup {agent}
      /\ UNCHANGED <<answered, line, agent, prompt, busy, scope, requested, permitting, attempt,
           records, left>>
  BY DEF Acp!StreamFails
<1>2. AtWork(c) /\ "failing" \in Working /\ Acp!Goto(c, "failing") /\ agent \in Acp!Agents
  BY <1>1 DEF AtWork, Working, Acp!InStream, Acp!StreamFails, AcpTyped, Acp!AcpTypeOK
<1>3. /\ AcpLine'
      /\ call' \in [AcpCalls -> {"idle", "queued", "prompting", "answering",
           "settled"} \cup Acp!InStream]
      /\ call'[c] = "failing" /\ (\A d \in AcpCalls \ {c} : call'[d] = call[d] /\ ~AtWork(d))
      /\ (\A d \in AcpCalls : AtWork(d)' <=> d = c) /\ Answered' = Answered
  BY <1>1, <1>2, WorkGoesOn
<1>4. PICK closedAs \in Acp!Outcomes : Acp!Close(c, Acp!Opened(c), closedAs)
  <2>1. "cancelled" \in Acp!Outcomes /\ "failure" \in Acp!Outcomes
    BY DEF Acp!Outcomes
  <2>2. CASE c \in left
    BY <2>1, <2>2 DEF Acp!StreamFails
  <2>3. CASE c \notin left
    BY <2>1, <2>3 DEF Acp!StreamFails
  <2> QED BY <2>2, <2>3
<1>5. /\ used' \in [AcpCalls -> [Tools -> {"none", "open"} \cup Acp!Outcomes]]
      /\ closings' \in [AcpCalls -> [Tools -> Nat]]
  BY <1>4, CloseIs DEF Acp!Opened
<1>6. /\ \A d \in AcpCalls, x \in Tools : closings'[d][x] = IF used'[d][x] \in Acp!Outcomes THEN 1 ELSE 0
      /\ Acp!Opened(c)' = Acp!Opened(c) \ Acp!Opened(c)
           /\ \A d \in AcpCalls \ {c} : Acp!Opened(d)' = Acp!Opened(d)
      /\ spans' \subseteq spans
  BY <1>4, CloseOpen
<1>7. AcpTyped'
  BY <1>1, <1>2, <1>3, <1>5 DEF AcpTyped, Acp!AcpTypeOK
<1>8. AcpAgents'
  <2>1. \A a \in Acp!Agents : a < agent \/ a > agent => a # agent
    BY AgentsEnough DEF AcpTyped, Acp!AcpTypeOK
  <2>2. call'[c] \in Acp!InStream
    BY <1>3 DEF Acp!InStream
  <2>3. scope[agent] = c /\ \A d \in AcpCalls : AtWork(d)' <=> scope[agent] = d
    BY <1>2, <1>3 DEF AcpAgents
  <2> QED BY <1>1, <1>2, <1>3, <2>1, <2>2, <2>3 DEF AcpAgents
<1>9. AcpTools'
  <2>1. \A d \in AcpCalls : Acp!Opened(d)' = {}
    BY <1>3, <1>6 DEF AcpTools, AtWork, Working, Acp!InStream
  <2>2. \A s \in spans' : \E d \in AcpCalls : s[1] = d /\ AtWork(d)'
    BY <1>3, <1>6 DEF AcpTools
  <2> QED BY <1>1, <1>6, <2>1, <2>2 DEF AcpTools, Acp!OwnDecision
<1> QED BY <1>3, <1>7, <1>8, <1>9

LEMMA AnswerFailureKeeps ==
    ASSUME AcpInv, NEW c \in AcpCalls, Acp!AnswerFailure(c)
    PROVE  AcpInv'
<1> USE DEF AcpInv
<1>1. /\ call[c] = "failing" /\ agent' = agent + 1 /\ scope' = [scope EXCEPT ![agent] = Acp!Nobody]
      /\ UNCHANGED <<prompt, busy, gone, requested, permitting, attempt, used, closings, records, left>>
  BY DEF Acp!AnswerFailure
<1>2. PICK how \in {"interaction", "cancelled", "failed"} :
        Acp!Settle(c, how) /\ (how = "interaction" => c \in requested)
  <2> DEFINE way == IF c \in requested THEN "interaction" ELSE IF c \in left THEN "cancelled" ELSE "failed"
  <2>1. way \in {"interaction", "cancelled", "failed"} /\ (way = "interaction" => c \in requested)
    OBVIOUS
  <2>2. Acp!Settle(c, way)
    BY DEF Acp!AnswerFailure
  <2> HIDE DEF way
  <2> QED BY <2>1, <2>2
<1>3. AtWork(c) /\ agent \in Acp!Agents /\ call[c] \notin {"idle", "settled"} /\ c = Head(line)
  BY <1>1 DEF AtWork, Working, Acp!InStream, AcpTyped, Acp!AcpTypeOK, AcpLine
<1>4. /\ AcpLine' /\ line' \in Seq(AcpCalls)
      /\ call' \in [AcpCalls -> {"idle", "queued", "prompting", "answering",
           "settled"} \cup Acp!InStream]
      /\ call'[c] = "settled" /\ (\A d \in AcpCalls \ {c} : call'[d] = call[d] /\ ~AtWork(d))
      /\ (\A d \in AcpCalls : ~AtWork(d)') /\ answered' = [answered EXCEPT ![c] = how]
      /\ Cardinality(Answered') = Cardinality(Answered) + 1
      /\ \A s \in spans' : s \in spans /\ s[1] # c
  BY <1>2, <1>3, SettleIs
<1>5. agent \in Nat /\ agent + 1 \in Acp!Agents /\ agent + 1 <= Cardinality(Answered)' + 1
  <2>1. Cardinality(Answered)' \in Nat /\ Cardinality(Answered)' <= Cardinality(AcpCalls)
    <3>1. Answered' \subseteq AcpCalls
      BY DEF Answered
    <3>2. IsFiniteSet(Answered') /\ Cardinality(Answered') <= Cardinality(AcpCalls)
      BY <3>1, AcpAssumption, FS_Subset
    <3> QED BY <3>2, FS_CardinalityType
  <2>2. Cardinality(AcpCalls) \in Nat /\ Acp!Agents = 1..Cardinality(AcpCalls) + 1
          /\ Cardinality(Answered) \in Nat
    BY AgentsEnough
  <2>3. agent <= Cardinality(Answered) + 1 /\ agent \in Nat /\ agent >= 1
    BY <1>3, <2>2 DEF AcpAgents
  <2> QED BY <1>4, <2>1, <2>2, <2>3
<1>6. scope' \in [Acp!Agents -> AcpCalls \cup {Acp!Nobody}] /\ scope'[agent] = Acp!Nobody
        /\ \A a \in Acp!Agents \ {agent} : scope'[a] = scope[a]
  BY <1>1, <1>3 DEF AcpTyped, Acp!AcpTypeOK
<1>7. AcpTyped'
  <2>1. answered' \in [AcpCalls -> {"none", "ok", "interaction", "cancelled", "failed", "malformed"}]
    BY <1>4 DEF AcpTyped, Acp!AcpTypeOK
  <2> QED BY <1>1, <1>4, <1>5 DEF AcpTyped, Acp!AcpTypeOK
<1>8. AcpAgents'
  <2>0. \A a \in Acp!Agents :
        /\ a < agent => a \in gone /\ scope[a] = Acp!Nobody
        /\ a > agent => a \notin busy \cup gone /\ scope[a] = Acp!Nobody
    BY DEF AcpAgents
  <2>1. agent \in gone
    BY <1>1, <1>3 DEF AcpAgents
  <2>2. \A a \in Acp!Agents :
        /\ a < agent' => a = agent \/ (a < agent /\ a # agent)
        /\ a > agent' => a > agent /\ a # agent
    <3>1. agent' = agent + 1 /\ agent \in Nat /\ \A a \in Acp!Agents : a \in Nat
      BY <1>1, <1>5, AgentsEnough
    <3> QED BY <3>1
  <2>3. \A a \in Acp!Agents :
        /\ a < agent' => a \in gone /\ scope'[a] = Acp!Nobody
        /\ a > agent' => a \notin busy \cup gone /\ scope'[a] = Acp!Nobody
    BY <1>6, <2>0, <2>1, <2>2
  <2>4. agent + 1 > agent /\ agent + 1 # agent
    BY <1>5
  <2>5. agent' \notin busy \cup gone /\ scope'[agent'] = Acp!Nobody
    BY <1>1, <1>5, <1>6, <2>4 DEF AcpAgents
  <2>6. \A d \in AcpCalls : call'[d] # "failing" /\ d # Acp!Nobody
    BY <1>4, AcpAssumption DEF AtWork, Working, Acp!InStream
  <2>7. agent' <= Cardinality(Answered)' + 1
    BY <1>1, <1>5
  <2>8. \A a \in busy' : prompt'[a] # Acp!Nobody
    BY <1>1 DEF AcpAgents
  <2>9. \A d \in AcpCalls : AtWork(d)' <=> scope'[agent'] = d
    BY <1>4, <2>5, <2>6
  <2>10. agent' \notin busy' /\ agent' \notin gone'
    BY <1>1, <2>5
  <2>11. agent' \in gone' <=> \E d \in AcpCalls : call'[d] = "failing"
    BY <2>6, <2>10
  <2>12. busy' = busy /\ gone' = gone
    BY <1>1
  <2> QED BY <2>3, <2>7, <2>8, <2>9, <2>10, <2>11, <2>12 DEF AcpAgents, Acp!Agents
<1>9. AcpTools'
  <2>1. \A d \in AcpCalls : Acp!Opened(d)' = {}
    BY <1>1, <1>4 DEF AcpTools, Acp!Opened, AtWork, Working, Acp!InStream
  <2>2. spans' = {}
    BY <1>4 DEF AcpTools
  <2>3. Acp!OwnDecision'
    BY <1>1, <1>2, <1>4 DEF AcpTools, Acp!OwnDecision, AcpTyped, Acp!AcpTypeOK
  <2> QED BY <1>1, <2>1, <2>2, <2>3 DEF AcpTools
<1> QED BY <1>4, <1>7, <1>8, <1>9

LEMMA StreamEndsKeeps ==
    ASSUME AcpInv, NEW c \in AcpCalls, Acp!StreamEnds(c)
    PROVE  AcpInv'
<1> USE DEF AcpInv
<1>1. /\ call[c] = "streaming" /\ agent \notin busy /\ Acp!Close(c, Acp!Opened(c), "incomplete")
      /\ UNCHANGED <<answered, line, agent, prompt, busy, gone, scope, requested, permitting, attempt,
           records, left>>
  BY DEF Acp!StreamEnds, Acp!agentVars
<1>2. AtWork(c) /\ "answering" \in Working /\ Acp!Goto(c, "answering") /\ agent \in Acp!Agents
        /\ "incomplete" \in Acp!Outcomes
  BY <1>1 DEF AtWork, Working, Acp!InStream, Acp!StreamEnds, AcpTyped, Acp!AcpTypeOK, Acp!Outcomes
<1>3. /\ AcpLine'
      /\ call' \in [AcpCalls -> {"idle", "queued", "prompting", "answering",
           "settled"} \cup Acp!InStream]
      /\ call'[c] = "answering" /\ (\A d \in AcpCalls \ {c} : call'[d] = call[d] /\ ~AtWork(d))
      /\ (\A d \in AcpCalls : AtWork(d)' <=> d = c) /\ Answered' = Answered
  BY <1>1, <1>2, WorkGoesOn
<1>4. /\ used' \in [AcpCalls -> [Tools -> {"none", "open"} \cup Acp!Outcomes]]
      /\ closings' \in [AcpCalls -> [Tools -> Nat]]
  BY <1>1, <1>2, CloseIs DEF Acp!Opened
<1>5. /\ \A d \in AcpCalls, x \in Tools : closings'[d][x] = IF used'[d][x] \in Acp!Outcomes THEN 1 ELSE 0
      /\ Acp!Opened(c)' = Acp!Opened(c) \ Acp!Opened(c)
           /\ \A d \in AcpCalls \ {c} : Acp!Opened(d)' = Acp!Opened(d)
      /\ spans' \subseteq spans
  BY <1>1, <1>2, CloseOpen
<1>6. AcpTyped'
  BY <1>1, <1>2, <1>3, <1>4 DEF AcpTyped, Acp!AcpTypeOK
<1>7. AcpAgents'
  <2>1. \A d \in AcpCalls : call[d] # "failing" /\ call'[d] # "failing"
    BY <1>1, <1>3 DEF AtWork, Working, Acp!InStream
  <2>2. \A d \in AcpCalls : AtWork(d)' <=> scope[agent] = d
    BY <1>2, <1>3 DEF AcpAgents
  <2> QED BY <1>1, <1>2, <1>3, <2>1, <2>2 DEF AcpAgents
<1>8. AcpTools'
  <2>1. \A d \in AcpCalls : Acp!Opened(d)' = {}
    BY <1>3, <1>5 DEF AcpTools, AtWork, Working, Acp!InStream
  <2>2. \A s \in spans' : \E d \in AcpCalls : s[1] = d /\ AtWork(d)'
    BY <1>3, <1>5 DEF AcpTools
  <2> QED BY <1>1, <1>5, <2>1, <2>2 DEF AcpTools, Acp!OwnDecision
<1> QED BY <1>3, <1>6, <1>7, <1>8

LEMMA AnswerKeeps ==
    ASSUME AcpInv, NEW c \in AcpCalls, Acp!Answer(c)
    PROVE  AcpInv'
<1> USE DEF AcpInv
<1>1. call[c] = "answering"
        /\ UNCHANGED <<agent, prompt, busy, gone, requested, permitting, attempt, used, closings,
             records, left>>
  BY DEF Acp!Answer
<1>2. /\ AtWork(c) /\ agent \in Acp!Agents /\ call[c] \notin {"idle", "settled"} /\ c = Head(line)
      /\ (\A d \in AcpCalls : call[d] \notin Acp!InStream) /\ agent \notin busy /\ agent \notin gone
  BY <1>1 DEF AtWork, Working, Acp!InStream, AcpTyped, Acp!AcpTypeOK, AcpLine, AcpAgents
<1>3. CASE Acp!Goto(c, "prompting") /\ UNCHANGED <<answered, line, scope, spans>>
  <2>1. /\ AcpLine'
        /\ call' \in [AcpCalls -> {"idle", "queued", "prompting", "answering",
             "settled"} \cup Acp!InStream]
        /\ call'[c] = "prompting" /\ (\A d \in AcpCalls \ {c} : call'[d] = call[d] /\ ~AtWork(d))
        /\ (\A d \in AcpCalls : AtWork(d)' <=> d = c) /\ Answered' = Answered
    BY <1>2, <1>3, WorkGoesOn DEF Working
  <2>2. AcpTyped'
    BY <1>1, <1>3, <2>1 DEF AcpTyped, Acp!AcpTypeOK
  <2>3. AcpAgents'
    <3>1. \A d \in AcpCalls : call'[d] # "failing"
      BY <1>2, <2>1 DEF Acp!InStream
    <3>2. \A d \in AcpCalls : AtWork(d)' <=> scope[agent] = d
      BY <1>2, <2>1 DEF AcpAgents
    <3> QED BY <1>1, <1>2, <1>3, <2>1, <3>1, <3>2 DEF AcpAgents
  <2>4. AcpTools'
    <3>1. \A d \in AcpCalls : Acp!Opened(d)' = {}
      BY <1>1, <1>2 DEF AcpTools, Acp!Opened, Acp!InStream
    <3>2. \A s \in spans' : \E d \in AcpCalls : s[1] = d /\ AtWork(d)'
      BY <1>3, <2>1 DEF AcpTools
    <3> QED BY <1>1, <1>3, <3>1, <3>2 DEF AcpTools, Acp!OwnDecision
  <2> QED BY <2>1, <2>2, <2>3, <2>4
<1>4. ASSUME NEW how \in {"interaction", "ok", "malformed"}, Acp!Settle(c, how), how = "interaction"
               => c \in requested,
             scope' = [scope EXCEPT ![agent] = Acp!Nobody]
      PROVE  AcpInv'
  <2>1. /\ AcpLine' /\ line' \in Seq(AcpCalls)
        /\ call' \in [AcpCalls -> {"idle", "queued", "prompting", "answering",
             "settled"} \cup Acp!InStream]
        /\ call'[c] = "settled" /\ (\A d \in AcpCalls \ {c} : call'[d] = call[d] /\ ~AtWork(d))
        /\ (\A d \in AcpCalls : ~AtWork(d)') /\ answered' = [answered EXCEPT ![c] = how]
        /\ Cardinality(Answered') = Cardinality(Answered) + 1
        /\ \A s \in spans' : s \in spans /\ s[1] # c
    BY <1>2, <1>4, SettleIs
  <2>2. scope' \in [Acp!Agents -> AcpCalls \cup {Acp!Nobody}] /\ scope'[agent] = Acp!Nobody
          /\ \A a \in Acp!Agents \ {agent} : scope'[a] = scope[a]
    BY <1>2, <1>4 DEF AcpTyped, Acp!AcpTypeOK
  <2>3. AcpTyped'
    <3>1. answered' \in [AcpCalls -> {"none", "ok", "interaction", "cancelled", "failed", "malformed"}]
      BY <2>1 DEF AcpTyped, Acp!AcpTypeOK
    <3> QED BY <1>1, <2>1, <2>2, <3>1 DEF AcpTyped, Acp!AcpTypeOK
  <2>4. AcpAgents'
    <3>1. agent \in Nat /\ agent <= Cardinality(Answered)' + 1
      BY <1>2, <2>1, AgentsEnough DEF AcpAgents
    <3>2. \A d \in AcpCalls : call'[d] # "failing" /\ d # Acp!Nobody
      BY <2>1, AcpAssumption DEF AtWork, Working, Acp!InStream
    <3>3. \A a \in Acp!Agents :
          /\ a < agent => scope'[a] = Acp!Nobody
          /\ a > agent => scope'[a] = Acp!Nobody
      BY <2>2 DEF AcpAgents
    <3> QED BY <1>1, <1>2, <2>1, <2>2, <3>1, <3>2, <3>3 DEF AcpAgents
  <2>5. AcpTools'
    <3>1. \A d \in AcpCalls : Acp!Opened(d)' = {}
      BY <1>1, <1>2 DEF AcpTools, Acp!Opened, Acp!InStream
    <3>2. spans' = {}
      BY <2>1 DEF AcpTools
    <3>3. Acp!OwnDecision'
      BY <1>1, <1>4, <2>1 DEF AcpTools, Acp!OwnDecision, AcpTyped, Acp!AcpTypeOK
    <3> QED BY <1>1, <3>1, <3>2, <3>3 DEF AcpTools
  <2> QED BY <2>1, <2>3, <2>4, <2>5
<1>5. \/ Acp!Goto(c, "prompting") /\ UNCHANGED <<answered, line, scope, spans>>
      \/ \E how \in {"interaction", "ok", "malformed"} : /\ Acp!Settle(c, how) /\ (how = "interaction" => c \in requested)
                                                      /\ scope' = [scope EXCEPT ![agent] = Acp!Nobody]
  <2>1. CASE c \in requested
    BY <2>1 DEF Acp!Answer
  <2>2. CASE c \notin requested
    BY <2>2 DEF Acp!Answer
  <2> QED BY <2>1, <2>2
<1> QED BY <1>3, <1>4, <1>5

LEMMA LeaveKeeps ==
    ASSUME AcpInv, NEW c \in AcpCalls, Acp!Leave(c)
    PROVE  AcpInv'
<1>1. AcpTyped'
  BY AcpAssumption
     DEF Acp!Leave, AcpInv, Acp!agentVars, Acp!toolVars, AcpAgents, AcpLine, AcpTools, AcpTyped,
         Acp!Agents, Answered, AtWork, Acp!InStream, Acp!Nobody, StandsInLine, NoneTwice,
         Acp!Opened, Acp!Outcomes, Acp!OwnDecision, Acp!AcpTypeOK, Working
<1>2. AcpLine'
  BY AcpAssumption
     DEF Acp!Leave, AcpInv, Acp!agentVars, Acp!toolVars, AcpAgents, AcpLine, AcpTools, AcpTyped,
         Acp!Agents, Answered, AtWork, Acp!InStream, Acp!Nobody, StandsInLine, NoneTwice,
         Acp!Opened, Acp!Outcomes, Acp!OwnDecision, Acp!AcpTypeOK, Working
<1>3. AcpAgents'
  BY AcpAssumption
     DEF Acp!Leave, AcpInv, Acp!agentVars, Acp!toolVars, AcpAgents, AcpLine, AcpTools, AcpTyped,
         Acp!Agents, Answered, AtWork, Acp!InStream, Acp!Nobody, StandsInLine, NoneTwice,
         Acp!Opened, Acp!Outcomes, Acp!OwnDecision, Acp!AcpTypeOK, Working
<1>4. AcpTools'
  BY AcpAssumption
     DEF Acp!Leave, AcpInv, Acp!agentVars, Acp!toolVars, AcpAgents, AcpLine, AcpTools, AcpTyped,
         Acp!Agents, Answered, AtWork, Acp!InStream, Acp!Nobody, StandsInLine, NoneTwice,
         Acp!Opened, Acp!Outcomes, Acp!OwnDecision, Acp!AcpTypeOK, Working
<1> QED BY <1>1, <1>2, <1>3, <1>4 DEF AcpInv

LEMMA AskPermissionKeeps ==
    ASSUME AcpInv, NEW a \in Acp!Agents, Acp!AskPermission(a)
    PROVE  AcpInv'
<1>1. AcpTyped'
  BY AcpAssumption
     DEF Acp!AskPermission, AcpInv, Acp!Nobody, Acp!ScopeOf, Acp!agentVars, Acp!toolVars,
         AcpAgents, AcpLine, AcpTools, AcpTyped, Acp!Agents, Answered, AtWork, Acp!InStream,
         StandsInLine, NoneTwice, Acp!Opened, Acp!Outcomes, Acp!OwnDecision, Acp!AcpTypeOK, Working
<1>2. AcpLine'
  BY AcpAssumption
     DEF Acp!AskPermission, AcpInv, Acp!Nobody, Acp!ScopeOf, Acp!agentVars, Acp!toolVars,
         AcpAgents, AcpLine, AcpTools, AcpTyped, Acp!Agents, Answered, AtWork, Acp!InStream,
         StandsInLine, NoneTwice, Acp!Opened, Acp!Outcomes, Acp!OwnDecision, Acp!AcpTypeOK, Working
<1>3. AcpAgents'
  BY AcpAssumption
     DEF Acp!AskPermission, AcpInv, Acp!Nobody, Acp!ScopeOf, Acp!agentVars, Acp!toolVars,
         AcpAgents, AcpLine, AcpTools, AcpTyped, Acp!Agents, Answered, AtWork, Acp!InStream,
         StandsInLine, NoneTwice, Acp!Opened, Acp!Outcomes, Acp!OwnDecision, Acp!AcpTypeOK, Working
<1>4. AcpTools'
  BY AcpAssumption
     DEF Acp!AskPermission, AcpInv, Acp!Nobody, Acp!ScopeOf, Acp!agentVars, Acp!toolVars,
         AcpAgents, AcpLine, AcpTools, AcpTyped, Acp!Agents, Answered, AtWork, Acp!InStream,
         StandsInLine, NoneTwice, Acp!Opened, Acp!Outcomes, Acp!OwnDecision, Acp!AcpTypeOK, Working
<1> QED BY <1>1, <1>2, <1>3, <1>4 DEF AcpInv

LEMMA PromptEndsKeeps ==
    ASSUME AcpInv, NEW a \in Acp!Agents, Acp!PromptEnds(a)
    PROVE  AcpInv'
<1>1. AcpTyped'
  BY AcpAssumption
     DEF Acp!PromptEnds, AcpInv, Acp!toolVars, AcpAgents, AcpLine, AcpTools, AcpTyped, Acp!Agents,
         Answered, AtWork, Acp!InStream, Acp!Nobody, StandsInLine, NoneTwice, Acp!Opened,
         Acp!Outcomes, Acp!OwnDecision, Acp!AcpTypeOK, Working
<1>2. AcpLine'
  BY AcpAssumption
     DEF Acp!PromptEnds, AcpInv, Acp!toolVars, AcpAgents, AcpLine, AcpTools, AcpTyped, Acp!Agents,
         Answered, AtWork, Acp!InStream, Acp!Nobody, StandsInLine, NoneTwice, Acp!Opened,
         Acp!Outcomes, Acp!OwnDecision, Acp!AcpTypeOK, Working
<1>3. AcpAgents'
  BY AcpAssumption
     DEF Acp!PromptEnds, AcpInv, Acp!toolVars, AcpAgents, AcpLine, AcpTools, AcpTyped, Acp!Agents,
         Answered, AtWork, Acp!InStream, Acp!Nobody, StandsInLine, NoneTwice, Acp!Opened,
         Acp!Outcomes, Acp!OwnDecision, Acp!AcpTypeOK, Working
<1>4. AcpTools'
  BY AcpAssumption
     DEF Acp!PromptEnds, AcpInv, Acp!toolVars, AcpAgents, AcpLine, AcpTools, AcpTyped, Acp!Agents,
         Answered, AtWork, Acp!InStream, Acp!Nobody, StandsInLine, NoneTwice, Acp!Opened,
         Acp!Outcomes, Acp!OwnDecision, Acp!AcpTypeOK, Working
<1> QED BY <1>1, <1>2, <1>3, <1>4 DEF AcpInv

LEMMA AcpStarts == Acp!AcpInit => AcpInv
<1> SUFFICES ASSUME Acp!AcpInit PROVE AcpInv
  OBVIOUS
<1>1. /\ call = [c \in AcpCalls |-> "idle"] /\ answered = [c \in AcpCalls |-> "none"] /\ line = <<>>
      /\ agent = 1 /\ busy = {} /\ gone = {} /\ requested = {} /\ permitting = {} /\ left = {}
           /\ spans = {}
      /\ prompt = [a \in Acp!Agents |-> Acp!Nobody] /\ scope = [a \in Acp!Agents |-> Acp!Nobody]
  BY DEF Acp!AcpInit
<1>2. /\ used = [c \in AcpCalls |-> [x \in Tools |-> "none"]]
      /\ closings = [c \in AcpCalls |-> [x \in Tools |-> 0]]
      /\ attempt = [c \in AcpCalls |-> 0] /\ records = [c \in AcpCalls |-> 0]
  BY DEF Acp!AcpInit
<1>3. /\ Cardinality(AcpCalls) \in Nat /\ Acp!Agents = 1..Cardinality(AcpCalls) + 1
      /\ Cardinality(Answered) \in Nat
  BY AgentsEnough
<1>4. \A c \in AcpCalls : call[c] = "idle" /\ ~AtWork(c) /\ c # Acp!Nobody /\ Acp!Opened(c) = {}
  BY <1>1, <1>2, AcpAssumption DEF AtWork, Working, Acp!InStream, Acp!Opened
<1>5. AcpTyped
  BY <1>1, <1>2, <1>3 DEF AcpTyped, Acp!AcpTypeOK
<1>6. AcpLine
  BY <1>1, <1>4 DEF AcpLine, StandsInLine, NoneTwice
<1>7. AcpAgents
  <2>1. 1 \in Acp!Agents /\ \A a \in Acp!Agents : scope[a] = Acp!Nobody /\ ~(a < 1)
    BY <1>1, <1>3
  <2> QED BY <1>1, <1>3, <1>4, <2>1 DEF AcpAgents
<1>8. AcpTools
  BY <1>1, <1>2, <1>4 DEF AcpTools, Acp!OwnDecision, Acp!Outcomes
<1> QED BY <1>5, <1>6, <1>7, <1>8 DEF AcpInv

LEMMA AcpKeeps == AcpInv /\ [Acp!AcpNext]_Acp!acpVars => AcpInv'
<1>1. ASSUME AcpInv, Acp!AcpNext PROVE AcpInv'
  BY <1>1, ToolCallKeeps, ToolResultKeeps, EnqueueKeeps, ExecuteKeeps, StartStreamKeeps,
     StreamFailsKeeps, AnswerFailureKeeps, StreamEndsKeeps, AnswerKeeps, LeaveKeeps,
     AskPermissionKeeps, PromptEndsKeeps
     DEF Acp!AcpNext, Acp!AcpProgress
<1>2. ASSUME AcpInv, UNCHANGED Acp!acpVars PROVE AcpInv'
  <2>1. AcpTyped' /\ AcpLine'
    BY <1>2 DEF Acp!acpVars, AcpInv, AcpTyped, Acp!AcpTypeOK, AcpLine, AtWork
  <2>2. Answered' = Answered /\ \A c \in AcpCalls : (AtWork(c)' <=> AtWork(c))
          /\ Acp!Opened(c)' = Acp!Opened(c)
    BY <1>2 DEF Acp!acpVars, Answered, AtWork, Acp!Opened
  <2>3. AcpAgents'
    BY <1>2, <2>2 DEF Acp!acpVars, AcpInv, AcpAgents
  <2>4. AcpTools'
    BY <1>2, <2>2 DEF Acp!acpVars, AcpInv, AcpTools, Acp!OwnDecision
  <2> QED BY <2>1, <2>3, <2>4 DEF AcpInv
<1> QED BY <1>1, <1>2

LEMMA AcpStaysSafe == AcpInv => Acp!AcpTypeOK /\ Acp!OwnDecision /\ Acp!ToolsEndOnce
<1> SUFFICES ASSUME AcpInv PROVE Acp!AcpTypeOK /\ Acp!OwnDecision /\ Acp!ToolsEndOnce
  OBVIOUS
<1>1. ASSUME NEW c \in AcpCalls, call[c] = "settled" PROVE Acp!Opened(c) = {}
               /\ \A s \in spans : s[1] # c
  BY <1>1 DEF AcpInv, AcpTools, AtWork, Working, Acp!InStream
<1> QED BY <1>1 DEF AcpInv, AcpTyped, AcpTools, Acp!ToolsEndOnce

(* The mapped state of a session of the contract, under names of its own. *)
Prompting == {prompt[a] : a \in busy}
Accounted == {prompt[a] : a \in gone} \ {Acp!Nobody}
CallIs(c) == CASE call[c] = "idle" -> "idle" [] call[c] = "settled" -> "settled" [] OTHER -> "open"

LEMMA WorkOthers ==
    ASSUME AcpInv, NEW a \in busy, a # agent
    PROVE  a \in gone /\ prompt[a] \in Accounted
<1>1. a \in Acp!Agents /\ agent \in Acp!Agents /\ a \in Nat /\ agent \in Nat
  BY AgentsEnough DEF AcpInv, AcpTyped, Acp!AcpTypeOK
<1>2. a < agent
  BY <1>1 DEF AcpInv, AcpAgents
<1> QED BY <1>1, <1>2 DEF AcpInv, AcpAgents, Accounted

LEMMA CallMoves ==
    ASSUME NEW c \in AcpCalls, Acp!AcpTypeOK, NEW to, Acp!Goto(c, to)
    PROVE  [d \in AcpCalls |-> CallIs(d)]' =
             [[d \in AcpCalls |-> CallIs(d)] EXCEPT
                 ![c] = CASE to = "idle" -> "idle" [] to = "settled" -> "settled" [] OTHER -> "open"]
BY DEF Acp!Goto, Acp!AcpTypeOK, CallIs

LEMMA AcpMeets ==
    /\ Acp!AcpInit => Acp!Contract!Init
    /\ AcpInv /\ [Acp!AcpNext]_Acp!acpVars => [Acp!Contract!Next]_(Acp!Contract!vars)
<1> DEFINE mapped == [c \in AcpCalls |-> CallIs(c)]
<1>0. Acp!AcpInit => Acp!Contract!Init
  BY DEF Acp!AcpInit, Acp!Contract!Init
<1> SUFFICES ASSUME AcpInv, [Acp!AcpNext]_Acp!acpVars PROVE [Acp!Contract!Next]_(Acp!Contract!vars)
  BY <1>0
<1>1. /\ Prompting = {prompt[a] : a \in busy} /\ Accounted = {prompt[a] : a \in gone} \ {Acp!Nobody}
      /\ agent \in Acp!Agents /\ Acp!AcpTypeOK /\ busy \subseteq Acp!Agents /\ gone \subseteq Acp!Agents
      /\ prompt \in [Acp!Agents -> AcpCalls \cup {Acp!Nobody}]
  BY DEF Prompting, Accounted, AcpInv, AcpTyped, Acp!AcpTypeOK
<1>2. ASSUME UNCHANGED <<mapped, Prompting, Accounted>> PROVE UNCHANGED Acp!Contract!vars
  BY <1>2 DEF Acp!Contract!vars, Prompting, Accounted, CallIs
<1>3. ASSUME UNCHANGED <<mapped, Prompting>>,
               Accounted \cap Prompting' \subseteq Accounted' PROVE Acp!Contract!Next
  BY <1>3
     DEF Acp!Contract!Next, Acp!Contract!Subside, Acp!Contract!Remembered, Prompting, Accounted,
         CallIs
<1>4. ASSUME NEW c \in AcpCalls, Acp!Enqueue(c) PROVE Acp!Contract!Next
  <2>1. call[c] = "idle" /\ Acp!Goto(c, "queued") /\ UNCHANGED <<busy, prompt, gone>>
    BY <1>4 DEF Acp!Enqueue, Acp!agentVars
  <2>2. mapped' = [mapped EXCEPT ![c] = "open"]
    BY <1>1, <2>1, CallMoves
  <2>3. Acp!Contract!Enter(c)
    BY <2>1, <2>2 DEF Acp!Contract!Enter, CallIs
  <2> QED BY <2>3 DEF Acp!Contract!Next
<1>5. ASSUME NEW c \in AcpCalls, call[c] \notin {"idle", "settled"}, NEW to,
               to \notin {"idle", "settled"}, Acp!Goto(c, to)
      PROVE  mapped' = mapped
  <2>1. mapped' = [mapped EXCEPT ![c] = "open"]
    BY <1>1, <1>5, CallMoves
  <2>2. mapped[c] = "open"
    BY <1>5 DEF CallIs
  <2> QED BY <2>1, <2>2
<1>6. ASSUME NEW c \in AcpCalls, call[c] \notin {"idle", "settled"}, NEW how, Acp!Settle(c, how),
             UNCHANGED <<busy, prompt, gone>>, c \in Prompting => c \in Accounted
      PROVE  Acp!Contract!Next
  <2>1. mapped' = [mapped EXCEPT ![c] = "settled"]
    BY <1>1, <1>6, CallMoves DEF Acp!Settle
  <2>2. Acp!Contract!Settle(c)
    BY <1>6, <2>1 DEF Acp!Contract!Settle, Acp!Contract!Remembered, Prompting, Accounted, CallIs
  <2> QED BY <2>2 DEF Acp!Contract!Next
<1>7. ASSUME NEW c \in AcpCalls, Acp!StartStream(c) PROVE Acp!Contract!Next
  <2>1. call[c] = "prompting"
    BY <1>7 DEF Acp!StartStream
  <2>2. (\A d \in AcpCalls : call[d] \notin Acp!InStream) /\ agent \notin busy /\ agent \notin gone
    BY <1>1, <2>1 DEF AcpInv, AcpLine, AcpAgents, AtWork, Working, Acp!InStream
  <2>3. CASE Acp!Goto(c, "streaming") /\ prompt' = [prompt EXCEPT ![agent] = c]
               /\ busy' = busy \cup {agent} /\ gone' = gone
    <3>1. mapped' = mapped
      BY <1>5, <2>1, <2>3
    <3>2. prompt'[agent] = c /\ \A a \in Acp!Agents \ {agent} : prompt'[a] = prompt[a]
      BY <1>1, <2>3
    <3>3. Prompting' = Prompting \cup {c}
      BY <1>1, <2>2, <2>3, <3>2 DEF Prompting
    <3>4. Accounted' = Accounted
      BY <1>1, <2>2, <2>3, <3>2 DEF Accounted
    <3>5. \A d \in Prompting : d \in Accounted
      BY <2>2, WorkOthers DEF Prompting
    <3>6. Acp!Contract!Send(c)
      BY <2>1, <3>1, <3>3, <3>4, <3>5
         DEF Acp!Contract!Send, Acp!Contract!Quiet, Prompting, Accounted, CallIs
    <3> QED BY <3>6 DEF Acp!Contract!Next
  <2>4. CASE Acp!Goto(c, "failing") /\ gone' = gone \cup {agent} /\ UNCHANGED <<prompt, busy>>
    <3>1. mapped' = mapped
      BY <1>5, <2>1, <2>4
    <3> QED BY <1>3, <2>4, <3>1 DEF Prompting, Accounted
  <2> QED BY <1>7, <2>3, <2>4 DEF Acp!StartStream
<1>8. ASSUME NEW c \in AcpCalls, Acp!StreamFails(c) PROVE Acp!Contract!Next
  <2>1. Acp!Goto(c, "failing") /\ call[c] = "streaming" /\ gone' = gone \cup {agent}
          /\ UNCHANGED <<prompt, busy>>
    BY <1>8 DEF Acp!StreamFails
  <2>2. mapped' = mapped
    BY <1>5, <2>1
  <2> QED BY <1>3, <2>1, <2>2 DEF Prompting, Accounted
<1>9. ASSUME NEW a \in Acp!Agents, Acp!PromptEnds(a) PROVE Acp!Contract!Next
  <2>1. busy' = busy \ {a} /\ UNCHANGED <<call, prompt, gone>>
    BY <1>9 DEF Acp!PromptEnds
  <2> QED BY <2>1 DEF Acp!Contract!Next, Acp!Contract!Subside, Acp!Contract!Remembered
<1>10. ASSUME NEW c \in AcpCalls, Acp!Execute(c) PROVE Acp!Contract!Next \/ UNCHANGED Acp!Contract!vars
  <2>1. call[c] = "queued" /\ UNCHANGED <<prompt, busy, gone>>
    BY <1>10 DEF Acp!Execute
  <2>2. CASE Acp!Goto(c, "prompting")
    <3>1. mapped' = mapped
      BY <1>5, <2>1, <2>2
    <3> QED BY <1>2, <2>1, <3>1 DEF Prompting, Accounted
  <2>3. CASE \E how : Acp!Settle(c, how)
    <3>1. c = Head(line) /\ ~AtWork(c)
      BY <1>10, <2>1 DEF Acp!Execute, AtWork, Working, Acp!InStream
    <3>2. agent \notin busy
      BY <3>1 DEF AcpInv, AcpLine, AcpAgents, AtWork, Working
    <3>3. c \in Prompting => c \in Accounted
      BY <3>2, WorkOthers DEF Prompting
    <3> QED BY <1>6, <2>1, <2>3, <3>3
  <2> QED BY <1>10, <2>2, <2>3 DEF Acp!Execute
<1>11. ASSUME NEW c \in AcpCalls, Acp!AnswerFailure(c) PROVE Acp!Contract!Next
  <2>1. call[c] = "failing" /\ UNCHANGED <<prompt, busy, gone>> /\ \E how : Acp!Settle(c, how)
    BY <1>11 DEF Acp!AnswerFailure
  <2>2. agent \in gone
    BY <2>1 DEF AcpInv, AcpAgents
  <2>3. c \in Prompting => c \in Accounted
    <3>1. c # Acp!Nobody
      BY AcpAssumption
    <3> QED BY <2>2, <3>1, WorkOthers DEF Prompting, Accounted
  <2> QED BY <1>6, <2>1, <2>3
<1>12. ASSUME NEW c \in AcpCalls, Acp!StreamEnds(c) PROVE UNCHANGED Acp!Contract!vars
  <2>1. Acp!Goto(c, "answering") /\ call[c] = "streaming" /\ UNCHANGED <<prompt, busy, gone>>
    BY <1>12 DEF Acp!StreamEnds, Acp!agentVars
  <2>2. mapped' = mapped
    BY <1>5, <2>1
  <2> QED BY <1>2, <2>1, <2>2 DEF Prompting, Accounted
<1>13. ASSUME NEW c \in AcpCalls, Acp!Answer(c) PROVE Acp!Contract!Next \/ UNCHANGED Acp!Contract!vars
  <2>1. call[c] = "answering" /\ UNCHANGED <<prompt, busy, gone>>
    BY <1>13 DEF Acp!Answer
  <2>2. CASE Acp!Goto(c, "prompting")
    <3>1. mapped' = mapped
      BY <1>5, <2>1, <2>2
    <3> QED BY <1>2, <2>1, <3>1 DEF Prompting, Accounted
  <2>3. CASE \E how : Acp!Settle(c, how)
    <3>1. agent \notin busy
      BY <2>1 DEF AcpInv, AcpLine, AcpAgents, AtWork, Working, Acp!InStream
    <3>2. c \in Prompting => c \in Accounted
      BY <3>1, WorkOthers DEF Prompting
    <3> QED BY <1>6, <2>1, <2>3, <3>2
  <2> QED BY <1>13, <2>2, <2>3 DEF Acp!Answer
<1>14. ASSUME NEW c \in AcpCalls, Acp!Leave(c) PROVE UNCHANGED Acp!Contract!vars
  BY <1>14 DEF Acp!Leave, Acp!agentVars, Acp!Contract!vars
<1>15. ASSUME NEW c \in AcpCalls, NEW x \in Tools, Acp!ToolCall(c, x)
                \/ Acp!ToolResult(c, x) PROVE UNCHANGED Acp!Contract!vars
  BY <1>15 DEF Acp!ToolCall, Acp!ToolResult, Acp!agentVars, Acp!Contract!vars
<1>16. ASSUME NEW a \in Acp!Agents, Acp!AskPermission(a) PROVE UNCHANGED Acp!Contract!vars
  BY <1>16 DEF Acp!AskPermission, Acp!agentVars, Acp!Contract!vars
<1>17. ASSUME UNCHANGED Acp!acpVars PROVE UNCHANGED Acp!Contract!vars
  BY <1>17 DEF Acp!acpVars, Acp!Contract!vars
<1> HIDE DEF mapped
<1> QED BY <1>4, <1>7, <1>8, <1>9, <1>10, <1>11, <1>12, <1>13, <1>14, <1>15, <1>16, <1>17
           DEF Acp!AcpNext, Acp!AcpProgress

-----------------------------------------------------------------------------
(* What a call of the OpenCode adapter tells of its tools. *)

(* A call that is under way has a prompt, whose message is the last of its  *)
(* session when the answer is there.                                        *)
ProjectionCall ==
    /\ Projection!ProjectionTypeOK
    /\ textual \in BOOLEAN /\ blind \in BOOLEAN /\ disabled \in BOOLEAN
    /\ shown \in [ProjectedTools -> [ends : Nat, revived : BOOLEAN]]
    /\ history \in [ready : BOOLEAN, cursor : Nat, known : SUBSET Projection!Messages]
    /\ unsent \subseteq Projection!Messages
    /\ listed \in Old .. (Old + prompts) /\ (projecting = "idle" <=> prompts = 0)
    /\ projecting \in {"history", "sending", "answered"} => listed = Old + prompts
    /\ projecting \in {"snapshot", "history"} => pages < MaxPages
    /\ projecting = "history" => textual
    /\ unsent # {} => projecting \notin {"idle", "settled"}

(* The dispatcher has seen the end of a tool when it has been reported. *)
ProjectionShown ==
    \A t \in ProjectedTools : format[t] = "native" =>
        shown[t].ends = (IF <<"tool", t>> \in seen THEN 1 ELSE 0) /\ ~shown[t].revived

(* The spans stand under that of the agent, which is open until they are    *)
(* given up or the call is over.                                            *)
ProjectionSpans ==
    /\ projecting = "idle" => \A k \in Projection!SpanKeys : span[k] = "none"
    /\ disabled \/ projecting = "settled" => Projection!OpenSpans = {}
    /\ projecting \notin {"idle", "settled"} /\ ~disabled => span[Projection!Agent] = "open"

(* Unless a read has failed, what the last page has of before the call is   *)
(* known once a page was read, and none of it is to be sent.                *)
ProjectionHistory ==
    blind \/ /\ history.ready \/ history.cursor # 0 =>
                   \A m \in 1 .. Old : m > listed - PageSize => m \in history.known
             /\ textual /\ projecting \in {"prompting", "history"} => history.ready
             /\ \A m \in unsent : m > Old
             /\ strange = {}

ProjectionInv == ProjectionCall /\ ProjectionShown /\ ProjectionSpans /\ ProjectionHistory

(* What an observation does to what was told. *)
ObservedWell ==
    /\ span' \in [Projection!SpanKeys -> {"none", "open", "ended", "stuck"}]
    /\ refusals' \in 0 .. MaxRefusals /\ disabled' \in BOOLEAN
    /\ disabled' => Projection!OpenSpans' = {}
    /\ ~disabled' => ~disabled /\ span'[Projection!Agent] = span[Projection!Agent]
    /\ shown' \in [ProjectedTools -> [ends : Nat, revived : BOOLEAN]] /\ ProjectionShown'
    /\ strange' \subseteq ProjectedTools /\ (blind \/ strange' = {})

LEMMA ProjectIs ==
    ASSUME ProjectionCall, disabled
             => Projection!OpenSpans = {}, NEW k \in Projection!SpanKeys, k # Projection!Agent,
               NEW ends, Projection!Project(k, ends)
    PROVE  /\ span' \in [Projection!SpanKeys -> {"none", "open", "ended", "stuck"}]
           /\ refusals' \in 0 .. MaxRefusals /\ disabled' \in BOOLEAN
           /\ disabled' => Projection!OpenSpans' = {}
           /\ ~disabled' => ~disabled /\ span'[Projection!Agent] = span[Projection!Agent]
<1>1. /\ span \in [Projection!SpanKeys -> {"none", "open", "ended", "stuck"}]
           /\ refusals \in 0 .. MaxRefusals /\ MaxRefusals \in Nat
      /\ disabled \in BOOLEAN /\ Projection!Agent \in Projection!SpanKeys
  <2>1. Projection!Agent \in Projection!SpanKeys
    BY DEF Projection!SpanKeys
  <2> QED BY <2>1, ProjectionAssumption DEF ProjectionCall, Projection!ProjectionTypeOK
<1>2. CASE UNCHANGED Projection!spanVars
  BY <1>1, <1>2 DEF Projection!spanVars, Projection!OpenSpans
<1>3. ASSUME Projection!Disable
      PROVE  /\ span' \in [Projection!SpanKeys -> {"none", "open", "ended", "stuck"}]
             /\ disabled' = TRUE /\ Projection!OpenSpans' = {}
  BY <1>1, <1>3 DEF Projection!Disable, Projection!OpenSpans
<1>4. CASE Projection!Disable /\ refusals' \in {refusals, refusals + 1}
             /\ (refusals' = refusals \/ refusals < MaxRefusals)
  BY <1>1, <1>3, <1>4
<1>5. CASE ~disabled /\ Projection!Apply(k, ends) /\ UNCHANGED <<disabled, refusals>>
  <2>1. span' \in [Projection!SpanKeys -> {"none", "open", "ended", "stuck"}]
          /\ span'[Projection!Agent] = span[Projection!Agent]
    BY <1>1, <1>5 DEF Projection!Apply
  <2> QED BY <1>1, <1>5, <2>1
<1> QED BY <1>2, <1>4, <1>5 DEF Projection!Project, Projection!Refused

LEMMA ObservedIs ==
    ASSUME ProjectionInv,
           strange' \subseteq ProjectedTools, blind \/ strange' = {},
           shown' \in [ProjectedTools -> [ends : Nat, revived : BOOLEAN]], ProjectionShown',
           \/ UNCHANGED Projection!spanVars
           \/ \E k \in Projection!SpanKeys : \E ends \in BOOLEAN : k # Projection!Agent
                /\ Projection!Project(k, ends)
    PROVE  ObservedWell
<1>1. /\ span' \in [Projection!SpanKeys -> {"none", "open", "ended", "stuck"}]
      /\ refusals' \in 0 .. MaxRefusals /\ disabled' \in BOOLEAN
      /\ disabled' => Projection!OpenSpans' = {}
      /\ ~disabled' => ~disabled /\ span'[Projection!Agent] = span[Projection!Agent]
  <2>1. CASE UNCHANGED Projection!spanVars
    BY <2>1
       DEF ProjectionInv, ProjectionCall, Projection!ProjectionTypeOK, ProjectionSpans,
           Projection!OpenSpans, Projection!spanVars
  <2>2. CASE \E k \in Projection!SpanKeys : \E ends \in BOOLEAN : k # Projection!Agent
               /\ Projection!Project(k, ends)
    <3>1. PICK k \in Projection!SpanKeys, ends \in BOOLEAN : k # Projection!Agent
                 /\ Projection!Project(k, ends)
      BY <2>2
    <3> QED BY <3>1, ProjectIs DEF ProjectionInv, ProjectionSpans
  <2> QED BY <2>1, <2>2
<1> QED BY <1>1 DEF ObservedWell

(* The call goes on, or has its answer. *)
LEMMA ObservedKeeps ==
    ASSUME ProjectionInv, ObservedWell, projecting \notin {"idle", "settled"}, unsent' \subseteq unsent,
           UNCHANGED <<textual, format, prompts, listed, ran, history, blind>>,
           \/ UNCHANGED <<projecting, pages>>
           \/ /\ projecting = "prompting" /\ listed = Old + prompts
              /\ projecting' = (IF textual THEN "history" ELSE "answered") /\ pages' = 0
    PROVE  ProjectionInv'
<1>1. pages' \in 0 .. MaxPages /\ (projecting' \in {"snapshot", "history"} => pages' < MaxPages)
  BY ProjectionAssumption DEF ProjectionInv, ProjectionCall, Projection!ProjectionTypeOK
<1>2. Projection!ProjectionTypeOK'
  BY <1>1 DEF ObservedWell, ProjectionInv, ProjectionCall, Projection!ProjectionTypeOK
<1>3. ProjectionCall'
  BY <1>1, <1>2 DEF ObservedWell, ProjectionInv, ProjectionCall
<1>4. ProjectionSpans'
  BY DEF ObservedWell, ProjectionInv, ProjectionSpans
<1>5. ProjectionHistory'
  BY DEF ObservedWell, ProjectionInv, ProjectionHistory
<1> QED BY <1>3, <1>4, <1>5 DEF ObservedWell, ProjectionInv

(* A tool is reported once it has ended, and not again. *)
LEMMA ReportIs ==
    ASSUME ProjectionInv, NEW t \in ProjectedTools, NEW ends \in BOOLEAN, Projection!Report(t, ends),
           MessageOf[t] > Old \/ blind
    PROVE  /\ shown' \in [ProjectedTools -> [ends : Nat, revived : BOOLEAN]]
           /\ \A u \in ProjectedTools \ {t} : shown'[u] = shown[u]
           /\ shown'[t].ends = (IF ends THEN shown[t].ends + 1 ELSE shown[t].ends)
           /\ shown[t].ends = 0 /\ ~shown[t].revived => ~shown'[t].revived
           /\ strange' \subseteq ProjectedTools /\ (blind \/ strange' = {})
<1>1. /\ shown \in [ProjectedTools -> [ends : Nat, revived : BOOLEAN]] /\ MessageOf[t] \in Nat
           /\ Old \in Nat
      /\ strange \subseteq ProjectedTools /\ (blind \/ strange = {})
  BY ProjectionAssumption
     DEF ProjectionInv, ProjectionCall, Projection!ProjectionTypeOK, ProjectionHistory,
         Projection!Messages
<1>2. shown' = [shown EXCEPT ![t] = [ends |-> IF ends THEN shown[t].ends + 1 ELSE shown[t].ends,
                                     revived |-> shown[t].revived \/ (~ends /\ shown[t].ends > 0)]]
  BY DEF Projection!Report
<1>3. /\ shown'[t].ends = (IF ends THEN shown[t].ends + 1 ELSE shown[t].ends)
      /\ shown'[t].revived = (shown[t].revived \/ (~ends /\ shown[t].ends > 0))
      /\ shown'[t] = [ends |-> shown'[t].ends, revived |-> shown'[t].revived]
      /\ \A u \in ProjectedTools \ {t} : shown'[u] = shown[u]
  BY <1>1, <1>2
<1>4. shown'[t] \in [ends : Nat, revived : BOOLEAN]
  <2>1. shown[t].ends \in Nat /\ shown[t].revived \in BOOLEAN
    BY <1>1
  <2>2. shown'[t].ends \in Nat
    BY <1>3, <2>1
  <2>3. shown'[t].revived \in BOOLEAN
    BY <1>3, <2>1
  <2> QED BY <1>3, <2>2, <2>3
<1>5. shown' \in [ProjectedTools -> [ends : Nat, revived : BOOLEAN]]
  BY <1>1, <1>2, <1>3, <1>4
<1>6. strange' \subseteq ProjectedTools /\ (blind \/ strange' = {})
  BY <1>1 DEF Projection!Report
<1> QED BY <1>1, <1>3, <1>5, <1>6

LEMMA NativeIs ==
    ASSUME ProjectionInv, UNCHANGED format,
           NEW t \in ProjectedTools, NEW status, Projection!Native(t, status), MessageOf[t] > Old
             \/ blind
    PROVE  ObservedWell
<1>1. CASE UNCHANGED <<Projection!transitionVars, Projection!spanVars>>
  <2>1. UNCHANGED <<seen, shown, strange>> /\ UNCHANGED Projection!spanVars
    BY <1>1 DEF Projection!transitionVars
  <2>2. ProjectionShown'
    BY <2>1 DEF ProjectionInv, ProjectionShown
  <2>3. shown' \in [ProjectedTools -> [ends : Nat, revived : BOOLEAN]]
          /\ strange' \subseteq ProjectedTools /\ (blind \/ strange' = {})
    BY <2>1 DEF ProjectionInv, ProjectionCall, Projection!ProjectionTypeOK, ProjectionHistory
  <2> QED BY <2>1, <2>2, <2>3, ObservedIs
<1>2. CASE <<"tool", t>> \notin seen
  <2> DEFINE ends == status \in Projection!Terminal
  <2>1. /\ seen' = IF ends THEN seen \cup {<<"tool", t>>} ELSE seen
        /\ Projection!Project(Projection!ToolSpan(MessageOf[t], t), ends) /\ Projection!Report(t, ends)
    BY <1>2 DEF Projection!Native
  <2>2. Projection!ToolSpan(MessageOf[t], t) \in Projection!SpanKeys
          /\ Projection!ToolSpan(MessageOf[t], t) # Projection!Agent
    <3>1. MessageOf[t] \in Projection!Messages
      BY ProjectionAssumption
    <3>2. Projection!ToolSpan(MessageOf[t], t)[1] = "tool" /\ Projection!Agent[1] = "agent"
      BY DEF Projection!ToolSpan, Projection!Agent
    <3> QED BY <3>1, <3>2 DEF Projection!SpanKeys
  <2>3. ends \in BOOLEAN
    OBVIOUS
  <2> HIDE DEF ends
  <2>4. /\ shown' \in [ProjectedTools -> [ends : Nat, revived : BOOLEAN]]
        /\ \A u \in ProjectedTools \ {t} : shown'[u] = shown[u]
        /\ shown'[t].ends = (IF ends THEN shown[t].ends + 1 ELSE shown[t].ends)
        /\ shown[t].ends = 0 /\ ~shown[t].revived => ~shown'[t].revived
        /\ strange' \subseteq ProjectedTools /\ (blind \/ strange' = {})
    BY <2>1, <2>3, ReportIs
  <2>5. ProjectionShown'
    <3> SUFFICES ASSUME NEW u \in ProjectedTools, format[u] = "native"
                 PROVE  shown'[u].ends = (IF <<"tool", u>> \in seen' THEN 1 ELSE 0)
                          /\ ~shown'[u].revived
      BY DEF ProjectionShown
    <3>1. shown[u].ends = (IF <<"tool", u>> \in seen THEN 1 ELSE 0) /\ ~shown[u].revived
      BY DEF ProjectionInv, ProjectionShown
    <3>2. CASE u = t
      BY <1>2, <2>1, <2>4, <3>1, <3>2
    <3>3. CASE u # t
      <4>1. <<"tool", u>> # <<"tool", t>>
        BY <3>3
      <4> QED BY <2>1, <2>4, <3>1, <3>3, <4>1
    <3> QED BY <3>2, <3>3
  <2>6. \E k \in Projection!SpanKeys : \E e \in BOOLEAN : k # Projection!Agent
          /\ Projection!Project(k, e)
    BY <2>1, <2>2, <2>3
  <2> QED BY <2>4, <2>5, <2>6, ObservedIs
<1> QED BY <1>1, <1>2 DEF Projection!Native

LEMMA LegacyIs ==
    ASSUME ProjectionInv, UNCHANGED format,
           NEW t \in ProjectedTools, NEW status, NEW withName, Projection!Legacy(t, status, withName),
           format[t] # "native", MessageOf[t] > Old
    PROVE  ObservedWell
<1>2. ASSUME seen' \in {seen, seen \cup {<<"legacy", t>>}},
               \A u \in ProjectedTools \ {t} : shown'[u] = shown[u]
      PROVE  ProjectionShown'
  <2>1. \A u \in ProjectedTools : <<"tool", u>> # <<"legacy", t>>
    OBVIOUS
  <2> QED BY <1>2, <2>1 DEF ProjectionInv, ProjectionShown
<1>3. CASE UNCHANGED <<shown, strange, Projection!spanVars>>
             /\ seen' \in {seen, seen \cup {<<"legacy", t>>}}
  <2>1. shown' \in [ProjectedTools -> [ends : Nat, revived : BOOLEAN]]
          /\ strange' \subseteq ProjectedTools /\ (blind \/ strange' = {})
    BY <1>3 DEF ProjectionInv, ProjectionCall, Projection!ProjectionTypeOK, ProjectionHistory
  <2>2. ProjectionShown'
    BY <1>2, <1>3
  <2> QED BY <1>3, <2>1, <2>2, ObservedIs
<1>4. ASSUME NEW m \in {MessageOf[t], Projection!Unlocated}, NEW ends \in BOOLEAN,
             Projection!Project(Projection!ToolSpan(m, t), ends), Projection!Report(t, ends),
               seen' \in {seen, seen \cup {<<"legacy", t>>}}
      PROVE  ObservedWell
  <2>1. Projection!ToolSpan(m, t) \in Projection!SpanKeys
          /\ Projection!ToolSpan(m, t) # Projection!Agent
    <3>1. m \in Projection!Messages \cup {Projection!Unlocated}
      BY ProjectionAssumption
    <3>2. Projection!ToolSpan(m, t)[1] = "tool" /\ Projection!Agent[1] = "agent"
      BY DEF Projection!ToolSpan, Projection!Agent
    <3> QED BY <3>1, <3>2 DEF Projection!SpanKeys
  <2>2. /\ shown' \in [ProjectedTools -> [ends : Nat, revived : BOOLEAN]]
        /\ \A u \in ProjectedTools \ {t} : shown'[u] = shown[u]
        /\ strange' \subseteq ProjectedTools /\ (blind \/ strange' = {})
    BY <1>4, ReportIs
  <2>3. ProjectionShown'
    BY <1>2, <1>4, <2>2
  <2>4. \E k \in Projection!SpanKeys : \E e \in BOOLEAN : k # Projection!Agent
          /\ Projection!Project(k, e)
    BY <1>4, <2>1
  <2> QED BY <2>2, <2>3, <2>4, ObservedIs
<1>5. \/ UNCHANGED <<shown, strange, Projection!spanVars>>
           /\ seen' \in {seen, seen \cup {<<"legacy", t>>}}
      \/ \E m \in {MessageOf[t], Projection!Unlocated} : \E ends \in BOOLEAN :
            /\ Projection!Project(Projection!ToolSpan(m, t), ends) /\ Projection!Report(t, ends)
                 /\ seen' \in {seen, seen \cup {<<"legacy", t>>}}
  <2>1. CASE UNCHANGED <<Projection!transitionVars, Projection!spanVars>>
    BY <2>1 DEF Projection!transitionVars
  <2>2. CASE <<"legacy", t>> \notin seen
    <3> DEFINE ends == status \in Projection!Terminal
               place == located \cup (IF format[t] = "legacy" THEN {t} ELSE {})
    <3>1. /\ seen' \in {seen, seen \cup {<<"legacy", t>>}}
          /\ \/ /\ Projection!Project(
                      Projection!ToolSpan(IF t \in place THEN MessageOf[t] ELSE Projection!Unlocated, t),
                      ends)
                /\ Projection!Report(t, ends)
             \/ Projection!Unreported /\ UNCHANGED Projection!spanVars
      BY <2>2 DEF Projection!Legacy
    <3>2. ends \in BOOLEAN
      OBVIOUS
    <3>3. (IF t \in place THEN MessageOf[t] ELSE Projection!Unlocated) \in {MessageOf[t],
            Projection!Unlocated}
      OBVIOUS
    <3> HIDE DEF ends, place
    <3> QED BY <3>1, <3>2, <3>3 DEF Projection!Unreported
  <2> QED BY <2>1, <2>2 DEF Projection!Legacy
<1> QED BY <1>3, <1>4, <1>5

LEMMA AssistantIs ==
    ASSUME ProjectionInv, UNCHANGED format,
           NEW m \in Projection!Messages, NEW ends \in BOOLEAN, Projection!Assistant(m, ends)
    PROVE  ObservedWell
<1>1. UNCHANGED <<shown, strange>> /\ seen' \in {seen, seen \cup {<<"assistant", m>>}}
  BY DEF Projection!Assistant, Projection!Unreported, Projection!transitionVars
<1>2. shown' \in [ProjectedTools -> [ends : Nat, revived : BOOLEAN]]
        /\ strange' \subseteq ProjectedTools /\ (blind \/ strange' = {})
  BY <1>1 DEF ProjectionInv, ProjectionCall, Projection!ProjectionTypeOK, ProjectionHistory
<1>3. ProjectionShown'
  <2>1. \A u \in ProjectedTools : <<"tool", u>> # <<"assistant", m>>
    OBVIOUS
  <2> QED BY <1>1, <2>1 DEF ProjectionInv, ProjectionShown
<1>4. Projection!Model(m) \in Projection!SpanKeys /\ Projection!Model(m) # Projection!Agent
  <2>1. Projection!Model(m)[1] = "model" /\ Projection!Agent[1] = "agent"
    BY DEF Projection!Model, Projection!Agent
  <2> QED BY <2>1 DEF Projection!SpanKeys
<1>5. UNCHANGED Projection!spanVars
        \/ \E k \in Projection!SpanKeys : \E e \in BOOLEAN : k # Projection!Agent
             /\ Projection!Project(k, e)
  BY <1>4 DEF Projection!Assistant
<1> QED BY <1>1, <1>2, <1>3, <1>5, ObservedIs

LEMMA DispatchIs ==
    ASSUME ProjectionInv, UNCHANGED format, NEW m \in Projection!Messages, Projection!Dispatch(m),
             m > Old \/ blind
    PROVE  ObservedWell
<1>2. CASE \E t \in ProjectedTools : MessageOf[t] = m /\ ran[t] # "none"
  <2> DEFINE t == CHOOSE t \in ProjectedTools : MessageOf[t] = m
  <2>1. t \in ProjectedTools /\ MessageOf[t] = m
    BY <1>2
  <2>2. Projection!Native(t, ran[t])
    BY <1>2 DEF Projection!Dispatch
  <2> HIDE DEF t
  <2> QED BY <2>1, <2>2, NativeIs
<1>3. CASE UNCHANGED <<Projection!transitionVars, Projection!spanVars>>
  <2>1. UNCHANGED <<seen, shown, strange, Projection!spanVars>>
    BY <1>3 DEF Projection!transitionVars
  <2>2. shown' \in [ProjectedTools -> [ends : Nat, revived : BOOLEAN]]
          /\ strange' \subseteq ProjectedTools /\ (blind \/ strange' = {})
    BY <2>1 DEF ProjectionInv, ProjectionCall, Projection!ProjectionTypeOK, ProjectionHistory
  <2>3. ProjectionShown'
    BY <2>1 DEF ProjectionInv, ProjectionShown
  <2> QED BY <2>1, <2>2, <2>3, ObservedIs
<1> QED BY <1>2, <1>3 DEF Projection!Dispatch

LEMMA WorkKeeps == ProjectionInv /\ Projection!Work => ProjectionInv'
<1> SUFFICES ASSUME ProjectionInv, Projection!Work PROVE ProjectionInv'
  OBVIOUS
<1>2. /\ UNCHANGED <<projecting, textual, format, prompts, seen, shown, strange, span, disabled,
           refusals, history, pages, unsent, blind>>
      /\ projecting = "prompting" /\ ran' \in [ProjectedTools -> Projection!Statuses \cup {"none"}]
           /\ listed' \in Old .. (Old + prompts) /\ listed' >= listed
  <2>1. CASE listed < Old + prompts /\ listed' = listed + 1 /\ UNCHANGED ran
    BY <2>1, ProjectionAssumption
       DEF Projection!Work, Projection!transitionVars, Projection!spanVars, Projection!historyVars,
           ProjectionInv, ProjectionCall, Projection!ProjectionTypeOK
  <2>2. ASSUME NEW t \in ProjectedTools, NEW s \in Projection!Statuses, ran' = [ran EXCEPT ![t] = s],
                 UNCHANGED listed
        PROVE  ran' \in [ProjectedTools -> Projection!Statuses \cup {"none"}]
                 /\ listed' \in Old .. (Old + prompts) /\ listed' >= listed
    BY <2>2, ProjectionAssumption DEF ProjectionInv, ProjectionCall, Projection!ProjectionTypeOK
  <2> QED BY <2>1, <2>2
             DEF Projection!Work, Projection!transitionVars, Projection!spanVars,
                 Projection!historyVars
<1>3. ProjectionCall'
  <2>1. listed' \in {0} \cup Projection!Messages
    BY <1>2, ProjectionAssumption
       DEF ProjectionInv, ProjectionCall, Projection!ProjectionTypeOK, Projection!Messages
  <2> QED BY <1>2, <2>1 DEF ProjectionInv, ProjectionCall, Projection!ProjectionTypeOK
<1>4. ProjectionShown'
  BY <1>2 DEF ProjectionInv, ProjectionShown
<1>5. ProjectionHistory'
  <2>1. \A m \in 1 .. Old : m > listed' - PageSize => m > listed - PageSize
    BY <1>2, ProjectionAssumption DEF ProjectionInv, ProjectionCall
  <2> QED BY <1>2, <2>1 DEF ProjectionInv, ProjectionHistory
<1>6. ProjectionSpans'
  BY <1>2 DEF ProjectionInv, ProjectionSpans, Projection!OpenSpans
<1> QED BY <1>3, <1>4, <1>5, <1>6 DEF ProjectionInv

LEMMA EventKeeps == ProjectionInv /\ Projection!Event => ProjectionInv'
<1> SUFFICES ASSUME ProjectionInv, Projection!Event PROVE ProjectionInv'
  OBVIOUS
<1>1. /\ projecting \notin {"idle", "settled"} /\ UNCHANGED format
      /\ UNCHANGED <<projecting, textual, format, prompts, listed, ran, history, pages, unsent, blind>>
  BY DEF Projection!Event, Projection!Monitored, Projection!historyVars
<1>2. Old + prompts \in Projection!Messages /\ Old + prompts > Old
  BY <1>1, ProjectionAssumption
     DEF ProjectionInv, ProjectionCall, Projection!ProjectionTypeOK, Projection!Messages
<1>3. ASSUME NEW t \in ProjectedTools, NEW s \in Projection!Statuses, MessageOf[t] = Old + prompts,
               Projection!Native(t, s) PROVE ObservedWell
  BY <1>1, <1>2, <1>3, NativeIs
<1>4. ASSUME NEW t \in ProjectedTools, NEW s \in Projection!Statuses, NEW withName \in BOOLEAN,
             MessageOf[t] = Old + prompts, format[t] # "native", Projection!Legacy(t, s, withName)
      PROVE  ObservedWell
  BY <1>1, <1>2, <1>4, LegacyIs
<1>5. ASSUME NEW ends \in BOOLEAN, listed = Old + prompts,
               Projection!Assistant(listed, ends) PROVE ObservedWell
  BY <1>1, <1>2, <1>5, AssistantIs
<1>6. ObservedWell
  BY <1>3, <1>4, <1>5 DEF Projection!Event
<1> QED BY <1>1, <1>6, ObservedKeeps

LEMMA RespondKeeps == ProjectionInv /\ Projection!Respond => ProjectionInv'
<1> SUFFICES ASSUME ProjectionInv, Projection!Respond PROVE ProjectionInv'
  OBVIOUS
<1>1. /\ projecting = "prompting" /\ listed = Old + prompts /\ Projection!Dispatch(listed)
      /\ projecting' = (IF textual THEN "history" ELSE "answered") /\ pages' = 0
      /\ UNCHANGED <<textual, format, prompts, listed, ran, history, unsent, blind>>
  BY DEF Projection!Respond
<1>2. listed \in Projection!Messages /\ listed > Old
  BY <1>1, ProjectionAssumption
     DEF ProjectionInv, ProjectionCall, Projection!ProjectionTypeOK, Projection!Messages
<1>3. ObservedWell
  BY <1>1, <1>2, DispatchIs
<1> QED BY <1>1, <1>3, ObservedKeeps

(* The messages of a page are sent in their order. *)
LEMMA FirstUnsent ==
    ASSUME NEW S, S \subseteq Nat, S # {}
    PROVE  \E m \in S : \A n \in S : m <= n
<1>1. IsWellFoundedOn(OpToRel(<, Nat), Nat)
  BY NatLessThanWellFounded
<1>2. PICK m \in S : \A n \in S : ~(<<n, m>> \in OpToRel(<, Nat))
  BY <1>1, WFMin
<1>3. \A n \in S : <<n, m>> \in OpToRel(<, Nat) <=> n < m
  BY DEF OpToRel
<1>4. \A n \in S : ~(n < m)
  BY <1>2, <1>3, Zenon
<1> QED BY <1>4

LEMMA SendPartKeeps == ProjectionInv /\ Projection!SendPart => ProjectionInv'
<1> SUFFICES ASSUME ProjectionInv, Projection!SendPart PROVE ProjectionInv'
  OBVIOUS
<1> DEFINE m == CHOOSE m \in unsent : \A n \in unsent : m <= n
<1>1. /\ unsent # {} /\ Projection!Dispatch(m) /\ unsent' = unsent \ {m}
      /\ UNCHANGED <<projecting, textual, format, prompts, listed, ran, history, pages, blind>>
  BY DEF Projection!SendPart
<1>2. unsent \subseteq Nat /\ unsent \subseteq Projection!Messages
        /\ projecting \notin {"idle", "settled"}
  BY <1>1, ProjectionAssumption DEF ProjectionInv, ProjectionCall, Projection!Messages
<1>3. m \in unsent
  BY <1>1, <1>2, FirstUnsent
<1>4. m > Old \/ blind
  BY <1>3 DEF ProjectionInv, ProjectionHistory
<1>5. m \in Projection!Messages
  BY <1>2, <1>3
<1> HIDE DEF m
<1>6. ObservedWell
  BY <1>1, <1>4, <1>5, DispatchIs
<1> QED BY <1>1, <1>2, <1>6, ObservedKeeps

(* A prompt begins with a dispatcher that has seen and reported nothing. *)
LEMMA BeginsPrompt ==
    ASSUME ProjectionCall, Projection!BeginPrompt,
             UNCHANGED <<textual, format, strange, history, unsent, blind, listed>>,
           prompts < MaxPrompts, ProjectionHistory
    PROVE  /\ prompts' = prompts + 1 /\ prompts' \in 0 .. MaxPrompts /\ prompts' >= 1 /\ pages' = 0
           /\ projecting' \in {"snapshot", "prompting"}
           /\ shown' \in [ProjectedTools -> [ends : Nat, revived : BOOLEAN]]
           /\ ProjectionShown' /\ ProjectionHistory' /\ listed' \in Old .. (Old + prompts')
<1>1. /\ prompts \in Nat /\ prompts' = prompts + 1 /\ prompts' \in 0 .. MaxPrompts /\ prompts' >= 1
           /\ pages' = 0
      /\ listed' \in Old .. (Old + prompts')
  BY ProjectionAssumption DEF Projection!BeginPrompt, ProjectionCall, Projection!ProjectionTypeOK
<1>2. seen' = {} /\ shown' = [t \in ProjectedTools |-> [ends |-> 0, revived |-> FALSE]]
      /\ projecting' \in {"snapshot", "prompting"}
           /\ (projecting' = "prompting" => ~textual \/ history.ready)
  BY DEF Projection!BeginPrompt
<1>3. shown' \in [ProjectedTools -> [ends : Nat, revived : BOOLEAN]] /\ ProjectionShown'
  BY <1>2 DEF ProjectionShown
<1>4. ProjectionHistory'
  BY <1>2 DEF ProjectionHistory
<1> QED BY <1>1, <1>2, <1>3, <1>4

LEMMA ExecuteCallKeeps == ProjectionInv /\ Projection!ExecuteCall => ProjectionInv'
<1> SUFFICES ASSUME ProjectionInv, Projection!ExecuteCall PROVE ProjectionInv'
  OBVIOUS
<1>1. /\ projecting = "idle" /\ Projection!BeginPrompt
      /\ UNCHANGED <<textual, format, listed, ran, refusals, fallback, strange, history, unsent, blind>>
  BY DEF Projection!ExecuteCall
<1>2. \A k \in Projection!SpanKeys : span[k] = "none"
  BY <1>1 DEF ProjectionInv, ProjectionSpans
<1>3. prompts < MaxPrompts
  BY <1>1, ProjectionAssumption DEF ProjectionInv, ProjectionCall, Projection!ProjectionTypeOK
<1>4. /\ prompts' = prompts + 1 /\ prompts' \in 0 .. MaxPrompts /\ prompts' >= 1 /\ pages' = 0
      /\ projecting' \in {"snapshot", "prompting"}
      /\ shown' \in [ProjectedTools -> [ends : Nat, revived : BOOLEAN]]
      /\ ProjectionShown' /\ ProjectionHistory' /\ listed' \in Old .. (Old + prompts')
  BY <1>1, <1>3, BeginsPrompt DEF ProjectionInv
<1>5. PICK traced \in BOOLEAN : disabled' = ~traced
             /\ span' = [span EXCEPT ![Projection!Agent] = IF traced THEN "open" ELSE "none"]
  BY DEF Projection!ExecuteCall
<1>6. /\ span' \in [Projection!SpanKeys -> {"none", "open", "ended", "stuck"}] /\ disabled' \in BOOLEAN
      /\ disabled' => Projection!OpenSpans' = {}
      /\ ~disabled' => span'[Projection!Agent] = "open"
  <2>1. Projection!Agent \in Projection!SpanKeys
    BY DEF Projection!SpanKeys
  <2> QED BY <1>2, <1>5, <2>1
             DEF ProjectionInv, ProjectionCall, Projection!ProjectionTypeOK, Projection!OpenSpans
<1>7. Projection!ProjectionTypeOK'
  BY <1>1, <1>4, <1>6, ProjectionAssumption
     DEF ProjectionInv, ProjectionCall, Projection!ProjectionTypeOK
<1>8. ProjectionCall'
  BY <1>1, <1>4, <1>6, <1>7, ProjectionAssumption DEF ProjectionInv, ProjectionCall
<1>9. ProjectionSpans'
  BY <1>4, <1>6 DEF ProjectionSpans
<1> QED BY <1>4, <1>8, <1>9 DEF ProjectionInv

LEMMA RepairKeeps == ProjectionInv /\ Projection!Repair => ProjectionInv'
<1> SUFFICES ASSUME ProjectionInv, Projection!Repair PROVE ProjectionInv'
  OBVIOUS
<1>1. /\ projecting = "answered" /\ prompts < MaxPrompts /\ Projection!ObserveTerminal
           /\ Projection!BeginPrompt
      /\ UNCHANGED <<textual, format, listed, ran, strange, history, unsent, blind>>
  BY DEF Projection!Repair
<1>2. /\ prompts' = prompts + 1 /\ prompts' \in 0 .. MaxPrompts /\ prompts' >= 1 /\ pages' = 0
      /\ projecting' \in {"snapshot", "prompting"}
      /\ shown' \in [ProjectedTools -> [ends : Nat, revived : BOOLEAN]]
      /\ ProjectionShown' /\ ProjectionHistory' /\ listed' \in Old .. (Old + prompts')
  BY <1>1, BeginsPrompt DEF ProjectionInv
<1>3. listed \in Projection!Messages
  BY <1>1, ProjectionAssumption
     DEF ProjectionInv, ProjectionCall, Projection!ProjectionTypeOK, Projection!Messages
<1>4. Projection!Model(listed) \in Projection!SpanKeys /\ Projection!Model(listed) # Projection!Agent
  <2>1. Projection!Model(listed)[1] = "model" /\ Projection!Agent[1] = "agent"
    BY DEF Projection!Model, Projection!Agent
  <2> QED BY <1>3, <2>1 DEF Projection!SpanKeys
<1>5. UNCHANGED Projection!spanVars
        \/ \E k \in Projection!SpanKeys : \E e \in BOOLEAN : k # Projection!Agent
             /\ Projection!Project(k, e)
  BY <1>1, <1>4 DEF Projection!ObserveTerminal
<1>6. ObservedWell
  <2>1. strange' \subseteq ProjectedTools /\ (blind \/ strange' = {})
    BY <1>1 DEF ProjectionInv, ProjectionCall, Projection!ProjectionTypeOK, ProjectionHistory
  <2> QED BY <1>2, <1>5, <2>1, ObservedIs
<1>7. Projection!ProjectionTypeOK'
  BY <1>1, <1>2, <1>6, ProjectionAssumption
     DEF ObservedWell, ProjectionInv, ProjectionCall, Projection!ProjectionTypeOK
<1>8. ProjectionCall'
  BY <1>1, <1>2, <1>6, <1>7, ProjectionAssumption DEF ObservedWell, ProjectionInv, ProjectionCall
<1>9. ProjectionSpans'
  BY <1>1, <1>2, <1>6 DEF ObservedWell, ProjectionInv, ProjectionSpans
<1> QED BY <1>2, <1>8, <1>9 DEF ProjectionInv

LEMMA ReadPageKeeps == ProjectionInv /\ Projection!ReadPage => ProjectionInv'
<1> SUFFICES ASSUME ProjectionInv, Projection!ReadPage PROVE ProjectionInv'
  OBVIOUS
<1> DEFINE baseline == ~history.ready
           until == IF baseline /\ history.cursor # 0 THEN history.cursor - 1 ELSE listed
           first == until - PageSize + 1
           page == first .. until \cap 1 .. listed
<1>1. PICK paged \in BOOLEAN :
        LET more == baseline /\ paged /\ first > 1
            last == ~more \/ pages + 1 = MaxPages
        IN  /\ projecting \in {"snapshot", "history"} /\ unsent = {} /\ pages' = pages + 1
            /\ unsent' = (IF projecting = "snapshot" THEN {}
                          ELSE {m \in page : baseline \/ m \notin history.known})
            /\ history' = [ready |-> last, cursor |-> IF last THEN 0 ELSE first,
                           known |-> history.known \cup page]
            /\ projecting' = (IF ~last THEN projecting
                              ELSE IF projecting = "snapshot" THEN "prompting" ELSE "sending")
            /\ UNCHANGED <<textual, format, prompts, listed, ran, seen, named, located, shown,
                           strange, span, disabled, refusals, blind>>
  BY DEF Projection!ReadPage, Projection!transitionVars, Projection!spanVars
<1> DEFINE more == baseline /\ paged /\ first > 1
           last == ~more \/ pages + 1 = MaxPages
<1>2. /\ history \in [ready : BOOLEAN, cursor : Nat, known : SUBSET Projection!Messages]
      /\ history.ready \in BOOLEAN /\ history.cursor \in Nat
           /\ history.known \subseteq Projection!Messages
      /\ listed \in Nat /\ listed >= Old /\ Old \in Nat /\ PageSize \in Nat \ {0} /\ pages < MaxPages
           /\ pages \in Nat
      /\ MaxPages \in Nat /\ prompts >= 1 /\ blind \in BOOLEAN /\ listed <= Old + MaxPrompts
  BY <1>1, ProjectionAssumption DEF ProjectionInv, ProjectionCall, Projection!ProjectionTypeOK
<1>3. /\ until \in Int /\ first \in Int /\ baseline \in BOOLEAN /\ more \in BOOLEAN /\ last \in BOOLEAN
      /\ ~last => first \in Nat
  BY <1>2
<1>4. page \subseteq Projection!Messages /\ page \subseteq 1 .. listed
      /\ \A m \in 1 .. listed : first <= m /\ m <= until => m \in page
  BY <1>2, <1>3, ProjectionAssumption DEF Projection!Messages
<1>5. /\ history.ready = ~baseline /\ first = until - PageSize + 1
      /\ ~(baseline /\ history.cursor # 0) => until = listed
  BY <1>2
<1>6. (more <=> baseline /\ paged /\ first > 1) /\ (last <=> ~more \/ pages + 1 = MaxPages)
  OBVIOUS
<1>7. /\ projecting \in {"snapshot", "history"} /\ unsent = {} /\ pages' = pages + 1
      /\ unsent' = (IF projecting = "snapshot" THEN {}
                    ELSE {m \in page : baseline \/ m \notin history.known})
      /\ history' = [ready |-> last, cursor |-> IF last THEN 0 ELSE first,
                     known |-> history.known \cup page]
      /\ projecting' = (IF ~last THEN projecting
                        ELSE IF projecting = "snapshot" THEN "prompting" ELSE "sending")
      /\ UNCHANGED <<textual, format, prompts, listed, ran, seen, named, located, shown,
                     strange, span, disabled, refusals, blind>>
  BY <1>1
<1> HIDE DEF baseline, until, first, page, more, last
<1>8. /\ history' \in [ready : BOOLEAN, cursor : Nat, known : SUBSET Projection!Messages]
      /\ unsent' \subseteq Projection!Messages
      /\ history'.ready = last /\ history'.known = history.known \cup page
  <2>1. (IF last THEN 0 ELSE first) \in Nat
    BY <1>3
  <2>2. history.known \cup page \subseteq Projection!Messages
    BY <1>2, <1>4
  <2> QED BY <1>3, <1>4, <1>7, <2>1, <2>2
<1>9. pages' \in 0 .. MaxPages /\ (~last => pages' < MaxPages)
      /\ projecting' \in {"snapshot", "history", "prompting", "sending"}
           /\ (projecting' \in {"snapshot", "history"} => ~last /\ projecting' = projecting)
      /\ (projecting' = "sending" => projecting = "history")
           /\ (projecting' = "history" => projecting = "history")
  BY <1>2, <1>3, <1>6, <1>7
<1>10. Projection!ProjectionTypeOK'
  BY <1>7, <1>8, <1>9 DEF ProjectionInv, ProjectionCall, Projection!ProjectionTypeOK
<1>11. ProjectionCall'
  BY <1>7, <1>8, <1>9, <1>10 DEF ProjectionInv, ProjectionCall
<1>12. ProjectionShown'
  BY <1>7 DEF ProjectionInv, ProjectionShown
<1>13. ProjectionSpans'
  BY <1>7, <1>9 DEF ProjectionInv, ProjectionSpans, Projection!OpenSpans
<1>14. ProjectionHistory'
  <2> SUFFICES ASSUME ~blind'
               PROVE  /\ \A m \in 1 .. Old : m > listed - PageSize => m \in history'.known
                      /\ textual /\ projecting' \in {"prompting", "history"} => history'.ready
                      /\ \A m \in unsent' : m > Old
                      /\ strange' = {}
    BY <1>7 DEF ProjectionHistory
  <2>1. /\ history.ready \/ history.cursor # 0 =>
             \A m \in 1 .. Old : m > listed - PageSize => m \in history.known
        /\ textual /\ projecting \in {"prompting", "history"} => history.ready
        /\ strange = {}
    BY <1>7 DEF ProjectionInv, ProjectionHistory
  <2>2. \A m \in 1 .. Old : m > listed - PageSize => m \in history'.known
    <3> SUFFICES ASSUME NEW m \in 1 .. Old, m > listed - PageSize PROVE m \in history'.known
      OBVIOUS
    <3>1. CASE history.ready \/ history.cursor # 0
      BY <1>8, <2>1, <3>1
    <3>2. CASE ~history.ready /\ history.cursor = 0
      <4>1. first <= m /\ m <= until /\ m \in 1 .. listed
        BY <1>2, <1>3, <1>5, <3>2
      <4> QED BY <1>4, <1>8, <4>1
    <3> QED BY <3>1, <3>2
  <2>3. textual /\ projecting' \in {"prompting", "history"} => history'.ready
    BY <1>5, <1>6, <1>7, <1>8, <1>9, <2>1 DEF ProjectionInv, ProjectionCall
  <2>4. \A m \in unsent' : m > Old
    <3> SUFFICES ASSUME NEW m \in unsent', ~(m > Old) PROVE FALSE
      OBVIOUS
    <3>1. projecting = "history" /\ m \in page /\ (baseline \/ m \notin history.known)
      BY <1>7
    <3>2. textual /\ history.ready
      BY <2>1, <3>1 DEF ProjectionInv, ProjectionCall
    <3>3. ~baseline /\ until = listed
      BY <1>3, <1>5, <3>2
    <3>4. m \in 1 .. Old /\ m >= first
      BY <1>2, <1>3, <1>4, <3>1, <1>5, <3>3 DEF page
    <3>5. m > listed - PageSize
      BY <1>2, <1>3, <1>5, <3>3, <3>4
    <3> QED BY <2>1, <3>1, <3>2, <3>3, <3>4, <3>5
  <2> QED BY <1>7, <2>1, <2>2, <2>3, <2>4
<1> QED BY <1>11, <1>12, <1>13, <1>14 DEF ProjectionInv

LEMMA ReadFailsKeeps == ProjectionInv /\ Projection!ReadFails => ProjectionInv'
<1> SUFFICES ASSUME ProjectionInv, Projection!ReadFails PROVE ProjectionInv'
  OBVIOUS
<1>1. /\ projecting \in {"snapshot", "history"} /\ blind' = TRUE
      /\ projecting' = (IF projecting = "snapshot" THEN "prompting" ELSE "sending")
      /\ UNCHANGED <<textual, format, prompts, listed, ran, seen, shown, strange, span, disabled,
           refusals>>
      /\ UNCHANGED <<history, pages, unsent>>
  BY DEF Projection!ReadFails, Projection!transitionVars, Projection!spanVars
<1>2. ProjectionCall'
  BY <1>1 DEF ProjectionInv, ProjectionCall, Projection!ProjectionTypeOK
<1>3. ProjectionShown' /\ ProjectionHistory'
  BY <1>1 DEF ProjectionInv, ProjectionShown, ProjectionHistory
<1>4. ProjectionSpans'
  BY <1>1 DEF ProjectionInv, ProjectionSpans, Projection!OpenSpans
<1> QED BY <1>2, <1>3, <1>4 DEF ProjectionInv

LEMMA ReconciledKeeps == ProjectionInv /\ Projection!Reconciled => ProjectionInv'
<1> SUFFICES ASSUME ProjectionInv, Projection!Reconciled PROVE ProjectionInv'
  OBVIOUS
<1>1. /\ projecting = "sending" /\ projecting' = "answered"
           /\ history' = [history EXCEPT !.known = @ \cup {listed}]
      /\ UNCHANGED <<textual, format, prompts, listed, ran, seen, shown, strange, span, disabled,
           refusals>>
      /\ UNCHANGED <<pages, unsent, blind>>
  BY DEF Projection!Reconciled, Projection!transitionVars, Projection!spanVars
<1>2. listed \in Projection!Messages
  BY <1>1, ProjectionAssumption
     DEF ProjectionInv, ProjectionCall, Projection!ProjectionTypeOK, Projection!Messages
<1>3. /\ history' \in [ready : BOOLEAN, cursor : Nat, known : SUBSET Projection!Messages]
      /\ history'.ready = history.ready /\ history'.cursor = history.cursor
           /\ history.known \subseteq history'.known
      /\ history'.known \subseteq Projection!Messages
  BY <1>1, <1>2 DEF ProjectionInv, ProjectionCall
<1>4. ProjectionCall'
  BY <1>1, <1>3 DEF ProjectionInv, ProjectionCall, Projection!ProjectionTypeOK
<1>5. ProjectionShown'
  BY <1>1 DEF ProjectionInv, ProjectionShown
<1>6. ProjectionHistory'
  BY <1>1, <1>3 DEF ProjectionInv, ProjectionHistory
<1>7. ProjectionSpans'
  BY <1>1 DEF ProjectionInv, ProjectionSpans, Projection!OpenSpans
<1> QED BY <1>4, <1>5, <1>6, <1>7 DEF ProjectionInv

LEMMA SettleCallKeeps == ProjectionInv /\ Projection!SettleCall => ProjectionInv'
<1> SUFFICES ASSUME ProjectionInv, Projection!SettleCall PROVE ProjectionInv'
  OBVIOUS
<1>1. /\ projecting \notin {"idle", "settled"} /\ projecting' = "settled" /\ Projection!Finish
           /\ unsent' = {}
      /\ UNCHANGED <<textual, format, prompts, listed, ran, seen, shown, strange, history, pages,
           blind>>
  BY DEF Projection!SettleCall, Projection!transitionVars
<1>2. /\ span \in [Projection!SpanKeys -> {"none", "open", "ended", "stuck"}]
           /\ refusals \in 0 .. MaxRefusals
      /\ disabled \in BOOLEAN /\ (disabled => Projection!OpenSpans = {}) /\ MaxRefusals \in Nat
  BY ProjectionAssumption
     DEF ProjectionInv, ProjectionCall, Projection!ProjectionTypeOK, ProjectionSpans
<1>3. /\ span' \in [Projection!SpanKeys -> {"none", "open", "ended", "stuck"}]
           /\ refusals' \in 0 .. MaxRefusals
      /\ disabled' \in BOOLEAN /\ Projection!OpenSpans' = {}
  <2>1. CASE disabled /\ UNCHANGED Projection!spanVars
    BY <1>2, <2>1 DEF Projection!spanVars, Projection!OpenSpans
  <2>2. CASE UNCHANGED <<disabled, refusals>>
               /\ span' = [k \in Projection!SpanKeys |-> IF span[k] = "open" THEN "ended" ELSE span[k]]
    BY <1>2, <2>2 DEF Projection!OpenSpans
  <2>3. CASE Projection!Refused
    BY <1>2, <2>3 DEF Projection!Refused, Projection!Disable, Projection!OpenSpans
  <2> QED BY <1>1, <2>1, <2>2, <2>3 DEF Projection!Finish
<1>4. ProjectionCall'
  BY <1>1, <1>3 DEF ProjectionInv, ProjectionCall, Projection!ProjectionTypeOK
<1>5. ProjectionShown' /\ ProjectionHistory' /\ ProjectionSpans'
  BY <1>1, <1>3 DEF ProjectionInv, ProjectionShown, ProjectionHistory, ProjectionSpans
<1> QED BY <1>4, <1>5 DEF ProjectionInv

LEMMA ProjectionStarts == Projection!ProjectionInit => ProjectionInv
<1> SUFFICES ASSUME Projection!ProjectionInit PROVE ProjectionInv
  OBVIOUS
<1>1. Projection!ProjectionTypeOK
  BY ProjectionAssumption
     DEF Projection!ProjectionInit, Projection!ProjectionTypeOK, Projection!Messages,
         Projection!Statuses, Projection!Terminal
<1>2. ProjectionCall
  <2>1. history \in [ready : BOOLEAN, cursor : Nat, known : SUBSET Projection!Messages]
    BY DEF Projection!ProjectionInit
  <2>2. shown \in [ProjectedTools -> [ends : Nat, revived : BOOLEAN]]
    BY DEF Projection!ProjectionInit
  <2>3. listed \in Old .. (Old + prompts)
    BY ProjectionAssumption DEF Projection!ProjectionInit
  <2> QED BY <1>1, <2>1, <2>2, <2>3 DEF Projection!ProjectionInit, ProjectionCall
<1>3. ProjectionShown
  BY DEF Projection!ProjectionInit, ProjectionShown
<1>4. ProjectionSpans
  BY DEF Projection!ProjectionInit, ProjectionSpans, Projection!OpenSpans
<1>5. ProjectionHistory
  BY ProjectionAssumption DEF Projection!ProjectionInit, ProjectionHistory
<1> QED BY <1>2, <1>3, <1>4, <1>5 DEF ProjectionInv

LEMMA ProjectionStutters == ProjectionInv /\ UNCHANGED Projection!projectionVars => ProjectionInv'
<1> SUFFICES ASSUME ProjectionInv, UNCHANGED Projection!projectionVars PROVE ProjectionInv'
  OBVIOUS
<1>1. /\ UNCHANGED <<projecting, textual, format, prompts, listed, ran, seen, shown, strange, span,
           disabled, refusals>>
      /\ UNCHANGED <<history, pages, unsent, blind>>
  BY DEF Projection!projectionVars, Projection!transitionVars, Projection!spanVars,
         Projection!historyVars
<1>2. ProjectionCall'
  BY <1>1 DEF ProjectionInv, ProjectionCall, Projection!ProjectionTypeOK
<1>3. ProjectionShown' /\ ProjectionHistory'
  BY <1>1 DEF ProjectionInv, ProjectionShown, ProjectionHistory
<1>4. ProjectionSpans'
  BY <1>1 DEF ProjectionInv, ProjectionSpans, Projection!OpenSpans
<1> QED BY <1>2, <1>3, <1>4 DEF ProjectionInv

LEMMA ProjectionKeeps == ProjectionInv /\ [Projection!ProjectionNext]_Projection!projectionVars
  => ProjectionInv'
BY WorkKeeps, EventKeeps, ExecuteCallKeeps, RespondKeeps, ReadPageKeeps, ReadFailsKeeps,
   SendPartKeeps, ReconciledKeeps, RepairKeeps, SettleCallKeeps, ProjectionStutters
   DEF Projection!ProjectionNext, Projection!CallProgress

LEMMA ProjectionStaysSafe == ProjectionInv => Projection!ProjectionSafe
<1> SUFFICES ASSUME ProjectionInv PROVE Projection!ProjectionSafe
  OBVIOUS
<1>1. Projection!ProjectionTypeOK
  BY DEF ProjectionInv, ProjectionCall
<1>2. Projection!ActivitiesEndOnce
  <2>1. ASSUME NEW t \in ProjectedTools, format[t] = "native" PROVE shown[t].ends <= 1
                 /\ ~shown[t].revived
    <3>1. shown[t].ends = (IF <<"tool", t>> \in seen THEN 1 ELSE 0) /\ ~shown[t].revived
      BY <2>1 DEF ProjectionInv, ProjectionShown
    <3> QED BY <3>1
  <2> QED BY <2>1 DEF Projection!ActivitiesEndOnce
<1>3. Projection!SpansNested
  BY DEF ProjectionInv, ProjectionSpans, Projection!SpansNested, Projection!OpenSpans
<1>4. Projection!OwnTools
  BY DEF ProjectionInv, ProjectionHistory, Projection!OwnTools
<1> QED BY <1>1, <1>2, <1>3, <1>4 DEF Projection!ProjectionSafe

-----------------------------------------------------------------------------
(* The machines side by side. *)

(* Whatever machine runs, each takes a step of its own or none. *)
LEMMA ServiceMoves == JobsNext \/ UNCHANGED jobVars => Service!ServiceNext \/ UNCHANGED serviceVars
BY DEF JobsNext, jobVars, JobsDone, OthersStay, RepeatStep, ServiceStep, MergeStep, ReviewStep, RunStep,
       AcpStep, ProjectionStep, DetailsStep

LEMMA MergeMoves == JobsNext \/ UNCHANGED jobVars => Merge!MergeNext \/ UNCHANGED mergeVars
BY DEF JobsNext, jobVars, JobsDone, OthersStay, RepeatStep, ServiceStep, MergeStep, ReviewStep, RunStep,
       AcpStep, ProjectionStep, DetailsStep

LEMMA ReviewMoves == JobsNext \/ UNCHANGED jobVars => Review!ReviewNext \/ UNCHANGED reviewVars
BY DEF JobsNext, jobVars, JobsDone, OthersStay, RepeatStep, ServiceStep, MergeStep, ReviewStep, RunStep,
       AcpStep, ProjectionStep, DetailsStep

LEMMA AcpMoves == JobsNext \/ UNCHANGED jobVars => Acp!AcpNext \/ UNCHANGED acpVars
BY DEF JobsNext, jobVars, JobsDone, OthersStay, RepeatStep, ServiceStep, MergeStep, ReviewStep, RunStep,
       AcpStep, ProjectionStep, DetailsStep

LEMMA ProjectionMoves ==
    JobsNext \/ UNCHANGED jobVars => Projection!ProjectionNext \/ UNCHANGED projectionVars
BY DEF JobsNext, jobVars, JobsDone, OthersStay, RepeatStep, ServiceStep, MergeStep, ReviewStep, RunStep,
       AcpStep, ProjectionStep, DetailsStep

(* The inductive invariant of the service of a job: ServiceAction.          *)
THEOREM ServiceInvariant == JobsSpec => []ServiceInv
<1>1. JobsInit => ServiceInv
  BY ServiceInitInv DEF JobsInit
<1>2. ServiceInv /\ [JobsNext]_jobVars => ServiceInv'
  BY ServiceMoves, ServiceInvNext, ServiceInvStutter DEF serviceVars, Service!serviceVars
<1> QED BY <1>1, <1>2, PTL DEF JobsSpec

(* No signal reaches a group that has got the id of the service's group     *)
(* since, ripwire keeps the directory under a group that runs from it, and  *)
(* what is installed is what was asked for, however many kills there are.   *)
THEOREM ServiceContained ==
    JobsSpec => [](Service!StrangersSpared /\ Service!FolderKept /\ Service!ToolSound)
BY ServiceInvariant, ServiceInvSafe, PTL

(* With at most one kill from outside, a service that is left behind is     *)
(* about to kill itself, or somebody was told.                              *)
THEOREM ServiceAccounted == MaxFaults \in {0, 1} => (JobsSpec => []ServiceSafe)
<1> SUFFICES ASSUME MaxFaults \in {0, 1} PROVE JobsSpec => []ServiceSafe
  OBVIOUS
<1>1. JobsInit => ServiceTold
  BY ServiceInitInv DEF JobsInit
<1>2. ServiceInv /\ ServiceTold /\ [JobsNext]_jobVars => ServiceTold'
  BY ServiceMoves, ServiceToldNext, ServiceToldStutter DEF serviceVars, Service!serviceVars
<1>3. ServiceInv /\ ServiceTold => ServiceSafe
  BY ServiceToldSafe DEF ServiceSafe
<1> QED BY <1>1, <1>2, <1>3, ServiceInvariant, PTL DEF JobsSpec

(* The inductive invariants of the two other actions.                       *)
THEOREM ActionsInvariant == JobsSpec => [](MergeInv /\ ReviewInv)
<1>1. JobsInit => MergeInv /\ ReviewInv
  BY MergeInitInv, ReviewInitInv DEF JobsInit
<1>2. MergeInv /\ [JobsNext]_jobVars => MergeInv'
  BY MergeMoves, MergeInvNext DEF mergeVars, Merge!mergeVars
<1>3. ReviewInv /\ [JobsNext]_jobVars => ReviewInv'
  BY ReviewMoves, ReviewInvNext DEF reviewVars, Review!reviewVars
<1> QED BY <1>1, <1>2, <1>3, PTL DEF JobsSpec

(* A push of the merge action overwrites nobody and publishes no conflict   *)
(* marker, with the agent out of the way; no review stays in progress, and  *)
(* no report is lost or replaced by that of an older run.                   *)
THEOREM ActionsStaySafe == JobsSpec => []ActionsSafe
<1>1. MergeInv /\ ReviewInv => ActionsSafe
  BY MergeInvSafe, ReviewInvSafe DEF ActionsSafe
<1> QED BY <1>1, ActionsInvariant, PTL

(* The inductive invariant of the calls of an ACP adapter.                  *)
THEOREM AcpInvariant == JobsSpec => []AcpInv
<1>1. JobsInit => AcpInv
  BY AcpStarts DEF JobsInit
<1>2. AcpInv /\ [JobsNext]_jobVars => AcpInv'
  BY AcpMoves, AcpKeeps DEF acpVars, Acp!acpVars
<1> QED BY <1>1, <1>2, PTL DEF JobsSpec

(* A call of an ACP adapter ends on a decision only when an agent has asked *)
(* for it in this call, and each of its tools and spans is closed once, by  *)
(* the time it has answered: what AgentsSafe says of this machine.          *)
THEOREM AcpStaysSound == JobsSpec => [](Acp!AcpTypeOK /\ Acp!OwnDecision /\ Acp!ToolsEndOnce)
BY AcpInvariant, AcpStaysSafe, PTL

(* The dispatcher and the spans of a call of the OpenCode adapter: the end  *)
(* of a tool is reported once in a prompt, and nothing of it after the end, *)
(* no span is left open, and no tool of an earlier call is told of, however *)
(* often, late and out of order the server sends its events and however     *)
(* many messages there are: what AgentsSafe says of this machine.           *)
THEOREM ProjectionStaysSound == JobsSpec => []Projection!ProjectionSafe
<1>1. JobsInit => ProjectionInv
  BY ProjectionStarts DEF JobsInit
<1>2. ProjectionInv /\ [JobsNext]_jobVars => ProjectionInv'
  BY ProjectionMoves, ProjectionKeeps
     DEF projectionVars, Projection!projectionVars, Projection!transitionVars, Projection!spanVars,
         Projection!historyVars
<1>3. ProjectionInv => Projection!ProjectionSafe
  BY ProjectionStaysSafe
<1> QED BY <1>1, <1>2, <1>3, PTL DEF JobsSpec

(* The resolution goes through the states of resolution-state.ts: every     *)
(* step of MergeResolution is one of ResolutionState or leaves it alone.    *)
THEOREM ResolutionImplements == JobsSpec => Merge!ResolutionFollows
<1>1. JobsInit => Merge!Machine!StateInit
  BY PhaseInit DEF JobsInit
<1>2. MergeInv /\ [JobsNext]_jobVars => [Merge!Machine!StateNext]_Merge!Machine!stateVars
  BY MergeMoves, MergeNextFollows DEF mergeVars, Merge!mergeVars
<1> QED BY <1>1, <1>2, ActionsInvariant, PTL DEF JobsSpec, Merge!ResolutionFollows, Merge!Machine!StateSpec

(* The calls of an ACP adapter keep the contract of AgentSession: a prompt  *)
(* is sent beside no work that nobody knows of, and a call answers when the *)
(* agent that works for it has ended its prompt or was disconnected.        *)
THEOREM AcpImplements == JobsSpec => Acp!AcpAccounted
<1>1. JobsInit => Acp!Contract!Init
  BY AcpMeets DEF JobsInit
<1>2. AcpInv /\ [JobsNext]_jobVars => [Acp!Contract!Next]_Acp!Contract!vars
  BY AcpMoves, AcpMeets DEF acpVars, Acp!acpVars
<1> QED BY <1>1, <1>2, AcpInvariant, PTL DEF JobsSpec, Acp!AcpAccounted, Acp!Contract!Spec

(* Both refinements of the machines at once.                                *)
THEOREM PromisesAreKept == JobsSpec => PromisesKept
BY ResolutionImplements, AcpImplements DEF PromisesKept
=============================================================================
