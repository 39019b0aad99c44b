------------------------ MODULE OperationalHostProofs ------------------------
(* Proofs about McpDispatcher and OperationalHost, for any number of calls, *)
(* slots, places in the queue, runs and steps.                             *)
EXTENDS OperationalHost, FiniteSetTheorems, SequenceTheorems, TLAPS

-----------------------------------------------------------------------------
(* The dispatcher. *)

CallStates == {"new", "refused", "queued", "left", "started", "released"}
InState(state, s) == {c \in Calls : state[c] = s}

(* The queue holds exactly the calls that wait, each of them once.         *)
QueueFits(q, state) ==
    /\ \A n \in 1..Len(q) : q[n] \in Calls /\ state[q[n]] = "queued"
    /\ \A c \in Calls : state[c] = "queued" => \E n \in 1..Len(q) : q[n] = c
    /\ \A m, n \in 1..Len(q) : q[m] = q[n] => m = n

SlotsFit(a, state) ==
    /\ IsFiniteSet(InState(state, "started"))
    /\ a = Cardinality(InState(state, "started"))
    /\ a <= MaxConcurrent

AnswersFit(state, told) ==
    \A c \in Calls : /\ state[c] \in {"new", "queued"} => told[c] = "none"
                     /\ state[c] = "released" => told[c] # "none"

(* The inductive invariant: it adds to DispatcherSound that the calls with *)
(* a slot are finitely many.                                               *)
DispatcherInv ==
    /\ DispatcherTypeOK
    /\ QueueFits(queue, call) /\ SlotsFit(active, call) /\ AnswersFit(call, answer)
    /\ queue # <<>> => active = MaxConcurrent
    /\ Len(queue) <= MaxQueued

LEMMA InitDispatcherInv == DispatcherInit => DispatcherInv
<1> SUFFICES ASSUME DispatcherInit PROVE DispatcherInv
  OBVIOUS
<1> USE DispatcherAssumption DEF DispatcherInit
<1>1. DispatcherTypeOK
  <2>1. <<>> \in Seq(Calls)
    OBVIOUS
  <2> QED BY <2>1 DEF DispatcherTypeOK
<1>2. QueueFits(queue, call)
  BY DEF QueueFits
<1>3. SlotsFit(active, call)
  <2>1. InState(call, "started") = {}
    BY DEF InState
  <2> QED BY <2>1, FS_EmptySet DEF SlotsFit
<1>4. AnswersFit(call, answer)
  BY DEF AnswersFit
<1> QED BY <1>1, <1>2, <1>3, <1>4 DEF DispatcherInv

(* A call that leaves or enters the calls with a slot. *)
LEMMA SlotTaken ==
    ASSUME NEW state \in [Calls -> CallStates], NEW c \in Calls, state[c] # "started",
           IsFiniteSet(InState(state, "started"))
    PROVE  LET new == [state EXCEPT ![c] = "started"]
           IN  /\ IsFiniteSet(InState(new, "started"))
               /\ Cardinality(InState(new, "started")) = Cardinality(InState(state, "started")) + 1
<1> DEFINE new == [state EXCEPT ![c] = "started"]
<1>1. InState(new, "started") = InState(state, "started") \cup {c}
  BY DEF InState
<1>2. c \notin InState(state, "started")
  BY DEF InState
<1> QED BY <1>1, <1>2, FS_AddElement

LEMMA SlotGivenBack ==
    ASSUME NEW state \in [Calls -> CallStates], NEW c \in Calls, state[c] = "started",
           IsFiniteSet(InState(state, "started"))
    PROVE  LET new == [state EXCEPT ![c] = "released"]
           IN  /\ IsFiniteSet(InState(new, "started"))
               /\ Cardinality(InState(new, "started")) = Cardinality(InState(state, "started")) - 1
<1> DEFINE new == [state EXCEPT ![c] = "released"]
<1>1. InState(new, "started") = InState(state, "started") \ {c}
  BY DEF InState
<1>2. c \in InState(state, "started")
  BY DEF InState
<1> QED BY <1>1, <1>2, FS_RemoveElement

(* Which calls pump takes: none, or the first of the queue.                *)
LEMMA PumpTakes ==
    ASSUME NEW q \in Seq(Calls), NEW a \in Nat, a <= MaxConcurrent,
           NEW state \in [Calls -> CallStates],
           a = MaxConcurrent \/ a + 1 = MaxConcurrent \/ Len(q) <= 1,
           Pump(q, a, state)
    PROVE  \E n \in {0, 1} :
             /\ n <= Len(q) /\ queue' \in Seq(Calls) /\ Len(queue') = Len(q) - n
             /\ \A m \in 1..Len(queue') : queue'[m] = q[m + n]
             /\ active' = a + n
             /\ n = 0 => (Len(q) = 0 \/ a = MaxConcurrent) /\ call' = state
             /\ n = 1 => a < MaxConcurrent /\ call' = [state EXCEPT ![q[1]] = "started"]
<1> DEFINE free == MaxConcurrent - a
           n == IF Len(q) < free THEN Len(q) ELSE free
           first == SubSeq(q, 1, n)
<1>1. /\ queue' = SubSeq(q, n + 1, Len(q))
      /\ active' = a + n
      /\ call' = [c \in Calls |-> IF c \in ToSet(first) THEN "started" ELSE state[c]]
  BY DEF Pump
<1>2. /\ n \in {0, 1} /\ n <= Len(q) /\ Len(q) \in Nat
      /\ n = 0 => (Len(q) = 0 \/ a = MaxConcurrent)
      /\ n = 1 => a < MaxConcurrent /\ Len(q) > 0
  <2>1. Len(q) \in Nat /\ MaxConcurrent \in Nat
    BY DispatcherAssumption
  <2>2. free \in Nat /\ (free = 0 <=> a = MaxConcurrent) /\ (free = 1 <=> a + 1 = MaxConcurrent)
    BY <2>1
  <2>3. free = 0 \/ free = 1 \/ Len(q) <= 1
    BY <2>2
  <2>4. free # 0 => a < MaxConcurrent
    BY <2>1
  <2>5. CASE Len(q) < free
    <3>1. n = Len(q)
      BY <2>5
    <3> HIDE DEF n, free
    <3> QED BY <2>1, <2>2, <2>3, <2>4, <2>5, <3>1
  <2>6. CASE ~(Len(q) < free)
    <3>1. n = free
      BY <2>6
    <3> HIDE DEF n, free
    <3> QED BY <2>1, <2>2, <2>3, <2>4, <2>6, <3>1
  <2> QED BY <2>5, <2>6
<1> HIDE DEF n
<1>3. ToSet(first) = {q[m] : m \in 1..n}
  <2>1. Len(first) = n /\ DOMAIN first = 1..n /\ \A m \in 1..n : first[m] = q[m]
    BY <1>2
  <2> QED BY <2>1 DEF ToSet
<1>4. n = 0 => call' = state
  BY <1>1, <1>3
<1>5. n = 1 => call' = [state EXCEPT ![q[1]] = "started"]
  <2> SUFFICES ASSUME n = 1 PROVE call' = [state EXCEPT ![q[1]] = "started"]
    OBVIOUS
  <2>1. ToSet(first) = {q[1]}
    BY <1>3
  <2> HIDE DEF first
  <2> QED BY <1>1, <2>1
<1>6. /\ queue' \in Seq(Calls) /\ Len(queue') = Len(q) - n
      /\ \A m \in 1..Len(queue') : queue'[m] = q[m + n]
  <2>1. n + 1 \in Int /\ Len(q) \in Int /\ \A m \in (n + 1)..Len(q) : q[m] \in Calls
    BY <1>2
  <2>2. /\ queue' \in Seq(Calls)
        /\ Len(queue') = IF n + 1 <= Len(q) THEN Len(q) - (n + 1) + 1 ELSE 0
        /\ \A m \in 1..(Len(q) - (n + 1) + 1) : queue'[m] = q[(n + 1) + m - 1]
    BY <1>1, <2>1, SubSeqProperties
  <2>3. Len(queue') = Len(q) - n
    BY <1>2, <2>2
  <2>4. ASSUME NEW m \in 1..Len(queue') PROVE queue'[m] = q[m + n]
    <3>1. m \in 1..(Len(q) - (n + 1) + 1) /\ (n + 1) + m - 1 = m + n
      BY <1>2, <2>3
    <3> QED BY <2>2, <3>1
  <2> QED BY <2>2, <2>3, <2>4
<1> QED BY <1>1, <1>2, <1>4, <1>5, <1>6

(* pump leaves a queue that fits, and nobody in it while a slot is free.   *)
LEMMA PumpKeeps ==
    ASSUME NEW q \in Seq(Calls), NEW a \in Nat, NEW state \in [Calls -> CallStates],
           QueueFits(q, state), SlotsFit(a, state),
           a = MaxConcurrent \/ a + 1 = MaxConcurrent \/ Len(q) <= 1,
           Len(q) <= MaxQueued \/ (Len(q) = 1 /\ a < MaxConcurrent),
           Pump(q, a, state)
    PROVE  /\ queue' \in Seq(Calls) /\ active' \in Nat /\ call' \in [Calls -> CallStates]
           /\ QueueFits(queue, call)' /\ SlotsFit(active, call)'
           /\ queue' # <<>> => active' = MaxConcurrent
           /\ Len(queue') <= MaxQueued
           /\ \A c \in Calls : call'[c] = state[c] \/ (state[c] = "queued" /\ call'[c] = "started")
<1>0. a <= MaxConcurrent /\ MaxConcurrent \in Nat /\ MaxQueued \in Nat /\ Len(q) \in Nat
  BY DispatcherAssumption DEF SlotsFit
<1>1. PICK n \in {0, 1} :
             /\ n <= Len(q) /\ queue' \in Seq(Calls) /\ Len(queue') = Len(q) - n
             /\ \A m \in 1..Len(queue') : queue'[m] = q[m + n]
             /\ active' = a + n
             /\ n = 0 => (Len(q) = 0 \/ a = MaxConcurrent) /\ call' = state
             /\ n = 1 => a < MaxConcurrent /\ call' = [state EXCEPT ![q[1]] = "started"]
  BY <1>0, PumpTakes
<1>2. /\ active' \in Nat /\ Len(queue') \in Nat /\ Len(queue') <= MaxQueued
      /\ queue' # <<>> => active' = MaxConcurrent
  BY <1>0, <1>1
<1>3. CASE n = 0
  <2>1. call' = state /\ active' = a /\ Len(queue') = Len(q)
    BY <1>0, <1>1, <1>3
  <2>2. \A m \in 1..Len(q) : queue'[m] = q[m]
    BY <1>1, <1>3, <2>1
  <2>3. QueueFits(queue, call)'
    BY <2>1, <2>2 DEF QueueFits
  <2>4. SlotsFit(active, call)'
    BY <2>1 DEF SlotsFit, InState
  <2> QED BY <1>1, <1>2, <2>1, <2>3, <2>4
<1>4. CASE n = 1
  <2>1. /\ q[1] \in Calls /\ state[q[1]] = "queued" /\ 1 \in 1..Len(q)
        /\ call' = [state EXCEPT ![q[1]] = "started"]
        /\ active' = a + 1 /\ a < MaxConcurrent
    BY <1>0, <1>1, <1>4 DEF QueueFits
  <2>2. /\ Len(queue') = Len(q) - 1
        /\ \A m \in 1..Len(queue') : m + 1 \in 1..Len(q) /\ queue'[m] = q[m + 1]
    BY <1>0, <1>1, <1>4
  <2>3. call' \in [Calls -> CallStates]
    BY <2>1 DEF CallStates
  <2>4. \A c \in Calls : call'[c] = IF c = q[1] THEN "started" ELSE state[c]
    BY <2>1
  <2>5. QueueFits(queue, call)'
    <3>1. ASSUME NEW m \in 1..Len(queue') PROVE queue'[m] \in Calls /\ call'[queue'[m]] = "queued"
      <4>1. m + 1 \in 1..Len(q) /\ queue'[m] = q[m + 1] /\ m + 1 # 1
        BY <2>2
      <4>2. q[m + 1] \in Calls /\ state[q[m + 1]] = "queued" /\ q[m + 1] # q[1]
        BY <2>1, <4>1 DEF QueueFits
      <4> QED BY <2>4, <4>1, <4>2, Zenon
    <3>2. ASSUME NEW c \in Calls, call'[c] = "queued" PROVE \E m \in 1..Len(queue') : queue'[m] = c
      <4>1. c # q[1] /\ state[c] = "queued"
        BY <2>4, <3>2
      <4>2. PICK m \in 1..Len(q) : q[m] = c
        BY <4>1 DEF QueueFits
      <4>3. m - 1 \in 1..Len(queue') /\ queue'[m - 1] = q[(m - 1) + 1] /\ (m - 1) + 1 = m
        BY <1>0, <2>2, <4>1, <4>2
      <4> QED BY <4>2, <4>3
    <3>3. ASSUME NEW m \in 1..Len(queue'), NEW o \in 1..Len(queue'), queue'[m] = queue'[o]
          PROVE  m = o
      <4>1. m + 1 \in 1..Len(q) /\ o + 1 \in 1..Len(q) /\ q[m + 1] = q[o + 1]
        BY <2>2, <3>3
      <4>2. m + 1 = o + 1
        BY <4>1 DEF QueueFits
      <4> QED BY <4>2
    <3> QED BY <3>1, <3>2, <3>3 DEF QueueFits
  <2>6. SlotsFit(active, call)'
    <3>1. /\ IsFiniteSet(InState(call', "started"))
          /\ Cardinality(InState(call', "started")) = Cardinality(InState(state, "started")) + 1
      BY <2>1, SlotTaken DEF SlotsFit
    <3>2. active' <= MaxConcurrent
      BY <1>0, <2>1
    <3> QED BY <2>1, <3>1, <3>2 DEF SlotsFit, InState
  <2> QED BY <1>1, <1>2, <2>1, <2>3, <2>4, <2>5, <2>6
<1> QED BY <1>3, <1>4

(* remove: the others stay, in their order. *)
LEMMA WithoutFits ==
    ASSUME NEW q \in Seq(Calls), NEW state \in [Calls -> CallStates], NEW c \in Calls,
           QueueFits(q, state), state[c] = "queued"
    PROVE  /\ Without(q, c) \in Seq(Calls) /\ Len(Without(q, c)) = Len(q) - 1 /\ Len(q) > 0
           /\ QueueFits(Without(q, c), [state EXCEPT ![c] = "left"])
<1> DEFINE at == CHOOSE n \in 1..Len(q) : q[n] = c
           r == Without(q, c)
           new == [state EXCEPT ![c] = "left"]
<1>1. Len(q) \in Nat /\ \A n \in 1..Len(q) : q[n] \in Calls
  OBVIOUS
<1>2. at \in 1..Len(q) /\ q[at] = c
  BY DEF QueueFits
<1>3. r = [n \in 1..(Len(q) - 1) |-> IF n < at THEN q[n] ELSE q[n + 1]]
  BY DEF Without
<1> HIDE DEF at, r
<1>4. Len(q) - 1 \in Nat /\ Len(q) > 0
  BY <1>1, <1>2
<1>5. r \in Seq(Calls) /\ Len(r) = Len(q) - 1
  <2>1. \A n \in 1..(Len(q) - 1) : r[n] \in Calls
    BY <1>1, <1>2, <1>3
  <2> QED BY <1>3, <1>4, <2>1
<1>6. \A n \in 1..Len(r) : \/ n < at /\ n \in 1..Len(q) /\ r[n] = q[n]
                           \/ n >= at /\ n + 1 \in 1..Len(q) /\ r[n] = q[n + 1]
  BY <1>1, <1>2, <1>3, <1>5
<1>7. \A d \in Calls : new[d] = IF d = c THEN "left" ELSE state[d]
  OBVIOUS
<1> HIDE DEF new
<1>8. \A n \in 1..Len(q) : q[n] = c => n = at
  BY <1>2 DEF QueueFits
<1>9. ASSUME NEW n \in 1..Len(r) PROVE r[n] \in Calls /\ new[r[n]] = "queued"
  <2>1. PICK m \in 1..Len(q) : r[n] = q[m] /\ m # at
    BY <1>2, <1>5, <1>6
  <2>2. q[m] \in Calls /\ q[m] # c /\ state[q[m]] = "queued"
    BY <1>8, <2>1 DEF QueueFits
  <2> QED BY <1>7, <2>1, <2>2
<1>10. ASSUME NEW d \in Calls, new[d] = "queued" PROVE \E n \in 1..Len(r) : r[n] = d
  <2>1. d # c /\ state[d] = "queued"
    BY <1>7, <1>10
  <2>2. PICK m \in 1..Len(q) : q[m] = d
    BY <2>1 DEF QueueFits
  <2>3. CASE m < at
    <3>1. m \in 1..Len(r) /\ r[m] = q[m]
      BY <1>1, <1>2, <1>3, <1>5, <2>3
    <3> QED BY <2>2, <3>1
  <2>4. CASE m > at
    <3>1. m - 1 \in 1..Len(r) /\ ~(m - 1 < at) /\ (m - 1) + 1 = m
      BY <1>1, <1>2, <1>5, <2>4
    <3>2. r[m - 1] = q[(m - 1) + 1]
      BY <1>3, <1>5, <3>1
    <3> QED BY <2>2, <3>1, <3>2
  <2> QED BY <1>2, <2>1, <2>2, <2>3, <2>4
<1>11. ASSUME NEW m \in 1..Len(r), NEW n \in 1..Len(r), r[m] = r[n] PROVE m = n
  <2>1. PICK x \in 1..Len(q) : r[m] = q[x] /\ ((m = x /\ m < at) \/ (x = m + 1 /\ m >= at))
    BY <1>6
  <2>2. PICK y \in 1..Len(q) : r[n] = q[y] /\ ((n = y /\ n < at) \/ (y = n + 1 /\ n >= at))
    BY <1>6
  <2>3. x = y
    BY <1>11, <2>1, <2>2 DEF QueueFits
  <2> QED BY <1>2, <2>1, <2>2, <2>3
<1>12. QueueFits(r, new)
  BY <1>9, <1>10, <1>11 DEF QueueFits
<1> QED BY <1>4, <1>5, <1>12 DEF r, new

LEMMA AppendFits ==
    ASSUME NEW q \in Seq(Calls), NEW state \in [Calls -> CallStates], NEW c \in Calls,
           QueueFits(q, state), state[c] # "queued"
    PROVE  /\ Append(q, c) \in Seq(Calls) /\ Len(Append(q, c)) = Len(q) + 1
           /\ QueueFits(Append(q, c), [state EXCEPT ![c] = "queued"])
<1> DEFINE r == Append(q, c)
           new == [state EXCEPT ![c] = "queued"]
<1>1. /\ Len(q) \in Nat /\ r \in Seq(Calls) /\ Len(r) = Len(q) + 1
      /\ \A n \in 1..Len(q) : r[n] = q[n] /\ r[Len(q) + 1] = c
      /\ r[Len(q) + 1] = c
  OBVIOUS
<1>2. \A d \in Calls : new[d] = IF d = c THEN "queued" ELSE state[d]
  OBVIOUS
<1> HIDE DEF r, new
<1>3. \A n \in 1..Len(r) : n \in 1..Len(q) \/ n = Len(q) + 1
  BY <1>1
<1>4. \A n \in 1..Len(q) : q[n] # c /\ q[n] \in Calls /\ state[q[n]] = "queued"
  BY DEF QueueFits
<1>5. \A n \in 1..Len(r) : r[n] \in Calls /\ new[r[n]] = "queued"
  BY <1>1, <1>2, <1>3, <1>4
<1>6. ASSUME NEW d \in Calls, new[d] = "queued" PROVE \E n \in 1..Len(r) : r[n] = d
  <2>1. CASE d = c
    BY <1>1, <2>1
  <2>2. CASE d # c
    <3>1. PICK n \in 1..Len(q) : q[n] = d
      BY <1>2, <1>6, <2>2 DEF QueueFits
    <3> QED BY <1>1, <3>1
  <2> QED BY <2>1, <2>2
<1>7. \A m, n \in 1..Len(r) : r[m] = r[n] => m = n
  BY <1>1, <1>3, <1>4 DEF QueueFits
<1> QED BY <1>1, <1>5, <1>6, <1>7 DEF QueueFits, r, new

(* A change of another call is none for the calls with a slot. *)
LEMMA SlotsUntouched ==
    ASSUME NEW state \in [Calls -> CallStates], NEW c \in Calls, NEW s \in CallStates, NEW a,
           state[c] # "started", s # "started", SlotsFit(a, state)
    PROVE  SlotsFit(a, [state EXCEPT ![c] = s])
<1>1. InState([state EXCEPT ![c] = s], "started") = InState(state, "started")
  BY DEF InState
<1> QED BY <1>1 DEF SlotsFit

LEMMA ReleaseSlotKeeps ==
    ASSUME DispatcherInv, NEW c \in Calls, call[c] \in {"started", "released"}, ReleaseSlot(c)
    PROVE  /\ queue' \in Seq(Calls) /\ active' \in Nat /\ call' \in [Calls -> CallStates]
           /\ QueueFits(queue, call)' /\ SlotsFit(active, call)'
           /\ queue' # <<>> => active' = MaxConcurrent
           /\ Len(queue') <= MaxQueued
           /\ call'[c] = "released"
           /\ \A d \in Calls \ {c} : call'[d] = call[d] \/ (call[d] = "queued" /\ call'[d] = "started")
<1> DEFINE new == [call EXCEPT ![c] = "released"]
<1>1. /\ queue \in Seq(Calls) /\ active \in Nat /\ call \in [Calls -> CallStates]
      /\ MaxConcurrent \in Nat /\ Len(queue) \in Nat
  BY DispatcherAssumption DEF DispatcherInv, DispatcherTypeOK, CallStates
<1>2. CASE call[c] = "started"
  <2>1. Pump(queue, active - 1, new)
    BY <1>2 DEF ReleaseSlot
  <2>2. /\ IsFiniteSet(InState(new, "started"))
        /\ Cardinality(InState(new, "started")) = active - 1
    BY <1>1, <1>2, SlotGivenBack DEF DispatcherInv, SlotsFit
  <2>3. active - 1 \in Nat /\ active - 1 < MaxConcurrent
    BY <1>1, <2>2, FS_CardinalityType DEF DispatcherInv, SlotsFit
  <2>4. new \in [Calls -> CallStates] /\ \A d \in Calls : new[d] = IF d = c THEN "released" ELSE call[d]
    BY <1>1 DEF CallStates
  <2>5. SlotsFit(active - 1, new)
    BY <1>1, <2>2, <2>3 DEF SlotsFit
  <2>6. QueueFits(queue, new)
    BY <1>2, <2>4 DEF DispatcherInv, QueueFits
  <2>7. active - 1 = MaxConcurrent \/ active - 1 + 1 = MaxConcurrent \/ Len(queue) <= 1
    BY <1>1 DEF DispatcherInv
  <2>8. Len(queue) <= MaxQueued
    BY DEF DispatcherInv
  <2> HIDE DEF new
  <2>9. /\ queue' \in Seq(Calls) /\ active' \in Nat /\ call' \in [Calls -> CallStates]
        /\ QueueFits(queue, call)' /\ SlotsFit(active, call)'
        /\ queue' # <<>> => active' = MaxConcurrent
        /\ Len(queue') <= MaxQueued
        /\ \A d \in Calls : call'[d] = new[d] \/ (new[d] = "queued" /\ call'[d] = "started")
    BY <1>1, <2>1, <2>3, <2>4, <2>5, <2>6, <2>7, <2>8, PumpKeeps
  <2> QED BY <2>4, <2>9
<1>3. CASE call[c] # "started"
  <2>1. UNCHANGED <<queue, active, call>>
    BY <1>3 DEF ReleaseSlot
  <2> QED BY <1>1, <1>3, <2>1 DEF DispatcherInv, QueueFits, SlotsFit, InState
<1> QED BY <1>2, <1>3

LEMMA AnsweredFits ==
    ASSUME DispatcherTypeOK, NEW c \in Calls,
           NEW outcome \in {"result", "error", "cancelled", "deadline", "full"}, Answer(c, outcome)
    PROVE  /\ answer' \in [Calls -> {"none", "result", "error", "cancelled", "deadline", "full"}]
           /\ answer'[c] # "none"
           /\ \A d \in Calls \ {c} : answer'[d] = answer[d]
BY DEF Answer, DispatcherTypeOK

LEMMA DispatchKeeps ==
    ASSUME DispatcherInv, NEW c \in Calls, Dispatch(c)
    PROVE  DispatcherInv'
<1>1. /\ queue \in Seq(Calls) /\ active \in Nat /\ call \in [Calls -> CallStates]
      /\ MaxConcurrent \in Nat /\ MaxQueued \in Nat /\ Len(queue) \in Nat
      /\ aborted' \subseteq Calls /\ over' \subseteq Calls /\ call[c] = "new"
      /\ active <= MaxConcurrent /\ Len(queue) <= MaxQueued
      /\ queue # <<>> => active = MaxConcurrent
  BY DispatcherAssumption DEF DispatcherInv, DispatcherTypeOK, SlotsFit, CallStates, Dispatch
<1>2. DispatcherTypeOK /\ QueueFits(queue, call) /\ SlotsFit(active, call) /\ AnswersFit(call, answer)
  BY DEF DispatcherInv
<1>3. CASE /\ call' = [call EXCEPT ![c] = "refused"]
           /\ UNCHANGED <<queue, active>>
           /\ Answer(c, "cancelled") \/ Answer(c, "full")
  <2>1. /\ answer' \in [Calls -> {"none", "result", "error", "cancelled", "deadline", "full"}]
        /\ \A d \in Calls \ {c} : answer'[d] = answer[d]
    BY <1>2, <1>3, AnsweredFits
  <2>2. call' \in [Calls -> CallStates] /\ \A d \in Calls : call'[d] = IF d = c THEN "refused" ELSE call[d]
    BY <1>1, <1>3 DEF CallStates
  <2>3. QueueFits(queue, call)'
    BY <1>1, <1>2, <1>3, <2>2 DEF QueueFits
  <2>4. SlotsFit(active, call)'
    BY <1>1, <1>2, <1>3, SlotsUntouched DEF CallStates, SlotsFit, InState
  <2>5. AnswersFit(call, answer)'
    BY <1>2, <2>1, <2>2 DEF AnswersFit
  <2> QED BY <1>1, <1>3, <2>1, <2>2, <2>3, <2>4, <2>5 DEF DispatcherInv, DispatcherTypeOK, CallStates
<1>4. CASE /\ ~(Len(queue) >= MaxQueued /\ active >= MaxConcurrent)
           /\ Pump(Append(queue, c), active, [call EXCEPT ![c] = "queued"])
           /\ UNCHANGED answer
  <2> DEFINE q == Append(queue, c)
             new == [call EXCEPT ![c] = "queued"]
  <2>1. q \in Seq(Calls) /\ Len(q) = Len(queue) + 1 /\ QueueFits(q, new)
    BY <1>1, <1>2, AppendFits
  <2>2. new \in [Calls -> CallStates] /\ \A d \in Calls : new[d] = IF d = c THEN "queued" ELSE call[d]
    BY <1>1 DEF CallStates
  <2>3. SlotsFit(active, new)
    BY <1>1, <1>2, SlotsUntouched DEF CallStates
  <2>4. queue = <<>> => Len(queue) = 0
    OBVIOUS
  <2>5. active = MaxConcurrent \/ Len(q) <= 1
    BY <1>1, <2>1, <2>4
  <2>6. Len(q) <= MaxQueued \/ (Len(q) = 1 /\ active < MaxConcurrent)
    BY <1>1, <1>4, <2>1, <2>4
  <2>7. Pump(q, active, new)
    BY <1>4
  <2> HIDE DEF q, new
  <2>8. /\ queue' \in Seq(Calls) /\ active' \in Nat /\ call' \in [Calls -> CallStates]
        /\ QueueFits(queue, call)' /\ SlotsFit(active, call)'
        /\ queue' # <<>> => active' = MaxConcurrent
        /\ Len(queue') <= MaxQueued
        /\ \A d \in Calls : call'[d] = new[d] \/ (new[d] = "queued" /\ call'[d] = "started")
    <3>1. q \in Seq(Calls) /\ active \in Nat /\ new \in [Calls -> CallStates]
      BY <1>1, <2>1, <2>2
    <3>2. active = MaxConcurrent \/ active + 1 = MaxConcurrent \/ Len(q) <= 1
      BY <2>5
    <3> QED BY <2>1, <2>3, <2>6, <2>7, <3>1, <3>2, PumpKeeps
  <2>9. AnswersFit(call, answer)'
    BY <1>1, <1>2, <1>4, <2>2, <2>8 DEF AnswersFit
  <2> QED BY <1>1, <1>2, <1>4, <2>8, <2>9 DEF DispatcherInv, DispatcherTypeOK, CallStates
<1> QED BY <1>3, <1>4 DEF Dispatch

(* A call that leaves the queue without a slot. *)
LEMMA LeavingFits ==
    ASSUME DispatcherInv, NEW c \in Calls, call[c] = "queued"
    PROVE  /\ Without(queue, c) \in Seq(Calls)
           /\ Len(Without(queue, c)) = Len(queue) - 1 /\ Len(queue) > 0
           /\ active = MaxConcurrent
           /\ [call EXCEPT ![c] = "left"] \in [Calls -> CallStates]
           /\ QueueFits(Without(queue, c), [call EXCEPT ![c] = "left"])
           /\ SlotsFit(active, [call EXCEPT ![c] = "left"])
<1>1. queue \in Seq(Calls) /\ call \in [Calls -> CallStates]
  BY DEF DispatcherInv, DispatcherTypeOK, CallStates
<1>2. QueueFits(queue, call) /\ SlotsFit(active, call)
  BY DEF DispatcherInv
<1>3. /\ Without(queue, c) \in Seq(Calls)
      /\ Len(Without(queue, c)) = Len(queue) - 1 /\ Len(queue) > 0
      /\ QueueFits(Without(queue, c), [call EXCEPT ![c] = "left"])
  BY <1>1, <1>2, WithoutFits
<1>4. SlotsFit(active, [call EXCEPT ![c] = "left"])
  BY <1>1, <1>2, SlotsUntouched DEF CallStates
<1>5. active = MaxConcurrent
  BY <1>3 DEF DispatcherInv
<1> QED BY <1>1, <1>3, <1>4, <1>5 DEF CallStates

LEMMA CallerAbortKeeps ==
    ASSUME DispatcherInv, NEW c \in Calls, CallerAbort(c)
    PROVE  DispatcherInv'
<1>1. /\ queue \in Seq(Calls) /\ active \in Nat /\ call \in [Calls -> CallStates]
      /\ MaxConcurrent \in Nat /\ MaxQueued \in Nat /\ Len(queue) \in Nat
      /\ over' \subseteq Calls /\ Len(queue) <= MaxQueued
  BY DispatcherAssumption DEF DispatcherInv, DispatcherTypeOK, CallStates, CallerAbort
<1>2. DispatcherTypeOK /\ QueueFits(queue, call) /\ SlotsFit(active, call) /\ AnswersFit(call, answer)
  BY DEF DispatcherInv
<1>3. CASE /\ call[c] = "queued"
           /\ Pump(Without(queue, c), active, [call EXCEPT ![c] = "left"])
           /\ Answer(c, "cancelled") /\ UNCHANGED aborted
  <2> DEFINE q == Without(queue, c)
             new == [call EXCEPT ![c] = "left"]
  <2>1. /\ q \in Seq(Calls) /\ Len(q) = Len(queue) - 1 /\ active = MaxConcurrent
        /\ new \in [Calls -> CallStates] /\ QueueFits(q, new) /\ SlotsFit(active, new)
    BY <1>3, LeavingFits
  <2>2. \A d \in Calls : new[d] = IF d = c THEN "left" ELSE call[d]
    BY <1>1
  <2>3. /\ answer' \in [Calls -> {"none", "result", "error", "cancelled", "deadline", "full"}]
        /\ \A d \in Calls \ {c} : answer'[d] = answer[d]
    BY <1>2, <1>3, AnsweredFits
  <2>4. Len(q) <= MaxQueued
    BY <1>1, <2>1
  <2>5. Pump(q, active, new)
    BY <1>3
  <2> HIDE DEF q, new
  <2>6. /\ queue' \in Seq(Calls) /\ active' \in Nat /\ call' \in [Calls -> CallStates]
        /\ QueueFits(queue, call)' /\ SlotsFit(active, call)'
        /\ queue' # <<>> => active' = MaxConcurrent
        /\ Len(queue') <= MaxQueued
        /\ \A d \in Calls : call'[d] = new[d] \/ (new[d] = "queued" /\ call'[d] = "started")
    BY <1>1, <2>1, <2>4, <2>5, PumpKeeps
  <2>7. AnswersFit(call, answer)'
    BY <1>2, <2>2, <2>3, <2>6 DEF AnswersFit
  <2> QED BY <1>1, <1>2, <1>3, <2>3, <2>6, <2>7 DEF DispatcherInv, DispatcherTypeOK, CallStates
<1>4. CASE /\ call[c] = "started" /\ aborted' = aborted \cup {c}
           /\ UNCHANGED <<queue, active, call, answer>>
  BY <1>1, <1>2, <1>4 DEF DispatcherInv, DispatcherTypeOK, QueueFits, SlotsFit, AnswersFit, InState
<1> QED BY <1>3, <1>4 DEF CallerAbort

LEMMA DeadlineKeeps ==
    ASSUME DispatcherInv, NEW c \in Calls, Deadline(c)
    PROVE  DispatcherInv'
<1>1. /\ queue \in Seq(Calls) /\ active \in Nat /\ call \in [Calls -> CallStates]
      /\ MaxConcurrent \in Nat /\ MaxQueued \in Nat /\ Len(queue) \in Nat
      /\ over' \subseteq Calls /\ Len(queue) <= MaxQueued
  BY DispatcherAssumption DEF DispatcherInv, DispatcherTypeOK, CallStates, Deadline
<1>2. DispatcherTypeOK /\ QueueFits(queue, call) /\ SlotsFit(active, call) /\ AnswersFit(call, answer)
  BY DEF DispatcherInv
<1>3. /\ answer' \in [Calls -> {"none", "result", "error", "cancelled", "deadline", "full"}]
      /\ answer'[c] # "none"
      /\ \A d \in Calls \ {c} : answer'[d] = answer[d]
  BY <1>2, AnsweredFits DEF Deadline
<1>4. CASE /\ call[c] = "started" /\ aborted' = aborted \cup {c} /\ ReleaseSlot(c)
  <2>1. /\ queue' \in Seq(Calls) /\ active' \in Nat /\ call' \in [Calls -> CallStates]
        /\ QueueFits(queue, call)' /\ SlotsFit(active, call)'
        /\ queue' # <<>> => active' = MaxConcurrent
        /\ Len(queue') <= MaxQueued
        /\ call'[c] = "released"
        /\ \A d \in Calls \ {c} : call'[d] = call[d] \/ (call[d] = "queued" /\ call'[d] = "started")
    BY <1>4, ReleaseSlotKeeps
  <2>2. AnswersFit(call, answer)'
    BY <1>2, <1>3, <2>1 DEF AnswersFit
  <2> QED BY <1>1, <1>2, <1>3, <1>4, <2>1, <2>2 DEF DispatcherInv, DispatcherTypeOK, CallStates
<1>5. CASE /\ call[c] = "queued"
           /\ queue' = Without(queue, c) /\ call' = [call EXCEPT ![c] = "left"]
           /\ UNCHANGED <<active, aborted>>
  <2>1. /\ queue' \in Seq(Calls) /\ Len(queue') = Len(queue) - 1 /\ active' = MaxConcurrent
        /\ active' = active
        /\ call' \in [Calls -> CallStates] /\ QueueFits(queue', call') /\ SlotsFit(active, call')
    BY <1>5, LeavingFits
  <2>2. \A d \in Calls : call'[d] = IF d = c THEN "left" ELSE call[d]
    BY <1>1, <1>5
  <2>3. AnswersFit(call, answer)'
    BY <1>2, <1>3, <2>2 DEF AnswersFit
  <2>4. QueueFits(queue, call)' /\ SlotsFit(active, call)'
    BY <2>1 DEF QueueFits, SlotsFit, InState
  <2>5. Len(queue') <= MaxQueued
    BY <1>1, <2>1
  <2> QED BY <1>1, <1>2, <1>3, <1>5, <2>1, <2>3, <2>4, <2>5 DEF DispatcherInv, DispatcherTypeOK, CallStates
<1> QED BY <1>4, <1>5 DEF Deadline

LEMMA FinishKeeps ==
    ASSUME DispatcherInv, NEW c \in Calls, NEW outcome \in {"result", "error"}, Finish(c, outcome)
    PROVE  DispatcherInv'
<1>1. DispatcherTypeOK /\ AnswersFit(call, answer)
  BY DEF DispatcherInv
<1>2. /\ answer' \in [Calls -> {"none", "result", "error", "cancelled", "deadline", "full"}]
      /\ answer'[c] # "none"
      /\ \A d \in Calls \ {c} : answer'[d] = answer[d]
  BY <1>1, AnsweredFits DEF Finish
<1>3. /\ queue' \in Seq(Calls) /\ active' \in Nat /\ call' \in [Calls -> CallStates]
      /\ QueueFits(queue, call)' /\ SlotsFit(active, call)'
      /\ queue' # <<>> => active' = MaxConcurrent
      /\ Len(queue') <= MaxQueued
      /\ call'[c] = "released"
      /\ \A d \in Calls \ {c} : call'[d] = call[d] \/ (call[d] = "queued" /\ call'[d] = "started")
  BY ReleaseSlotKeeps DEF Finish
<1>4. AnswersFit(call, answer)'
  BY <1>1, <1>2, <1>3 DEF AnswersFit
<1>5. aborted' \subseteq Calls /\ over' \subseteq Calls
  BY <1>1 DEF Finish, DispatcherTypeOK
<1> QED BY <1>2, <1>3, <1>4, <1>5 DEF DispatcherInv, DispatcherTypeOK, CallStates

LEMMA DispatcherNextKeeps ==
    ASSUME DispatcherInv, [DispatcherNext]_dispatcherVars
    PROVE  DispatcherInv'
<1>1. CASE DispatcherNext
  BY <1>1, DispatchKeeps, CallerAbortKeeps, DeadlineKeeps, FinishKeeps DEF DispatcherNext
<1>2. CASE UNCHANGED dispatcherVars
  BY <1>2 DEF dispatcherVars, DispatcherInv, DispatcherTypeOK, QueueFits, SlotsFit, AnswersFit, InState
<1> QED BY <1>1, <1>2

(* The inductive invariant says what DispatcherSound does. *)
LEMMA DispatcherInvSound == DispatcherInv => DispatcherSound
<1> SUFFICES ASSUME DispatcherInv PROVE DispatcherSound
  OBVIOUS
<1>1. /\ queue \in Seq(Calls) /\ call \in [Calls -> CallStates] /\ Len(queue) \in Nat
      /\ QueueFits(queue, call) /\ SlotsFit(active, call) /\ AnswersFit(call, answer)
  BY DEF DispatcherInv, DispatcherTypeOK, CallStates
<1>2. SlotsBounded
  BY <1>1 DEF SlotsBounded, SlotsFit, InState, AnswersFit
<1>3. ToSet(queue) = {queue[n] : n \in 1..Len(queue)}
  BY <1>1 DEF ToSet
<1>4. ToSet(queue) = {c \in Calls : call[c] = "queued"}
  BY <1>1, <1>3 DEF QueueFits
<1>5. Len(queue) = Cardinality(ToSet(queue))
  <2> DEFINE f == [n \in 1..Len(queue) |-> queue[n]]
  <2>1. f \in Bijection(1..Len(queue), ToSet(queue))
    <3>1. f \in [1..Len(queue) -> ToSet(queue)]
      BY <1>3
    <3>2. \A m, n \in 1..Len(queue) : f[m] = f[n] => m = n
      BY <1>1 DEF QueueFits
    <3>3. \A c \in ToSet(queue) : \E n \in 1..Len(queue) : f[n] = c
      BY <1>3
    <3> QED BY <3>1, <3>2, <3>3 DEF Bijection, Injection, Surjection, IsInjective
  <2>2. ExistsBijection(1..Len(queue), ToSet(queue))
    BY <2>1 DEF ExistsBijection
  <2>3. IsFiniteSet(1..Len(queue)) /\ Cardinality(1..Len(queue)) = Len(queue)
    <3>1. IsFiniteSet(1..Len(queue))
          /\ Cardinality(1..Len(queue)) = IF 1 > Len(queue) THEN 0 ELSE Len(queue) - 1 + 1
      BY <1>1, FS_Interval
    <3> QED BY <1>1, <3>1
  <2> QED BY <2>2, <2>3, FS_Bijection
<1>6. \A c \in ToSet(queue) : answer[c] = "none"
  BY <1>1, <1>4 DEF AnswersFit
<1> QED BY <1>2, <1>4, <1>5, <1>6 DEF DispatcherSound, NobodyStranded, DispatcherInv

(* Slots and queue agree, with any dispatch: no interleaving of calls,     *)
(* aborts, deadlines and late returns counts a slot twice, strands a call  *)
(* that waits, or lets one start whose caller is gone                      *)
(* (BoundedMcpDispatcher).                                                 *)
THEOREM DispatcherKeepsSlots == DispatcherSpec => []DispatcherSound
<1>1. DispatcherInit => DispatcherInv
  BY InitDispatcherInv
<1>2. DispatcherInv /\ [DispatcherNext]_dispatcherVars => DispatcherInv'
  BY DispatcherNextKeeps
<1>3. DispatcherInv => DispatcherSound
  BY DispatcherInvSound
<1> QED BY <1>1, <1>2, <1>3, PTL DEF DispatcherSpec

-----------------------------------------------------------------------------
(* The host: its steps and those of the dispatcher. *)

LEMMA NextDispatches == Next => DispatcherNext \/ UNCHANGED dispatcherVars
<1> SUFFICES ASSUME Next PROVE DispatcherNext \/ UNCHANGED dispatcherVars
  OBVIOUS
<1>1. ASSUME NEW c \in Calls, CallAborted(c) PROVE DispatcherNext
  BY <1>1 DEF CallAborted, DispatcherNext
<1>2. ASSUME NEW c \in Calls, CreateRun(c) PROVE DispatcherNext \/ UNCHANGED dispatcherVars
  BY <1>2 DEF CreateRun, DispatcherNext
<1>3. ASSUME NEW c \in Calls, HandlerEnds(c) PROVE UNCHANGED dispatcherVars
  BY <1>3 DEF HandlerEnds
<1>4. ASSUME NEW c \in Calls, HandlerReturns(c) PROVE DispatcherNext
  BY <1>4 DEF HandlerReturns, DispatcherNext
<1>5. ASSUME NEW c \in Calls, Dispatch(c) PROVE DispatcherNext
  BY <1>5 DEF DispatcherNext
<1>6. ASSUME NEW d \in DirectRuns, DirectReturns(d) \/ StartDirect(d) \/ CancelDirect(d)
      PROVE  UNCHANGED dispatcherVars
  BY <1>6 DEF DirectReturns, StartDirect, CancelDirect
<1>7. ASSUME NEW r \in Runs, CancelReturns(r) \/ RunEnds(r)
      PROVE  UNCHANGED dispatcherVars
  BY <1>7 DEF CancelReturns, RunEnds
<1>8. ASSUME NEW r \in Runs, NEW s \in Steps, Invoke(r, s) \/ InvocationEnds(r, s)
      PROVE  UNCHANGED dispatcherVars
  BY <1>8 DEF Invoke, InvocationEnds
<1>9. ASSUME NEW r \in Runs, NEW k \in Preparations, Prepare(r, k) \/ BeginClose(r, k) \/ EndClose(r, k)
      PROVE  UNCHANGED dispatcherVars
  BY <1>9 DEF Prepare, BeginClose, EndClose
<1>10. ASSUME Shutdown \/ ShutdownReturns PROVE UNCHANGED dispatcherVars
  BY <1>10 DEF Shutdown, ShutdownReturns
<1> QED BY <1>1, <1>2, <1>3, <1>4, <1>5, <1>6, <1>7, <1>8, <1>9, <1>10 DEF Next, Progress

LEMMA StepKeepsDispatcherInv ==
    ASSUME DispatcherInv, [Next]_vars
    PROVE  DispatcherInv'
<1>1. [DispatcherNext]_dispatcherVars
  BY NextDispatches DEF vars
<1> QED BY <1>1, DispatcherNextKeeps

(* The same in the host, whose handler is the dispatch of a call: whatever *)
(* the runs, their cleanups and the shutdown do, slots and queue agree.    *)
THEOREM HostKeepsSlots == Spec => []DispatcherSound
<1>1. Init => DispatcherInv
  BY InitDispatcherInv DEF Init
<1>2. DispatcherInv /\ [Next]_vars => DispatcherInv'
  BY StepKeepsDispatcherInv
<1>3. DispatcherInv => DispatcherSound
  BY DispatcherInvSound
<1> QED BY <1>1, <1>2, <1>3, PTL DEF Spec

(* To the dispatcher the host is a dispatch among others: each of its      *)
(* steps is a step of the dispatcher, or none.                             *)
THEOREM HostUsesDispatcher == Spec => DispatcherInit /\ [][DispatcherNext]_dispatcherVars
<1>1. Init => DispatcherInit
  BY DEF Init
<1>2. [Next]_vars => [DispatcherNext]_dispatcherVars
  BY NextDispatches DEF vars
<1> QED BY <1>1, <1>2, PTL DEF Spec

-----------------------------------------------------------------------------
(* The runs and their preparations. *)

Made(r) == {k \in Preparations : execution[r][k] # "none"}
Used(r) == {s \in Steps : step[r][s] \in {"active", "done"}}
InCleanup(r, k) == cleanup[r][k] \in {"waiting", "closing"}

(* Preparations are numbered as they are made, at most one for each step   *)
(* that was invoked, and the one a run holds is the last.                  *)
Numbered(r) ==
    /\ Made(r) = 1..Cardinality(Made(r))
    /\ Cardinality(Made(r)) <= Cardinality(Used(r))
    /\ prepared[r] \in {0, Cardinality(Made(r))}

(* What has become of a preparation fits how far its cleanup has come, and *)
(* one that is made is held or cleaned up.                                 *)
PhasesFit(r) ==
    \A k \in Preparations :
        /\ cleanup[r][k] = "none" /\ prepared[r] # k => execution[r][k] = "none"
        /\ prepared[r] = k => cleanup[r][k] = "none"
        /\ prepared[r] = k => execution[r][k] \in {"preparing", "ready", "failed"}
        /\ cleanup[r][k] = "waiting" => execution[r][k] \in {"preparing", "ready", "failed"}
        /\ cleanup[r][k] = "closing" => execution[r][k] \in {"closing", "failed"}
        /\ cleanup[r][k] = "done" => execution[r][k] \in {"closed", "failed"}

(* An invocation that is under way uses the preparation that its run holds,*)
(* or the cleanup of the one it uses waits for it.                         *)
UsersFit(r) ==
    \A s \in Steps :
        step[r][s] = "active" =>
            /\ uses[r][s] # 0
            /\ \/ uses[r][s] = prepared[r]
               \/ cleanup[r][uses[r][s]] = "waiting" /\ s \in waitsFor[r][uses[r][s]]

(* cleanupByRun holds a cleanup that is not over, and while the host is    *)
(* open every such one.                                                    *)
LatestFits(r) ==
    /\ latest[r] # 0 => InCleanup(r, latest[r])
    /\ shut.state = "open" => \A k \in Preparations : InCleanup(r, k) => k = latest[r]

(* Which cleanups there can be at each stage of a run of an open host.     *)
EndsFit(r) ==
    /\ pc[r] = "idle" => /\ r \notin cancelled /\ r \notin states
                         /\ \A k \in Preparations : execution[r][k] = "none"
                         /\ prepared[r] = 0 /\ latest[r] = 0
    /\ pc[r] = "ended" => ending[r] # {}
    /\ shut.state = "open" =>
          /\ ending[r] = {} => latest[r] = 0
          /\ pc[r] \in {"running", "ended"} => latest[r] \in ending[r] \cup {0}
          /\ pc[r] = "terminating" => /\ prepared[r] = 0 /\ latest[r] \in {0, closing[r]}
                                      /\ r \in states => latest[r] # 0
          /\ pc[r] = "over" /\ r \in Calls =>
                prepared[r] = 0 /\ latest[r] = 0 /\ r \notin states

RunFits(r) == Numbered(r) /\ PhasesFit(r) /\ UsersFit(r) /\ LatestFits(r) /\ EndsFit(r)

(* What the shutdown waits for is not over before the last execution that  *)
(* it found of every run is closed.                                        *)
LastFound(rk) ==
    rk \in shut.found /\ \A other \in shut.found : other[1] = rk[1] => other[2] <= rk[2]

ShutFits ==
    /\ shut \in [state : {"open", "closing", "closed"},
                 waits : SUBSET (Runs \X Preparations), found : SUBSET (Runs \X Preparations)]
    /\ \A rk \in shut.found : execution[rk[1]][rk[2]] # "none"
    /\ shut.state = "open" => shut.found = {}
    /\ \A rk \in shut.found :
          LastFound(rk) => \/ ~Open(rk[1], rk[2])
                           \/ shut.state = "closing" /\ rk \in shut.waits

HostFits == HostTypeOK /\ (\A r \in Runs : RunFits(r)) /\ ShutFits
HostInv == DispatcherInv /\ HostFits

LEMMA PreparationNumbers ==
    /\ Cardinality(Steps) \in Nat /\ IsFiniteSet(Steps)
    /\ Preparations \subseteq Nat /\ Preparations \subseteq Pending /\ Pending \subseteq Nat
    /\ 0 \notin Preparations /\ 0 \in Pending
    /\ \A k \in Pending : k # 0 => k \in Preparations
BY HostAssumption, FS_CardinalityType DEF Preparations, Pending

LEMMA CountedSets ==
    ASSUME NEW r
    PROVE  /\ IsFiniteSet(Made(r)) /\ Cardinality(Made(r)) \in Nat
           /\ IsFiniteSet(Used(r)) /\ Cardinality(Used(r)) \in Nat
           /\ Cardinality(Used(r)) <= Cardinality(Steps)
<1>1. Made(r) \subseteq Preparations /\ Used(r) \subseteq Steps
  BY DEF Made, Used
<1>2. IsFiniteSet(Preparations)
  BY PreparationNumbers, FS_Interval DEF Preparations
<1> QED BY <1>1, <1>2, PreparationNumbers, FS_Subset, FS_CardinalityType

(* A run that a step does not touch. *)
SameRun(r) ==
    /\ pc'[r] = pc[r] /\ step'[r] = step[r] /\ uses'[r] = uses[r]
    /\ prepared'[r] = prepared[r] /\ execution'[r] = execution[r] /\ cleanup'[r] = cleanup[r]
    /\ waitsFor'[r] = waitsFor[r] /\ latest'[r] = latest[r] /\ ending'[r] = ending[r]
    /\ closing'[r] = closing[r]
    /\ r \in cancelled' => r \in cancelled \/ pc[r] # "idle"
    /\ r \in states' => r \in states

LEMMA SameRunFits ==
    ASSUME NEW r \in Runs, RunFits(r), SameRun(r), shut'.state = "open" => shut.state = "open"
    PROVE  RunFits(r)'
<1> USE DEF SameRun
<1>1. Numbered(r)'
  BY DEF RunFits, Numbered, Made, Used
<1>2. PhasesFit(r)'
  BY DEF RunFits, PhasesFit
<1>3. UsersFit(r)'
  BY DEF RunFits, UsersFit
<1>4. LatestFits(r)'
  BY DEF RunFits, LatestFits, InCleanup
<1>5. EndsFit(r)'
  BY DEF RunFits, EndsFit
<1> QED BY <1>1, <1>2, <1>3, <1>4, <1>5 DEF RunFits

(* What an execution of run r may become: one that is made stays so, and   *)
(* one that is over stays over.                                            *)
ExecutionsGoOn(r) ==
    \A k \in Preparations :
        execution[r][k] # "none" => execution'[r][k] # "none" /\ (Open(r, k)' => Open(r, k))

(* A step of one run, or of none. *)
LEMMA OneRunMoves ==
    ASSUME HostFits, NEW r \in Runs, HostTypeOK', shut' = shut,
           \A q \in Runs \ {r} : SameRun(q),
           RunFits(r)', ExecutionsGoOn(r)
    PROVE  HostFits'
<1>1. \A q \in Runs : RunFits(q)'
  <2> SUFFICES ASSUME NEW q \in Runs, q # r PROVE RunFits(q)'
    OBVIOUS
  <2>1. RunFits(q) /\ SameRun(q)
    BY DEF HostFits
  <2> QED BY <2>1, SameRunFits
<1>2. ASSUME NEW rk \in shut.found
      PROVE  /\ execution'[rk[1]][rk[2]] # "none"
             /\ Open(rk[1], rk[2])' => Open(rk[1], rk[2])
  <2>1. rk[1] \in Runs /\ rk[2] \in Preparations /\ execution[rk[1]][rk[2]] # "none"
    BY DEF HostFits, ShutFits
  <2>2. CASE rk[1] = r
    BY <2>1, <2>2 DEF ExecutionsGoOn
  <2>3. CASE rk[1] # r
    <3>1. execution'[rk[1]] = execution[rk[1]]
      BY <2>1, <2>3 DEF SameRun
    <3> QED BY <2>1, <3>1 DEF Open
  <2> QED BY <2>2, <2>3
<1>3. ShutFits'
  <2>1. \A rk \in shut'.found : LastFound(rk)' => LastFound(rk)
    BY DEF LastFound
  <2> QED BY <1>2, <2>1 DEF HostFits, ShutFits
<1> QED BY <1>1, <1>3 DEF HostFits

-----------------------------------------------------------------------------
(* The cleanup of the preparation that a run holds begins. *)

BeganCleanup(r) ==
    /\ prepared[r] # 0 /\ prepared'[r] = 0 /\ latest'[r] = prepared[r]
    /\ \A k \in Preparations :
          /\ cleanup'[r][k] = IF k = prepared[r] THEN "waiting" ELSE cleanup[r][k]
          /\ waitsFor'[r][k] = IF k = prepared[r] THEN Active(r) ELSE waitsFor[r][k]

KeptCleanup(r) ==
    /\ prepared'[r] = prepared[r] /\ latest'[r] = latest[r]
    /\ cleanup'[r] = cleanup[r] /\ waitsFor'[r] = waitsFor[r]

CleanupTypes ==
    /\ prepared' \in [Runs -> Pending] /\ latest' \in [Runs -> Pending]
    /\ cleanup' \in [Runs -> [Preparations -> {"none", "waiting", "closing", "done"}]]
    /\ waitsFor' \in [Runs -> [Preparations -> SUBSET Steps]]

LEMMA CloseRunsFacts ==
    ASSUME HostTypeOK, NEW runs \in SUBSET Runs, \A r \in runs : prepared[r] # 0, CloseRuns(runs)
    PROVE  /\ CleanupTypes
           /\ \A r \in runs : BeganCleanup(r)
           /\ \A r \in Runs \ runs : KeptCleanup(r)
<1>1. CleanupTypes
  <2>1. prepared' \in [Runs -> Pending]
    BY PreparationNumbers DEF CloseRuns, HostTypeOK
  <2>2. latest' \in [Runs -> Pending]
    BY DEF CloseRuns, HostTypeOK
  <2>3. cleanup' \in [Runs -> [Preparations -> {"none", "waiting", "closing", "done"}]]
    BY DEF CloseRuns, HostTypeOK
  <2>4. waitsFor' \in [Runs -> [Preparations -> SUBSET Steps]]
    BY DEF CloseRuns, HostTypeOK, Active
  <2> QED BY <2>1, <2>2, <2>3, <2>4 DEF CleanupTypes
<1>2. ASSUME NEW r \in runs PROVE BeganCleanup(r)
  BY DEF CloseRuns, BeganCleanup
<1>3. ASSUME NEW r \in Runs \ runs PROVE KeptCleanup(r)
  <2>1. prepared'[r] = prepared[r] /\ latest'[r] = latest[r]
    BY DEF CloseRuns
  <2>2. cleanup'[r] = cleanup[r]
    BY DEF CloseRuns, HostTypeOK
  <2>3. waitsFor'[r] = waitsFor[r]
    BY DEF CloseRuns, HostTypeOK
  <2> QED BY <2>1, <2>2, <2>3 DEF KeptCleanup
<1> QED BY <1>1, <1>2, <1>3

LEMMA BeganCleanupFits ==
    ASSUME HostTypeOK, NEW r \in Runs, RunFits(r), BeganCleanup(r),
           execution'[r] = execution[r], uses'[r] = uses[r],
           \A s \in Steps : step'[r][s] = "active" => step[r][s] = "active",
           Used(r) \subseteq Used(r)',
           shut'.state = "open" => latest[r] = 0 /\ shut.state = "open"
    PROVE  Numbered(r)' /\ PhasesFit(r)' /\ UsersFit(r)' /\ LatestFits(r)'
<1>1. prepared[r] \in Preparations /\ 0 \notin Preparations
  BY PreparationNumbers DEF HostTypeOK, BeganCleanup
<1>2. Numbered(r)'
  <2>1. Made(r)' = Made(r)
    BY DEF Made
  <2>2. Cardinality(Made(r)) <= Cardinality(Used(r)) /\ Made(r) = 1..Cardinality(Made(r))
    BY DEF RunFits, Numbered
  <2>3. Cardinality(Made(r)) \in Nat
    BY CountedSets
  <2>4. /\ Cardinality(Used(r)) \in Nat /\ Cardinality(Used(r)') \in Nat
        /\ Cardinality(Used(r)) <= Cardinality(Used(r)')
    <3>1. Used(r)' \subseteq Steps
      BY DEF Used
    <3> QED BY <3>1, CountedSets, PreparationNumbers, FS_Subset, FS_CardinalityType
  <2> QED BY <2>1, <2>2, <2>3, <2>4 DEF Numbered, BeganCleanup
<1>3. PhasesFit(r)'
  BY <1>1 DEF RunFits, PhasesFit, BeganCleanup
<1>4. UsersFit(r)'
  <2> SUFFICES ASSUME NEW s \in Steps, step'[r][s] = "active"
               PROVE  /\ uses'[r][s] # 0
                      /\ \/ uses'[r][s] = prepared'[r]
                         \/ /\ cleanup'[r][uses'[r][s]] = "waiting"
                            /\ s \in waitsFor'[r][uses'[r][s]]
    BY DEF UsersFit
  <2>1. step[r][s] = "active" /\ s \in Active(r)
    BY DEF Active
  <2>2. /\ uses[r][s] # 0
        /\ \/ uses[r][s] = prepared[r]
           \/ cleanup[r][uses[r][s]] = "waiting" /\ s \in waitsFor[r][uses[r][s]]
    BY <2>1 DEF RunFits, UsersFit
  <2>3. uses[r][s] \in Pending
    BY DEF HostTypeOK
  <2>4. uses[r][s] \in Preparations
    BY <2>2, <2>3, PreparationNumbers
  <2>5. uses'[r][s] = uses[r][s]
    OBVIOUS
  <2> QED BY <2>1, <2>2, <2>4, <2>5 DEF BeganCleanup
<1>5. LatestFits(r)'
  BY <1>1 DEF RunFits, LatestFits, InCleanup, BeganCleanup
<1> QED BY <1>2, <1>3, <1>4, <1>5

LEMMA KeptCleanupFits ==
    ASSUME HostTypeOK, NEW r \in Runs, RunFits(r), KeptCleanup(r),
           execution'[r] = execution[r], uses'[r] = uses[r],
           \A s \in Steps : step'[r][s] = "active" => step[r][s] = "active",
           Used(r) \subseteq Used(r)',
           shut'.state = "open" => shut.state = "open"
    PROVE  Numbered(r)' /\ PhasesFit(r)' /\ UsersFit(r)' /\ LatestFits(r)'
<1>1. Numbered(r)'
  <2>1. Made(r)' = Made(r)
    BY DEF Made
  <2>2. Cardinality(Made(r)) <= Cardinality(Used(r))
    BY DEF RunFits, Numbered
  <2>3. Cardinality(Made(r)) \in Nat
    BY CountedSets
  <2>4. /\ Cardinality(Used(r)) \in Nat /\ Cardinality(Used(r)') \in Nat
        /\ Cardinality(Used(r)) <= Cardinality(Used(r)')
    <3>1. Used(r)' \subseteq Steps
      BY DEF Used
    <3> QED BY <3>1, CountedSets, PreparationNumbers, FS_Subset, FS_CardinalityType
  <2> QED BY <2>1, <2>2, <2>3, <2>4 DEF Numbered, KeptCleanup, RunFits
<1>2. PhasesFit(r)'
  BY DEF RunFits, PhasesFit, KeptCleanup
<1>3. UsersFit(r)'
  BY DEF RunFits, UsersFit, KeptCleanup
<1>4. LatestFits(r)'
  BY DEF RunFits, LatestFits, InCleanup, KeptCleanup
<1> QED BY <1>1, <1>2, <1>3, <1>4

(* terminate: it begins the cleanup of what the run holds, or names the    *)
(* one that is under way, or drops the run state.                          *)
LEMMA TerminateFacts ==
    ASSUME HostTypeOK, NEW r \in Runs, Terminate(r)
    PROVE  /\ CleanupTypes /\ states' \subseteq Runs /\ Terminates(r) \in Pending
           /\ \A q \in Runs \ {r} : KeptCleanup(q) /\ (q \in states' => q \in states)
           /\ r \in states' => r \in states
           /\ \/ BeganCleanup(r) /\ Terminates(r) = latest'[r]
              \/ /\ KeptCleanup(r) /\ prepared[r] = 0 /\ Terminates(r) = latest[r]
                 /\ r \in states' => latest[r] # 0
<1>1. Terminates(r) \in Pending
  BY DEF Terminates, HostTypeOK
<1>2. CASE prepared[r] # 0
  <2>1. CloseRuns({r}) /\ states' = states
    BY <1>2 DEF Terminate
  <2>2. CleanupTypes /\ BeganCleanup(r) /\ \A q \in Runs \ {r} : KeptCleanup(q)
    BY <1>2, <2>1, CloseRunsFacts
  <2>3. Terminates(r) = latest'[r]
    BY <1>2, <2>2 DEF Terminates, BeganCleanup
  <2> QED BY <1>1, <2>1, <2>2, <2>3 DEF HostTypeOK
<1>3. CASE prepared[r] = 0
  <2>1. /\ UNCHANGED <<prepared, cleanup, waitsFor, latest>>
        /\ \/ latest[r] # 0 /\ states' = states
           \/ states' = states \ {r}
    BY <1>3 DEF Terminate, cleanupVars
  <2>2. \A q \in Runs : KeptCleanup(q)
    BY <2>1 DEF KeptCleanup
  <2>3. CleanupTypes
    BY <2>1 DEF CleanupTypes, HostTypeOK
  <2>4. Terminates(r) = latest[r]
    BY <1>3 DEF Terminates
  <2> QED BY <1>1, <1>3, <2>1, <2>2, <2>3, <2>4 DEF HostTypeOK
<1> QED BY <1>2, <1>3

LEMMA TerminateFits ==
    ASSUME HostTypeOK, NEW r \in Runs, RunFits(r), Terminate(r), shut' = shut,
           execution'[r] = execution[r], uses'[r] = uses[r],
           \A s \in Steps : step'[r][s] = "active" => step[r][s] = "active",
           Used(r) \subseteq Used(r)',
           shut.state = "open" => latest[r] = 0
    PROVE  /\ Numbered(r)' /\ PhasesFit(r)' /\ UsersFit(r)' /\ LatestFits(r)'
           /\ prepared'[r] = 0 /\ latest'[r] = Terminates(r)
           /\ r \in states' => r \in states /\ latest'[r] # 0
<1>1. /\ r \in states' => r \in states
      /\ \/ BeganCleanup(r) /\ Terminates(r) = latest'[r]
         \/ /\ KeptCleanup(r) /\ prepared[r] = 0 /\ Terminates(r) = latest[r]
            /\ r \in states' => latest[r] # 0
  BY TerminateFacts
<1>2. CASE BeganCleanup(r) /\ Terminates(r) = latest'[r]
  <2>1. Numbered(r)' /\ PhasesFit(r)' /\ UsersFit(r)' /\ LatestFits(r)'
    BY <1>2, BeganCleanupFits
  <2> QED BY <1>1, <1>2, <2>1 DEF BeganCleanup
<1>3. CASE /\ KeptCleanup(r) /\ prepared[r] = 0 /\ Terminates(r) = latest[r]
           /\ r \in states' => latest[r] # 0
  <2>1. Numbered(r)' /\ PhasesFit(r)' /\ UsersFit(r)' /\ LatestFits(r)'
    BY <1>3, KeptCleanupFits
  <2> QED BY <1>1, <1>3, <2>1 DEF KeptCleanup
<1> QED BY <1>1, <1>2, <1>3

(* cleanup of the instrumented run, once or again.                         *)
LEMMA CleanupFits ==
    ASSUME HostTypeOK, NEW r \in Runs, RunFits(r), Cleanup(r), shut' = shut,
           execution'[r] = execution[r], uses'[r] = uses[r],
           \A s \in Steps : step'[r][s] = "active" => step[r][s] = "active",
           Used(r) \subseteq Used(r)'
    PROVE  /\ Numbered(r)' /\ PhasesFit(r)' /\ UsersFit(r)' /\ LatestFits(r)'
           /\ CleanupTypes /\ states' \subseteq Runs /\ ending' \in [Runs -> SUBSET Pending]
           /\ \A q \in Runs \ {r} : /\ KeptCleanup(q) /\ ending'[q] = ending[q]
                                    /\ q \in states' => q \in states
           /\ ending'[r] # {} /\ (r \in states' => r \in states)
           /\ \/ ending[r] = {} /\ prepared'[r] = 0 /\ ending'[r] = {latest'[r]}
              \/ ending'[r] = ending[r] /\ KeptCleanup(r)
           /\ (ending[r] = {} /\ r \in states') => latest'[r] # 0
           /\ prepared[r] = 0 => KeptCleanup(r)
<1>1. CASE ending[r] = {}
  <2>1. Terminate(r) /\ ending' = [ending EXCEPT ![r] = {Terminates(r)}]
    BY <1>1 DEF Cleanup
  <2>2. shut.state = "open" => latest[r] = 0
    BY <1>1 DEF RunFits, EndsFit
  <2>3. /\ Numbered(r)' /\ PhasesFit(r)' /\ UsersFit(r)' /\ LatestFits(r)'
        /\ prepared'[r] = 0 /\ latest'[r] = Terminates(r)
        /\ r \in states' => r \in states /\ latest'[r] # 0
    BY <2>1, <2>2, TerminateFits
  <2>4. /\ CleanupTypes /\ states' \subseteq Runs /\ Terminates(r) \in Pending
        /\ \A q \in Runs \ {r} : KeptCleanup(q) /\ (q \in states' => q \in states)
        /\ prepared[r] = 0 => KeptCleanup(r)
    BY <2>1, TerminateFacts DEF BeganCleanup
  <2>5. /\ ending' \in [Runs -> SUBSET Pending] /\ ending'[r] = {Terminates(r)}
        /\ \A q \in Runs \ {r} : ending'[q] = ending[q]
    BY <2>1, <2>4 DEF HostTypeOK
  <2> QED BY <1>1, <2>3, <2>4, <2>5
<1>2. CASE ending[r] # {}
  <2>1. UNCHANGED <<cleanupVars, ending>>
    BY <1>2 DEF Cleanup
  <2>2. \A q \in Runs : KeptCleanup(q)
    BY <2>1 DEF KeptCleanup, cleanupVars
  <2>3. Numbered(r)' /\ PhasesFit(r)' /\ UsersFit(r)' /\ LatestFits(r)'
    BY <2>2, KeptCleanupFits
  <2>4. CleanupTypes /\ states' \subseteq Runs /\ ending' \in [Runs -> SUBSET Pending]
    BY <2>1 DEF CleanupTypes, HostTypeOK, cleanupVars
  <2> QED BY <1>2, <2>1, <2>2, <2>3, <2>4 DEF cleanupVars
<1> QED BY <1>1, <1>2

-----------------------------------------------------------------------------
(* Each action keeps what fits. *)

LEMMA AbortFits ==
    ASSUME HostFits, NEW c \in Calls, CallAborted(c)
    PROVE  HostFits'
<1>1. c \in Runs
  BY DEF Runs
<1>2. /\ UNCHANGED <<pc, step, uses, execution, cleanupVars, ending, closing, shut>>
      /\ cancelled' = cancelled \cup {d \in aborted' \ aborted : pc[d] \in {"running", "ended"}}
      /\ aborted' \subseteq aborted \cup {c}
  BY DEF CallAborted, HearAbort, CallerAbort, Deadline
<1>3. HostTypeOK'
  BY <1>1, <1>2 DEF HostFits, HostTypeOK, cleanupVars
<1>4. \A q \in Runs : SameRun(q)
  BY <1>2 DEF SameRun, cleanupVars
<1>5. RunFits(c)'
  BY <1>1, <1>2, <1>4, SameRunFits DEF HostFits
<1>6. ExecutionsGoOn(c)
  BY <1>2 DEF ExecutionsGoOn, Open
<1> QED BY <1>1, <1>2, <1>3, <1>4, <1>5, <1>6, OneRunMoves

LEMMA CancelDirectFits ==
    ASSUME HostFits, NEW d \in DirectRuns, CancelDirect(d)
    PROVE  HostFits'
<1>1. d \in Runs /\ pc[d] # "idle"
  BY DEF Runs, CancelDirect
<1>2. /\ UNCHANGED <<pc, step, uses, execution, cleanupVars, ending, closing, shut>>
      /\ cancelled' = cancelled \cup {d}
  BY DEF CancelDirect
<1>3. HostTypeOK'
  BY <1>1, <1>2 DEF HostFits, HostTypeOK, cleanupVars
<1>4. \A q \in Runs : SameRun(q)
  BY <1>1, <1>2 DEF SameRun, cleanupVars
<1>5. RunFits(d)'
  BY <1>1, <1>2, <1>4, SameRunFits DEF HostFits
<1>6. ExecutionsGoOn(d)
  BY <1>2 DEF ExecutionsGoOn, Open
<1> QED BY <1>1, <1>2, <1>3, <1>4, <1>5, <1>6, OneRunMoves

(* A run that begins has no preparation yet. *)
LEMMA BeginRunFits ==
    ASSUME HostFits, NEW r \in Runs, pc[r] = "idle", BeginRun(r),
           UNCHANGED <<cancelled, uses, execution, prepared, cleanup, waitsFor, latest,
                       ending, closing, shut>>
    PROVE  HostFits'
<1>1. /\ pc' \in [Runs -> {"idle", "running", "ended", "terminating", "over"}]
      /\ pc'[r] = "running" /\ \A q \in Runs \ {r} : pc'[q] = pc[q]
  BY DEF HostFits, HostTypeOK, BeginRun, MoveTo
<1>2. /\ step' \in [Runs -> [Steps -> {"idle", "begun", "active", "done"}]]
      /\ \A s \in Steps : step'[r][s] # "active"
      /\ \A q \in Runs \ {r} : step'[q] = step[q]
  BY DEF HostFits, HostTypeOK, BeginRun
<1>3. states' = states \cup {r}
  BY DEF BeginRun
<1>4. HostTypeOK'
  BY <1>1, <1>2, <1>3 DEF HostFits, HostTypeOK
<1>5. \A q \in Runs \ {r} : SameRun(q)
  BY <1>1, <1>2, <1>3 DEF SameRun
<1>6. ExecutionsGoOn(r)
  BY DEF ExecutionsGoOn, Open
<1>7. RunFits(r)'
  <2>1. RunFits(r) /\ \A k \in Preparations : execution[r][k] = "none"
    BY DEF HostFits, RunFits, EndsFit
  <2>2. Numbered(r)'
    <3>1. Made(r)' = {} /\ Made(r) = {}
      BY <2>1 DEF Made
    <3>2. Cardinality({}) = 0
      BY FS_EmptySet
    <3>3. Cardinality(Used(r)') \in Nat
      <4>1. Used(r)' \subseteq Steps
        BY DEF Used
      <4> QED BY <4>1, PreparationNumbers, FS_Subset, FS_CardinalityType
    <3>4. prepared[r] \in {0, Cardinality(Made(r))}
      BY <2>1 DEF RunFits, Numbered
    <3> QED BY <3>1, <3>2, <3>3, <3>4 DEF Numbered
  <2>3. PhasesFit(r)'
    BY <2>1 DEF RunFits, PhasesFit
  <2>4. UsersFit(r)'
    BY <1>2 DEF UsersFit
  <2>5. LatestFits(r)'
    BY <2>1 DEF RunFits, LatestFits, InCleanup
  <2>6. EndsFit(r)'
    BY <1>1, <2>1 DEF RunFits, EndsFit
  <2> QED BY <2>2, <2>3, <2>4, <2>5, <2>6 DEF RunFits
<1> QED BY <1>4, <1>5, <1>6, <1>7, OneRunMoves

LEMMA StartDirectFits ==
    ASSUME HostFits, NEW d \in DirectRuns, StartDirect(d)
    PROVE  HostFits'
BY BeginRunFits DEF StartDirect, Runs

(* Only the handler of the run moves. *)
LEMMA MoveFits ==
    ASSUME HostFits, NEW r \in Runs, NEW p \in {"terminating", "over"}, MoveTo(r, p),
           UNCHANGED <<cancelled, step, uses, execution, cleanupVars, ending, closing, shut>>,
           shut.state = "open" =>
              /\ p = "terminating" => /\ prepared[r] = 0 /\ latest[r] \in {0, closing[r]}
                                      /\ r \in states => latest[r] # 0
              /\ r \in Calls /\ p = "over" => prepared[r] = 0 /\ latest[r] = 0 /\ r \notin states
    PROVE  HostFits'
<1>1. /\ pc' \in [Runs -> {"idle", "running", "ended", "terminating", "over"}]
      /\ pc'[r] = p /\ \A q \in Runs \ {r} : pc'[q] = pc[q]
  BY DEF HostFits, HostTypeOK, MoveTo
<1>2. HostTypeOK'
  BY <1>1 DEF HostFits, HostTypeOK, cleanupVars
<1>3. \A q \in Runs \ {r} : SameRun(q)
  BY <1>1 DEF SameRun, cleanupVars
<1>4. ExecutionsGoOn(r)
  BY DEF ExecutionsGoOn, Open
<1>5. RunFits(r)'
  <2>1. RunFits(r) /\ HostTypeOK /\ KeptCleanup(r)
    BY DEF HostFits, KeptCleanup, cleanupVars
  <2>2. Numbered(r)' /\ PhasesFit(r)' /\ UsersFit(r)' /\ LatestFits(r)'
    BY <2>1, KeptCleanupFits DEF Used
  <2>3. EndsFit(r)'
    BY <1>1, <2>1 DEF RunFits, EndsFit, cleanupVars
  <2> QED BY <2>2, <2>3 DEF RunFits
<1> QED BY <1>2, <1>3, <1>4, <1>5, OneRunMoves

LEMMA DirectReturnsFits ==
    ASSUME HostFits, NEW d \in DirectRuns, DirectReturns(d)
    PROVE  HostFits'
<1>1. d \in Runs /\ d \notin Calls
  BY HostAssumption DEF Runs
<1> QED BY <1>1, MoveFits DEF DirectReturns

(* When what the handler waits for is over, no cleanup of the run is left. *)
LEMMA HandlerReturnsFits ==
    ASSUME HostFits, NEW c \in Calls, HandlerReturns(c)
    PROVE  HostFits'
<1>1. c \in Runs /\ RunFits(c)
  BY DEF Runs, HostFits
<1>2. shut.state = "open" => prepared[c] = 0 /\ latest[c] = 0 /\ c \notin states
  <2>1. pc[c] = "terminating" /\ (closing[c] # 0 => cleanup[c][closing[c]] = "done")
    BY DEF HandlerReturns, CleanedUp
  <2> QED BY <1>1, <2>1 DEF RunFits, EndsFit, LatestFits, InCleanup
<1> QED BY <1>1, <1>2, MoveFits DEF HandlerReturns

(* The handler terminates the run, before it was started or after its end. *)
LEMMA HandlerTerminatesFits ==
    ASSUME HostFits, NEW c \in Calls, pc[c] \in {"idle", "ended"},
           MoveTo(c, "terminating"), Terminate(c), closing' = [closing EXCEPT ![c] = Terminates(c)],
           cancelled' \in {cancelled, cancelled \cup {c}},
           UNCHANGED <<step, uses, execution, ending, shut>>,
           shut.state = "open" => latest[c] = 0
    PROVE  HostFits'
<1>1. c \in Runs /\ RunFits(c) /\ HostTypeOK
  BY DEF Runs, HostFits
<1>2. /\ pc' \in [Runs -> {"idle", "running", "ended", "terminating", "over"}]
      /\ pc'[c] = "terminating" /\ \A q \in Runs \ {c} : pc'[q] = pc[q]
  BY <1>1 DEF HostTypeOK, MoveTo
<1>3. /\ Numbered(c)' /\ PhasesFit(c)' /\ UsersFit(c)' /\ LatestFits(c)'
      /\ prepared'[c] = 0 /\ latest'[c] = Terminates(c)
      /\ c \in states' => c \in states /\ latest'[c] # 0
  BY <1>1, TerminateFits DEF Used
<1>4. /\ CleanupTypes /\ states' \subseteq Runs /\ Terminates(c) \in Pending
      /\ \A q \in Runs \ {c} : KeptCleanup(q) /\ (q \in states' => q \in states)
  BY <1>1, TerminateFacts
<1>5. /\ closing' \in [Runs -> Pending] /\ closing'[c] = Terminates(c)
      /\ \A q \in Runs \ {c} : closing'[q] = closing[q]
  BY <1>1, <1>4 DEF HostTypeOK
<1>6. HostTypeOK'
  BY <1>1, <1>2, <1>4, <1>5 DEF HostTypeOK, CleanupTypes
<1>7. \A q \in Runs \ {c} : SameRun(q)
  BY <1>2, <1>4, <1>5 DEF SameRun, KeptCleanup
<1>8. EndsFit(c)'
  <2>1. ending'[c] = {} /\ shut.state = "open" => latest'[c] = 0
    <3>1. ending[c] = {} => pc[c] = "idle"
      BY <1>1 DEF RunFits, EndsFit
    <3>2. pc[c] = "idle" => prepared[c] = 0 /\ latest[c] = 0
      BY <1>1 DEF RunFits, EndsFit
    <3> QED BY <1>3, <3>1, <3>2 DEF Terminates
  <2> QED BY <1>2, <1>3, <1>5, <2>1 DEF EndsFit
<1>9. RunFits(c)'
  BY <1>3, <1>8 DEF RunFits
<1>10. ExecutionsGoOn(c)
  BY DEF ExecutionsGoOn, Open
<1> QED BY <1>1, <1>6, <1>7, <1>9, <1>10, OneRunMoves

LEMMA HandlerEndsFits ==
    ASSUME HostFits, NEW c \in Calls, HandlerEnds(c)
    PROVE  HostFits'
<1>1. c \in Runs /\ RunFits(c)
  BY DEF Runs, HostFits
<1>2. shut.state = "open" => latest[c] = 0
  <2>1. shut.state = "open" => latest[c] \in ending[c] \cup {0}
    BY <1>1 DEF RunFits, EndsFit, HandlerEnds
  <2>2. latest[c] \in ending[c] => latest[c] = 0
    BY <1>1 DEF RunFits, LatestFits, InCleanup, HandlerEnds, CleanupReturned, CleanedUp
  <2> QED BY <2>1, <2>2
<1> QED BY <1>2, HandlerTerminatesFits DEF HandlerEnds

LEMMA CreateRunFits ==
    ASSUME HostFits, NEW c \in Calls, CreateRun(c)
    PROVE  HostFits'
<1>1. c \in Runs /\ RunFits(c) /\ pc[c] = "idle"
  BY DEF Runs, HostFits, CreateRun
<1>2. prepared[c] = 0 /\ latest[c] = 0 /\ c \notin states
  BY <1>1 DEF RunFits, EndsFit
<1>3. CASE MoveTo(c, "over") /\ UNCHANGED <<cancelled, step, states, closing, cleanupVars>>
  BY <1>1, <1>2, <1>3, MoveFits DEF CreateRun
<1>4. CASE /\ BeginRun(c)
           /\ UNCHANGED <<dispatcherVars, cancelled, closing, prepared, cleanup, waitsFor, latest>>
  BY <1>1, <1>4, BeginRunFits DEF CreateRun
<1>5. CASE /\ cancelled' = cancelled \cup {c} /\ MoveTo(c, "terminating")
           /\ Terminate(c) /\ closing' = [closing EXCEPT ![c] = Terminates(c)]
           /\ UNCHANGED <<dispatcherVars, step>>
  BY <1>1, <1>2, <1>5, HandlerTerminatesFits DEF CreateRun
<1> QED BY <1>3, <1>4, <1>5 DEF CreateRun

LEMMA CancelReturnsFits ==
    ASSUME HostFits, NEW r \in Runs, CancelReturns(r)
    PROVE  HostFits'
<1>1. RunFits(r) /\ HostTypeOK /\ pc[r] # "idle" /\ ending[r] = {}
  BY DEF HostFits, RunFits, EndsFit, CancelReturns
<1>2. Cleanup(r) /\ UNCHANGED <<pc, cancelled, step, uses, execution, closing, shut>>
  BY DEF CancelReturns
<1>3. /\ Numbered(r)' /\ PhasesFit(r)' /\ UsersFit(r)' /\ LatestFits(r)'
      /\ CleanupTypes /\ states' \subseteq Runs /\ ending' \in [Runs -> SUBSET Pending]
      /\ \A q \in Runs \ {r} : /\ KeptCleanup(q) /\ ending'[q] = ending[q]
                               /\ q \in states' => q \in states
      /\ ending'[r] # {} /\ (r \in states' => r \in states)
      /\ \/ ending[r] = {} /\ prepared'[r] = 0 /\ ending'[r] = {latest'[r]}
         \/ ending'[r] = ending[r] /\ KeptCleanup(r)
      /\ (ending[r] = {} /\ r \in states') => latest'[r] # 0
      /\ prepared[r] = 0 => KeptCleanup(r)
  BY <1>1, <1>2, CleanupFits DEF Used
<1>4. HostTypeOK'
  BY <1>1, <1>2, <1>3 DEF HostTypeOK, CleanupTypes
<1>5. \A q \in Runs \ {r} : SameRun(q)
  BY <1>2, <1>3 DEF SameRun, KeptCleanup
<1>6. EndsFit(r)'
  <2>1. prepared[r] = 0 => prepared'[r] = 0 /\ latest'[r] = latest[r]
    BY <1>3 DEF KeptCleanup
  <2> QED BY <1>1, <1>2, <1>3, <2>1 DEF RunFits, EndsFit
<1>7. RunFits(r)'
  BY <1>3, <1>6 DEF RunFits
<1>8. ExecutionsGoOn(r)
  BY <1>2 DEF ExecutionsGoOn, Open
<1> QED BY <1>2, <1>4, <1>5, <1>7, <1>8, OneRunMoves

LEMMA RunEndsFits ==
    ASSUME HostFits, NEW r \in Runs, RunEnds(r)
    PROVE  HostFits'
<1>1. RunFits(r) /\ HostTypeOK /\ pc[r] = "running"
  BY DEF HostFits, RunEnds
<1>2. /\ Cleanup(r) /\ UNCHANGED <<cancelled, uses, execution, closing, shut>>
      /\ MoveTo(r, "ended") /\ step' = [step EXCEPT ![r] = [s \in Steps |-> "done"]]
  BY DEF RunEnds
<1>3. /\ pc' \in [Runs -> {"idle", "running", "ended", "terminating", "over"}]
      /\ pc'[r] = "ended" /\ \A q \in Runs \ {r} : pc'[q] = pc[q]
  BY <1>1, <1>2 DEF HostTypeOK, MoveTo
<1>4. /\ step' \in [Runs -> [Steps -> {"idle", "begun", "active", "done"}]]
      /\ \A s \in Steps : step'[r][s] = "done"
      /\ \A q \in Runs \ {r} : step'[q] = step[q]
  BY <1>1, <1>2 DEF HostTypeOK
<1>5. Used(r) \subseteq Used(r)'
  BY <1>4 DEF Used
<1>6. /\ Numbered(r)' /\ PhasesFit(r)' /\ UsersFit(r)' /\ LatestFits(r)'
      /\ CleanupTypes /\ states' \subseteq Runs /\ ending' \in [Runs -> SUBSET Pending]
      /\ \A q \in Runs \ {r} : /\ KeptCleanup(q) /\ ending'[q] = ending[q]
                               /\ q \in states' => q \in states
      /\ ending'[r] # {} /\ (r \in states' => r \in states)
      /\ \/ ending[r] = {} /\ prepared'[r] = 0 /\ ending'[r] = {latest'[r]}
         \/ ending'[r] = ending[r] /\ KeptCleanup(r)
      /\ (ending[r] = {} /\ r \in states') => latest'[r] # 0
      /\ prepared[r] = 0 => KeptCleanup(r)
  BY <1>1, <1>2, <1>4, <1>5, CleanupFits
<1>7. HostTypeOK'
  BY <1>1, <1>2, <1>3, <1>4, <1>6 DEF HostTypeOK, CleanupTypes
<1>8. \A q \in Runs \ {r} : SameRun(q)
  BY <1>2, <1>3, <1>4, <1>6 DEF SameRun, KeptCleanup
<1>9. EndsFit(r)'
  BY <1>1, <1>2, <1>3, <1>6 DEF RunFits, EndsFit, KeptCleanup
<1>10. RunFits(r)'
  BY <1>6, <1>9 DEF RunFits
<1>11. ExecutionsGoOn(r)
  BY <1>2 DEF ExecutionsGoOn, Open
<1> QED BY <1>2, <1>7, <1>8, <1>10, <1>11, OneRunMoves

LEMMA InvocationEndsFits ==
    ASSUME HostFits, NEW r \in Runs, NEW s \in Steps, InvocationEnds(r, s)
    PROVE  HostFits'
<1>1. RunFits(r) /\ HostTypeOK /\ KeptCleanup(r)
  BY DEF HostFits, InvocationEnds, KeptCleanup, cleanupVars
<1>2. UNCHANGED <<pc, cancelled, uses, execution, cleanupVars, ending, closing, shut>>
  BY DEF InvocationEnds
<1>3. /\ step' \in [Runs -> [Steps -> {"idle", "begun", "active", "done"}]]
      /\ \A t \in Steps : step'[r][t] = IF t = s THEN "done" ELSE step[r][t]
      /\ \A q \in Runs \ {r} : step'[q] = step[q]
  BY <1>1 DEF HostTypeOK, InvocationEnds
<1>4. HostTypeOK'
  BY <1>1, <1>2, <1>3 DEF HostTypeOK, cleanupVars
<1>5. \A q \in Runs \ {r} : SameRun(q)
  BY <1>2, <1>3 DEF SameRun, cleanupVars
<1>6. Used(r) \subseteq Used(r)'
  BY <1>3 DEF Used
<1>7. Numbered(r)' /\ PhasesFit(r)' /\ UsersFit(r)' /\ LatestFits(r)'
  BY <1>1, <1>2, <1>3, <1>6, KeptCleanupFits
<1>8. EndsFit(r)'
  BY <1>1, <1>2 DEF RunFits, EndsFit, cleanupVars
<1>9. RunFits(r)'
  BY <1>7, <1>8 DEF RunFits
<1>10. ExecutionsGoOn(r)
  BY <1>2 DEF ExecutionsGoOn, Open
<1> QED BY <1>2, <1>4, <1>5, <1>9, <1>10, OneRunMoves

LEMMA PrepareFits ==
    ASSUME HostFits, NEW r \in Runs, NEW k \in Preparations, Prepare(r, k)
    PROVE  HostFits'
<1>1. RunFits(r) /\ HostTypeOK /\ execution[r][k] = "preparing"
  BY DEF HostFits, Prepare
<1>2. UNCHANGED <<pc, cancelled, step, uses, cleanupVars, ending, closing, shut>>
  BY DEF Prepare
<1>3. PICK result \in {"ready", "failed"} : execution' = [execution EXCEPT ![r][k] = result]
  BY DEF Prepare
<1>4. /\ execution' \in [Runs -> [Preparations -> {"none", "preparing", "ready", "failed",
                                                   "closing", "closed"}]]
      /\ \A j \in Preparations : execution'[r][j] = IF j = k THEN result ELSE execution[r][j]
      /\ \A q \in Runs \ {r} : execution'[q] = execution[q]
  BY <1>1, <1>3 DEF HostTypeOK
<1>5. HostTypeOK'
  BY <1>1, <1>2, <1>4 DEF HostTypeOK, cleanupVars
<1>6. \A q \in Runs \ {r} : SameRun(q)
  BY <1>2, <1>4 DEF SameRun, cleanupVars
<1>7. Numbered(r)'
  <2>1. Made(r)' = Made(r)
    BY <1>1, <1>4 DEF Made
  <2>2. Used(r)' = Used(r)
    BY <1>2 DEF Used
  <2> QED BY <1>1, <1>2, <2>1, <2>2 DEF RunFits, Numbered, cleanupVars
<1>8. PhasesFit(r)'
  BY <1>1, <1>2, <1>4 DEF RunFits, PhasesFit, cleanupVars
<1>9. UsersFit(r)'
  BY <1>1, <1>2 DEF RunFits, UsersFit, cleanupVars
<1>10. LatestFits(r)'
  BY <1>1, <1>2 DEF RunFits, LatestFits, InCleanup, cleanupVars
<1>11. EndsFit(r)'
  BY <1>1, <1>2 DEF RunFits, EndsFit, cleanupVars
<1>12. RunFits(r)'
  BY <1>7, <1>8, <1>9, <1>10, <1>11 DEF RunFits
<1>13. ExecutionsGoOn(r)
  BY <1>1, <1>4 DEF ExecutionsGoOn, Open
<1> QED BY <1>2, <1>5, <1>6, <1>12, <1>13, OneRunMoves

(* Nobody uses what a cleanup begins to close. *)
LEMMA BeginCloseFits ==
    ASSUME HostFits, NEW r \in Runs, NEW k \in Preparations, BeginClose(r, k)
    PROVE  HostFits'
<1>1. /\ RunFits(r) /\ HostTypeOK /\ cleanup[r][k] = "waiting" /\ execution[r][k] # "preparing"
      /\ \A s \in waitsFor[r][k] : step[r][s] = "done"
  BY DEF HostFits, BeginClose
<1>2. UNCHANGED <<pc, cancelled, step, uses, prepared, waitsFor, latest, ending, closing, states, shut>>
  BY DEF BeginClose
<1>3. /\ execution' \in [Runs -> [Preparations -> {"none", "preparing", "ready", "failed",
                                                   "closing", "closed"}]]
      /\ \A j \in Preparations :
            execution'[r][j] = IF j = k /\ execution[r][k] = "ready" THEN "closing"
                               ELSE execution[r][j]
      /\ \A q \in Runs \ {r} : execution'[q] = execution[q]
  BY <1>1 DEF HostTypeOK, BeginClose
<1>4. /\ cleanup' \in [Runs -> [Preparations -> {"none", "waiting", "closing", "done"}]]
      /\ \A j \in Preparations : cleanup'[r][j] = IF j = k THEN "closing" ELSE cleanup[r][j]
      /\ \A q \in Runs \ {r} : cleanup'[q] = cleanup[q]
  BY <1>1 DEF HostTypeOK, BeginClose
<1>5. HostTypeOK'
  BY <1>1, <1>2, <1>3, <1>4 DEF HostTypeOK
<1>6. \A q \in Runs \ {r} : SameRun(q)
  BY <1>2, <1>3, <1>4 DEF SameRun
<1>7. Numbered(r)'
  <2>1. Made(r)' = Made(r)
    BY <1>1, <1>3 DEF Made
  <2>2. Used(r)' = Used(r)
    BY <1>2 DEF Used
  <2> QED BY <1>1, <1>2, <2>1, <2>2 DEF RunFits, Numbered
<1>8. PhasesFit(r)'
  BY <1>1, <1>2, <1>3, <1>4 DEF RunFits, PhasesFit
<1>9. UsersFit(r)'
  <2> SUFFICES ASSUME NEW s \in Steps, step[r][s] = "active"
               PROVE  /\ uses[r][s] # 0
                      /\ \/ uses[r][s] = prepared[r]
                         \/ /\ cleanup'[r][uses[r][s]] = "waiting"
                            /\ s \in waitsFor[r][uses[r][s]]
    BY <1>2 DEF UsersFit
  <2>1. /\ uses[r][s] # 0
        /\ \/ uses[r][s] = prepared[r]
           \/ cleanup[r][uses[r][s]] = "waiting" /\ s \in waitsFor[r][uses[r][s]]
    BY <1>1 DEF RunFits, UsersFit
  <2>2. uses[r][s] \in Pending
    BY <1>1 DEF HostTypeOK
  <2>3. uses[r][s] \in Preparations
    BY <2>1, <2>2, PreparationNumbers
  <2>4. s \in waitsFor[r][uses[r][s]] => uses[r][s] # k
    BY <1>1
  <2> QED BY <1>4, <2>1, <2>3, <2>4
<1>10. LatestFits(r)'
  <2>1. latest[r] # 0 => latest[r] \in Preparations
    BY <1>1, PreparationNumbers DEF HostTypeOK
  <2> QED BY <1>1, <1>2, <1>4, <2>1 DEF RunFits, LatestFits, InCleanup
<1>11. EndsFit(r)'
  <2>1. execution[r][k] # "none"
    BY <1>1 DEF RunFits, PhasesFit
  <2> QED BY <1>1, <1>2, <1>3, <2>1 DEF RunFits, EndsFit
<1>12. RunFits(r)'
  BY <1>7, <1>8, <1>9, <1>10, <1>11 DEF RunFits
<1>13. ExecutionsGoOn(r)
  BY <1>1, <1>3 DEF ExecutionsGoOn, Open
<1> QED BY <1>2, <1>5, <1>6, <1>12, <1>13, OneRunMoves

LEMMA EndCloseFits ==
    ASSUME HostFits, NEW r \in Runs, NEW k \in Preparations, EndClose(r, k)
    PROVE  HostFits'
<1>1. RunFits(r) /\ HostTypeOK /\ cleanup[r][k] = "closing"
  BY DEF HostFits, EndClose
<1>2. /\ UNCHANGED <<pc, cancelled, step, uses, prepared, waitsFor, ending, closing, shut>>
      /\ states' = states \ {r}
  BY DEF EndClose
<1>3. /\ execution' \in [Runs -> [Preparations -> {"none", "preparing", "ready", "failed",
                                                   "closing", "closed"}]]
      /\ \A j \in Preparations :
            execution'[r][j] = IF j = k /\ execution[r][k] = "closing" THEN "closed"
                               ELSE execution[r][j]
      /\ \A q \in Runs \ {r} : execution'[q] = execution[q]
  BY <1>1 DEF HostTypeOK, EndClose
<1>4. /\ cleanup' \in [Runs -> [Preparations -> {"none", "waiting", "closing", "done"}]]
      /\ \A j \in Preparations : cleanup'[r][j] = IF j = k THEN "done" ELSE cleanup[r][j]
      /\ \A q \in Runs \ {r} : cleanup'[q] = cleanup[q]
  BY <1>1 DEF HostTypeOK, EndClose
<1>5. /\ latest' \in [Runs -> Pending]
      /\ latest'[r] = IF latest[r] = k THEN 0 ELSE latest[r]
      /\ \A q \in Runs \ {r} : latest'[q] = latest[q]
  BY <1>1, PreparationNumbers DEF HostTypeOK, EndClose
<1>6. HostTypeOK'
  BY <1>1, <1>2, <1>3, <1>4, <1>5 DEF HostTypeOK
<1>7. \A q \in Runs \ {r} : SameRun(q)
  BY <1>2, <1>3, <1>4, <1>5 DEF SameRun
<1>8. Numbered(r)'
  <2>1. Made(r)' = Made(r)
    BY <1>1, <1>3 DEF Made
  <2>2. Used(r)' = Used(r)
    BY <1>2 DEF Used
  <2> QED BY <1>1, <1>2, <2>1, <2>2 DEF RunFits, Numbered
<1>9. PhasesFit(r)'
  BY <1>1, <1>2, <1>3, <1>4 DEF RunFits, PhasesFit
<1>10. UsersFit(r)'
  <2> SUFFICES ASSUME NEW s \in Steps, step[r][s] = "active"
               PROVE  /\ uses[r][s] # 0
                      /\ \/ uses[r][s] = prepared[r]
                         \/ /\ cleanup'[r][uses[r][s]] = "waiting"
                            /\ s \in waitsFor[r][uses[r][s]]
    BY <1>2 DEF UsersFit
  <2>1. /\ uses[r][s] # 0
        /\ \/ uses[r][s] = prepared[r]
           \/ cleanup[r][uses[r][s]] = "waiting" /\ s \in waitsFor[r][uses[r][s]]
    BY <1>1 DEF RunFits, UsersFit
  <2>2. uses[r][s] \in Pending
    BY <1>1 DEF HostTypeOK
  <2>3. uses[r][s] \in Preparations
    BY <2>1, <2>2, PreparationNumbers
  <2> QED BY <1>1, <1>4, <2>1, <2>3
<1>11. LatestFits(r)'
  <2>1. latest[r] # 0 => latest[r] \in Preparations
    BY <1>1, PreparationNumbers DEF HostTypeOK
  <2> QED BY <1>1, <1>2, <1>4, <1>5, <2>1 DEF RunFits, LatestFits, InCleanup
<1>12. EndsFit(r)'
  <2>1. execution[r][k] # "none"
    BY <1>1 DEF RunFits, PhasesFit
  <2> QED BY <1>1, <1>2, <1>3, <1>5, <2>1 DEF RunFits, EndsFit
<1>13. RunFits(r)'
  BY <1>8, <1>9, <1>10, <1>11, <1>12 DEF RunFits
<1>14. ExecutionsGoOn(r)
  BY <1>1, <1>3 DEF ExecutionsGoOn, Open
<1> QED BY <1>2, <1>6, <1>7, <1>13, <1>14, OneRunMoves

(* An invocation joins what the run holds, or makes the next preparation:  *)
(* there is a number left, since no step is invoked twice.                 *)
LEMMA InvokeFits ==
    ASSUME HostFits, NEW r \in Runs, NEW s \in Steps, Invoke(r, s)
    PROVE  HostFits'
<1> DEFINE m == Cardinality(Made(r))
           k == IF prepared[r] # 0 THEN prepared[r] ELSE m + 1
<1>1. RunFits(r) /\ HostTypeOK /\ step[r][s] = "begun" /\ pc[r] = "running"
  BY DEF HostFits, Invoke
<1>2. /\ UNCHANGED <<pc, cancelled, cleanup, waitsFor, latest, ending, closing, shut>>
      /\ states' = states \cup {r}
  BY DEF Invoke
<1>3. /\ prepared' = [prepared EXCEPT ![r] = k]
      /\ uses' = [uses EXCEPT ![r][s] = k]
      /\ execution' = [execution EXCEPT ![r][k] = IF @ = "none" THEN "preparing" ELSE @]
      /\ step' = [step EXCEPT ![r][s] = "active"]
  <2> DEFINE made == {j \in Preparations : execution[r][j] # "none"}
  <2>1. Made(r) = made
    BY DEF Made
  <2>2. 1 + Cardinality(made) = m + 1
    <3>1. Cardinality(Made(r)) \in Nat
      BY CountedSets
    <3> QED BY <2>1, <3>1
  <2> DEFINE j == IF prepared[r] # 0 THEN prepared[r] ELSE 1 + Cardinality(made)
  <2>3. /\ prepared' = [prepared EXCEPT ![r] = j]
        /\ uses' = [uses EXCEPT ![r][s] = j]
        /\ execution' = [execution EXCEPT ![r][j] = IF @ = "none" THEN "preparing" ELSE @]
    BY DEF Invoke
  <2>4. step' = [step EXCEPT ![r][s] = "active"]
    BY DEF Invoke
  <2>5. j = k
    BY <2>2
  <2> HIDE DEF made, m, j, k
  <2> QED BY <2>3, <2>4, <2>5
<1>4. /\ m \in Nat /\ Made(r) = 1..m /\ prepared[r] \in {0, m}
      /\ Cardinality(Used(r)) \in Nat /\ m <= Cardinality(Used(r)) /\ IsFiniteSet(Used(r))
      /\ IsFiniteSet(Made(r))
  BY <1>1, CountedSets DEF RunFits, Numbered
<1>5. /\ step' \in [Runs -> [Steps -> {"idle", "begun", "active", "done"}]]
      /\ \A t \in Steps : step'[r][t] = IF t = s THEN "active" ELSE step[r][t]
      /\ \A q \in Runs \ {r} : step'[q] = step[q]
  BY <1>1, <1>3 DEF HostTypeOK
<1>6. /\ Used(r)' = Used(r) \cup {s} /\ s \notin Used(r)
      /\ Cardinality(Used(r)') = Cardinality(Used(r)) + 1
      /\ Cardinality(Used(r)') <= Cardinality(Steps)
  <2>1. Used(r)' = Used(r) \cup {s} /\ s \notin Used(r) /\ Used(r)' \subseteq Steps
    BY <1>1, <1>5 DEF Used
  <2> QED BY <1>4, <2>1, FS_AddElement, FS_Subset, PreparationNumbers
<1>7. m + 1 <= Cardinality(Steps) /\ Cardinality(Steps) \in Nat
  BY <1>4, <1>6, PreparationNumbers
<1>8. /\ k \in Preparations /\ k # 0 /\ k \in Pending
      /\ prepared[r] = 0 => k = m + 1 /\ execution[r][k] = "none" /\ cleanup[r][k] = "none"
      /\ prepared[r] # 0 => k = prepared[r] /\ execution[r][k] # "none"
  <2>1. CASE prepared[r] = 0
    <3>1. k = m + 1 /\ k \in Preparations
      BY <1>4, <1>7, <2>1 DEF Preparations
    <3>2. execution[r][k] = "none"
      <4>1. k \notin Made(r)
        BY <1>4, <3>1
      <4> QED BY <3>1, <4>1 DEF Made
    <3>3. cleanup[r][k] = "none"
      BY <1>1, <3>1, <3>2 DEF RunFits, PhasesFit, HostTypeOK
    <3> QED BY <2>1, <3>1, <3>2, <3>3, PreparationNumbers
  <2>2. CASE prepared[r] # 0
    <3>1. k = prepared[r] /\ k \in Preparations
      BY <1>1, <2>2, PreparationNumbers DEF HostTypeOK
    <3>2. execution[r][k] # "none"
      BY <1>1, <3>1 DEF RunFits, PhasesFit
    <3> QED BY <2>2, <3>1, <3>2, PreparationNumbers
  <2> QED BY <2>1, <2>2
<1> HIDE DEF k
<1>9. /\ execution' \in [Runs -> [Preparations -> {"none", "preparing", "ready", "failed",
                                                   "closing", "closed"}]]
      /\ \A j \in Preparations :
            execution'[r][j] = IF j = k /\ execution[r][k] = "none" THEN "preparing"
                               ELSE execution[r][j]
      /\ \A q \in Runs \ {r} : execution'[q] = execution[q]
  BY <1>1, <1>3, <1>8 DEF HostTypeOK
<1>10. /\ prepared' \in [Runs -> Pending] /\ prepared'[r] = k
       /\ \A q \in Runs \ {r} : prepared'[q] = prepared[q]
  BY <1>1, <1>3, <1>8 DEF HostTypeOK
<1>11. /\ uses' \in [Runs -> [Steps -> Pending]]
       /\ \A t \in Steps : uses'[r][t] = IF t = s THEN k ELSE uses[r][t]
       /\ \A q \in Runs \ {r} : uses'[q] = uses[q]
  BY <1>1, <1>3, <1>8 DEF HostTypeOK
<1>12. HostTypeOK'
  BY <1>1, <1>2, <1>5, <1>9, <1>10, <1>11 DEF HostTypeOK
<1>13. \A q \in Runs \ {r} : SameRun(q)
  BY <1>2, <1>5, <1>9, <1>10, <1>11 DEF SameRun
<1>14. Numbered(r)'
  <2>1. CASE prepared[r] # 0
    <3>1. Made(r)' = Made(r)
      BY <1>8, <1>9, <2>1 DEF Made
    <3> QED BY <1>4, <1>6, <1>8, <1>10, <2>1, <3>1 DEF Numbered
  <2>2. CASE prepared[r] = 0
    <3>1. Made(r)' = Made(r) \cup {m + 1} /\ m + 1 \notin Made(r)
      BY <1>4, <1>8, <1>9, <2>2 DEF Made
    <3>2. Cardinality(Made(r)') = m + 1
      BY <1>4, <3>1, FS_AddElement
    <3>3. Made(r)' = 1..(m + 1)
      BY <1>4, <3>1
    <3> QED BY <1>4, <1>6, <1>8, <1>10, <2>2, <3>2, <3>3 DEF Numbered
  <2> QED BY <2>1, <2>2
<1>15. PhasesFit(r)'
  <2>1. CASE prepared[r] # 0
    BY <1>1, <1>2, <1>8, <1>9, <1>10, <2>1 DEF RunFits, PhasesFit
  <2>2. CASE prepared[r] = 0
    <3>1. /\ execution[r][k] = "none" /\ cleanup[r][k] = "none" /\ prepared'[r] = k
          /\ cleanup' = cleanup /\ execution'[r][k] = "preparing"
          /\ \A j \in Preparations : j # k => execution'[r][j] = execution[r][j]
      BY <1>2, <1>8, <1>9, <1>10, <2>2
    <3>2. \A j \in Preparations : j # prepared[r]
      BY <2>2, PreparationNumbers
    <3>3. PhasesFit(r)
      BY <1>1 DEF RunFits
    <3> QED BY <3>1, <3>2, <3>3 DEF PhasesFit
  <2> QED BY <2>1, <2>2
<1>16. UsersFit(r)'
  <2> SUFFICES ASSUME NEW t \in Steps, step'[r][t] = "active"
               PROVE  /\ uses'[r][t] # 0
                      /\ \/ uses'[r][t] = prepared'[r]
                         \/ /\ cleanup[r][uses'[r][t]] = "waiting"
                            /\ t \in waitsFor[r][uses'[r][t]]
    BY <1>2 DEF UsersFit
  <2>1. CASE t = s
    BY <1>8, <1>10, <1>11, <2>1
  <2>2. CASE t # s
    <3>1. step[r][t] = "active" /\ uses'[r][t] = uses[r][t]
      BY <1>5, <1>11, <2>2
    <3>2. /\ uses[r][t] # 0
          /\ \/ uses[r][t] = prepared[r]
             \/ cleanup[r][uses[r][t]] = "waiting" /\ t \in waitsFor[r][uses[r][t]]
      BY <1>1, <3>1 DEF RunFits, UsersFit
    <3> QED BY <1>8, <1>10, <3>1, <3>2
  <2> QED BY <2>1, <2>2
<1>17. LatestFits(r)'
  BY <1>1, <1>2 DEF RunFits, LatestFits, InCleanup
<1>18. EndsFit(r)'
  BY <1>1, <1>2 DEF RunFits, EndsFit
<1>19. RunFits(r)'
  BY <1>14, <1>15, <1>16, <1>17, <1>18 DEF RunFits
<1>20. ExecutionsGoOn(r)
  BY <1>8, <1>9 DEF ExecutionsGoOn, Open
<1> QED BY <1>2, <1>12, <1>13, <1>19, <1>20, OneRunMoves

-----------------------------------------------------------------------------
(* The shutdown. *)

(* The last execution of a run that it finds is closed or failed, or in    *)
(* what it waits for: the run held it, or cleanupByRun has its cleanup.    *)
LEMMA ShutdownFits ==
    ASSUME HostFits, Shutdown
    PROVE  HostFits'
<1> DEFINE runs == {r \in Runs : prepared[r] # 0}
<1>1. /\ HostTypeOK /\ ShutFits /\ shut.state = "open" /\ CloseRuns(runs)
      /\ shut' = [state |-> "closing",
                  waits |-> {<<r, latest'[r]>> : r \in {q \in Runs : latest'[q] # 0}},
                  found |-> {rk \in Runs \X Preparations : execution[rk[1]][rk[2]] # "none"}]
      /\ UNCHANGED <<pc, cancelled, step, uses, execution, ending, closing, states>>
  BY DEF HostFits, Shutdown
<1>2. /\ CleanupTypes
      /\ \A r \in runs : BeganCleanup(r)
      /\ \A r \in Runs \ runs : KeptCleanup(r)
  BY <1>1, CloseRunsFacts
<1>3. HostTypeOK'
  BY <1>1, <1>2 DEF HostTypeOK, CleanupTypes
<1>4. ASSUME NEW r \in Runs PROVE RunFits(r)'
  <2>1. RunFits(r)
    BY DEF HostFits
  <2>2. EndsFit(r)'
    <3>1. pc[r] = "idle" => KeptCleanup(r)
      BY <1>2, <2>1 DEF RunFits, EndsFit
    <3> QED BY <1>1, <2>1, <3>1 DEF RunFits, EndsFit, KeptCleanup
  <2>3. CASE r \in runs
    <3>1. Numbered(r)' /\ PhasesFit(r)' /\ UsersFit(r)' /\ LatestFits(r)'
      BY <1>1, <1>2, <2>1, <2>3, BeganCleanupFits DEF Used
    <3> QED BY <2>2, <3>1 DEF RunFits
  <2>4. CASE r \notin runs
    <3>1. Numbered(r)' /\ PhasesFit(r)' /\ UsersFit(r)' /\ LatestFits(r)'
      BY <1>1, <1>2, <2>1, <2>4, KeptCleanupFits DEF Used
    <3> QED BY <2>2, <3>1 DEF RunFits
  <2> QED BY <2>3, <2>4
<1>5. shut' \in [state : {"open", "closing", "closed"},
                 waits : SUBSET (Runs \X Preparations), found : SUBSET (Runs \X Preparations)]
  <2>1. \A q \in Runs : latest'[q] # 0 => latest'[q] \in Preparations
    BY <1>2, PreparationNumbers DEF CleanupTypes
  <2> QED BY <1>1, <2>1
<1>6. ASSUME NEW rk \in shut'.found, LastFound(rk)', Open(rk[1], rk[2])'
      PROVE  rk \in shut'.waits
  <2> DEFINE r == rk[1]
             k == rk[2]
             m == Cardinality(Made(r))
  <2>1. rk = <<r, k>> /\ r \in Runs /\ k \in Preparations /\ execution[r][k] # "none" /\ Open(r, k)
    BY <1>1, <1>6 DEF Open
  <2>2. RunFits(r)
    BY <2>1 DEF HostFits
  <2>3. m \in Nat /\ Made(r) = 1..m /\ prepared[r] \in {0, m} /\ k \in Made(r) /\ k \in Nat
    BY <2>1, <2>2, CountedSets, PreparationNumbers DEF RunFits, Numbered, Made
  <2>4. k = m
    <3>1. m \in Made(r) /\ m \in Nat /\ k <= m
      BY <2>3
    <3>2. <<r, m>> \in shut'.found
      BY <1>1, <2>1, <3>1 DEF Made
    <3>3. m <= k
      <4>1. \A other \in shut'.found : other[1] = r => other[2] <= k
        BY <1>6 DEF LastFound
      <4> QED BY <3>2, <4>1
    <3> QED BY <2>3, <3>1, <3>3
  <2>5. latest'[r] = k
    <3>1. CASE prepared[r] # 0
      <4>1. BeganCleanup(r) /\ prepared[r] = k
        BY <1>2, <2>1, <2>3, <2>4, <3>1
      <4> QED BY <4>1 DEF BeganCleanup
    <3>2. CASE prepared[r] = 0
      <4>1. KeptCleanup(r) /\ k # 0
        BY <1>2, <2>1, <3>2, PreparationNumbers
      <4>2. InCleanup(r, k)
        BY <1>1, <2>1, <2>2, <3>2, <4>1 DEF RunFits, PhasesFit, Open, InCleanup, HostTypeOK
      <4> QED BY <1>1, <2>1, <2>2, <4>1, <4>2 DEF RunFits, LatestFits, KeptCleanup
    <3> QED BY <3>1, <3>2
  <2>6. k # 0
    BY <2>1, PreparationNumbers
  <2> HIDE DEF r, k, m
  <2> QED BY <1>1, <2>1, <2>5, <2>6
<1>7. ShutFits'
  <2>1. \A rk \in shut'.found : execution'[rk[1]][rk[2]] # "none"
    BY <1>1
  <2>2. shut'.state = "closing"
    BY <1>1
  <2> QED BY <1>5, <1>6, <2>1, <2>2 DEF ShutFits
<1> QED BY <1>3, <1>4, <1>7 DEF HostFits

LEMMA ShutdownReturnsFits ==
    ASSUME HostFits, ShutdownReturns
    PROVE  HostFits'
<1>1. /\ HostTypeOK /\ ShutFits /\ shut.state = "closing"
      /\ \A rk \in shut.waits : cleanup[rk[1]][rk[2]] = "done"
      /\ UNCHANGED <<pc, cancelled, step, uses, execution, prepared, cleanup,
                     waitsFor, latest, ending, closing>>
      /\ shut' = [shut EXCEPT !.state = "closed"] /\ states' = {}
  BY DEF HostFits, ShutdownReturns
<1>2. /\ shut'.state = "closed" /\ shut'.found = shut.found /\ shut'.waits = shut.waits
      /\ shut' \in [state : {"open", "closing", "closed"},
                    waits : SUBSET (Runs \X Preparations), found : SUBSET (Runs \X Preparations)]
  BY <1>1 DEF ShutFits
<1>3. HostTypeOK'
  BY <1>1, <1>2 DEF HostTypeOK
<1>4. \A r \in Runs : RunFits(r)'
  <2> SUFFICES ASSUME NEW r \in Runs PROVE RunFits(r)'
    OBVIOUS
  <2>1. SameRun(r) /\ RunFits(r)
    BY <1>1 DEF SameRun, HostFits
  <2> QED BY <1>2, <2>1, SameRunFits
<1>5. ASSUME NEW rk \in shut'.found, LastFound(rk)' PROVE ~Open(rk[1], rk[2])'
  <2>1. LastFound(rk) /\ rk \in shut.found
    BY <1>2, <1>5 DEF LastFound
  <2>2. ~Open(rk[1], rk[2]) \/ rk \in shut.waits
    BY <1>1, <2>1 DEF ShutFits
  <2>3. rk \in shut.waits => ~Open(rk[1], rk[2])
    <3> SUFFICES ASSUME rk \in shut.waits PROVE ~Open(rk[1], rk[2])
      OBVIOUS
    <3>1. rk[1] \in Runs /\ rk[2] \in Preparations /\ cleanup[rk[1]][rk[2]] = "done"
      BY <1>1 DEF ShutFits
    <3> QED BY <3>1 DEF HostFits, RunFits, PhasesFit, Open
  <2> QED BY <1>1, <2>2, <2>3 DEF Open
<1>6. ShutFits'
  <2>1. \A rk \in shut'.found : execution'[rk[1]][rk[2]] # "none"
    BY <1>1, <1>2 DEF ShutFits
  <2> QED BY <1>2, <1>5, <2>1 DEF ShutFits
<1> QED BY <1>3, <1>4, <1>6 DEF HostFits

-----------------------------------------------------------------------------
(* The specification. *)

LEMMA InitHostFits == HostInit => HostFits
<1> SUFFICES ASSUME HostInit PROVE HostFits
  OBVIOUS
<1>1. PICK made \in Traffic : pc = [r \in Runs |-> IF r \in made THEN "idle" ELSE "over"]
  BY DEF HostInit
<1>2. /\ cancelled = {} /\ states = {}
      /\ step = [r \in Runs |-> [s \in Steps |-> "idle"]]
      /\ uses = [r \in Runs |-> [s \in Steps |-> 0]]
      /\ prepared = [r \in Runs |-> 0] /\ latest = [r \in Runs |-> 0]
      /\ execution = [r \in Runs |-> [k \in Preparations |-> "none"]]
      /\ cleanup = [r \in Runs |-> [k \in Preparations |-> "none"]]
      /\ waitsFor = [r \in Runs |-> [k \in Preparations |-> {}]]
      /\ ending = [r \in Runs |-> {}] /\ closing = [r \in Runs |-> 0]
      /\ shut = [state |-> "open", waits |-> {}, found |-> {}]
  BY DEF HostInit
<1>3. HostTypeOK
  <2>1. pc \in [Runs -> {"idle", "running", "ended", "terminating", "over"}]
    BY <1>1
  <2> QED BY <1>2, <2>1, PreparationNumbers DEF HostTypeOK
<1>4. ASSUME NEW r \in Runs PROVE RunFits(r)
  <2>1. Numbered(r)
    <3>1. Made(r) = {}
      BY <1>2 DEF Made
    <3>2. Cardinality({}) = 0
      BY FS_EmptySet
    <3>3. Cardinality(Used(r)) \in Nat
      BY CountedSets
    <3> QED BY <1>2, <3>1, <3>2, <3>3 DEF Numbered
  <2>2. PhasesFit(r)
    BY <1>2, PreparationNumbers DEF PhasesFit
  <2>3. UsersFit(r)
    BY <1>2 DEF UsersFit
  <2>4. LatestFits(r)
    BY <1>2 DEF LatestFits, InCleanup
  <2>5. EndsFit(r)
    <3>1. pc[r] \in {"idle", "over"}
      BY <1>1
    <3> QED BY <1>2, <3>1 DEF EndsFit
  <2> QED BY <2>1, <2>2, <2>3, <2>4, <2>5 DEF RunFits
<1>5. ShutFits
  BY <1>2 DEF ShutFits
<1> QED BY <1>3, <1>4, <1>5 DEF HostFits

LEMMA StillFits ==
    ASSUME HostFits, UNCHANGED hostVars
    PROVE  HostFits'
<1>1. HostTypeOK'
  BY DEF HostFits, HostTypeOK, hostVars
<1>2. ASSUME NEW r \in Runs PROVE RunFits(r)'
  <2>1. RunFits(r) /\ SameRun(r) /\ shut' = shut
    BY DEF HostFits, SameRun, hostVars
  <2> QED BY <2>1, SameRunFits
<1>3. ShutFits'
  BY DEF HostFits, ShutFits, LastFound, Open, hostVars
<1> QED BY <1>1, <1>2, <1>3 DEF HostFits

LEMMA NextFits ==
    ASSUME HostFits, [Next]_vars
    PROVE  HostFits'
<1>1. ASSUME NEW c \in Calls, CallAborted(c) \/ CreateRun(c) \/ HandlerEnds(c) \/ HandlerReturns(c)
      PROVE  HostFits'
  BY <1>1, AbortFits, CreateRunFits, HandlerEndsFits, HandlerReturnsFits
<1>2. ASSUME NEW d \in DirectRuns, DirectReturns(d) \/ StartDirect(d) \/ CancelDirect(d)
      PROVE  HostFits'
  BY <1>2, DirectReturnsFits, StartDirectFits, CancelDirectFits
<1>3. ASSUME NEW r \in Runs, CancelReturns(r) \/ RunEnds(r)
      PROVE  HostFits'
  BY <1>3, CancelReturnsFits, RunEndsFits
<1>4. ASSUME NEW r \in Runs, NEW s \in Steps, Invoke(r, s) \/ InvocationEnds(r, s)
      PROVE  HostFits'
  BY <1>4, InvokeFits, InvocationEndsFits
<1>5. ASSUME NEW r \in Runs, NEW k \in Preparations, Prepare(r, k) \/ BeginClose(r, k) \/ EndClose(r, k)
      PROVE  HostFits'
  BY <1>5, PrepareFits, BeginCloseFits, EndCloseFits
<1>6. CASE Shutdown \/ ShutdownReturns
  BY <1>6, ShutdownFits, ShutdownReturnsFits
<1>7. CASE UNCHANGED hostVars
  BY <1>7, StillFits
<1> QED BY <1>1, <1>2, <1>3, <1>4, <1>5, <1>6, <1>7 DEF Next, Progress, vars

(* The inductive invariant holds of the host.                              *)
THEOREM HostInvariant == Spec => []HostInv
<1>1. Init => HostInv
  BY InitDispatcherInv, InitHostFits DEF Init, HostInv
<1>2. HostInv /\ [Next]_vars => HostInv'
  BY StepKeepsDispatcherInv, NextFits DEF HostInv
<1> QED BY <1>1, <1>2, PTL DEF Spec

(* Every variable of the host has the shape its code gives it; above all a *)
(* run never makes more preparations than it has steps.                    *)
THEOREM HostTypeCorrect == Spec => [](DispatcherTypeOK /\ HostTypeOK)
<1>1. HostInv => DispatcherTypeOK /\ HostTypeOK
  BY DEF HostInv, DispatcherInv, HostFits
<1> QED BY <1>1, HostInvariant, PTL

LEMMA HostInvCloses == HostInv => ExecutionsClosed
<1> SUFFICES ASSUME HostInv PROVE ExecutionsClosed
  OBVIOUS
<1>1. HostTypeOK /\ (\A r \in Runs : RunFits(r)) /\ ShutFits
  BY DEF HostInv, HostFits
<1>2. NotClosedInUse
  <2> SUFFICES ASSUME NEW r \in Runs, NEW s \in Steps, step[r][s] = "active"
               PROVE  execution[r][uses[r][s]] \notin {"closing", "closed"}
    BY DEF NotClosedInUse
  <2>1. /\ uses[r][s] # 0
        /\ \/ uses[r][s] = prepared[r]
           \/ cleanup[r][uses[r][s]] = "waiting"
    BY <1>1 DEF RunFits, UsersFit
  <2>2. uses[r][s] \in Pending
    BY <1>1 DEF HostTypeOK
  <2>3. uses[r][s] \in Preparations
    BY <2>1, <2>2, PreparationNumbers
  <2> QED BY <1>1, <2>1, <2>3 DEF RunFits, PhasesFit
<1>3. CallLeavesNothing
  <2> SUFFICES ASSUME NEW c \in Calls, pc[c] = "over", shut.state = "open"
               PROVE  /\ \A k \in Preparations : ~Open(c, k)
                      /\ prepared[c] = 0 /\ c \notin states
    BY DEF CallLeavesNothing
  <2>1. c \in Runs /\ RunFits(c)
    BY <1>1 DEF Runs
  <2>2. prepared[c] = 0 /\ latest[c] = 0 /\ c \notin states
    BY <2>1 DEF RunFits, EndsFit
  <2>3. ASSUME NEW k \in Preparations PROVE ~Open(c, k)
    <3>1. k # 0
      BY PreparationNumbers
    <3>2. ~InCleanup(c, k)
      BY <2>1, <2>2, <3>1 DEF RunFits, LatestFits
    <3>3. cleanup[c][k] \in {"none", "done"}
      BY <1>1, <2>1, <3>2 DEF HostTypeOK, InCleanup
    <3> QED BY <2>1, <2>2, <3>1, <3>3 DEF RunFits, PhasesFit, Open
  <2> QED BY <2>2, <2>3
<1>4. ShutdownCloses
  BY <1>1 DEF ShutdownCloses, ShutFits, LastFound
<1> QED BY <1>2, <1>3, <1>4 DEF ExecutionsClosed

(* For any number of calls, direct runs, steps and slots: no execution is  *)
(* closed under an invocation, a call that is over leaves none open, and a *)
(* shutdown closes the last one of every run that it found                 *)
(* (operational-host.ts and operational-run-lifecycle.ts).                 *)
THEOREM HostCloses == Spec => []ExecutionsClosed
BY HostInvariant, HostInvCloses, PTL
=============================================================================
