--------------------------- MODULE SessionLockProofs ---------------------------
(* Proofs about SessionLock for any finite set of users, any sessions and  *)
(* any creation ordinals.                                                  *)
EXTENDS SessionLock, NaturalsInduction, WellFoundedInduction, TLAPS

(* Every non-empty set of naturals has a least element: stands in for      *)
(* induction over positions of a queue.                                    *)
LEMMA LeastPosition ==
    ASSUME NEW T, T \subseteq Nat, T # {}
    PROVE  \E x \in T : \A y \in T : x <= y
<1>1. IsWellFoundedOn(OpToRel(<, Nat), Nat)
  BY NatLessThanWellFounded
<1>2. PICK x \in T : \A y \in T : ~(<<y, x>> \in OpToRel(<, Nat))
  BY <1>1, WFMin
<1>3. \A y \in T : <<y, x>> \in OpToRel(<, Nat) <=> y < x
  BY DEF OpToRel
<1>4. \A y \in T : ~(y < x)
  BY <1>2, <1>3, Zenon
<1> QED
  BY <1>4

(* push and sort: the queue with the new request before every later one.   *)
LEMMA InsertFacts ==
    ASSUME NEW q \in Seq(Users), NEW u \in Users,
           \A m, n \in 1..Len(q) : m < n => RankOf[q[m]] <= RankOf[q[n]]
    PROVE  /\ InsertByRank(q, u) \in Seq(Users)
           /\ Len(InsertByRank(q, u)) = Len(q) + 1
           /\ \E at \in 0..Len(q) :
                /\ \A n \in 1..at : RankOf[q[n]] <= RankOf[u]
                /\ \A n \in (at + 1)..Len(q) : RankOf[q[n]] > RankOf[u]
                /\ \A n \in 1..(Len(q) + 1) :
                    InsertByRank(q, u)[n] = IF n <= at THEN q[n]
                                            ELSE IF n = at + 1 THEN u ELSE q[n - 1]
<1> DEFINE Fits(p) == /\ \A n \in 1..p : RankOf[q[n]] <= RankOf[u]
                      /\ \A n \in (p + 1)..Len(q) : RankOf[q[n]] > RankOf[u]
           T == {n \in 1..Len(q) : RankOf[q[n]] > RankOf[u]}
           at == CHOOSE p \in 0..Len(q) : Fits(p)
<1>1. /\ Len(q) \in Nat
      /\ \A n \in 1..Len(q) : q[n] \in Users /\ RankOf[q[n]] \in Nat
      /\ RankOf[u] \in Nat
  <2>1. Len(q) \in Nat /\ \A n \in 1..Len(q) : q[n] \in Users
    OBVIOUS
  <2>2. \A v \in Users : RankOf[v] \in Nat
    BY RankAssumption
  <2> QED BY <2>1, <2>2
<1>2. \E p \in 0..Len(q) : Fits(p)
  <2>1. CASE T = {}
    <3>1. Fits(Len(q))
      BY <1>1, <2>1
    <3> QED BY <1>1, <3>1
  <2>2. CASE T # {}
    <3>1. T \subseteq Nat
      BY <1>1
    <3>2. PICK e \in T : \A y \in T : e <= y
      BY <2>2, <3>1, LeastPosition
    <3>3. e \in 1..Len(q)
      BY <3>2
    <3>4. \A n \in 1..(e - 1) : RankOf[q[n]] <= RankOf[u]
      BY <1>1, <3>2, <3>3
    <3>5. \A n \in e..Len(q) : RankOf[q[n]] > RankOf[u]
      BY <1>1, <3>2, <3>3
    <3>6. Fits(e - 1)
      BY <1>1, <3>3, <3>4, <3>5
    <3>7. e - 1 \in 0..Len(q)
      BY <1>1, <3>3
    <3> HIDE DEF Fits
    <3> QED BY <3>6, <3>7
  <2> QED BY <2>1, <2>2
<1> HIDE DEF Fits
<1>3. at \in 0..Len(q) /\ Fits(at)
  BY <1>2
<1>4. InsertByRank(q, u) = [n \in 1..(Len(q) + 1) |->
                         IF n <= at THEN q[n] ELSE IF n = at + 1 THEN u ELSE q[n - 1]]
  BY DEF InsertByRank, Fits
<1> HIDE DEF at
<1>5. \A n \in 1..(Len(q) + 1) :
        (IF n <= at THEN q[n] ELSE IF n = at + 1 THEN u ELSE q[n - 1]) \in Users
  BY <1>1, <1>3
<1>6. InsertByRank(q, u) \in Seq(Users) /\ Len(InsertByRank(q, u)) = Len(q) + 1
  BY <1>1, <1>4, <1>5
<1> QED BY <1>3, <1>4, <1>6 DEF Fits

(* splice: the queue without the entry at the index of the request.        *)
LEMMA RemoveFacts ==
    ASSUME NEW q \in Seq(Users), NEW u \in Users, \E n \in 1..Len(q) : q[n] = u
    PROVE  /\ RemoveUser(q, u) \in Seq(Users)
           /\ Len(RemoveUser(q, u)) = Len(q) - 1
           /\ \E at \in 1..Len(q) :
                /\ q[at] = u
                /\ \A n \in 1..(Len(q) - 1) :
                    RemoveUser(q, u)[n] = IF n < at THEN q[n] ELSE q[n + 1]
<1> DEFINE at == CHOOSE n \in 1..Len(q) : q[n] = u
<1>1. Len(q) \in Nat /\ \A n \in 1..Len(q) : q[n] \in Users
  OBVIOUS
<1>2. at \in 1..Len(q) /\ q[at] = u
  OBVIOUS
<1>3. RemoveUser(q, u) = [n \in 1..(Len(q) - 1) |-> IF n < at THEN q[n] ELSE q[n + 1]]
  BY DEF RemoveUser
<1> HIDE DEF at
<1>4. Len(q) - 1 \in Nat /\ \A n \in 1..(Len(q) - 1) : (IF n < at THEN q[n] ELSE q[n + 1]) \in Users
  BY <1>1, <1>2
<1>5. RemoveUser(q, u) \in Seq(Users) /\ Len(RemoveUser(q, u)) = Len(q) - 1
  BY <1>3, <1>4
<1> QED BY <1>2, <1>3, <1>5

-----------------------------------------------------------------------------
(* Nobody waits for a quarantined session.                                 *)
QuarantineRejects == \A s \in quarantined : queue[s] = <<>>

(* The inductive invariant: a hand-over is safe because the queue holds    *)
(* only requests that wait, and a session is free only when nobody uses it. *)
SessionInv ==
    /\ TypeOK
    /\ OneHolder
    /\ BusyUntilReleased
    /\ QueueSound
    /\ QuarantineRejects

LEMMA InitSessionInv == Init => SessionInv
<1> SUFFICES ASSUME Init PROVE SessionInv
  OBVIOUS
<1> USE DEF Init
<1>1. TypeOK
  BY DEF TypeOK, Uses
<1>2. \A s \in Sessions : UsersOf(s) = {}
  BY DEF UsersOf
<1>3. OneHolder /\ BusyUntilReleased
  BY <1>2 DEF OneHolder, BusyUntilReleased
<1>4. QueueSound /\ QuarantineRejects
  BY DEF QueueSound, QueuedWait, QueuedOnce, WaitersQueued, QueueInOrder, QueueHasHolder,
         QuarantineRejects
<1> QED BY <1>1, <1>3, <1>4 DEF SessionInv

(* What TypeOK says of the elements, ready to cite.                        *)
LEMMA Typing ==
    ASSUME TypeOK
    PROVE  /\ \A s \in Sessions : queue[s] \in Seq(Users) /\ Len(queue[s]) \in Nat
           /\ \A s \in Sessions : \A n \in 1..Len(queue[s]) : queue[s][n] \in Users
           /\ \A u \in Users : SessionOf[u] \in Sessions
<1>1. \A s \in Sessions : queue[s] \in Seq(Users)
  BY DEF TypeOK
<1>2. \A s \in Sessions : Len(queue[s]) \in Nat /\ \A n \in 1..Len(queue[s]) : queue[s][n] \in Users
  BY <1>1
<1>3. \A u \in Users : SessionOf[u] \in Sessions
  BY SessionOfAssumption
<1> QED BY <1>1, <1>2, <1>3

(* A user that asks and is told at once, or is refused, was in no queue:   *)
(* the queues go on as they are.                                           *)
LEMMA AnswerAtOnceKeepsQueue ==
    ASSUME TypeOK, QueueSound, NEW u \in Users, use[u] = "idle", queue' = queue,
           NEW told \in {"held", "rejected"}, use' = [use EXCEPT ![u] = told]
    PROVE  QueueSound'
<1>1. \A v \in Users : v # u => use'[v] = use[v]
  BY DEF TypeOK
<1>2. use'[u] = told
  BY DEF TypeOK
<1>3. \A s \in Sessions : \A n \in 1..Len(queue[s]) : queue[s][n] \in Users /\ queue[s][n] # u
  BY Typing DEF QueueSound, QueuedWait
<1>4. QueuedWait'
  BY <1>1, <1>3 DEF QueueSound, QueuedWait
<1>5. QueuedOnce' /\ QueueInOrder'
  BY DEF QueueSound, QueuedOnce, QueueInOrder
<1>6. WaitersQueued'
  BY <1>1, <1>2 DEF QueueSound, WaitersQueued
<1>7. QueueHasHolder'
  <2>1. \A s \in Sessions : UsersOf(s) \subseteq UsersOf(s)'
    BY <1>1 DEF UsersOf
  <2> QED BY <2>1 DEF QueueSound, QueueHasHolder
<1> QED BY <1>4, <1>5, <1>6, <1>7 DEF QueueSound

(* Whoever is admitted to a free session is alone in it.                   *)
LEMMA AdmitKeepsInv ==
    ASSUME SessionInv, NEW u \in Users, use[u] = "idle", ~busy[SessionOf[u]],
           busy' = [busy EXCEPT ![SessionOf[u]] = TRUE],
           use' = [use EXCEPT ![u] = "held"],
           UNCHANGED <<quarantined, queue, aborted>>
    PROVE  SessionInv'
<1> USE DEF SessionInv
<1>1. TypeOK'
  BY Typing DEF TypeOK, Uses
<1>2. /\ use'[u] = "held"
      /\ \A v \in Users : v # u => use'[v] = use[v]
      /\ busy'[SessionOf[u]] = TRUE
      /\ \A s \in Sessions : s # SessionOf[u] => busy'[s] = busy[s]
      /\ SessionOf[u] \in Sessions
  BY Typing DEF TypeOK
<1>3. \A v \in Users : use[v] = "held" => SessionOf[v] # SessionOf[u]
  BY <1>2 DEF BusyUntilReleased, UsersOf
<1>4. OneHolder'
  BY <1>2, <1>3 DEF OneHolder
<1>5. BusyUntilReleased'
  <2>1. \A s \in Sessions : s # SessionOf[u] => UsersOf(s)' = UsersOf(s)
    BY <1>2 DEF UsersOf
  <2>2. u \in UsersOf(SessionOf[u])'
    BY <1>2 DEF UsersOf
  <2> QED BY <1>2, <2>1, <2>2 DEF BusyUntilReleased
<1>6. QueueSound'
  BY AnswerAtOnceKeepsQueue
<1>7. QuarantineRejects'
  BY DEF QuarantineRejects
<1> QED BY <1>1, <1>4, <1>5, <1>6, <1>7

LEMMA RejectKeepsInv ==
    ASSUME SessionInv, NEW u \in Users, use[u] = "idle",
           use' = [use EXCEPT ![u] = "rejected"],
           UNCHANGED <<busy, quarantined, queue, aborted>>
    PROVE  SessionInv'
<1> USE DEF SessionInv
<1>1. TypeOK'
  BY DEF TypeOK, Uses
<1>2. use'[u] = "rejected" /\ \A v \in Users : v # u => use'[v] = use[v]
  BY DEF TypeOK
<1>3. OneHolder'
  BY <1>2 DEF OneHolder
<1>4. \A s \in Sessions : UsersOf(s)' = UsersOf(s)
  BY <1>2 DEF UsersOf
<1>5. BusyUntilReleased'
  BY <1>4 DEF BusyUntilReleased
<1>6. QueueSound'
  BY AnswerAtOnceKeepsQueue
<1>7. QuarantineRejects'
  BY DEF QuarantineRejects
<1> QED BY <1>1, <1>3, <1>5, <1>6, <1>7

(* A user that has to wait joins the queue of a session that is held.      *)
LEMMA QueueKeepsInv ==
    ASSUME SessionInv, NEW u \in Users, AcquireQueued(u)
    PROVE  SessionInv'
<1> DEFINE s == SessionOf[u]
           q == queue[s]
           r == InsertByRank(q, u)
<1> USE DEF SessionInv
<1>1. /\ use[u] = "idle" /\ s \notin quarantined /\ busy[s] /\ s \in Sessions
      /\ queue' = [queue EXCEPT ![s] = r]
      /\ use' = [use EXCEPT ![u] = "waiting"]
      /\ UNCHANGED <<busy, quarantined, aborted>>
  BY Typing DEF AcquireQueued
<1>2. q \in Seq(Users) /\ Len(q) \in Nat
  BY <1>1, Typing
<1>3. \A m, n \in 1..Len(q) : m < n => RankOf[q[m]] <= RankOf[q[n]]
  BY <1>1 DEF QueueSound, QueueInOrder
<1>4. r \in Seq(Users) /\ Len(r) = Len(q) + 1
  BY <1>2, <1>3, InsertFacts
<1>5. PICK at \in 0..Len(q) :
        /\ \A n \in 1..at : RankOf[q[n]] <= RankOf[u]
        /\ \A n \in (at + 1)..Len(q) : RankOf[q[n]] > RankOf[u]
        /\ \A n \in 1..(Len(q) + 1) :
            r[n] = IF n <= at THEN q[n] ELSE IF n = at + 1 THEN u ELSE q[n - 1]
  BY <1>2, <1>3, InsertFacts
<1> HIDE DEF r
<1>a. \A n \in 1..Len(r) : n <= at => n \in 1..Len(q) /\ r[n] = q[n]
  <2> SUFFICES ASSUME NEW n \in 1..Len(r), n <= at
               PROVE  n \in 1..Len(q) /\ r[n] = q[n]
    OBVIOUS
  <2>1. n \in 1..Len(q) /\ n \in 1..(Len(q) + 1)
    BY <1>2, <1>4
  <2>2. r[n] = q[n]
    BY <1>5, <2>1
  <2> QED BY <2>1, <2>2
<1>b. at + 1 \in 1..Len(r) /\ r[at + 1] = u
  <2>1. at \in Nat /\ at + 1 \in 1..(Len(q) + 1) /\ ~(at + 1 <= at)
    BY <1>2
  <2>2. at + 1 \in 1..Len(r)
    BY <1>4, <2>1
  <2>3. r[at + 1] = u
    BY <1>5, <2>1
  <2> QED BY <2>2, <2>3
<1>c. \A n \in 1..Len(r) : n > at + 1 =>
        n - 1 \in 1..Len(q) /\ n - 1 \in (at + 1)..Len(q) /\ r[n] = q[n - 1]
  <2> SUFFICES ASSUME NEW n \in 1..Len(r), n > at + 1
               PROVE  n - 1 \in 1..Len(q) /\ n - 1 \in (at + 1)..Len(q) /\ r[n] = q[n - 1]
    OBVIOUS
  <2>1. n \in Nat /\ at \in Nat /\ n \in 1..(Len(q) + 1)
    BY <1>2, <1>4
  <2>2. ~(n <= at) /\ n # at + 1
    BY <2>1
  <2>3. r[n] = q[n - 1]
    BY <1>5, <2>1, <2>2
  <2> QED BY <1>2, <2>1, <2>3
<1>6. TypeOK'
  <2>1. queue' \in [Sessions -> Seq(Users)]
    BY <1>1, <1>4 DEF TypeOK
  <2> QED BY <1>1, <2>1 DEF TypeOK, Uses
<1>7. /\ queue'[s] = r
      /\ \A t \in Sessions : t # s => queue'[t] = queue[t]
      /\ use'[u] = "waiting"
      /\ \A v \in Users : v # u => use'[v] = use[v]
  BY <1>1 DEF TypeOK
<1>8. \A t \in Sessions : UsersOf(t)' = UsersOf(t)
  BY <1>1, <1>7 DEF UsersOf
<1>9. OneHolder' /\ BusyUntilReleased'
  BY <1>1, <1>7, <1>8 DEF OneHolder, BusyUntilReleased
<1>10. \A t \in Sessions : \A n \in 1..Len(queue[t]) :
          queue[t][n] \in Users /\ queue[t][n] # u
  BY <1>1, Typing DEF QueueSound, QueuedWait
<1>11. \A n \in 1..Len(q) : q[n] \in Users /\ q[n] # u /\ use[q[n]] = "waiting" /\ SessionOf[q[n]] = s
  BY <1>1, <1>10 DEF QueueSound, QueuedWait
<1>12. QueuedWait'
  <2>1. \A n \in 1..Len(r) : use'[r[n]] = "waiting" /\ SessionOf[r[n]] = s
    <3> TAKE n \in 1..Len(r)
    <3>1. CASE n <= at
      BY <1>a, <1>7, <1>11, <3>1
    <3>2. CASE n = at + 1
      BY <1>b, <1>7, <3>2
    <3>3. CASE n > at + 1
      <4>1. n - 1 \in 1..Len(q) /\ r[n] = q[n - 1]
        BY <1>c, <3>3
      <4> QED BY <1>7, <1>11, <4>1
    <3> QED BY <1>2, <1>4, <1>5, <3>1, <3>2, <3>3
  <2>2. \A t \in Sessions : t # s => \A n \in 1..Len(queue'[t]) :
            use'[queue'[t][n]] = "waiting" /\ SessionOf[queue'[t][n]] = t
    BY <1>7, <1>10 DEF QueueSound, QueuedWait
  <2> QED BY <1>7, <2>1, <2>2 DEF QueuedWait
<1>13. \A m, n \in 1..Len(q) : q[m] = q[n] => m = n
  BY <1>1 DEF QueueSound, QueuedOnce
<1>14. ASSUME NEW m \in 1..Len(r), NEW n \in 1..Len(r), r[m] = r[n]
       PROVE  m = n
  <2>1. CASE m = at + 1 \/ n = at + 1
    <3>1. \A k \in 1..Len(r) : k # at + 1 => r[k] # u
      <4> TAKE k \in 1..Len(r)
      <4>1. CASE k <= at
        BY <1>a, <1>11, <4>1
      <4>2. CASE k > at + 1
        BY <1>c, <1>11, <4>2
      <4> QED BY <1>4, <1>2, <4>1, <4>2
    <3> QED BY <1>b, <1>14, <2>1, <3>1
  <2>2. CASE m <= at /\ n <= at
    BY <1>a, <1>13, <1>14, <2>2
  <2>3. CASE m <= at /\ n > at + 1
    <3>1. m \in 1..Len(q) /\ n - 1 \in 1..Len(q) /\ q[m] = q[n - 1]
      BY <1>a, <1>c, <1>14, <2>3
    <3> QED BY <1>2, <1>13, <2>3, <3>1
  <2>4. CASE m > at + 1 /\ n <= at
    <3>1. m - 1 \in 1..Len(q) /\ n \in 1..Len(q) /\ q[m - 1] = q[n]
      BY <1>a, <1>c, <1>14, <2>4
    <3> QED BY <1>2, <1>13, <2>4, <3>1
  <2>5. CASE m > at + 1 /\ n > at + 1
    <3>1. m - 1 \in 1..Len(q) /\ n - 1 \in 1..Len(q) /\ q[m - 1] = q[n - 1]
      BY <1>c, <1>14, <2>5
    <3>2. m - 1 = n - 1
      BY <1>13, <3>1
    <3>3. m \in Int /\ n \in Int
      OBVIOUS
    <3> QED BY <3>2, <3>3
  <2> QED BY <1>2, <1>4, <2>1, <2>2, <2>3, <2>4, <2>5
<1>15. QueuedOnce'
  BY <1>7, <1>14 DEF QueueSound, QueuedOnce
<1>16. WaitersQueued'
  <2> SUFFICES ASSUME NEW v \in Users, use'[v] = "waiting"
               PROVE  \E n \in 1..Len(queue'[SessionOf[v]]) : queue'[SessionOf[v]][n] = v
    BY DEF WaitersQueued
  <2>1. CASE v = u
    <3>1. r[at + 1] = u /\ at + 1 \in 1..Len(r)
      BY <1>2, <1>4, <1>5
    <3> QED BY <1>7, <2>1, <3>1
  <2>2. CASE v # u
    <3>1. PICK n \in 1..Len(queue[SessionOf[v]]) : queue[SessionOf[v]][n] = v
      BY <1>7, <2>2 DEF QueueSound, WaitersQueued
    <3>2. CASE SessionOf[v] = s
      <4>1. \E m \in 1..Len(r) : r[m] = q[n]
        <5>1. CASE n <= at
          <6>1. n \in 1..Len(r)
            BY <1>2, <1>4, <3>1, <3>2
          <6>2. r[n] = q[n]
            BY <1>a, <5>1, <6>1
          <6> QED BY <6>1, <6>2
        <5>2. CASE n > at
          <6>1. n + 1 \in 1..Len(r) /\ n + 1 > at + 1 /\ (n + 1) - 1 = n
            BY <1>2, <1>4, <3>1, <3>2, <5>2
          <6>2. r[n + 1] = q[n]
            BY <1>c, <6>1
          <6> QED BY <6>1, <6>2
        <5> QED BY <1>5, <3>1, <5>1, <5>2
      <4> QED BY <1>7, <3>1, <3>2, <4>1
    <3>3. CASE SessionOf[v] # s
      <4>1. SessionOf[v] \in Sessions
        BY SessionOfAssumption
      <4> QED BY <1>7, <3>1, <3>3, <4>1
    <3> QED BY <3>2, <3>3
  <2> QED BY <2>1, <2>2
<1>17. QueueInOrder'
  <2>1. \A m, n \in 1..Len(r) : m < n => RankOf[r[m]] <= RankOf[r[n]]
    <3> SUFFICES ASSUME NEW m \in 1..Len(r), NEW n \in 1..Len(r), m < n
                 PROVE  RankOf[r[m]] <= RankOf[r[n]]
      OBVIOUS
    <3>1. \A k \in 1..Len(q) : RankOf[q[k]] \in Nat
      BY <1>11, RankAssumption
    <3>2. RankOf[u] \in Nat
      BY RankAssumption
    <3>3. CASE n <= at
      <4>1. m \in 1..Len(q) /\ n \in 1..Len(q) /\ r[m] = q[m] /\ r[n] = q[n]
        BY <1>a, <3>3
      <4> QED BY <1>3, <4>1
    <3>4. CASE n = at + 1
      <4>1. m \in 1..at /\ r[m] = q[m] /\ r[n] = u
        BY <1>a, <1>b, <3>4
      <4> QED BY <1>5, <4>1
    <3>5. CASE n > at + 1 /\ m <= at
      <4>1. m \in 1..Len(q) /\ n - 1 \in 1..Len(q) /\ r[m] = q[m] /\ r[n] = q[n - 1]
        BY <1>a, <1>c, <3>5
      <4>2. m < n - 1
        BY <3>5
      <4> QED BY <1>3, <4>1, <4>2
    <3>6. CASE n > at + 1 /\ m = at + 1
      <4>1. n - 1 \in (at + 1)..Len(q) /\ n - 1 \in 1..Len(q) /\ r[n] = q[n - 1] /\ r[m] = u
        BY <1>b, <1>c, <3>6
      <4>2. RankOf[q[n - 1]] > RankOf[u]
        BY <1>5, <4>1
      <4>3. RankOf[q[n - 1]] \in Nat
        BY <3>1, <4>1
      <4> QED BY <3>2, <4>1, <4>2, <4>3
    <3>7. CASE n > at + 1 /\ m > at + 1
      <4>1. n - 1 \in 1..Len(q) /\ m - 1 \in 1..Len(q) /\ r[n] = q[n - 1] /\ r[m] = q[m - 1]
        BY <1>c, <3>7
      <4>2. m \in Int /\ n \in Int
        OBVIOUS
      <4>3. m - 1 < n - 1
        BY <4>2
      <4> QED BY <1>3, <4>1, <4>3
    <3> QED BY <1>4, <1>2, <1>5, <3>3, <3>4, <3>5, <3>6, <3>7
  <2> QED BY <1>7, <2>1 DEF QueueSound, QueueInOrder
<1>18. QueueHasHolder'
  <2>1. UsersOf(s) # {}
    BY <1>1 DEF BusyUntilReleased
  <2> QED BY <1>7, <1>8, <2>1 DEF QueueSound, QueueHasHolder
<1>19. QuarantineRejects'
  <2>1. quarantined' = quarantined /\ quarantined \subseteq Sessions
    BY <1>1 DEF TypeOK
  <2> QED BY <1>1, <1>7, <2>1 DEF QuarantineRejects
<1> QED BY <1>6, <1>9, <1>12, <1>15, <1>16, <1>17, <1>18, <1>19 DEF QueueSound

(* What becomes of the queue of a session when the request at one position *)
(* leaves it: nothing else is lost, doubled or moved.  Its requester no    *)
(* longer waits; users of other sessions are as they were.                 *)
LEMMA LeaveQueue ==
    ASSUME SessionInv, NEW s \in Sessions, NEW at \in 1..Len(queue[s]), NEW r \in Seq(Users),
           Len(r) = Len(queue[s]) - 1,
           \A n \in 1..Len(r) : r[n] = IF n < at THEN queue[s][n] ELSE queue[s][n + 1],
           queue' = [queue EXCEPT ![s] = r],
           use'[queue[s][at]] # "waiting",
           \A v \in Users : v # queue[s][at] =>
               (use'[v] = "waiting" <=> use[v] = "waiting")
    PROVE  QueuedWait' /\ QueuedOnce' /\ WaitersQueued' /\ QueueInOrder'
<1> DEFINE q == queue[s]
           old(n) == IF n < at THEN n ELSE n + 1
<1> USE DEF SessionInv
<1>1. q \in Seq(Users) /\ Len(q) \in Nat /\ \A n \in 1..Len(q) : q[n] \in Users
  BY Typing
<1>2. \A m, n \in 1..Len(q) : q[m] = q[n] => m = n
  BY DEF QueueSound, QueuedOnce
<1>3. /\ queue'[s] = r
      /\ \A t \in Sessions : t # s => queue'[t] = queue[t]
  BY DEF TypeOK
<1>4. \A n \in 1..Len(r) : old(n) \in 1..Len(q) /\ old(n) # at /\ r[n] = q[old(n)]
  BY <1>1
<1>5. \A m, n \in 1..Len(r) : (m < n <=> old(m) < old(n)) /\ (old(m) = old(n) => m = n)
  BY <1>1
<1>6. \A k \in 1..Len(q) : k # at => \E n \in 1..Len(r) : old(n) = k
  <2> TAKE k \in 1..Len(q)
  <2>1. CASE k < at
    <3>1. k \in 1..Len(r) /\ old(k) = k
      BY <1>1, <2>1
    <3> QED BY <3>1
  <2>2. CASE k > at
    <3>1. k - 1 \in 1..Len(r) /\ old(k - 1) = k
      BY <1>1, <2>2
    <3> QED BY <3>1
  <2> QED BY <1>1, <2>1, <2>2
<1> HIDE DEF old
<1>7. QueuedWait'
  <2>1. \A n \in 1..Len(r) : use'[r[n]] = "waiting" /\ SessionOf[r[n]] = s
    <3> TAKE n \in 1..Len(r)
    <3>1. PICK k \in 1..Len(q) : k # at /\ r[n] = q[k]
      BY <1>4
    <3>2. q[k] \in Users /\ q[k] # q[at]
      BY <1>1, <1>2, <3>1
    <3>3. use[q[k]] = "waiting" /\ SessionOf[q[k]] = s
      BY <3>1 DEF QueueSound, QueuedWait
    <3> QED BY <3>1, <3>2, <3>3
  <2>2. \A t \in Sessions : t # s => \A n \in 1..Len(queue[t]) :
            use'[queue[t][n]] = "waiting" /\ SessionOf[queue[t][n]] = t
    <3>1. \A t \in Sessions : \A n \in 1..Len(queue[t]) :
            queue[t][n] \in Users /\ use[queue[t][n]] = "waiting" /\ SessionOf[queue[t][n]] = t
      BY Typing DEF QueueSound, QueuedWait
    <3>2. SessionOf[q[at]] = s
      BY <3>1
    <3> QED BY <3>1, <3>2
  <2> QED BY <1>3, <2>1, <2>2 DEF QueuedWait
<1>8. QueuedOnce'
  <2>1. ASSUME NEW m \in 1..Len(r), NEW n \in 1..Len(r), r[m] = r[n]
        PROVE  m = n
    <3>1. /\ old(m) \in 1..Len(q) /\ old(n) \in 1..Len(q)
          /\ r[m] = q[old(m)] /\ r[n] = q[old(n)]
      BY <1>4
    <3>2. old(m) = old(n)
      BY <1>2, <2>1, <3>1
    <3> QED BY <1>5, <3>2
  <2> QED BY <1>3, <2>1 DEF QueueSound, QueuedOnce
<1>9. WaitersQueued'
  <2> SUFFICES ASSUME NEW v \in Users, use'[v] = "waiting"
               PROVE  \E n \in 1..Len(queue'[SessionOf[v]]) : queue'[SessionOf[v]][n] = v
    BY DEF WaitersQueued
  <2>1. v # q[at] /\ use[v] = "waiting"
    OBVIOUS
  <2>2. PICK k \in 1..Len(queue[SessionOf[v]]) : queue[SessionOf[v]][k] = v
    BY <2>1 DEF QueueSound, WaitersQueued
  <2>3. CASE SessionOf[v] = s
    <3>1. PICK n \in 1..Len(r) : old(n) = k
      BY <1>6, <2>1, <2>2, <2>3
    <3>2. r[n] = v
      BY <1>4, <2>2, <2>3, <3>1
    <3> QED BY <1>3, <2>3, <3>2
  <2>4. CASE SessionOf[v] # s
    <3>1. SessionOf[v] \in Sessions
      BY SessionOfAssumption
    <3> QED BY <1>3, <2>2, <2>4, <3>1
  <2> QED BY <2>3, <2>4
<1>10. QueueInOrder'
  <2>1. ASSUME NEW m \in 1..Len(r), NEW n \in 1..Len(r), m < n
        PROVE  RankOf[r[m]] <= RankOf[r[n]]
    <3>1. /\ old(m) \in 1..Len(q) /\ old(n) \in 1..Len(q)
          /\ r[m] = q[old(m)] /\ r[n] = q[old(n)]
      BY <1>4
    <3>2. old(m) < old(n)
      BY <1>5, <2>1
    <3>3. \A k, l \in 1..Len(q) : k < l => RankOf[q[k]] <= RankOf[q[l]]
      BY DEF QueueSound, QueueInOrder
    <3> QED BY <3>1, <3>2, <3>3
  <2> QED BY <1>3, <2>1 DEF QueueSound, QueueInOrder
<1> QED BY <1>7, <1>8, <1>9, <1>10

(* The abort of a waiter takes it out of its queue and nothing else.       *)
LEMMA AbortKeepsInv ==
    ASSUME SessionInv, NEW u \in Users, Abort(u)
    PROVE  SessionInv'
<1> USE DEF SessionInv
<1>1. CASE use[u] = "waiting"
  <2> DEFINE s == SessionOf[u]
             r == RemoveUser(queue[s], u)
  <2>1. /\ queue' = [queue EXCEPT ![s] = r] /\ use' = [use EXCEPT ![u] = "rejected"]
        /\ UNCHANGED <<busy, quarantined>> /\ aborted' = aborted \cup {u}
    BY <1>1 DEF Abort
  <2>2. s \in Sessions /\ queue[s] \in Seq(Users) /\ Len(queue[s]) \in Nat
    BY Typing
  <2>3. \E n \in 1..Len(queue[s]) : queue[s][n] = u
    BY <1>1 DEF QueueSound, WaitersQueued
  <2>4. r \in Seq(Users) /\ Len(r) = Len(queue[s]) - 1
    BY <2>2, <2>3, RemoveFacts
  <2>5. PICK at \in 1..Len(queue[s]) :
            /\ queue[s][at] = u
            /\ \A n \in 1..(Len(queue[s]) - 1) :
                r[n] = IF n < at THEN queue[s][n] ELSE queue[s][n + 1]
    BY <2>2, <2>3, RemoveFacts
  <2> HIDE DEF r
  <2>6. /\ use'[u] = "rejected" /\ \A v \in Users : v # u => use'[v] = use[v]
        /\ queue'[s] = r /\ \A t \in Sessions : t # s => queue'[t] = queue[t]
    BY <2>1, <2>2 DEF TypeOK
  <2>7. QueuedWait' /\ QueuedOnce' /\ WaitersQueued' /\ QueueInOrder'
    <3>1. \A n \in 1..Len(r) : r[n] = IF n < at THEN queue[s][n] ELSE queue[s][n + 1]
      BY <2>4, <2>5
    <3>2. /\ use'[queue[s][at]] # "waiting"
          /\ \A v \in Users : v # queue[s][at] => (use'[v] = "waiting" <=> use[v] = "waiting")
      BY <2>5, <2>6
    <3>3. SessionInv /\ r \in Seq(Users) /\ Len(r) = Len(queue[s]) - 1 /\ s \in Sessions
          /\ queue' = [queue EXCEPT ![s] = r]
      BY <2>1, <2>2, <2>4
    <3> HIDE DEF s, SessionInv
    <3> QED BY <3>1, <3>2, <3>3, LeaveQueue
  <2>8. TypeOK'
    BY <2>1, <2>2, <2>4 DEF TypeOK, Uses
  <2>9. \A t \in Sessions : UsersOf(t)' = UsersOf(t)
    BY <1>1, <2>6 DEF UsersOf
  <2>10. OneHolder' /\ BusyUntilReleased'
    BY <2>1, <2>6, <2>9 DEF OneHolder, BusyUntilReleased
  <2>11. QueueHasHolder'
    <3>1. UsersOf(s) # {}
      <4>1. queue[s] # <<>>
        BY <2>2, <2>3
      <4> QED BY <2>2, <4>1 DEF QueueSound, QueueHasHolder
    <3> QED BY <2>6, <2>9, <3>1 DEF QueueSound, QueueHasHolder
  <2>12. QuarantineRejects'
    <3>1. s \notin quarantined
      <4>1. queue[s] # <<>>
        BY <2>2, <2>3
      <4> QED BY <4>1 DEF QuarantineRejects
    <3> QED BY <2>1, <2>6, <3>1 DEF QuarantineRejects, TypeOK
  <2> QED BY <2>7, <2>8, <2>10, <2>11, <2>12 DEF QueueSound
<1>2. CASE use[u] # "waiting"
  <2>1. UNCHANGED <<busy, quarantined, queue, use>> /\ aborted' = aborted \cup {u}
    BY <1>2 DEF Abort
  <2>2. TypeOK'
    BY <2>1 DEF TypeOK
  <2>3. \A t \in Sessions : UsersOf(t)' = UsersOf(t)
    BY <2>1 DEF UsersOf
  <2>4. OneHolder' /\ BusyUntilReleased' /\ QuarantineRejects'
    BY <2>1, <2>3 DEF OneHolder, BusyUntilReleased, QuarantineRejects
  <2>5. QueueSound'
    BY <2>1, <2>3 DEF QueueSound, QueuedWait, QueuedOnce, WaitersQueued, QueueInOrder, QueueHasHolder
  <2> QED BY <2>2, <2>4, <2>5
<1> QED BY <1>1, <1>2

(* A quarantine turns everyone who waits away; who holds the session keeps *)
(* it, and it is not free again.                                           *)
LEMMA QuarantineKeepsInv ==
    ASSUME SessionInv, NEW u \in Users, Quarantine(u)
    PROVE  SessionInv'
<1> DEFINE s == SessionOf[u]
<1> USE DEF SessionInv
<1>1. /\ quarantined' = quarantined \cup {s} /\ s \in Sessions
      /\ queue' = [queue EXCEPT ![s] = <<>>]
      /\ use' = [v \in Users |-> IF v \in InQueue(s) THEN "rejected" ELSE use[v]]
      /\ UNCHANGED <<busy, aborted>>
  BY Typing DEF Quarantine
<1>2. \A v \in Users : v \in InQueue(s) <=> use[v] = "waiting" /\ SessionOf[v] = s
  <2>1. \A v \in Users : v \in InQueue(s) => use[v] = "waiting" /\ SessionOf[v] = s
    BY <1>1 DEF InQueue, QueueSound, QueuedWait
  <2>2. \A v \in Users : use[v] = "waiting" /\ SessionOf[v] = s => v \in InQueue(s)
    BY DEF InQueue, QueueSound, WaitersQueued
  <2> QED BY <2>1, <2>2
<1>3. \A v \in Users :
        /\ use[v] = "waiting" /\ SessionOf[v] = s => use'[v] = "rejected"
        /\ use[v] # "waiting" \/ SessionOf[v] # s => use'[v] = use[v]
  BY <1>1, <1>2
<1>4. queue'[s] = <<>> /\ \A t \in Sessions : t # s => queue'[t] = queue[t]
  BY <1>1 DEF TypeOK
<1>5. TypeOK'
  BY <1>1 DEF TypeOK, Uses
<1>6. \A t \in Sessions : UsersOf(t)' = UsersOf(t)
  BY <1>3 DEF UsersOf
<1>7. OneHolder'
  BY <1>3 DEF OneHolder
<1>8. BusyUntilReleased'
  BY <1>1, <1>6 DEF BusyUntilReleased
<1>9. QueuedWait'
  <2>1. \A t \in Sessions : \A n \in 1..Len(queue[t]) :
            queue[t][n] \in Users /\ use[queue[t][n]] = "waiting" /\ SessionOf[queue[t][n]] = t
    BY Typing DEF QueueSound, QueuedWait
  <2> QED BY <1>3, <1>4, <2>1 DEF QueuedWait
<1>10. QueuedOnce' /\ QueueInOrder'
  BY <1>4 DEF QueueSound, QueuedOnce, QueueInOrder
<1>11. WaitersQueued'
  <2>1. \A v \in Users : use'[v] = "waiting" => use[v] = "waiting" /\ SessionOf[v] # s
    BY <1>3
  <2> QED BY <1>4, <2>1, SessionOfAssumption DEF QueueSound, WaitersQueued
<1>12. QueueHasHolder'
  BY <1>4, <1>6 DEF QueueSound, QueueHasHolder
<1>13. QuarantineRejects'
  BY <1>1, <1>4 DEF QuarantineRejects, TypeOK
<1> QED BY <1>5, <1>7, <1>8, <1>9, <1>10, <1>11, <1>12, <1>13 DEF QueueSound

(* A release frees the session, leaves it quarantined, or hands it to the  *)
(* first request of its queue without its being free in between.           *)
LEMMA ReleaseKeepsInv ==
    ASSUME SessionInv, NEW u \in Users, ReleaseSession(u)
    PROVE  SessionInv'
<1> DEFINE s == SessionOf[u]
<1> USE DEF SessionInv
<1>1. use[u] = "held" /\ s \in Sessions /\ queue[s] \in Seq(Users) /\ Len(queue[s]) \in Nat
  BY Typing DEF ReleaseSession
<1>2. \A v \in Users : use[v] = "held" /\ SessionOf[v] = s => v = u
  BY <1>1 DEF OneHolder
<1>3. \A t \in Sessions : \A n \in 1..Len(queue[t]) :
        queue[t][n] \in Users /\ use[queue[t][n]] = "waiting" /\ SessionOf[queue[t][n]] = t
  BY Typing DEF QueueSound, QueuedWait
<1>4. CASE s \in quarantined \/ queue[s] = <<>>
  <2>1. /\ queue[s] = <<>>
        /\ use' = [use EXCEPT ![u] = "released"]
        /\ \/ s \in quarantined /\ busy' = busy
           \/ s \notin quarantined /\ busy' = [busy EXCEPT ![s] = FALSE]
        /\ UNCHANGED <<queue, quarantined, aborted>>
    <3>1. queue[s] = <<>>
      BY <1>1, <1>4 DEF QuarantineRejects
    <3>2. CASE s \in quarantined
      BY <3>1, <3>2 DEF ReleaseSession
    <3>3. CASE s \notin quarantined
      BY <3>1, <3>3 DEF ReleaseSession
    <3> QED BY <3>2, <3>3
  <2>2. /\ use'[u] = "released" /\ \A v \in Users : v # u => use'[v] = use[v]
        /\ busy'[s] => s \in quarantined
        /\ \A t \in Sessions : t # s => busy'[t] = busy[t]
    BY <1>1, <2>1 DEF TypeOK
  <2>3. TypeOK'
    BY <2>1 DEF TypeOK, Uses
  <2>4. OneHolder'
    BY <2>2 DEF OneHolder
  <2>5. UsersOf(s)' = {} /\ \A t \in Sessions : t # s => UsersOf(t)' = UsersOf(t)
    BY <1>2, <2>2 DEF UsersOf
  <2>6. BusyUntilReleased'
    BY <2>1, <2>2, <2>5 DEF BusyUntilReleased
  <2>7. QueuedWait' /\ QueuedOnce' /\ QueueInOrder'
    <3>1. \A t \in Sessions : \A n \in 1..Len(queue[t]) : queue[t][n] # u
      BY <1>1, <1>3
    <3>2. QueuedWait'
      BY <1>3, <2>1, <2>2, <3>1 DEF QueuedWait
    <3> QED BY <2>1, <3>2 DEF QueueSound, QueuedOnce, QueueInOrder
  <2>8. WaitersQueued'
    BY <2>1, <2>2 DEF QueueSound, WaitersQueued
  <2>9. QueueHasHolder' /\ QuarantineRejects'
    BY <2>1, <2>5 DEF QueueSound, QueueHasHolder, QuarantineRejects
  <2> QED BY <2>3, <2>4, <2>6, <2>7, <2>8, <2>9 DEF QueueSound
<1>5. CASE s \notin quarantined /\ queue[s] # <<>>
  <2> DEFINE w == queue[s][1]
             r == Tail(queue[s])
  <2>1. /\ use' = [use EXCEPT ![u] = "released", ![w] = "held"]
        /\ queue' = [queue EXCEPT ![s] = r]
        /\ UNCHANGED <<busy, quarantined, aborted>>
    BY <1>5 DEF ReleaseSession
  <2>2. 1 \in 1..Len(queue[s]) /\ w \in Users /\ use[w] = "waiting" /\ SessionOf[w] = s /\ w # u
    BY <1>1, <1>3, <1>5
  <2>3. /\ r \in Seq(Users) /\ Len(r) = Len(queue[s]) - 1
        /\ \A n \in 1..Len(r) : r[n] = IF n < 1 THEN queue[s][n] ELSE queue[s][n + 1]
    BY <1>1, <1>5
  <2> HIDE DEF r
  <2>4. /\ use'[u] = "released" /\ use'[w] = "held"
        /\ \A v \in Users : v # u /\ v # w => use'[v] = use[v]
        /\ queue'[s] = r /\ \A t \in Sessions : t # s => queue'[t] = queue[t]
    BY <1>1, <2>1, <2>2 DEF TypeOK
  <2>5. QueuedWait' /\ QueuedOnce' /\ WaitersQueued' /\ QueueInOrder'
    <3>1. /\ use'[queue[s][1]] # "waiting"
          /\ \A v \in Users : v # queue[s][1] => (use'[v] = "waiting" <=> use[v] = "waiting")
      BY <1>1, <2>4
    <3>2. SessionInv /\ s \in Sessions /\ queue' = [queue EXCEPT ![s] = r]
      BY <1>1, <2>1
    <3> HIDE DEF s, SessionInv
    <3> QED BY <2>2, <2>3, <3>1, <3>2, LeaveQueue
  <2>6. TypeOK'
    <3>1. queue' \in [Sessions -> Seq(Users)]
      BY <1>1, <2>1, <2>3 DEF TypeOK
    <3>2. use' \in [Users -> Uses]
      BY <2>1 DEF TypeOK, Uses
    <3> QED BY <2>1, <3>1, <3>2 DEF TypeOK
  <2>7. OneHolder'
    BY <1>2, <2>2, <2>4 DEF OneHolder
  <2>8. /\ w \in UsersOf(s)' /\ u \in UsersOf(s)
        /\ \A t \in Sessions : t # s => UsersOf(t)' = UsersOf(t)
    BY <1>1, <2>2, <2>4 DEF UsersOf
  <2>9. BusyUntilReleased'
    BY <1>1, <2>1, <2>8 DEF BusyUntilReleased
  <2>10. QueueHasHolder'
    BY <2>4, <2>8 DEF QueueSound, QueueHasHolder
  <2>11. QuarantineRejects'
    BY <1>5, <2>1, <2>4 DEF QuarantineRejects, TypeOK
  <2> QED BY <2>5, <2>6, <2>7, <2>9, <2>10, <2>11 DEF QueueSound
<1> QED BY <1>4, <1>5

-----------------------------------------------------------------------------
LEMMA NextKeepsInv == SessionInv /\ [Next]_sessionVars => SessionInv'
<1> SUFFICES ASSUME SessionInv, [Next]_sessionVars PROVE SessionInv'
  OBVIOUS
<1>1. ASSUME NEW u \in Users, AcquireRejected(u) PROVE SessionInv'
  BY <1>1, RejectKeepsInv DEF AcquireRejected
<1>2. ASSUME NEW u \in Users, AcquireFree(u) PROVE SessionInv'
  BY <1>2, AdmitKeepsInv DEF AcquireFree
<1>3. ASSUME NEW u \in Users, TryAcquireSession(u) PROVE SessionInv'
  BY <1>3, RejectKeepsInv, AdmitKeepsInv DEF TryAcquireSession, Free
<1>4. ASSUME NEW u \in Users, AcquireQueued(u) PROVE SessionInv'
  BY <1>4, QueueKeepsInv
<1>5. ASSUME NEW u \in Users, Abort(u) PROVE SessionInv'
  BY <1>5, AbortKeepsInv
<1>6. ASSUME NEW u \in Users, Quarantine(u) PROVE SessionInv'
  BY <1>6, QuarantineKeepsInv
<1>7. ASSUME NEW u \in Users, ReleaseSession(u) PROVE SessionInv'
  BY <1>7, ReleaseKeepsInv
<1>8. CASE UNCHANGED sessionVars
  <2>1. \A t \in Sessions : UsersOf(t)' = UsersOf(t)
    BY <1>8 DEF sessionVars, UsersOf
  <2> QED BY <1>8, <2>1 DEF sessionVars, SessionInv, TypeOK, OneHolder, BusyUntilReleased,
             QueueSound, QueuedWait, QueuedOnce, WaitersQueued, QueueInOrder, QueueHasHolder,
             QuarantineRejects
<1> QED BY <1>1, <1>2, <1>3, <1>4, <1>5, <1>6, <1>7, <1>8 DEF Next

(* The session lock keeps its inductive invariant whatever the order of    *)
(* acquire, abort, quarantine and release.                                 *)
THEOREM SessionInvariant == Spec => []SessionInv
<1>1. Init => SessionInv
  BY InitSessionInv
<1> QED BY <1>1, NextKeepsInv, PTL DEF Spec

(* Two turns never run in one conversation, for any number of users.       *)
THEOREM OneTurn == Spec => []OneHolder
<1>1. SessionInv => OneHolder
  BY DEF SessionInv
<1> QED BY <1>1, SessionInvariant, PTL

(* No session is free under a live lease or busy for good without cause,   *)
(* and no waiting request is lost, doubled or out of order.                *)
THEOREM Accounted == Spec => []SessionAccounted
<1>1. SessionInv => SessionAccounted
  BY DEF SessionInv, SessionAccounted
<1> QED BY <1>1, SessionInvariant, PTL

(* A hand-over goes to a request of the queue, and a quarantined session   *)
(* has none; every other admission looks at the quarantine.                *)
LEMMA AdmitsNobodyQuarantined ==
    ASSUME SessionInv, [Next]_sessionVars,
           NEW v \in Users, SessionOf[v] \in quarantined, use'[v] = "held"
    PROVE  use[v] = "held"
<1> USE DEF SessionInv
<1>1. ASSUME NEW u \in Users,
             AcquireRejected(u) \/ AcquireFree(u) \/ AcquireQueued(u) \/ TryAcquireSession(u)
      PROVE  use[v] = "held"
  <2>1. CASE v = u
    <3>1. use'[v] # "held"
      BY <1>1, <2>1 DEF AcquireRejected, AcquireFree, AcquireQueued, TryAcquireSession, TypeOK
    <3> QED BY <3>1
  <2>2. CASE v # u
    BY <1>1, <2>2 DEF AcquireRejected, AcquireFree, AcquireQueued, TryAcquireSession, TypeOK
  <2> QED BY <2>1, <2>2
<1>2. ASSUME NEW u \in Users, Abort(u) \/ Quarantine(u)
      PROVE  use[v] = "held"
  BY <1>2 DEF Abort, Quarantine, TypeOK
<1>3. ASSUME NEW u \in Users, ReleaseSession(u)
      PROVE  use[v] = "held"
  <2> DEFINE s == SessionOf[u]
  <2>1. CASE s \in quarantined \/ queue[s] = <<>>
    BY <1>3, <2>1 DEF ReleaseSession, TypeOK
  <2>2. CASE s \notin quarantined /\ queue[s] # <<>>
    <3>1. s \in Sessions /\ 1 \in 1..Len(queue[s])
      BY <2>2, Typing
    <3>2. SessionOf[queue[s][1]] = s
      BY <3>1 DEF QueueSound, QueuedWait
    <3>3. v # queue[s][1]
      BY <2>2, <3>2
    <3>4. use' = [use EXCEPT ![u] = "released", ![queue[s][1]] = "held"]
      BY <1>3, <2>2 DEF ReleaseSession
    <3> QED BY <3>3, <3>4 DEF TypeOK
  <2> QED BY <2>1, <2>2
<1>4. CASE UNCHANGED sessionVars
  BY <1>4 DEF sessionVars
<1> QED BY <1>1, <1>2, <1>3, <1>4 DEF Next

(* A quarantine is final: from then on nobody is admitted to the session.  *)
THEOREM QuarantineHolds == Spec => QuarantineIsFinal
<1>1. SessionInv /\ [Next]_sessionVars =>
        [\A u \in Users : SessionOf[u] \in quarantined /\ use'[u] = "held" => use[u] = "held"]_sessionVars
  BY AdmitsNobodyQuarantined
<1> QED BY <1>1, SessionInvariant, PTL DEF Spec, QuarantineIsFinal
=============================================================================
