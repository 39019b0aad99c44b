------------------------- MODULE JointAdmissionProofs -------------------------
(* Proofs about JointAdmission for any invocations, workspaces, sessions   *)
(* and execution contexts.  What the two lock registries guarantee is      *)
(* taken from WorkspaceLockProofs and SessionLockProofs: every step of the *)
(* joint admission is a call of each registry, or leaves it alone.         *)
EXTENDS JointAdmission, FiniteSetTheorems, TLAPS

WP == INSTANCE WorkspaceLockProofs
SP == INSTANCE SessionLockProofs
        WITH Users <- SessionUsers,
             RankOf <- [i \in SessionUsers |-> OrdinalOf[i]],
             SessionOf <- [i \in SessionUsers |-> SessionOf[i]],
             aborted <- aborted \cap SessionUsers

(* A joint queue is sorted as the queue of a session is.                   *)
QP == INSTANCE SessionLockProofs
        WITH Users <- Invocations, RankOf <- OrdinalOf, SessionOf <- KeyOf, Sessions <- Keys

-----------------------------------------------------------------------------
(* The assumptions of the instances. *)

LEMMA WorkspaceAssumptions ==
    /\ WP!IsFiniteSet(Invocations)
    /\ OwnerOf \in [Invocations -> Owners] /\ NoOwner \notin Owners
    /\ OrdinalOf \in [Invocations -> Nat]
    /\ NoLease \notin WP!Requests
BY InvocationsAssumption, NamesAssumption DEF WP!IsFiniteSet, IsFiniteSet, WP!Requests, WP!Policies

LEMMA SessionAssumptions ==
    /\ SP!IsFiniteSet(SessionUsers)
    /\ [i \in SessionUsers |-> SessionOf[i]] \in [SessionUsers -> Sessions]
    /\ [i \in SessionUsers |-> OrdinalOf[i]] \in [SessionUsers -> Nat]
<1>1. IsFiniteSet(SessionUsers)
  BY InvocationsAssumption, FS_Subset DEF SessionUsers
<1>2. SP!IsFiniteSet(SessionUsers)
  BY <1>1 DEF SP!IsFiniteSet, IsFiniteSet
<1> QED BY <1>2, InvocationsAssumption DEF SessionUsers

LEMMA QueueAssumptions == QP!IsFiniteSet(Invocations) /\ KeyOf \in [Invocations -> Keys]
BY InvocationsAssumption DEF QP!IsFiniteSet, IsFiniteSet

-----------------------------------------------------------------------------
LEMMA SameLock ==
    /\ WP!TypeOK <=> W!TypeOK
    /\ WP!MutualExclusion <=> W!MutualExclusion
    /\ \A k \in Keys : \A p : WP!Available(k, p) <=> W!Available(k, p)
BY DEF WP!TypeOK, W!TypeOK, WP!MutualExclusion, W!MutualExclusion, WP!Holders, W!Holders,
       WP!Available, W!Available, WP!NoReaders, W!NoReaders, WP!Waiters, W!Waiters,
       WP!Policies, W!Policies, WP!Requests, W!Requests, WP!Phases, W!Phases

LEMMA SameCalls ==
    /\ W!Init => WP!Init
    /\ \A i \in Invocations, k \in Keys, p \in W!Policies : W!Acquire(i, k, p) <=> WP!Acquire(i, k, p)
    /\ \A i \in Invocations, k \in Keys, p \in W!Policies : W!TryAcquire(i, k, p) <=> WP!TryAcquire(i, k, p)
    /\ \A i \in Invocations : W!Release(i) <=> WP!Release(i)
<1>1. W!Init => WP!Init
  BY DEF W!Init, WP!Init
<1>2. \A q, w : W!Enqueue(q, w) = WP!Enqueue(q, w)
  BY DEF W!Enqueue, WP!Enqueue
<1>3. ASSUME NEW i \in Invocations, NEW k \in Keys, NEW p
      PROVE  W!TryAcquire(i, k, p) <=> WP!TryAcquire(i, k, p)
  BY DEF W!TryAcquire, WP!TryAcquire, W!Reenter, WP!Reenter, W!AdmitShared, WP!AdmitShared,
         W!AdmitExclusive, WP!AdmitExclusive, W!Available, WP!Available, W!NoReaders, WP!NoReaders
<1>4. ASSUME NEW i \in Invocations, NEW k \in Keys, NEW p
      PROVE  W!Wait(i, k, p) <=> WP!Wait(i, k, p)
  BY <1>2 DEF W!Wait, WP!Wait, W!Available, WP!Available, W!NoReaders, WP!NoReaders
<1>6. ASSUME NEW i \in Invocations PROVE W!Release(i) <=> WP!Release(i)
  BY Zenon DEF W!Release, WP!Release, W!GrantCount, WP!GrantCount, W!NoReaders, WP!NoReaders,
               W!ReadersAfter, WP!ReadersAfter, W!DepthAfter, WP!DepthAfter,
               W!WriterAfter, WP!WriterAfter, W!Unused, WP!Unused,
               W!Cardinality, WP!Cardinality, W!IsFiniteSet, WP!IsFiniteSet
<1> QED BY <1>1, <1>3, <1>4, <1>6 DEF W!Acquire, WP!Acquire

LEMMA SameSession ==
    /\ S!Init => SP!Init
    /\ S!OneHolder <=> SP!OneHolder
    /\ SP!TypeOK <=> S!TypeOK
    /\ \A i \in SessionUsers : /\ S!TryAcquireSession(i) <=> SP!TryAcquireSession(i)
                               /\ S!ReleaseSession(i) <=> SP!ReleaseSession(i)
                               /\ S!Quarantine(i) <=> SP!Quarantine(i)
<1>1. S!Init => SP!Init
  BY DEF S!Init, SP!Init
<1>2. (S!OneHolder <=> SP!OneHolder) /\ (SP!TypeOK <=> S!TypeOK)
  BY DEF S!OneHolder, SP!OneHolder, S!TypeOK, SP!TypeOK, S!Uses, SP!Uses
<1>3. ASSUME NEW i \in SessionUsers PROVE S!TryAcquireSession(i) <=> SP!TryAcquireSession(i)
  BY Zenon DEF S!TryAcquireSession, SP!TryAcquireSession, S!Free, SP!Free
<1>4. ASSUME NEW i \in SessionUsers PROVE S!ReleaseSession(i) <=> SP!ReleaseSession(i)
  BY Zenon DEF S!ReleaseSession, SP!ReleaseSession
<1>5. ASSUME NEW i \in SessionUsers PROVE S!Quarantine(i) <=> SP!Quarantine(i)
  BY Zenon DEF S!Quarantine, SP!Quarantine, S!InQueue, SP!InQueue
<1> QED BY <1>1, <1>2, <1>3, <1>4, <1>5

-----------------------------------------------------------------------------
(* The two registries keep their invariants. *)

WorkspaceCall ==
    \/ UNCHANGED workspaceVars
    \/ \E i \in Invocations, k \in Keys, p \in W!Policies : W!Acquire(i, k, p)
    \/ \E i \in Invocations : W!Release(i)

LEMMA WorkspaceKept == WP!LockInv /\ WorkspaceCall => WP!LockInv'
<1> SUFFICES ASSUME WP!LockInv, WorkspaceCall PROVE WP!LockInv'
  OBVIOUS
<1>1. [WP!Next]_(WP!vars)
  <2>1. CASE UNCHANGED workspaceVars
    BY <2>1 DEF workspaceVars, WP!vars
  <2>2. CASE \E i \in Invocations, k \in Keys, p \in W!Policies : W!Acquire(i, k, p)
    <3>1. PICK i \in Invocations, k \in Keys, p \in W!Policies : W!Acquire(i, k, p)
      BY <2>2
    <3>2. WP!Acquire(i, k, p)
      BY <3>1, SameCalls
    <3>3. p \in WP!Policies
      BY DEF WP!Policies, W!Policies
    <3> QED BY <3>2, <3>3 DEF WP!Next
  <2>3. CASE \E i \in Invocations : W!Release(i)
    BY <2>3, SameCalls DEF WP!Next
  <2> QED BY <2>1, <2>2, <2>3 DEF WorkspaceCall
<1> QED BY <1>1, WorkspaceAssumptions, WP!NextKeepsInv DEF WP!NextKeepsInv

SessionCall ==
    \/ UNCHANGED sessionVars
    \/ UNCHANGED aborted /\ \E i \in SessionUsers :
          S!TryAcquireSession(i) \/ S!ReleaseSession(i) \/ S!Quarantine(i)

LEMMA SessionKept == SP!SessionInv /\ SessionCall => SP!SessionInv'
<1> SUFFICES ASSUME SP!SessionInv, SessionCall PROVE SP!SessionInv'
  OBVIOUS
<1>1. CASE UNCHANGED sessionVars
  <2>1. UNCHANGED <<busy, quarantined, queue, use>>
    BY <1>1 DEF sessionVars
  <2>2. aborted' \cap SessionUsers \in SUBSET SessionUsers
    OBVIOUS
  <2>3. SP!TypeOK'
    BY <2>1, <2>2 DEF SP!SessionInv, SP!TypeOK, SP!Uses
  <2>4. (SP!OneHolder /\ SP!BusyUntilReleased /\ SP!QuarantineRejects)'
    BY <2>1 DEF SP!SessionInv, SP!OneHolder, SP!BusyUntilReleased, SP!UsersOf, SP!QuarantineRejects
  <2>5. SP!QueueSound'
    BY <2>1 DEF SP!SessionInv, SP!UsersOf, SP!QueueSound, SP!QueuedWait, SP!QueuedOnce,
                SP!WaitersQueued, SP!QueueInOrder, SP!QueueHasHolder
  <2> QED BY <2>3, <2>4, <2>5 DEF SP!SessionInv
<1>2. CASE UNCHANGED aborted /\ \E i \in SessionUsers :
              S!TryAcquireSession(i) \/ S!ReleaseSession(i) \/ S!Quarantine(i)
  <2>1. [SP!Next]_(SP!sessionVars)
    BY <1>2, SameSession DEF SP!Next
  <2> QED BY <2>1, SessionAssumptions, SP!NextKeepsInv DEF SP!NextKeepsInv
<1> QED BY <1>1, <1>2 DEF SessionCall

LEMMA AcquireDecidesNothing ==
    ASSUME WP!LockInv, NEW i \in Invocations, NEW k \in Keys, NEW p \in W!Policies, W!Acquire(i, k, p),
           NEW j \in Invocations, WorkspaceFree(j)'
    PROVE  WorkspaceFree(j)
<1>1. KeyOf[j] \in Keys /\ OwnerOf[j] \in Owners
  BY InvocationsAssumption
<1>2. WP!Acquire(i, k, p)
  BY SameCalls
<1>5. p \in WP!Policies
  BY DEF WP!Policies, W!Policies
<1>3. writer'[KeyOf[j]] = OwnerOf[j] \/ WP!Available(KeyOf[j], PolicyOf[j])'
  BY DEF WorkspaceFree, W!Available, WP!Available, W!NoReaders, WP!NoReaders
<1>4. writer[KeyOf[j]] = OwnerOf[j] \/ WP!Available(KeyOf[j], PolicyOf[j])
  BY <1>1, <1>2, <1>3, <1>5, WorkspaceAssumptions, WP!AcquireFreesNothing DEF WP!AcquireFreesNothing
<1> QED BY <1>1, <1>4, SameLock DEF WorkspaceFree

-----------------------------------------------------------------------------
(* The inductive invariant. *)

JointTypes ==
    /\ aborted \in SUBSET Invocations
    /\ requests \in [Contexts -> [Keys -> Seq(Invocations)]]
    /\ loop \in [Contexts -> [Keys -> Loops]]
    /\ refused \in SUBSET Invocations
    /\ unconfirmed \in SUBSET Invocations

(* Who is queued asked in this context for this workspace, has been given  *)
(* nothing yet and was not refused, and is queued once, in creation order. *)
QueueInv(c, k) ==
    /\ \A n \in 1..Len(requests[c][k]) :
          /\ ContextOf[requests[c][k][n]] = c /\ KeyOf[requests[c][k][n]] = k
          /\ phase[requests[c][k][n]] = "idle" /\ requests[c][k][n] \notin refused
    /\ \A m, n \in 1..Len(requests[c][k]) : requests[c][k][m] = requests[c][k][n] => m = n
    /\ \A m, n \in 1..Len(requests[c][k]) :
          m < n => OrdinalOf[requests[c][k][m]] <= OrdinalOf[requests[c][k][n]]

(* The joint admission never queues in a session, and a session is given   *)
(* together with the workspace.                                            *)
UseInv ==
    /\ \A s \in Sessions : queue[s] = <<>>
    /\ \A i \in SessionUsers :
          /\ use[i] \in {"idle", "held", "released"}
          /\ use[i] # "idle" => phase[i] \in {"held", "released"}

RefusedInv == \A i \in refused : phase[i] = "idle"

JointInv ==
    /\ WP!LockInv /\ SP!SessionInv
    /\ JointTypes
    /\ \A c \in Contexts, k \in Keys : QueueInv(c, k)
    /\ UseInv /\ RefusedInv
    /\ NoLostWakeup

LEMMA Types ==
    ASSUME WP!LockInv, SP!SessionInv
    PROVE  /\ phase \in [Invocations -> {"idle", "waiting", "held", "released"}]
           /\ use \in [SessionUsers -> {"idle", "waiting", "held", "released", "rejected"}]
           /\ busy \in [Sessions -> BOOLEAN] /\ queue \in [Sessions -> Seq(SessionUsers)]
           /\ \A i \in SessionUsers : i \in Invocations /\ SessionOf[i] \in Sessions
<1>1. phase \in [Invocations -> {"idle", "waiting", "held", "released"}]
  BY DEF WP!LockInv, WP!TypeOK, WP!Phases
<1>2. /\ use \in [SessionUsers -> {"idle", "waiting", "held", "released", "rejected"}]
      /\ busy \in [Sessions -> BOOLEAN] /\ queue \in [Sessions -> Seq(SessionUsers)]
  BY DEF SP!SessionInv, SP!TypeOK, SP!Uses
<1> QED BY <1>1, <1>2, InvocationsAssumption DEF SessionUsers

LEMMA QueueTypes ==
    ASSUME JointTypes, NEW c \in Contexts, NEW k \in Keys
    PROVE  /\ requests[c][k] \in Seq(Invocations) /\ Len(requests[c][k]) \in Nat
           /\ \A n \in 1..Len(requests[c][k]) : requests[c][k][n] \in Invocations
           /\ InRequests(c, k) \subseteq Invocations
<1>1. requests[c][k] \in Seq(Invocations)
  BY DEF JointTypes
<1> QED BY <1>1 DEF InRequests

-----------------------------------------------------------------------------
(* What a step keeps. *)

(* Queues that nobody touches: those who wait have been given nothing.     *)
LEMMA QueueKept ==
    ASSUME JointInv, NEW c \in Contexts, NEW k \in Keys, requests'[c][k] = requests[c][k],
           \A n \in 1..Len(requests[c][k]) :
               phase'[requests[c][k][n]] = "idle" /\ requests[c][k][n] \notin refused'
    PROVE  QueueInv(c, k)'
BY DEF JointInv, QueueInv

(* A loop that goes on sleeping.                                           *)
LEMMA StillAsleep ==
    ASSUME JointInv, NEW c \in Contexts, NEW k \in Keys,
           loop'[c][k] = loop[c][k], loop[c][k].state = "asleep",
           NEW j, j = loop[c][k].on,
           j \in InRequests(c, k) => j \in InRequests(c, k)',
           j \in InRequests(c, k) /\ Decidable(j)' => Decidable(j)
    PROVE  loop'[c][k].on \in InRequests(c, k)' /\ ~Decidable(loop[c][k].on)'
<1>1. j \in InRequests(c, k) /\ ~Decidable(j)
  BY DEF JointInv, NoLostWakeup
<1>2. j \in InRequests(c, k)' /\ ~Decidable(j)'
  BY <1>1
<1> QED BY <1>2

LEMMA InitJointInv == Init => JointInv
<1> SUFFICES ASSUME Init PROVE JointInv
  OBVIOUS
<1> USE DEF Init
<1>1. WP!LockInv
  <2>1. WP!Init
    BY SameCalls
  <2> QED BY <2>1, WorkspaceAssumptions, WP!InitLockInv DEF WP!InitLockInv
<1>2. SP!SessionInv
  <2>1. SP!Init
    BY SameSession
  <2> QED BY <2>1, SessionAssumptions, SP!InitSessionInv DEF SP!InitSessionInv
<1>3. /\ queue = [s \in Sessions |-> <<>>] /\ use = [i \in SessionUsers |-> "idle"]
  BY DEF S!Init
<1>4. JointTypes
  <2>1. Off \in Loops /\ <<>> \in Seq(Invocations)
    BY DEF Off, Loops
  <2> QED BY <2>1 DEF JointTypes
<1>5. \A c \in Contexts, k \in Keys : QueueInv(c, k)
  BY DEF QueueInv
<1>6. UseInv /\ RefusedInv /\ NoLostWakeup
  BY <1>3 DEF UseInv, RefusedInv, NoLostWakeup, Off
<1> QED BY <1>1, <1>2, <1>4, <1>5, <1>6 DEF JointInv

-----------------------------------------------------------------------------
(* One step at a time. *)

(* What acquire leaves in the queue: those who were there, and the caller. *)
Inserted(q, i, r) ==
    /\ r \in Seq(Invocations) /\ Len(r) = Len(q) + 1
    /\ \E at \in 0..Len(q) :
          /\ \A n \in 1..at : OrdinalOf[q[n]] <= OrdinalOf[i]
          /\ \A n \in (at + 1)..Len(q) : OrdinalOf[q[n]] > OrdinalOf[i]
          /\ \A n \in 1..(Len(q) + 1) :
                r[n] = IF n <= at THEN q[n] ELSE IF n = at + 1 THEN i ELSE q[n - 1]

LEMMA InsertFacts ==
    ASSUME JointInv, NEW c \in Contexts, NEW k \in Keys, NEW i \in Invocations
    PROVE  Inserted(requests[c][k], i, Insert(requests[c][k], i))
<1> DEFINE q == requests[c][k]
<1>1. q \in Seq(Invocations)
  BY QueueTypes DEF JointInv
<1>2. \A m, n \in 1..Len(q) : m < n => OrdinalOf[q[m]] <= OrdinalOf[q[n]]
  BY DEF JointInv, QueueInv
<1>3. Insert(q, i) = QP!InsertByRank(q, i)
  BY DEF Insert, QP!InsertByRank
<1>4. OrdinalOf \in [Invocations -> Nat]
  BY InvocationsAssumption
<1> HIDE DEF q
<1>5. /\ QP!InsertByRank(q, i) \in Seq(Invocations)
      /\ Len(QP!InsertByRank(q, i)) = Len(q) + 1
      /\ \E at \in 0..Len(q) :
            /\ \A n \in 1..at : OrdinalOf[q[n]] <= OrdinalOf[i]
            /\ \A n \in (at + 1)..Len(q) : OrdinalOf[q[n]] > OrdinalOf[i]
            /\ \A n \in 1..(Len(q) + 1) :
                QP!InsertByRank(q, i)[n] = IF n <= at THEN q[n] ELSE IF n = at + 1 THEN i ELSE q[n - 1]
  BY <1>1, <1>2, <1>4, QueueAssumptions, QP!InsertFacts DEF QP!InsertFacts
<1>6. Inserted(q, i, QP!InsertByRank(q, i))
  BY <1>5, Zenon DEF Inserted
<1> QED BY <1>3, <1>6 DEF q

(* A queue of distinct invocations in the order of creation stays one. *)
LEMMA InsertedInOrder ==
    ASSUME NEW i \in Invocations, NEW q \in Seq(Invocations), NEW r, Inserted(q, i, r),
           \A n \in 1..Len(q) : q[n] # i,
           \A m, n \in 1..Len(q) : q[m] = q[n] => m = n,
           \A m, n \in 1..Len(q) : m < n => OrdinalOf[q[m]] <= OrdinalOf[q[n]]
    PROVE  \A m, n \in 1..Len(r) :
              /\ r[m] = r[n] => m = n
              /\ m < n => OrdinalOf[r[m]] <= OrdinalOf[r[n]]
<1> DEFINE size == Len(q)
<1>1. size \in Nat /\ Len(r) = size + 1
  BY DEF Inserted
<1>2. PICK at \in 0..size :
        /\ \A n \in 1..at : OrdinalOf[q[n]] <= OrdinalOf[i]
        /\ \A n \in (at + 1)..size : OrdinalOf[q[n]] > OrdinalOf[i]
        /\ \A n \in 1..(size + 1) :
              r[n] = IF n <= at THEN q[n] ELSE IF n = at + 1 THEN i ELSE q[n - 1]
  BY DEF Inserted
<1>3. /\ \A n \in 1..size : q[n] # i /\ OrdinalOf[q[n]] \in Nat
      /\ \A m, n \in 1..size : q[m] = q[n] => m = n
      /\ \A m, n \in 1..size : m < n => OrdinalOf[q[m]] <= OrdinalOf[q[n]]
      /\ OrdinalOf[i] \in Nat
  BY InvocationsAssumption
<1>4. SUFFICES ASSUME NEW m \in 1..(size + 1), NEW n \in 1..(size + 1), m < n
               PROVE  r[m] # r[n] /\ OrdinalOf[r[m]] <= OrdinalOf[r[n]]
  <2>1. ASSUME NEW m \in 1..(size + 1), NEW n \in 1..(size + 1)
        PROVE  (r[m] = r[n] => m = n) /\ (m < n => OrdinalOf[r[m]] <= OrdinalOf[r[n]])
    <3>1. CASE m < n
      BY <1>4, <3>1
    <3>2. CASE n < m
      BY <1>1, <1>4, <3>2
    <3>3. CASE m = n
      BY <1>1, <3>3
    <3> QED BY <1>1, <3>1, <3>2, <3>3
  <2> QED BY <1>1, <2>1
<1> HIDE DEF size
<1>5. CASE n <= at
  <2>1. m \in 1..size /\ n \in 1..size /\ r[m] = q[m] /\ r[n] = q[n]
    BY <1>1, <1>2, <1>4, <1>5
  <2>2. q[m] # q[n] /\ OrdinalOf[q[m]] <= OrdinalOf[q[n]]
    BY <1>3, <1>4, <2>1
  <2> QED BY <2>1, <2>2
<1>6. CASE n = at + 1
  <2>1. m \in 1..at /\ m \in 1..size /\ r[m] = q[m] /\ r[n] = i
    BY <1>1, <1>2, <1>4, <1>6
  <2>2. q[m] # i /\ OrdinalOf[q[m]] <= OrdinalOf[i]
    BY <1>2, <1>3, <2>1
  <2> QED BY <2>1, <2>2
<1>7. CASE n > at + 1 /\ m = at + 1
  <2>1. n - 1 \in (at + 1)..size /\ n - 1 \in 1..size /\ r[m] = i /\ r[n] = q[n - 1]
    BY <1>1, <1>2, <1>4, <1>7
  <2>2. q[n - 1] # i /\ OrdinalOf[q[n - 1]] > OrdinalOf[i] /\ OrdinalOf[q[n - 1]] \in Nat
    BY <1>2, <1>3, <2>1
  <2> QED BY <1>3, <2>1, <2>2
<1>8. CASE n > at + 1 /\ m <= at
  <2>1. m \in 1..size /\ n - 1 \in 1..size /\ m < n - 1 /\ r[m] = q[m] /\ r[n] = q[n - 1]
    BY <1>1, <1>2, <1>4, <1>8
  <2>2. q[m] # q[n - 1] /\ OrdinalOf[q[m]] <= OrdinalOf[q[n - 1]]
    BY <1>3, <2>1
  <2> QED BY <2>1, <2>2
<1>9. CASE n > at + 1 /\ m > at + 1
  <2>1. m - 1 \in 1..size /\ n - 1 \in 1..size /\ m - 1 < n - 1 /\ m - 1 # n - 1
        /\ r[m] = q[m - 1] /\ r[n] = q[n - 1]
    BY <1>1, <1>2, <1>4, <1>9
  <2>2. q[m - 1] # q[n - 1] /\ OrdinalOf[q[m - 1]] <= OrdinalOf[q[n - 1]]
    BY <1>3, <2>1
  <2> QED BY <2>1, <2>2
<1> QED BY <1>1, <1>2, <1>5, <1>6, <1>7, <1>8, <1>9

LEMMA RequestKeepsInv ==
    ASSUME JointInv, NEW i \in Invocations, Request(i)
    PROVE  JointInv'
<1> DEFINE c == ContextOf[i]
           k == KeyOf[i]
           q == requests[c][k]
           r == Insert(q, i)
<1>1. c \in Contexts /\ k \in Keys
  BY InvocationsAssumption
<1>2. UNCHANGED workspaceVars /\ UNCHANGED sessionVars /\ UNCHANGED <<unconfirmed, aborted>>
  BY DEF Request
<1>3. (WP!LockInv /\ SP!SessionInv)'
  <2>1. WorkspaceCall /\ SessionCall
    BY <1>2 DEF WorkspaceCall, SessionCall
  <2> QED BY <2>1, WorkspaceKept, SessionKept DEF JointInv
<1>4. phase[i] = "idle" /\ i \notin refused /\ \A n \in 1..Len(q) : q[n] # i
  BY DEF Request, Fresh, Queued, InRequests
<1>5. \A j \in Invocations : Decidable(j)' <=> Decidable(j)
  BY <1>2 DEF workspaceVars, sessionVars, Decidable, WorkspaceFree, SessionQuarantined, SessionFree,
              W!Available, W!NoReaders, S!Free
<1>6. UseInv'
  BY <1>2 DEF workspaceVars, sessionVars, JointInv, UseInv
<1>7. phase' = phase
  BY <1>2 DEF workspaceVars
<1>8. CASE i \in aborted
  <2>1. refused' = refused \cup {i} /\ requests' = requests /\ loop' = loop
    BY <1>8 DEF Request
  <2>2. JointTypes'
    BY <1>2, <2>1 DEF JointInv, JointTypes
  <2>3. RefusedInv'
    BY <1>4, <1>7, <2>1 DEF JointInv, RefusedInv
  <2>4. ASSUME NEW d \in Contexts, NEW l \in Keys PROVE QueueInv(d, l)'
    <3>1. \A n \in 1..Len(requests[d][l]) : requests[d][l][n] # i
      BY <1>4 DEF JointInv, QueueInv
    <3>2. \A n \in 1..Len(requests[d][l]) :
            phase'[requests[d][l][n]] = "idle" /\ requests[d][l][n] \notin refused'
      BY <1>7, <2>1, <3>1 DEF JointInv, QueueInv
    <3> QED BY <2>1, <3>2, QueueKept
  <2>5. NoLostWakeup'
    <3> SUFFICES ASSUME NEW d \in Contexts, NEW l \in Keys, loop'[d][l].state = "asleep"
                 PROVE  loop'[d][l].on \in InRequests(d, l)' /\ ~Decidable(loop[d][l].on)'
      BY DEF NoLostWakeup
    <3>1. InRequests(d, l)' = InRequests(d, l)
      BY <2>1 DEF InRequests
    <3>2. InRequests(d, l) \subseteq Invocations
      BY QueueTypes DEF JointInv
    <3> QED BY <1>5, <2>1, <3>1, <3>2, StillAsleep
  <2> QED BY <1>3, <1>6, <2>2, <2>3, <2>4, <2>5 DEF JointInv
<1>9. CASE i \notin aborted
  <2>1. /\ requests' = [requests EXCEPT ![c][k] = r]
        /\ loop' = [loop EXCEPT ![c][k].state = IF @ = "off" THEN "run" ELSE @]
        /\ refused' = refused
    BY <1>9 DEF Request
  <2> DEFINE new == IF loop[c][k].state = "off" THEN [loop[c][k] EXCEPT !.state = "run"] ELSE loop[c][k]
  <2>0. /\ new \in Loops /\ new.on = loop[c][k].on /\ (new.state = "asleep" => new = loop[c][k])
        /\ loop' = [loop EXCEPT ![c] = [loop[c] EXCEPT ![k] = new]]
    <3>1. loop \in [Contexts -> [Keys -> Loops]] /\ loop[c][k] \in Loops
      BY <1>1 DEF JointInv, JointTypes
    <3>2. new \in Loops /\ new.on = loop[c][k].on /\ (new.state = "asleep" => new = loop[c][k])
      BY <3>1 DEF Loops
    <3>3. loop' = [loop EXCEPT ![c] = [loop[c] EXCEPT ![k] = new]]
      BY <1>1, <2>1, <3>1 DEF Loops
    <3> QED BY <3>2, <3>3
  <2> HIDE DEF new
  <2> HIDE DEF r
  <2>10. Inserted(q, i, r)
    BY <1>1, InsertFacts DEF r
  <2>2. r \in Seq(Invocations) /\ Len(r) = Len(q) + 1 /\ Len(q) \in Nat
    BY <1>1, <2>10, QueueTypes DEF JointInv, Inserted
  <2>3. PICK at \in 0..Len(q) :
          /\ \A n \in 1..at : OrdinalOf[q[n]] <= OrdinalOf[i]
          /\ \A n \in (at + 1)..Len(q) : OrdinalOf[q[n]] > OrdinalOf[i]
          /\ \A n \in 1..(Len(q) + 1) :
                r[n] = IF n <= at THEN q[n] ELSE IF n = at + 1 THEN i ELSE q[n - 1]
    BY <2>10 DEF Inserted
  <2>4. /\ requests'[c][k] = r
        /\ \A d \in Contexts, l \in Keys : ~(d = c /\ l = k) => requests'[d][l] = requests[d][l]
    BY <1>1, <2>1 DEF JointInv, JointTypes
  <2>5. /\ loop' \in [Contexts -> [Keys -> Loops]]
        /\ \A d \in Contexts, l \in Keys :
              /\ loop'[d][l].on = loop[d][l].on
              /\ loop'[d][l].state = "asleep" => loop'[d][l] = loop[d][l]
    <3> HIDE DEF c, k
    <3>2. loop \in [Contexts -> [Keys -> Loops]]
      BY DEF JointInv, JointTypes
    <3>3. loop' \in [Contexts -> [Keys -> Loops]]
      <4>1. [loop[c] EXCEPT ![k] = new] \in [Keys -> Loops]
        BY <1>1, <2>0, <3>2
      <4> QED BY <2>0, <3>2, <4>1
    <3>4. ASSUME NEW d \in Contexts, NEW l \in Keys
          PROVE  loop'[d][l] = IF d = c /\ l = k THEN new ELSE loop[d][l]
      BY <1>1, <2>0, <3>2
    <3> QED BY <2>0, <3>3, <3>4
  <2>6. JointTypes'
    <3>1. loop' \in [Contexts -> [Keys -> Loops]]
      BY <2>5
    <3>2. requests' \in [Contexts -> [Keys -> Seq(Invocations)]]
      BY <1>1, <2>1, <2>2 DEF JointInv, JointTypes
    <3> QED BY <1>2, <2>1, <3>1, <3>2 DEF JointInv, JointTypes
  <2>7. RefusedInv'
    BY <1>7, <2>1 DEF JointInv, RefusedInv
  <2>8. ASSUME NEW d \in Contexts, NEW l \in Keys PROVE QueueInv(d, l)'
    <3>1. CASE ~(d = c /\ l = k)
      <4>1. \A n \in 1..Len(requests[d][l]) :
              phase'[requests[d][l][n]] = "idle" /\ requests[d][l][n] \notin refused'
        BY <1>7, <2>1 DEF JointInv, QueueInv
      <4> QED BY <2>4, <3>1, <4>1, QueueKept
    <3>2. CASE d = c /\ l = k
      <4>0. q \in Seq(Invocations)
        BY <1>1, QueueTypes DEF JointInv
      <4>1. \A n \in 1..Len(q) :
              /\ ContextOf[q[n]] = c /\ KeyOf[q[n]] = k
              /\ phase[q[n]] = "idle" /\ q[n] \notin refused
              /\ OrdinalOf[q[n]] \in Nat
        <5>1. \A n \in 1..Len(q) : q[n] \in Invocations
          BY <1>1, QueueTypes DEF JointInv
        <5>2. \A j \in Invocations : OrdinalOf[j] \in Nat
          BY InvocationsAssumption
        <5>3. QueueInv(c, k)
          BY <1>1 DEF JointInv
        <5> QED BY <5>1, <5>2, <5>3 DEF QueueInv
      <4>2. /\ \A m, n \in 1..Len(q) : q[m] = q[n] => m = n
            /\ \A m, n \in 1..Len(q) : m < n => OrdinalOf[q[m]] <= OrdinalOf[q[n]]
        BY <1>1 DEF JointInv, QueueInv
      <4> HIDE DEF q, c, k
      <4>3. \A n \in 1..Len(r) :
              \/ n <= at /\ n \in 1..Len(q) /\ r[n] = q[n]
              \/ n = at + 1 /\ r[n] = i
              \/ n > at + 1 /\ n - 1 \in 1..Len(q) /\ r[n] = q[n - 1]
        BY <2>2, <2>3
      <4>4. \A n \in 1..Len(r) :
              /\ ContextOf[r[n]] = c /\ KeyOf[r[n]] = k
              /\ phase[r[n]] = "idle" /\ r[n] \notin refused
        BY <1>4, <4>1, <4>3 DEF c, k
      <4>5. \A m, n \in 1..Len(r) :
              /\ r[m] = r[n] => m = n
              /\ m < n => OrdinalOf[r[m]] <= OrdinalOf[r[n]]
        BY <1>4, <2>10, <4>0, <4>2, InsertedInOrder
      <4> QED BY <1>7, <2>1, <2>4, <3>2, <4>4, <4>5 DEF QueueInv
    <3> QED BY <3>1, <3>2
  <2>9. NoLostWakeup'
    <3> SUFFICES ASSUME NEW d \in Contexts, NEW l \in Keys, loop'[d][l].state = "asleep"
                 PROVE  loop'[d][l].on \in InRequests(d, l)' /\ ~Decidable(loop[d][l].on)'
      BY <2>5 DEF NoLostWakeup
    <3>1. InRequests(d, l) \subseteq InRequests(d, l)'
      <4>1. CASE ~(d = c /\ l = k)
        BY <2>4, <4>1 DEF InRequests
      <4>2. CASE d = c /\ l = k
        <5>1. ASSUME NEW n \in 1..Len(q) PROVE \E m \in 1..Len(r) : r[m] = q[n]
          <6>1. CASE n <= at
            BY <2>2, <2>3, <5>1, <6>1
          <6>2. CASE n > at
            <7>1. n + 1 \in 1..Len(r) /\ r[n + 1] = q[n]
              BY <2>2, <2>3, <5>1, <6>2
            <7> QED BY <7>1
          <6> QED BY <2>3, <6>1, <6>2
        <5> QED BY <2>4, <4>2, <5>1 DEF InRequests
      <4> QED BY <4>1, <4>2
    <3>2. InRequests(d, l) \subseteq Invocations
      BY QueueTypes DEF JointInv
    <3> QED BY <1>5, <2>5, <3>1, <3>2, StillAsleep
  <2> QED BY <1>3, <1>6, <2>6, <2>7, <2>8, <2>9 DEF JointInv
<1> QED BY <1>8, <1>9
-----------------------------------------------------------------------------
(* Steps of the loops. *)

(* A loop step that touches nothing else may put the loop to sleep only on *)
(* a queued request that cannot be decided.                                *)
LEMMA LoopStepKeepsInv ==
    ASSUME JointInv, NEW c \in Contexts, NEW k \in Keys, NEW l \in Loops,
           loop' = [loop EXCEPT ![c][k] = l],
           l.state = "asleep" => l.on \in InRequests(c, k) /\ ~Decidable(l.on),
           UNCHANGED <<workspaceVars, sessionVars, requests, refused, unconfirmed, aborted>>
    PROVE  JointInv'
<1>1. UNCHANGED <<phase, use, queue, requests, refused, unconfirmed, aborted>>
  BY DEF workspaceVars, sessionVars
<1>2. (WP!LockInv /\ SP!SessionInv)'
  <2>1. WorkspaceCall /\ SessionCall
    BY DEF WorkspaceCall, SessionCall
  <2> QED BY <2>1, WorkspaceKept, SessionKept DEF JointInv
<1>3. /\ loop' \in [Contexts -> [Keys -> Loops]] /\ loop'[c][k] = l
      /\ \A d \in Contexts, e \in Keys : ~(d = c /\ e = k) => loop'[d][e] = loop[d][e]
  BY DEF JointInv, JointTypes
<1>4. (JointTypes /\ UseInv /\ RefusedInv)'
  BY <1>1, <1>3 DEF JointInv, JointTypes, UseInv, RefusedInv
<1>5. ASSUME NEW d \in Contexts, NEW e \in Keys PROVE QueueInv(d, e)'
  BY <1>1 DEF JointInv, QueueInv
<1>6. \A j : Decidable(j)' <=> Decidable(j)
  BY DEF workspaceVars, sessionVars, Decidable, WorkspaceFree, SessionQuarantined, SessionFree,
         W!Available, W!NoReaders, S!Free
<1>7. NoLostWakeup'
  <2> SUFFICES ASSUME NEW d \in Contexts, NEW e \in Keys, loop'[d][e].state = "asleep"
               PROVE  loop'[d][e].on \in InRequests(d, e)' /\ ~Decidable(loop[d][e].on)'
    BY DEF NoLostWakeup
  <2>1. InRequests(d, e)' = InRequests(d, e)
    BY <1>1 DEF InRequests
  <2>2. CASE d = c /\ e = k
    BY <1>3, <1>6, <2>1, <2>2
  <2>3. CASE ~(d = c /\ e = k)
    <3>1. loop'[d][e] = loop[d][e]
      BY <1>3, <2>3
    <3> QED BY <1>6, <2>1, <3>1, StillAsleep
  <2> QED BY <2>2, <2>3
<1> QED BY <1>2, <1>4, <1>5, <1>7 DEF JointInv

LEMMA LoopsKeepInv ==
    ASSUME JointInv, NEW c \in Contexts, NEW k \in Keys,
           SleepOnHead(c, k) \/ LeaveLoop(c, k) \/ Resume(c, k)
    PROVE  JointInv'
<1>1. CASE SleepOnHead(c, k)
  <2> DEFINE i == Head(requests[c][k])
  <2>1. i = requests[c][k][1] /\ 1 \in 1..Len(requests[c][k]) /\ i \in Invocations
    BY <1>1, QueueTypes DEF SleepOnHead, JointInv
  <2>2. i \in InRequests(c, k) /\ ~Decidable(i)
    BY <1>1, <2>1 DEF SleepOnHead, InRequests
  <2>3. [state |-> "asleep", on |-> i] \in Loops
    BY <2>1 DEF Loops
  <2>4. /\ loop' = [loop EXCEPT ![c][k] = [state |-> "asleep", on |-> i]]
        /\ UNCHANGED <<workspaceVars, sessionVars, requests, refused, unconfirmed, aborted>>
    BY <1>1 DEF SleepOnHead
  <2> HIDE DEF i
  <2> QED BY <2>2, <2>3, <2>4, LoopStepKeepsInv
<1>2. CASE LeaveLoop(c, k)
  <2>1. Off \in Loops /\ Off.state # "asleep"
    BY DEF Off, Loops
  <2> QED BY <1>2, <2>1, LoopStepKeepsInv DEF LeaveLoop
<1>3. CASE Resume(c, k)
  <2> DEFINE l == [state |-> "run", on |-> NoOwner]
  <2>1. l \in Loops /\ l.state # "asleep"
    BY DEF Loops
  <2>2. /\ loop' = [loop EXCEPT ![c][k] = l]
        /\ UNCHANGED <<workspaceVars, sessionVars, requests, refused, unconfirmed, aborted>>
    BY <1>3 DEF Resume
  <2> HIDE DEF l
  <2> QED BY <2>1, <2>2, LoopStepKeepsInv
<1> QED BY <1>1, <1>2, <1>3

(* The head leaves its queue; the others go on waiting behind it.          *)
HeadOut(c, k, i) ==
    /\ i \in Invocations /\ ContextOf[i] = c /\ KeyOf[i] = k
    /\ phase[i] = "idle" /\ i \notin refused
    /\ i = requests[c][k][1] /\ 1 \in 1..Len(requests[c][k])
    /\ requests' \in [Contexts -> [Keys -> Seq(Invocations)]]
    /\ \A d \in Contexts, e \in Keys : ~(d = c /\ e = k) => requests'[d][e] = requests[d][e]
    /\ Len(requests'[c][k]) + 1 = Len(requests[c][k])
    /\ \A n \in 1..Len(requests'[c][k]) :
          /\ n + 1 \in 1..Len(requests[c][k]) /\ n + 1 # 1
          /\ requests'[c][k][n] = requests[c][k][n + 1]

LEMMA HeadFacts ==
    ASSUME JointInv, NEW c \in Contexts, NEW k \in Keys, requests[c][k] # <<>>,
           requests' = [requests EXCEPT ![c][k] = Tail(@)]
    PROVE  HeadOut(c, k, Head(requests[c][k]))
<1> DEFINE q == requests[c][k]
<1>1. q \in Seq(Invocations) /\ q # <<>>
  BY QueueTypes DEF JointInv
<1>2. /\ Head(q) = q[1] /\ 1 \in 1..Len(q) /\ Head(q) \in Invocations
      /\ Tail(q) \in Seq(Invocations) /\ Len(Tail(q)) + 1 = Len(q) /\ Len(q) \in Nat
      /\ \A n \in 1..Len(Tail(q)) : n + 1 \in 1..Len(q) /\ n + 1 # 1 /\ Tail(q)[n] = q[n + 1]
  BY <1>1
<1>3. /\ ContextOf[q[1]] = c /\ KeyOf[q[1]] = k
      /\ phase[q[1]] = "idle" /\ q[1] \notin refused
  BY <1>2 DEF JointInv, QueueInv
<1>4. requests \in [Contexts -> [Keys -> Seq(Invocations)]]
  BY DEF JointInv, JointTypes
<1>5. /\ requests' \in [Contexts -> [Keys -> Seq(Invocations)]]
      /\ requests'[c][k] = Tail(q)
      /\ \A d \in Contexts, e \in Keys : ~(d = c /\ e = k) => requests'[d][e] = requests[d][e]
  BY <1>2, <1>4
<1> QED BY <1>2, <1>3, <1>5 DEF HeadOut

LEMMA HeadLeavesQueues ==
    ASSUME JointInv, NEW c \in Contexts, NEW k \in Keys, requests[c][k] # <<>>,
           requests' = [requests EXCEPT ![c][k] = Tail(@)],
           NEW i, i = Head(requests[c][k]),
           \A j \in Invocations \ {i} : phase'[j] = phase[j],
           refused' \subseteq refused \cup {i}
    PROVE  \A d \in Contexts, e \in Keys : QueueInv(d, e)'
<1> DEFINE q == requests[c][k]
<1>0. HeadOut(c, k, i)
  BY HeadFacts
<1>1. /\ i \in Invocations /\ ContextOf[i] = c /\ KeyOf[i] = k
      /\ i = q[1] /\ 1 \in 1..Len(q)
      /\ \A n \in 1..Len(requests'[c][k]) :
            n + 1 \in 1..Len(q) /\ n + 1 # 1 /\ requests'[c][k][n] = q[n + 1]
  BY <1>0 DEF HeadOut
<1>2. \A d \in Contexts, e \in Keys : ~(d = c /\ e = k) => requests'[d][e] = requests[d][e]
  BY <1>0 DEF HeadOut
<1>3. ASSUME NEW d \in Contexts, NEW e \in Keys, ~(d = c /\ e = k)
      PROVE  QueueInv(d, e)'
  <2>1. ASSUME NEW n \in 1..Len(requests[d][e])
        PROVE  /\ phase'[requests[d][e][n]] = "idle"
               /\ requests[d][e][n] \notin refused'
    <3>1. /\ requests[d][e][n] \in Invocations /\ phase[requests[d][e][n]] = "idle"
          /\ requests[d][e][n] \notin refused /\ requests[d][e][n] # i
      BY <1>1, <1>3, QueueTypes DEF JointInv, QueueInv
    <3> QED BY <3>1
  <2> QED BY <1>2, <1>3, <2>1, QueueKept
<1>4. QueueInv(c, k)'
  <2>1. /\ \A n \in 1..Len(q) :
            /\ ContextOf[q[n]] = c /\ KeyOf[q[n]] = k
            /\ phase[q[n]] = "idle" /\ q[n] \notin refused /\ q[n] \in Invocations
        /\ \A m, n \in 1..Len(q) : q[m] = q[n] => m = n
        /\ \A m, n \in 1..Len(q) : m < n => OrdinalOf[q[m]] <= OrdinalOf[q[n]]
    BY QueueTypes DEF JointInv, QueueInv
  <2> HIDE DEF q
  <2>2. ASSUME NEW n \in 1..Len(requests'[c][k])
        PROVE  LET j == requests'[c][k][n]
               IN  ContextOf[j] = c /\ KeyOf[j] = k /\ phase'[j] = "idle" /\ j \notin refused'
    BY <1>1, <2>1
  <2>3. ASSUME NEW m \in 1..Len(requests'[c][k]), NEW n \in 1..Len(requests'[c][k])
        PROVE  /\ requests'[c][k][m] = requests'[c][k][n] => m = n
               /\ m < n => OrdinalOf[requests'[c][k][m]] <= OrdinalOf[requests'[c][k][n]]
    <3>1. /\ m + 1 \in 1..Len(q) /\ n + 1 \in 1..Len(q)
          /\ requests'[c][k][m] = q[m + 1] /\ requests'[c][k][n] = q[n + 1]
      BY <1>1
    <3>2. m \in Int /\ n \in Int
      OBVIOUS
    <3> QED BY <2>1, <3>1, <3>2
  <2> QED BY <2>2, <2>3 DEF QueueInv
<1> QED BY <1>3, <1>4

LEMMA RejectHeadKeepsInv ==
    ASSUME JointInv, NEW c \in Contexts, NEW k \in Keys, RejectHead(c, k)
    PROVE  JointInv'
<1> DEFINE i == Head(requests[c][k])
<1>1. /\ requests[c][k] # <<>> /\ loop[c][k].state = "run"
      /\ requests' = [requests EXCEPT ![c][k] = Tail(@)]
      /\ refused' = refused \cup {i}
      /\ UNCHANGED <<workspaceVars, sessionVars, loop, unconfirmed, aborted>>
  BY DEF RejectHead
<1>0. HeadOut(c, k, i)
  BY <1>1, HeadFacts
<1>2. /\ i \in Invocations /\ phase[i] = "idle"
      /\ requests' \in [Contexts -> [Keys -> Seq(Invocations)]]
      /\ \A d \in Contexts, e \in Keys : ~(d = c /\ e = k) => requests'[d][e] = requests[d][e]
  BY <1>0 DEF HeadOut
<1> HIDE DEF i
<1>3. UNCHANGED <<phase, use, queue, loop, unconfirmed, aborted>>
  BY <1>1 DEF workspaceVars, sessionVars
<1>4. (WP!LockInv /\ SP!SessionInv)'
  <2>1. WorkspaceCall /\ SessionCall
    BY <1>1 DEF WorkspaceCall, SessionCall
  <2> QED BY <2>1, WorkspaceKept, SessionKept DEF JointInv
<1>5. (JointTypes /\ UseInv /\ RefusedInv)'
  BY <1>1, <1>2, <1>3 DEF JointInv, JointTypes, UseInv, RefusedInv
<1>6. \A d \in Contexts, e \in Keys : QueueInv(d, e)'
  BY <1>1, <1>3, HeadLeavesQueues DEF i
<1>7. \A j : Decidable(j)' <=> Decidable(j)
  BY <1>1 DEF workspaceVars, sessionVars, Decidable, WorkspaceFree, SessionQuarantined, SessionFree,
              W!Available, W!NoReaders, S!Free
<1>8. NoLostWakeup'
  <2> SUFFICES ASSUME NEW d \in Contexts, NEW e \in Keys, loop'[d][e].state = "asleep"
               PROVE  loop'[d][e].on \in InRequests(d, e)' /\ ~Decidable(loop[d][e].on)'
    BY DEF NoLostWakeup
  <2>1. loop'[d][e] = loop[d][e] /\ ~(d = c /\ e = k)
    BY <1>1, <1>3
  <2>2. InRequests(d, e)' = InRequests(d, e)
    BY <1>2, <2>1 DEF InRequests
  <2> QED BY <1>7, <2>1, <2>2, StillAsleep
<1> QED BY <1>4, <1>5, <1>6, <1>8 DEF JointInv

(* tryAcquire of a session that nobody uses and that is not quarantined.   *)
LEMMA SessionTaken ==
    ASSUME JointInv, NEW i \in SessionUsers, S!TryAcquireSession(i), SessionOf[i] \notin quarantined
    PROVE  /\ use[i] = "idle" /\ use' = [use EXCEPT ![i] = "held"]
           /\ busy' = [busy EXCEPT ![SessionOf[i]] = TRUE]
           /\ UNCHANGED <<quarantined, queue>>
BY DEF S!TryAcquireSession

LEMMA AdmitHeadKeepsInv ==
    ASSUME JointInv, NEW c \in Contexts, NEW k \in Keys, AdmitHead(c, k)
    PROVE  JointInv'
<1> DEFINE i == Head(requests[c][k])
<1>1. /\ requests[c][k] # <<>> /\ loop[c][k].state = "run"
      /\ requests' = [requests EXCEPT ![c][k] = Tail(@)]
      /\ UNCHANGED <<loop, refused, unconfirmed, aborted>>
      /\ W!TryAcquire(i, k, PolicyOf[i])
      /\ IF i \in SessionUsers THEN S!TryAcquireSession(i) ELSE UNCHANGED sessionVars
      /\ ~SessionQuarantined(i)
  BY DEF AdmitHead, Admissible
<1>0. HeadOut(c, k, i)
  BY <1>1, HeadFacts
<1>2. /\ i \in Invocations /\ phase[i] = "idle" /\ i \notin refused
      /\ requests' \in [Contexts -> [Keys -> Seq(Invocations)]]
      /\ \A d \in Contexts, e \in Keys : ~(d = c /\ e = k) => requests'[d][e] = requests[d][e]
  BY <1>0 DEF HeadOut
<1> HIDE DEF i
<1>3. PolicyOf[i] \in W!Policies /\ PolicyOf[i] \in WP!Policies
  BY <1>2, InvocationsAssumption DEF W!Policies, WP!Policies
<1>4. W!Acquire(i, k, PolicyOf[i])
  BY <1>1 DEF W!Acquire
<1>5. (WP!LockInv /\ SP!SessionInv)'
  <2>1. WorkspaceCall
    BY <1>2, <1>3, <1>4 DEF WorkspaceCall
  <2>2. SessionCall
    BY <1>1 DEF SessionCall
  <2> QED BY <2>1, <2>2, WorkspaceKept, SessionKept DEF JointInv
<1>6. phase'[i] = "held" /\ \A j \in Invocations \ {i} : phase'[j] = phase[j]
  <2>1. WP!Acquire(i, k, PolicyOf[i]) /\ WP!TryAcquire(i, k, PolicyOf[i])
    BY <1>1, <1>2, <1>3, <1>4, SameCalls
  <2>2. WP!TypeOK
    BY DEF JointInv, WP!LockInv
  <2> QED BY <1>2, <1>3, <2>1, <2>2, WorkspaceAssumptions, WP!AcquirePhases DEF WP!AcquirePhases
<1>7. \/ i \in SessionUsers /\ use[i] = "idle" /\ use' = [use EXCEPT ![i] = "held"]
         /\ busy' = [busy EXCEPT ![SessionOf[i]] = TRUE] /\ UNCHANGED <<quarantined, queue>>
      \/ UNCHANGED <<use, busy, quarantined, queue>>
  BY <1>1, SessionTaken DEF SessionQuarantined, sessionVars
<1>8. JointTypes'
  BY <1>1, <1>2 DEF JointInv, JointTypes
<1>9. UseInv'
  <2>1. queue' = queue
    BY <1>7
  <2>2. ASSUME NEW j \in SessionUsers
        PROVE  /\ use'[j] \in {"idle", "held", "released"}
               /\ use'[j] # "idle" => phase'[j] \in {"held", "released"}
    <3>1. /\ use[j] \in {"idle", "held", "released"}
          /\ use[j] # "idle" => phase[j] \in {"held", "released"}
          /\ use \in [SessionUsers -> {"idle", "waiting", "held", "released", "rejected"}]
          /\ j \in Invocations
      BY Types DEF JointInv, UseInv
    <3> QED BY <1>6, <1>7, <3>1
  <2> QED BY <2>1, <2>2 DEF JointInv, UseInv
<1>10. RefusedInv'
  BY <1>1, <1>2, <1>6 DEF JointInv, JointTypes, RefusedInv
<1>11. \A d \in Contexts, e \in Keys : QueueInv(d, e)'
  BY <1>1, <1>6, HeadLeavesQueues DEF i
<1>12. ASSUME NEW j \in Invocations, Decidable(j)' PROVE Decidable(j)
  <2>1. WorkspaceFree(j)
    BY <1>2, <1>3, <1>4, <1>12, AcquireDecidesNothing DEF JointInv, Decidable
  <2>2. SessionQuarantined(j)' => SessionQuarantined(j)
    BY <1>7 DEF SessionQuarantined
  <2>3. SessionFree(j)' => SessionFree(j)
    <3>1. j \in SessionUsers => SessionOf[j] \in Sessions
      BY Types DEF JointInv
    <3>2. i \in SessionUsers => SessionOf[i] \in Sessions
      BY Types DEF JointInv
    <3>3. busy \in [Sessions -> BOOLEAN]
      BY Types DEF JointInv
    <3>4. \A s \in Sessions : ~busy'[s] => ~busy[s]
      BY <1>7, <3>2, <3>3
    <3> QED BY <1>7, <3>1, <3>4 DEF SessionFree, S!Free
  <2> QED BY <1>12, <2>1, <2>2, <2>3 DEF Decidable
<1>13. NoLostWakeup'
  <2> SUFFICES ASSUME NEW d \in Contexts, NEW e \in Keys, loop'[d][e].state = "asleep"
               PROVE  loop'[d][e].on \in InRequests(d, e)' /\ ~Decidable(loop[d][e].on)'
    BY DEF NoLostWakeup
  <2>1. loop'[d][e] = loop[d][e] /\ ~(d = c /\ e = k)
    BY <1>1
  <2>2. InRequests(d, e)' = InRequests(d, e) /\ InRequests(d, e) \subseteq Invocations
    BY <1>2, <2>1, QueueTypes DEF InRequests, JointInv
  <2> QED BY <1>12, <2>1, <2>2, StillAsleep
<1> QED BY <1>5, <1>8, <1>9, <1>10, <1>11, <1>13 DEF JointInv

LEMMA RequestGraphKeepsInv ==
    ASSUME JointInv, NEW i \in Invocations, RequestGraph(i)
    PROVE  JointInv'
<1>1. /\ phase[i] = "idle" /\ i \notin refused /\ ~Queued(i)
      /\ W!Acquire(i, KeyOf[i], PolicyOf[i])
      /\ UNCHANGED <<sessionVars, jointVars>>
  BY DEF RequestGraph, Fresh
<1>2. UNCHANGED <<requests, loop, refused, unconfirmed, aborted, use, queue, busy, quarantined>>
  BY <1>1 DEF sessionVars, jointVars
<1>3. PolicyOf[i] \in W!Policies /\ PolicyOf[i] \in WP!Policies /\ KeyOf[i] \in Keys
  BY InvocationsAssumption DEF W!Policies, WP!Policies
<1>4. (WP!LockInv /\ SP!SessionInv)'
  <2>1. WorkspaceCall /\ SessionCall
    BY <1>1, <1>3 DEF WorkspaceCall, SessionCall
  <2> QED BY <2>1, WorkspaceKept, SessionKept DEF JointInv
<1>5. \A j \in Invocations \ {i} : phase'[j] = phase[j]
  <2>1. WP!Acquire(i, KeyOf[i], PolicyOf[i])
    BY <1>1, <1>3, SameCalls
  <2>2. WP!TypeOK
    BY DEF JointInv, WP!LockInv
  <2> QED BY <1>3, <2>1, <2>2, WorkspaceAssumptions, WP!AcquirePhases DEF WP!AcquirePhases
<1>6. (JointTypes /\ RefusedInv)'
  BY <1>1, <1>2, <1>5 DEF JointInv, JointTypes, RefusedInv
<1>7. UseInv'
  <2>1. ASSUME NEW j \in SessionUsers PROVE use[j] # "idle" => phase'[j] \in {"held", "released"}
    BY <1>1, <1>5, Types DEF JointInv, UseInv
  <2> QED BY <1>2, <2>1 DEF JointInv, UseInv
<1>8. ASSUME NEW d \in Contexts, NEW e \in Keys PROVE QueueInv(d, e)'
  <2>1. ASSUME NEW n \in 1..Len(requests[d][e])
        PROVE  phase'[requests[d][e][n]] = "idle" /\ requests[d][e][n] \notin refused'
    <3>1. /\ requests[d][e][n] \in Invocations /\ phase[requests[d][e][n]] = "idle"
          /\ requests[d][e][n] \notin refused
          /\ ContextOf[requests[d][e][n]] = d /\ KeyOf[requests[d][e][n]] = e
      BY QueueTypes DEF JointInv, QueueInv
    <3>2. requests[d][e][n] # i
      BY <1>1, <3>1 DEF Queued, InRequests
    <3> QED BY <1>2, <1>5, <3>1, <3>2
  <2> QED BY <1>2, <2>1, QueueKept
<1>9. ASSUME NEW j \in Invocations, Decidable(j)' PROVE Decidable(j)
  <2>1. WorkspaceFree(j)
    BY <1>1, <1>3, <1>9, AcquireDecidesNothing DEF JointInv, Decidable
  <2> QED BY <1>2, <1>9, <2>1 DEF Decidable, SessionQuarantined, SessionFree, S!Free
<1>10. NoLostWakeup'
  <2> SUFFICES ASSUME NEW d \in Contexts, NEW e \in Keys, loop'[d][e].state = "asleep"
               PROVE  loop'[d][e].on \in InRequests(d, e)' /\ ~Decidable(loop[d][e].on)'
    BY DEF NoLostWakeup
  <2>1. loop'[d][e] = loop[d][e]
    BY <1>2
  <2>2. InRequests(d, e)' = InRequests(d, e) /\ InRequests(d, e) \subseteq Invocations
    BY <1>2, QueueTypes DEF InRequests, JointInv
  <2> QED BY <1>9, <2>1, <2>2, StillAsleep
<1> QED BY <1>4, <1>6, <1>7, <1>8, <1>10 DEF JointInv

-----------------------------------------------------------------------------
(* Steps outside the loops. *)

LEMMA AbortKeepsInv ==
    ASSUME JointInv, NEW c \in Contexts, Abort(c)
    PROVE  JointInv'
<1> DEFINE mine == {i \in Invocations : ContextOf[i] = c}
           Woken(d, e) == IF loop[d][e].state = "asleep" /\ loop[d][e].on \in mine
                         THEN [loop[d][e] EXCEPT !.state = "woken"] ELSE loop[d][e]
<1>1. /\ aborted' = aborted \cup mine
      /\ refused' = refused \cup {i \in mine : Queued(i)}
      /\ requests' = [requests EXCEPT ![c] = [k \in Keys |-> <<>>]]
      /\ loop' = [d \in Contexts |-> [e \in Keys |-> Woken(d, e)]]
      /\ UNCHANGED <<workspaceVars, sessionVars, unconfirmed>>
  BY DEF Abort
<1>2. UNCHANGED <<phase, use, queue, unconfirmed>>
  BY <1>1 DEF workspaceVars, sessionVars
<1>3. (WP!LockInv /\ SP!SessionInv)'
  <2>1. WorkspaceCall /\ SessionCall
    BY <1>1 DEF WorkspaceCall, SessionCall
  <2> QED BY <2>1, WorkspaceKept, SessionKept DEF JointInv
<1>4. /\ requests' \in [Contexts -> [Keys -> Seq(Invocations)]]
      /\ \A e \in Keys : requests'[c][e] = <<>>
      /\ \A d \in Contexts \ {c} : requests'[d] = requests[d]
  <2>1. requests \in [Contexts -> [Keys -> Seq(Invocations)]] /\ <<>> \in Seq(Invocations)
    BY DEF JointInv, JointTypes
  <2> QED BY <1>1, <2>1
<1>5. \A d \in Contexts, e \in Keys : loop'[d][e] = Woken(d, e)
  BY <1>1
<1>6. loop' \in [Contexts -> [Keys -> Loops]]
  <2>1. \A d \in Contexts, e \in Keys : Woken(d, e) \in Loops
    <3> SUFFICES ASSUME NEW d \in Contexts, NEW e \in Keys PROVE Woken(d, e) \in Loops
      OBVIOUS
    <3>1. loop[d][e] \in Loops
      BY DEF JointInv, JointTypes
    <3> QED BY <3>1 DEF Loops
  <2> QED BY <1>1, <2>1
<1>7. \A i \in Invocations : Queued(i) => phase[i] = "idle"
  BY InvocationsAssumption DEF Queued, InRequests, JointInv, QueueInv
<1>8. (JointTypes /\ UseInv /\ RefusedInv)'
  <2>1. JointTypes'
    BY <1>1, <1>2, <1>4, <1>6 DEF JointInv, JointTypes
  <2>2. UseInv'
    BY <1>2 DEF JointInv, UseInv
  <2>3. RefusedInv'
    BY <1>1, <1>2, <1>7 DEF JointInv, RefusedInv
  <2> QED BY <2>1, <2>2, <2>3
<1>9. ASSUME NEW d \in Contexts, NEW e \in Keys PROVE QueueInv(d, e)'
  <2>1. CASE d = c
    BY <1>4, <2>1 DEF QueueInv
  <2>2. CASE d # c
    <3>1. ASSUME NEW n \in 1..Len(requests[d][e])
          PROVE  phase'[requests[d][e][n]] = "idle" /\ requests[d][e][n] \notin refused'
      BY <1>1, <1>2, <2>2 DEF JointInv, QueueInv
    <3> QED BY <1>4, <2>2, <3>1, QueueKept
  <2> QED BY <2>1, <2>2
<1>10. \A j : Decidable(j)' <=> Decidable(j)
  BY <1>1 DEF workspaceVars, sessionVars, Decidable, WorkspaceFree, SessionQuarantined, SessionFree,
              W!Available, W!NoReaders, S!Free
<1>11. NoLostWakeup'
  <2> SUFFICES ASSUME NEW d \in Contexts, NEW e \in Keys, loop'[d][e].state = "asleep"
               PROVE  loop'[d][e].on \in InRequests(d, e)' /\ ~Decidable(loop[d][e].on)'
    BY DEF NoLostWakeup
  <2>1. loop[d][e] \in Loops
    BY DEF JointInv, JointTypes
  <2>2. loop'[d][e] = loop[d][e] /\ loop[d][e].on \notin mine
    <3>1. CASE loop[d][e].state = "asleep" /\ loop[d][e].on \in mine
      <4>1. loop'[d][e].state = "woken"
        BY <1>5, <2>1, <3>1 DEF Loops
      <4> QED BY <4>1
    <3> QED BY <1>5, <3>1
  <2>3. loop[d][e].on \in InRequests(d, e) /\ loop[d][e].on \in Invocations
    BY <2>2, QueueTypes DEF JointInv, NoLostWakeup
  <2>4. d # c
    BY <2>2, <2>3 DEF JointInv, QueueInv, InRequests
  <2>5. InRequests(d, e)' = InRequests(d, e)
    BY <1>4, <2>4 DEF InRequests
  <2> QED BY <1>10, <2>2, <2>5, StillAsleep
<1> QED BY <1>3, <1>8, <1>9, <1>11 DEF JointInv

(* What a wake-up leaves asleep.                                           *)
LEMMA WakeFacts ==
    ASSUME JointInv, NEW cs, loop' = Wake(cs)
    PROVE  /\ loop' \in [Contexts -> [Keys -> Loops]]
           /\ \A d \in Contexts, e \in Keys :
                loop'[d][e].state = "asleep" => d \notin cs /\ loop'[d][e] = loop[d][e]
<1>1. ASSUME NEW d \in Contexts, NEW e \in Keys
      PROVE  /\ loop'[d][e] \in Loops
             /\ loop'[d][e].state = "asleep" => d \notin cs /\ loop'[d][e] = loop[d][e]
  <2>1. loop[d][e] \in Loops
    BY DEF JointInv, JointTypes
  <2>2. CASE d \in cs /\ loop[d][e].state = "asleep"
    <3>1. loop'[d][e] = [loop[d][e] EXCEPT !.state = "woken"]
      BY <2>2 DEF Wake
    <3> QED BY <2>1, <3>1 DEF Loops
  <2>3. CASE ~(d \in cs /\ loop[d][e].state = "asleep")
    <3>1. loop'[d][e] = loop[d][e]
      BY <2>3 DEF Wake
    <3> QED BY <2>1, <2>3, <3>1
  <2> QED BY <2>2, <2>3
<1>2. loop' \in [Contexts -> [Keys -> Loops]]
  BY <1>1 DEF Wake
<1> QED BY <1>1, <1>2

(* Giving back a lease, or quarantining a session, lets the invocations go *)
(* forward only and wakes every loop it could matter to.                   *)
LEMMA GiveBackKeepsInv ==
    ASSUME JointInv, (WP!LockInv /\ SP!SessionInv)', UseInv', unconfirmed' \in SUBSET Invocations,
           UNCHANGED <<requests, refused, aborted>>,
           \A j \in Invocations : phase[j] = "idle" => phase'[j] = "idle",
           NEW cs, loop' = Wake(cs),
           \A j \in Invocations : ContextOf[j] \notin cs /\ Decidable(j)' => Decidable(j)
    PROVE  JointInv'
<1>1. (JointTypes /\ RefusedInv)'
  <2>1. JointTypes'
    BY WakeFacts DEF JointInv, JointTypes
  <2>2. RefusedInv'
    BY DEF JointInv, RefusedInv, JointTypes
  <2> QED BY <2>1, <2>2
<1>2. ASSUME NEW d \in Contexts, NEW e \in Keys PROVE QueueInv(d, e)'
  <2>1. ASSUME NEW n \in 1..Len(requests[d][e])
        PROVE  phase'[requests[d][e][n]] = "idle" /\ requests[d][e][n] \notin refused'
    BY QueueTypes DEF JointInv, QueueInv
  <2> QED BY <2>1, QueueKept
<1>3. NoLostWakeup'
  <2> SUFFICES ASSUME NEW d \in Contexts, NEW e \in Keys, loop'[d][e].state = "asleep"
               PROVE  loop'[d][e].on \in InRequests(d, e)' /\ ~Decidable(loop[d][e].on)'
    BY DEF NoLostWakeup
  <2>1. loop'[d][e] = loop[d][e] /\ d \notin cs
    BY WakeFacts
  <2>2. InRequests(d, e)' = InRequests(d, e)
    BY DEF InRequests
  <2>3. loop[d][e].on \in InRequests(d, e) /\ loop[d][e].on \in Invocations
    BY <2>1, QueueTypes DEF JointInv, NoLostWakeup
  <2>4. ContextOf[loop[d][e].on] = d
    BY <2>3 DEF JointInv, QueueInv, InRequests
  <2> QED BY <2>1, <2>2, <2>3, <2>4, StillAsleep
<1> QED BY <1>1, <1>2, <1>3 DEF JointInv

(* What the release of a workspace does to the phases.                     *)
LEMMA WorkspaceGivenBack ==
    ASSUME JointInv, NEW i \in Invocations, W!Release(i)
    PROVE  /\ WP!LockInv'
           /\ phase'[i] = "released"
           /\ \A j \in Invocations : phase[j] = "idle" => phase'[j] = "idle"
           /\ \A j \in Invocations :
                phase[j] \in {"held", "released"} => phase'[j] \in {"held", "released"}
<1>1. WorkspaceCall
  BY DEF WorkspaceCall
<1>2. WP!LockInv'
  BY <1>1, WorkspaceKept DEF JointInv
<1>3. WP!Release(i) /\ WP!LockInv
  BY SameCalls DEF JointInv
<1>4. /\ phase[i] = "held" /\ phase'[i] = "released"
      /\ \A j \in Invocations \ {i} :
            phase'[j] = phase[j] \/ (phase[j] = "waiting" /\ phase'[j] = "held")
  BY <1>3, WorkspaceAssumptions, WP!ReleasePhases DEF WP!ReleasePhases
<1> QED BY <1>2, <1>4

LEMMA ReleaseForChecksKeepsInv ==
    ASSUME JointInv, NEW i \in Invocations, ReleaseForChecks(i)
    PROVE  JointInv'
<1>1. /\ W!Release(i) /\ loop' = Wake(Contexts)
      /\ UNCHANGED <<sessionVars, requests, refused, unconfirmed, aborted>>
  BY DEF ReleaseForChecks
<1>2. SP!SessionInv'
  <2>1. SessionCall
    BY <1>1 DEF SessionCall
  <2> QED BY <2>1, SessionKept DEF JointInv
<1>3. UseInv'
  BY <1>1, WorkspaceGivenBack, Types DEF JointInv, UseInv, sessionVars
<1>4. unconfirmed' \in SUBSET Invocations
  BY <1>1 DEF JointInv, JointTypes
<1>5. \A j \in Invocations : ContextOf[j] \in Contexts
  BY InvocationsAssumption
<1> QED BY <1>1, <1>2, <1>3, <1>4, <1>5, WorkspaceGivenBack, GiveBackKeepsInv

(* release of a session that nobody queues for. *)
LEMMA SessionGivenBack ==
    ASSUME JointInv, NEW i \in SessionUsers, S!ReleaseSession(i), UNCHANGED aborted
    PROVE  /\ SP!SessionInv'
           /\ use[i] = "held" /\ use' = [use EXCEPT ![i] = "released"]
           /\ UNCHANGED <<quarantined, queue>>
           /\ \A s \in Sessions \ {SessionOf[i]} : busy'[s] = busy[s]
<1>1. SP!SessionInv'
  <2>1. SessionCall
    BY DEF SessionCall
  <2> QED BY <2>1, SessionKept DEF JointInv
<1>2. SessionOf[i] \in Sessions /\ queue[SessionOf[i]] = <<>>
  BY Types DEF JointInv, UseInv
<1>3. busy \in [Sessions -> BOOLEAN]
  BY Types DEF JointInv
<1>4. /\ use[i] = "held" /\ use' = [use EXCEPT ![i] = "released"]
      /\ UNCHANGED <<quarantined, queue>>
      /\ UNCHANGED busy \/ busy' = [busy EXCEPT ![SessionOf[i]] = FALSE]
  BY <1>2 DEF S!ReleaseSession
<1> QED BY <1>1, <1>3, <1>4

LEMMA FinishKeepsInv ==
    ASSUME JointInv, NEW i \in Invocations, Finish(i)
    PROVE  JointInv'
<1> DEFINE cs == IF phase[i] = "held" THEN Contexts ELSE {ContextOf[i]}
<1>1. /\ Active(i) /\ UNCHANGED <<requests, refused, unconfirmed, aborted>>
      /\ IF i \in SessionUsers THEN S!ReleaseSession(i) ELSE UNCHANGED sessionVars
      /\ IF phase[i] = "held" THEN W!Release(i) ELSE UNCHANGED workspaceVars
      /\ loop' = Wake(cs)
  BY DEF Finish
<1>2. SP!SessionInv'
  <2>1. SessionCall
    BY <1>1 DEF SessionCall
  <2> QED BY <2>1, SessionKept DEF JointInv
<1>3. /\ WP!LockInv'
      /\ \A j \in Invocations : phase[j] = "idle" => phase'[j] = "idle"
      /\ \A j \in Invocations :
            phase[j] \in {"held", "released"} => phase'[j] \in {"held", "released"}
  <2>1. CASE phase[i] = "held"
    BY <1>1, <2>1, WorkspaceGivenBack
  <2>2. CASE phase[i] # "held"
    <3>1. WorkspaceCall
      BY <1>1, <2>2 DEF WorkspaceCall
    <3>2. phase' = phase
      BY <1>1, <2>2 DEF workspaceVars
    <3> QED BY <3>1, <3>2, WorkspaceKept DEF JointInv
  <2> QED BY <2>1, <2>2
<1>4. UseInv'
  <2>1. \/ i \in SessionUsers /\ use[i] = "held" /\ use' = [use EXCEPT ![i] = "released"]
      \/ use' = use
    BY <1>1, SessionGivenBack DEF sessionVars
  <2>2. queue' = queue
    BY <1>1, SessionGivenBack DEF sessionVars
  <2>3. ASSUME NEW j \in SessionUsers
        PROVE  /\ use'[j] \in {"idle", "held", "released"}
               /\ use'[j] # "idle" => phase'[j] \in {"held", "released"}
    <3>1. /\ use[j] \in {"idle", "held", "released"}
          /\ use[j] # "idle" => phase[j] \in {"held", "released"}
          /\ use \in [SessionUsers -> {"idle", "waiting", "held", "released", "rejected"}]
          /\ j \in Invocations
      BY Types DEF JointInv, UseInv
    <3> QED BY <1>3, <2>1, <3>1
  <2> QED BY <2>2, <2>3 DEF JointInv, UseInv
<1>5. unconfirmed' \in SUBSET Invocations
  BY <1>1 DEF JointInv, JointTypes
<1>6. ASSUME NEW j \in Invocations, ContextOf[j] \notin cs, Decidable(j)' PROVE Decidable(j)
  <2>1. phase[i] # "held" /\ ContextOf[j] # ContextOf[i]
    BY <1>6, InvocationsAssumption
  <2>2. i \in SessionUsers /\ S!ReleaseSession(i) /\ UNCHANGED workspaceVars
    BY <1>1, <2>1 DEF Active
  <2>3. SessionOf[j] # SessionOf[i]
    BY <2>1, <2>2, SessionsAssumption DEF SessionUsers
  <2>4. /\ UNCHANGED <<quarantined, queue>>
        /\ \A s \in Sessions \ {SessionOf[i]} : busy'[s] = busy[s]
    BY <1>1, <2>2, SessionGivenBack
  <2>5. j \in SessionUsers => SessionOf[j] \in Sessions
    BY Types DEF JointInv
  <2>6. (SessionQuarantined(j) <=> SessionQuarantined(j)') /\ (SessionFree(j) <=> SessionFree(j)')
    BY <2>3, <2>4, <2>5 DEF SessionQuarantined, SessionFree, S!Free
  <2>7. WorkspaceFree(j)' => WorkspaceFree(j)
    BY <2>2 DEF workspaceVars, WorkspaceFree, W!Available, W!NoReaders
  <2> QED BY <1>6, <2>6, <2>7 DEF Decidable
<1> HIDE DEF cs
<1> QED BY <1>1, <1>2, <1>3, <1>4, <1>5, <1>6, GiveBackKeepsInv

LEMMA ReportUncertainKeepsInv ==
    ASSUME JointInv, NEW i \in Invocations, ReportUncertain(i)
    PROVE  JointInv'
<1>1. /\ unconfirmed' = unconfirmed \cup {i}
      /\ UNCHANGED <<workspaceVars, requests, refused, aborted>>
  BY DEF ReportUncertain
<1>2. WP!LockInv' /\ phase' = phase
  <2>1. WorkspaceCall
    BY <1>1 DEF WorkspaceCall
  <2> QED BY <1>1, <2>1, WorkspaceKept DEF JointInv, workspaceVars
<1>3. unconfirmed' \in SUBSET Invocations
  BY <1>1 DEF JointInv, JointTypes
<1>4. CASE i \in SessionUsers /\ SessionOf[i] \notin quarantined
  <2> DEFINE s == SessionOf[i]
  <2>1. S!Quarantine(i) /\ loop' = Wake({ContextOf[i]})
    BY <1>4 DEF ReportUncertain
  <2>2. SP!SessionInv'
    <3>1. SessionCall
      BY <1>1, <1>4, <2>1 DEF SessionCall
    <3> QED BY <3>1, SessionKept DEF JointInv
  <2>3. /\ queue \in [Sessions -> Seq(SessionUsers)] /\ s \in Sessions /\ queue[s] = <<>>
        /\ use \in [SessionUsers -> {"idle", "waiting", "held", "released", "rejected"}]
    BY <1>4, Types DEF JointInv, UseInv
  <2>4. /\ quarantined' = quarantined \cup {s} /\ busy' = busy
        /\ queue' = [queue EXCEPT ![s] = <<>>]
        /\ use' = [v \in SessionUsers |-> IF v \in S!InQueue(s) THEN "rejected" ELSE use[v]]
    BY <1>4, <2>1 DEF S!Quarantine
  <2>5. S!InQueue(s) = {}
    BY <2>3 DEF S!InQueue
  <2>6. queue' = queue /\ use' = use
    <3>1. queue' = queue
      BY <2>3, <2>4
    <3>2. use' = [v \in SessionUsers |-> use[v]]
      BY <2>4, <2>5
    <3> QED BY <2>3, <3>1, <3>2
  <2>7. UseInv'
    BY <1>2, <2>6 DEF JointInv, UseInv
  <2>8. ASSUME NEW j \in Invocations, ContextOf[j] \notin {ContextOf[i]}, Decidable(j)'
        PROVE  Decidable(j)
    <3>1. SessionOf[j] # s \/ j \notin SessionUsers
      BY <2>8, SessionsAssumption DEF SessionUsers
    <3>2. SessionQuarantined(j)' => SessionQuarantined(j)
      BY <2>4, <3>1 DEF SessionQuarantined
    <3>3. SessionFree(j)' => SessionFree(j)
      BY <2>4, <2>6 DEF SessionFree, S!Free
    <3>4. WorkspaceFree(j)' => WorkspaceFree(j)
      BY <1>1 DEF workspaceVars, WorkspaceFree, W!Available, W!NoReaders
    <3> QED BY <2>8, <3>2, <3>3, <3>4 DEF Decidable
  <2>9. \A j \in Invocations : phase[j] = "idle" => phase'[j] = "idle"
    BY <1>2
  <2> QED BY <1>1, <1>2, <1>3, <2>1, <2>2, <2>7, <2>8, <2>9, GiveBackKeepsInv
<1>5. CASE ~(i \in SessionUsers /\ SessionOf[i] \notin quarantined)
  <2>1. UNCHANGED <<sessionVars, loop>>
    BY <1>5 DEF ReportUncertain
  <2>2. SP!SessionInv'
    <3>1. SessionCall
      BY <2>1 DEF SessionCall
    <3> QED BY <3>1, SessionKept DEF JointInv
  <2>3. (JointTypes /\ UseInv /\ RefusedInv)'
    BY <1>1, <1>2, <1>3, <2>1 DEF JointInv, JointTypes, UseInv, RefusedInv, sessionVars
  <2>4. \A d \in Contexts, e \in Keys : QueueInv(d, e)'
    BY <1>1, <1>2 DEF JointInv, QueueInv
  <2>5. \A j : Decidable(j)' <=> Decidable(j)
    BY <1>1, <2>1 DEF workspaceVars, sessionVars, Decidable, WorkspaceFree, SessionQuarantined,
                      SessionFree, W!Available, W!NoReaders, S!Free
  <2>6. NoLostWakeup'
    BY <1>1, <2>1, <2>5 DEF JointInv, NoLostWakeup, InRequests
  <2> QED BY <1>2, <2>2, <2>3, <2>4, <2>6 DEF JointInv
<1> QED BY <1>4, <1>5

-----------------------------------------------------------------------------
(* The specification. *)

LEMMA JointNextKeepsInv == JointInv /\ [Next]_vars => JointInv'
<1> SUFFICES ASSUME JointInv, [Next]_vars PROVE JointInv'
  OBVIOUS
<1>1. CASE UNCHANGED vars
  <2>1. /\ UNCHANGED <<workspaceVars, sessionVars>>
        /\ UNCHANGED <<requests, loop, refused, unconfirmed, aborted>>
    BY <1>1 DEF vars, jointVars
  <2>2. (WP!LockInv /\ SP!SessionInv)'
    <3>1. WorkspaceCall /\ SessionCall
      BY <2>1 DEF WorkspaceCall, SessionCall
    <3> QED BY <3>1, WorkspaceKept, SessionKept DEF JointInv
  <2>3. (JointTypes /\ UseInv /\ RefusedInv)'
    BY <2>1 DEF JointInv, JointTypes, UseInv, RefusedInv, workspaceVars, sessionVars
  <2>4. \A d \in Contexts, e \in Keys : QueueInv(d, e)'
    BY <2>1 DEF JointInv, QueueInv, workspaceVars
  <2>5. \A j : Decidable(j)' <=> Decidable(j)
    BY <2>1 DEF workspaceVars, sessionVars, Decidable, WorkspaceFree, SessionQuarantined,
                SessionFree, W!Available, W!NoReaders, S!Free
  <2>6. NoLostWakeup'
    BY <2>1, <2>5 DEF JointInv, NoLostWakeup, InRequests
  <2> QED BY <2>2, <2>3, <2>4, <2>6 DEF JointInv
<1>2. ASSUME NEW i \in Invocations,
             \/ Request(i) \/ RequestGraph(i)
             \/ ReleaseForChecks(i) \/ Finish(i) \/ ReportUncertain(i)
      PROVE  JointInv'
  BY <1>2, RequestKeepsInv, RequestGraphKeepsInv, ReleaseForChecksKeepsInv,
     FinishKeepsInv, ReportUncertainKeepsInv
<1>3. ASSUME NEW c \in Contexts, Abort(c) PROVE JointInv'
  BY <1>3, AbortKeepsInv
<1>4. ASSUME NEW c \in Contexts, NEW k \in Keys, Process(c, k) \/ Resume(c, k)
      PROVE  JointInv'
  BY <1>4, AdmitHeadKeepsInv, RejectHeadKeepsInv, LoopsKeepInv DEF Process
<1> QED BY <1>1, <1>2, <1>3, <1>4 DEF Next

(* The joint admission keeps its inductive invariant through every         *)
(* interleaving of loops, requests, aborts, releases and quarantines.      *)
THEOREM JointInvariant == Spec => []JointInv
BY InitJointInv, JointNextKeepsInv, PTL DEF Spec

(* Every variable keeps its type.                                          *)
THEOREM JointTypeCorrect == Spec => []TypeOK
<1>1. JointInv => TypeOK
  <2> SUFFICES ASSUME JointInv PROVE TypeOK
    OBVIOUS
  <2>1. W!TypeOK
    BY SameLock DEF JointInv, WP!LockInv
  <2>2. S!TypeOK
    BY SameSession DEF JointInv, SP!SessionInv
  <2> QED BY <2>1, <2>2 DEF JointInv, JointTypes, TypeOK
<1> QED BY <1>1, JointInvariant, PTL

(* Both leases or none, no conflicting work in a workspace or a session,   *)
(* and no loop that sleeps over a request it could decide: for any number  *)
(* of execution contexts, invocations, workspaces and sessions.            *)
THEOREM Admission == Spec => []AdmissionSound
<1>1. JointInv => AdmissionSound
  <2> SUFFICES ASSUME JointInv PROVE AdmissionSound
    OBVIOUS
  <2>1. W!MutualExclusion
    <3>1. WP!LockInv
      BY DEF JointInv
    <3>2. WP!MutualExclusion
      BY <3>1, WorkspaceAssumptions, WP!LockInvExcludes DEF WP!LockInvExcludes
    <3> QED BY <3>2, SameLock
  <2>2. S!OneHolder
    BY SameSession DEF JointInv, SP!SessionInv
  <2>3. ASSUME NEW i \in Invocations
        PROVE  /\ Queued(i) \/ i \in refused => ~Active(i)
               /\ i \in SessionUsers /\ use[i] = "held" => phase[i] \in {"held", "released"}
    <3>1. Queued(i) => phase[i] = "idle"
      BY InvocationsAssumption DEF Queued, InRequests, JointInv, QueueInv
    <3>2. i \in refused => phase[i] = "idle"
      BY DEF JointInv, RefusedInv
    <3>3. i \in SessionUsers /\ use[i] = "held" => phase[i] \in {"held", "released"}
      BY DEF JointInv, UseInv
    <3> QED BY <3>1, <3>2, <3>3 DEF Active
  <2> QED BY <2>1, <2>2, <2>3 DEF JointInv, AdmissionSound, AtomicAdmission, LeasesExclude
<1> QED BY <1>1, JointInvariant, PTL

(* The joint admission uses the workspace lock by its own operations only: *)
(* whatever is proved of WorkspaceLock holds of the workspaces here.       *)
THEOREM JointUsesLock == Spec => W!Spec
<1>1. JointInv /\ [Next]_vars => WorkspaceCall
  <2> SUFFICES ASSUME JointInv, [Next]_vars PROVE WorkspaceCall
    OBVIOUS
  <2>1. CASE UNCHANGED vars
    BY <2>1 DEF vars, WorkspaceCall
  <2>2. ASSUME NEW i \in Invocations, Request(i) \/ ReportUncertain(i) PROVE WorkspaceCall
    BY <2>2 DEF Request, ReportUncertain, WorkspaceCall
  <2>3. ASSUME NEW i \in Invocations, RequestGraph(i) PROVE WorkspaceCall
    BY <2>3, InvocationsAssumption DEF RequestGraph, WorkspaceCall, W!Policies
  <2>4. ASSUME NEW i \in Invocations, ReleaseForChecks(i) \/ Finish(i) PROVE WorkspaceCall
    BY <2>4 DEF ReleaseForChecks, Finish, WorkspaceCall
  <2>5. ASSUME NEW c \in Contexts, Abort(c) PROVE WorkspaceCall
    BY <2>5 DEF Abort, WorkspaceCall
  <2>6. ASSUME NEW c \in Contexts, NEW k \in Keys, AdmitHead(c, k) PROVE WorkspaceCall
    <3>1. PICK i : i = Head(requests[c][k])
      OBVIOUS
    <3>2. W!TryAcquire(i, k, PolicyOf[i]) /\ requests[c][k] # <<>>
      BY <2>6, <3>1 DEF AdmitHead
    <3>3. i \in Invocations
      BY <3>1, <3>2, QueueTypes DEF JointInv
    <3> QED BY <3>2, <3>3, InvocationsAssumption DEF WorkspaceCall, W!Acquire, W!Policies
  <2>7. ASSUME NEW c \in Contexts, NEW k \in Keys,
               RejectHead(c, k) \/ SleepOnHead(c, k) \/ LeaveLoop(c, k) \/ Resume(c, k)
        PROVE  WorkspaceCall
    BY <2>7 DEF RejectHead, SleepOnHead, LeaveLoop, Resume, WorkspaceCall
  <2> QED BY <2>1, <2>2, <2>3, <2>4, <2>5, <2>6, <2>7 DEF Next, Process
<1>2. WorkspaceCall => [W!Next]_(W!vars)
  BY DEF WorkspaceCall, W!Next, W!vars, workspaceVars
<1>3. Init => W!Init
  BY DEF Init
<1> QED BY <1>1, <1>2, <1>3, JointInvariant, PTL DEF Spec, W!Spec
=============================================================================
