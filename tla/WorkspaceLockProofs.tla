------------------------- MODULE WorkspaceLockProofs -------------------------
(* Proofs about WorkspaceLock for any number of invocations, owners and    *)
(* workspaces, any creation ordinals and any ownership.                    *)
EXTENDS WorkspaceLock, FiniteSetTheorems, TLAPS

(* Every non-empty set of naturals has a least element: stands in for      *)
(* induction over positions of a queue.                                    *)
LEMMA LeastElement ==
    ASSUME NEW T, T \subseteq Nat, T # {}
    PROVE  \E x \in T : \A y \in T : x <= y
<1>1. IsWellFoundedOn(OpToRel(<, Nat), Nat)
  BY NatLessThanWellFounded
<1>2. PICK x \in T : \A y \in T : ~(<<y, x>> \in OpToRel(<, Nat))
  BY <1>1, WFMin
<1>3. \A y \in T : <<y, x>> \in OpToRel(<, Nat) <=> y < x
  BY DEF OpToRel
<1>4. \A y \in T : ~(y < x)
  BY <1>2, <1>3, Zenon
<1> QED
  BY <1>4

(* #grantWaiting takes a prefix of the queue: nobody while there is a      *)
(* writer, one writer when nobody reads, or readers only.                  *)
LEMMA GrantCountFacts ==
    ASSUME NEW w, NEW r, NEW q \in Seq(Waiters)
    PROVE  LET n == GrantCount(w, r, q)
           IN  /\ n \in 0..Len(q)
               /\ n > 0 => w = NoOwner /\ q # <<>>
               /\ n > 0 /\ q[1].policy = "exclusive" => n = 1 /\ NoReaders(r)
               /\ n > 0 /\ q[1].policy # "exclusive" =>
                    \A m \in 1..n : q[m].policy = "shared"
               /\ n = 0 /\ q # <<>> => w # NoOwner \/ ~NoReaders(r)
<1>1. CASE w # NoOwner \/ q = <<>>
  BY <1>1 DEF GrantCount
<1>2. CASE w = NoOwner /\ q # <<>> /\ q[1].policy = "exclusive"
  BY <1>2 DEF GrantCount
<1>3. CASE w = NoOwner /\ q # <<>> /\ q[1].policy # "exclusive"
  <2> DEFINE Fits(n) == /\ \A m \in 1..n : q[m].policy = "shared"
                        /\ n < Len(q) => q[n + 1].policy = "exclusive"
             T == {n \in 1..Len(q) : q[n].policy = "exclusive"}
  <2>1. Len(q) \in Nat /\ Len(q) >= 1 /\ \A n \in 1..Len(q) : q[n] \in Waiters
    BY <1>3
  <2>2. \A n \in 1..Len(q) : q[n].policy \in {"shared", "exclusive"}
    BY <2>1 DEF Waiters, Policies
  <2>3. \E n \in 1..Len(q) : Fits(n)
    <3>1. CASE T = {}
      <4>1. Fits(Len(q))
        BY <2>1, <2>2, <3>1
      <4> QED BY <2>1, <4>1
    <3>2. CASE T # {}
      <4>1. T \subseteq Nat
        BY <2>1
      <4>2. PICK e \in T : \A y \in T : e <= y
        BY <3>2, <4>1, LeastElement
      <4>3. e \in 2..Len(q)
        BY <1>3, <2>1, <4>2
      <4>4. Fits(e - 1)
        BY <2>1, <2>2, <4>2, <4>3
      <4>5. e - 1 \in 1..Len(q)
        BY <2>1, <4>3
      <4> HIDE DEF Fits
      <4> QED BY <4>4, <4>5
    <3> QED BY <3>1, <3>2
  <2>4. GrantCount(w, r, q) = CHOOSE n \in 1..Len(q) : Fits(n)
    BY <1>3 DEF GrantCount
  <2> HIDE DEF Fits
  <2>5. GrantCount(w, r, q) \in 1..Len(q) /\ Fits(GrantCount(w, r, q))
    BY <2>3, <2>4
  <2> QED BY <1>3, <2>1, <2>5 DEF Fits
<1> QED BY <1>1, <1>2, <1>3

(* What Enqueue returns on a queue in creation order: the same queue with  *)
(* the new request inserted before every later one.                        *)
LEMMA EnqueueFacts ==
    ASSUME NEW q \in Seq(Waiters), NEW w \in Waiters,
           \A m, n \in 1..Len(q) : m < n => OrdinalOf[q[m].inv] <= OrdinalOf[q[n].inv]
    PROVE  /\ Enqueue(q, w) \in Seq(Waiters)
           /\ Len(Enqueue(q, w)) = Len(q) + 1
           /\ \E at \in 0..Len(q) :
                /\ \A n \in 1..at : OrdinalOf[q[n].inv] <= OrdinalOf[w.inv]
                /\ \A n \in (at + 1)..Len(q) : OrdinalOf[q[n].inv] > OrdinalOf[w.inv]
                /\ \A n \in 1..(Len(q) + 1) :
                    Enqueue(q, w)[n] = IF n <= at THEN q[n]
                                       ELSE IF n = at + 1 THEN w ELSE q[n - 1]
<1> DEFINE Fits(p) == /\ \A n \in 1..p : OrdinalOf[q[n].inv] <= OrdinalOf[w.inv]
                      /\ \A n \in (p + 1)..Len(q) : ~(OrdinalOf[q[n].inv] <= OrdinalOf[w.inv])
           T == {n \in 1..Len(q) : ~(OrdinalOf[q[n].inv] <= OrdinalOf[w.inv])}
           at == CHOOSE p \in 0..Len(q) : Fits(p)
<1>1. /\ Len(q) \in Nat
      /\ \A n \in 1..Len(q) : q[n] \in Waiters /\ OrdinalOf[q[n].inv] \in Nat
      /\ OrdinalOf[w.inv] \in Nat
  <2>1. Len(q) \in Nat /\ \A n \in 1..Len(q) : q[n] \in Waiters
    OBVIOUS
  <2>2. \A v \in Waiters : OrdinalOf[v.inv] \in Nat
    BY OrdinalsAssumption DEF Waiters
  <2> QED BY <2>1, <2>2
<1>2. \E p \in 0..Len(q) : Fits(p)
  <2>1. CASE T = {}
    <3>1. Fits(Len(q))
      BY <1>1, <2>1
    <3> QED BY <1>1, <3>1
  <2>2. CASE T # {}
    <3>1. T \subseteq Nat
      BY <1>1
    <3>2. PICK e \in T : \A y \in T : e <= y
      BY <2>2, <3>1, LeastElement
    <3>3. e \in 1..Len(q)
      BY <3>2
    <3>4. \A n \in 1..(e - 1) : OrdinalOf[q[n].inv] <= OrdinalOf[w.inv]
      BY <1>1, <3>2, <3>3
    <3>5. \A n \in e..Len(q) : ~(OrdinalOf[q[n].inv] <= OrdinalOf[w.inv])
      BY <1>1, <3>2, <3>3
    <3>6. Fits(e - 1)
      BY <1>1, <3>3, <3>4, <3>5
    <3>7. e - 1 \in 0..Len(q)
      BY <1>1, <3>3
    <3> HIDE DEF Fits
    <3> QED BY <3>6, <3>7
  <2> QED BY <2>1, <2>2
<1> HIDE DEF Fits
<1>3. at \in 0..Len(q) /\ Fits(at)
  BY <1>2
<1>4. Enqueue(q, w) = [n \in 1..(Len(q) + 1) |->
                         IF n <= at THEN q[n] ELSE IF n = at + 1 THEN w ELSE q[n - 1]]
  BY DEF Enqueue, Fits
<1> HIDE DEF at
<1>5. \A n \in 1..(Len(q) + 1) :
        (IF n <= at THEN q[n] ELSE IF n = at + 1 THEN w ELSE q[n - 1]) \in Waiters
  BY <1>1, <1>3
<1>6. Enqueue(q, w) \in Seq(Waiters) /\ Len(Enqueue(q, w)) = Len(q) + 1
  BY <1>1, <1>4, <1>5
<1>7. \A n \in (at + 1)..Len(q) : OrdinalOf[q[n].inv] > OrdinalOf[w.inv]
  BY <1>1, <1>3 DEF Fits
<1> QED BY <1>3, <1>4, <1>6, <1>7 DEF Fits

-----------------------------------------------------------------------------
(* The inductive invariant.  CountsMatchLeases carries the exclusion: a    *)
(* release decides from the counts alone whether the lock is free.         *)
LockInv ==
    /\ TypeOK
    /\ CountsMatchLeases
    /\ WriterExcludesReaders
    /\ NoLostWaiter
    /\ QueueSorted

(* The holders of a workspace are finitely many, whatever they hold it for. *)
LEMMA HoldersFinite ==
    ASSUME NEW k, NEW o
    PROVE  /\ IsFiniteSet(Holders(k))
           /\ IsFiniteSet(SharedHolders(k, o))
           /\ IsFiniteSet(ExclusiveHolders(k))
           /\ Cardinality(SharedHolders(k, o)) \in Nat
           /\ Cardinality(ExclusiveHolders(k)) \in Nat
<1>1. /\ Holders(k) \in SUBSET Invocations
      /\ SharedHolders(k, o) \in SUBSET Invocations
      /\ ExclusiveHolders(k) \in SUBSET Invocations
  BY DEF Holders, SharedHolders, ExclusiveHolders
<1>2. \A T \in SUBSET Invocations : IsFiniteSet(T) /\ Cardinality(T) \in Nat
  BY InvocationsAssumption, FS_Subset, FS_CardinalityType
<1> QED BY <1>1, <1>2

LEMMA InitLockInv == Init => LockInv
<1> SUFFICES ASSUME Init PROVE LockInv
  OBVIOUS
<1> USE DEF Init
<1>1. TypeOK
  BY OwnersAssumption, LeaseAssumption DEF TypeOK, Phases
<1>2. CountsMatchLeases
  <2>1. \A k \in Keys : Holders(k) = {}
    BY DEF Holders
  <2>2. \A k \in Keys, o \in Owners : SharedHolders(k, o) = {} /\ ExclusiveHolders(k) = {}
    BY <2>1 DEF SharedHolders, ExclusiveHolders
  <2>3. \A k \in Keys : ExclusiveHolders(k) = {}
    BY <2>1 DEF ExclusiveHolders
  <2> QED BY <2>2, <2>3, FS_EmptySet DEF CountsMatchLeases
<1>3. WriterExcludesReaders
  BY DEF WriterExcludesReaders
<1>4. NoLostWaiter
  BY DEF NoLostWaiter, QueuedWait, QueuedOnce, WaitersQueued
<1>5. QueueSorted
  BY DEF QueueSorted
<1> QED BY <1>1, <1>2, <1>3, <1>4, <1>5 DEF LockInv

(* What TypeOK says of the elements, ready to cite. *)
LEMMA Typing ==
    ASSUME TypeOK
    PROVE  /\ \A k \in Keys : /\ waiting[k] \in Seq(Waiters)
                             /\ Len(waiting[k]) \in Nat
                             /\ depth[k] \in Nat
           /\ \A k \in Keys : \A n \in 1..Len(waiting[k]) :
                /\ waiting[k][n] \in Waiters
                /\ waiting[k][n].inv \in Invocations
                /\ waiting[k][n].policy \in {"shared", "exclusive"}
           /\ \A k \in Keys, o \in Owners : readers[k][o] \in Nat
           /\ \A i \in Invocations :
                OwnerOf[i] \in Owners /\ OwnerOf[i] # NoOwner /\ OrdinalOf[i] \in Nat
<1>1. \A k \in Keys : waiting[k] \in Seq(Waiters) /\ depth[k] \in Nat
  BY DEF TypeOK
<1>2. \A k \in Keys : Len(waiting[k]) \in Nat
  BY <1>1
<1>3. \A k \in Keys : \A n \in 1..Len(waiting[k]) : waiting[k][n] \in Waiters
  BY <1>1
<1>4. \A v \in Waiters : v.inv \in Invocations /\ v.policy \in {"shared", "exclusive"}
  BY DEF Waiters, Policies
<1>5. \A k \in Keys, o \in Owners : readers[k][o] \in Nat
  BY DEF TypeOK
<1>6. \A i \in Invocations :
        OwnerOf[i] \in Owners /\ OwnerOf[i] # NoOwner /\ OrdinalOf[i] \in Nat
  BY OwnersAssumption, OrdinalsAssumption
<1> QED BY <1>1, <1>2, <1>3, <1>4, <1>5, <1>6

(* An invocation admitted on its first request is in no queue before and   *)
(* after.                                                                  *)
LEMMA AdmissionKeepsWaiters ==
    ASSUME TypeOK, NoLostWaiter, NEW i \in Invocations, NEW l,
           phase[i] = "idle",
           phase' = [phase EXCEPT ![i] = "held"],
           lease' = [lease EXCEPT ![i] = l],
           waiting' = waiting
    PROVE  NoLostWaiter'
<1>1. phase'[i] = "held" /\ \A j \in Invocations :
        j # i => phase'[j] = phase[j] /\ lease'[j] = lease[j]
  BY DEF TypeOK
<1>2. \A k \in Keys : \A n \in 1..Len(waiting[k]) :
        waiting[k][n].inv \in Invocations /\ waiting[k][n].inv # i
  <2>1. \A k \in Keys : \A n \in 1..Len(waiting[k]) : phase[waiting[k][n].inv] = "waiting"
    BY DEF NoLostWaiter, QueuedWait
  <2>2. \A k \in Keys : \A n \in 1..Len(waiting[k]) : waiting[k][n].inv \in Invocations
    BY Typing
  <2> QED BY <2>1, <2>2
<1>3. \A k \in Keys : \A n \in 1..Len(waiting'[k]) :
        /\ phase'[waiting'[k][n].inv] = "waiting"
        /\ lease'[waiting'[k][n].inv] = [key |-> k, policy |-> waiting'[k][n].policy]
  BY <1>1, <1>2 DEF NoLostWaiter, QueuedWait, QueuedOnce, WaitersQueued
<1>4. \A k \in Keys : \A m, n \in 1..Len(waiting'[k]) :
        waiting'[k][m].inv = waiting'[k][n].inv => m = n
  BY DEF NoLostWaiter, QueuedWait, QueuedOnce, WaitersQueued
<1>5. \A j \in Invocations : phase'[j] = "waiting" =>
        \E n \in 1..Len(waiting'[lease'[j].key]) : waiting'[lease'[j].key][n].inv = j
  BY <1>1 DEF NoLostWaiter, QueuedWait, QueuedOnce, WaitersQueued
<1> QED BY <1>3, <1>4, <1>5 DEF NoLostWaiter, QueuedWait, QueuedOnce, WaitersQueued

-----------------------------------------------------------------------------
(* Adding a holder adds one to the count of its kind and leaves the other  *)
(* counts alone. *)
LEMMA CountOneMore ==
    ASSUME NEW S, NEW T, NEW i, IsFiniteSet(S), i \notin S, T = S \cup {i}
    PROVE  Cardinality(T) = Cardinality(S) + 1
BY FS_AddElement

LEMMA ReenterKeepsInv ==
    ASSUME LockInv, NEW i \in Invocations, NEW k \in Keys, Reenter(i, k)
    PROVE  LockInv'
<1> USE DEF LockInv
<1>1. TypeOK'
  BY LeaseAssumption DEF TypeOK, Reenter, Requests, Policies, Phases
<1>2. /\ \A k2 \in Keys, o \in Owners : SharedHolders(k2, o)' = SharedHolders(k2, o)
      /\ \A k2 \in Keys : k2 # k => ExclusiveHolders(k2)' = ExclusiveHolders(k2)
      /\ ExclusiveHolders(k)' = ExclusiveHolders(k) \cup {i}
      /\ i \notin ExclusiveHolders(k)
  BY DEF TypeOK, Reenter, SharedHolders, ExclusiveHolders, Holders
<1>3. Cardinality(ExclusiveHolders(k)') = Cardinality(ExclusiveHolders(k)) + 1
  BY <1>2, CountOneMore, HoldersFinite
<1>4. depth[k] \in Nat /\ writer[k] # NoOwner /\ writer[k] = OwnerOf[i]
  BY Typing DEF Reenter
<1>5. CountsMatchLeases'
  <2> SUFFICES ASSUME NEW k2 \in Keys
               PROVE  /\ \A o \in Owners : readers'[k2][o] = Cardinality(SharedHolders(k2, o)')
                      /\ depth'[k2] = Cardinality(ExclusiveHolders(k2)')
                      /\ \A j \in ExclusiveHolders(k2)' : writer'[k2] = OwnerOf[j]
                      /\ writer'[k2] = NoOwner <=> depth'[k2] = 0
    BY DEF CountsMatchLeases
  <2>1. CASE k2 = k
    <3>1. depth'[k] = depth[k] + 1 /\ readers' = readers /\ writer' = writer
      BY DEF Reenter, TypeOK
    <3>2. \A o \in Owners : readers'[k][o] = Cardinality(SharedHolders(k, o)')
      BY <1>2, <3>1 DEF CountsMatchLeases
    <3>3. depth[k] = Cardinality(ExclusiveHolders(k))
      BY DEF CountsMatchLeases
    <3>4. \A j \in ExclusiveHolders(k)' : writer'[k] = OwnerOf[j]
      BY <1>2, <1>4, <3>1 DEF CountsMatchLeases
    <3> QED BY <1>3, <1>4, <2>1, <3>1, <3>2, <3>3, <3>4
  <2>2. CASE k2 # k
    BY <1>2, <2>2 DEF CountsMatchLeases, Reenter, TypeOK
  <2> QED BY <2>1, <2>2
<1>6. WriterExcludesReaders'
  BY DEF WriterExcludesReaders, NoReaders, Reenter
<1>7. NoLostWaiter'
  BY AdmissionKeepsWaiters DEF Reenter
<1>8. QueueSorted'
  BY DEF QueueSorted, Reenter
<1> QED BY <1>1, <1>5, <1>6, <1>7, <1>8

LEMMA AdmitSharedKeepsInv ==
    ASSUME LockInv, NEW i \in Invocations, NEW k \in Keys, AdmitShared(i, k)
    PROVE  LockInv'
<1> USE DEF LockInv
<1>1. TypeOK'
  <2>1. readers' \in [Keys -> [Owners -> Nat]]
    <3>1. readers[k] \in [Owners -> Nat] /\ OwnerOf[i] \in Owners
      BY OwnersAssumption DEF TypeOK
    <3>2. [readers[k] EXCEPT ![OwnerOf[i]] = @ + 1] \in [Owners -> Nat]
      BY <3>1
    <3>3. readers' = [readers EXCEPT ![k] = [readers[k] EXCEPT ![OwnerOf[i]] = @ + 1]]
      BY DEF AdmitShared, TypeOK
    <3> QED BY <3>2, <3>3 DEF TypeOK
  <2>2. writer' \in [Keys -> Owners \cup {NoOwner}] /\ depth' \in [Keys -> Nat]
    BY DEF TypeOK, AdmitShared
  <2>3. waiting' \in [Keys -> Seq(Waiters)] /\ tracked' \in SUBSET Keys
    BY DEF TypeOK, AdmitShared
  <2>4. /\ phase' \in [Invocations -> Phases]
        /\ lease' \in [Invocations -> Requests \cup {NoLease}]
        /\ \A j \in Invocations : phase'[j] = "idle" <=> lease'[j] = NoLease
    BY LeaseAssumption DEF TypeOK, AdmitShared, Requests, Policies, Phases
  <2> QED BY <2>1, <2>2, <2>3, <2>4 DEF TypeOK
<1>2. /\ \A k2 \in Keys, o \in Owners :
            k2 # k \/ o # OwnerOf[i] => SharedHolders(k2, o)' = SharedHolders(k2, o)
      /\ SharedHolders(k, OwnerOf[i])' = SharedHolders(k, OwnerOf[i]) \cup {i}
      /\ i \notin SharedHolders(k, OwnerOf[i])
      /\ \A k2 \in Keys : ExclusiveHolders(k2)' = ExclusiveHolders(k2)
  BY DEF TypeOK, AdmitShared, SharedHolders, ExclusiveHolders, Holders
<1>3. Cardinality(SharedHolders(k, OwnerOf[i])') = Cardinality(SharedHolders(k, OwnerOf[i])) + 1
  BY <1>2, CountOneMore, HoldersFinite
<1>4. OwnerOf[i] \in Owners
  BY OwnersAssumption
<1>5. CountsMatchLeases'
  <2> SUFFICES ASSUME NEW k2 \in Keys
               PROVE  /\ \A o \in Owners : readers'[k2][o] = Cardinality(SharedHolders(k2, o)')
                      /\ depth'[k2] = Cardinality(ExclusiveHolders(k2)')
                      /\ \A j \in ExclusiveHolders(k2)' : writer'[k2] = OwnerOf[j]
                      /\ writer'[k2] = NoOwner <=> depth'[k2] = 0
    BY DEF CountsMatchLeases
  <2>1. \A o \in Owners : readers'[k2][o] = Cardinality(SharedHolders(k2, o)')
    <3> SUFFICES ASSUME NEW o \in Owners
                 PROVE  readers'[k2][o] = Cardinality(SharedHolders(k2, o)')
      OBVIOUS
    <3>1. readers[k2][o] = Cardinality(SharedHolders(k2, o))
      BY DEF CountsMatchLeases
    <3>2. CASE k2 = k /\ o = OwnerOf[i]
      <4>1. readers'[k2][o] = readers[k2][o] + 1
        BY <3>2 DEF AdmitShared, TypeOK
      <4> QED BY <1>2, <1>3, <3>1, <3>2, <4>1
    <3>3. CASE k2 # k \/ o # OwnerOf[i]
      <4>1. readers'[k2][o] = readers[k2][o]
        BY <3>3 DEF AdmitShared, TypeOK
      <4> QED BY <1>2, <3>1, <3>3, <4>1
    <3> QED BY <3>2, <3>3
  <2>2. depth'[k2] = Cardinality(ExclusiveHolders(k2)')
    BY <1>2 DEF CountsMatchLeases, AdmitShared
  <2>3. \A j \in ExclusiveHolders(k2)' : writer'[k2] = OwnerOf[j]
    BY <1>2 DEF CountsMatchLeases, AdmitShared
  <2>4. writer'[k2] = NoOwner <=> depth'[k2] = 0
    BY DEF CountsMatchLeases, AdmitShared
  <2> QED BY <2>1, <2>2, <2>3, <2>4
<1>6. WriterExcludesReaders'
  BY DEF WriterExcludesReaders, NoReaders, AdmitShared, Available, TypeOK
<1>7. NoLostWaiter'
  BY AdmissionKeepsWaiters DEF AdmitShared
<1>8. QueueSorted'
  BY DEF QueueSorted, AdmitShared
<1> QED BY <1>1, <1>5, <1>6, <1>7, <1>8

LEMMA AdmitExclusiveKeepsInv ==
    ASSUME LockInv, NEW i \in Invocations, NEW k \in Keys, AdmitExclusive(i, k)
    PROVE  LockInv'
<1> USE DEF LockInv
<1>1. TypeOK'
  <2>1. OwnerOf[i] \in Owners
    BY OwnersAssumption
  <2>2. /\ readers' \in [Keys -> [Owners -> Nat]]
        /\ writer' \in [Keys -> Owners \cup {NoOwner}]
        /\ depth' \in [Keys -> Nat]
    BY <2>1 DEF TypeOK, AdmitExclusive
  <2>3. waiting' \in [Keys -> Seq(Waiters)] /\ tracked' \in SUBSET Keys
    BY DEF TypeOK, AdmitExclusive
  <2>4. /\ phase' \in [Invocations -> Phases]
        /\ lease' \in [Invocations -> Requests \cup {NoLease}]
        /\ \A j \in Invocations : phase'[j] = "idle" <=> lease'[j] = NoLease
    BY LeaseAssumption DEF TypeOK, AdmitExclusive, Requests, Policies, Phases
  <2> QED BY <2>2, <2>3, <2>4 DEF TypeOK
<1>2. /\ \A k2 \in Keys, o \in Owners : SharedHolders(k2, o)' = SharedHolders(k2, o)
      /\ \A k2 \in Keys : k2 # k => ExclusiveHolders(k2)' = ExclusiveHolders(k2)
      /\ ExclusiveHolders(k)' = ExclusiveHolders(k) \cup {i}
      /\ i \notin ExclusiveHolders(k)
  BY DEF TypeOK, AdmitExclusive, SharedHolders, ExclusiveHolders, Holders
<1>3. ExclusiveHolders(k) = {}
  <2>1. Cardinality(ExclusiveHolders(k)) = 0
    BY DEF CountsMatchLeases, AdmitExclusive, Available
  <2> QED BY <2>1, FS_EmptySet, HoldersFinite
<1>4. Cardinality(ExclusiveHolders(k)') = 1
  <2>1. ExclusiveHolders(k)' = {i}
    BY <1>2, <1>3
  <2>2. Cardinality({i}) = 1
    BY FS_Singleton
  <2> QED BY <2>1, <2>2
<1>5. OwnerOf[i] \in Owners /\ OwnerOf[i] # NoOwner
  BY OwnersAssumption
<1>6. CountsMatchLeases'
  <2> SUFFICES ASSUME NEW k2 \in Keys
               PROVE  /\ \A o \in Owners : readers'[k2][o] = Cardinality(SharedHolders(k2, o)')
                      /\ depth'[k2] = Cardinality(ExclusiveHolders(k2)')
                      /\ \A j \in ExclusiveHolders(k2)' : writer'[k2] = OwnerOf[j]
                      /\ writer'[k2] = NoOwner <=> depth'[k2] = 0
    BY DEF CountsMatchLeases
  <2>1. CASE k2 = k
    <3>1. depth'[k] = 1 /\ readers' = readers /\ writer'[k] = OwnerOf[i]
      BY DEF AdmitExclusive, TypeOK
    <3>2. \A o \in Owners : readers'[k][o] = Cardinality(SharedHolders(k, o)')
      BY <1>2, <3>1 DEF CountsMatchLeases
    <3>3. \A j \in ExclusiveHolders(k)' : writer'[k] = OwnerOf[j]
      BY <1>2, <1>3, <3>1
    <3> QED BY <1>4, <1>5, <2>1, <3>1, <3>2, <3>3
  <2>2. CASE k2 # k
    BY <1>2, <2>2 DEF CountsMatchLeases, AdmitExclusive, TypeOK
  <2> QED BY <2>1, <2>2
<1>7. WriterExcludesReaders'
  BY DEF WriterExcludesReaders, NoReaders, AdmitExclusive, Available, TypeOK
<1>8. NoLostWaiter'
  BY AdmissionKeepsWaiters DEF AdmitExclusive
<1>9. QueueSorted'
  BY DEF QueueSorted, AdmitExclusive
<1> QED BY <1>1, <1>6, <1>7, <1>8, <1>9

LEMMA WaitKeepsInv ==
    ASSUME LockInv, NEW i \in Invocations, NEW k \in Keys, NEW p \in Policies, Wait(i, k, p)
    PROVE  LockInv'
<1> USE DEF LockInv
<1> DEFINE w == [inv |-> i, policy |-> p]
           q == waiting[k]
<1>1. w \in Waiters /\ q \in Seq(Waiters)
  BY DEF Waiters, TypeOK
<1>2. \A m, n \in 1..Len(q) : m < n => OrdinalOf[q[m].inv] <= OrdinalOf[q[n].inv]
  BY DEF QueueSorted
<1>3. /\ Enqueue(q, w) \in Seq(Waiters)
      /\ Len(Enqueue(q, w)) = Len(q) + 1
  BY <1>1, <1>2, EnqueueFacts
<1>4. PICK at \in 0..Len(q) :
        /\ \A n \in 1..at : OrdinalOf[q[n].inv] <= OrdinalOf[w.inv]
        /\ \A n \in (at + 1)..Len(q) : OrdinalOf[q[n].inv] > OrdinalOf[w.inv]
        /\ \A n \in 1..(Len(q) + 1) :
            Enqueue(q, w)[n] = IF n <= at THEN q[n]
                               ELSE IF n = at + 1 THEN w ELSE q[n - 1]
  BY <1>1, <1>2, EnqueueFacts
<1>5. waiting' = [waiting EXCEPT ![k] = Enqueue(q, w)]
  BY DEF Wait
<1> HIDE DEF w
<1>6. TypeOK'
  BY <1>3, <1>5, LeaseAssumption DEF TypeOK, Wait, Requests, Policies, Phases
<1>7. /\ \A k2 \in Keys, o \in Owners : SharedHolders(k2, o)' = SharedHolders(k2, o)
      /\ \A k2 \in Keys : ExclusiveHolders(k2)' = ExclusiveHolders(k2)
  BY DEF TypeOK, Wait, SharedHolders, ExclusiveHolders, Holders
<1>8. CountsMatchLeases'
  BY <1>7 DEF CountsMatchLeases, Wait
<1>9. WriterExcludesReaders'
  BY DEF WriterExcludesReaders, NoReaders, Wait
<1>10. \A k2 \in Keys : k2 # k => waiting'[k2] = waiting[k2]
  BY <1>5 DEF TypeOK
<1>11. waiting'[k] = Enqueue(q, w)
  BY <1>5 DEF TypeOK
<1>12. w.inv = i /\ w.policy = p
  BY DEF w
<1>13. \A n \in 1..Len(q) : q[n].inv # i
  <2>1. \A n \in 1..Len(waiting[k]) : phase[waiting[k][n].inv] = "waiting"
    BY DEF NoLostWaiter, QueuedWait
  <2>2. phase[i] = "idle"
    BY DEF Wait
  <2> QED BY <2>1, <2>2
<1>14. QueueSorted'
  <2> SUFFICES ASSUME NEW k2 \in Keys, NEW m \in 1..Len(waiting'[k2]),
                      NEW n \in 1..Len(waiting'[k2]), m < n
               PROVE  OrdinalOf[waiting'[k2][m].inv] <= OrdinalOf[waiting'[k2][n].inv]
    BY DEF QueueSorted
  <2>1. CASE k2 # k
    BY <1>10, <2>1 DEF QueueSorted
  <2>2. CASE k2 = k
    <3>1. \A j \in 1..Len(q) : OrdinalOf[q[j].inv] \in Nat
      <4>1. \A j \in 1..Len(q) : q[j].inv \in Invocations
        BY Typing
      <4> QED BY <4>1, Typing
    <3>2. OrdinalOf[w.inv] \in Nat
      BY <1>12, OrdinalsAssumption
    <3>3. Len(q) \in Nat /\ m \in 1..(Len(q) + 1) /\ n \in 1..(Len(q) + 1)
      BY <1>1, <1>3, <1>11, <2>2
    <3>4. \A x \in 1..(Len(q) + 1) :
            OrdinalOf[waiting'[k2][x].inv] =
                IF x <= at THEN OrdinalOf[q[x].inv]
                ELSE IF x = at + 1 THEN OrdinalOf[w.inv] ELSE OrdinalOf[q[x - 1].inv]
      BY <1>4, <1>11, <2>2
    <3> DEFINE Ord(x) == OrdinalOf[q[x].inv]
               new == OrdinalOf[w.inv]
    <3>5. /\ \A x \in 1..Len(q) : Ord(x) \in Nat
          /\ \A x \in 1..at : Ord(x) <= new
          /\ \A x \in (at + 1)..Len(q) : Ord(x) > new
          /\ \A x, y \in 1..Len(q) : x < y => Ord(x) <= Ord(y)
          /\ \A x \in 1..(Len(q) + 1) :
                OrdinalOf[waiting'[k2][x].inv] =
                    IF x <= at THEN Ord(x) ELSE IF x = at + 1 THEN new ELSE Ord(x - 1)
      BY <1>2, <1>4, <3>1, <3>4
    <3> HIDE DEF Ord, new
    <3>6. new \in Nat
      BY <3>2 DEF new
    <3>7. CASE n <= at
      <4>1. m \in 1..at /\ n \in 1..at /\ m \in 1..Len(q) /\ n \in 1..Len(q)
        BY <3>3, <3>7
      <4>2. /\ OrdinalOf[waiting'[k2][m].inv] = Ord(m)
            /\ OrdinalOf[waiting'[k2][n].inv] = Ord(n)
        BY <3>3, <3>5, <4>1
      <4> QED BY <3>5, <4>1, <4>2
    <3>8. CASE n = at + 1
      <4>1. m \in 1..at /\ m \in 1..Len(q)
        BY <3>3, <3>8
      <4>2. /\ OrdinalOf[waiting'[k2][m].inv] = Ord(m)
            /\ OrdinalOf[waiting'[k2][n].inv] = new
        BY <3>3, <3>5, <3>8, <4>1
      <4> QED BY <3>5, <4>1, <4>2
    <3>9. CASE n > at + 1 /\ m <= at
      <4>1. OrdinalOf[waiting'[k2][n].inv] = Ord(n - 1)
        BY <3>3, <3>5, <3>9
      <4>2. OrdinalOf[waiting'[k2][m].inv] = Ord(m)
        BY <3>3, <3>5, <3>9
      <4>3. n - 1 \in (at + 1)..Len(q) /\ m \in 1..at
        BY <3>3, <3>9
      <4>4. Ord(n - 1) > new /\ Ord(m) <= new
        BY <3>3, <3>5, <4>3
      <4>5. Ord(n - 1) \in Nat /\ Ord(m) \in Nat
        BY <3>3, <3>5, <4>3
      <4> QED BY <3>6, <4>1, <4>2, <4>4, <4>5
    <3>10. CASE n > at + 1 /\ m > at
      <4>1. OrdinalOf[waiting'[k2][n].inv] = Ord(n - 1)
        BY <3>3, <3>5, <3>10
      <4>2. OrdinalOf[waiting'[k2][m].inv] = IF m = at + 1 THEN new ELSE Ord(m - 1)
        BY <3>3, <3>5, <3>10
      <4>3. n - 1 \in (at + 1)..Len(q)
        BY <3>3, <3>10
      <4>4. Ord(n - 1) > new /\ (m > at + 1 => Ord(m - 1) <= Ord(n - 1))
        BY <3>3, <3>5, <3>10, <4>3
      <4> QED BY <3>3, <3>5, <3>6, <3>10, <4>1, <4>2, <4>3, <4>4
    <3> QED BY <3>3, <3>7, <3>8, <3>9, <3>10
  <2> QED BY <2>1, <2>2
<1>15. NoLostWaiter'
  <2>1. /\ phase' = [phase EXCEPT ![i] = "waiting"]
        /\ lease' = [lease EXCEPT ![i] = [key |-> k, policy |-> p]]
        /\ phase[i] = "idle"
    BY DEF Wait
  <2>2. phase'[i] = "waiting" /\ lease'[i] = [key |-> k, policy |-> p]
    BY <2>1 DEF TypeOK
  <2>3. \A j \in Invocations : j # i => phase'[j] = phase[j] /\ lease'[j] = lease[j]
    BY <2>1 DEF TypeOK
  <2>4. \A k2 \in Keys : \A n \in 1..Len(waiting[k2]) :
            /\ waiting[k2][n].inv \in Invocations /\ waiting[k2][n].inv # i
    <3>1. \A k2 \in Keys : \A n \in 1..Len(waiting[k2]) : phase[waiting[k2][n].inv] = "waiting"
      BY DEF NoLostWaiter, QueuedWait
    <3>2. \A k2 \in Keys : \A n \in 1..Len(waiting[k2]) : waiting[k2][n].inv \in Invocations
      BY Typing
    <3> QED BY <2>1, <3>1, <3>2
  <2>5. \A k2 \in Keys : \A n \in 1..Len(waiting'[k2]) :
            /\ phase'[waiting'[k2][n].inv] = "waiting"
            /\ lease'[waiting'[k2][n].inv] = [key |-> k2, policy |-> waiting'[k2][n].policy]
    <3> SUFFICES ASSUME NEW k2 \in Keys, NEW n \in 1..Len(waiting'[k2])
                 PROVE  /\ phase'[waiting'[k2][n].inv] = "waiting"
                        /\ lease'[waiting'[k2][n].inv] = [key |-> k2, policy |-> waiting'[k2][n].policy]
      OBVIOUS
    <3>1. CASE k2 # k
      BY <1>10, <2>3, <2>4, <3>1 DEF NoLostWaiter, QueuedWait, QueuedOnce, WaitersQueued
    <3>2. CASE k2 = k
      <4>1. n \in 1..(Len(q) + 1) /\ Len(q) \in Nat
        BY <1>1, <1>3, <1>11, <3>2
      <4>2. waiting'[k2][n] = w \/ \E m \in 1..Len(q) : waiting'[k2][n] = q[m]
        BY <1>4, <1>11, <3>2, <4>1
      <4>3. CASE waiting'[k2][n] = w
        BY <1>12, <2>2, <3>2, <4>3
      <4>4. CASE \E m \in 1..Len(q) : waiting'[k2][n] = q[m]
        BY <2>3, <2>4, <3>2, <4>4 DEF NoLostWaiter, QueuedWait, QueuedOnce, WaitersQueued
      <4> QED BY <4>2, <4>3, <4>4
    <3> QED BY <3>1, <3>2
  <2>6. \A k2 \in Keys : \A m, n \in 1..Len(waiting'[k2]) :
            waiting'[k2][m].inv = waiting'[k2][n].inv => m = n
    <3> SUFFICES ASSUME NEW k2 \in Keys, NEW m \in 1..Len(waiting'[k2]),
                        NEW n \in 1..Len(waiting'[k2]),
                        waiting'[k2][m].inv = waiting'[k2][n].inv
                 PROVE  m = n
      OBVIOUS
    <3>1. CASE k2 # k
      BY <1>10, <3>1 DEF NoLostWaiter, QueuedWait, QueuedOnce, WaitersQueued
    <3>2. CASE k2 = k
      <4>1. n \in 1..(Len(q) + 1) /\ m \in 1..(Len(q) + 1) /\ Len(q) \in Nat
        BY <1>1, <1>3, <1>11, <3>2
      <4>2. \A x, y \in 1..Len(q) : q[x].inv = q[y].inv => x = y
        BY DEF NoLostWaiter, QueuedOnce
      <4>3. \A x \in 1..(Len(q) + 1) :
                Enqueue(q, w)[x].inv = IF x <= at THEN q[x].inv
                                       ELSE IF x = at + 1 THEN i ELSE q[x - 1].inv
        BY <1>4, <1>12
      <4>4. Enqueue(q, w)[m].inv = Enqueue(q, w)[n].inv
        BY <1>11, <3>2
      <4> DEFINE Inv(x) == q[x].inv
                 new(x) == Enqueue(q, w)[x].inv
      <4>5. /\ \A x \in 1..Len(q) : Inv(x) # i
            /\ \A x, y \in 1..Len(q) : Inv(x) = Inv(y) => x = y
            /\ \A x \in 1..(Len(q) + 1) :
                new(x) = IF x <= at THEN Inv(x) ELSE IF x = at + 1 THEN i ELSE Inv(x - 1)
            /\ new(m) = new(n)
        BY <1>13, <4>2, <4>3, <4>4
      <4> HIDE DEF Inv, new
      <4>6. CASE m = at + 1 \/ n = at + 1
        BY <4>1, <4>5, <4>6
      <4>7. CASE m <= at /\ n <= at
        BY <4>1, <4>5, <4>7
      <4>8. CASE m <= at /\ n > at + 1
        <5>1. new(m) = Inv(m) /\ new(n) = Inv(n - 1)
          BY <4>1, <4>5, <4>8
        <5>2. m \in 1..Len(q) /\ n - 1 \in 1..Len(q) /\ m # n - 1
          BY <4>1, <4>8
        <5> QED BY <4>5, <5>1, <5>2
      <4>9. CASE m > at + 1 /\ n <= at
        <5>1. new(m) = Inv(m - 1) /\ new(n) = Inv(n)
          BY <4>1, <4>5, <4>9
        <5>2. m - 1 \in 1..Len(q) /\ n \in 1..Len(q) /\ m - 1 # n
          BY <4>1, <4>9
        <5> QED BY <4>5, <5>1, <5>2
      <4>10. CASE m > at + 1 /\ n > at + 1
        <5>1. new(m) = Inv(m - 1) /\ new(n) = Inv(n - 1)
          BY <4>1, <4>5, <4>10
        <5>2. m - 1 \in 1..Len(q) /\ n - 1 \in 1..Len(q)
          BY <4>1, <4>10
        <5>3. m - 1 = n - 1
          BY <4>5, <5>1, <5>2
        <5> QED BY <4>1, <5>3
      <4> QED BY <4>1, <4>6, <4>7, <4>8, <4>9, <4>10
    <3> QED BY <3>1, <3>2
  <2>7. \A j \in Invocations : phase'[j] = "waiting" =>
            \E n \in 1..Len(waiting'[lease'[j].key]) : waiting'[lease'[j].key][n].inv = j
    <3> SUFFICES ASSUME NEW j \in Invocations, phase'[j] = "waiting"
                 PROVE  \E n \in 1..Len(waiting'[lease'[j].key]) :
                            waiting'[lease'[j].key][n].inv = j
      OBVIOUS
    <3>1. CASE j = i
      <4>1. lease'[j].key = k
        BY <2>2, <3>1
      <4>2. at + 1 \in 1..(Len(q) + 1) /\ Enqueue(q, w)[at + 1] = w
        BY <1>1, <1>4
      <4> QED BY <1>3, <1>11, <1>12, <3>1, <4>1, <4>2
    <3>2. CASE j # i
      <4>1. phase[j] = "waiting" /\ lease'[j] = lease[j]
        BY <2>3, <3>2
      <4>2. PICK n \in 1..Len(waiting[lease[j].key]) : waiting[lease[j].key][n].inv = j
        BY <4>1 DEF NoLostWaiter, QueuedWait, QueuedOnce, WaitersQueued
      <4>3. lease[j].key \in Keys
        BY <4>1, LeaseAssumption DEF TypeOK, Requests
      <4>4. CASE lease[j].key # k
        BY <1>10, <4>1, <4>2, <4>3, <4>4
      <4>5. CASE lease[j].key = k
        <5>1. Len(q) \in Nat /\ n \in 1..Len(q) /\ q[n].inv = j
          BY <1>1, <4>2, <4>5
        <5>2. CASE n <= at
          <6>1. n \in 1..(Len(q) + 1) /\ Enqueue(q, w)[n] = q[n]
            BY <1>4, <5>1, <5>2
          <6> QED BY <1>3, <1>11, <4>1, <4>5, <5>1, <6>1
        <5>3. CASE n > at
          <6>1. n + 1 \in 1..(Len(q) + 1) /\ Enqueue(q, w)[n + 1] = q[n]
            BY <1>4, <5>1, <5>3
          <6> QED BY <1>3, <1>11, <4>1, <4>5, <5>1, <6>1
        <5> QED BY <1>1, <5>1, <5>2, <5>3
      <4> QED BY <4>4, <4>5
    <3> QED BY <3>1, <3>2
  <2> QED BY <2>5, <2>6, <2>7 DEF NoLostWaiter, QueuedWait, QueuedOnce, WaitersQueued
<1> QED BY <1>6, <1>8, <1>9, <1>14, <1>15

-----------------------------------------------------------------------------
(* The lock a release leaves before it grants: its counts are those of the *)
(* remaining leases, and it is free exactly when no exclusive one is left. *)
LEMMA ReleaseCounts ==
    ASSUME LockInv, NEW i \in Invocations, phase[i] = "held", NEW k, k = lease[i].key
    PROVE  /\ k \in Keys
           /\ lease[i].policy \in {"shared", "exclusive"}
           /\ ReadersAfter(i, k) \in [Owners -> Nat]
           /\ \A o \in Owners :
                ReadersAfter(i, k)[o] = Cardinality(SharedHolders(k, o) \ {i})
           /\ DepthAfter(i, k) = Cardinality(ExclusiveHolders(k) \ {i})
           /\ \A j \in ExclusiveHolders(k) \ {i} : WriterAfter(i, k) = OwnerOf[j]
           /\ WriterAfter(i, k) \in Owners \cup {NoOwner}
           /\ WriterAfter(i, k) = NoOwner <=> DepthAfter(i, k) = 0
           /\ WriterAfter(i, k) # NoOwner => NoReaders(ReadersAfter(i, k))
<1> USE DEF LockInv
<1>1. lease[i] \in Requests
  BY DEF TypeOK
<1>2. k \in Keys /\ lease[i].policy \in {"shared", "exclusive"}
  BY <1>1 DEF Requests, Policies
<1>3. i \in Holders(k) /\ OwnerOf[i] \in Owners /\ OwnerOf[i] # NoOwner
  BY Typing DEF Holders
<1>4. /\ readers[k] \in [Owners -> Nat]
      /\ writer[k] \in Owners \cup {NoOwner}
      /\ depth[k] \in Nat
  BY <1>2 DEF TypeOK
<1>5. /\ \A o \in Owners : readers[k][o] = Cardinality(SharedHolders(k, o))
      /\ depth[k] = Cardinality(ExclusiveHolders(k))
      /\ \A j \in ExclusiveHolders(k) : writer[k] = OwnerOf[j]
      /\ writer[k] = NoOwner <=> depth[k] = 0
      /\ writer[k] # NoOwner => NoReaders(readers[k])
  BY <1>2 DEF CountsMatchLeases, WriterExcludesReaders
<1>6. CASE lease[i].policy = "shared"
  <2>1. /\ i \in SharedHolders(k, OwnerOf[i])
        /\ \A o \in Owners : o # OwnerOf[i] => i \notin SharedHolders(k, o)
        /\ i \notin ExclusiveHolders(k)
    BY <1>3, <1>6 DEF SharedHolders, ExclusiveHolders
  <2>2. \A o \in Owners : Cardinality(SharedHolders(k, o) \ {i}) =
            IF o = OwnerOf[i] THEN Cardinality(SharedHolders(k, o)) - 1
            ELSE Cardinality(SharedHolders(k, o))
    BY <2>1, HoldersFinite, FS_RemoveElement
  <2>3. readers[k][OwnerOf[i]] >= 1
    <3>1. Cardinality(SharedHolders(k, OwnerOf[i])) # 0
      BY <2>1, HoldersFinite, FS_EmptySet
    <3> QED BY <1>3, <1>4, <1>5, <3>1
  <2>4. ReadersAfter(i, k) = [readers[k] EXCEPT ![OwnerOf[i]] = readers[k][OwnerOf[i]] - 1]
    <3>1. readers[k][OwnerOf[i]] \in Nat
      BY <1>3, <1>4
    <3>2. (IF readers[k][OwnerOf[i]] <= 1 THEN 0 ELSE readers[k][OwnerOf[i]] - 1)
            = readers[k][OwnerOf[i]] - 1
      BY <2>3, <3>1
    <3> QED BY <1>3, <1>4, <1>6, <3>2 DEF ReadersAfter
  <2>5. readers[k][OwnerOf[i]] - 1 \in Nat
    BY <1>3, <1>4, <2>3
  <2>6. ReadersAfter(i, k) \in [Owners -> Nat]
    BY <1>3, <1>4, <2>4, <2>5
  <2>7. \A o \in Owners : ReadersAfter(i, k)[o] = Cardinality(SharedHolders(k, o) \ {i})
    BY <1>3, <1>4, <1>5, <2>2, <2>4
  <2>8. /\ DepthAfter(i, k) = depth[k] /\ WriterAfter(i, k) = writer[k]
        /\ ExclusiveHolders(k) \ {i} = ExclusiveHolders(k)
    BY <1>6, <2>1 DEF DepthAfter, WriterAfter
  <2>9. writer[k] = NoOwner
    BY <1>3, <1>4, <1>5, <2>3 DEF NoReaders
  <2> QED BY <1>2, <1>4, <1>5, <2>6, <2>7, <2>8, <2>9
<1>7. CASE lease[i].policy = "exclusive"
  <2>1. /\ i \in ExclusiveHolders(k)
        /\ \A o \in Owners : SharedHolders(k, o) \ {i} = SharedHolders(k, o)
    BY <1>3, <1>7 DEF SharedHolders, ExclusiveHolders
  <2>2. Cardinality(ExclusiveHolders(k) \ {i}) = depth[k] - 1 /\ writer[k] = OwnerOf[i]
    BY <1>5, <2>1, HoldersFinite, FS_RemoveElement
  <2>3. ReadersAfter(i, k) = readers[k] /\ DepthAfter(i, k) = depth[k] - 1
    BY <1>7, <2>2 DEF ReadersAfter, DepthAfter
  <2>4. WriterAfter(i, k) = IF DepthAfter(i, k) = 0 THEN NoOwner ELSE writer[k]
    BY <1>7, <2>2 DEF WriterAfter
  <2>5. NoReaders(readers[k])
    BY <1>3, <1>5, <2>2
  <2>6. \A j \in ExclusiveHolders(k) \ {i} : DepthAfter(i, k) # 0
    <3>1. IsFiniteSet(ExclusiveHolders(k) \ {i})
      BY HoldersFinite, FS_RemoveElement
    <3> QED BY <2>2, <2>3, <3>1, FS_EmptySet
  <2>7. \A j \in ExclusiveHolders(k) \ {i} : WriterAfter(i, k) = OwnerOf[j]
    BY <1>5, <2>4, <2>6
  <2>8. WriterAfter(i, k) \in Owners \cup {NoOwner}
    BY <1>4, <2>4
  <2>9. WriterAfter(i, k) = NoOwner <=> DepthAfter(i, k) = 0
    BY <1>3, <2>2, <2>4
  <2>10. \A o \in Owners : ReadersAfter(i, k)[o] = Cardinality(SharedHolders(k, o) \ {i})
    BY <1>5, <2>1, <2>3
  <2> QED BY <1>2, <1>4, <2>2, <2>3, <2>5, <2>7, <2>8, <2>9, <2>10
<1> QED BY <1>2, <1>6, <1>7

LEMMA ReleaseKeepsInv ==
    ASSUME LockInv, NEW i \in Invocations, Release(i), NEW k, k = lease[i].key
    PROVE  LockInv'
<1> USE DEF LockInv
<1> DEFINE q == waiting[k]
           r == ReadersAfter(i, k)
           d == DepthAfter(i, k)
           w == WriterAfter(i, k)
           n == GrantCount(w, r, q)
           granted == {q[m].inv : m \in 1..n}
           grantedTo(o) == {j \in granted : OwnerOf[j] = o}
           toWriter == n > 0 /\ q[1].policy = "exclusive"
           rest == SubSeq(q, n + 1, Len(q))
<1>1. /\ phase[i] = "held"
      /\ waiting' = [waiting EXCEPT ![k] = rest]
      /\ writer' = [writer EXCEPT ![k] = IF toWriter THEN OwnerOf[q[1].inv] ELSE w]
      /\ depth' = [depth EXCEPT ![k] = IF toWriter THEN 1 ELSE d]
      /\ readers' = [readers EXCEPT ![k] =
                        IF toWriter THEN r
                        ELSE [o \in Owners |-> r[o] + Cardinality(grantedTo(o))]]
      /\ phase' = [j \in Invocations |->
                        IF j = i THEN "released"
                        ELSE IF j \in granted THEN "held" ELSE phase[j]]
      /\ tracked' \subseteq tracked
      /\ lease' = lease
  BY ZenonT(40) DEF Release
<1>2. /\ k \in Keys
      /\ r \in [Owners -> Nat]
      /\ \A o \in Owners : r[o] = Cardinality(SharedHolders(k, o) \ {i})
      /\ d = Cardinality(ExclusiveHolders(k) \ {i})
      /\ \A j \in ExclusiveHolders(k) \ {i} : w = OwnerOf[j]
      /\ w \in Owners \cup {NoOwner}
      /\ w = NoOwner <=> d = 0
      /\ w # NoOwner => NoReaders(r)
  BY ZenonT(40), <1>1, ReleaseCounts
<1>3. q \in Seq(Waiters) /\ Len(q) \in Nat
  BY <1>2, Typing
<1>4. /\ n \in 0..Len(q)
      /\ n > 0 => w = NoOwner /\ q # <<>>
      /\ n > 0 /\ q[1].policy = "exclusive" => n = 1 /\ NoReaders(r)
      /\ n > 0 /\ q[1].policy # "exclusive" => \A m \in 1..n : q[m].policy = "shared"
  BY <1>3, GrantCountFacts
<1>5. \A m \in 1..Len(q) :
        /\ q[m].inv \in Invocations
        /\ phase[q[m].inv] = "waiting"
        /\ lease[q[m].inv] = [key |-> k, policy |-> q[m].policy]
  <2>1. \A m \in 1..Len(q) : q[m].inv \in Invocations
    BY <1>2, Typing
  <2> QED BY <1>2, <2>1 DEF NoLostWaiter, QueuedWait
<1>6. \A m, m2 \in 1..Len(q) : q[m].inv = q[m2].inv => m = m2
  BY <1>2 DEF NoLostWaiter, QueuedOnce
<1>7. /\ rest \in Seq(Waiters)
      /\ Len(rest) = Len(q) - n
      /\ \A m \in 1..(Len(q) - n) : rest[m] = q[m + n] /\ m + n \in 1..Len(q)
  <2>1. /\ n \in Nat /\ n <= Len(q)
    BY <1>3, <1>4
  <2> HIDE DEF n, q
  <2> QED BY <1>3, <2>1
<1>8. granted \subseteq Invocations /\ i \notin granted
  <2>1. \A m \in 1..n : q[m].inv \in Invocations /\ q[m].inv # i
    <3>1. \A m \in 1..n : m \in 1..Len(q)
      BY <1>3, <1>4
    <3> HIDE DEF n, q
    <3> QED BY <1>1, <1>5, <3>1
  <2> HIDE DEF n, q
  <2> QED BY <2>1
<1>9. \A j \in granted : /\ phase[j] = "waiting"
                         /\ lease[j].key = k
                         /\ lease[j].policy = IF toWriter THEN "exclusive" ELSE "shared"
  <2> SUFFICES ASSUME NEW m \in 1..n
               PROVE  /\ phase[q[m].inv] = "waiting"
                      /\ lease[q[m].inv].key = k
                      /\ lease[q[m].inv].policy = IF toWriter THEN "exclusive" ELSE "shared"
    OBVIOUS
  <2>1. m \in 1..Len(q) /\ n > 0
    BY <1>3, <1>4
  <2>2. q[m].policy = IF toWriter THEN "exclusive" ELSE "shared"
    BY <1>4, <2>1
  <2>3. phase[q[m].inv] = "waiting" /\ lease[q[m].inv] = [key |-> k, policy |-> q[m].policy]
    BY <1>5, <2>1
  <2> HIDE DEF toWriter, n, q
  <2> QED BY <2>2, <2>3
<1>10. toWriter => /\ n = 1 /\ w = NoOwner /\ NoReaders(r) /\ d = 0
                   /\ granted = {q[1].inv}
                   /\ q[1].inv \in Invocations
  <2> SUFFICES ASSUME toWriter
               PROVE  /\ n = 1 /\ w = NoOwner /\ NoReaders(r) /\ d = 0
                      /\ granted = {q[1].inv}
                      /\ q[1].inv \in Invocations
    OBVIOUS
  <2>1. n = 1 /\ w = NoOwner /\ NoReaders(r) /\ d = 0
    BY <1>2, <1>4
  <2>2. granted = {q[1].inv}
    <3> HIDE DEF n, q
    <3> QED BY <2>1
  <2>3. 1 \in 1..Len(q)
    BY <1>3, <1>4, <2>1
  <2> QED BY <1>5, <2>1, <2>2, <2>3
<1>11. \A j \in granted : w = NoOwner
  BY <1>3, <1>4
<1> HIDE DEF q, r, d, w, n, granted, toWriter, rest
<1>12. /\ \A k2 \in Keys : k2 # k =>
            /\ readers'[k2] = readers[k2] /\ writer'[k2] = writer[k2]
            /\ depth'[k2] = depth[k2] /\ waiting'[k2] = waiting[k2]
       /\ waiting'[k] = rest
       /\ writer'[k] = IF toWriter THEN OwnerOf[q[1].inv] ELSE w
       /\ depth'[k] = IF toWriter THEN 1 ELSE d
       /\ readers'[k] = IF toWriter THEN r
                        ELSE [o \in Owners |-> r[o] + Cardinality(grantedTo(o))]
  BY <1>1, <1>2 DEF TypeOK
<1>13. /\ phase'[i] = "released"
       /\ \A j \in granted : phase'[j] = "held"
       /\ \A j \in Invocations : j # i /\ j \notin granted => phase'[j] = phase[j]
  BY <1>1, <1>8
<1>14. i \in Holders(k)
  BY <1>1 DEF Holders
<1>15. \A k2 \in Keys : Holders(k2)' =
            IF k2 = k THEN (Holders(k) \ {i}) \cup granted ELSE Holders(k2)
  <2> SUFFICES ASSUME NEW k2 \in Keys, NEW j \in Invocations
               PROVE  j \in Holders(k2)' <=>
                        j \in IF k2 = k THEN (Holders(k) \ {i}) \cup granted ELSE Holders(k2)
    BY <1>8 DEF Holders
  <2>1. j \in Holders(k2)' <=> phase'[j] = "held" /\ lease[j].key = k2
    BY <1>1 DEF Holders
  <2>2. j \in Holders(k2) <=> phase[j] = "held" /\ lease[j].key = k2
    BY DEF Holders
  <2>3. CASE j = i
    BY <1>8, <1>13, <1>14, <2>1, <2>2, <2>3 DEF Holders
  <2>4. CASE j \in granted
    BY <1>8, <1>9, <1>13, <2>1, <2>2, <2>4 DEF Holders
  <2>5. CASE j # i /\ j \notin granted
    BY <1>13, <2>1, <2>2, <2>5 DEF Holders
  <2> QED BY <2>3, <2>4, <2>5
<1>16. \A k2 \in Keys, o \in Owners : SharedHolders(k2, o)' =
            IF k2 # k THEN SharedHolders(k2, o)
            ELSE IF toWriter THEN SharedHolders(k, o) \ {i}
            ELSE (SharedHolders(k, o) \ {i}) \cup grantedTo(o)
  BY <1>1, <1>9, <1>15 DEF SharedHolders
<1>17. \A k2 \in Keys : ExclusiveHolders(k2)' =
            IF k2 # k THEN ExclusiveHolders(k2)
            ELSE IF toWriter THEN (ExclusiveHolders(k) \ {i}) \cup granted
            ELSE ExclusiveHolders(k) \ {i}
  BY <1>1, <1>9, <1>15 DEF ExclusiveHolders
<1>18. \A o \in Owners :
        /\ IsFiniteSet(grantedTo(o)) /\ Cardinality(grantedTo(o)) \in Nat
        /\ IsFiniteSet(SharedHolders(k, o) \ {i})
        /\ Cardinality(SharedHolders(k, o) \ {i}) \in Nat
        /\ Cardinality((SharedHolders(k, o) \ {i}) \cup grantedTo(o)) =
                Cardinality(SharedHolders(k, o) \ {i}) + Cardinality(grantedTo(o))
  <2> SUFFICES ASSUME NEW o \in Owners
               PROVE  /\ IsFiniteSet(grantedTo(o)) /\ Cardinality(grantedTo(o)) \in Nat
                      /\ IsFiniteSet(SharedHolders(k, o) \ {i})
                      /\ Cardinality(SharedHolders(k, o) \ {i}) \in Nat
                      /\ Cardinality((SharedHolders(k, o) \ {i}) \cup grantedTo(o)) =
                            Cardinality(SharedHolders(k, o) \ {i}) + Cardinality(grantedTo(o))
    OBVIOUS
  <2>1. grantedTo(o) \in SUBSET Invocations
    BY <1>8
  <2>2. IsFiniteSet(grantedTo(o)) /\ Cardinality(grantedTo(o)) \in Nat
    BY <2>1, InvocationsAssumption, FS_Subset, FS_CardinalityType
  <2>3. IsFiniteSet(SharedHolders(k, o) \ {i}) /\ Cardinality(SharedHolders(k, o) \ {i}) \in Nat
    BY HoldersFinite, FS_RemoveElement, FS_CardinalityType
  <2>4. (SharedHolders(k, o) \ {i}) \cap grantedTo(o) = {}
    BY <1>9 DEF SharedHolders, Holders
  <2>5. Cardinality((SharedHolders(k, o) \ {i}) \cap grantedTo(o)) = 0
    BY <2>4, FS_EmptySet
  <2> HIDE DEF grantedTo
  <2>6. Cardinality((SharedHolders(k, o) \ {i}) \cup grantedTo(o)) =
            Cardinality(SharedHolders(k, o) \ {i}) + Cardinality(grantedTo(o))
                - Cardinality((SharedHolders(k, o) \ {i}) \cap grantedTo(o))
    BY <2>2, <2>3, FS_Union
  <2> QED BY <2>2, <2>3, <2>5, <2>6
<1> HIDE DEF grantedTo
<1>19. CountsMatchLeases'
  <2> SUFFICES ASSUME NEW k2 \in Keys
               PROVE  /\ \A o \in Owners : readers'[k2][o] = Cardinality(SharedHolders(k2, o)')
                      /\ depth'[k2] = Cardinality(ExclusiveHolders(k2)')
                      /\ \A j \in ExclusiveHolders(k2)' : writer'[k2] = OwnerOf[j]
                      /\ writer'[k2] = NoOwner <=> depth'[k2] = 0
    BY DEF CountsMatchLeases
  <2>1. CASE k2 # k
    BY <1>12, <1>16, <1>17, <2>1 DEF CountsMatchLeases
  <2>2. CASE k2 = k /\ toWriter
    <3>1. ExclusiveHolders(k) \ {i} = {}
      <4>1. IsFiniteSet(ExclusiveHolders(k) \ {i})
        BY HoldersFinite, FS_RemoveElement
      <4> QED BY <1>2, <1>10, <2>2, <4>1, FS_EmptySet
    <3>2. ExclusiveHolders(k)' = {q[1].inv}
      BY <1>2, <1>10, <1>17, <2>2, <3>1
    <3>3. Cardinality(ExclusiveHolders(k)') = 1
      BY <3>2, FS_Singleton
    <3>4. writer'[k] = OwnerOf[q[1].inv] /\ OwnerOf[q[1].inv] # NoOwner
      BY <1>10, <1>12, <2>2, Typing
    <3>5. \A o \in Owners : readers'[k][o] = Cardinality(SharedHolders(k, o)')
      BY <1>2, <1>12, <1>16, <2>2
    <3> QED BY <1>12, <2>2, <3>2, <3>3, <3>4, <3>5
  <2>3. CASE k2 = k /\ ~toWriter
    <3>1. \A o \in Owners : readers'[k][o] = Cardinality(SharedHolders(k, o)')
      <4> SUFFICES ASSUME NEW o \in Owners
                   PROVE  readers'[k][o] = Cardinality(SharedHolders(k, o)')
        OBVIOUS
      <4>1. readers'[k][o] = r[o] + Cardinality(grantedTo(o))
        BY <1>12, <2>3
      <4>2. SharedHolders(k, o)' = (SharedHolders(k, o) \ {i}) \cup grantedTo(o)
        BY <1>2, <1>16, <2>3
      <4>3. Cardinality((SharedHolders(k, o) \ {i}) \cup grantedTo(o)) =
                Cardinality(SharedHolders(k, o) \ {i}) + Cardinality(grantedTo(o))
        BY <1>18
      <4>4. r[o] = Cardinality(SharedHolders(k, o) \ {i})
        BY <1>2
      <4> QED BY <4>1, <4>2, <4>3, <4>4
    <3>2. ExclusiveHolders(k)' = ExclusiveHolders(k) \ {i}
      BY <1>2, <1>17, <2>3
    <3> QED BY <1>2, <1>12, <2>3, <3>1, <3>2
  <2> QED BY <2>1, <2>2, <2>3
<1>20. \A o \in Owners : r[o] \in Nat /\ (w # NoOwner => Cardinality(grantedTo(o)) = 0)
  <2>1. \A o \in Owners : w # NoOwner => grantedTo(o) = {}
    BY <1>11 DEF grantedTo
  <2> QED BY <1>2, <2>1, FS_EmptySet
<1>21. WriterExcludesReaders'
  <2> SUFFICES ASSUME NEW k2 \in Keys, writer'[k2] # NoOwner, NEW o \in Owners
               PROVE  readers'[k2][o] = 0
    BY DEF WriterExcludesReaders, NoReaders
  <2>1. CASE k2 # k
    BY <1>12, <2>1 DEF WriterExcludesReaders, NoReaders
  <2>2. CASE k2 = k /\ toWriter
    BY <1>10, <1>12, <2>2 DEF NoReaders
  <2>3. CASE k2 = k /\ ~toWriter
    <3>1. r[o] = 0 /\ readers'[k][o] = r[o] + Cardinality(grantedTo(o))
      BY <1>2, <1>12, <2>3 DEF NoReaders
    <3> QED BY <1>12, <1>20, <2>3, <3>1
  <2> QED BY <2>1, <2>2, <2>3
<1>22. TypeOK'
  <2>1. readers' \in [Keys -> [Owners -> Nat]]
    <3>1. [o \in Owners |-> r[o] + Cardinality(grantedTo(o))] \in [Owners -> Nat]
      <4>1. \A o \in Owners : r[o] + Cardinality(grantedTo(o)) \in Nat
        <5> SUFFICES ASSUME NEW o \in Owners
                     PROVE  r[o] + Cardinality(grantedTo(o)) \in Nat
          OBVIOUS
        <5>1. r[o] \in Nat /\ Cardinality(grantedTo(o)) \in Nat
          BY <1>18, <1>20
        <5> QED BY <5>1
      <4> QED BY <4>1
    <3> QED BY <1>1, <1>2, <3>1 DEF TypeOK
  <2>2. writer' \in [Keys -> Owners \cup {NoOwner}]
    <3>1. toWriter => OwnerOf[q[1].inv] \in Owners
      BY <1>10, Typing
    <3> QED BY <1>1, <1>2, <3>1 DEF TypeOK
  <2>3. depth' \in [Keys -> Nat]
    <3>1. d \in Nat
      BY <1>2, HoldersFinite, FS_RemoveElement, FS_CardinalityType
    <3> QED BY <1>1, <1>2, <3>1 DEF TypeOK
  <2>4. waiting' \in [Keys -> Seq(Waiters)] /\ tracked' \in SUBSET Keys
    BY <1>1, <1>7 DEF TypeOK
  <2>5. phase' \in [Invocations -> Phases] /\ lease' \in [Invocations -> Requests \cup {NoLease}]
    BY <1>1 DEF TypeOK, Phases
  <2>6. \A j \in Invocations : phase'[j] = "idle" <=> lease'[j] = NoLease
    <3>1. \A j \in Invocations : phase[j] = "idle" <=> lease[j] = NoLease
      BY DEF TypeOK
    <3>2. \A j \in Invocations : phase'[j] = "idle" <=> phase[j] = "idle"
      BY <1>1, <1>9, <1>13
    <3> QED BY <1>1, <3>1, <3>2
  <2> QED BY <2>1, <2>2, <2>3, <2>4, <2>5, <2>6 DEF TypeOK
<1>23. q = waiting[k] /\ n \in Nat /\ n <= Len(q)
  BY <1>3, <1>4 DEF q
<1>24. QueueSorted'
  <2> SUFFICES ASSUME NEW k2 \in Keys, NEW x \in 1..Len(waiting'[k2]),
                      NEW y \in 1..Len(waiting'[k2]), x < y
               PROVE  OrdinalOf[waiting'[k2][x].inv] <= OrdinalOf[waiting'[k2][y].inv]
    BY DEF QueueSorted
  <2>1. CASE k2 # k
    BY <1>12, <2>1 DEF QueueSorted
  <2>2. CASE k2 = k
    <3>1. \A m, m2 \in 1..Len(q) :
            m < m2 => OrdinalOf[q[m].inv] <= OrdinalOf[q[m2].inv]
      BY <1>2, <1>23 DEF QueueSorted
    <3>2. /\ x \in 1..(Len(q) - n) /\ y \in 1..(Len(q) - n)
          /\ waiting'[k2] = rest
      BY <1>7, <1>12, <2>2
    <3>3. /\ rest[x] = q[x + n] /\ x + n \in 1..Len(q)
          /\ rest[y] = q[y + n] /\ y + n \in 1..Len(q)
      BY <1>7, <3>2
    <3>4. x + n < y + n
      BY <1>23
    <3> QED BY <3>1, <3>2, <3>3, <3>4
  <2> QED BY <2>1, <2>2
<1>25. \A m \in 1..n : q[m].inv \in granted
  BY DEF granted
<1>26. \A m \in 1..Len(q) : q[m].inv \in granted => m <= n
  <2> SUFFICES ASSUME NEW m \in 1..Len(q), NEW m2 \in 1..n, q[m].inv = q[m2].inv
               PROVE  m <= n
    BY DEF granted
  <2>1. m2 \in 1..Len(q)
    BY <1>3, <1>23
  <2> QED BY <1>6, <2>1
<1>27. QueuedWait'
  <2> SUFFICES ASSUME NEW k2 \in Keys, NEW x \in 1..Len(waiting'[k2])
               PROVE  /\ phase'[waiting'[k2][x].inv] = "waiting"
                      /\ lease[waiting'[k2][x].inv] =
                            [key |-> k2, policy |-> waiting'[k2][x].policy]
    BY <1>1 DEF QueuedWait
  <2>1. CASE k2 # k
    <3>1. waiting'[k2] = waiting[k2]
      BY <1>12, <2>1
    <3>2. /\ phase[waiting[k2][x].inv] = "waiting"
          /\ lease[waiting[k2][x].inv] = [key |-> k2, policy |-> waiting[k2][x].policy]
      BY <3>1 DEF NoLostWaiter, QueuedWait
    <3>3. waiting[k2][x].inv \in Invocations
      BY <3>1, Typing
    <3>4. waiting[k2][x].inv # i /\ waiting[k2][x].inv \notin granted
      BY <1>1, <1>9, <2>1, <3>2
    <3> QED BY <1>13, <3>1, <3>2, <3>3, <3>4
  <2>2. CASE k2 = k
    <3>1. /\ x \in 1..(Len(q) - n) /\ waiting'[k2] = rest
          /\ rest[x] = q[x + n] /\ x + n \in 1..Len(q)
      BY <1>7, <1>12, <2>2
    <3>2. q[x + n].inv \notin granted
      <4>1. ~(x + n <= n)
        BY <1>23, <3>1
      <4> QED BY <1>26, <3>1, <4>1
    <3>3. q[x + n].inv \in Invocations /\ phase[q[x + n].inv] = "waiting"
          /\ lease[q[x + n].inv] = [key |-> k, policy |-> q[x + n].policy]
      BY <1>5, <3>1
    <3> QED BY <1>1, <1>13, <2>2, <3>1, <3>2, <3>3
  <2> QED BY <2>1, <2>2
<1>28. QueuedOnce'
  <2> SUFFICES ASSUME NEW k2 \in Keys, NEW x \in 1..Len(waiting'[k2]),
                      NEW y \in 1..Len(waiting'[k2]),
                      waiting'[k2][x].inv = waiting'[k2][y].inv
               PROVE  x = y
    BY DEF QueuedOnce
  <2>1. CASE k2 # k
    BY <1>12, <2>1 DEF NoLostWaiter, QueuedOnce
  <2>2. CASE k2 = k
    <3>1. /\ x \in 1..(Len(q) - n) /\ y \in 1..(Len(q) - n) /\ waiting'[k2] = rest
          /\ rest[x] = q[x + n] /\ x + n \in 1..Len(q)
          /\ rest[y] = q[y + n] /\ y + n \in 1..Len(q)
      BY <1>7, <1>12, <2>2
    <3>2. x + n = y + n
      BY <1>6, <3>1
    <3> QED BY <1>23, <3>1, <3>2
  <2> QED BY <2>1, <2>2
<1>29. WaitersQueued'
  <2> SUFFICES ASSUME NEW j \in Invocations, phase'[j] = "waiting"
               PROVE  \E x \in 1..Len(waiting'[lease[j].key]) :
                            waiting'[lease[j].key][x].inv = j
    BY <1>1 DEF WaitersQueued
  <2>1. phase[j] = "waiting" /\ j \notin granted
    BY <1>13
  <2>2. PICK m \in 1..Len(waiting[lease[j].key]) : waiting[lease[j].key][m].inv = j
    BY <2>1 DEF NoLostWaiter, WaitersQueued
  <2>3. lease[j].key \in Keys
    BY <2>1, LeaseAssumption DEF TypeOK, Requests
  <2>4. CASE lease[j].key # k
    BY <1>12, <2>2, <2>3, <2>4
  <2>5. CASE lease[j].key = k
    <3>1. m \in 1..Len(q) /\ q[m].inv = j
      BY <1>23, <2>2, <2>5
    <3>2. m > n
      <4>1. ~(m \in 1..n)
        BY <1>25, <2>1, <3>1
      <4> QED BY <1>3, <1>23, <3>1, <4>1
    <3>3. m - n \in 1..(Len(q) - n) /\ (m - n) + n = m
      BY <1>3, <1>23, <3>1, <3>2
    <3>4. m - n \in 1..Len(rest) /\ rest[m - n] = q[m]
      BY <1>7, <3>3
    <3>5. waiting'[lease[j].key] = rest
      BY <1>12, <2>5
    <3> QED BY <3>1, <3>4, <3>5
  <2> QED BY <2>4, <2>5
<1> QED BY <1>19, <1>21, <1>22, <1>24, <1>27, <1>28, <1>29 DEF NoLostWaiter

-----------------------------------------------------------------------------
(* Creating the state of a lock, or nothing at all, disturbs no conjunct.  *)
LEMMA OthersUnchanged ==
    ASSUME LockInv, tracked' \subseteq Keys,
           UNCHANGED <<readers, writer, depth, waiting, phase, lease>>
    PROVE  LockInv'
<1> USE DEF LockInv
<1>1. TypeOK'
  BY DEF TypeOK
<1>2. \A k, o : /\ Holders(k)' = Holders(k)
                /\ SharedHolders(k, o)' = SharedHolders(k, o)
                /\ ExclusiveHolders(k)' = ExclusiveHolders(k)
  BY DEF Holders, SharedHolders, ExclusiveHolders
<1>3. CountsMatchLeases'
  BY <1>2 DEF CountsMatchLeases
<1>4. WriterExcludesReaders'
  BY DEF WriterExcludesReaders, NoReaders
<1>5. QueuedWait' /\ QueuedOnce' /\ WaitersQueued'
  <2>1. QueuedWait'
    BY DEF NoLostWaiter, QueuedWait
  <2>2. QueuedOnce'
    BY DEF NoLostWaiter, QueuedOnce
  <2>3. WaitersQueued'
    BY DEF NoLostWaiter, WaitersQueued
  <2> QED BY <2>1, <2>2, <2>3
<1>6. QueueSorted'
  BY DEF QueueSorted
<1> QED BY <1>1, <1>3, <1>4, <1>5, <1>6 DEF NoLostWaiter

LEMMA NextKeepsInv == LockInv /\ [Next]_vars => LockInv'
<1> SUFFICES ASSUME LockInv, [Next]_vars PROVE LockInv'
  OBVIOUS
<1>1. ASSUME NEW i \in Invocations, NEW k \in Keys, NEW p \in Policies, TryAcquire(i, k, p)
      PROVE  LockInv'
  BY <1>1, ReenterKeepsInv, AdmitSharedKeepsInv, AdmitExclusiveKeepsInv DEF TryAcquire
<1>2. ASSUME NEW i \in Invocations, NEW k \in Keys, NEW p \in Policies, Wait(i, k, p)
      PROVE  LockInv'
  BY <1>2, WaitKeepsInv
<1>3. ASSUME NEW i \in Invocations, NEW k \in Keys, NEW p \in Policies,
             TryAcquireFails(i, k, p)
      PROVE  LockInv'
  <2>1. tracked' \subseteq Keys
    BY <1>3 DEF TryAcquireFails, LockInv, TypeOK
  <2> QED BY <1>3, <2>1, OthersUnchanged DEF TryAcquireFails
<1>4. ASSUME NEW i \in Invocations, Release(i)
      PROVE  LockInv'
  <2> DEFINE k == lease[i].key
  <2> QED BY <1>4, ReleaseKeepsInv
<1>5. CASE UNCHANGED vars
  <2>1. tracked' \subseteq Keys
    BY <1>5 DEF vars, LockInv, TypeOK
  <2> QED BY <1>5, <2>1, OthersUnchanged DEF vars
<1> QED BY <1>1, <1>2, <1>3, <1>4, <1>5 DEF Next, Acquire

(* The lock keeps its inductive invariant whatever the order of calls.     *)
THEOREM LockInvariant == Spec => []LockInv
<1>1. Init => LockInv
  BY InitLockInv
<1>2. LockInv /\ [Next]_vars => LockInv'
  BY NextKeepsInv
<1> QED BY <1>1, <1>2, PTL DEF Spec

(* Type correctness of the lock registry.                                  *)
THEOREM TypeCorrect == Spec => []TypeOK
<1>1. LockInv => TypeOK
  BY DEF LockInv
<1> QED BY <1>1, LockInvariant, PTL

(* The depths the registry counts are the leases that are out, for any     *)
(* number of invocations, owners and workspaces.                           *)
THEOREM CountsCorrect == Spec => []CountsMatchLeases
<1>1. LockInv => CountsMatchLeases
  BY DEF LockInv
<1> QED BY <1>1, LockInvariant, PTL

(* A request that waits is in the queue a release looks at, exactly once.  *)
THEOREM WaitersKept == Spec => []NoLostWaiter
<1>1. LockInv => NoLostWaiter
  BY DEF LockInv
<1> QED BY <1>1, LockInvariant, PTL

(* Two exclusive holders share the owner the lock records, and a shared    *)
(* holder is counted in readers, which a recorded writer excludes.         *)
LEMMA LockInvExcludes == LockInv => MutualExclusion
<1> SUFFICES ASSUME LockInv, NEW k \in Keys, NEW i \in Holders(k), NEW j \in Holders(k),
                    lease[i].policy = "exclusive"
             PROVE  OwnerOf[i] = OwnerOf[j] /\ lease[j].policy = "exclusive"
  BY DEF MutualExclusion
<1>1. i \in Invocations /\ j \in Invocations /\ phase[j] = "held"
  BY DEF Holders
<1>2. i \in ExclusiveHolders(k) /\ writer[k] = OwnerOf[i]
  BY DEF ExclusiveHolders, LockInv, CountsMatchLeases
<1>3. OwnerOf[i] # NoOwner /\ OwnerOf[j] \in Owners
  BY <1>1, Typing DEF LockInv
<1>4. lease[j].policy \in {"shared", "exclusive"}
  BY <1>1 DEF LockInv, TypeOK, Requests, Policies
<1>5. lease[j].policy # "shared"
  <2> SUFFICES ASSUME lease[j].policy = "shared" PROVE FALSE
    OBVIOUS
  <2>1. j \in SharedHolders(k, OwnerOf[j])
    BY DEF SharedHolders
  <2>2. Cardinality(SharedHolders(k, OwnerOf[j])) # 0
    BY <2>1, HoldersFinite, FS_EmptySet
  <2>3. readers[k][OwnerOf[j]] = 0
    BY <1>2, <1>3 DEF LockInv, WriterExcludesReaders, NoReaders
  <2> QED BY <1>3, <2>2, <2>3 DEF LockInv, CountsMatchLeases
<1>6. j \in ExclusiveHolders(k)
  BY <1>4, <1>5 DEF ExclusiveHolders
<1> QED BY <1>2, <1>4, <1>5, <1>6 DEF LockInv, CountsMatchLeases

(* Exclusive leases exclude the leases of every other owner.               *)
THEOREM Exclusion == Spec => []MutualExclusion
BY LockInvExcludes, LockInvariant, PTL

-----------------------------------------------------------------------------
(* Whom a release grants the workspace: the requests it takes from the     *)
(* head of the queue, ahead of every request it leaves there.              *)
LEMMA ReleaseGrants ==
    ASSUME LockInv, NEW i \in Invocations, Release(i), NEW k, k = lease[i].key,
           NEW n, n = GrantCount(WriterAfter(i, k), ReadersAfter(i, k), waiting[k])
    PROVE  /\ k \in Keys /\ n \in Nat /\ n <= Len(waiting[k])
           /\ lease' = lease
           /\ waiting'[k] = SubSeq(waiting[k], n + 1, Len(waiting[k]))
           /\ \A k2 \in Keys : k2 # k => waiting'[k2] = waiting[k2]
           /\ \A j \in Invocations : phase'[j] = "held" => phase[j] \in {"held", "waiting"}
           /\ \A j, j2 \in Invocations :
                /\ phase[j] = "waiting" /\ phase'[j] = "held"
                /\ phase'[j2] = "waiting" /\ lease[j2].key = lease[j].key
                => OrdinalOf[j] <= OrdinalOf[j2]
           /\ \A j \in Invocations :
                phase[j] = "held" /\ j # i => phase'[j] = "held"
           /\ \A m \in 1..n : phase'[waiting[k][m].inv] = "held"
<1> DEFINE q == waiting[k]
           granted == {q[m].inv : m \in 1..n}
<1>1. /\ phase[i] = "held"
      /\ waiting' = [waiting EXCEPT ![k] = SubSeq(q, n + 1, Len(q))]
      /\ phase' = [j \in Invocations |->
                        IF j = i THEN "released"
                        ELSE IF j \in granted THEN "held" ELSE phase[j]]
      /\ lease' = lease
  BY DEF Release
<1>2. k \in Keys
  BY <1>1, ReleaseCounts
<1>3. q \in Seq(Waiters) /\ Len(q) \in Nat
  BY <1>2, Typing DEF LockInv
<1>4. n \in Nat /\ n <= Len(q)
  BY <1>3, GrantCountFacts
<1>5. \A m \in 1..Len(q) :
        /\ q[m].inv \in Invocations
        /\ phase[q[m].inv] = "waiting"
        /\ lease[q[m].inv].key = k
  <2>1. \A m \in 1..Len(q) : q[m].inv \in Invocations
    BY <1>2, Typing DEF LockInv
  <2>2. \A m \in 1..Len(q) :
            /\ phase[q[m].inv] = "waiting"
            /\ lease[q[m].inv] = [key |-> k, policy |-> q[m].policy]
    BY <1>2 DEF LockInv, NoLostWaiter, QueuedWait
  <2> SUFFICES ASSUME NEW m \in 1..Len(q)
               PROVE  /\ q[m].inv \in Invocations
                      /\ phase[q[m].inv] = "waiting"
                      /\ lease[q[m].inv].key = k
    OBVIOUS
  <2>3. lease[q[m].inv] = [key |-> k, policy |-> q[m].policy]
    BY <2>2
  <2> HIDE DEF q
  <2> QED BY <2>1, <2>2, <2>3
<1>6. waiting'[k] = SubSeq(q, n + 1, Len(q)) /\ \A k2 \in Keys : k2 # k => waiting'[k2] = waiting[k2]
  BY <1>1, <1>2 DEF LockInv, TypeOK
<1>7. \A j \in Invocations : phase[j] = "waiting" /\ lease[j].key = k =>
            \E m \in 1..Len(q) : q[m].inv = j
  BY DEF LockInv, NoLostWaiter, WaitersQueued
<1> HIDE DEF q
<1>8. \A m \in 1..n : m \in 1..Len(q)
  BY <1>3, <1>4
<1>9. \A j \in granted : j \in Invocations /\ phase[j] = "waiting" /\ lease[j].key = k
                         /\ \E m \in 1..n : j = q[m].inv
  BY <1>5, <1>8
<1>10. \A m \in 1..n : q[m].inv \in granted
  OBVIOUS
<1> HIDE DEF granted
<1>11. \A j \in Invocations : phase'[j] = "held" =>
        \/ phase[j] = "held"
        \/ phase[j] = "waiting" /\ lease[j].key = k /\ \E m \in 1..n : j = q[m].inv
  BY <1>1, <1>9
<1>12. \A j \in Invocations : phase'[j] = "waiting" /\ lease[j].key = k =>
        \E m \in (n + 1)..Len(q) : j = q[m].inv
  <2> SUFFICES ASSUME NEW j \in Invocations, phase'[j] = "waiting", lease[j].key = k
               PROVE  \E m \in (n + 1)..Len(q) : j = q[m].inv
    OBVIOUS
  <2>1. phase[j] = "waiting" /\ j \notin granted
    BY <1>1
  <2>2. PICK m \in 1..Len(q) : q[m].inv = j
    BY <1>7, <2>1
  <2>3. ~(m \in 1..n)
    BY <1>10, <2>1, <2>2
  <2>4. m \in (n + 1)..Len(q)
    BY <1>3, <1>4, <2>3
  <2> QED BY <2>2, <2>4
<1>13. \A j \in Invocations : phase[j] = "held" /\ j # i => phase'[j] = "held"
  BY <1>1, <1>9
<1>14. \A m \in 1..n : phase'[q[m].inv] = "held"
  <2> SUFFICES ASSUME NEW m \in 1..n PROVE phase'[q[m].inv] = "held"
    OBVIOUS
  <2>1. q[m].inv \in granted /\ q[m].inv # i /\ q[m].inv \in Invocations
    BY <1>1, <1>9, <1>10
  <2> QED BY <1>1, <2>1
<1>15. ASSUME NEW j \in Invocations, NEW j2 \in Invocations,
              phase[j] = "waiting", phase'[j] = "held",
              phase'[j2] = "waiting", lease[j2].key = lease[j].key
       PROVE  OrdinalOf[j] <= OrdinalOf[j2]
  <2>1. PICK a \in 1..n : j = q[a].inv
    BY <1>11, <1>15
  <2>2. lease[j].key = k
    BY <1>11, <1>15
  <2>3. PICK b \in (n + 1)..Len(q) : j2 = q[b].inv
    BY <1>12, <1>15, <2>2
  <2>4. a \in 1..Len(q) /\ b \in 1..Len(q) /\ a < b
    BY <1>3, <1>4
  <2> QED BY <1>2, <2>1, <2>3, <2>4 DEF LockInv, QueueSorted, q
<1>16. \A j \in Invocations : phase'[j] = "held" => phase[j] \in {"held", "waiting"}
  BY <1>11
<1> QED BY <1>1, <1>2, <1>4, <1>6, <1>13, <1>14, <1>15, <1>16 DEF q

(* Admission on the first request: what every kind of it has in common.    *)
Admits(i, k, p) ==
    /\ phase[i] = "idle"
    /\ phase' = [phase EXCEPT ![i] = "held"]
    /\ lease' = [lease EXCEPT ![i] = [key |-> k, policy |-> p]]
    /\ waiting' = waiting
    /\ waiting[k] = <<>> \/ writer[k] = OwnerOf[i]

(* A step that is not a release admits or queues one idle invocation.      *)
LEMMA OtherSteps ==
    ASSUME LockInv, [Next]_vars, \A i \in Invocations : ~Release(i)
    PROVE  \/ UNCHANGED <<phase, lease, waiting>>
           \/ \E i \in Invocations, k \in Keys, p \in Policies : Admits(i, k, p)
           \/ \E i \in Invocations, k \in Keys, p \in Policies : Wait(i, k, p)
<1>1. "shared" \in Policies /\ "exclusive" \in Policies
  BY DEF Policies
<1>2. ASSUME NEW i \in Invocations, NEW k \in Keys, Reenter(i, k)
      PROVE  Admits(i, k, "exclusive")
  BY <1>2 DEF Reenter, Admits
<1>3. ASSUME NEW i \in Invocations, NEW k \in Keys, AdmitShared(i, k)
      PROVE  Admits(i, k, "shared")
  BY <1>3 DEF AdmitShared, Available, Admits
<1>4. ASSUME NEW i \in Invocations, NEW k \in Keys, AdmitExclusive(i, k)
      PROVE  Admits(i, k, "exclusive")
  BY <1>4 DEF AdmitExclusive, Available, Admits
<1>5. ASSUME NEW i \in Invocations, NEW k \in Keys, NEW p \in Policies,
             TryAcquireFails(i, k, p)
      PROVE  UNCHANGED <<phase, lease, waiting>>
  BY <1>5 DEF TryAcquireFails
<1>6. CASE UNCHANGED vars
  BY <1>6 DEF vars
<1>7. CASE Next
  <2>1. PICK i \in Invocations :
          \E k \in Keys, p \in Policies : Acquire(i, k, p) \/ TryAcquireFails(i, k, p)
    BY <1>7 DEF Next
  <2>2. PICK k \in Keys, p \in Policies : Acquire(i, k, p) \/ TryAcquireFails(i, k, p)
    BY <2>1
  <2>3. CASE TryAcquireFails(i, k, p)
    BY <1>5, <2>3
  <2>4. CASE Wait(i, k, p)
    BY <2>4
  <2>5. CASE TryAcquire(i, k, p)
    <3>1. Admits(i, k, "shared") \/ Admits(i, k, "exclusive")
      BY <1>2, <1>3, <1>4, <2>5 DEF TryAcquire
    <3> QED BY <1>1, <3>1
  <2> QED BY <2>2, <2>3, <2>4, <2>5 DEF Acquire
<1> QED BY <1>6, <1>7

(* Creation order: a release never admits a request created after one it   *)
(* leaves waiting, and no other step admits a request that waits.          *)
THEOREM CreationOrder == Spec => AdmittedInCreationOrder
<1> DEFINE InOrder ==
        \A i, j \in Invocations :
            /\ phase[i] = "waiting" /\ phase'[i] = "held"
            /\ phase'[j] = "waiting" /\ lease'[j].key = lease[i].key
            => OrdinalOf[i] <= OrdinalOf[j]
<1>1. LockInv /\ [Next]_vars => InOrder
  <2> SUFFICES ASSUME LockInv, [Next]_vars, NEW i \in Invocations, NEW j \in Invocations,
                      phase[i] = "waiting", phase'[i] = "held",
                      phase'[j] = "waiting", lease'[j].key = lease[i].key
               PROVE  OrdinalOf[i] <= OrdinalOf[j]
    OBVIOUS
  <2>1. ASSUME NEW h \in Invocations, Release(h) PROVE OrdinalOf[i] <= OrdinalOf[j]
    BY <2>1, ReleaseGrants
  <2>2. CASE \A h \in Invocations : ~Release(h)
    <3>1. ~UNCHANGED phase
      OBVIOUS
    <3>2. ASSUME NEW h \in Invocations, phase[h] = "idle", NEW s,
                 phase' = [phase EXCEPT ![h] = s]
          PROVE  FALSE
      BY <3>2 DEF LockInv, TypeOK
    <3> QED BY <2>2, <3>1, <3>2, OtherSteps DEF Admits, Wait
  <2> QED BY <2>1, <2>2
<1> QED BY <1>1, LockInvariant, PTL DEF Spec, AdmittedInCreationOrder

(* Writer preference: newcomers pass a queue only to re-enter.             *)
THEOREM WriterPreferred == Spec => NoOvertaking
<1> DEFINE Waits ==
        \A i \in Invocations :
            phase[i] = "idle" /\ phase'[i] = "held" =>
                \/ waiting[lease'[i].key] = <<>>
                \/ writer[lease'[i].key] = OwnerOf[i]
<1>1. LockInv /\ [Next]_vars => Waits
  <2> SUFFICES ASSUME LockInv, [Next]_vars, NEW i \in Invocations,
                      phase[i] = "idle", phase'[i] = "held"
               PROVE  \/ waiting[lease'[i].key] = <<>>
                      \/ writer[lease'[i].key] = OwnerOf[i]
    OBVIOUS
  <2>1. ASSUME NEW h \in Invocations, Release(h) PROVE FALSE
    <3> DEFINE k == lease[h].key
    <3> QED BY <2>1, ReleaseGrants
  <2>2. CASE \A h \in Invocations : ~Release(h)
    <3>1. ~UNCHANGED phase
      OBVIOUS
    <3>2. ASSUME NEW h \in Invocations, NEW k \in Keys, NEW p \in Policies, Admits(h, k, p)
          PROVE  \/ waiting[lease'[i].key] = <<>>
                 \/ writer[lease'[i].key] = OwnerOf[i]
      <4>1. h = i /\ lease'[i].key = k
        BY <3>2 DEF Admits, LockInv, TypeOK
      <4> QED BY <3>2, <4>1 DEF Admits
    <3>3. ASSUME NEW h \in Invocations, NEW k \in Keys, NEW p \in Policies, Wait(h, k, p)
          PROVE  FALSE
      BY <3>3 DEF Wait, LockInv, TypeOK
    <3> QED BY <2>2, <3>1, <3>2, <3>3, OtherSteps
  <2> QED BY <2>1, <2>2
<1> QED BY <1>1, LockInvariant, PTL DEF Spec, NoOvertaking

-----------------------------------------------------------------------------
(* A lock that is not available to an empty queue has a holder.            *)
LEMMA UnavailableHasHolder ==
    ASSUME LockInv, NEW k \in Keys, NEW p, waiting[k] = <<>>, ~Available(k, p)
    PROVE  Holders(k) # {}
<1> USE DEF LockInv
<1>1. CASE writer[k] # NoOwner
  <2>1. Cardinality(ExclusiveHolders(k)) # 0
    BY <1>1 DEF CountsMatchLeases
  <2>2. ExclusiveHolders(k) # {}
    BY <2>1, FS_EmptySet
  <2> QED BY <2>2 DEF ExclusiveHolders
<1>2. CASE ~NoReaders(readers[k])
  <2>1. PICK o \in Owners : readers[k][o] # 0
    BY <1>2 DEF NoReaders
  <2>2. Cardinality(SharedHolders(k, o)) # 0
    BY <2>1 DEF CountsMatchLeases
  <2>3. SharedHolders(k, o) # {}
    BY <2>2, FS_EmptySet
  <2> QED BY <2>3 DEF SharedHolders
<1> QED BY <1>1, <1>2 DEF Available

(* A queue is never left behind without a lease whose release will look at *)
(* it: the only place a queued request can be granted.                     *)
THEOREM NoQueueAbandoned == Spec => []QueueHasHolder
<1>1. Init => QueueHasHolder
  BY DEF Init, QueueHasHolder
<1>2. LockInv /\ QueueHasHolder /\ [Next]_vars => QueueHasHolder'
  <2> SUFFICES ASSUME LockInv, QueueHasHolder, [Next]_vars, NEW k \in Keys,
                      waiting'[k] # <<>>
               PROVE  Holders(k)' # {}
    BY DEF QueueHasHolder
  <2>1. ASSUME NEW i \in Invocations, Release(i) PROVE Holders(k)' # {}
    <3> PICK key : key = lease[i].key
      OBVIOUS
    <3> PICK n : n = GrantCount(WriterAfter(i, key), ReadersAfter(i, key), waiting[key])
      OBVIOUS
    <3>1. /\ key \in Keys /\ n \in Nat /\ n <= Len(waiting[key])
          /\ lease' = lease
          /\ waiting'[key] = SubSeq(waiting[key], n + 1, Len(waiting[key]))
          /\ \A k2 \in Keys : k2 # key => waiting'[k2] = waiting[k2]
          /\ \A j \in Invocations : phase[j] = "held" /\ j # i => phase'[j] = "held"
          /\ \A m \in 1..n : phase'[waiting[key][m].inv] = "held"
      <4>1. key \in Keys /\ n \in Nat /\ n <= Len(waiting[key]) /\ lease' = lease
        BY <2>1, ReleaseGrants
      <4>5. waiting'[key] = SubSeq(waiting[key], n + 1, Len(waiting[key]))
        <5>1. waiting' = [waiting EXCEPT ![key] = SubSeq(waiting[key], n + 1, Len(waiting[key]))]
          BY <2>1 DEF Release
        <5> QED BY <4>1, <5>1 DEF LockInv, TypeOK
      <4>2. \A k2 \in Keys : k2 # key => waiting'[k2] = waiting[k2]
        BY <2>1, ReleaseGrants
      <4>3. \A j \in Invocations : phase[j] = "held" /\ j # i => phase'[j] = "held"
        BY <2>1, ReleaseGrants
      <4>4. \A m \in 1..n : phase'[waiting[key][m].inv] = "held"
        BY <2>1, ReleaseGrants
      <4> QED BY <4>1, <4>2, <4>3, <4>4, <4>5
    <3>2. CASE k # key
      <4>1. PICK j \in Holders(k) : TRUE
        BY <3>1, <3>2 DEF QueueHasHolder
      <4>2. j \in Invocations /\ j # i /\ phase[j] = "held" /\ lease[j].key = k
        BY <3>2, <4>1 DEF Holders
      <4> QED BY <3>1, <4>2 DEF Holders
    <3>3. CASE k = key /\ n > 0
      <4>1. 1 \in 1..n /\ 1 \in 1..Len(waiting[key])
        BY <3>1, <3>3, Typing DEF LockInv
      <4> DEFINE j == waiting[key][1].inv
      <4>2. j \in Invocations
        BY <3>1, <4>1, Typing DEF LockInv
      <4>3. lease[j] = [key |-> key, policy |-> waiting[key][1].policy]
        BY ZenonT(40), <3>1, <4>1 DEF LockInv, NoLostWaiter, QueuedWait
      <4>4. phase'[j] = "held"
        BY <3>1, <4>1
      <4> HIDE DEF j
      <4> QED BY SMTT(40), <3>1, <3>3, <4>2, <4>3, <4>4 DEF Holders
    <3>4. CASE k = key /\ n = 0
      <4>1. waiting[key] \in Seq(Waiters) /\ Len(waiting[key]) \in Nat
        BY <3>1, Typing DEF LockInv
      <4>2. waiting[key] # <<>>
        BY <3>1, <3>4, <4>1
      <4>3. \/ WriterAfter(i, key) # NoOwner
            \/ ~NoReaders(ReadersAfter(i, key))
        BY ZenonT(40), <3>4, <4>1, <4>2, GrantCountFacts
      <4>4. phase[i] = "held"
        BY <2>1 DEF Release
      <4>5. /\ \A o \in Owners :
                ReadersAfter(i, key)[o] = Cardinality(SharedHolders(key, o) \ {i})
            /\ DepthAfter(i, key) = Cardinality(ExclusiveHolders(key) \ {i})
            /\ WriterAfter(i, key) = NoOwner <=> DepthAfter(i, key) = 0
        BY <4>4, ReleaseCounts
      <4>6. \E j \in Holders(key) : j # i
        <5>1. CASE WriterAfter(i, key) # NoOwner
          <6>1. ExclusiveHolders(key) \ {i} # {}
            BY <4>5, <5>1, FS_EmptySet
          <6> QED BY <6>1 DEF ExclusiveHolders
        <5>2. CASE ~NoReaders(ReadersAfter(i, key))
          <6>1. PICK o \in Owners : Cardinality(SharedHolders(key, o) \ {i}) # 0
            BY <4>5, <5>2 DEF NoReaders
          <6>2. SharedHolders(key, o) \ {i} # {}
            BY <6>1, FS_EmptySet
          <6> QED BY <6>2 DEF SharedHolders
        <5> QED BY <4>3, <5>1, <5>2
      <4> QED BY <3>1, <3>4, <4>6 DEF Holders
    <3> QED BY <3>1, <3>2, <3>3, <3>4
  <2>2. CASE \A i \in Invocations : ~Release(i)
    <3>1. CASE UNCHANGED <<phase, lease, waiting>>
      BY <3>1 DEF QueueHasHolder, Holders
    <3>2. ASSUME NEW i \in Invocations, NEW k2 \in Keys, NEW p \in Policies, Admits(i, k2, p)
          PROVE  Holders(k)' # {}
      <4>1. PICK j \in Holders(k) : TRUE
        BY <3>2 DEF Admits, QueueHasHolder
      <4> QED BY <3>2, <4>1 DEF Admits, Holders, LockInv, TypeOK
    <3>3. ASSUME NEW i \in Invocations, NEW k2 \in Keys, NEW p \in Policies, Wait(i, k2, p)
          PROVE  Holders(k)' # {}
      <4>1. Holders(k) # {}
        <5>1. CASE waiting[k] # <<>>
          BY <5>1 DEF QueueHasHolder
        <5>2. CASE waiting[k] = <<>>
          <6>1. k2 = k
            BY <3>3, <5>2 DEF Wait, LockInv, TypeOK
          <6> QED BY <3>3, <5>2, <6>1, UnavailableHasHolder DEF Wait
        <5> QED BY <5>1, <5>2
      <4>2. PICK j \in Holders(k) : TRUE
        BY <4>1
      <4> QED BY <3>3, <4>2 DEF Wait, Holders, LockInv, TypeOK
    <3> QED BY <2>2, <3>1, <3>2, <3>3, OtherSteps
  <2> QED BY <2>1, <2>2
<1> QED BY <1>1, <1>2, LockInvariant, PTL DEF Spec

-----------------------------------------------------------------------------
(* A lock that #release finds unused has no lease out: the counts it looks *)
(* at are the holders.                                                     *)
LEMMA UnusedHasNoHolder ==
    LockInv => \A k \in Keys : Unused(writer[k], readers[k], waiting[k]) =>
                                  Holders(k) = {} /\ waiting[k] = <<>>
<1> SUFFICES ASSUME LockInv, NEW k \in Keys, Unused(writer[k], readers[k], waiting[k]),
                    NEW i \in Holders(k)
             PROVE  FALSE
  BY DEF Unused
<1> USE DEF LockInv
<1>1. i \in Invocations /\ lease[i] \in Requests
  BY DEF Holders, TypeOK
<1>2. OwnerOf[i] \in Owners /\ OwnerOf[i] # NoOwner
  BY <1>1, OwnersAssumption
<1>3. CASE lease[i].policy = "exclusive"
  BY <1>2, <1>3 DEF ExclusiveHolders, CountsMatchLeases, Unused
<1>4. CASE lease[i].policy = "shared"
  <2>1. SharedHolders(k, OwnerOf[i]) # {}
    BY <1>4 DEF SharedHolders
  <2>2. readers[k][OwnerOf[i]] = Cardinality(SharedHolders(k, OwnerOf[i])) /\ readers[k][OwnerOf[i]] = 0
    BY <1>2 DEF CountsMatchLeases, Unused, NoReaders
  <2> QED BY <2>1, <2>2, HoldersFinite, FS_EmptySet
<1> QED BY <1>1, <1>3, <1>4 DEF Requests, Policies

(* A request enters the registry and its state object with it.             *)
LEMMA RequestKeepsState ==
    ASSUME LockInv, NoOrphanedState, NEW i \in Invocations, NEW k \in Keys, NEW p \in Policies,
           Acquire(i, k, p) \/ TryAcquireFails(i, k, p)
    PROVE  NoOrphanedState'
<1>1. tracked' = tracked \cup {k}
  BY DEF Acquire, TryAcquire, Reenter, AdmitShared, AdmitExclusive, Wait, TryAcquireFails
<1>2. ASSUME NEW k2 \in Keys, k2 # k
      PROVE  Holders(k2)' = Holders(k2) /\ waiting'[k2] = waiting[k2]
  <2>1. \/ UNCHANGED <<phase, lease, waiting>>
        \/ /\ phase[i] = "idle"
           /\ \E l, h : /\ l.key = k
                        /\ phase' = [phase EXCEPT ![i] = h] /\ lease' = [lease EXCEPT ![i] = l]
           /\ waiting' = waiting \/ \E q : waiting' = [waiting EXCEPT ![k] = q]
    <3>1. CASE TryAcquireFails(i, k, p)
      BY <3>1 DEF TryAcquireFails
    <3>2. CASE Wait(i, k, p)
      <4>1. [key |-> k, policy |-> p].key = k
        OBVIOUS
      <4> QED BY <3>2, <4>1 DEF Wait
    <3>3. CASE TryAcquire(i, k, p)
      <4>1. [key |-> k, policy |-> "shared"].key = k /\ [key |-> k, policy |-> "exclusive"].key = k
        OBVIOUS
      <4> QED BY <3>3, <4>1 DEF TryAcquire, Reenter, AdmitShared, AdmitExclusive
    <3> QED BY <3>1, <3>2, <3>3 DEF Acquire
  <2>2. ASSUME NEW l, NEW h, l.key = k, phase[i] = "idle",
               phase' = [phase EXCEPT ![i] = h], lease' = [lease EXCEPT ![i] = l]
        PROVE  Holders(k2)' = Holders(k2)
    BY <1>2, <2>2 DEF Holders, LockInv, TypeOK
  <2>3. waiting'[k2] = waiting[k2]
    BY <1>2, <2>1 DEF LockInv, TypeOK
  <2> QED BY <2>1, <2>2, <2>3 DEF Holders
<1> QED BY <1>1, <1>2 DEF NoOrphanedState

(* A release drops the state object only when nobody needs it any more.    *)
LEMMA ReleaseKeepsState ==
    ASSUME LockInv, NoOrphanedState, NEW i \in Invocations, Release(i),
           \A k \in Keys : Unused(writer'[k], readers'[k], waiting'[k]) =>
                              Holders(k)' = {} /\ waiting'[k] = <<>>
    PROVE  NoOrphanedState'
<1> PICK key : key = lease[i].key
  OBVIOUS
<1> PICK n : n = GrantCount(WriterAfter(i, key), ReadersAfter(i, key), waiting[key])
  OBVIOUS
<1>1. key \in Keys /\ phase[i] = "held" /\ lease' = lease
  <2>1. phase[i] = "held"
    BY DEF Release
  <2> QED BY <2>1, ReleaseGrants
<1>2. tracked' = IF Unused(writer'[key], readers'[key], waiting'[key])
                 THEN tracked \ {key} ELSE tracked
  BY DEF Release
<1>3. key \in tracked
  BY <1>1 DEF NoOrphanedState, Holders
<1>4. ASSUME NEW k2 \in Keys, k2 # key
      PROVE  Holders(k2)' \subseteq Holders(k2) /\ waiting'[k2] = waiting[k2]
  <2>1. waiting'[k2] = waiting[k2]
    BY <1>4, ReleaseGrants
  <2>2. phase' = [j \in Invocations |->
                    IF j = i THEN "released"
                    ELSE IF j \in {waiting[key][m].inv : m \in 1..n} THEN "held" ELSE phase[j]]
    BY DEF Release
  <2>3. n \in Nat /\ n <= Len(waiting[key]) /\ Len(waiting[key]) \in Nat
    BY <1>1, ReleaseGrants, Typing DEF LockInv
  <2>4. ASSUME NEW m \in 1..n PROVE lease[waiting[key][m].inv].key = key
    <3>1. m \in 1..Len(waiting[key])
      BY <2>3
    <3>2. lease[waiting[key][m].inv] = [key |-> key, policy |-> waiting[key][m].policy]
      BY ZenonT(40), <1>1, <3>1 DEF LockInv, NoLostWaiter, QueuedWait
    <3> QED BY <3>2
  <2> QED BY <1>1, <1>4, <2>1, <2>2, <2>4 DEF Holders
<1> QED BY <1>1, <1>2, <1>3, <1>4 DEF NoOrphanedState

(* A lease and a queued request always find the state object they came     *)
(* from in #locks: whatever the order of calls, two invocations never work *)
(* under two locks of one workspace.                                       *)
THEOREM StateKept == Spec => []NoOrphanedState
<1>1. Init => NoOrphanedState
  BY DEF Init, NoOrphanedState, Holders
<1>2. (LockInv => \A k \in Keys : Unused(writer[k], readers[k], waiting[k]) =>
                                  Holders(k) = {} /\ waiting[k] = <<>>)'
  BY UnusedHasNoHolder, PTL
<1>3. LockInv /\ NoOrphanedState /\ [Next]_vars => NoOrphanedState'
  <2> SUFFICES ASSUME LockInv, NoOrphanedState, [Next]_vars PROVE NoOrphanedState'
    OBVIOUS
  <2>1. LockInv'
    BY NextKeepsInv
  <2>2. ASSUME NEW i \in Invocations, Release(i) PROVE NoOrphanedState'
    BY <1>2, <2>1, <2>2, ReleaseKeepsState
  <2>3. ASSUME NEW i \in Invocations, NEW k \in Keys, NEW p \in Policies,
               Acquire(i, k, p) \/ TryAcquireFails(i, k, p)
        PROVE  NoOrphanedState'
    BY <2>3, RequestKeepsState
  <2>4. CASE UNCHANGED vars
    BY <2>4 DEF vars, NoOrphanedState, Holders
  <2> QED BY <2>2, <2>3, <2>4 DEF Next
<1> QED BY <1>1, <1>3, LockInvariant, PTL DEF Spec

-----------------------------------------------------------------------------
(* What calls of the registry mean to those who use it. *)

(* acquire decides on the one invocation that calls it.                    *)
LEMMA AcquirePhases ==
    ASSUME TypeOK, NEW i \in Invocations, NEW k \in Keys, NEW p \in Policies, Acquire(i, k, p)
    PROVE  /\ phase[i] = "idle" /\ phase'[i] \in {"waiting", "held"}
           /\ TryAcquire(i, k, p) => phase'[i] = "held"
           /\ \A j \in Invocations \ {i} : phase'[j] = phase[j]
BY DEF Acquire, TryAcquire, Reenter, AdmitShared, AdmitExclusive, Wait, TypeOK

(* release ends the lease of its caller and admits some that wait.         *)
LEMMA ReleasePhases ==
    ASSUME LockInv, NEW i \in Invocations, Release(i)
    PROVE  /\ phase[i] = "held" /\ phase'[i] = "released"
           /\ \A j \in Invocations \ {i} :
                phase'[j] = phase[j] \/ (phase[j] = "waiting" /\ phase'[j] = "held")
<1> PICK key : key = lease[i].key
  OBVIOUS
<1> PICK n : n = GrantCount(WriterAfter(i, key), ReadersAfter(i, key), waiting[key])
  OBVIOUS
<1>1. /\ phase[i] = "held"
      /\ phase' = [j \in Invocations |->
                     IF j = i THEN "released"
                     ELSE IF j \in {waiting[key][m].inv : m \in 1..n} THEN "held" ELSE phase[j]]
  BY DEF Release
<1>2. key \in Keys /\ n \in Nat /\ n <= Len(waiting[key]) /\ Len(waiting[key]) \in Nat
  BY <1>1, ReleaseCounts, ReleaseGrants, Typing DEF LockInv
<1>3. ASSUME NEW m \in 1..n PROVE phase[waiting[key][m].inv] = "waiting"
  <2>1. m \in 1..Len(waiting[key])
    BY <1>2
  <2> QED BY <1>2, <2>1 DEF LockInv, NoLostWaiter, QueuedWait
<1> QED BY <1>1, <1>3

(* acquire makes no workspace available that was not available before: to  *)
(* become the writer it has to find the workspace idle.                    *)
LEMMA AcquireFreesNothing ==
    ASSUME LockInv, NEW i \in Invocations, NEW k \in Keys, NEW p \in Policies, Acquire(i, k, p),
           NEW k2 \in Keys, NEW o \in Owners, NEW p2,
           writer'[k2] = o \/ Available(k2, p2)'
    PROVE  writer[k2] = o \/ Available(k2, p2)
<1> USE DEF LockInv, TypeOK
<1>1. CASE Reenter(i, k)
  BY <1>1 DEF Reenter, Available
<1>2. CASE AdmitShared(i, k)
  <2>1. writer' = writer /\ waiting' = waiting /\ OwnerOf[i] \in Owners
    BY <1>2, OwnersAssumption DEF AdmitShared
  <2>2. readers[k][OwnerOf[i]] \in Nat
    BY <2>1
  <2>3. k2 = k => readers'[k2][OwnerOf[i]] = readers[k][OwnerOf[i]] + 1
    BY <1>2, <2>1 DEF AdmitShared
  <2>4. k2 = k => ~NoReaders(readers'[k2])
    BY <2>1, <2>2, <2>3 DEF NoReaders
  <2>5. k2 # k => readers'[k2] = readers[k2]
    BY <1>2 DEF AdmitShared
  <2> QED BY <2>1, <2>4, <2>5 DEF Available
<1>3. CASE AdmitExclusive(i, k)
  BY <1>3 DEF AdmitExclusive, Available
<1>4. CASE Wait(i, k, p)
  <2> DEFINE w == [inv |-> i, policy |-> p]
  <2>1. w \in Waiters /\ waiting[k] \in Seq(Waiters)
    BY DEF Waiters
  <2>2. \A m, n \in 1..Len(waiting[k]) : m < n => OrdinalOf[waiting[k][m].inv] <= OrdinalOf[waiting[k][n].inv]
    BY DEF QueueSorted
  <2> HIDE DEF w
  <2>3. Len(Enqueue(waiting[k], w)) = Len(waiting[k]) + 1
    BY <2>1, <2>2, EnqueueFacts
  <2>4. k2 = k => waiting'[k2] = Enqueue(waiting[k], w)
    BY <1>4 DEF Wait, w
  <2>5. k2 = k => waiting'[k2] # <<>>
    BY <2>1, <2>3, <2>4
  <2>6. k2 # k => waiting'[k2] = waiting[k2]
    BY <1>4 DEF Wait
  <2> QED BY <1>4, <2>5, <2>6 DEF Wait, Available
<1> QED BY <1>1, <1>2, <1>3, <1>4 DEF Acquire, TryAcquire
=============================================================================
