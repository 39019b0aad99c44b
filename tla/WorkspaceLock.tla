---------------------------- MODULE WorkspaceLock ----------------------------
(***************************************************************************)
(* The workspace lock of libs/runtime/src/runtime/workspace/workspace-     *)
(* lock.ts: a readers/writer lock per workspace resource, with one queue   *)
(* per resource kept in creation order, and re-entrance for invocations    *)
(* that share the owner of the current writer.                             *)
(*                                                                         *)
(* The registry is synchronous JavaScript: a call of acquire, tryAcquire   *)
(* or release runs to its end before anything else does, so each call is   *)
(* one action.  An invocation asks at most once (creationOrdinal and       *)
(* invocationId belong to one node of one Run).                            *)
(***************************************************************************)
EXTENDS Naturals, Sequences, FiniteSets

CONSTANTS
    Invocations,    \* invocations that ask for a workspace
    Owners,         \* lock owners: a top-level invocation, or the nested
                    \* workflow invocation its children run under
    Keys,           \* workspace resources
    OwnerOf,        \* ownerId ?? holderId of each invocation
    OrdinalOf,      \* creationOrdinal of each invocation
    NoOwner,        \* writerInvocationId = undefined
    NoLease         \* an invocation that has asked for nothing yet

ASSUME InvocationsAssumption == IsFiniteSet(Invocations)
ASSUME OwnersAssumption == OwnerOf \in [Invocations -> Owners] /\ NoOwner \notin Owners
ASSUME OrdinalsAssumption == OrdinalOf \in [Invocations -> Nat]

Policies == {"shared", "exclusive"}
Requests == [key : Keys, policy : Policies]
Waiters == [inv : Invocations, policy : Policies]

ASSUME LeaseAssumption == NoLease \notin Requests

VARIABLES
    readers,    \* readers[k][o]: depth of owner o in the Map `readers` of k
    writer,     \* writerInvocationId
    depth,      \* writerDepth
    waiting,    \* the array `waiting`
    tracked,    \* the keys of #locks
    phase,      \* how far the request of an invocation has come
    lease       \* what it asked for and, once held, what its lease covers

vars == <<readers, writer, depth, waiting, tracked, phase, lease>>

Phases == {"idle", "waiting", "held", "released"}

TypeOK ==
    /\ readers \in [Keys -> [Owners -> Nat]]
    /\ writer \in [Keys -> Owners \cup {NoOwner}]
    /\ depth \in [Keys -> Nat]
    /\ waiting \in [Keys -> Seq(Waiters)]
    /\ tracked \in SUBSET Keys
    /\ phase \in [Invocations -> Phases]
    /\ lease \in [Invocations -> Requests \cup {NoLease}]
    /\ \A i \in Invocations : phase[i] = "idle" <=> lease[i] = NoLease

Init ==
    /\ readers = [k \in Keys |-> [o \in Owners |-> 0]]
    /\ writer = [k \in Keys |-> NoOwner]
    /\ depth = [k \in Keys |-> 0]
    /\ waiting = [k \in Keys |-> <<>>]
    /\ tracked = {}
    /\ phase = [i \in Invocations |-> "idle"]
    /\ lease = [i \in Invocations |-> NoLease]

-----------------------------------------------------------------------------
NoReaders(r) == \A o \in Owners : r[o] = 0

(* Faulty variants of Available: readers do not stop a writer; the queue   *)
(* does not stop a newcomer.                                               *)
AvailableDespiteReaders(k, p) == waiting[k] = <<>> /\ writer[k] = NoOwner
AvailableDespiteQueue(k, p) ==
    writer[k] = NoOwner /\ (p = "shared" \/ NoReaders(readers[k]))

(* No request is queued and the policy is compatible with the holders: the *)
(* conditions of acquire, tryAcquire and isAvailable, without re-entrance. *)
Available(k, p) ==
    /\ waiting[k] = <<>>
    /\ writer[k] = NoOwner
    /\ p = "shared" \/ NoReaders(readers[k])

(* A faulty Enqueue: no sort.                                              *)
EnqueueUnsorted(q, w) == Append(q, w)

(* The array after push(w) and the stable sort by creationOrdinal. *)
Enqueue(q, w) ==
    LET Before(n) == OrdinalOf[q[n].inv] <= OrdinalOf[w.inv]
        at == CHOOSE p \in 0..Len(q) :
                /\ \A n \in 1..p : Before(n)
                /\ \A n \in (p + 1)..Len(q) : ~Before(n)
    IN  [n \in 1..(Len(q) + 1) |->
            IF n <= at THEN q[n] ELSE IF n = at + 1 THEN w ELSE q[n - 1]]

(* A faulty GrantCount: a writer at the head is left for a later call.     *)
GrantReadersOnly(w, r, q) ==
    IF w # NoOwner \/ q = <<>> \/ q[1].policy = "exclusive" THEN 0
    ELSE CHOOSE n \in 1..Len(q) :
            /\ \A m \in 1..n : q[m].policy = "shared"
            /\ n < Len(q) => q[n + 1].policy = "exclusive"

(* How many requests at the head of q #grantWaiting admits: one writer     *)
(* when nobody reads, or the whole leading batch of readers.               *)
GrantCount(w, r, q) ==
    CASE w # NoOwner \/ q = <<>> -> 0
      [] w = NoOwner /\ q # <<>> /\ q[1].policy = "exclusive" ->
            IF NoReaders(r) THEN 1 ELSE 0
      [] OTHER ->
            CHOOSE n \in 1..Len(q) :
                /\ \A m \in 1..n : q[m].policy = "shared"
                /\ n < Len(q) => q[n + 1].policy = "exclusive"

-----------------------------------------------------------------------------
(* createLease on a re-entrant request: the lease is exclusive whatever    *)
(* policy was asked for.                                                   *)
Reenter(i, k) ==
    /\ phase[i] = "idle"
    /\ writer[k] = OwnerOf[i]
    /\ depth' = [depth EXCEPT ![k] = @ + 1]
    /\ phase' = [phase EXCEPT ![i] = "held"]
    /\ lease' = [lease EXCEPT ![i] = [key |-> k, policy |-> "exclusive"]]
    /\ tracked' = tracked \cup {k}
    /\ UNCHANGED <<readers, writer, waiting>>

AdmitShared(i, k) ==
    /\ phase[i] = "idle"
    /\ writer[k] # OwnerOf[i]
    /\ Available(k, "shared")
    /\ readers' = [readers EXCEPT ![k][OwnerOf[i]] = @ + 1]
    /\ phase' = [phase EXCEPT ![i] = "held"]
    /\ lease' = [lease EXCEPT ![i] = [key |-> k, policy |-> "shared"]]
    /\ tracked' = tracked \cup {k}
    /\ UNCHANGED <<writer, depth, waiting>>

AdmitExclusive(i, k) ==
    /\ phase[i] = "idle"
    /\ writer[k] # OwnerOf[i]
    /\ Available(k, "exclusive")
    /\ writer' = [writer EXCEPT ![k] = OwnerOf[i]]
    /\ depth' = [depth EXCEPT ![k] = 1]
    /\ phase' = [phase EXCEPT ![i] = "held"]
    /\ lease' = [lease EXCEPT ![i] = [key |-> k, policy |-> "exclusive"]]
    /\ tracked' = tracked \cup {k}
    /\ UNCHANGED <<readers, waiting>>

(* tryAcquire that succeeds; acquire that need not wait. *)
TryAcquire(i, k, p) ==
    \/ Reenter(i, k)
    \/ p = "shared" /\ AdmitShared(i, k)
    \/ p = "exclusive" /\ AdmitExclusive(i, k)

(* tryAcquire that fails still creates the lock state. *)
TryAcquireFails(i, k, p) ==
    /\ phase[i] = "idle"
    /\ writer[k] # OwnerOf[i]
    /\ ~Available(k, p)
    /\ tracked' = tracked \cup {k}
    /\ UNCHANGED <<readers, writer, depth, waiting, phase, lease>>

(* acquire that has to wait. *)
Wait(i, k, p) ==
    /\ phase[i] = "idle"
    /\ writer[k] # OwnerOf[i]
    /\ ~Available(k, p)
    /\ waiting' = [waiting EXCEPT ![k] = Enqueue(@, [inv |-> i, policy |-> p])]
    /\ phase' = [phase EXCEPT ![i] = "waiting"]
    /\ lease' = [lease EXCEPT ![i] = [key |-> k, policy |-> p]]
    /\ tracked' = tracked \cup {k}
    /\ UNCHANGED <<readers, writer, depth>>

Acquire(i, k, p) == TryAcquire(i, k, p) \/ Wait(i, k, p)

(* The lock of k once the lease of i is given back, before grants. *)
ReadersAfter(i, k) ==
    IF lease[i].policy = "shared"
    THEN [readers[k] EXCEPT ![OwnerOf[i]] = IF @ <= 1 THEN 0 ELSE @ - 1]
    ELSE readers[k]

DepthAfter(i, k) ==
    IF lease[i].policy = "exclusive" /\ writer[k] = OwnerOf[i]
    THEN depth[k] - 1
    ELSE depth[k]

WriterAfter(i, k) ==
    IF /\ lease[i].policy = "exclusive"
       /\ writer[k] = OwnerOf[i]
       /\ DepthAfter(i, k) = 0
    THEN NoOwner
    ELSE writer[k]

(* When #release drops the state object from #locks; the faulty variant    *)
(* forgets the readers.                                                    *)
UnusedByWriters(w, r, q) == w = NoOwner /\ q = <<>>
Unused(w, r, q) == w = NoOwner /\ NoReaders(r) /\ q = <<>>

(* #release and the #grantWaiting it ends with.  The `released` flag makes *)
(* a second call of the same lease a no-op: phase is no longer "held".     *)
Release(i) ==
    LET k == lease[i].key
        q == waiting[k]
        r == ReadersAfter(i, k)
        w == WriterAfter(i, k)
        n == GrantCount(w, r, q)
        granted == {q[m].inv : m \in 1..n}
        toWriter == n > 0 /\ q[1].policy = "exclusive"
    IN  /\ phase[i] = "held"
        /\ waiting' = [waiting EXCEPT ![k] = SubSeq(q, n + 1, Len(q))]
        /\ writer' = [writer EXCEPT ![k] =
                        IF toWriter THEN OwnerOf[q[1].inv] ELSE w]
        /\ depth' = [depth EXCEPT ![k] = IF toWriter THEN 1 ELSE DepthAfter(i, k)]
        /\ readers' = [readers EXCEPT ![k] =
                        IF toWriter THEN r
                        ELSE [o \in Owners |->
                                r[o] + Cardinality({j \in granted : OwnerOf[j] = o})]]
        /\ phase' = [j \in Invocations |->
                        IF j = i THEN "released"
                        ELSE IF j \in granted THEN "held" ELSE phase[j]]
        /\ tracked' = IF Unused(writer'[k], readers'[k], waiting'[k])
                      THEN tracked \ {k} ELSE tracked
        /\ UNCHANGED lease

Next ==
    \E i \in Invocations :
        \/ \E k \in Keys, p \in Policies :
            \/ Acquire(i, k, p)
            \/ TryAcquireFails(i, k, p)
        \/ Release(i)

(* A node gives its lease back in a finally block, so every lease held is  *)
(* released in the end; nothing makes an invocation ask.                   *)
Fairness == \A i \in Invocations : WF_vars(Release(i))

Spec == Init /\ [][Next]_vars
FairSpec == Spec /\ Fairness

-----------------------------------------------------------------------------
Holders(k) == {i \in Invocations : phase[i] = "held" /\ lease[i].key = k}
SharedHolders(k, o) ==
    {i \in Holders(k) : lease[i].policy = "shared" /\ OwnerOf[i] = o}
ExclusiveHolders(k) == {i \in Holders(k) : lease[i].policy = "exclusive"}

(* A lease that covers a workspace exclusively is never held beside a      *)
(* lease of another owner on that workspace, whatever order acquire,       *)
(* tryAcquire and release are called in.                                   *)
MutualExclusion ==
    \A k \in Keys : \A i, j \in Holders(k) :
        lease[i].policy = "exclusive" =>
            OwnerOf[i] = OwnerOf[j] /\ lease[j].policy = "exclusive"

(* The depths the lock counts are the leases that are out: a lock that     *)
(* counted one too few would be freed under a live lease, one too many     *)
(* would never be freed.                                                   *)
CountsMatchLeases ==
    \A k \in Keys :
        /\ \A o \in Owners : readers[k][o] = Cardinality(SharedHolders(k, o))
        /\ depth[k] = Cardinality(ExclusiveHolders(k))
        /\ \A i \in ExclusiveHolders(k) : writer[k] = OwnerOf[i]
        /\ writer[k] = NoOwner <=> depth[k] = 0

(* A lease keeps a reference to the state object it was made from; the     *)
(* object is never dropped from #locks while a lease or a queued request   *)
(* still needs it, so a later request cannot get a second, fresh lock.     *)
NoOrphanedState ==
    \A k \in Keys : Holders(k) # {} \/ waiting[k] # <<>> => k \in tracked

(* The owner that writes excludes every reader, its own shared leases      *)
(* included.                                                               *)
WriterExcludesReaders ==
    \A k \in Keys : writer[k] # NoOwner => NoReaders(readers[k])

QueuedWait ==
    \A k \in Keys : \A n \in 1..Len(waiting[k]) :
        /\ phase[waiting[k][n].inv] = "waiting"
        /\ lease[waiting[k][n].inv] = [key |-> k, policy |-> waiting[k][n].policy]

QueuedOnce ==
    \A k \in Keys : \A m, n \in 1..Len(waiting[k]) :
        waiting[k][m].inv = waiting[k][n].inv => m = n

WaitersQueued ==
    \A i \in Invocations :
        phase[i] = "waiting" =>
            \E n \in 1..Len(waiting[lease[i].key]) : waiting[lease[i].key][n].inv = i

(* Every request that waits is in the queue of its workspace, where a      *)
(* grant can reach it, exactly once and under the policy it asked for, and *)
(* the queue holds nobody else.                                            *)
NoLostWaiter == QueuedWait /\ QueuedOnce /\ WaitersQueued

(* The queue of each workspace is in creation order. *)
QueueSorted ==
    \A k \in Keys : \A m, n \in 1..Len(waiting[k]) :
        m < n => OrdinalOf[waiting[k][m].inv] <= OrdinalOf[waiting[k][n].inv]

(* A queue is never left behind without a holder whose release will look   *)
(* at it: grants happen nowhere else.                                      *)
QueueHasHolder == \A k \in Keys : waiting[k] # <<>> => Holders(k) # {}

(* Creation order: a queued request that is admitted was created no later  *)
(* than the requests it leaves in the queue.                               *)
AdmittedInCreationOrder ==
    [][\A i, j \in Invocations :
        /\ phase[i] = "waiting" /\ phase'[i] = "held"
        /\ phase'[j] = "waiting" /\ lease'[j].key = lease[i].key
        => OrdinalOf[i] <= OrdinalOf[j]]_vars

(* Writer preference: while a request waits for a workspace, a newcomer is *)
(* admitted there only as a re-entrance of the owner that writes.          *)
NoOvertaking ==
    [][\A i \in Invocations :
        phase[i] = "idle" /\ phase'[i] = "held" =>
            \/ waiting[lease'[i].key] = <<>>
            \/ writer[lease'[i].key] = OwnerOf[i]]_vars

(* Every request that waits is admitted in the end, if whoever holds the   *)
(* workspace gives it back.                                                *)
WaitersAdmitted ==
    \A i \in Invocations : phase[i] = "waiting" ~> phase[i] = "held"
=============================================================================
