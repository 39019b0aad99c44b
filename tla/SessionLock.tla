----------------------------- MODULE SessionLock -----------------------------
(***************************************************************************)
(* The executor session lock of libs/runtime/src/runtime/session/session-  *)
(* lock.ts: one invocation at a time may use an executor session; the      *)
(* others wait in creation order, may be aborted while they wait, and are  *)
(* all rejected when the session is quarantined because the work of its    *)
(* holder could not be confirmed to have stopped.  Every call is           *)
(* synchronous, so every call is one action.                               *)
(***************************************************************************)
EXTENDS Naturals, Sequences, FiniteSets

CONSTANTS
    Users,          \* invocations that use a session
    Sessions,       \* ResolvedExecutorSession keys
    SessionOf,      \* the session each invocation uses
    RankOf          \* its creationOrdinal

ASSUME UsersAssumption == IsFiniteSet(Users)
ASSUME SessionOfAssumption == SessionOf \in [Users -> Sessions]
ASSUME RankAssumption == RankOf \in [Users -> Nat]

VARIABLES
    busy,           \* state.busy
    quarantined,    \* sessions whose state.quarantined is set
    queue,          \* state.waiting
    use,            \* how far the use of a session has come
    aborted         \* invocations whose AbortSignal has fired

sessionVars == <<busy, quarantined, queue, use, aborted>>

Uses == {"idle", "waiting", "held", "released", "rejected"}

TypeOK ==
    /\ busy \in [Sessions -> BOOLEAN]
    /\ quarantined \in SUBSET Sessions
    /\ queue \in [Sessions -> Seq(Users)]
    /\ use \in [Users -> Uses]
    /\ aborted \in SUBSET Users

Init ==
    /\ busy = [s \in Sessions |-> FALSE]
    /\ quarantined = {}
    /\ queue = [s \in Sessions |-> <<>>]
    /\ use = [u \in Users |-> "idle"]
    /\ aborted = {}

-----------------------------------------------------------------------------
(* push and the stable sort by creationOrdinal. *)
InsertByRank(q, u) ==
    LET at == CHOOSE p \in 0..Len(q) :
                /\ \A n \in 1..p : RankOf[q[n]] <= RankOf[u]
                /\ \A n \in (p + 1)..Len(q) : RankOf[q[n]] > RankOf[u]
    IN  [n \in 1..(Len(q) + 1) |->
            IF n <= at THEN q[n] ELSE IF n = at + 1 THEN u ELSE q[n - 1]]

(* A faulty RemoveUser: the aborted request stays in the queue. *)
KeepUser(q, u) == q

(* indexOf and splice. *)
RemoveUser(q, u) ==
    LET at == CHOOSE n \in 1..Len(q) : q[n] = u
    IN  [n \in 1..(Len(q) - 1) |-> IF n < at THEN q[n] ELSE q[n + 1]]

InQueue(s) == {queue[s][n] : n \in 1..Len(queue[s])}

(* A faulty Free: only the queue is looked at. *)
FreeByQueue(s) == queue[s] = <<>>

(* isAvailable; the same test decides tryAcquire. *)
Free(s) == ~busy[s] /\ queue[s] = <<>>

-----------------------------------------------------------------------------
(* acquire is refused: the session is quarantined or the signal aborted. *)
AcquireRejected(u) ==
    /\ use[u] = "idle"
    /\ SessionOf[u] \in quarantined \/ u \in aborted
    /\ use' = [use EXCEPT ![u] = "rejected"]
    /\ UNCHANGED <<busy, quarantined, queue, aborted>>

(* A faulty AcquireFree: quarantine is not looked at. *)
AcquireFreeAnyway(u) ==
    /\ use[u] = "idle" /\ u \notin aborted
    /\ ~busy[SessionOf[u]]
    /\ busy' = [busy EXCEPT ![SessionOf[u]] = TRUE]
    /\ use' = [use EXCEPT ![u] = "held"]
    /\ UNCHANGED <<quarantined, queue, aborted>>

(* acquire is admitted at once. *)
AcquireFree(u) ==
    /\ use[u] = "idle"
    /\ SessionOf[u] \notin quarantined /\ u \notin aborted
    /\ ~busy[SessionOf[u]]
    /\ busy' = [busy EXCEPT ![SessionOf[u]] = TRUE]
    /\ use' = [use EXCEPT ![u] = "held"]
    /\ UNCHANGED <<quarantined, queue, aborted>>

(* acquire has to wait. *)
AcquireQueued(u) ==
    /\ use[u] = "idle"
    /\ SessionOf[u] \notin quarantined /\ u \notin aborted
    /\ busy[SessionOf[u]]
    /\ queue' = [queue EXCEPT ![SessionOf[u]] = InsertByRank(@, u)]
    /\ use' = [use EXCEPT ![u] = "waiting"]
    /\ UNCHANGED <<busy, quarantined, aborted>>

(* tryAcquire: throws on a quarantined session, takes a free one, and      *)
(* otherwise leaves everything as it is.  It does not look at the signal.  *)
TryAcquireSession(u) ==
    /\ use[u] = "idle"
    /\ \/ /\ SessionOf[u] \in quarantined
          /\ use' = [use EXCEPT ![u] = "rejected"]
          /\ UNCHANGED busy
       \/ /\ SessionOf[u] \notin quarantined
          /\ Free(SessionOf[u])
          /\ busy' = [busy EXCEPT ![SessionOf[u]] = TRUE]
          /\ use' = [use EXCEPT ![u] = "held"]
    /\ UNCHANGED <<quarantined, queue, aborted>>

(* The abort event: a waiting request leaves the queue and is rejected; a  *)
(* holder only learns of it.                                               *)
Abort(u) ==
    /\ u \notin aborted
    /\ aborted' = aborted \cup {u}
    /\ IF use[u] = "waiting"
       THEN /\ queue' = [queue EXCEPT ![SessionOf[u]] = RemoveUser(@, u)]
            /\ use' = [use EXCEPT ![u] = "rejected"]
       ELSE UNCHANGED <<queue, use>>
    /\ UNCHANGED <<busy, quarantined>>

(* quarantine: called on behalf of the holder, whose activity may still be *)
(* running, or of one whose lease is already back (a task may leave a      *)
(* process or an agent turn it did not await).                             *)
Quarantine(u) ==
    LET s == SessionOf[u]
    IN  /\ use[u] \in {"held", "released"}
        /\ s \notin quarantined
        /\ quarantined' = quarantined \cup {s}
        /\ use' = [v \in Users |-> IF v \in InQueue(s) THEN "rejected" ELSE use[v]]
        /\ queue' = [queue EXCEPT ![s] = <<>>]
        /\ UNCHANGED <<busy, aborted>>

(* A faulty ReleaseSession: the session is freed and nobody is admitted. *)
ReleaseAdmittingNobody(u) ==
    /\ use[u] = "held"
    /\ use' = [use EXCEPT ![u] = "released"]
    /\ busy' = [busy EXCEPT ![SessionOf[u]] = SessionOf[u] \in quarantined]
    /\ UNCHANGED <<queue, quarantined, aborted>>

(* #release: a quarantined session stays busy for good, otherwise the      *)
(* session passes straight to the first request in the queue.              *)
ReleaseSession(u) ==
    LET s == SessionOf[u]
    IN  /\ use[u] = "held"
        /\ \/ /\ s \in quarantined
              /\ use' = [use EXCEPT ![u] = "released"]
              /\ UNCHANGED <<busy, queue>>
           \/ /\ s \notin quarantined /\ queue[s] = <<>>
              /\ use' = [use EXCEPT ![u] = "released"]
              /\ busy' = [busy EXCEPT ![s] = FALSE]
              /\ UNCHANGED queue
           \/ /\ s \notin quarantined /\ queue[s] # <<>>
              /\ use' = [use EXCEPT ![u] = "released", ![queue[s][1]] = "held"]
              /\ queue' = [queue EXCEPT ![s] = Tail(@)]
              /\ UNCHANGED busy
        /\ UNCHANGED <<quarantined, aborted>>

Next ==
    \E u \in Users :
        \/ AcquireRejected(u) \/ AcquireFree(u) \/ AcquireQueued(u)
        \/ TryAcquireSession(u)
        \/ Abort(u) \/ Quarantine(u) \/ ReleaseSession(u)

(* A holder lets its session go, or reports that it cannot confirm it has  *)
(* stopped (executeTaskNode's finally block), after which nothing more is  *)
(* expected of it.                                                         *)
HolderEnds(u) ==
    /\ SessionOf[u] \notin quarantined
    /\ ReleaseSession(u) \/ (use[u] = "held" /\ Quarantine(u))

Fairness == \A u \in Users : WF_sessionVars(HolderEnds(u))

Spec == Init /\ [][Next]_sessionVars
FairSpec == Spec /\ Fairness

-----------------------------------------------------------------------------
UsersOf(s) == {u \in Users : use[u] = "held" /\ SessionOf[u] = s}

(* At most one invocation holds a session: two turns never run in one      *)
(* conversation.                                                           *)
OneHolder ==
    \A u, v \in Users :
        use[u] = "held" /\ use[v] = "held" /\ SessionOf[u] = SessionOf[v] => u = v

(* A session is busy while an invocation holds it, and a session that is   *)
(* not quarantined is free again once nobody does.                         *)
BusyUntilReleased ==
    \A s \in Sessions :
        /\ UsersOf(s) # {} => busy[s]
        /\ busy[s] => UsersOf(s) # {} \/ s \in quarantined

QueuedWait ==
    \A s \in Sessions : \A n \in 1..Len(queue[s]) :
        use[queue[s][n]] = "waiting" /\ SessionOf[queue[s][n]] = s

QueuedOnce ==
    \A s \in Sessions : \A m, n \in 1..Len(queue[s]) :
        queue[s][m] = queue[s][n] => m = n

WaitersQueued ==
    \A u \in Users : use[u] = "waiting" =>
        \E n \in 1..Len(queue[SessionOf[u]]) : queue[SessionOf[u]][n] = u

QueueInOrder ==
    \A s \in Sessions : \A m, n \in 1..Len(queue[s]) :
        m < n => RankOf[queue[s][m]] <= RankOf[queue[s][n]]

QueueHasHolder == \A s \in Sessions : queue[s] # <<>> => UsersOf(s) # {}

(* The queue holds the waiting requests, each once, in creation order, and *)
(* only while somebody holds the session.                                  *)
QueueSound ==
    QueuedWait /\ QueuedOnce /\ WaitersQueued /\ QueueInOrder /\ QueueHasHolder

(* The registry's state agrees with what its users were told: no path      *)
(* frees a session under a live lease, leaves it busy for good, drops a    *)
(* waiting request or keeps an aborted one to which it would be granted.   *)
SessionAccounted == BusyUntilReleased /\ QueueSound

(* Once a session is quarantined nobody new is ever admitted to it, neither *)
(* from the queue nor by a later request.                                   *)
QuarantineIsFinal ==
    [][\A u \in Users :
        SessionOf[u] \in quarantined /\ use'[u] = "held" => use[u] = "held"]_sessionVars

(* Nobody waits for ever: a request is admitted or rejected. *)
WaitEnds == \A u \in Users : use[u] = "waiting" ~> use[u] # "waiting"
=============================================================================
