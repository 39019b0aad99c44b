---------------------------- MODULE JointAdmission ----------------------------
(***************************************************************************)
(* Joint session and workspace admission: libs/runtime/src/runtime/        *)
(* invocation/joint-admission.ts over the two lock registries, driven by   *)
(* the invocations of libs/runtime/src/runtime/invocation/invocation-      *)
(* execution.ts.                                                           *)
(*                                                                         *)
(* Every execution context (a Run, or a nested workflow inside it) has its *)
(* own JointAdmissionRegistry and session locks; all share one             *)
(* WorkspaceLockRegistry.  A registry runs one #process loop per workspace *)
(* key.  The loop is synchronous until it awaits a change, so while one    *)
(* loop runs nothing else happens; once the change it awaits has come, its *)
(* continuation is a microtask that other calls may still overtake.        *)
(***************************************************************************)
EXTENDS Naturals, Sequences, FiniteSets

CONSTANTS
    Invocations, Owners, Keys, Sessions, Contexts,
    OwnerOf,        \* context.workspaceOwnerId ?? invocationId
    OrdinalOf,      \* creationOrdinal
    KeyOf,          \* the workspace resource of the node
    PolicyOf,       \* its workspace policy
    SessionOf,      \* its resolved session, or NoSession
    ContextOf,      \* the execution context it runs in
    GraphAdmitted,  \* workflow nodes with workspaceAdmission = "graph"
    BodyOf,         \* invocations of the child workflow a workflow node runs
    ChecksOf,       \* evaluators validateOutput runs once a task has answered
    Uncertain,      \* tasks whose adapter may report unconfirmed activity
    NoOwner, NoLease, NoSession

ASSUME InvocationsAssumption ==
    /\ IsFiniteSet(Invocations)
    /\ OwnerOf \in [Invocations -> Owners] /\ NoOwner \notin Owners
    /\ OrdinalOf \in [Invocations -> Nat]
    /\ KeyOf \in [Invocations -> Keys]
    /\ PolicyOf \in [Invocations -> {"shared", "exclusive"}]
    /\ SessionOf \in [Invocations -> Sessions \cup {NoSession}]
    /\ ContextOf \in [Invocations -> Contexts]
ASSUME NamesAssumption ==
    /\ NoSession \notin Sessions /\ NoOwner \notin Invocations
    /\ NoLease \notin [key : Keys, policy : {"shared", "exclusive"}]

(* A session is resolved for the invocations of one execution context,     *)
(* which has a SessionLockRegistry of its own.                             *)
ASSUME SessionsAssumption ==
    \A i, j \in Invocations :
        SessionOf[i] = SessionOf[j] /\ SessionOf[i] # NoSession => ContextOf[i] = ContextOf[j]

SessionUsers == {i \in Invocations : SessionOf[i] # NoSession}

VARIABLES
    readers, writer, depth, waiting, tracked, phase, lease,  \* WorkspaceLock
    busy, quarantined, queue, use,                           \* SessionLock
    aborted,        \* invocations whose signal has fired
    requests,       \* requests[c][k]: the #waiting array
    loop,           \* loop[c][k]: the #process loop
    refused,        \* invocations whose admission was rejected
    unconfirmed     \* invocations with unconfirmedActivity

workspaceVars == <<readers, writer, depth, waiting, tracked, phase, lease>>
sessionVars == <<busy, quarantined, queue, use>>
jointVars == <<requests, loop, refused, unconfirmed, aborted>>
vars == <<workspaceVars, sessionVars, jointVars>>

W == INSTANCE WorkspaceLock
S == INSTANCE SessionLock
        WITH Users <- SessionUsers,
             RankOf <- [i \in SessionUsers |-> OrdinalOf[i]],
             SessionOf <- [i \in SessionUsers |-> SessionOf[i]],
             aborted <- aborted \cap SessionUsers

Loops == [state : {"off", "run", "asleep", "woken"}, on : Invocations \cup {NoOwner}]
Off == [state |-> "off", on |-> NoOwner]

TypeOK ==
    /\ W!TypeOK
    /\ S!TypeOK
    /\ aborted \in SUBSET Invocations
    /\ requests \in [Contexts -> [Keys -> Seq(Invocations)]]
    /\ loop \in [Contexts -> [Keys -> Loops]]
    /\ refused \in SUBSET Invocations
    /\ unconfirmed \in SUBSET Invocations

Init ==
    /\ aborted = {}
    /\ W!Init
    /\ S!Init
    /\ requests = [c \in Contexts |-> [k \in Keys |-> <<>>]]
    /\ loop = [c \in Contexts |-> [k \in Keys |-> Off]]
    /\ refused = {}
    /\ unconfirmed = {}

-----------------------------------------------------------------------------
InRequests(c, k) == {requests[c][k][n] : n \in 1..Len(requests[c][k])}
Queued(i) == i \in InRequests(ContextOf[i], KeyOf[i])

(* Nothing has happened to i yet. *)
Fresh(i) == phase[i] = "idle" /\ i \notin refused /\ ~Queued(i)

(* i runs between its admission and its finally block. *)
Active(i) == phase[i] = "held" \/ (i \in SessionUsers /\ use[i] = "held")

(* i waits for admission, in the joint queue or in the lock's own. *)
Waits(i) == Queued(i) \/ phase[i] = "waiting"

(* i has asked for admission and has not ended yet. *)
InProgress(i) == Active(i) \/ Waits(i)

(* No #process loop is on the stack. *)
Quiet == \A c \in Contexts, k \in Keys : loop[c][k].state # "run"

(* The code that runs i has reached its acquire: the workflow node it      *)
(* belongs to runs its body, or the task it checks has answered and has    *)
(* released its workspace.                                                 *)
Started(i) ==
    /\ \A p \in Invocations : i \in BodyOf[p] => phase[p] = "held"
    /\ \A t \in Invocations :
        i \in ChecksOf[t] => phase[t] = "released" /\ t \notin unconfirmed

(* isAvailable of the workspace for i: re-entrance or no conflict. *)
WorkspaceFree(i) ==
    writer[KeyOf[i]] = OwnerOf[i] \/ W!Available(KeyOf[i], PolicyOf[i])

SessionQuarantined(i) == i \in SessionUsers /\ SessionOf[i] \in quarantined
SessionFree(i) == i \in SessionUsers => S!Free(SessionOf[i])

Admissible(i) == WorkspaceFree(i) /\ ~SessionQuarantined(i) /\ SessionFree(i)

(* The loop can decide on i: admit it, or fail it for its session. *)
Decidable(i) == WorkspaceFree(i) /\ (SessionQuarantined(i) \/ SessionFree(i))

(* push and the stable sort by creationOrdinal. *)
Insert(q, i) ==
    LET at == CHOOSE p \in 0..Len(q) :
                /\ \A n \in 1..p : OrdinalOf[q[n]] <= OrdinalOf[i]
                /\ \A n \in (p + 1)..Len(q) : OrdinalOf[q[n]] > OrdinalOf[i]
    IN  [n \in 1..(Len(q) + 1) |->
            IF n <= at THEN q[n] ELSE IF n = at + 1 THEN i ELSE q[n - 1]]

(* #notifyChange resolves every promise waitForChange has handed out: the  *)
(* loops of the given contexts that sleep are woken.                       *)
Wake(cs) ==
    [c \in Contexts |-> [k \in Keys |->
        IF c \in cs /\ loop[c][k].state = "asleep"
        THEN [loop[c][k] EXCEPT !.state = "woken"] ELSE loop[c][k]]]

-----------------------------------------------------------------------------
(* acquire: rejected at once under an aborted signal, else queued; the     *)
(* call starts the loop of its key unless one is there already.            *)
Request(i) ==
    LET c == ContextOf[i]
        k == KeyOf[i]
    IN  /\ Quiet /\ Fresh(i) /\ Started(i)
        /\ i \notin GraphAdmitted
        /\ IF i \in aborted
           THEN /\ refused' = refused \cup {i}
                /\ UNCHANGED <<requests, loop>>
           ELSE /\ requests' = [requests EXCEPT ![c][k] = Insert(@, i)]
                /\ loop' = [loop EXCEPT ![c][k].state = IF @ = "off" THEN "run" ELSE @]
                /\ UNCHANGED refused
        /\ UNCHANGED <<workspaceVars, sessionVars, unconfirmed, aborted>>

(* executeWorkflowNode with "graph" admission asks the workspace lock      *)
(* itself, without looking at its signal.                                  *)
RequestGraph(i) ==
    /\ Quiet /\ Fresh(i) /\ Started(i)
    /\ i \in GraphAdmitted
    /\ W!Acquire(i, KeyOf[i], PolicyOf[i])
    /\ UNCHANGED <<sessionVars, jointVars>>

(* A faulty AdmitHead: the session is taken while the workspace is not     *)
(* available, and kept until it is.                                        *)
AdmitHeadInParts(c, k) ==
    LET i == Head(requests[c][k])
    IN  /\ loop[c][k].state = "run" /\ requests[c][k] # <<>>
        /\ UNCHANGED <<loop, refused, unconfirmed, aborted>>
        /\ IF i \in SessionUsers /\ use[i] # "held"
           THEN S!TryAcquireSession(i) ELSE UNCHANGED sessionVars
        /\ IF WorkspaceFree(i)
           THEN /\ W!TryAcquire(i, k, PolicyOf[i])
                /\ requests' = [requests EXCEPT ![c][k] = Tail(@)]
           ELSE UNCHANGED <<workspaceVars, requests>>

(* The loop looks at the head of its queue: both leases are taken, ...     *)
AdmitHead(c, k) ==
    LET i == Head(requests[c][k])
    IN  /\ loop[c][k].state = "run" /\ requests[c][k] # <<>>
        /\ Admissible(i)
        /\ UNCHANGED <<loop, refused, unconfirmed, aborted>>
        /\ W!TryAcquire(i, k, PolicyOf[i])
        /\ IF i \in SessionUsers
           THEN S!TryAcquireSession(i)
           ELSE UNCHANGED sessionVars
        /\ requests' = [requests EXCEPT ![c][k] = Tail(@)]

(* ... or the session turns out to be quarantined and the request fails,   *)
RejectHead(c, k) ==
    LET i == Head(requests[c][k])
    IN  /\ loop[c][k].state = "run" /\ requests[c][k] # <<>>
        /\ WorkspaceFree(i) /\ SessionQuarantined(i)
        /\ requests' = [requests EXCEPT ![c][k] = Tail(@)]
        /\ refused' = refused \cup {i}
        /\ UNCHANGED <<workspaceVars, sessionVars, loop, unconfirmed, aborted>>

(* A faulty SleepOnHead: the loop ends and leaves its queue behind. *)
LeaveHead(c, k) ==
    LET i == Head(requests[c][k])
    IN  /\ loop[c][k].state = "run" /\ requests[c][k] # <<>>
        /\ ~Decidable(i)
        /\ loop' = [loop EXCEPT ![c][k] = Off]
        /\ UNCHANGED <<workspaceVars, sessionVars, requests, refused, unconfirmed, aborted>>

(* ... or something is missing and the loop awaits a change of either      *)
(* registry or the abort of this head,                                     *)
SleepOnHead(c, k) ==
    LET i == Head(requests[c][k])
    IN  /\ loop[c][k].state = "run" /\ requests[c][k] # <<>>
        /\ ~Decidable(i)
        /\ loop' = [loop EXCEPT ![c][k] = [state |-> "asleep", on |-> i]]
        /\ UNCHANGED <<workspaceVars, sessionVars, requests, refused, unconfirmed, aborted>>

(* ... or nothing is queued and the loop ends.                             *)
LeaveLoop(c, k) ==
    /\ loop[c][k].state = "run" /\ requests[c][k] = <<>>
    /\ loop' = [loop EXCEPT ![c][k] = Off]
    /\ UNCHANGED <<workspaceVars, sessionVars, requests, refused, unconfirmed, aborted>>

(* The microtask of a loop whose await was resolved. *)
Resume(c, k) ==
    /\ Quiet
    /\ loop[c][k].state = "woken"
    /\ loop' = [loop EXCEPT ![c][k] = [state |-> "run", on |-> NoOwner]]
    /\ UNCHANGED <<workspaceVars, sessionVars, requests, refused, unconfirmed, aborted>>

Process(c, k) ==
    AdmitHead(c, k) \/ RejectHead(c, k) \/ SleepOnHead(c, k) \/ LeaveLoop(c, k)

(* The signal of a context fires: the listener of each queued request      *)
(* takes it out of its queue, and a loop asleep on one of them is woken.   *)
Abort(c) ==
    LET mine == {i \in Invocations : ContextOf[i] = c}
    IN  /\ Quiet
        /\ ~(mine \subseteq aborted)
        /\ aborted' = aborted \cup mine
        /\ refused' = refused \cup {i \in mine : Queued(i)}
        /\ requests' = [requests EXCEPT ![c] = [k \in Keys |-> <<>>]]
        /\ loop' = [d \in Contexts |-> [k \in Keys |->
                        IF loop[d][k].state = "asleep" /\ loop[d][k].on \in mine
                        THEN [loop[d][k] EXCEPT !.state = "woken"] ELSE loop[d][k]]]
        /\ UNCHANGED <<workspaceVars, sessionVars, unconfirmed>>

(* A task with evaluators has answered: it gives its workspace back before *)
(* they run and keeps its session.                                         *)
ReleaseForChecks(i) ==
    /\ Quiet
    /\ ChecksOf[i] # {} /\ i \notin unconfirmed
    /\ \A j \in BodyOf[i] : ~InProgress(j)
    /\ W!Release(i)
    /\ loop' = Wake(Contexts)
    /\ UNCHANGED <<sessionVars, requests, refused, unconfirmed, aborted>>

(* The finally block of an invocation whose work, evaluators and children  *)
(* have ended: session first, then workspace, unless its activity could    *)
(* not be confirmed to have stopped.                                       *)
Finish(i) ==
    /\ Quiet
    /\ Active(i) /\ i \notin unconfirmed
    /\ \A j \in BodyOf[i] \cup ChecksOf[i] : ~InProgress(j)
    /\ UNCHANGED <<requests, refused, unconfirmed, aborted>>
    /\ IF i \in SessionUsers THEN S!ReleaseSession(i) ELSE UNCHANGED sessionVars
    /\ IF phase[i] = "held" THEN W!Release(i) ELSE UNCHANGED workspaceVars
    /\ loop' = Wake(IF phase[i] = "held" THEN Contexts ELSE {ContextOf[i]})

(* onUncertainActivity without a termination to wait for: the session is   *)
(* quarantined and neither lease will be given back.                       *)
ReportUncertain(i) ==
    /\ Quiet
    /\ i \in Uncertain /\ phase[i] = "held" /\ i \notin unconfirmed
    /\ unconfirmed' = unconfirmed \cup {i}
    /\ UNCHANGED <<workspaceVars, requests, refused, aborted>>
    /\ IF i \in SessionUsers /\ SessionOf[i] \notin quarantined
       THEN /\ S!Quarantine(i)
            /\ loop' = Wake({ContextOf[i]})
       ELSE UNCHANGED <<sessionVars, loop>>

Next ==
    \/ \E i \in Invocations :
        \/ Request(i) \/ RequestGraph(i)
        \/ ReleaseForChecks(i) \/ Finish(i) \/ ReportUncertain(i)
    \/ \E c \in Contexts :
        \/ Abort(c)
        \/ \E k \in Keys : Process(c, k) \/ Resume(c, k)

(* Loops and microtasks run, and whatever was admitted ends: a task has a  *)
(* deadline, a workflow node and a validated task end once nothing they    *)
(* started is in progress.  Nothing makes an invocation ask, be aborted or *)
(* report uncertain activity.                                              *)
Fairness ==
    /\ \A c \in Contexts, k \in Keys :
        WF_vars(Process(c, k)) /\ WF_vars(Resume(c, k))
    /\ \A i \in Invocations : WF_vars(Finish(i))

Spec == Init /\ [][Next]_vars
FairSpec == Spec /\ Fairness

-----------------------------------------------------------------------------
(* Two invocations never hold conflicting leases on a workspace, and never *)
(* one session, through any interleaving of loops, aborts and releases.    *)
LeasesExclude == W!MutualExclusion /\ S!OneHolder

(* Admission is atomic, and with it the two locks exclude conflicting work *)
(* together: a request that still waits for the joint admission, or that   *)
(* was rejected or aborted, holds neither of its two resources, and nobody *)
(* works in a session without having been given the workspace too.         *)
AtomicAdmission ==
    /\ LeasesExclude
    /\ \A i \in Invocations :
          /\ Queued(i) \/ i \in refused => ~Active(i)
          /\ i \in SessionUsers /\ use[i] = "held" => phase[i] \in {"held", "released"}

(* No lost wake-up: a loop that sleeps was put to sleep by a request that  *)
(* is still queued and still cannot be decided; whatever changed that has  *)
(* woken the loop.                                                         *)
NoLostWakeup ==
    \A c \in Contexts, k \in Keys :
        loop[c][k].state = "asleep" =>
            /\ loop[c][k].on \in InRequests(c, k)
            /\ ~Decidable(loop[c][k].on)

(* The joint admission excludes, takes both resources or none, and forgets *)
(* nobody.                                                                 *)
AdmissionSound == AtomicAdmission /\ NoLostWakeup

(* Every request is admitted or refused in the end, unless an invocation   *)
(* that could not be confirmed to have stopped keeps a lease for good.     *)
AdmissionEnds ==
    \A i \in Invocations : Waits(i) ~> ~Waits(i) \/ unconfirmed # {}
=============================================================================
