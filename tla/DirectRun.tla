------------------------------- MODULE DirectRun -------------------------------
(* A run that an application starts in its own process (startWorkflowRun),  *)
(* and the agents it owns: the adapters of its sessions and, in a           *)
(* standalone run, the service that its first agent task starts.  A direct  *)
(* run was handed a runtime that is up already, and creates its adapters    *)
(* before the first task starts.                                            *)
(*                                                                         *)
(* Task 1 has an isolated session; task 2 and task 3 have one too, or reuse *)
(* or fork that of a task before them, and wait for it.  Task 3 may be the  *)
(* arm of a choice, which takes its session when it is selected.  A session *)
(* is named after the task it was made for.  Admission, and what a task     *)
(* does besides its agent, are TaskInvocation's; the layers WorkflowRun's.  *)
EXTENDS Naturals, FiniteSets

CONSTANTS
    Policies,    \* what the plan may say of the sessions of its tasks
    MaxStarts    \* how often the service is started

VARIABLES
    profile,     \* "direct" or "standalone"
    policy,      \* the session policies of the plan and its default model
    offer,       \* what the adapter can do, and the models it has
    stage,       \* how far startWorkflowRun has come
    cancelling,  \* cancellationRequested, and the signal of the run
    verdict,     \* the result it will report
    task,        \* how far each task has come
    selection,   \* effectiveModelSelections
    session,     \* resolvedSessions: the session of each task, or 0
    adapter,     \* the adapter of each session: none yet, open, closing, closed
    pinned,      \* the model each adapter was created with
    generation,  \* how often each session has executed, as its adapter is told
    checkpoint,  \* the generation of a session that was captured for a later arm
    forkedAt,    \* generations of the source: as checkpointed, and when it was forked
    service,     \* the adapter service of a standalone run
    starts,
    lease,       \* "open", "closing" or "closed"
    unclean      \* a close failed

runVars == <<profile, policy, offer, stage, cancelling, verdict, task, selection, session, adapter,
             pinned, generation, checkpoint, forkedAt, service, starts, lease, unclean>>
planVars == <<profile, policy, offer>>
sessionVars == <<session, adapter, pinned, generation, checkpoint, forkedAt>>
leaseVars == <<service, starts, lease>>

Tasks == 1..3
Unset == "unset"
Default == "a"                              \* resolveDefaultModel
InTask == {"acquiring", "checking", "executing", "publishing"}
Ended == {"done", "failed"}

From(t) == policy.session[t].from
Kind(t) == policy.session[t].kind
Consumers(t) == {c \in Tasks : Kind(c) # "isolated" /\ From(c) = t}
Late(t) == t = 3 /\ policy.late             \* an arm of a choice

RunTypeOK ==
    /\ profile \in {"direct", "standalone"}
    /\ stage \in {"starting", "preparing", "resolving", "running", "closing", "shutting", "over"}
    /\ verdict \in {"none", "succeeded", "failed", "cancelled"}
    /\ task \in [Tasks -> {"waiting"} \cup InTask \cup Ended]
    /\ session \in [Tasks -> 0..3]
    /\ adapter \in [Tasks -> {"none", "open", "closing", "closed"}]
    /\ service \in {"none", "starting", "up", "closed"}

RunInit ==
    /\ profile \in {"direct", "standalone"} /\ policy \in Policies
    /\ offer \in {[models |-> {"a", "b"}, able |-> TRUE], [models |-> {"a"}, able |-> TRUE],
                  [models |-> {}, able |-> FALSE]}
    /\ stage = "starting" /\ cancelling = FALSE /\ verdict = "none"
    /\ task = [t \in Tasks |-> "waiting"]
    /\ selection = [t \in Tasks |-> Unset] /\ session = [t \in Tasks |-> 0]
    /\ adapter = [t \in Tasks |-> "none"] /\ pinned = [t \in Tasks |-> Unset]
    /\ generation = [t \in Tasks |-> 0] /\ checkpoint = [t \in Tasks |-> 0]
    /\ forkedAt = {}
    /\ service = "none" /\ starts = 0 /\ lease = "open" /\ unclean = FALSE

-----------------------------------------------------------------------------
(* Preparation. *)

(* The outcome function has thrown: cancellation takes precedence. *)
Thrown == verdict' = IF cancelling THEN "cancelled" ELSE "failed"

(* The lease of the service closes with the run and on its signal; while    *)
(* the service starts, it waits for that.                                   *)
CloseLease ==
    /\ lease' = IF lease # "open" THEN lease
                ELSE IF service \in {"starting", "up"} THEN "closing" ELSE "closed"
    /\ UNCHANGED <<service, starts>>

Cancel ==
    /\ ~cancelling /\ stage # "over"
    /\ cancelling' = TRUE
    /\ IF profile = "standalone" /\ stage # "starting" THEN CloseLease ELSE UNCHANGED leaseVars
    /\ UNCHANGED <<planVars, stage, verdict, task, selection, sessionVars, unclean>>

(* The input is parsed and the runtime profile resolved; both may throw,    *)
(* and so does the signal, before anything is owned.                        *)
ResolveProfile ==
    /\ stage = "starting"
    /\ \/ stage' = "preparing" /\ ~cancelling /\ UNCHANGED verdict
       \/ stage' = "closing" /\ Thrown
    /\ UNCHANGED <<planVars, cancelling, task, selection, sessionVars, leaseVars, unclean>>

(* modelSelectionForTaskNode: what the policy says, or what the source of   *)
(* the session has, then the model of the workflow for an isolated session, *)
(* then, but for a reuse, that of the adapter.  A standalone run has only   *)
(* what was authored.                                                       *)
Selected(t) ==
    LET authored[u \in Tasks] ==
            LET inherited == IF Kind(u) = "isolated" THEN Unset ELSE authored[From(u)]
                explicit == IF policy.session[u].model # Unset THEN policy.session[u].model ELSE inherited
                own == IF explicit = Unset /\ Kind(u) = "isolated" THEN policy.default ELSE explicit
            IN  IF own = Unset /\ Kind(u) # "reuse" /\ offer.able /\ profile = "direct" THEN Default ELSE own
    IN  authored[t]

(* preflightCompiledWorkflowSessionCapabilities, which runs before a model  *)
(* is selected and sees only those in the plan, and in a direct run only.   *)
Capable ==
    profile = "direct" =>
        \A t \in Tasks : ~Late(t) /\ ~offer.able => policy.session[t].model = Unset /\ Kind(t) # "fork"

(* preflightCompiledWorkflowModels *)
Available(t) ==
    profile = "direct" /\ Selected(t) # Unset => offer.able /\ Selected(t) \in offer.models

(* The preflights of the sessions and the models of the compiled plan.      *)
Preflight ==
    LET static == {t \in Tasks : ~Late(t)}
        refused == cancelling \/ ~Capable \/ \E t \in static : ~Available(t)
    IN  /\ stage = "preparing"
        /\ IF refused
           THEN stage' = "closing" /\ Thrown /\ UNCHANGED selection
           ELSE /\ stage' = "resolving" /\ UNCHANGED verdict
                /\ selection' = [t \in Tasks |-> IF t \in static THEN Selected(t) ELSE Unset]
        /\ UNCHANGED <<planVars, cancelling, task, sessionVars, leaseVars, unclean>>

(* resolveTaskSession for these tasks, each of which has no session yet: a  *)
(* session is pinned to what was selected for its task.                     *)
PinnedTo(made) ==
    /\ session' = [t \in Tasks |-> IF t \in made THEN t ELSE 0]
    /\ pinned' = [t \in Tasks |-> IF t \in made THEN selection[t] ELSE Unset]

(* The resolver of a direct run creates the adapter with the session, that  *)
(* of a standalone run when its first task needs it.                        *)
Born(made) ==
    adapter' = [t \in Tasks |-> IF t \in made /\ profile = "direct" THEN "open" ELSE "none"]

(* resolveCompiledWorkflowSessions creates the isolated sessions; those of  *)
(* a direct run keep their adapters when the next one cannot be created or  *)
(* is not what the runtime said it would be.                                *)
ResolveSessions ==
    LET isolated == {t \in Tasks : Kind(t) = "isolated"}
    IN  /\ stage = "resolving"
        /\ \/ /\ ~cancelling
              /\ stage' = "running" /\ UNCHANGED verdict
              /\ PinnedTo(isolated) /\ Born(isolated)
           \/ /\ stage' = "closing" /\ Thrown
              /\ \E made \in SUBSET isolated : Born(made)
              /\ UNCHANGED <<session, pinned>>
        /\ UNCHANGED <<planVars, cancelling, task, selection, generation, checkpoint, forkedAt, leaseVars, unclean>>

-----------------------------------------------------------------------------
(* The tasks. *)

MoveTo(t, s) == task' = [task EXCEPT ![t] = s]
RunGoes == stage = "running"

(* A faulty CanFork: any checkpoint of the session will do.                 *)
CanForkAnyway(t, captured) == adapter[session[t]] = "none" \/ offer.able

(* The session of a fork: the adapter must be at the checkpoint still.  A   *)
(* session that has no adapter yet forks into another such, the checkpoint  *)
(* of a standalone session being empty.                                     *)
CanFork(t, captured) ==
    IF adapter[session[t]] = "none" THEN captured = 0
    ELSE offer.able /\ captured # 0 /\ captured = generation[session[t]]

Forked(t, forks, captured) ==
    LET source == session[t]
        born == IF adapter[source] = "none" THEN "none" ELSE "open"
        Chosen(c) == IF Late(c) THEN policy.session[c].model ELSE selection[c]
    IN  /\ adapter' = [c \in Tasks |-> IF c \in forks THEN born ELSE adapter[c]]
        /\ pinned' = [c \in Tasks |-> IF c \notin forks THEN pinned[c]
                                      ELSE IF Chosen(c) = Unset THEN pinned[source] ELSE Chosen(c)]
        /\ forkedAt' = IF forks = {} \/ born = "none" THEN forkedAt
                       ELSE forkedAt \cup {<<captured, generation[source]>>}

(* The tasks before it: the source of its session, and who reuses the same. *)
Before(t) ==
    IF Kind(t) = "isolated" THEN {}
    ELSE {From(t)} \cup {u \in 1..(t - 1) : Kind(t) = "reuse" /\ Kind(u) = "reuse" /\ From(u) = From(t)}

(* The preflight of an arm when it is selected, and what its fork needs.    *)
ArmAllowed(t) == Available(t) /\ (Kind(t) = "fork" => CanFork(From(t), checkpoint[From(t)]))

(* A task begins; an arm takes its session first                            *)
(* (materializeDeferredSessionConsumer), or fails its preflight.            *)
BeginTask(t) ==
    /\ RunGoes /\ task[t] = "waiting" /\ ~cancelling
    /\ \A u \in Before(t) : task[u] = "done"
    /\ LET source == From(t)
           kept == checkpoint[source]
           needs == IF profile = "standalone" THEN "acquiring" ELSE "executing"
       IN  IF Late(t) /\ ~ArmAllowed(t)
           THEN /\ MoveTo(t, "failed") /\ UNCHANGED <<selection, session, adapter, pinned, forkedAt>>
           ELSE /\ \E way \in {needs, "publishing"} : MoveTo(t, way)
                /\ selection' = IF Late(t) THEN [selection EXCEPT ![t] = Selected(t)] ELSE selection
                /\ CASE Late(t) /\ Kind(t) = "fork" ->
                          Forked(source, {t}, kept) /\ session' = [session EXCEPT ![t] = t]
                     [] Late(t) /\ Kind(t) = "reuse" ->
                          session' = [session EXCEPT ![t] = session[source]]
                          /\ UNCHANGED <<adapter, pinned, forkedAt>>
                     [] OTHER -> UNCHANGED <<session, adapter, pinned, forkedAt>>
    /\ UNCHANGED <<planVars, stage, cancelling, verdict, generation, checkpoint, leaseVars, unclean>>

(* lease.acquire: the first task that needs the service starts it, and a    *)
(* model has to be authored by then.                                        *)
Acquire(t) ==
    /\ task[t] = "acquiring" /\ lease = "open" /\ ~cancelling /\ service = "none"
    /\ selection[t] # Unset
    /\ starts < MaxStarts
    /\ service' = "starting" /\ starts' = starts + 1
    /\ UNCHANGED <<planVars, stage, cancelling, verdict, task, selection, sessionVars, lease, unclean>>

(* The service is up, or it did not start, which the tasks that wait for it *)
(* report; the next one tries again.  A lease that closes waits for either. *)
ServiceStarts ==
    /\ service = "starting"
    /\ \/ service' = "up" /\ UNCHANGED <<task, lease>>
       \/ /\ service' = "none"
          /\ task' = [t \in Tasks |-> IF task[t] = "acquiring" THEN "failed" ELSE task[t]]
          /\ lease' = IF lease = "closing" THEN "closed" ELSE lease
    /\ UNCHANGED <<planVars, stage, cancelling, verdict, selection, sessionVars, starts, unclean>>

(* The service of a lease that closes is closed, well or not. *)
ServiceCloses ==
    /\ service = "up" /\ lease = "closing"
    /\ service' = "closed" /\ lease' = "closed"
    /\ unclean' \in {unclean, TRUE}
    /\ UNCHANGED <<planVars, stage, cancelling, verdict, task, selection, sessionVars, starts>>

Acquired(t) ==
    /\ task[t] = "acquiring" /\ service = "up" /\ lease = "open" /\ ~cancelling
    /\ MoveTo(t, "checking")
    /\ UNCHANGED <<planVars, stage, cancelling, verdict, selection, sessionVars, leaseVars, unclean>>

(* The wait for the service ends without it: no model is authored, the      *)
(* lease is closed, or the task is aborted (raceWithAbort), in which case   *)
(* the service may be starting still.                                       *)
AcquireFails(t) ==
    /\ task[t] \in {"acquiring", "checking"}
    /\ \/ cancelling \/ lease # "open" \/ selection[t] = Unset
       \/ task[t] = "acquiring" /\ service = "none" /\ starts = MaxStarts
    /\ MoveTo(t, "failed")
    /\ UNCHANGED <<planVars, stage, cancelling, verdict, selection, sessionVars, leaseVars, unclean>>

(* The checks of a standalone session at demand, and its adapter if it has  *)
(* none yet.  The signal of the task is that of the run, which tells the    *)
(* task later than the lease: the service may be closing.                   *)
CheckModel(t) ==
    /\ task[t] = "checking"
    /\ LET s == session[t]
           usable == offer.able /\ selection[t] \in offer.models
       IN  IF usable
           THEN /\ MoveTo(t, "executing")
                /\ adapter' = IF adapter[s] = "none" THEN [adapter EXCEPT ![s] = "open"] ELSE adapter
                /\ pinned' = IF adapter[s] = "none" THEN [pinned EXCEPT ![s] = selection[t]] ELSE pinned
           ELSE MoveTo(t, "failed") /\ UNCHANGED <<adapter, pinned>>
    /\ UNCHANGED <<planVars, stage, cancelling, verdict, selection, session, generation, checkpoint,
                   forkedAt, leaseVars, unclean>>

(* executeAgentAdapterRequest waits for the adapter even when it is         *)
(* aborted; then the abort decides.  A session that failed has executed     *)
(* nothing that a checkpoint may name.                                      *)
ExecuteAgent(t) ==
    /\ task[t] = "executing"
    /\ \/ /\ MoveTo(t, IF cancelling THEN "failed" ELSE "publishing")
          /\ generation' = [generation EXCEPT ![session[t]] = @ + 1]
       \/ MoveTo(t, "failed") /\ UNCHANGED generation
    /\ UNCHANGED <<planVars, stage, cancelling, verdict, selection, session, adapter, pinned, checkpoint,
                   forkedAt, leaseVars, unclean>>

(* publishSessionCheckpoint: the checkpoint is captured if there is a fork, *)
(* the forks are made one by one, and only when all are made, the consumers *)
(* have their sessions.  An adapter of a fork stays owned if the next fails.*)
Publish(t) ==
    LET eager == {c \in Consumers(t) : ~Late(c)}
        forks == {c \in eager : Kind(c) = "fork"}
        late == {c \in Consumers(t) \ eager : Kind(c) = "fork"}
        now == generation[session[t]]
        allowed == forks # {} => CanFork(t, now)
    IN  /\ task[t] = "publishing"
        /\ \/ /\ allowed
              /\ MoveTo(t, "done")
              /\ session' = [c \in Tasks |-> IF c \in forks THEN c
                                             ELSE IF c \in eager THEN session[t] ELSE session[c]]
              /\ Forked(t, forks, now)
              /\ checkpoint' = IF late # {} THEN [checkpoint EXCEPT ![t] = now] ELSE checkpoint
           \/ /\ forks # {}
              /\ MoveTo(t, "failed")
              /\ \E made \in SUBSET forks : made # forks /\ (made # {} => allowed) /\ Forked(t, made, now)
              /\ UNCHANGED <<session, checkpoint>>
        /\ UNCHANGED <<planVars, stage, cancelling, verdict, selection, generation, leaseVars, unclean>>

-----------------------------------------------------------------------------
(* The end. *)

(* The run of Mastra ends when no task runs and none can start.             *)
RunReturns ==
    /\ RunGoes
    /\ \A t \in Tasks : task[t] \notin InTask
    /\ cancelling \/ \A t \in Tasks : task[t] = "waiting" => \E u \in Before(t) : task[u] # "done"
    /\ stage' = "closing"
    /\ verdict' = IF cancelling THEN "cancelled"
                  ELSE IF \A t \in Tasks : task[t] = "done" THEN "succeeded" ELSE "failed"
    /\ UNCHANGED <<planVars, cancelling, task, selection, sessionVars, leaseVars, unclean>>

(* execution.close asks every adapter it owns to close, whatever became of  *)
(* the others, and then closes the service; that of a direct run does not   *)
(* wait for the others when one fails.                                      *)
CloseAdapters ==
    /\ stage = "closing" /\ \E t \in Tasks : adapter[t] = "open"
    /\ adapter' = [t \in Tasks |-> IF adapter[t] = "open" THEN "closing" ELSE adapter[t]]
    /\ UNCHANGED <<planVars, stage, cancelling, verdict, task, selection, session, pinned, generation,
                   checkpoint, forkedAt, leaseVars, unclean>>

AdapterCloses(t) ==
    /\ adapter[t] = "closing"
    /\ adapter' = [adapter EXCEPT ![t] = "closed"]
    /\ unclean' \in {unclean, unclean \/ stage = "closing"}
    /\ UNCHANGED <<planVars, stage, cancelling, verdict, task, selection, session, pinned, generation,
                   checkpoint, forkedAt, leaseVars>>

CloseService ==
    /\ stage = "closing" /\ lease = "open"
    /\ profile = "standalone"
    /\ \A t \in Tasks : adapter[t] \notin {"open", "closing"}
    /\ CloseLease
    /\ UNCHANGED <<planVars, stage, cancelling, verdict, task, selection, sessionVars, unclean>>

(* The runtime of Mastra is shut down after the agents, and may fail too.   *)
ExecutionClosed ==
    /\ stage = "closing" /\ \A t \in Tasks : adapter[t] # "open"
    /\ IF profile = "standalone" THEN lease = "closed" /\ \A t \in Tasks : adapter[t] # "closing"
       ELSE unclean \/ \A t \in Tasks : adapter[t] # "closing"
    /\ stage' = "shutting"
    /\ unclean' \in {unclean, TRUE}
    /\ UNCHANGED <<planVars, cancelling, verdict, task, selection, sessionVars, leaseVars>>

(* A success whose cleanup failed is a failure; else the result stays.      *)
Report ==
    /\ stage = "shutting"
    /\ stage' = "over"
    /\ verdict' = IF unclean /\ verdict = "succeeded" THEN "failed" ELSE verdict
    /\ UNCHANGED <<planVars, cancelling, task, selection, sessionVars, leaseVars, unclean>>

-----------------------------------------------------------------------------
RunProgress ==
    \/ ResolveProfile \/ Preflight \/ ResolveSessions \/ ServiceStarts \/ ServiceCloses
    \/ \E t \in Tasks :
          \/ BeginTask(t) \/ Acquire(t) \/ Acquired(t) \/ AcquireFails(t) \/ CheckModel(t)
          \/ ExecuteAgent(t) \/ Publish(t) \/ AdapterCloses(t)
    \/ RunReturns \/ CloseAdapters \/ CloseService \/ ExecutionClosed \/ Report

DirectNext == RunProgress \/ Cancel

DirectOver == stage = "over"

-----------------------------------------------------------------------------
(* What a run reports has left nothing behind: no service is up or on its   *)
(* way, and every adapter was told to close, in a standalone run with       *)
(* success or failure.                                                      *)
LeavesNothing ==
    stage = "over" =>
        /\ service \in {"none", "closed"}
        /\ \A t \in Tasks : adapter[t] # "open" /\ (profile = "standalone" => adapter[t] # "closing")

(* No agent loses its session or its service under it: while a task         *)
(* executes, the adapter of its session is open and, unless the run was     *)
(* cancelled, which closes the lease first, its service is up.              *)
AgentsThere ==
    \A t \in Tasks : task[t] = "executing" =>
        /\ adapter[session[t]] = "open"
        /\ profile = "standalone" /\ ~cancelling => service = "up"

(* The model an agent works with is the one the workflow gives it: that of  *)
(* the nearest session on the way to its source that names one, or else the *)
(* default of the workflow, and of the adapter only without either.         *)
ModelsKept ==
    LET way[t \in Tasks] == {t} \cup (IF Kind(t) = "isolated" THEN {} ELSE way[From(t)])
        named(t) == {u \in way[t] : policy.session[u].model # Unset}
        nearest(t) == CHOOSE u \in named(t) : \A v \in named(t) : v <= u
        expected(t) == IF named(t) # {} THEN policy.session[nearest(t)].model
                       ELSE IF policy.default # Unset THEN policy.default
                       ELSE IF offer.able THEN Default ELSE Unset
    IN  \A t \in Tasks : task[t] = "executing" => pinned[session[t]] = expected(t)

(* Nobody works on from a checkpoint that its session has left behind: each *)
(* fork was made from the state that was captured.                          *)
ForksCurrent == \A f \in forkedAt : f[1] = f[2]

(* A success is a run whose tasks are all done and which has cleaned up;    *)
(* a cancelled run is one that somebody cancelled.                          *)
VerdictTrue ==
    stage = "over" =>
        /\ verdict = "succeeded" => ~unclean /\ \A t \in Tasks : task[t] = "done"
        /\ verdict = "cancelled" => cancelling
        /\ verdict # "none"

RunSafe == RunTypeOK /\ LeavesNothing /\ AgentsThere /\ ModelsKept /\ ForksCurrent /\ VerdictTrue
=============================================================================
