---------------------------- MODULE MergeResolution ----------------------------
(* The action that resolves the conflicts of a pull request:                *)
(* resolveMergeConflicts over git, the agent, the handlers of generated     *)
(* files and the lockfile, and the push (libs/action-merge-conflict-        *)
(* resolution, actions/resolve-merge-conflicts).                            *)
(*                                                                          *)
(* A revision is the number of commits that others have pushed: GitHub and  *)
(* the others are external, and go on while the action runs.  git is        *)
(* external: what integrates cleanly and what conflicts is its choice, and  *)
(* git add leaves no path unmerged, so that an attempt resolves a whole     *)
(* conflict set and the loop of resolveIntegration goes on to the next stop *)
(* of a rebase only.                                                        *)
EXTENDS Naturals

CONSTANTS
    MaxAttempts,   \* maxAttempts of the request
    MaxMoves       \* bound: commits that others push to each branch

VARIABLES
    request,    \* strategy, commit and push of ResolveMergeConflictsRequest
    at,         \* how far the resolution has come
    remote,     \* head and base branch on GitHub
    checkout,   \* the head that the job has checked out
    read,       \* head and base that the action has read
    conflicts,  \* the conflicts of the current stop
    marked,     \* paths with conflict markers in the target
    attempts,   \* state.attempts
    lifecycle,  \* agentLifecycleStarted and agentLifecycleStopped
    lazy,       \* state of createLazyAgentPort
    server,     \* the OpenCode server of the agent, "halted" when told to stop
    token,      \* the push token is in the environment of git
    published,  \* a push of the action was accepted
    lost,       \* commits of others were overwritten by it
    outcome     \* ResolveMergeConflictsResult

mergeVars == <<request, at, remote, checkout, read, conflicts, marked, attempts,
               lifecycle, lazy, server, token, published, lost, outcome>>

(* How a conflict is resolved: by the agent, by a handler that generates    *)
(* the file, or by regenerating pnpm-lock.yaml (classifyConflicts).         *)
Classes == {"agent", "generated", "lockfile"}
ConflictSets == (SUBSET Classes) \ {{}}

(* validateRequest: a merge that is pushed is committed. *)
Requests ==
    {r \in [strategy : {"merge", "rebase"}, commit : BOOLEAN, push : BOOLEAN] :
        r.strategy = "merge" /\ r.push => r.commit}

Revisions == [head : 0..MaxMoves, base : 0..MaxMoves]

Attempting == {"stop", "handlers", "agent", "resolve", "lockfile", "validate", "staged", "continue"}
Publishing == {"resolved", "committed", "token", "fetch", "fetched", "push"}

MergeTypeOK ==
    /\ request \in Requests
    /\ at \in {"preflight", "base", "integrate", "concluding", "over"} \cup Attempting \cup Publishing
    /\ {remote, read} \subseteq Revisions
    /\ checkout \in 0..MaxMoves
    /\ conflicts \in SUBSET Classes /\ marked \in SUBSET Classes
    /\ attempts \in 0..MaxAttempts
    /\ lifecycle \in [started : BOOLEAN, stopped : BOOLEAN]
    /\ lazy \in {"stopped", "started", "cleanup-required"}
    /\ server \in {"none", "up", "halted"}
    /\ {token, published, lost} \subseteq BOOLEAN
    /\ outcome \in {"none", "no-change", "updated", "error"}

MergeInit ==
    /\ request \in Requests
    /\ at = "preflight"
    /\ remote = [head |-> 0, base |-> 0] /\ read = [head |-> 0, base |-> 0]
    /\ checkout = 0
    /\ conflicts = {} /\ marked = {} /\ attempts = 0
    /\ lifecycle = [started |-> FALSE, stopped |-> FALSE]
    /\ lazy = "stopped" /\ server = "none"
    /\ token = FALSE /\ published = FALSE /\ lost = FALSE
    /\ outcome = "none"

agentVars == <<lifecycle, lazy, server>>
pushVars == <<token, published, lost>>

(* The resolution fails: failureResult. *)
Fail == at' = "concluding" /\ outcome' = "error"

(* It goes on, or the step fails: every port may throw. *)
GoOn(next) == (at' = next /\ UNCHANGED outcome) \/ Fail

-----------------------------------------------------------------------------
(* Preflight and integration. *)

(* The pull request is open, of this repository, and read. *)
ReadPullRequest ==
    /\ at = "preflight" /\ GoOn("base")
    /\ read' = [read EXCEPT !.head = remote.head]
    /\ UNCHANGED <<request, remote, checkout, conflicts, marked, attempts>>
    /\ UNCHANGED agentVars /\ UNCHANGED pushVars

ReadBase ==
    /\ at = "base" /\ GoOn("integrate")
    /\ read' = [read EXCEPT !.base = remote.base]
    /\ UNCHANGED <<request, remote, checkout, conflicts, marked, attempts>>
    /\ UNCHANGED agentVars /\ UNCHANGED pushVars

(* A faulty HeadUnchanged: whatever is checked out is integrated. *)
HeadUnread == TRUE

(* What was checked out is the head of the pull request. *)
HeadUnchanged == checkout = read.head

(* integrate: it stops at conflicts, or a rebase has moved the head, or     *)
(* there is nothing to do (a clean merge is aborted), or it fails.          *)
Integrate ==
    /\ at = "integrate"
    /\ \/ /\ HeadUnchanged /\ conflicts' \in ConflictSets /\ marked' = conflicts'
          /\ at' = "stop" /\ UNCHANGED outcome
       \/ /\ HeadUnchanged /\ request.strategy = "rebase"
          /\ at' = "resolved" /\ UNCHANGED <<outcome, conflicts, marked>>
       \/ /\ HeadUnchanged
          /\ at' = "concluding" /\ outcome' = "no-change" /\ UNCHANGED <<conflicts, marked>>
       \/ Fail /\ UNCHANGED <<conflicts, marked>>
    /\ UNCHANGED <<request, remote, checkout, read, attempts>>
    /\ UNCHANGED agentVars /\ UNCHANGED pushVars

-----------------------------------------------------------------------------
(* The attempts: resolveIntegration and resolveConflictAttempt. *)

baseUnchanged == UNCHANGED <<request, remote, checkout, read>> /\ UNCHANGED pushVars

BeginAttempt ==
    /\ at = "stop"
    /\ \/ Fail /\ UNCHANGED attempts
       \/ /\ attempts < MaxAttempts
          /\ at' = "handlers" /\ attempts' = attempts + 1 /\ UNCHANGED outcome
    /\ UNCHANGED <<conflicts, marked>> /\ UNCHANGED agentVars /\ baseUnchanged

(* What was to be resolved may keep its markers: nobody looks yet. *)
Resolve(class) ==
    marked' \in {marked, marked \ {class}}

(* The handlers run in a container, on a copy of the target whose outputs   *)
(* are copied back.                                                         *)
RunHandlers ==
    /\ at = "handlers"
    /\ GoOn(IF "agent" \in conflicts THEN "agent" ELSE "lockfile")
    /\ IF "generated" \in conflicts THEN Resolve("generated") ELSE UNCHANGED marked
    /\ UNCHANGED <<conflicts, attempts>> /\ UNCHANGED agentVars /\ baseUnchanged

(* The first attempt with work for the agent starts its server; one that    *)
(* cannot be started has been cleaned up.                                   *)
StartAgent ==
    /\ at = "agent" /\ ~lifecycle.started
    /\ lifecycle' = [lifecycle EXCEPT !.started = TRUE]
    /\ \/ server' = "up" /\ lazy' = "started" /\ UNCHANGED <<at, outcome>>
       \/ Fail /\ UNCHANGED <<server, lazy>>
    /\ UNCHANGED <<conflicts, marked, attempts>> /\ baseUnchanged

(* The conflicted files are copied into the workspace of the agent. *)
PrepareAgent ==
    /\ at = "agent" /\ lifecycle.started
    /\ GoOn("resolve")
    /\ UNCHANGED <<conflicts, marked, attempts>> /\ UNCHANGED agentVars /\ baseUnchanged

(* The workflow of the agent has run within the deadline of the attempt and *)
(* has reported every file; they are copied back.                           *)
AgentResolves ==
    /\ at = "resolve"
    /\ GoOn("lockfile") /\ Resolve("agent")
    /\ UNCHANGED <<conflicts, attempts>> /\ UNCHANGED agentVars /\ baseUnchanged

Regenerate ==
    /\ at = "lockfile" /\ GoOn("validate")
    /\ IF "lockfile" \in conflicts THEN marked' = marked \ {"lockfile"} ELSE UNCHANGED marked
    /\ UNCHANGED <<conflicts, attempts>> /\ UNCHANGED agentVars /\ baseUnchanged

(* validateTarget: nothing else has changed; stageConflictSet. *)
StageResolved ==
    /\ at = "validate" /\ GoOn("staged")
    /\ UNCHANGED <<conflicts, marked, attempts>> /\ UNCHANGED agentVars /\ baseUnchanged

(* The staged conflict files have no markers. *)
Clean == marked \cap conflicts = {}

(* validateStagedWhitespaceAndMarkers. *)
ValidateStaged ==
    /\ at = "staged"
    /\ \/ Clean /\ at' = (IF request.strategy = "merge" THEN "resolved" ELSE "continue")
                /\ UNCHANGED outcome
       \/ Fail
    /\ UNCHANGED <<conflicts, marked, attempts>> /\ UNCHANGED agentVars /\ baseUnchanged

(* continueRebase: the rebase is over, after a commit that became empty was *)
(* skipped if there was one, or it stops at the next conflicts.             *)
ContinueRebase ==
    /\ at = "continue"
    /\ \/ GoOn("resolved") /\ UNCHANGED <<conflicts, marked>>
       \/ /\ conflicts' \in ConflictSets /\ marked' = marked \cup conflicts'
          /\ at' = "stop" /\ UNCHANGED outcome
    /\ UNCHANGED attempts /\ UNCHANGED agentVars /\ baseUnchanged

-----------------------------------------------------------------------------
(* Commit and push. *)

workUnchanged == UNCHANGED <<request, checkout, read, conflicts, marked, attempts>>

Commit ==
    /\ at = "resolved"
    /\ IF request.strategy = "merge" /\ request.commit
       THEN GoOn("committed") ELSE at' = "committed" /\ UNCHANGED outcome
    /\ UNCHANGED remote /\ workUnchanged /\ UNCHANGED agentVars /\ UNCHANGED pushVars

(* stopAgent: the server is told to end, then killed, and its directory is  *)
(* removed, which may fail; a second call finds nothing to do.              *)
StopAgent ==
    /\ lifecycle.started /\ ~lifecycle.stopped
    /\ server' = IF server = "up" THEN "halted" ELSE server
    /\ \/ lazy' = "stopped" /\ lifecycle' = [lifecycle EXCEPT !.stopped = TRUE]
       \/ server = "up" /\ lazy' = "cleanup-required" /\ UNCHANGED lifecycle

NoAgent == ~lifecycle.started \/ lifecycle.stopped

(* Before a push the agent is stopped. *)
StopForPush ==
    /\ at = "committed" /\ request.push
    /\ IF NoAgent
       THEN at' = "token" /\ UNCHANGED outcome /\ UNCHANGED agentVars
       ELSE /\ StopAgent
            /\ IF lifecycle'.stopped THEN at' = "token" /\ UNCHANGED outcome ELSE Fail
    /\ UNCHANGED remote /\ workUnchanged /\ UNCHANGED pushVars

NoPush ==
    /\ at = "committed" /\ ~request.push
    /\ at' = "concluding" /\ outcome' = "updated"
    /\ UNCHANGED remote /\ UNCHANGED agentVars /\ workUnchanged /\ UNCHANGED pushVars

BeforePush ==
    /\ at = "token" /\ at' = "fetch" /\ token' = TRUE
    /\ UNCHANGED <<outcome, remote, published, lost>> /\ UNCHANGED agentVars /\ workUnchanged

(* The branches are fetched; base and head are still those integrated. *)
CheckBase ==
    /\ at = "fetch"
    /\ \/ remote.base = read.base /\ at' = "fetched" /\ UNCHANGED outcome
       \/ Fail
    /\ UNCHANGED remote /\ UNCHANGED agentVars /\ workUnchanged /\ UNCHANGED pushVars

CheckHead ==
    /\ at = "fetched"
    /\ \/ remote.head = read.head /\ at' = "push" /\ UNCHANGED outcome
       \/ Fail
    /\ UNCHANGED remote /\ UNCHANGED agentVars /\ workUnchanged /\ UNCHANGED pushVars

(* --force-with-lease: the branch is where it was read. *)
Lease == remote.head = read.head

(* The push is accepted, and its answer may be lost, or refused. *)
Push ==
    /\ at = "push"
    /\ \/ /\ Lease
          /\ published' = TRUE /\ lost' = (lost \/ remote.head # checkout)
          /\ \/ at' = "concluding" /\ outcome' = "updated"
             \/ Fail
       \/ Fail /\ UNCHANGED <<published, lost>>
    /\ UNCHANGED <<remote, token>> /\ UNCHANGED agentVars /\ workUnchanged

(* The finally block, progress and summary: an agent that cannot be stopped *)
(* and a summary that cannot be written turn any result into a failure.     *)
Conclude ==
    /\ at = "concluding" /\ at' = "over"
    /\ IF NoAgent THEN UNCHANGED agentVars ELSE StopAgent
    /\ outcome' \in {"error"} \cup (IF NoAgent \/ lifecycle'.stopped THEN {outcome} ELSE {})
    /\ UNCHANGED remote /\ workUnchanged /\ UNCHANGED pushVars

(* Somebody pushes. *)
OthersPush ==
    /\ at # "over"
    /\ \E branch \in {"head", "base"} :
          /\ remote[branch] < MaxMoves
          /\ remote' = [remote EXCEPT ![branch] = @ + 1]
    /\ UNCHANGED <<at, outcome>> /\ UNCHANGED agentVars /\ workUnchanged /\ UNCHANGED pushVars

-----------------------------------------------------------------------------
(* The specification. *)
MergeProgress ==
    \/ ReadPullRequest \/ ReadBase \/ Integrate
    \/ BeginAttempt \/ RunHandlers \/ StartAgent \/ PrepareAgent \/ AgentResolves
    \/ Regenerate \/ StageResolved \/ ValidateStaged \/ ContinueRebase
    \/ Commit \/ StopForPush \/ NoPush \/ BeforePush \/ CheckBase \/ CheckHead \/ Push
    \/ Conclude

MergeOver == at = "over"

MergeNext == MergeProgress \/ OthersPush

(* git, GitHub and the containers answer or time out, and so does the agent. *)
MergeSpec == MergeInit /\ [][MergeNext]_mergeVars /\ WF_mergeVars(MergeProgress)

-----------------------------------------------------------------------------
(* Properties. *)

(* Nobody's commits are overwritten, though both branches move at any time  *)
(* between reading them, integrating and pushing: what is pushed was made   *)
(* from the head that the lease names.                                      *)
NothingLost == ~lost

(* What is pushed was resolved: no conflict marker of any stop of the       *)
(* rebase is in it.                                                         *)
PublishedResolved == published => marked = {}

(* The agent is gone when git gets the push token, and when the workspace   *)
(* of the agent is removed.                                                 *)
AgentKeptOut == token \/ at = "over" => server # "up"

(* A result that says so was pushed or left alone. *)
ResultTruthful ==
    /\ outcome = "updated" /\ request.push /\ at = "over" => published
    /\ outcome = "no-change" => ~published /\ attempts = 0

MergeSafe == NothingLost /\ PublishedResolved /\ AgentKeptOut /\ ResultTruthful

(* A resolution ends, whoever pushes meanwhile. *)
MergeEnds == <>MergeOver

(* The phase of resolution-state.ts.  What is to be published has not been  *)
(* completed, and may fail, until the action is over.                       *)
Publish == IF attempts = 0 THEN "integrating" ELSE "continuing"

Phase ==
    CASE at \in {"preflight", "base"} -> "ready"
      [] at = "integrate" -> "integrating"
      [] at = "stop" -> "conflicted"
      [] at \in {"handlers", "agent"} -> "preparing"
      [] at \in {"resolve", "lockfile"} -> "resolving"
      [] at \in {"validate", "staged"} -> "validating"
      [] at \in Publishing -> Publish
      [] at = "continue" -> "continuing"
      [] at = "concluding" -> IF outcome = "error" THEN "failed" ELSE Publish
      [] OTHER -> IF outcome = "error" THEN "failed" ELSE "completed"

Machine == INSTANCE ResolutionState WITH phase <- Phase

(* The controller goes through the states that resolution-state.ts allows,  *)
(* with no more attempts than it allows.                                    *)
ResolutionFollows == Machine!StateSpec

=============================================================================
