# A TLA+ verification of Seqlane's workflow runtime

Seqlane turns a typed workflow definition into a Plan, lowers the Plan to a Mastra workflow
and executes it in a runner process of its own. Tasks are carried out by coding agents that
share two kinds of resource: *workspaces* (directories they read and write) and *sessions*
(conversations with an agent). The hard part of the program is everything around the agent's
answer: who may hold which resource and when, work that outlives an answer, cancellation that
races with everything, and telling every invocation and the user exactly once how it ended.
That part is what these modules model.

TLC checks each module on small instances; TLAPS proves the two locks for every value of
their constants. `PROJECT.json` maps every definition to the lines it translates and lists, for
every property, a mutation of the model under which TLC finds it violated.

## 1. Inventory

### How the parts interact

    libs/core     dsl, builder                      the fluent API: a Plan
        |  validate, order, lower
    runtime/      plan-validation, plan-ordering, session-ordering, workspace-ordering
        |
    apps/cli  run-execution, runner-client          (supervising process)  -->  libs/tui renderers
        |  fork, IPC messages, signals
    runner/   main, run, event-bridge               (runner process)
        |  start / cancel / outcome, events
    mastra/   mastra-execution, mastra-runtime      compile/ mastra-*-compiler
        |  one Mastra step per node, layer by layer; choices and repeats in runs of their own
    invocation/ invocation-execution  ---- invocation-effects, session-resolution
        |  acquire, release, quarantine              |  execute
    invocation/ joint-admission                     libs/codex, libs/opencode, libs/acp  agents
        |                                           classifier/, local/mastra-process
    workspace/workspace-lock, session/session-lock

    mastra/   mastra-server, operational-host       the same workflows as tools of a server

A node that is started by Mastra asks the joint admission for a workspace and a session, calls
its executor, waits for what the executor left running, validates the output, publishes the
session to the nodes that reuse or fork it, and gives its leases back. Its events flow to the
event bridge, over IPC to the supervisor and to the renderers. A cancellation flows the other
way as an abort signal that each layer checks at places of its own choosing.

All of the runtime is single-threaded JavaScript: an action of a module is what runs between
two awaits. Interleaving comes from promises, signals, timers and the other processes.

### Components

| component | state it keeps | operations | what is hard | what makes it correct |
|---|---|---|---|---|
| Workspace lock (`workspace-lock.ts`) | readers and their depths, writer and its depth, a sorted queue, per resource | acquire, tryAcquire, release, grant | re-entrance, grants in the middle of a release, state dropped when unused | exclusion, counts equal to leases, creation order, writers not overtaken |
| Session lock (`session-lock.ts`) | busy flag, quarantine, sorted queue, per session | acquire, tryAcquire, abort, quarantine, release | abort against hand-over; quarantine while held and waited for | one holder; never free while held nor busy for good; quarantine is final |
| Joint admission (`joint-admission.ts`) | a sorted queue and a `#process` loop per workspace | acquire, abort, the loop, wake-ups by both registries | lost wake-ups, two locks taken together, the head changing while the loop sleeps | atomic admission, no lost wake-up, every request decided |
| Invocation (`invocation-execution.ts`, `invocation-effects.ts`, `session-resolution.ts`, `child-session.ts`) | leases, running effects and activities, unconfirmed activity, deferred session sources, results | admit, execute, report effects, drain, validate, capture, fork, finally | work that outlives the answer, failures after the answer, partial forks | leases cover the work; failure is not lost; checkpoints are published together or not at all |
| Classifier (`classifier/`) | attempt, deadline, observations | send, answer, back off, time out, abort | a retry planned against a deadline that a timer races | bounded attempts, none after the deadline, none unobserved |
| Local processes (`local/mastra-process.ts`) | the cancellation barrier, the process | start, abort, terminate, kill, destroy | work that goes on after a command is told to stop | an unconfirmed termination keeps the leases |
| Runner supervision (`runner-client.ts`, `run-execution.ts`, `runner/{main,run,event-bridge}.ts`) | result, terminal event, grace timer; cancellation request, run phase; bounded event queue, numbering | cancel, escalate, receive, exit; start, preflight, close, settle; emit, send, overflow, flush | two processes, signals, the exit racing the last message, transport failure | truthful status, contiguous numbers, cleanup before exit, supervision ends |
| Workflow run (`mastra-plan-compiler.ts`, `mastra-choice-compiler.ts`, `mastra-execution.ts`, `mastra-runtime.ts`, `choice-source-gate.ts`) | Mastra's run, invocations that were told their end, the source gate | create, start layers, choose an arm, wait for its source, end, sweep | three places that tell an end; abort at any await; cross-layer waits | one end each, everyone told, started in order, abort ends |
| Repeats (`mastra-repeat-*.ts`) | durable attempt state, iteration count, shared budget | start, attempt, persist, decide, extract, fail | loops interleave on one budget; cancellation between two runs | the budget and the limits bound the attempts; repeats end |
| Plan validation and lowering (`plan-validation.ts`, `plan-ordering.ts`, `workspace-ordering.ts`, `session-ordering.ts`, `shared-session-order.ts`) | none: functions of the plan | validate, order, add edges, cut into layers | edges added by one pass make a cycle for another | accepted plans have a topological order with conflicting nodes ordered |
| Program execution (`program.ts`, `workflow-run.ts`, `start-workflow-run.ts`) | results with reference counts | start, run a node, consume, fail, cancel | a result deleted too early or never | readers find their results, outcomes wait for what runs |
| Authoring (`libs/core` `dsl.ts`, `builder.ts`) | declarations of a flow, the pending task | task, workflow, validate, choose, until, build | the builder has to name every dependency that validation asks for | what an author can write is accepted |
| Operational host (`operational-host.ts`, `operational-run-lifecycle.ts`) | preparations, active invocations and cleanups per run | invoke, terminate, cancel, close, shut down | cleanup racing an invocation of the same run | executions closed once, after the last invocation |
| MCP dispatcher (`mastra-server.ts`) | queue, active count | dispatch, abort, deadline, pump | deadline of a started dispatch | every caller answered once; bounded concurrency |
| Codex adapter (`libs/codex`) | the app-server process, its pipe, a thread per session, the turn | connect, open, start a turn, interrupt, invalidate, close | completion, abort, timeout and exit race; answers after their requests | a call answers when its turn has ended or is reported |
| OpenCode adapter (`libs/opencode`) | runs, prompt queue, cursor of the monitor, aborts | create, prompt, poll, repair, abort, invalidate, close | two calls on one session; close against creation | work accounted for, events of the right prompt, nothing left in use |
| Renderers (`libs/tui`) | the view of a run: rows, relations, counts | fold one event, fold a batch | two paths to one view, placeholders | the views agree with each other and with the run |
| Runtime profile, direct run (`start-workflow-run.ts`, `runtime-profile.ts`, `standalone-*.ts`) | sessions, adapters, checkpoints, the service of the run | preflight, resolve, start, execute, capture, fork, close | an adapter or a service that outlives its run, a fork from a session that went on | nothing left behind, models as authored, forks from what was captured |
| ACP adapter (`libs/acp`) | the agent process, the queue, tools and their spans | connect, prompt, repair, ask, cancel, disconnect | a stream that ends early, late calls of the agent's client | a call answers when its prompt is over; tools end once |
| OpenCode projection (`observability.ts`, `observations.ts`, `attempt-transitions.ts`) | tools told of, spans, history pages | project, reconcile, finish | one tool in two formats, late and repeated events | activities and spans end once and belong to their call |
| Hosted run (`operational-client.ts`, `operational-run.ts`, `operational-dispatcher.ts`, `recording*.ts`) | the observed state, the bridge, consumers, a recording | start, observe, cancel, deliver, close | a cancellation before the server knows the run, events after the end | what is reported is what was told; a recording is whole or given up |
| Service actions (`libs/action-service-lifecycle`, `actions/*-server`) | process groups, saved state | install, start, adopt, wait, save, stop | a job killed at any line, process ids used again | no service left without a trace, no stranger killed |
| Merge conflict action (`libs/action-merge-conflict-resolution`) | a checkout, conflicts, attempts | integrate, resolve, validate, commit, push | others push meanwhile; several attempts | nobody overwritten, nothing with markers published |
| Code review action (`libs/action-code-review`) | one comment with a marker | admit, mark, review, publish, clear | jobs cut off and run again | reviews not marked for ever, newer reports not lost |
| Runner loading, protocol schemas, example workflows, fixtures | none over time | parse, format | no concurrency | unit tests reach it |

`PROJECT.json` lists the same components with their files and status, and under `hazards` what
is hard to test in each, at its line.

## 2. Modules

| module | models | run |
|---|---|---|
| `WorkspaceLock`, `WorkspaceLockProofs` | `workspace-lock.ts`: the whole registry | `workspace_lock` |
| `SessionLock`, `SessionLockProofs` | `session-lock.ts`: the whole registry | `session_lock` |
| `JointAdmission`, `JointAdmissionProofs` | `joint-admission.ts` and the locking of `invocation-execution.ts`, over both locks by `INSTANCE` | `joint_admission`, `three_level_nesting` |
| `TaskInvocation`, `TaskInvocationProofs` | `executeTaskNode` with its effects, checkpoint and forks | `task_invocation` |
| `AwaitedCalls` | what a task's `execute` may await, a classification or a process, on top of `TaskInvocation`; its proofs are in `TaskInvocationProofs` | `task_invocation` |
| `WorkflowRun`, `WorkflowRunProofs` | one run of a lowered plan on Mastra: layers, choices, the gate, who is told what | `workflow_run` |
| `RunView`, `RunDisplay` | the folds of both renderers and the lines of the plain one, and their composition with `WorkflowRun` | `workflow_run` |
| `RunnerSupervision`, `RunnerSupervisionProofs` | the two processes of a CLI run | `runner` |
| `HostedRun` (proved with `RunnerSupervision`) | a CLI run through an operational host | `runner` |
| `McpDispatcher`, `OperationalHost`, `OperationalHostProofs` | the bounded dispatcher, and the host whose handler it calls | `operational_host` |
| `PlanValidation`, `PlanProgram` | ordering, lowering and validation, and the execution of a plan as a dependency program | `plan_program` |
| `FlowAuthoring` | `createFlow` and `buildWorkflow`, in front of `PlanProgram` | `plan_program` |
| `AgentSession` | abstract: what the runtime relies on in an agent adapter | a `PROPERTY` of three runs |
| `CodexTransport`, `CodexSession` | the app-server with its pipe, and the adapter over it | `codex_session` |
| `OpenCodeSession` | the OpenCode adapter over its runs; its proofs are in `WorkflowRunProofs` | `opencode_session` |
| `OpenCodeProjection` | what a call of it tells of its tools | `jobs` |
| `AcpSession` | the ACP adapter | `jobs` |
| `RepeatLoop` | the repeats of one layer of a run; its proofs are in `JobsProofs` | `jobs` |
| `DirectRun` | `startWorkflowRun` in the process of an application | `jobs` |
| `RunDetails` | the values and the output a view keeps | `jobs` |
| `ServiceAction` | the step and post step of the service actions | `jobs` |
| `ResolutionState`, `MergeResolution` | abstract and detailed: the resolution of merge conflicts | `jobs` |
| `ReviewRun` | the reviews of one pull request | `jobs` |
| `MC...` | the constants of one instance, and which machines a run has | |

Every module lists the faulty variants its mutations use next to the definition they replace;
each is introduced as "A faulty ...". No specification uses them.

Machines that share no state are checked in one run (`jobs`, `runner`): an initial choice
says which of them moves, the others keep their first state.

### How state and actions correspond to the code

**WorkspaceLock.** `readers`, `writer`, `depth` and `waiting` are the fields of the state
object; `tracked` is the set of keys of `#locks`. `phase` and `lease` are what each caller knows:
the code has no such fields, they stand for the promises and lease objects that are out. A call is one
action because the registry is synchronous. `Acquire` is the disjunction of the four paths of
`acquire`; `Release` includes `#grantWaiting` and the deletion of an unused state. `Enqueue` is
`push` followed by the stable sort. An invocation asks at most once.

**SessionLock.** `busy`, `quarantined` and `queue` are fields; `use` is what a caller was told.
`Abort` is the listener of a waiter; `Quarantine` rejects the waiters and leaves the session busy.

**JointAdmission.** `requests[c][k]` is the `#waiting` array of the registry of context `c` for
workspace `k`; `loop[c][k]` is its `#process` loop, which runs to its next await without
interruption (`Quiet`), sleeps on a head and is `woken` before it runs again, so that other calls
come between. Nested workflows (`BodyOf`) and evaluators (`ChecksOf`) are invocations started
by others. `GraphAdmitted` workflow nodes go to the workspace lock directly, without a signal, as the code does.
Sessions and joint queues belong to one context; workspaces are shared by all.

**TaskInvocation.** `step` is where `executeTaskNode` awaits. `Track`, `Settle`, `Complete`,
`StartActivity`, `EndActivity` and `ReportUncertain` are the callbacks the executor may call
whenever it likes, also after the invocation has stopped listening (`late`). `Drain` is the
synchronous stretch after the executor's answer, and `Finally` its finally block.
Sessions are abstracted to whether a consumer got the source's session or a fork.

**AwaitedCalls** adds two records. `call` is a classification: the attempts, the clock in units of the first backoff, the
timer, and the observations made. A response is whether it can be retried and how long it asks to wait.
`exec` is the command, its process group and the cancellation barrier. A command may
return while its descendants run.

**WorkflowRun.** `step` is what Mastra reports of a step, `phase` how far the node's callback
has come, `log` the lifecycle events of each invocation, `gate` the states of
`ChoiceSourceGate`. Admission and the inside of a task are the other modules' and appear as a choice of outcomes.

**RunView, RunDisplay.** A view is a record as in `run-view-model.ts`; `Reduce` folds
one event, `ReduceBatch` a batch with the separate paths for runs of `created` and `started` events.
`RunDisplay` turns the steps of `WorkflowRun` into events in a pipe, adds those of a nested workflow and of the
attempts of repeats, and feeds both renderers. The plain one keeps the last line of each invocation, the heartbeat and the summary.

**RunnerSupervision.** One action per turn of one of the processes. `up` and `down` are the IPC
channel, `turns` the events of the CLI other than messages, `childSignals` the signals not
handled yet, `pending` the event queue whose head is being sent. An event is its type and number.

**HostedRun.** `command` is where `executeOperationalHostRun` awaits, `open` the dispatcher,
`bridge` and `consumer` the two bounded queues, `execution` what the server has of the run.

**McpDispatcher, OperationalHost.** `queue` and `active` are fields of `BoundedMcpDispatcher`; `pc` is
where the handler of a call awaits. The host adds the preparation, the active invocations and the cleanup of each run.

**PlanValidation.** Operators on graphs and plans, by the names of the passes; recursion
is written as recursive functions and folds. `Accepted` is the absence of issues, whose codes are those of the code.
**PlanProgram** has `Compile` as one step and then one action for each thing a step of the program does.
**FlowAuthoring** adds the author: `declarations` and what the fluent API allows to follow them; `Build` lowers them.

**CodexTransport, CodexSession.** `inbox` is stdout in order; `turn` and `said` are the server. A session's
`pc` is where `execute` awaits, `queue` the promise chain. **OpenCodeSession** has the same for
`prompt`, `unread` and `based` are the cursor of its monitor, `made` to `owned` its runs. **AcpSession** has the agent and the stream of a prompt.
Each has a refinement to `AgentSession` (`TurnsAccounted`, `WorkAccounted`, `PromisesKept`): the
calls of a session follow one another, and a call answers when its work has stopped or is known to go on.

**OpenCodeProjection.** `listed` is what the server's messages say of a tool, `seen` and `shown` the dispatcher of
a prompt, `span` the observability of the call. `ReadPage` is what the server is asked for: `listMessages` of `transport.ts` passes
the cursor on but not the order, so every read without a cursor is of the last page.

**RepeatLoop.** `inputs` and `verdicts` record the attempts started and the conditions
persisted; `heard` says that the abort has reached the loop's own run. A value is the number of
the attempt it came from.

**DirectRun.** `stage` is where `startWorkflowRun` awaits, `task` where each of three tasks does. A session is named
after the task it was made for; `generation` is what `createAgentSession` counts.

**RunDetails.** `entries` is the list of retained values in order, `retained` their size, `details` what the rows show.

**ServiceAction.** `process` is the anchor, the service and the sentinel with what the operating system knows of them; `saved` is
the state of the job between the step and the post step. **MergeResolution** has a revision for each thing that has one: the head and base
at GitHub, what was read, what is checked out. **ReviewRun** has the comment, the job that runs and what each review reserved.

## 3. Runs

The numbers are distinct states.

| run | instance | properties |
|---|---|---|
| `workspace_lock` (9 349) | four invocations of three owners, two pairs of equal ordinals | exclusion, no state dropped while needed, creation order, no overtaking, waiters admitted |
| `session_lock` (11 193) | four users, two sessions, aborts and quarantine at any moment | one holder, state agrees with what users were told, quarantine final, waits end |
| `joint_admission` (11 078) | writer, reader with evaluator, task elsewhere, nested workflow with a child that re-enters and has its own session; two of them may end unconfirmed | exclusion over both resources, atomic admission, no lost wake-up, writer preference; every admission decided |
| `task_invocation` (620 467) | two effects, one activity, three eager consumers and an arm in three set-ups; or a classifier call; or a process | leases cover work, sessions published together, calls accounted for, failure not lost, invocation ends |
| `workflow_run` (121 481) | four plans, two renderers, room for 3 or 20 rows | one end each and in order; views and lines agree with the run and with each other; abort ends |
| `runner` (361 248) | four workflow events, two user signals, a queue of two; or a run through a host | truthful report, cleanup first, command ends |
| `operational_host` (187 734) | one slot, one place, two directly started runs, four sets of callers | dispatcher sound, executions closed once, calls and runs end |
| `plan_program` (52 931) | families of plans; five of them run; what an author can build of three declarations | lowering keeps its meaning, results in time, authored plans accepted |
| `codex_session` (619 200) | two calls of one session or of two, one unruly turn | turns accounted for, calls settle |
| `opencode_session` (550 817) | two overlapping calls with one repair each | closed leaves nothing, work accounted for, own events, calls end |
| `jobs` (470 211) | eight machines: repeats, service, merge, review, direct run, ACP, projection, details | `AttemptsBounded`, `ServiceSafe`, `ActionsSafe`, `AgentsSafe`, the two refinements in `PromisesKept`, `JobsEnd` |
| `three_level_nesting` | violation | a workflow in a workflow in a run deadlocks on its own workspace |

Everything a run calls sound, safe or truthful is a conjunction of named parts, each with a comment
where it is defined. The type invariants of the machines are among them; those of the modules with proofs are proved.

### Bounds

- Invocations ask once, so the lock models are finite without a counter. Four requests of three
  owners are enough for re-entrance, a batch of readers behind a writer, a newcomer beside a
  queue, and a release that grants a part of the queue. Larger instances are covered by the proofs.
- `joint_admission` has one of each kind of invocation that acquires leases, and one pair for each
  conflict: workspace only, session only, and both.
- Classifier: a budget of 9, backoffs 1, 2, 4, a Retry-After of 0 or 3, in units of the first
  backoff, so that the fourth request may or may not fit. A task that classifies or runs a process makes
  one such call and runs no agent.
- `MaxEvents`, `MaxSignals` and `QueueLimit` bound `RunnerSupervision`. Two signals are needed for
  "insists"; a queue of two overflows with four events; the terminal event and the settlement come on top.
- `HostedRun`: `MaxWork` 1, `BridgeRoom`, `ConsumerRoom`, `MaxUnseen` and `CancelTries` 2: enough to
  overflow each queue and to exhaust each retry (`MaxWork` 2 was clean too).
- `workflow_run`: each of four plans exists for a shape that matters; one row of the nested workflow, two attempts of a repeat, one
  event at a time in the pipe (`MaxPending` 1), room for three rows, which cuts each plan, and for twenty, which cuts none.
- `operational_host`: one slot and one place make every further call wait or be refused.
- `plan_program`: the families of `MCPlanProgram` vary dependencies, sessions, accesses, choices and repeats one
  aspect at a time; `MaxDeclarations` 3 with five runnables and five conditions.
- Codex: `PipeRoom` 2 lets an event overtake the answer that names its turn. OpenCode: two calls, numbered in order; `Retries` 1.
- Repeats: limits 2 and 3 with a budget of 4 let either repeat be the one the budget stops.
- Services: `MaxFaults` 1, one kill by the machine; two kills that hit the step and the anchor are beyond what the code protects against.
- Merge: two attempts, one push by others. Review: two reviews, two attempts at each, one push, one cut.
- Direct run: three tasks, five plans of sessions, two starts of the service, three offers of models (36 plans of sessions were clean too).
- ACP: two calls, one tool, one repair, two records. Projection: a session of three messages and two prompts, the last
  message of before and the first of the call with a tool each, at most two pages of two messages, one span and one refusal. The page
  read after the prompt has that last message, which must be known not to be told again.
- Row details: a task and a validation, an activity of each kind with one id, one observation, two entries, four bytes,
  three events (four events with three entries were clean too).
- `CHECK_DEADLOCK FALSE` is set where the system really stops: when all invocations have asked and
  ended, all calls are answered and closed, or the plan is refused. The other modules have an explicit `Done`.

### Fairness, and why the code justifies it

- *WorkspaceLock, SessionLock*: a holder releases. Every caller releases in a `finally` block. A
  session whose holder cannot confirm its end is quarantined instead (`HolderEnds`).
- *JointAdmission*: loops and microtasks run; an admitted invocation ends once nothing it started is in progress.
  Executors have deadlines. An unconfirmed one never ends; `AdmissionEnds` excludes exactly that.
- *TaskInvocation*: the executor answers and reported effects and activities end. The code does
  not enforce the latter: an activity that never ends keeps `waitForTermination` waiting, even
  after an abort. `InvocationEnds` is a statement about executors that keep their contract.
- *AwaitedCalls*: time passes, the timer fires, and what the signal has aborted settles; the provider need not answer.
  The sandbox has a timeout for each command and grace periods end; nothing makes a process group end.
- *RunnerSupervision*: turns of both processes are fair. The workflow, executors and `close()` are not:
  any of them may hang, and `SupervisionEnds` (in `CommandEnds`) holds nevertheless.
- *HostedRun*: requests are answered or fail, the server receives and ends the run and stores its record, bridge and
  consumers move. The start and cancel requests have no timeout in the code: `CommandEnds` rests on the server there.
- *WorkflowRun, RunDisplay*: Mastra runs what is ready and an admitted task returns; the inside of a
  nested workflow ends; events arrive. No run is ever forced to be cancelled.
- *OperationalHost*: steps of Mastra, preparations and cleanups return; each call has a timer (`Deadline`).
- *CodexSession, OpenCodeSession*: the client's own steps and timers. The Codex server need not answer; of
  OpenCode it is assumed that each fetch is answered or given up, and that events of a turn are written before its end.
- *AcpSession*: an asked or aborted stream fails, a prompt ends; `agent.stream` itself settles, since the code does not race it with the signal.
- *RepeatLoop*: as WorkflowRun. *DirectRun*: starts, executions (they have a deadline) and closes settle.
- *ServiceAction*: every wait of the step has a timer, the anchor handles what it hears; no service has to end.
- *MergeResolution, ReviewRun*: git, GitHub, containers and the agent answer or time out.

### Assumptions about what is outside the repository

- Mastra: a layer's steps run concurrently, the next layer starts when all have succeeded, a
  cancelled run starts no further step, and a step that settles after a cancellation is reported
  with its own status or as canceled. `dountil` runs the step and then the condition. These are
  read off how the lowering uses Mastra, and the corresponding definitions are marked external.
- libuv: within a turn a process reads its channel before it handles signals. `runner` rests on it.
- IPC keeps the order of messages; messages written before an exit arrive before it is seen.
- The Codex app-server, the OpenCode server, an ACP agent, git, GitHub and the operating system do what the
  header of their module says; each may fail where the code has a branch for it.

### Disagreements found

**Shown by a run.** `three_level_nesting`: a nested workflow acquires its lease under
`context.workspaceOwnerId ?? invocationId` but hands its own `invocationId` to its children as owner
(`mastra-execution.ts:692`). Two levels down the owner is no longer the recorded writer, and a task queues for the
workspace that its ancestors hold, for ever. `PROJECT.json` quotes the documents that promise the opposite.

**Met while modelling.** The models contain the behaviour; a property is worded so as not to promise the opposite.

- *Plans.* An arm that waits for a session held by a step which waits for the arm is accepted
  (`session-ordering.ts:8`, `invocation-execution.ts:433`). Reuse chains in which 2 and 3 reuse the session of 1
  and 4 that of 2 leave 3 and 4 unordered although they share a session (`session-ordering.ts:4`). A choice whose
  source is in a later layer fails its run (`mastra-execution.ts:563` against the comment at `choice-source-gate.ts:3`).
  The fluent API's types offer outputs of gates in `when`, and those of choices in `until` and `nextInput`,
  which validation refuses (`plan-validation.ts:589-618`, `787-801`).
- *Repeats.* A cancellation that arrives while the loop's run is being created is lost to it
  (`mastra-repeat-lifecycle.ts:118` against the specification of 2026-09-14, `fluent-task-until-repeats.md:111-112`).
- *Runner.* The first interrupt that reaches a runner whose cancellation was already asked for over IPC counts as
  a repeated one and ends the process before its cleanup (`main.ts:79`, comment at 72).
- *Host.* `closeRun` overwrites `cleanupByRun` (`operational-host.ts:388`, comment at 66). A host that fails to open makes
  the terminal event the only one, which a recording refuses. A cancellation before the server knows the run is
  given up after 120 tries and reported as cancelled. `sendTerminal` may use a sequence number twice,
  which disables the recording. The start and cancel requests have no timeout. `executeOperationalHostRun`
  has no caller outside tests.
- *Codex.* The end of the process during a turn is noticed only at the task's deadline (against
  `2026-09-12-codex-app-server-adapter.md:197`). A transport that fails while `turn/start` is pending, and an
  answer to it that cannot be read, settle the call without an interrupt or a report. A rejected thread or adapter
  promise is kept for good. After an early abort with a late answer to `turn/start`, the caller may be answered
  before the uncertain activity is reported (`adapter.ts:463`, `487`).
- *OpenCode.* A failed abort settles the call without a report (against
  `2026-09-04-agent-adapter-boundary-and-capabilities.md:99-100`). Invalidation by an overlapping call may
  forget a newer run. A monitor that fails after the answer keeps run and cursor, so that the next prompt passes on
  events of the earlier one. A repair may queue behind the prompt of another call. A call of a tool told of
  in the legacy format and then reconciled gets two ends; a late legacy event may follow the end.
- *ACP.* The adapter has no close. Tools ended by `finishAttempt` have no terminal activity. `agent.stream` is
  not raced with the signal.
- *Direct run.* The capabilities of sessions are checked before the models are, so that
  `effectiveModelSelections` is empty at `session-preflight.ts:68`. An arm that forks a session reused in
  between fails as foreign (`runtime-profile.ts:256-264`); a source without an agent makes its fork fail as stale
  where the standalone profile forks an empty session. On cancellation the lease closes the service before the adapters.
- *Classifier, processes.* A "succeeded" observation may be followed by a failure at the deadline. A command that exits
  while a descendant runs is not waited for, so the leases go back under it.
- *Renderers.* The second attempt of a repeat may take the placeholder of another (`run-plan.ts:149`).
  The batched view may hold dependencies on invocations it does not show yet. `siblingOrder` of an arm differs between the snapshot and
  the created event. Rows cut by the limit are printed but not counted in the summary. A cancelled run whose runner had to be
  killed is reported as failed. Evicting a result drops evidence whose own entry stays counted.
- *Services.* Readiness takes any answer at the address. A cleanup at the start ignores a stop that could not be verified.
  A partly saved state makes the post step report "stopped" (the anchor nobody adopted ends itself).
- *Merge conflicts.* `resolution-state.ts:77-79` calls every clean integration "no-change", the controller calls one
  with a moved head "updated". The branch `continue` (`resolution-flow.ts:98-101`) cannot be reached. A failed write of
  the summary turns a pushed result into a failure.
- *Review.* A job that ends between `createMarker` and `saveState` leaves a marker nobody removes
  (`review-run.ts:412-420` against `2026-09-08-direct-runtime-code-review-action.md:219-224`).

## 4. Proofs

Each proof module extends the module it is about, states the inductive invariant, has one lemma for each
action (or path of an action) that keeps it, and ends with the theorems. All hold for every value of the constants that
the named `ASSUME`s of the module allow; TLC evaluates the same assumptions in the runs. Every inductive invariant was
checked by TLC on the instance of its run before it was proved.

| module | theorem | states |
|---|---|---|
| `WorkspaceLockProofs` | `LockInvariant`, `TypeCorrect` | the inductive invariant, `TypeOK` |
| | `CountsCorrect` | depths are exactly the leases that are out |
| | `Exclusion` | `MutualExclusion` |
| | `WaitersKept` | `NoLostWaiter` |
| | `NoQueueAbandoned` | a queue always has a holder whose release will grant from it |
| | `StateKept` | `NoOrphanedState` |
| | `CreationOrder` | `AdmittedInCreationOrder` |
| | `WriterPreferred` | `NoOvertaking` |
| `SessionLockProofs` | `SessionInvariant` | the inductive invariant |
| | `OneTurn`, `Accounted` | `OneHolder`, `SessionAccounted` |
| | `QuarantineHolds` | `QuarantineIsFinal` |
| `JointAdmissionProofs` | `JointInvariant`, `JointTypeCorrect` | the inductive invariant, `TypeOK` |
| | `Admission` | `AdmissionSound` |
| | `JointUsesLock` | joint admission implements the lock registry: `Spec => W!Spec` |
| `TaskInvocationProofs` | `InvocationInvariant`, `InvocationTypeCorrect` | the inductive invariant, `TypeOK` |
| | `LeasesCover` | `LeasesCoverWork` |
| | `PublishedOrNot` | `SessionsPublished` |
| | `FailureKept` | `FailureIsNotLost` |
| | `AwaitingInvocation` | an invocation that awaits a call implements `TaskInvocation`: `ExecSpec => Spec` |
| | `AwaitedInvariant` | the inductive invariant with the calls of `AwaitedCalls` |
| | `AwaitedAccounted` | `CallsAccounted` |
| `JobsProofs` | `RepeatInvariant`, `RepeatTypeCorrect` | the inductive invariant, `TypeOK` of `RepeatLoop` |
| | `AttemptsStayBounded` | `AttemptsBounded` |
| | `ServiceInvariant` | the inductive invariant of `ServiceAction` |
| | `ServiceContained` | `StrangersSpared`, `FolderKept` and `ToolSound`, for any number of kills |
| | `ServiceAccounted` | `ServiceSafe`, which has `GroupAccounted` besides, for at most one kill |
| | `ActionsInvariant` | the inductive invariants of `MergeResolution` and `ReviewRun` |
| | `ActionsStaySafe` | `ActionsSafe` |
| | `AcpInvariant` | the inductive invariant of `AcpSession` |
| | `AcpStaysSound`, `ProjectionStaysSound` | what `AgentsSafe` says of `AcpSession` and of `OpenCodeProjection` |
| | `ResolutionImplements` | `MergeResolution` implements `ResolutionState` |
| | `AcpImplements` | `AcpSession` implements `AgentSession` |
| | `PromisesAreKept` | `PromisesKept`: both refinements |
| `OperationalHostProofs` | `DispatcherKeepsSlots` | `DispatcherSound`, for the dispatcher with any dispatch |
| | `HostUsesDispatcher` | every step of the host is one of the dispatcher or leaves it alone |
| | `HostKeepsSlots` | `DispatcherSound` in the host |
| | `HostInvariant`, `HostTypeCorrect` | the inductive invariant, the types |
| | `HostCloses` | `ExecutionsClosed` |
| `RunnerSupervisionProofs` | `RunnerInvariant`, `RunnerTypeCorrect` | the inductive invariant, `TypeOK` |
| | `ReportsTrue` | `ReportsTruthful`, the part of `CommandTruthful` about a runner |
| | `CleansUpFirst` | `CleanupFirst` |
| | `CommandInvariant` | the inductive invariants of both routes of the command line |
| | `CommandReports` | `CommandTruthful` |
| | `CommandCleansUp` | `CleanupFirst` on the command line |
| `WorkflowRunProofs` | `RunInvariant`, `RunTypeCorrect` | the inductive invariant, `TypeOK` |
| | `Orderly` | `InvocationsOrderly` |
| | `DisplayRuns` | a displayed run is a run: `DisplaySpec => Init /\ [][Next]_vars` |
| | `DisplayedOrderly` | `InvocationsOrderly` in `RunDisplay` |
| | `OpenCodeInvariant` | the inductive invariant of `OpenCodeSession` |
| | `OpenCodeCloses` | `ClosedLeavesNothing` |
| | `OpenCodeEventsOwned` | `OwnEvents` |
| | `OpenCodeRunsAccounted` | each run of `OpenCodeSession` implements `AgentSession` |
| | `OpenCodeAccounted` | `WorkAccounted`, if no call forgets a run in use |
| | `OpenCodeAccountedInTurn` | `WorkAccounted`, if calls follow one another |

### WorkspaceLock

For any finite set of invocations (depths are cardinalities), any owners, workspaces and ordinals. Exclusion
alone is not inductive: `release` decides from the counts whether the lock is free, so the counts must be right, and a
grant hands out leases to whatever the queue holds, so the queue must be right. The invariant is

    LockInv = TypeOK
           /\ CountsMatchLeases       depths are the cardinalities of the leases out
           /\ WriterExcludesReaders   the recorded writer sees no reader
           /\ NoLostWaiter            queue and waiting requests agree, each once
           /\ QueueSorted             creation order

Each path of `acquire` and `tryAcquire` and each `release` has a lemma that keeps it; `Release` is
split into the counts it leaves (`ReleaseCounts`) and the batch it grants. `GrantCountFacts` and
`EnqueueFacts` say what the two queue operators return; since induction over data is not
available they use the least element of a set of positions. Exclusion follows from the invariant:
two leases of which one is exclusive are both counted, so the writer is the owner of both and no reader is left. The
two action properties follow from the invariant and from what one step can do to a queue. `StateKept`
needs that an unused state has neither holder nor waiter, which is where the counts come in again.

### SessionLock

For any finite set of users, any sessions and any ordinals.

    SessionInv = TypeOK
              /\ OneHolder             one user per session
              /\ BusyUntilReleased     busy is what the holders and quarantines say
              /\ QueueSound            queue and waiting requests agree, each once, in order,
                                       and behind a holder
              /\ QuarantineRejects     a quarantined session has no queue

A session is handed over without being free in between, so `OneHolder` needs `QueueSound` (who is
handed the session waits for it) and `BusyUntilReleased` (nobody else can take it meanwhile).
`QuarantineRejects` is what makes the release of a quarantined session, which leaves it busy, admit nobody.
An abort takes a request out of the middle of the queue and a release out of its front: both are
instances of one lemma, `LeaveQueue`, about a queue without one of its positions. `InsertFacts`
and `RemoveFacts` say what the two queue operators return.

### JointAdmission

For any contexts, invocations, workspaces, sessions, nesting and evaluators; `SessionsAssumption` says that the users of a
session share a context, as in the code, where each context has a registry of its own.

    JointInv = WP!LockInv /\ SP!SessionInv   the invariants of both registries, through INSTANCE
            /\ JointTypes
            /\ QueueInv(c, k)                the requests of a loop: distinct, idle, in order of creation
            /\ UseInv /\ RefusedInv          a session is held with its workspace; nobody waits for one
            /\ NoLostWakeup                  a loop sleeps only on a request it cannot decide

What the registries do is not proved again: `WorkspaceKept` and `SessionKept` say that a call keeps
the registry's invariant, and the lemmas of the other proof modules are cited through the instances. New is `NoLostWakeup`: a sleeping
loop stays right because every release that could make its head decidable wakes it.

### TaskInvocation

For any effects, activities and consumers. The inductive invariant `InvocationInv` says, for each place where
`executeTaskNode` awaits, which leases are held and what may still be under way (`StepInv`), and which consumers and
deferred sources are resolved (`PublishInv`). `FailureKept` is an action property.

`AwaitingInvocation` shows that the calls of `AwaitedCalls` add nothing to an invocation but stuttering and reports it allows,
so that the theorems above hold of `ExecSpec` as well. For any budget, backoffs and delays a response asks for, `CallInv` adds what a
backoff waits for: its end is no earlier than `Earliest` of the next attempt, and all observations before it are failures.
`EarliestFacts` shows that the recursive function `Earliest` satisfies its equation: no number of attempts is the least one without a table.
`ExecFits` says why a group that does not end keeps its leases: `execute` has not answered yet, or the group was given up; that is reported
before `execute` answers, and an invocation that knows of it never gives a lease back (`UnconfirmedKeepsLeases`).

### OpenCodeSession

For any finite set of calls, as many runs as calls and any number of retries (`OpenCodeAssumption`). The proofs stand in `WorkflowRunProofs`. `SessionInv` is
the conjunction of

    SessionRuns    runs are made one after the other, each for a call that waits for it; a run that is open is
                   owned by the adapter, or shut, or about to be either
    SessionQueue   every call that has come to a run stands in its queue, and only the first is at work
    SessionWatch   what is watched while a prompt is out, and what was stopped when it drains
    SessionWork    work that goes on beyond its prompt was lost, or its run was stopped when no prompt was at work
    SessionUnread  the same of events that nobody has read yet

`close` takes the sessions the adapter owns, so a run made behind its back would stay open: `SessionRuns` says that the call that
waits for the run still stands between the two. An event that was left unread can be taken for that of a later prompt only if its call was
lost, since a prompt that ends otherwise drains its events or stops the run (`SessionUnread`).

The refinement to `AgentSession` rests on `SessionAccounts` besides: only a prompt that waits for its answer has work that nobody knows of; a run that was
stopped has none, and a prompt that was prepared meanwhile is not sent. With the queue it follows that each run by itself keeps the contract
(`OpenCodeRunsAccounted`; `RunContract` lets a call enter a run with its first prompt), whatever the calls do. The adapter as a whole keeps it only if no
run is forgotten while it is in use. `WorkAccounted` does not hold for every value of the constants: with four calls at once TLC finds
a cancelled call of an older run that forgets the run the others have made since (`libs/opencode/src/adapter.ts:526`, `:616`), and a prompt in the next
run beside one in that. `OpenCodeAccounted` has that as its condition (`ForgottenWhenStopped`, which holds in the run of two calls), and with it that
all runs but the shared one are stopped (`OneShared`); `OpenCodeAccountedInTurn` has what the runtime's session lock ensures, calls that follow one another.

### RepeatLoop

For any number of repeats, limits and budget. `BudgetInv` relates the attempts started to the budget charged: an attempt is
charged before it starts, and without an abort nothing else is charged; `LoopInv` relates, at each place of a loop, inputs, verdicts and the durable
state. The sum over all repeats is the cardinality of the set of attempts.

### The machines of jobs

`JobsProofs` proves of each machine an invariant of its own; the lemmas `ServiceMoves`, `MergeMoves`, ... say that a step of `JobsNext` is a step of
that machine or leaves it alone, so that the invariant holds along `JobsSpec` whichever machine was chosen. The bounds are any numbers the
assumptions of `MCJobs` allow.

**ServiceAction.** `ServiceInv` says what is known and saved at each step (`ServiceStep`), that a group is verified, or gone, when it is stopped
(`ServiceStop`), and that ripwire's directory is there while a group may run from it (`ServiceFolder`); `ServiceGroup` says that an id is in foreign
hands only when the group is over. `ServiceTold` follows what was saved up to the end: who ends without a word has saved what identifies the
group, or was killed. It needs the bound of `ServiceAccounted`, at most one kill from outside: with two, TLC finds a violation of
`GroupAccounted`; nothing in the code claims otherwise.

**MergeResolution.** `MergeWork`: what is resolved is the head that was read, and no marker is left in what is published. `MergeAgent`: between the
stop of the agent and the push there is no agent, and the token is there only then. `MergeNextFollows` maps every step to one of `ResolutionState` or to a
stutter; `MergeOutcome` tells its ends apart.

**ReviewRun.** For any number of reviews, attempts and pushes. `ReviewOrder`: no name of an attempt is in the comment before it wrote there.
`ReviewMarker`: a marker of a review in progress belongs to the job at work, which will take it away, or the failure to do so is on record. `ReviewReport`: the
report is that of the newest publication, and what it will be made from at each step.

**AcpSession.** For any finite set of calls and any tools. `AcpLine`: the queue has the calls that have neither answered nor are idle, each once.
`AcpAgents`: every agent but the last was told to end; the last works for the call at work or for none. `AcpTools`: only a call at work has
a tool open. `AcpMeets` maps every step to one of `AgentSession`: an agent that was told to end is what accounts for work that goes on.

**OpenCodeProjection.** For any tools and messages, any size of a page and any number of prompts. `ProjectionShown`: a dispatcher has seen the end of a tool exactly
when it has reported it. `ProjectionSpans`: spans are open only under that of the agent. `ProjectionHistory`: unless a read of it has failed (`blind`),
what the last page has of before the call is known once a page was read, and nothing of it is to be sent. A snapshot that stops at the bound on pages, or because
the server names no page before, needs no exception in `OwnTools`: pages are read from the last one back, and the read after the prompt takes only the last.

### McpDispatcher and OperationalHost

For any calls, steps and directly started runs, any number of slots and places. `DispatcherInv` says that the queue holds exactly the waiting
calls, once each, and `active` counts those that have a slot; a queue is not empty only while all slots are
taken. `HostInv` adds for each run:

    Numbered     preparations are 1 .. m in the order they were made, never more than steps invoked
    PhasesFit    what became of a preparation fits how far its cleanup is
    UsersFit     an invocation under way uses the preparation its run holds, or is waited for
    LatestFits   cleanupByRun holds the cleanup that is not over (while the host is open)
    EndsFit      which cleanups there can be at each stage of the run
    ShutFits     the shutdown waits for the last execution it found of each run

The map `cleanupByRun` is overwritten by each later cleanup of the run. `LatestFits` shows that while the host is open
no cleanup that is not over is overwritten; once it closes that is no longer so, and `ShutFits` says what the shutdown still waits for.

### RunnerSupervision

For any number of events and signals and any size of the event queue. `RunnerInv` is the conjunction of

    CountsFit    how many turns and signals there can be
    CausesFit    a request to cancel has a signal of the user or the end of the supervision behind it
    StageFits    what has happened by each stage of startRun
    QueueFits    a terminal event in the queue is its last, and that of the outcome
    NumbersFit   the numbers in the queue and on the channel are contiguous
    SentFits     what holds once a terminal event has been sent
    ResultFits   what the supervision resolves with, and why the child exits

`SentFits` is the heart: the terminal event on the channel, or the one received, was sent when the queue was empty,
the resources were not open and nothing could be emitted any more, so neither a second one nor a later event can follow.
`StageFits` bounds `sequence`, without which the type of the settlement's number would not be invariant.

For a run through a host (`HostedRun`), with bridges and queues of any size, `HostedInv` is the conjunction of

    StateTyped, EventsTyped   the types, with the events in both queues
    BridgeFits     the queue of the bridge follows what was delivered; a terminal event is in it only while it is
                   flushed, as its last, and tells what the report will
    ConsumersFit   a recording that was not given up has what was dispatched, but for what is in its queue
    ReportFits     what is behind a request to cancel, the outcome and the report

That the consumers were told last what is reported needs both paths: the terminal event of `Decide` goes through the queue, so
`BridgeFits` follows it there until `Deliver` has told it; that of `Concede` goes past the queue, which `Recover` has seen empty,
and what a run that goes on emits after it is not terminal, so the end that was told stays the last.
`CommandReports` joins both routes: the machine that was not chosen does not move.

### WorkflowRun

For any set of plans that `PlanAssumption` allows: finite, each arm and node of a choice in one place, and dependencies that decrease
some rank, which is what the validation of a plan establishes (it refuses a cycle). The recursive function `NodeLayers` is defined on such plans only:
`LayerFacts` shows that its equation has a solution, by extending a table rank by rank (no rank is the least without one), that the solution is unique
(no rank is the least at which two differ), and that a dependency is in a lower layer. `RunInv` is the conjunction of

    LayersFit      layers below the one that runs have succeeded, none above has begun
    NodeFits(n)    how far the callback of n is, given what Mastra reports of its step
    ToldFits(n)    what has been told of n by then
    ArmsFit(c)     no arm is under way before one is selected; the other one is skipped then
    ArmFits(a)     an arm under way is inside its choice, and its source has succeeded
    EndsOnce, EveryoneTold

`EndsOnce` needs `NodeFits`, since only the phase says that an invocation has not ended yet; and that an invocation begins after what it depends on
has ended needs `LayersFit` with `LayerFacts`. Lemmas about one node (`NodeMoves`), one arm (`ArmMoves`) and one choice
(`ConditionResolved`) serve several actions each; `LayerStarts` and `RunSettles` are about all nodes of a layer or of the run. `DisplayRuns`
shows that `RunDisplay` leaves the run as it is, so that `InvocationsOrderly` holds there too, where the run does without its fairness.

### Only model-checked

- Everything about liveness (`WaitersAdmitted`, `AdmissionEnds`, `InvocationEnds`, `CommandEnds`, `JobsEnd`, ...): neither fairness nor
  `ENABLED` is in the prover's reach.
- What folds and recursive functions compute for every input: the passes of `PlanValidation`, hence `LoweringSound`, `RunSound` and
  `AuthoredAccepted` of `PlanProgram` and `FlowAuthoring`; the folds of `RunView`, hence `ViewsTruthful` of `RunDisplay`; the sums of `RunDetails`.
  It takes an induction over data, whose theorems the installed provers cannot instantiate.
- `AgentsSafe` as a whole: its parts about `AcpSession` and `OpenCodeProjection` are proved, that about `RunDetails` is about sums, and that about
  `DirectRun` (`RunSafe`) rests on recursive functions over the policies of a run.
- The refinement of `CodexSession` to `AgentSession` (`TurnsAccounted`).
## 5. What is not modelled

Components left out:

- *Runner workflow loading, Protocol*: parsing and schemas; nothing happens over time.
- *GitHub actions and workflows, Test fixtures*: configuration and data.

Left out of the modelled components:

- Values, schemas and what they contain: an outcome is a choice. Wording, durations, costs, labels, the order of rows.
- Events a workflow reports after its terminal one (`event-bridge.ts:225`).
- Child workflows over several workspaces. They take them in the order of their keys, which excludes a cycle of waits; with
  liveness the composition is beyond what TLC can check here.
- In `WorkflowRun` a nested workflow is one step (`RunDisplay` has the events of its inside). Its inside is another run of
  the same module, with its own context.
- Reload of a stored repeat snapshot; registries of definitions.
- Forks and checkpoints in the Codex and OpenCode adapters (`TaskInvocation` and `DirectRun` have those of the runtime).
- Adapters made for one task without a session, and isolated late arms, in `DirectRun`.
- Failures of the projection of spans in `AcpSession`; the limit on model identities and the provider's budget
  in `OpenCodeProjection`, where a message has at most one tool; the counters of evicted entries and the limit
  of 1000 on the completed tools that are counted in `RunDetails`.
- A second identical signal and the size limits of a recording in `HostedRun`; the redaction of a replay.
- How the host listens and answers readiness; a killed job in `MergeResolution`; the bound on the history read in `ReviewRun`.

## 6. Plan

1. Proofs: `RunSafe` of `DirectRun`, with the order of the tasks as the measure its recursive functions descend on; then the refinement
   of `CodexSession` to `AgentSession`.
2. An abstract admission service that `JointAdmission` implements under a refinement mapping, for any number of workspaces, and
   child workflows over several workspaces on top of it.
3. Forks and checkpoints inside the adapters.
