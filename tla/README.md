# TLA+ models of DBZS Codee

DBZS Codee is a local coding assistant: a FastAPI backend (`backend/app`), a desktop
client (`apps/desktop/src`, React) and its Electron main process
(`apps/desktop/electron`). This directory holds TLA+ models of its core, the TLC
configurations that check them on small instances, and TLAPS proofs.

All paths below are relative to the repository root. `tlc -config X.cfg M` runs a
check, `tlapm M.tla` checks the proofs of a module.

## 1. Inventory

| Component | State it keeps | Operations | Hard behaviour | Correct when |
|---|---|---|---|---|
| **Job spooler** `backend/app/job_spooler` | SQLite tables jobs, job_events, job_artifacts, job_verifications | enqueue, claim, heartbeat, waypoint, artifact, verify, complete, fail, requeue stale, clear | a thread per request; the check of a handler is outside its transaction; leases | attempts stay in budget, jobs change hands only through the queue, the audit trail and the child tables are sound, abandoned jobs come back |
| **Agent workbench: runs** `agent_workbench/service.py`, `worker.py`, `state_machine.py` | agent_runs, agent_steps, one worker thread | create, plan, start, pause, resume, cancel, accept, activate/complete/fail step, complete/fail run, recover | API threads against the worker, stale write-backs, restart in a step | steps in order, once, one at a time, within budget; finished runs stay finished; a running run settles |
| **Task manifest** `agent_workbench/task_manifest.py` | `.codee/tasks/<run>/` in the workspace | materialize, validate, backup, restore | files and database are written separately | a run resumes on a workspace someone accepted |
| **Events and streams** `events.py`, `event_stream.py`, `agentWorkbenchSse.ts`, `agentWorkbenchStore.ts` | agent_events with a sequence per run; the client's position; the selected run | append, list after a sequence, stream; select, refresh, act, reconnect | three reads beside a stream, answers in any order, lost connections | no event is missed, the view is of the selected run and ends up current |
| **Host actions** `host_actions.py` + `apps/desktop/src/services/agentHostExecutor.ts` | host_actions rows; the executor's flags | create, claim, complete, fail; poll, execute, stop | count-then-update, no lease, stop in the middle | one privileged action at a time, none twice |
| **File changes, review gates** `file_changes.py`, `backend/app/review_gates` | agent_file_changes, review_gates | propose, approve, reject, apply, mark applied | two tables in two transactions, guessed gate ids | nothing unreviewed is applied |
| **Follow-ups, planner** `followups.py`, `planner.py` | agent_followups | add, apply, reject | applied before the plan is accepted | no follow-up is lost |
| **Agent runner, daemons** `backend/app/agent_runner`, `backend/app/agents` | process-local status | claim, process, post waypoints | leases without heartbeats | a job is worked on by its owner only |
| **Runtime slots** `backend/app/runtime/service.py`, `residency.py`, `gpu_exclusivity.py` | slot statuses, processes, shared bindings, residency entries | start, stop, share, evict, begin/end request | locks per slot but rules across slots; stops without a lock | a status names the process, the GPU slots never run together, no orphan process |
| **Runtime supervision** `runtimeProcessSupervisor.ts`, `runtimeSlotManager.ts`, `lazyRuntimePolicy.ts` | last model and restart budget per slot | poll, restart, idle-evict | crash seen as a stop | a crashed slot is restarted within its budget |
| **Desktop job execution** `jobExecutorService.ts`, `jobWorkspaceLock.ts`, `workspaceLockService.ts`, `implementationQueueService.ts` | in-memory workspace locks, timers | claim with lock, execute, renew, release, requeue | expiry while the holder runs, swallowed errors (only tests start this part) | one job per workspace; waiting costs no attempt |
| **Patches, restore points** `apps/desktop/electron/agentPatchCoordinator.ts`, `fileChangeService.ts`, `restorePointService.ts`, `atomicFileWrite.ts` | proposals and snapshots in memory; restore points, their index and the files on disk | preview, approve, reject, apply, roll back, save, list, repair, clean up | no lock around any await, torn writes, ends of the process | a patch takes effect as a whole or not at all; what a file was can be restored |
| **Boot** `electron/boot`, `backendStartupService.ts` | phases of child processes | start, wait, stop | timeouts | the window opens on a healthy backend |
| **Agent turn, tools** `runtime/agent`, `runtime/tool`, `runtimeChatAgentRunner.ts`, `questionCoordinator.ts`, `runtimeChatApprovalStore.ts` | one conversation; requests of tools; approvals; the question file | model turn, tool call, approval, question, cancel | waits without a time limit, two runs, restart of the renderer | every tool call is answered once, a wait can be answered, a cancelled run ends |
| **Chat** `runtimeChatStore.ts` and its helpers | isSending, the active run, the history, abort controllers, timers | send, cancel, clear | two sends past the guard, every exit of a function of 2,400 lines, late timers | the chat becomes free, a run is archived once |
| **Data services** rag, model_lab, models, settings, trajectories, task_board, project_memory | one table or file each | create, read, update | little | - |
| **User interface** components, stores | view state | - | - | - |

### How the parts interact

The desktop enqueues jobs; agents (in the backend or in the desktop) claim them from the
spooler and report by waypoints; the event stream lists the jobs twice a second and, in
doing so, requeues stale ones. The workbench is separate: the user creates a run and
plans it through the HTTP API, one backend thread executes its steps and puts privileged
work into `host_actions`, which the desktop's executor polls; patches go through review
gates and the Electron patch coordinator. Model calls go to a runtime slot, whose
processes the backend starts and stops and the desktop supervises; the chat itself is one
long async function of the renderer that starts slots and hands coding turns to the turn
engine.

What is hard to test in this code, line by line and with the properties that cover it,
is the list `hazards` of `PROJECT.json`.

## 2. Modules

| Module | Content |
|---|---|
| `JobSpooler`, `JobSpoolerProofs`, `MCJobSpooler` + 2 cfgs | the spooler: table, child tables, request threads, event stream |
| `AgentRun`, `AgentRunProofs`, `MCAgentRun` + 4 cfgs | runs, steps, API threads, worker thread, restart, manifest |
| `RunView`, `RunViewProofs`, `MCRunView` + 1 cfg | the events of a run, their stream, and the desktop's view of the run |
| `PatchTransaction` | what the patch coordinator promises |
| `PatchApply`, `MCPatchApply` + 1 cfg | how it works: file by file, with restore points; implements `PatchTransaction` |
| `PatchApplyProofs`, `PatchRestoreProofs` | its types and approvals; its restore points and the refinement (EXTENDS the former) |
| `AgentTurn`, `AgentTurnProofs`, `MCAgentTurn` + 2 cfgs | turn engine, tool executor, approvals and questions |
| `RuntimeSlots`, `RuntimeSlotsProofs`, `MCRuntimeSlots` + 1 cfg | runtime slots, panel, supervisor, idle watcher |
| `ChatSend`, `ChatSendProofs`, `MCChatSend` + 1 cfg | the chat's sends, composed with `RuntimeSlots` (EXTENDS) |

### JobSpooler

Each column of `jobs` is a function on job ids; `exists` is the set of rows. Python's
`sqlite3` begins its implicit transaction at the first INSERT, UPDATE or DELETE, so the
SELECT on which a handler bases its checks (`_fetch_job`, `_assert_worker_owns_job`) is
not protected: a handler is a `...Read` action, which leaves what it read in
`pending[thread]`, and a `...Write` action, the whole transaction. `claim_next_job` uses
BEGIN IMMEDIATE and `enqueue_job` and `clear_jobs` check nothing: these are one action.
`Rollback` is a transaction that fails: because a foreign key finds its job deleted
(that is the guard `p.jobs \subseteq exists` of the writes) or because the database
stays locked.

| Code (`job_spooler/service.py`) | Model |
|---|---|
| `enqueue_job` | `Enqueue` |
| `claim_next_job` | `Claimable`, `FirstInLine`, `Claim` |
| `heartbeat` | `HeartbeatRead`, `HeartbeatWrite` |
| `add_waypoint`, `_status_from_waypoint` | `WaypointRead`, `StatusFromWaypoint`, `WaypointWrite` |
| `add_artifact` | `ArtifactRead`, `ArtifactWrite` |
| `verify_job` | `VerifyRead`, `VerifyWrite` |
| `complete_job`, `fail_job` | `FinishRead`, `FinishWrite` |
| `requeue_stale_jobs` (alone, in `list_jobs`, in the event stream) | `Stale`, `RequeueRead`, `RequeueWrite` |
| `clear_jobs` | `ClearJobs` |
| the clock | `LeaseExpires` |

A lease is `none`, `live` or `expired`. A worker may send any request about any job at
any time: that includes every client of the repository (agent runner, daemons, desktop
job executor) and their retries.

### AgentRun

A run's row is `status`, `maxSteps`; its steps are `steps` and `attempts` by ordinal,
`plan` counts the plans it has had, so that a step of an old plan is recognised
(`PlanStands`: the step id is still in the table). Every service method reads and
validates on one connection and writes on another: API threads keep what they will write
in `request[thread]`; the worker is a program counter (`worker.pc`) over
`_process_runs`, `_execute_run`, `_run_step` and the service methods it calls. It takes the
newest running run among the `ListLimit` (20) newest runs of whatever status (`NextRun`);
a running run behind that many newer ones is not looked at.

| Code | Model |
|---|---|
| `create_run` | `CreateRun` |
| `set_plan`, `auto_plan`, `apply_followup_plan` | `PlanRead`, `PlanWrite`, `Refresh` (manifest again, then `start_run` if `auto_start`) |
| `start_run`, `pause_run`, `cancel_run`, `resume_run` | `StartRead`, `PauseRead`, `CancelRead`, `ResumeRead`, then `TransitionWrite` |
| `accept_workspace_changes`, `accept_resume_baseline` | `AcceptRead`, `AcceptBaseline`, `AcceptWrite`, `Refresh` |
| `complete_host_action` | `HostActionCompleted` (its effect on the manifest) |
| `recover_on_startup` after a stop at any point | `Restart` |
| `list_runs(limit=20)`, `_process_runs`; the lists at the head of `_execute_run` | `NextRun`, `WorkerPicks`, `WorkerLists` |
| the loop of `_execute_run` | `WorkerLoops`, `StepEnds`, `StepCompleted`, `PassEnds` |
| `activate_step` | `ActivateRead`, `ActivateWrite` |
| `_run_step` | `StepBegins`, `StepEnds` (success, error or timeout) |
| `complete_step`, `fail_step` | `CompleteStep...`, `FailStep...`, `TimeoutStep...` |
| `complete_run`, `fail_run`, `pause_run` called by the worker | `CompleteRunRead`, `FailRunRead`, `PauseRunRead`, `RunWrite` |
| a transaction that fails | `RequestFails`, `WorkerFails`, in `Restart` |
| the user's editor | `EditWorkspace`, `LoseManifest` |

### RunView

The events of a run are numbered by `append_event` from 1, in the transaction that changes
the run's row; `row` represents the row by the number of the event that last changed it
(`Appends`). The stream's generator sends what is new (`ServerSends`) and ends when the run is
over (`ServerEnds`). The client's state is that of `agentWorkbenchSse.ts`: the source, the
reconnect timer, `activeRun`, `afterSequence`. A select, a refresh and an action of the user
are requests in `call`: read (`Read`, `ReadList`, `Acted`) and delivered
(`SelectDelivered`, `RunDelivered`) at different times, in any order.

| Code | Model |
|---|---|
| `append_event`, `_event_generator` | `EventAppended`, `ServerSends`, `ServerEnds` |
| `connectAgentWorkbenchSse`, `disconnectAgentWorkbenchSse` | `Opens`, `Connects`, `Disconnects` |
| `handleAgentEvent`, `ingestEvent` | `Received`, `Tells` |
| `onerror`, `scheduleReconnect` and its timer | `Lost` in `SourceEnds`, `SourceDrops`; `Reconnects` |
| `selectRun`, `connectStream` | `Select`, `Read`, `ReadList`, `SelectDelivered`, `Streams` |
| `refreshSelectedRun`; start, pause, resume, cancel, acceptance | `Refreshes`, `Act`, `Acted`, `ActRefused`, `RunDelivered` |
| unmount or change of the workspace | `Leave` |

### PatchApply and PatchTransaction

`PatchTransaction` says what the coordinator promises: a patch is shown, approved or
rejected, and applied (`Begin`) as a whole (`Commit`) or not at all (`Abort`); while one is
being applied nothing else changes a file. `PatchApply` is the code: every IPC handler is a program counter that other handlers interleave with at each
await. The refinement `PatchIsTransaction` maps the files to what they were before the call
at work, and a proposal to approved when its stored version is the approved one. It is
claimed as long as `calm /\ ~cut`: calls that touch files come one at a time, and none is
cut off by the end of the process or by a rollback that fails. Beyond that the code
promises nothing, and the other properties say what is left: restore points and their index.

| Code | Model |
|---|---|
| `createPreview`, `createDiff` | `PreviewMay`, `Snapshots`, `Preview` |
| `approveProposal`, `rejectProposal`, `undoPatch` | `Approve`, `Reject`, `Undo` |
| `applyApprovedProposal` | `BeginApply`, `MakePoint` ..., `Change`, `Patch`, `Refused`, `ApplyFails`, `RestoreFile`, `RestoreFails` |
| `createRestorePoint`, `writeIndex`, the cleanup | `MakePoint`, `ReadIndex`, `EmptyIndex`, `FillIndex`, `PointMade`, `Clean`, `FillCleaned` |
| list with repair, rebuild, delete, cleanup, create | `BeginList`, `BeginRebuild`, `BeginDelete`, `BeginCleanup`, `BeginPoint` |
| `rollback` | `BeginRollback`, `RestoreFile`, `RestoreFails` |
| `file:save`, `atomicWriteFile` | `BeginSave`, `Put`, `RemoveTarget` |
| a failing operation, the end of the process | `CallFails`, `ApplyFails`, `Crash` |

A write of `index.json` empties it first and fills it then (two actions), because a reader
in between takes the empty file for an index without entries.

### AgentTurn

Each run is a program counter over `agentTurnEngine.ts`; its tool calls are `request`s of the
executor, direct or behind `tool_call` ("bridged"). A tool stands for its kind: read, write,
bridge, web, ask, propose, hidden, foreign, stray.

| Code | Model |
|---|---|
| the turn loop, the model's answers, repairs | `LoopHead`, `ModelFails`, `AnswerIs...`, `PatchQueued` |
| the loop over the calls of a turn | `CallMay`, `CallRefused`, `CallForeign`, `CallReads` ..., `CallCancelled`, `CallOverBudget`, `CallsDone` |
| `toolExecutor.ts` | `Asks`, `OperationEnds`, `TimesOut`, `ToolReturns` |
| `runtimeChatApprovalStore.ts`, `approvalCoordinator.ts` | `ApproveTool`, `RejectTool`, `Dropped`; `AllowWeb`, `RefuseWeb`, `WebAborted` |
| `questionCoordinator.ts`, `pendingQuestionPersistence.ts` | `QuestionWritten`, `Answer`, `QuestionOver`, `QuestionCleared`, `Rehydrated`, `AnswerRehydrated` |
| cancel, change of the workspace, restart | `Cancel`, `SwitchWorkspace`, `Crash` |

### RuntimeSlots and ChatSend

A start holds the slot's lock from `Queued` to `Publishes`; `Stop` and `Read` take none. A
start that is not ready (`NotReady`: no entry in the index, a missing file, no GGUF, an
unsupported runtime, failed health) publishes its error before it reads or stops anything, so
that a process may run on in its slot under an error. A launch then takes its place without
stopping it; what becomes of the replaced process, which no slot knows any more, is left out.
`known`, `attempts` and `tick` are the supervisor's `lastKnownModelBySlot`,
`restartBudgetBySlot` and its overlapping runs of `checkAndRecoverSlots`. `ChatSend` extends
the module: a send is a client that starts slots, and its guard (`Blocked`) is what the idle
watcher asks.

`activeRun` has writers beside the sends, and `cards` is what they act on. A question found
in a workspace that is opened, of a run of this session or of an earlier one, is shown with a
run made anew under the old id (`own = FALSE`); answering it sends a message and takes the
active run away when that returns, at once if the message was refused. The approval of a plan
lets the active run resume, or makes one anew, whether or not the message it then sends is
accepted; its rejection calls the active run cancelled and leaves it in its place.

| Code | Model |
|---|---|
| `start_model_for_slot` and the launch | `Call`, `Reuses`, `NotReady`, `Launches`, `LaunchRefused`, `EndpointReady`, `LaunchFails`, `Publishes` |
| `stop_model_for_slot`, `status_for_slot` | `Stop`, `Read`, `Seen` |
| `checkAndRecoverSlots` | `TickBegins`, `TickReads`, `TickJudges`, `TickStops`, `TickStarts`, `TickStarted`, `WindowPasses` |
| `maybeEvictIdleWorkModels` | `IdlePasses`, `WatchBegins`, `WatchReads`, `WatchStops` |
| `sendMessage` up to the run | `SendBegins`, `PreStepBegins`, `PreStepEnds`, `PreludeAnswers`, `Accepted` |
| its phases and exits | `SetUp` ... `Discarded` |
| the request, the catch and finally blocks | `Bound`, `Answered`, `Finished`, `RuntimeGone`, `GoneEnds`, `Caught`, `Cleaned` |
| timers, `cancelSendAction`, `clear` | `PhaseTimeout`, `TotalTimeout`, `Cancel`, `Clear` |
| `ask_user`, `checkForPendingQuestionAction` | `AsksUser`, `Rehydrates` |
| `submitAssistantAnswerAction` of a question that was found | `Answers`, `FollowUp`, `FollowUpEnds` |
| a plan in an answer, `continueAgentRunAfterPlanApprovalAction`, `reject_plan` | `Proposes`, `ApprovesPlan`, `RejectsPlan` |

## 3. Runs

| Run | Checks | Bounds | Distinct states |
|---|---|---|---|
| `spooler` (`MCJobSpooler.cfg`) | `TypeOK`, `AttemptsWithinBudget`, `UntouchedUntilClaimed`, `AuditTrailSound`, `NoOrphanRows`, `HandoverThroughQueue`, `ExpiredLeaseReclaimed` | 1 job, 1 or 2 attempts, 2 workers, 1 role, 1 request thread and the event stream | 38,709 |
| `spooler_clogged` | `NoJobClogged`, violated | 1 job, 1 attempt, 1 worker | - |
| `agent_run` (`MCAgentRun.cfg`) | `TypeOK`, `AtMostOneActiveStep`, `StepRunsAtMostOnce`, `StepsInOrder`, `StepBudgetKept`, `ActiveStepSupervised`, `RunningRunSettles` | 1 run, plans of 1 or 2 steps, max_steps 1 or 2, 2 plans, 1 restart, 1 failed transaction, 1 API thread; or 3 runs of one step in a list of 2 | 549,576 |
| `agent_run_over` | `OverIsOver`, violated | 1 run, 1 step | - |
| `agent_run_resumed` | `ResumedRunGoesOn`, violated | 1 run, 2 steps, 1 restart | - |
| `agent_run_review` | `WorkspaceReviewHolds`, violated | 1 run, 1 step | - |
| `run_view` (`MCRunView.cfg`) | `TypeOK`, `StreamIsOfSelection`, `NoEventMissed`, `QuietViewIsCurrent`, `EventsArrive` | 2 runs of up to 3 events, 3 requests in flight, four scenarios | 177,833 |
| `patch_apply` (`MCPatchApply.cfg`) | `TypeOK`, `OldContentKept`, `IndexListsPoints`, `IndexNewestFirst`, `ApprovalIsCurrent`, `PatchIsTransaction`, `PointInUseStays` | 1 proposal that creates a file and deletes one, 3 restore points at the start, 4 kept; 2 calls at once, or 3 one after another with one fault | 452,740 |
| `agent_turn` (`MCAgentTurn.cfg`) | `TypeOK`, `ApprovalsAnswerable`, `CompletedMeansActed`, `QuestionOnDisk`, `AnswerNotDiverted`, `NothingStartsAfterTheEnd`, `CancelledRunEnds` | 2 runs (2 and 1 turns, 1 call each), 2 workspaces, 2 changes or restarts | 181,175 |
| `agent_turn_reason` | `ReasonTellsTheEnd`, violated | the same runs | - |
| `chat_runtime` (`MCChatSend.cfg`) | `TypeOK`, `StatusTellsTheProcess`, `FreeWhenDone`, `CancelReachesTheRun`, `HistoryWrittenOnce`, `BusyEnds`, `ErrorIsActedOn` | 1 slot, 2 models, 2 sends, 2 ticks, six scenarios | 478,376 |
| `slots_crash` (`MCRuntimeSlotsCrash.cfg`) | `CrashIsRestarted`, violated | 1 slot, 1 model, 1 tick | - |

Why the bounds are enough to see the interesting cases:

- Spooler. All properties relate a job to the requests about it; jobs only meet in the
  order of claims and in one requeue batch. Two workers, a request thread and the poller
  allow a check, a requeue and a claim by the other worker before the late write; two
  attempts allow a second owner. The safety properties also pass with a second request
  thread (298,773 states, threads symmetric).
  `MaxJobs = 2` with two priorities (5.9 million states, one worker, one request thread)
  and `MaxJobs = 2` for the liveness property (1.5 million states) also pass; they take
  longer than a routine run should. The proofs of section 5 cover every bound.
- Agent runs. Two ordinals give a step before and a step after, and a plan longer than
  max_steps; the second plan replaces the first under the worker; one restart with one
  failed transaction gives an active step nobody works on while the run is still
  running. Where there are more runs (`MCBound`), each has at most one plan of one step,
  without restarts and failures, and the newest has none: they stand in the worker's list
  before one another, and two of them push the first out of a list of two (`ListLimit = 2`
  in place of 20). No step of the worker is cut by this bound, so that its fairness asks
  for nothing the bound forbids. The safety invariants also passed with 2 runs (5.1 million states, one
  step), 2 API threads (2.2 million states, no faults) and 3 ordinals (0.5 million).
- Run view. Two runs are what it takes to mix them; three events are one from the creation,
  one before and one after a lost connection; three requests are a selection and two
  refreshes that overtake each other. The scenarios (`MCLimits`) are overlapping selections
  with a lost connection, a selection with an action and a lost connection, two selections
  with a leave in between, and an action with a failing request.
- Patches. A patch of two files has a first and a last file; a second call of any kind
  overlaps the first at every await; with 3 of 4 kept restore points at the start the
  cleanup takes effect. One content is enough: a file is as it was, or it is not.
- Agent turn. The second run begins while the cancelled first one is still leaving; the
  lists of tools hold each kind once, two of them in one turn; two changes let a workspace
  be left and entered again.
- Chat and slots. Scenarios: two sends with cancels and a clear; one send beside the watcher,
  the panel and a crash; one send beside the supervisor and a crash; two overlapping ticks
  beside two starts and a stop of the panel; two sends with a question that is found in a
  workspace, a cancel and a clear; two sends with a plan to approve and a cancel. Two sends
  are what it takes for an approval or an answer to be refused by a busy one. One slot, as
  slots do not share anything that is modelled.
- Deadlock is not checked: the counters (`MaxJobs`, `MaxTries`, `MaxPlans`,
  `MaxRestarts`, `MaxFailures`) run out, and users may stop asking for anything. The
  waiting that matters is covered by the liveness properties.

Named bounds: `MaxJobs`, `MaxTries`, `MaxPriority` (spooler); `MaxRuns`, `MaxOrdinal`,
`MaxPlans`, `MaxRestarts`, `MaxFailures`, `MCBound` (agent runs); `MaxEvents`, `Calls` (run view);
`MaxSnaps`, `Calls` (patches); `MaxChanges` (agent turn). `Limits` (run view, patches,
slots and chat, with `questions` and `plans` for its cards) is a set of records: a
behaviour takes one of them, its scenario, and each
bounded thing happens at most as often as that record says.

Every property of a passing run has a mutant of the code's definition (a dropped guard,
a wrong order, a recovery that repeats steps...) under which the run finds it violated;
the mutants stand beside the definitions they change and `PROJECT.json` names them.

### Fairness

- Spooler (`FairSpec`): the event stream lists the jobs every half second
  (`sse_router.py`, `_POLL_INTERVAL`) while a client is connected: weak fairness of its
  requeue read and of ending a transaction it began, strong fairness of its requeue
  write (its transaction is not rolled back every single time). Nothing is assumed of
  workers, of request threads or of users. Without a connected client the property does
  not hold: nothing else in the backend requeues.
- Agent runs (`FairSpec`): weak fairness of the worker's next step. The worker wakes up
  every quarter second; a step's work is bounded, as its model calls and tools have
  timeouts of their own. The worker's transactions may fail `MaxFailures` times, and
  `RunningRunSettles` is about behaviours without restart and failure, and about the run
  whose turn it is: it settles, or a newer run takes its turn. To a running run behind newer
  running ones nothing is promised, nor to one behind `ListLimit` newer runs, which may all
  be over: the code never comes back to it.
- Run view (`FairSpec`): the stream's generator polls, events that were sent are received,
  the reconnect timer fires, and some request in flight is answered. Nothing is assumed of
  the user or of how often connections are lost, beyond the bound.
- Agent turn (`Fairness`): weak fairness of the engine's steps (a model request has a time
  limit) and of the end of each tool's wait (it has one too). Nothing is assumed of the
  user: a tool approval may never be given, which `CancelledRunEnds` excludes by name.
- Slots (`SlotsSpec`): start requests are answered and ticks go on. Chat (`Spec`): with that,
  total timers fire and the vision pre-step ends. A send's own request may hang for ever.

## 4. What the runs show

Holding: with all interleavings of checks and late writes, a job's attempts stay within
budget, its worker changes only through the queue, events and verdicts name only workers
that once claimed it, deleted jobs leave no rows, and an expired lease is always
reclaimed. A run's steps are started in order, once, one at a time and within max_steps;
without restarts and failed transactions an active step is always the worker's own, and
the run the worker takes settles, unless a newer one takes its turn.

The desktop's stream is always the selected run's; as long as selections do not overlap its
view misses no event, through lost connections and ends of the stream; and when everything
is quiet it shows the run's last row, unless an answer was overtaken by a later one. (With
overlapping selections, or a refresh that is overtaken, the code does show another run's
row or an old one: the store never asks whether an answer still belongs to what it shows.
`calm` and `stale` mark these behaviours.)

A patch is all or nothing while calls come one at a time; through failing operations and
ends of the process the old contents stay in a restore point that the user is shown; a
preview never becomes applied under another preview's approval. An approval, a question and
the list the user sees agree with the executor; no tool starts for a run that is over,
except behind a bridge whose own time ran out. The chat becomes free after any mixture of
sends, cancels, clears and timers, and archives each run once; stops take no lock, and yet
no process runs in a slot that is called stopped, or under another model's name.

Two weaknesses are part of what holds. A run made anew for a question or an approved plan
can be shown unfinished with no send to end it: `Blocked` then keeps the idle watcher from
unloading models until the user answers, cancels, clears or sends (`FreeWhenDone` excepts
these runs by `own`, `HistoryWrittenOnce` by `MadeAnew`). And a process can run under an
error, which `StatusTellsTheProcess` allows for `NotReady` and `LaunchRefused`. A third
is outside the model: a busy chat copied from another session or window (section 6).

Not holding (the findings of `PROJECT.json`):

1. `NoJobClogged`: a worker's waypoint is checked; the job's lease expires and the job is
   requeued; the waypoint's UPDATE sets it to running. It has no worker, so nobody may
   report on it, and no lease, so `requeue_stale_jobs` skips it.
2. `OverIsOver`: `activate_step` reads a running run, the run is cancelled, and the
   step's transaction writes "running" back.
3. `ResumedRunGoesOn`: a restart hits an active step; recovery pauses the run, the user
   resumes it, and `_execute_run` returns on every pass because a step is active. With a
   plan of one step the run is completed instead, although its step never was.
4. `WorkspaceReviewHolds`: `start_run` takes a run out of `workspace_review_required`.
5. `ReasonTellsTheEnd`: a run that is cancelled, or out of its tool budget, in the middle of
   a list of calls has its reason overwritten with `tool_calls_executed`.
6. `CrashIsRestarted`: `status_for_slot` turns a process that died into a stopped slot, and
   on "stopped" the supervisor forgets the model it would restart.

## 5. Proofs

`JobSpoolerProofs` proves, for all values of the constants that satisfy
`BoundsAssumption` (the bounds are positive) and `NoneAssumption` (SQL NULL is no worker,
role or verdict), every safety property of the run `spooler`: `TypeOK`,
`AttemptsWithinBudget`, `UntouchedUntilClaimed`, `AuditTrailSound`, `NoOrphanRows` and
the action property `HandoverThroughQueue`.

None of these is inductive alone. A write only knows what its thread has read, so the
invariant `IInv` adds `InFlightSound`: for every request in flight, its jobs had been
enqueued when it read them, and each that is still in the table has been claimed, by the
request's worker if it acts for one. That the worker still *owns* the job is not
invariant, and this is why the audit trail is stated over "has claimed" and not "owns".
`TableSound` says that ids beyond `nextId` are unused and that absent rows hold default
columns, so that a request can never meet a later job under its id. The proof has a
lemma per action (`EnqueueIInv`, `ClaimIInv`, ..., `RollbackIInv`); those of the writes
share `DoneInFlight`, `InsertEventsSound` and `SetStatusSound`, those of the reads
`ReadIInv` and `OwnerSound`. `NextIInv` collects them, `SpecIInv` is the temporal step.
`HandoverProved` needs `IInv` because a requeue in flight must carry the status
"queued". `IInv` was also model-checked on the instance of the run `spooler`.

`AgentRunProofs` proves every safety property of the run `agent_run` for all numbers of
runs, steps, plans, API threads, restarts and failed transactions (`BoundsAssumption`,
`NoneAssumption`: "no run" is no number): `TypeOK`, `AtMostOneActiveStep`,
`StepRunsAtMostOnce`, `StepsInOrder`, `StepBudgetKept` and `ActiveStepSupervised`.

The code guards these properties by what the worker read some steps ago, and its loop
runs over a list of steps it made at the start of the pass. The invariant `IInv` says
what that list is still worth. `SnapshotSound`: as long as the plan stands
(`PlanStands`), the steps that are pending are exactly those the worker has not come to
and the one it is about to start, which precedes them; no step is active when
`activate_step` writes; the step it works on is active; and the worker's count is the
number of completed steps. When the plan was replaced nothing is known, but then the
worker's writes find no row. `WorkerSound` adds that the loop is only entered below
max_steps and that the worker's plan is never newer than the run's (so a replaced plan
does not come back), `RequestsSound` that API threads write about runs that exist,
`RowsSound` that a step without a start has no attempt. `SupervisionSound` says at which
program counters an active step is in the worker's hands, as long as nothing failed.
There is a lemma per action; `RequestIInv`, `StatusIInv`, `WorkerIInv` and `StopIInv`
serve the actions that leave the steps alone, `CountKept` and `CountRaised` say how a
write to one step changes the counts. `IInv` was also model-checked on the instance of
the run `agent_run`.

`RunViewProofs` proves every safety property of the run `run_view`: `TypeOK` (with the
positions, `PositionsKept`), `StreamIsOfSelection`, `NoEventMissed` and
`QuietViewIsCurrent`, for all numbers of runs, events and requests in flight and every set of
scenarios (`RunViewAssumption`, `NoneAssumption`: "no run" is no run, null is no object, and
there may be an event). Three things make the invariant `IInv` inductive beyond these properties. The types of rows and logs
(`BackendTyped`) bound what an answer can carry, and a log never becomes shorter, so that a
position stays within it. `StreamIsOfSelection` makes the stream that a late selection opens
the selected run's. `CalmSound` says what it means that selections do not overlap: at most
one is in flight, it is of the selected run, and nothing is streamed until it ends. That is
why a delivered selection replaces the shown events at position 0 and loses none; without
it, a second selection's list would replace events the stream has already counted. There is
a lemma per action; `AppendsTyped`, `AsksKeeps`, `ViewKept` and `CallStepIInv` serve several.

`QuietViewIsCurrent` says nothing while anything is under way; `ViewSound` does: the row of
the streamed run is shown, or the event that changed it is still to be received, or a request
is in flight that will show it as that event left it. An appended event is beyond every
position (`RowsAhead`), receiving it makes the request (`RowsTell`: a row never names an event
that changed nothing), and no answer is newer than the run (`AnswersSound`), so that one shown
in place of the newest is older, which marks the view as `stale`.

`RuntimeSlotsProofs` proves `SlotsTypeOK` and `StatusTellsTheProcess` for all slots, models,
clients, ticks and bounds (`SlotsAssumption`; the supervisor's slot list is not empty). A
stop, a status read and the watcher take no lock, so the invariant `SlotsIInv` says what a
launch may still rely on between two of its steps: a lock is held by a launch in its slot,
and a process in a locked slot, if a stop has not removed it, is the launch's own
(`LocksSound`); a request that launches holds its lock (`CallsSound`); outside a launch a
process is the one its slot's status names, or the status is an error. `TickSound` is what a
tick of the supervisor works from: it has slots left, none twice, and has read those it
judges. The lemmas are about steps that any actor may make (`ActorStep`), so that
`ChatSendProofs`, which extends the module, gets the slots' half of its invariant from one
lemma.

`ChatSendProofs` proves every safety property of the run `chat_runtime`: `TypeOK`,
`StatusTellsTheProcess`, `FreeWhenDone`, `CancelReachesTheRun` and the action property
`HistoryWrittenOnce`, for any number of sends. `FreeWhenDone` speaks of states without a
send under way; what makes it inductive is that each of the three things a send takes has
somebody who will give it back. `BusyHeld`: if the chat is busy, some send is at a place
that leads to the end, or is done with its timer armed. `StreamHeld` and `ActiveHeld` say the
same of the stream and of the unfinished run, if a send has made it (`own`); it need not be
the send that took it, as two sends may have passed the guard. `SendSound` keeps the timer
armed, and the controller in the map, while a send works and is not aborted: that is
`CancelReachesTheRun`, whichever run with its id is shown. `RunIsNew`, `RunHasBegun` and
`HistoryBehind` are the reason why an archive never meets an entry: the shown run, unless it
was made anew, is not in the history, and a run that is shown or archived has left its
prelude. `CardsInv` says the same of the runs on cards, from which runs are made anew.

`AgentTurnProofs` proves every safety property of the run `agent_turn`: `TypeOK` (with the
budgets), `ApprovalsAnswerable`, `CompletedMeansActed`, `QuestionOnDisk`,
`AnswerNotDiverted` and the action property `NothingStartsAfterTheEnd`, for any number of
runs, workspaces, offers of tools and budgets (`AgentTurnAssumption`, and `NoneAssumption`:
"no request" and "no result" are none). `ApprovalsAnswerable` relates the list, the promises
and the executor; that the user can still decide needs that the run behind a request is the
session's (`SessionInv`: a run that is not aborted has the current workspace as root), and
that a run waits where its request says (`DirectAsking`, `BridgedAsking`: behind a bridge the
outer request goes on, awaited or timed out). `RequestsCounted` says that no call's number is
used before it is counted, so that a call's requests are new. `RehydratedLeft` says of the
question read from disk that its run has left the session; together with `QuestionBegun`
(only runs that began have a question on disk) and the abort that comes before every read of
the file, that is `AnswerNotDiverted`. `QuestionOnDisk` is inductive because the abort signal
and the root of a run never change while it waits (`Goes`). There is a lemma per action or
group of actions; `OnTheWay`, `RequestsApart`, `AskingShrinks` and `FileWritten` serve
several. All invariants `IInv` were also model-checked on the instances of their runs.

`PatchApplyProofs` and `PatchRestoreProofs` prove every safety property of the run
`patch_apply` but one, and the refinement, for all finite sets of files and calls, all
proposals, contents and bounds. What they assume of the constants is what the code sees to:
a proposal changes no file twice and deletes exactly where it has no content
(`ChangesAssumption`, from `validateProposal`), and the cleanup keeps more points than a
patch has changes (`KeptPointsAssumption`: 60 and 8). Four invariants stand on each other:

- `Approvals`: the types, with what a call holds at each of its places (`CallGood`), and
  `HeldApproved`: an apply that still holds its proposal has one that is approved as it is.
  Only a second preview takes an approval away, and it makes the call lose its proposal; so
  `ApprovalIsCurrent` holds however calls overlap.
- `Calm`, while calls come one at a time: the index is in order, and `PointListed` says at
  each place of a call how far behind the front of the index its restore point is: one
  entry for each change made so far. That the cleanup keeps more entries than a patch has
  changes is then why it never takes the point (`OldContentKept`). The invariant holds
  through a crash between emptying the index and filling it, because the next call then
  begins with an empty index, and through the repairs, which sort what they find.
- `ListedSound`, if nothing fails besides: what the call holds in memory and will write last
  is the complete list of the points on disk (`IndexListsPoints`).
- `FileSound`, if nothing is cut off: the files are what the call has made of those it found
  (`Halfway`: the first changes of the patch are made, the others are not), and during a
  rollback every file is either old again or still in `saved`.

The refinement then goes step by step (`TransactionStep`): an indexing step and a change
in the middle show nothing, as the files shown are those from before the call; the end of an
apply is `Commit`, because `Halfway` of all changes is `Patched`; the end of its rollback is
`Abort`, because nothing is left in `saved`; a step that disturbs another call, or cuts one
off, is `Disturbed`. `RequestIs`, `GoingOn` and the lemmas `...Moves` say once what each
operation makes of its call and are used by all four. `Only`, the filter of an index, is a
recursive function; what it computes is proved by a smallest counterexample. `Calm` was
also model-checked on the instance of the run `patch_apply`, `ViewSound` on that of `run_view`.

Only model-checked: all liveness properties (liveness under fairness and ENABLED are out
of the prover's reach), and `PointInUseStays`, whose bound counts how
often calls that overlap can list one point: an invariant for it would have to follow every
copy of the index that is in some call's memory. The findings are counterexamples of TLC.

## 6. Not modelled

The components with status `not_modelled` in `PROJECT.json`, and of the modelled ones:

- Spooler and runs: payloads, messages, scores, timestamps other than leases, the HTTP
  layer, SQLite itself (a transaction is atomic and fails as a whole; WAL readers see
  committed states), the content of the manifest and its backups, two worker threads at once
  (possible when two first requests race in `get_agent_workbench_service`), and follow-ups
  as rows.
- Run view: the list of runs, review gates, follow-ups, pages of more than 500 events (the
  stream sends them again from the start), and an `EventSource` that cannot be made.
- Patches: the settings' own backups (`backupService.ts`), path and size checks beyond a
  refusal, the diff itself.
- Agent turn: takeover approvals, `apply_patch`, `agentLoop.ts`, the workflow resolver.
- Slots: the exclusion of the two GPU slots, `vision_gpu`, two slots bound to one process,
  residency and eviction under memory pressure, the retry with fewer layers, simulation.
- Chat: what messages say, the choice of the model, the vision pre-step's own start of a
  slot, the resident fallback. And the copies of the chat that `runtimeChatSync.ts` makes:
  it keeps `messages`, `isSending` and `error` in `localStorage` and writes them into the
  store at start-up (line 66) and when the detached chat window, whose store, supervisor and
  idle watcher are its own, changes them (line 113). A program that ends during a send so
  begins with a chat that is busy with nobody's send, until the user cancels or clears it;
  `FreeWhenDone` and `BusyEnds` are about one window that began with nothing persisted.
- The desktop's job executor and workspace lock (`jobExecutorService.ts`,
  `jobWorkspaceLock.ts`, `workspaceLockService.ts`) are started by tests only, and the jobs
  the application enqueues carry no workspace root, so that the lock would never be taken.
- Host actions and file changes: approval, creation of the host action and `mark_applied`
  have no caller outside the tests, and the desktop's executor reads the answer of
  `/host-actions/next` without its `action` envelope (`agentWorkbenchService.ts:422`,
  `router.py:400`), so that it never gets past the claim. A model would be of a protocol
  that does not run yet.

## 7. Plan

Proofs first: `PointInUseStays`, with the copies of the index in the calls' memory.

Then, as models:

1. Runtime slots with shared bindings and residency; abstract specification: a set of
   running slots with the two GPU slots never together.
2. `HostActions` when the executor's protocol runs: each action executed at most once, one
   at a time.
3. Extensions of `AgentRun`: two workers, follow-ups, edits with identity (what the second
   write of an accepted baseline takes in).
