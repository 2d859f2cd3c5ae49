------------------------------ MODULE AgentRun ------------------------------
(* The life of agent runs in the backend's agent workbench                     *)
(* (backend/app/agent_workbench: service.py, worker.py, state_machine.py,      *)
(* repository.py, task_manifest.py): a run is created, gets a plan of steps,   *)
(* is started, paused, resumed and cancelled through the HTTP API, while one   *)
(* background worker executes its steps; a backend restart recovers it.        *)
(*                                                                             *)
(* Every service method reads the run on one connection, validates the         *)
(* transition against what it read, and then writes the new status             *)
(* unconditionally on a second connection.  Read and write are two steps here, *)
(* and the API threads, the worker, the user's editor and a restart come in    *)
(* between.  The reads a method makes before its first write are one step      *)
(* unless a later read can contradict an earlier one.                          *)
(*                                                                             *)
(* Simplifications.  A step is identified by its plan and its ordinal, as the  *)
(* step ids of a replaced plan never come back.  What a step does (the runtime *)
(* check, the model turn, the tool) is a nondeterministic outcome.  Of the     *)
(* task manifest only its relation to the workspace is kept.  Events, pause    *)
(* reasons, error texts and timestamps are left out.                           *)
EXTENDS Naturals, FiniteSets

CONSTANTS
    ListLimit,   \* list_runs(limit=20): the newest runs, among which the worker looks
    MaxRuns,     \* bound: number of runs ever created
    MaxOrdinal,  \* bound: longest plan, and largest max_steps of a run
    MaxPlans,    \* bound: number of plans a run gets in its life
    MaxRestarts, \* bound: backend restarts
    MaxFailures, \* bound: transactions of the worker or of a recovery that fail
    Requests,    \* API threads that may be in flight at once
    None         \* no run, no step

ASSUME BoundsAssumption ==
    /\ ListLimit \in Nat \ {0}
    /\ MaxRuns \in Nat \ {0}
    /\ MaxOrdinal \in Nat \ {0}
    /\ MaxPlans \in Nat
    /\ MaxRestarts \in Nat
    /\ MaxFailures \in Nat

ASSUME NoneAssumption == None \notin Nat

VARIABLES
    status,      \* agent_runs.status; "absent" before the run is created
    maxSteps,    \* agent_runs.max_steps
    plan,        \* how many plans the run has had
    steps,       \* agent_steps.status by ordinal; "none" beyond the plan's end
    attempts,    \* agent_steps.attempt_count by ordinal
    manifest,    \* task.json against the workspace
    request,     \* what each API thread has read and not yet written
    worker,      \* the worker thread
    restarts,    \* backend restarts so far
    failures     \* failed transactions of the worker and of recoveries so far

rows == <<status, maxSteps, plan, steps, attempts>>
faults == <<restarts, failures>>
vars == <<rows, manifest, request, worker, faults>>

-----------------------------------------------------------------------------
(* Types *)

Runs == 1..MaxRuns
Ordinals == 1..MaxOrdinal

RunStatuses == {"created", "planning", "waiting_plan_review", "ready", "running",
                "waiting_review", "paused", "paused_recovery",
                "migration_review_required", "workspace_review_required",
                "failed", "retrying", "completed", "cancelled"}

StepStatuses == {"pending", "active", "waiting_review", "completed", "failed",
                 "retrying", "skipped", "rejected"}

(* RUN_TRANSITIONS *)
RunTransitions ==
    [created |-> {"planning", "cancelled"},
     planning |-> {"waiting_plan_review", "ready", "failed", "cancelled", "paused"},
     waiting_plan_review |-> {"ready", "planning", "cancelled", "paused"},
     ready |-> {"running", "cancelled", "paused", "planning"},
     running |-> {"waiting_review", "completed", "paused", "cancelled", "failed"},
     waiting_review |-> {"running", "completed", "cancelled", "failed", "paused"},
     paused |-> {"running", "cancelled", "failed", "planning",
                 "migration_review_required", "workspace_review_required"},
     paused_recovery |-> {"running", "cancelled", "failed", "planning",
                          "migration_review_required", "workspace_review_required"},
     migration_review_required |-> {"paused", "cancelled", "failed"},
     workspace_review_required |-> {"running", "paused", "cancelled", "failed"},
     failed |-> {"retrying", "cancelled"},
     retrying |-> {"running", "failed", "cancelled"},
     completed |-> {},
     cancelled |-> {}]

(* STEP_TRANSITIONS *)
StepTransitions ==
    [pending |-> {"active", "skipped"},
     active |-> {"waiting_review", "completed", "failed"},
     waiting_review |-> {"active", "rejected", "completed"},
     failed |-> {"retrying"},
     retrying |-> {"active", "failed"},
     completed |-> {},
     skipped |-> {},
     rejected |-> {}]

(* validate_run_transition, validate_step_transition *)
RunMay(from, to) == from \in RunStatuses /\ to \in RunTransitions[from]
StepMay(from, to) == from \in StepStatuses /\ to \in StepTransitions[from]

(* The manifest's hashes and the workspace: no task.json, equal, different. *)
Manifests == {"missing", "current", "drifted"}

(* What an API thread still has to write: a status, a plan of "length" steps   *)
(* (started afterwards when "auto"), or a new baseline in place of "saved".    *)
RequestOps == {"idle", "transition", "plan", "accept", "accepted", "refresh"}

RequestType == [op: RequestOps, run: Runs \cup {None}, set: RunStatuses \cup {None},
                length: 0..MaxOrdinal, auto: BOOLEAN, saved: Manifests]

NoRequest == [op |-> "idle", run |-> None, set |-> None, length |-> 0, auto |-> FALSE,
              saved |-> "missing"]

(* The worker: where it is in _execute_run, the run and the plan of its        *)
(* snapshot, the steps that were pending in it, the completed count, the step  *)
(* at hand, and the status it is about to write.                               *)
WorkerPlaces == {"idle", "snapshot", "loop", "activate", "activating", "begin", "executing",
                 "complete", "completing", "completed", "fail", "failing",
                 "failRun", "timeout", "timingOut", "pauseRun", "finish", "completeRun",
                 "writeRun"}

WorkerType == [pc: WorkerPlaces, run: Runs \cup {None}, plan: 0..MaxPlans,
               pending: SUBSET Ordinals, done: Nat,
               step: Ordinals \cup {None}, set: RunStatuses \cup {None}]

IdleWorker == [pc |-> "idle", run |-> None, plan |-> 0, pending |-> {}, done |-> 0,
               step |-> None, set |-> None]

(* One type invariant for the tables, the manifest and the threads. *)
TypeOK ==
    /\ status \in [Runs -> RunStatuses \cup {"absent"}]
    /\ maxSteps \in [Runs -> Ordinals]
    /\ plan \in [Runs -> 0..MaxPlans]
    /\ steps \in [Runs -> [Ordinals -> StepStatuses \cup {"none"}]]
    /\ attempts \in [Runs -> [Ordinals -> Nat]]
    /\ manifest \in [Runs -> Manifests]
    /\ request \in [Requests -> RequestType]
    /\ worker \in WorkerType
    /\ restarts \in 0..MaxRestarts
    /\ failures \in 0..MaxFailures

Init ==
    /\ status = [r \in Runs |-> "absent"]
    /\ maxSteps = [r \in Runs |-> 1]
    /\ plan = [r \in Runs |-> 0]
    /\ steps = [r \in Runs |-> [k \in Ordinals |-> "none"]]
    /\ attempts = [r \in Runs |-> [k \in Ordinals |-> 0]]
    /\ manifest = [r \in Runs |-> "missing"]
    /\ request = [q \in Requests |-> NoRequest]
    /\ worker = IdleWorker
    /\ restarts = 0
    /\ failures = 0

Count(r, s) == Cardinality({k \in Ordinals : steps[r][k] = s})

(* Mutant of ActiveSteps: the query asks for a status no step ever has. *)
ActiveStepsMisnamed(r) == {k \in Ordinals : steps[r][k] = "running"}

(* count_active_steps *)
ActiveSteps(r) == {k \in Ordinals : steps[r][k] = "active"}

-----------------------------------------------------------------------------
(* API threads: create, and the reads of every other operation *)

(* create_run: the row, its first event and its manifest; runs are numbered in *)
(* the order of their creation.                                                *)
CreateRun(r, limit) ==
    /\ status[r] = "absent"
    /\ \A s \in Runs : s < r => status[s] # "absent"
    /\ status' = [status EXCEPT ![r] = "created"]
    /\ maxSteps' = [maxSteps EXCEPT ![r] = limit]
    /\ manifest' = [manifest EXCEPT ![r] = "current"]
    /\ UNCHANGED <<plan, steps, attempts, request, worker, faults>>

(* The thread has read and validated; it will write r's new status. *)
Intend(q, r, to) ==
    request' = [request EXCEPT ![q] =
                    [NoRequest EXCEPT !.op = "transition", !.run = r, !.set = to]]

Reads(q) ==
    /\ request[q] = NoRequest
    /\ UNCHANGED <<rows, worker, faults>>

(* start_run needs a plan and a valid transition. *)
MayStart(r) == steps[r][1] # "none" /\ RunMay(status[r], "running")

StartRead(q, r) ==
    /\ Reads(q)
    /\ MayStart(r)
    /\ Intend(q, r, "running")
    /\ UNCHANGED manifest

PauseRead(q, r) ==
    /\ Reads(q)
    /\ RunMay(status[r], "paused")
    /\ Intend(q, r, "paused")
    /\ UNCHANGED manifest

CancelRead(q, r) ==
    /\ Reads(q)
    /\ RunMay(status[r], "cancelled")
    /\ Intend(q, r, "cancelled")
    /\ UNCHANGED manifest

(* resume_run: a missing manifest asks for a migration review, a workspace     *)
(* that differs from it for a workspace review; only otherwise the run         *)
(* resumes.  The two review cases answer with an error after their write.      *)
ResumeRead(q, r) ==
    /\ Reads(q)
    /\ \/ /\ manifest[r] = "missing"
          /\ status[r] \in {"paused", "paused_recovery"}
          /\ Intend(q, r, "migration_review_required")
       \/ /\ manifest[r] = "drifted"
          /\ status[r] \in {"paused", "paused_recovery"}
          /\ Intend(q, r, "workspace_review_required")
       \/ /\ manifest[r] = "current"
          /\ status[r] # "workspace_review_required"
          /\ RunMay(status[r], "running")
          /\ Intend(q, r, "running")
    /\ UNCHANGED manifest

(* set_plan, also behind auto_plan and apply_followup_plan.  It admits only    *)
(* some statuses, and validates the transition to "planning" besides.          *)
PlanRead(q, r, length, auto) ==
    /\ Reads(q)
    /\ status[r] \in {"created", "planning", "waiting_plan_review", "ready",
                      "paused", "paused_recovery"}
    /\ RunMay(status[r], "planning")
    /\ plan[r] < MaxPlans
    /\ request' = [request EXCEPT ![q] =
                       [NoRequest EXCEPT !.op = "plan", !.run = r, !.set = "ready",
                                         !.length = length, !.auto = auto]]
    /\ UNCHANGED manifest

(* accept_workspace_changes and accept_resume_baseline go on to make the       *)
(* workspace the new baseline.                                                 *)
AcceptRead(q, r) ==
    /\ Reads(q)
    /\ \/ /\ status[r] \in {"paused", "paused_recovery", "workspace_review_required"}
          /\ manifest[r] # "current" \/ status[r] = "workspace_review_required"
       \/ status[r] = "migration_review_required"
    /\ request' = [request EXCEPT ![q] =
                       [NoRequest EXCEPT !.op = "accept", !.run = r, !.set = "paused",
                                         !.saved = IF status[r] = "migration_review_required"
                                                   THEN "missing" ELSE manifest[r]]]
    /\ UNCHANGED manifest

-----------------------------------------------------------------------------
(* API threads: the writes *)

Finished(q) == request' = [request EXCEPT ![q] = NoRequest]

(* transition_run_with_event: the status is written whatever it is by now. *)
TransitionWrite(q) ==
    LET p == request[q] IN
    /\ p.op = "transition"
    /\ status' = [status EXCEPT ![p.run] = p.set]
    /\ Finished(q)
    /\ UNCHANGED <<maxSteps, plan, steps, attempts, manifest, worker, faults>>

(* The transaction of set_plan: the old steps go, the new ones are pending,    *)
(* and the run passes through "planning" to "ready"; with it the manifest.     *)
PlanWrite(q) ==
    LET p == request[q]
        new == [k \in Ordinals |-> IF k <= p.length THEN "pending" ELSE "none"]
    IN
    /\ p.op = "plan"
    /\ plan[p.run] < MaxPlans
    /\ plan' = [plan EXCEPT ![p.run] = @ + 1]
    /\ steps' = [steps EXCEPT ![p.run] = new]
    /\ attempts' = [attempts EXCEPT ![p.run] = [k \in Ordinals |-> 0]]
    /\ status' = [status EXCEPT ![p.run] = p.set]
    /\ manifest' = [manifest EXCEPT ![p.run] = "current"]
    /\ request' = [request EXCEPT ![q].op = "refresh"]
    /\ UNCHANGED <<maxSteps, worker, faults>>

(* The accepted workspace becomes the baseline before the status says so. *)
AcceptBaseline(q) ==
    LET p == request[q] IN
    /\ p.op = "accept"
    /\ manifest' = [manifest EXCEPT ![p.run] = "current"]
    /\ request' = [request EXCEPT ![q].op = "accepted"]
    /\ UNCHANGED <<rows, worker, faults>>

AcceptWrite(q) ==
    LET p == request[q] IN
    /\ p.op = "accepted"
    /\ status' = [status EXCEPT ![p.run] = p.set]
    /\ request' = [request EXCEPT ![q].op = "refresh"]
    /\ UNCHANGED <<maxSteps, plan, steps, attempts, manifest, worker, faults>>

(* After its commit set_plan or an acceptance writes the manifest once more;   *)
(* set_plan with auto_start then goes through start_run, with reads of its own *)
Refresh(q) ==
    LET p == request[q] IN
    /\ p.op = "refresh"
    /\ manifest' = [manifest EXCEPT ![p.run] = "current"]
    /\ IF p.auto /\ MayStart(p.run) THEN Intend(q, p.run, "running") ELSE Finished(q)
    /\ UNCHANGED <<rows, worker, faults>>

(* The database stays locked: the transaction is rolled back and an accepted   *)
(* baseline is put back.                                                       *)
RequestFails(q) ==
    LET p == request[q] IN
    /\ p.op \in {"transition", "plan", "accepted"}
    /\ manifest' = IF p.op = "accepted" /\ p.saved # "current"
                   THEN [manifest EXCEPT ![p.run] = p.saved] ELSE manifest
    /\ Finished(q)
    /\ UNCHANGED <<rows, worker, faults>>

-----------------------------------------------------------------------------
(* The worker thread: _process_runs, _execute_run, and the service methods it  *)
(* calls.  The record update Goto says where it goes on.                       *)

Goto(pc) == worker' = [worker EXCEPT !.pc = pc]

Rest == worker' = IdleWorker

WorkerOnly == UNCHANGED <<rows, manifest, request, faults>>

(* The steps of the worker's snapshot are still those of the database. *)
PlanStands == plan[worker.run] = worker.plan

StepStatus == steps[worker.run][worker.step]

(* The first running run of list_runs(limit=20), which has the newest runs of  *)
(* whatever status, newest first: a run behind that many newer ones is not     *)
(* looked at.                                                                  *)
Newer(r) == {s \in Runs : s > r /\ status[s] # "absent"}
NextRun(r) ==
    /\ status[r] = "running"
    /\ Cardinality(Newer(r)) < ListLimit
    /\ \A s \in Newer(r) : status[s] # "running"
WorkerPicks(r) ==
    /\ worker.pc = "idle"
    /\ NextRun(r)
    /\ worker' = [IdleWorker EXCEPT !.pc = "snapshot", !.run = r]
    /\ WorkerOnly

(* The pass works on the steps as they are listed now.  A run that has its     *)
(* max_steps completed steps is only completed.                                *)
WorkerLists ==
    LET r == worker.run  completed == Count(r, "completed") IN
    /\ worker.pc = "snapshot"
    /\ worker' = [worker EXCEPT
                     !.pc = IF completed >= maxSteps[r] THEN "completeRun" ELSE "loop",
                     !.plan = plan[r],
                     !.pending = {k \in Ordinals : steps[r][k] = "pending"},
                     !.done = completed]
    /\ WorkerOnly

(* Mutant of NextInPlan: ORDER BY ordinal DESC. *)
LastInPlan(k) == \A l \in worker.pending : k >= l

(* ORDER BY ordinal *)
NextInPlan(k) == \A l \in worker.pending : k <= l

(* The head of the loop: the run's status and the active steps are looked up   *)
(* for the next step that was pending in the snapshot.  Statuses other than    *)
(* these five do not stop the worker.                                          *)
WorkerLoops ==
    /\ worker.pc = "loop"
    /\ IF worker.pending = {}
       THEN Goto("finish")
       ELSE IF \/ status[worker.run] \in {"paused", "cancelled", "failed", "completed",
                                         "paused_recovery"}
               \/ ActiveSteps(worker.run) # {}
       THEN Rest
       ELSE \E k \in worker.pending :
               /\ NextInPlan(k)
               /\ worker' = [worker EXCEPT !.pc = "activate", !.step = k,
                                           !.pending = @ \ {k}]
    /\ WorkerOnly

(* Mutant of ActivateRead: the run is not read before it is written back. *)
ActivateUnread ==
    /\ worker.pc = "activate"
    /\ IF /\ PlanStands
          /\ ActiveSteps(worker.run) \subseteq {worker.step}
          /\ StepMay(StepStatus, "active")
       THEN Goto("activating")
       ELSE Rest
    /\ WorkerOnly

(* activate_step reads run and step; a replaced step, another active step or   *)
(* an invalid transition is an error, and the worker gives up for this pass.   *)
ActivateRead ==
    /\ worker.pc = "activate"
    /\ IF /\ PlanStands
          /\ ActiveSteps(worker.run) \subseteq {worker.step}
          /\ StepMay(StepStatus, "active")
       THEN worker' = [worker EXCEPT !.pc = "activating", !.set = status[worker.run]]
       ELSE Rest
    /\ WorkerOnly

(* Its transaction makes the step active and writes the run's status back as   *)
(* it was read, to store current_step_id.  Rows of a replaced plan are gone.   *)
ActivateWrite ==
    LET r == worker.run  k == worker.step IN
    /\ worker.pc = "activating"
    /\ steps' = IF PlanStands THEN [steps EXCEPT ![r][k] = "active"] ELSE steps
    /\ attempts' = IF PlanStands THEN [attempts EXCEPT ![r][k] = @ + 1] ELSE attempts
    /\ status' = [status EXCEPT ![r] = worker.set]
    /\ worker' = [worker EXCEPT !.pc = "begin", !.set = None]
    /\ UNCHANGED <<maxSteps, plan, manifest, request, faults>>

(* Mutant of StepBegins: a cancelled run ends the pass without failing the step *)
StepBeginsQuietly ==
    /\ worker.pc = "begin"
    /\ IF PlanStands /\ status[worker.run] = "cancelled"
       THEN Rest
       ELSE Goto(IF PlanStands THEN "executing" ELSE "complete")
    /\ WorkerOnly

(* _run_step: nothing to do for a replaced step, an error for a cancelled run. *)
StepBegins ==
    /\ worker.pc = "begin"
    /\ Goto(IF ~PlanStands THEN "complete"
            ELSE IF status[worker.run] = "cancelled" THEN "fail"
            ELSE "executing")
    /\ WorkerOnly

(* The step's work succeeds, raises an error or exceeds its 30 seconds. *)
StepEnds ==
    /\ worker.pc = "executing"
    /\ \E outcome \in {"complete", "fail", "timeout"} : Goto(outcome)
    /\ WorkerOnly

(* complete_step and fail_step read the step; an unknown step or an invalid    *)
(* transition is an error that ends the pass.                                  *)
StepRead(pc, next, to) ==
    /\ worker.pc = pc
    /\ IF PlanStands /\ StepMay(StepStatus, to) THEN Goto(next) ELSE Rest
    /\ WorkerOnly

StepWrite(pc, next, to) ==
    LET r == worker.run  k == worker.step IN
    /\ worker.pc = pc
    /\ steps' = IF PlanStands THEN [steps EXCEPT ![r][k] = to] ELSE steps
    /\ Goto(next)
    /\ UNCHANGED <<status, maxSteps, plan, attempts, manifest, request, faults>>

CompleteStepRead == StepRead("complete", "completing", "completed")
CompleteStepWrite == StepWrite("completing", "completed", "completed")
FailStepRead == StepRead("fail", "failing", "failed")
FailStepWrite == StepWrite("failing", "failRun", "failed")
TimeoutStepRead == StepRead("timeout", "timingOut", "failed")
TimeoutStepWrite == StepWrite("timingOut", "pauseRun", "failed")

(* Mutant of StepCompleted: max_steps is compared off by one. *)
StepCompletedOneMore ==
    /\ worker.pc = "completed"
    /\ IF status[worker.run] = "paused"
       THEN Rest
       ELSE worker' = [worker EXCEPT
                         !.done = @ + 1,
                         !.step = None,
                         !.pc = IF worker.done + 1 > maxSteps[worker.run]
                                THEN "finish" ELSE "loop"]
    /\ WorkerOnly

(* After a completed step only a paused run ends the pass. *)
StepCompleted ==
    /\ worker.pc = "completed"
    /\ IF status[worker.run] = "paused"
       THEN Rest
       ELSE worker' = [worker EXCEPT
                         !.done = @ + 1,
                         !.step = None,
                         !.pc = IF worker.done + 1 >= maxSteps[worker.run]
                                THEN "finish" ELSE "loop"]
    /\ WorkerOnly

(* Mutant of PassEnds: a run is complete only when all its steps are. *)
PassEndsStrictly ==
    /\ worker.pc = "finish"
    /\ IF /\ status[worker.run] = "running"
          /\ \A k \in Ordinals : steps[worker.run][k] \in {"completed", "none"}
       THEN Goto("completeRun") ELSE Rest
    /\ WorkerOnly

(* The end of the pass: a running run without pending steps is complete. *)
PassEnds ==
    /\ worker.pc = "finish"
    /\ IF status[worker.run] = "running" /\ Count(worker.run, "pending") = 0
       THEN Goto("completeRun") ELSE Rest
    /\ WorkerOnly

(* complete_run, fail_run and pause_run read the run; an invalid transition is *)
(* an error that ends the pass.                                                *)
RunRead(pc, to) ==
    /\ worker.pc = pc
    /\ IF RunMay(status[worker.run], to)
       THEN worker' = [worker EXCEPT !.pc = "writeRun", !.set = to]
       ELSE Rest
    /\ WorkerOnly

CompleteRunRead == RunRead("completeRun", "completed")
FailRunRead == RunRead("failRun", "failed")
PauseRunRead == RunRead("pauseRun", "paused")

RunWrite ==
    /\ worker.pc = "writeRun"
    /\ status' = [status EXCEPT ![worker.run] = worker.set]
    /\ Rest
    /\ UNCHANGED <<maxSteps, plan, steps, attempts, manifest, request, faults>>

(* A transaction of the worker is rolled back: the exception ends the pass. *)
WorkerFails ==
    /\ worker.pc \in {"activating", "completing", "failing", "timingOut", "writeRun"}
    /\ failures < MaxFailures
    /\ failures' = failures + 1
    /\ Rest
    /\ UNCHANGED <<rows, manifest, request, restarts>>

-----------------------------------------------------------------------------
(* The environment *)

(* Mutant of Restart: the recovery sets active steps back to pending. *)
RestartRepeating ==
    /\ restarts < MaxRestarts
    /\ restarts' = restarts + 1
    /\ status' = [r \in Runs |-> IF status[r] = "running" THEN "paused_recovery"
                                 ELSE status[r]]
    /\ steps' = [r \in Runs |-> [k \in Ordinals |-> IF steps[r][k] = "active"
                                                    THEN "pending" ELSE steps[r][k]]]
    /\ request' = [q \in Requests |-> NoRequest]
    /\ worker' = IdleWorker
    /\ UNCHANGED <<maxSteps, plan, attempts, manifest, failures>>

(* The backend stops at any point and starts again: all threads are gone, and  *)
(* recover_on_startup pauses the runs that were running, except those whose    *)
(* transaction fails, before the new worker starts.  Steps stay as they are.   *)
Restart ==
    /\ restarts < MaxRestarts
    /\ restarts' = restarts + 1
    /\ \E lost \in SUBSET {r \in Runs : status[r] = "running"} :
          /\ failures + Cardinality(lost) <= MaxFailures
          /\ failures' = failures + Cardinality(lost)
          /\ status' = [r \in Runs |-> IF status[r] = "running" /\ r \notin lost
                                       THEN "paused_recovery" ELSE status[r]]
    /\ request' = [q \in Requests |-> NoRequest]
    /\ worker' = IdleWorker
    /\ UNCHANGED <<maxSteps, plan, steps, attempts, manifest>>

(* Someone edits the workspace, or undoes the edits. *)
EditWorkspace(r) ==
    /\ manifest[r] # "missing"
    /\ manifest' = [manifest EXCEPT ![r] = IF @ = "current" THEN "drifted" ELSE "current"]
    /\ UNCHANGED <<rows, request, worker, faults>>

(* Someone deletes .codee/tasks from the workspace. *)
LoseManifest(r) ==
    /\ manifest[r] # "missing"
    /\ manifest' = [manifest EXCEPT ![r] = "missing"]
    /\ UNCHANGED <<rows, request, worker, faults>>

(* complete_host_action for an applied patch or a refresh: the workspace as it *)
(* is becomes the baseline.                                                    *)
HostActionCompleted(r) ==
    /\ status[r] # "absent"
    /\ manifest' = [manifest EXCEPT ![r] = "current"]
    /\ UNCHANGED <<rows, request, worker, faults>>

-----------------------------------------------------------------------------
RequestReads(q) ==
    \E r \in Runs :
        \/ StartRead(q, r)
        \/ PauseRead(q, r)
        \/ CancelRead(q, r)
        \/ ResumeRead(q, r)
        \/ \E n \in Ordinals, auto \in BOOLEAN : PlanRead(q, r, n, auto)
        \/ AcceptRead(q, r)

RequestWrites(q) ==
    \/ TransitionWrite(q)
    \/ PlanWrite(q)
    \/ AcceptBaseline(q)
    \/ AcceptWrite(q)
    \/ Refresh(q)
    \/ RequestFails(q)

WorkerSteps ==
    \/ \E r \in Runs : WorkerPicks(r)
    \/ WorkerLists
    \/ WorkerLoops
    \/ ActivateRead
    \/ ActivateWrite
    \/ StepBegins
    \/ StepEnds
    \/ CompleteStepRead
    \/ CompleteStepWrite
    \/ FailStepRead
    \/ FailStepWrite
    \/ TimeoutStepRead
    \/ TimeoutStepWrite
    \/ StepCompleted
    \/ PassEnds
    \/ CompleteRunRead
    \/ FailRunRead
    \/ PauseRunRead
    \/ RunWrite

Environment ==
    \E r \in Runs : EditWorkspace(r) \/ LoseManifest(r) \/ HostActionCompleted(r)

Next ==
    \/ \E r \in Runs, limit \in Ordinals : CreateRun(r, limit)
    \/ \E q \in Requests : RequestReads(q) \/ RequestWrites(q)
    \/ WorkerSteps
    \/ WorkerFails
    \/ Restart
    \/ Environment

Spec == Init /\ [][Next]_vars

(* The worker thread polls every quarter second and is never blocked for good. *)
(* Nothing is assumed of users and API threads.                                *)
FairSpec == Spec /\ WF_vars(WorkerSteps)

-----------------------------------------------------------------------------
(* Properties *)

(* A run has at most one active step, also after restarts and failed           *)
(* transactions have left an active step behind ("Ein Run darf hoechstens      *)
(* einen active Step besitzen"; count_active_steps, asked twice).              *)
AtMostOneActiveStep ==
    \A r \in Runs : \A k, l \in Ordinals :
        steps[r][k] = "active" /\ steps[r][l] = "active" => k = l

(* No step of a plan is started twice, whatever is paused, resumed, restarted  *)
(* or rolled back: its tool call and its host action are never repeated.       *)
StepRunsAtMostOnce == \A r \in Runs, k \in Ordinals : attempts[r][k] <= 1

(* Steps are started in the order of the plan: once a step has been started,   *)
(* all the steps before it have been (the worker's loop over list_steps).      *)
StepsInOrder ==
    \A r \in Runs : \A k, l \in Ordinals :
        l < k /\ steps[r][k] \notin {"none", "pending"} => steps[r][l] # "pending"

(* No plan gets more steps completed than the run's max_steps, over any number *)
(* of passes of the worker.                                                    *)
StepBudgetKept == \A r \in Runs : Count(r, "completed") <= maxSteps[r]

(* No restart and no failed transaction so far. *)
Smooth == restarts = 0 /\ failures = 0

(* As long as no transaction failed and the backend was not restarted, an      *)
(* active step is the one the worker has at hand: cancelling, pausing or       *)
(* replanning a run never leaves a step behind that nobody will finish.        *)
ActiveStepSupervised ==
    Smooth => \A r \in Runs, k \in Ordinals : steps[r][k] = "active" =>
                  worker.run = r /\ worker.step = k /\ worker.plan = plan[r]

(* The run whose turn it is does not stay so for ever: it completes, fails, is *)
(* paused, cancelled or replanned, or loses its turn to a newer run, unless    *)
(* there is a restart or a failed transaction.  This covers timed-out steps,   *)
(* which later passes skip, and plans longer than max_steps (_execute_run).    *)
(* Nothing is promised to a running run behind newer running ones, or behind   *)
(* ListLimit newer ones that may all be over.                                  *)
RunningRunSettles ==
    \A r \in Runs : (NextRun(r) /\ Smooth) ~> (~NextRun(r) \/ ~Smooth)

(* "Nicht erlaubte Uebergaenge muessen HTTP 409 liefern", and the transitions  *)
(* allowed from "cancelled" and "completed" are none (state_machine.py): a run *)
(* that is over stays so.  Not so: activate_step writes back the status it     *)
(* read before the run was cancelled, and the run goes on.                     *)
OverIsOver ==
    [][\A r \in Runs : status[r] \in {"completed", "cancelled"} => status'[r] = status[r]]_vars

(* "paused_recovery -> resume": a run that was recovered after a restart and   *)
(* is resumed by the user goes on and sooner or later leaves "running".  Not   *)
(* so when the restart hit an active step: the worker gives up on every pass   *)
(* because of it, and nothing ever ends that step.                             *)
ResumedRunGoesOn == \A r \in Runs : status[r] = "running" ~> status[r] # "running"

(* "workspace_changed: explicit workspace approval required" (resume_run): out *)
(* of workspace_review_required there is no way to "running" that does not     *)
(* pass through the acceptance, which leaves the run paused.  Not so:          *)
(* start_run does not look at the review.                                      *)
WorkspaceReviewHolds ==
    [][\A r \in Runs :
          status[r] = "workspace_review_required" => status'[r] # "running"]_vars
=============================================================================
