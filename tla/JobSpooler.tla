----------------------------- MODULE JobSpooler -----------------------------
(* The job spooler of the backend (backend/app/job_spooler/service.py): a      *)
(* SQLite table of jobs that workers claim under a lease, report on, verify    *)
(* and finish, and whose expired leases are requeued.                          *)
(*                                                                             *)
(* Every request runs on a thread of its own.  sqlite3 opens its implicit      *)
(* transaction at the first data-changing statement, so the SELECT on which a  *)
(* handler checks ownership and status is not part of the transaction that     *)
(* writes: each handler is a Read step (the checks) followed by a Write step   *)
(* (all of its UPDATEs and INSERTs, which commit or roll back together), and   *)
(* steps of other requests come in between.  Only claim_next_job reads inside  *)
(* BEGIN IMMEDIATE and is one step.                                            *)
(*                                                                             *)
(* Simplifications.  A column is a function on job ids; ids are handed out in  *)
(* creation order and, like the uuids of the code, never reused.  Wall-clock   *)
(* leases are "none" (NULL), "live" (in the future) or "expired" (in the       *)
(* past).  Payloads, messages, scores and timestamps other than the lease are  *)
(* left out.  Of the child tables only what the properties tell apart is kept: *)
(* who posted events (claim events apart), who verified, and whether there are *)
(* artifacts.                                                                  *)
EXTENDS Naturals, FiniteSets

CONSTANTS
    MaxJobs,      \* bound: number of jobs ever enqueued
    MaxTries,     \* bound: largest max_attempts (1..10 in JobEnqueueRequest)
    MaxPriority,  \* bound: largest priority (1..5 in JobEnqueueRequest)
    Workers,      \* worker ids
    Roles,        \* agent roles
    Requests,     \* threads that may be serving a request at once
    Poller,       \* the event stream, which lists the jobs every half second
    None          \* SQL NULL

ASSUME BoundsAssumption ==
    /\ MaxJobs \in Nat \ {0}
    /\ MaxTries \in Nat \ {0}
    /\ MaxPriority \in Nat \ {0}

ASSUME NoneAssumption == None \notin Workers \cup Roles \cup {"queued", "completed", "failed"}

VARIABLES
    nextId,         \* the id the next enqueued job gets
    exists,         \* ids of the rows of table jobs
    status,
    assignedWorker,
    attempts,       \* attempt_count
    maxAttempts,
    lease,          \* lease_expires_at
    role,           \* assigned_agent_role
    priority,
    events,         \* rows of job_events, as <<kind, worker>> pairs
    artifacts,      \* jobs with rows in job_artifacts
    verifiers,      \* workers with rows in job_verifications
    pending         \* what each request thread has read and not yet written

columns == <<status, assignedWorker, attempts, lease>>
spec == <<maxAttempts, role, priority>>
children == <<events, artifacts, verifiers>>
vars == <<nextId, exists, columns, spec, children, pending>>

-----------------------------------------------------------------------------
(* Types *)

Jobs == 1..MaxJobs

Threads == Requests \cup {Poller}

Statuses == {"queued", "claimed", "running", "waiting_verification",
             "completed", "failed", "cancelled"}

ACTIVE_JOB_STATES == {"claimed", "running", "waiting_verification"}

Waypoints == {"submitted", "claimed", "assigned", "started", "progress",
              "checkpoint", "waiting_verification", "verification_passed",
              "verification_failed", "completed", "failed", "requeued"}

Leases == {"none", "live", "expired"}

EventKinds == {"claimed", "other"}

Ops == {"idle", "heartbeat", "waypoint", "artifact", "verify", "finish", "requeue"}

(* What a thread holds between its read and its write: the jobs it will        *)
(* write, on whose behalf, and the status it will set (None: none).            *)
Pending == [op: Ops, jobs: SUBSET Jobs, worker: Workers \cup {None},
            set: Statuses \cup {None}, kind: EventKinds]

Idle == [op |-> "idle", jobs |-> {}, worker |-> None, set |-> None, kind |-> "other"]

(* One type invariant for the table, its child tables and the threads. *)
TypeOK ==
    /\ nextId \in 1..(MaxJobs + 1)
    /\ exists \subseteq Jobs
    /\ status \in [Jobs -> Statuses]
    /\ assignedWorker \in [Jobs -> Workers \cup {None}]
    /\ attempts \in [Jobs -> 0..MaxTries]
    /\ maxAttempts \in [Jobs -> 1..MaxTries]
    /\ lease \in [Jobs -> Leases]
    /\ role \in [Jobs -> Roles \cup {None}]
    /\ priority \in [Jobs -> 1..MaxPriority]
    /\ events \in [Jobs -> SUBSET (EventKinds \X (Workers \cup {None}))]
    /\ artifacts \subseteq Jobs
    /\ verifiers \in [Jobs -> SUBSET Workers]
    /\ pending \in [Threads -> Pending]

Init ==
    /\ nextId = 1
    /\ exists = {}
    /\ status = [j \in Jobs |-> "queued"]
    /\ assignedWorker = [j \in Jobs |-> None]
    /\ attempts = [j \in Jobs |-> 0]
    /\ maxAttempts = [j \in Jobs |-> 1]
    /\ lease = [j \in Jobs |-> "none"]
    /\ role = [j \in Jobs |-> None]
    /\ priority = [j \in Jobs |-> 1]
    /\ events = [j \in Jobs |-> {}]
    /\ artifacts = {}
    /\ verifiers = [j \in Jobs |-> {}]
    /\ pending = [q \in Threads |-> Idle]

-----------------------------------------------------------------------------
(* Operations that are one transaction *)

(* enqueue_job: a queued row with no worker, no lease and no attempt yet, and  *)
(* its "submitted" event.  The columns of an unused id are at these defaults.  *)
Enqueue(m, r, p) ==
    /\ nextId \in Jobs
    /\ nextId' = nextId + 1
    /\ exists' = exists \cup {nextId}
    /\ maxAttempts' = [maxAttempts EXCEPT ![nextId] = m]
    /\ role' = [role EXCEPT ![nextId] = r]
    /\ priority' = [priority EXCEPT ![nextId] = p]
    /\ events' = [events EXCEPT ![nextId] = {<<"other", None>>}]
    /\ UNCHANGED <<columns, artifacts, verifiers, pending>>

(* Mutant of Claimable: the attempt budget is not checked. *)
ClaimableUnbounded(j, roles) ==
    /\ j \in exists
    /\ status[j] = "queued"
    /\ roles # {} => role[j] \in roles \cup {None}

(* Mutant of Claimable: any unfinished job of a matching role is handed out. *)
ClaimableUnfinished(j, roles) ==
    /\ j \in exists
    /\ status[j] \in {"queued", "claimed", "running"}
    /\ attempts[j] < maxAttempts[j]
    /\ roles # {} => role[j] \in roles \cup {None}

(* The WHERE clause of claim_next_job; no supported role means no role filter. *)
Claimable(j, roles) ==
    /\ j \in exists
    /\ status[j] = "queued"
    /\ attempts[j] < maxAttempts[j]
    /\ roles # {} => role[j] \in roles \cup {None}

(* ORDER BY priority ASC, created_at ASC LIMIT 1 *)
FirstInLine(j, roles) ==
    /\ Claimable(j, roles)
    /\ \A k \in Jobs : Claimable(k, roles) =>
          \/ priority[j] < priority[k]
          \/ priority[j] = priority[k] /\ j <= k

(* claim_next_job, inside BEGIN IMMEDIATE.  With no claimable row it returns   *)
(* None and changes nothing.                                                   *)
Claim(w, roles) ==
    \E j \in Jobs :
        /\ FirstInLine(j, roles)
        /\ status' = [status EXCEPT ![j] = "claimed"]
        /\ assignedWorker' = [assignedWorker EXCEPT ![j] = w]
        /\ lease' = [lease EXCEPT ![j] = "live"]
        /\ attempts' = [attempts EXCEPT ![j] = @ + 1]
        /\ events' = [events EXCEPT ![j] = @ \cup {<<"claimed", w>>}]
        /\ UNCHANGED <<nextId, exists, spec, artifacts, verifiers, pending>>

(* clear_jobs: DELETE of every row, or of the finished ones; the children go   *)
(* with their job (ON DELETE CASCADE).  The columns of a deleted row mean      *)
(* nothing and go back to their defaults.                                      *)
ClearJobs(gone) ==
    /\ gone # {}
    /\ exists' = exists \ gone
    /\ status' = [j \in Jobs |-> IF j \in gone THEN "queued" ELSE status[j]]
    /\ assignedWorker' = [j \in Jobs |-> IF j \in gone THEN None ELSE assignedWorker[j]]
    /\ attempts' = [j \in Jobs |-> IF j \in gone THEN 0 ELSE attempts[j]]
    /\ lease' = [j \in Jobs |-> IF j \in gone THEN "none" ELSE lease[j]]
    /\ events' = [j \in Jobs |-> IF j \in gone THEN {} ELSE events[j]]
    /\ artifacts' = artifacts \ gone
    /\ verifiers' = [j \in Jobs |-> IF j \in gone THEN {} ELSE verifiers[j]]
    /\ UNCHANGED <<nextId, spec, pending>>

Finished == {j \in exists : status[j] \in {"completed", "failed", "cancelled"}}

(* Time passes a live lease. *)
LeaseExpires(j) ==
    /\ j \in exists
    /\ lease[j] = "live"
    /\ lease' = [lease EXCEPT ![j] = "expired"]
    /\ UNCHANGED <<nextId, exists, status, assignedWorker, attempts, spec, children, pending>>

-----------------------------------------------------------------------------
(* Handlers that read, check, and write in a later transaction *)

(* Mutant of Owns: an unassigned job passes the ownership check. *)
OwnsOrUnassigned(w, j) == j \in exists /\ assignedWorker[j] \in {w, None}

(* _fetch_job followed by _assert_worker_owns_job; the request ends with an    *)
(* error and no effect when either fails.                                      *)
Owns(w, j) == j \in exists /\ assignedWorker[j] = w

(* The thread has read and checked, and goes on to write. *)
Read(q, p) ==
    /\ pending[q] = Idle
    /\ pending' = [pending EXCEPT ![q] = p]
    /\ UNCHANGED <<nextId, exists, columns, spec, children>>

HeartbeatRead(q, w, j) ==
    /\ Owns(w, j)
    /\ status[j] \in ACTIVE_JOB_STATES
    /\ Read(q, [Idle EXCEPT !.op = "heartbeat", !.jobs = {j}, !.worker = w])

(* _status_from_waypoint *)
StatusFromWaypoint(current, wp) ==
    CASE wp \in {"started", "progress", "checkpoint"} -> "running"
      [] wp = "waiting_verification" -> "waiting_verification"
      [] wp = "requeued" -> "queued"
      [] wp = "completed" -> "completed"
      [] wp = "failed" -> "failed"
      [] OTHER -> current

(* add_waypoint decides from the status it read whether it will write one. *)
WaypointRead(q, w, j, wp) ==
    /\ Owns(w, j)
    /\ LET next == StatusFromWaypoint(status[j], wp) IN
       Read(q, [op |-> "waypoint", jobs |-> {j}, worker |-> w,
                set |-> IF next = status[j] THEN None ELSE next,
                kind |-> IF wp = "claimed" THEN "claimed" ELSE "other"])

(* add_artifact checks that the job exists, never who owns it. *)
ArtifactRead(q, j) ==
    /\ j \in exists
    /\ Read(q, [Idle EXCEPT !.op = "artifact", !.jobs = {j}])

(* verify_job and complete_job / fail_job check ownership, never the status. *)
VerifyRead(q, w, j, verdict) ==
    /\ Owns(w, j)
    /\ Read(q, [Idle EXCEPT !.op = "verify", !.jobs = {j}, !.worker = w, !.set = verdict])

FinishRead(q, w, j, outcome) ==
    /\ Owns(w, j)
    /\ Read(q, [Idle EXCEPT !.op = "finish", !.jobs = {j}, !.worker = w, !.set = outcome])

(* Mutant of Stale: jobs waiting for verification are forgotten. *)
StaleUnverified(j) ==
    /\ j \in exists
    /\ status[j] \in {"claimed", "running"}
    /\ lease[j] = "expired"

(* The WHERE clause of requeue_stale_jobs. *)
Stale(j) ==
    /\ j \in exists
    /\ status[j] \in {"claimed", "running", "waiting_verification"}
    /\ lease[j] = "expired"

(* requeue_stale_jobs selects the stale ids; with none it returns 0. *)
RequeueRead(q) ==
    LET stale == {j \in Jobs : Stale(j)} IN
    /\ stale # {}
    /\ Read(q, [Idle EXCEPT !.op = "requeue", !.jobs = stale, !.set = "queued"])

(* The thread's transaction is over. *)
Done(q) ==
    /\ pending' = [pending EXCEPT ![q] = Idle]
    /\ UNCHANGED <<nextId, exists, spec>>

(* UPDATE jobs SET status = ? WHERE id = ?, with the id and the value chosen   *)
(* at the read.                                                                *)
SetStatus(p) ==
    status' = IF p.set = None THEN status
              ELSE [j \in Jobs |-> IF j \in p.jobs THEN p.set ELSE status[j]]

(* _insert_event for every job of the request.  Its foreign key on jobs is     *)
(* what the Writes' guard p.jobs \subseteq exists stands for.                  *)
InsertEvents(p) ==
    events' = [j \in Jobs |-> IF j \in p.jobs
                              THEN events[j] \cup {<<p.kind, p.worker>>}
                              ELSE events[j]]

(* heartbeat only UPDATEs: on a row that is gone it matches nothing. *)
HeartbeatWrite(q) ==
    LET p == pending[q] IN
    /\ p.op = "heartbeat"
    /\ lease' = [j \in Jobs |-> IF j \in p.jobs \cap exists THEN "live" ELSE lease[j]]
    /\ Done(q)
    /\ UNCHANGED <<status, assignedWorker, attempts, children>>

(* Mutant of WaypointWrite: foreign keys are not enforced. *)
WaypointWriteUnchecked(q) ==
    LET p == pending[q] IN
    /\ p.op = "waypoint"
    /\ SetStatus(p)
    /\ InsertEvents(p)
    /\ Done(q)
    /\ UNCHANGED <<assignedWorker, attempts, lease, artifacts, verifiers>>

WaypointWrite(q) ==
    LET p == pending[q] IN
    /\ p.op = "waypoint"
    /\ p.jobs \subseteq exists
    /\ SetStatus(p)
    /\ InsertEvents(p)
    /\ Done(q)
    /\ UNCHANGED <<assignedWorker, attempts, lease, artifacts, verifiers>>

ArtifactWrite(q) ==
    LET p == pending[q] IN
    /\ p.op = "artifact"
    /\ p.jobs \subseteq exists
    /\ artifacts' = artifacts \cup p.jobs
    /\ Done(q)
    /\ UNCHANGED <<columns, events, verifiers>>

VerifyWrite(q) ==
    LET p == pending[q] IN
    /\ p.op = "verify"
    /\ p.jobs \subseteq exists
    /\ verifiers' = [j \in Jobs |-> IF j \in p.jobs THEN verifiers[j] \cup {p.worker}
                                    ELSE verifiers[j]]
    /\ SetStatus(p)
    /\ InsertEvents(p)
    /\ Done(q)
    /\ UNCHANGED <<assignedWorker, attempts, lease, artifacts>>

FinishWrite(q) ==
    LET p == pending[q] IN
    /\ p.op = "finish"
    /\ p.jobs \subseteq exists
    /\ SetStatus(p)
    /\ InsertEvents(p)
    /\ Done(q)
    /\ UNCHANGED <<assignedWorker, attempts, lease, artifacts, verifiers>>

(* The UPDATE of requeue_stale_jobs is by id alone: it does not look again at  *)
(* the status or the lease.                                                    *)
RequeueWrite(q) ==
    LET p == pending[q] IN
    /\ p.op = "requeue"
    /\ p.jobs \subseteq exists
    /\ SetStatus(p)
    /\ assignedWorker' = [j \in Jobs |-> IF j \in p.jobs THEN None ELSE assignedWorker[j]]
    /\ lease' = [j \in Jobs |-> IF j \in p.jobs THEN "none" ELSE lease[j]]
    /\ InsertEvents(p)
    /\ Done(q)
    /\ UNCHANGED <<attempts, artifacts, verifiers>>

(* The transaction fails and is rolled back: the foreign key of a child row    *)
(* finds its job deleted, or the database stays locked past the busy timeout.  *)
Rollback(q) ==
    /\ pending[q] # Idle
    /\ Done(q)
    /\ UNCHANGED <<columns, children>>

-----------------------------------------------------------------------------
Enqueued == \E m \in 1..MaxTries, r \in Roles \cup {None}, p \in 1..MaxPriority : Enqueue(m, r, p)
Claimed == \E w \in Workers, roles \in SUBSET Roles : Claim(w, roles)
Cleared == ClearJobs(exists) \/ ClearJobs(Finished)

(* Requests of workers; an artifact may come from anyone. *)
WorkerRead(q) ==
    \E w \in Workers, j \in Jobs :
        \/ HeartbeatRead(q, w, j)
        \/ \E wp \in Waypoints : WaypointRead(q, w, j, wp)
        \/ \E verdict \in {"completed", "failed"} : VerifyRead(q, w, j, verdict)
        \/ \E outcome \in {"completed", "failed"} : FinishRead(q, w, j, outcome)

AnyoneReads(q) == \E j \in Jobs : ArtifactRead(q, j)

Write(q) ==
    \/ HeartbeatWrite(q)
    \/ WaypointWrite(q)
    \/ ArtifactWrite(q)
    \/ VerifyWrite(q)
    \/ FinishWrite(q)
    \/ RequeueWrite(q)

Next ==
    \/ Enqueued
    \/ Claimed
    \/ Cleared
    \/ \E j \in Jobs : LeaseExpires(j)
    \/ \E q \in Requests : WorkerRead(q) \/ AnyoneReads(q)
    \/ \E q \in Threads : RequeueRead(q) \/ Write(q) \/ Rollback(q)

Spec == Init /\ [][Next]_vars

(* The event stream (sse_router.py) lists the jobs, and so requeues stale      *)
(* ones, every half second as long as a client is connected; a transaction it  *)
(* has begun ends, and is not rolled back every time.  Nothing is assumed of   *)
(* the workers.                                                                *)
FairSpec ==
    /\ Spec
    /\ WF_vars(RequeueRead(Poller))
    /\ WF_vars(Write(Poller) \/ Rollback(Poller))
    /\ SF_vars(RequeueWrite(Poller))

-----------------------------------------------------------------------------
(* Properties *)

(* No job is ever claimed more often than its max_attempts allow, however      *)
(* claims, requeues and worker-posted "requeued" waypoints interleave          *)
(* (claim_next_job's attempt_count < max_attempts under BEGIN IMMEDIATE).      *)
AttemptsWithinBudget == \A j \in exists : attempts[j] <= maxAttempts[j]

(* Until its first claim a job is exactly as enqueued: still queued, nobody's, *)
(* without lease, verdict or event of any worker.  Heartbeats, waypoints,      *)
(* verdicts and results of requests that are still in flight cannot touch it   *)
(* (_assert_worker_owns_job in every handler that writes the row).             *)
UntouchedUntilClaimed ==
    \A j \in exists : attempts[j] = 0 =>
        /\ status[j] = "queued"
        /\ assignedWorker[j] = None
        /\ lease[j] = "none"
        /\ events[j] = {<<"other", None>>}
        /\ verifiers[j] = {}

HasClaimed(w, j) == <<"claimed", w>> \in events[j]

(* The audit trail names only workers that claimed the job: whoever has an     *)
(* event, a verdict or the job itself has a "claimed" event on that job.  This *)
(* survives the gap between check and write, although the ownership that was   *)
(* checked may be gone when the row is written.                                *)
AuditTrailSound ==
    \A j \in exists, w \in Workers :
        (\/ <<"other", w>> \in events[j]
         \/ w \in verifiers[j]
         \/ assignedWorker[j] = w) => HasClaimed(w, j)

(* Child rows never outlive their job: a request that checked a job before     *)
(* clear_jobs deleted it writes no event, artifact or verdict (foreign keys    *)
(* with ON DELETE CASCADE, and the rollback of the request).                   *)
NoOrphanRows ==
    \A j \in Jobs \ exists :
        /\ events[j] = {}
        /\ j \notin artifacts
        /\ verifiers[j] = {}

(* A job goes from one worker to another only through the queue: its worker    *)
(* is replaced by a claim of the queued job, which uses up an attempt, or      *)
(* removed by a requeue, which puts the job back into the queue.               *)
HandoverThroughQueue ==
    [][\A j \in exists \cap exists' :
          assignedWorker'[j] # assignedWorker[j] =>
             \/ /\ status[j] = "queued" /\ status'[j] = "claimed"
                /\ attempts'[j] = attempts[j] + 1
             \/ /\ assignedWorker'[j] = None /\ status'[j] = "queued"]_vars

Abandoned(j) == j \in exists /\ status[j] \in ACTIVE_JOB_STATES /\ lease[j] = "expired"

(* A job of a worker that stopped reporting does not stay with it: an active   *)
(* job with an expired lease is sooner or later requeued, renewed, finished or *)
(* deleted, whatever the other requests do (requeue_stale_jobs, run by         *)
(* list_jobs).                                                                 *)
ExpiredLeaseReclaimed == \A j \in Jobs : Abandoned(j) ~> ~Abandoned(j)

Clogged(j) == j \in exists /\ status[j] \in ACTIVE_JOB_STATES /\ lease[j] # "live"

(* list_jobs requeues stale jobs "um Verstopfungen zu vermeiden" (service.py,  *)
(* line 90): no job stays in an active state for ever without a worker's lease *)
(* on it.  Not so: a waypoint that was checked before a requeue and written    *)
(* after it leaves the job running with neither worker nor lease, and          *)
(* requeue_stale_jobs skips rows whose lease is NULL.                          *)
NoJobClogged == \A j \in Jobs : Clogged(j) ~> ~Clogged(j)
=============================================================================
