-------------------------- MODULE JobSpoolerProofs --------------------------
(* The safety invariants of JobSpooler for every number of jobs, attempts,     *)
(* workers, roles and request threads.                                         *)
EXTENDS JobSpooler, TLAPS

(* Ids not in the table carry default columns, and none of them was handed out *)
(* before its time.                                                            *)
TableSound ==
    /\ \A j \in exists : j < nextId
    /\ \A j \in Jobs \ exists :
          /\ status[j] = "queued"
          /\ assignedWorker[j] = None
          /\ attempts[j] = 0
          /\ lease[j] = "none"

OwnerOps == {"heartbeat", "waypoint", "verify", "finish"}

(* What a request may still rely on at its write: its jobs were in the table   *)
(* once, and if they still are they have been claimed - by its worker, when it *)
(* acts for one.  That its worker still owns the job it may not rely on.       *)
RequestSound(p) ==
    /\ \A j \in p.jobs : j < nextId
    /\ p.op \in OwnerOps =>
          /\ p.worker \in Workers
          /\ \A j \in p.jobs \cap exists : attempts[j] > 0 /\ HasClaimed(p.worker, j)
    /\ p.op = "requeue" =>
          /\ p.worker = None /\ p.kind = "other" /\ p.set = "queued"
          /\ \A j \in p.jobs \cap exists : attempts[j] > 0

InFlightSound == \A q \in Threads : RequestSound(pending[q])

(* The inductive invariant. *)
IInv ==
    /\ TypeOK
    /\ TableSound
    /\ InFlightSound
    /\ AttemptsWithinBudget
    /\ UntouchedUntilClaimed
    /\ AuditTrailSound
    /\ NoOrphanRows

-----------------------------------------------------------------------------
(* Job ids are positive numbers with a successor among the values of nextId. *)
LEMMA JobIds ==
    /\ Jobs \subseteq Nat
    /\ 1 \in Jobs
    /\ \A j \in Jobs : j >= 1 /\ j + 1 \in 1..(MaxJobs + 1)
BY BoundsAssumption DEF Jobs

(* The empty table satisfies the invariant. *)
LEMMA InitIInv == Init => IInv
<1> SUFFICES ASSUME Init PROVE IInv
    OBVIOUS
<1> USE DEF Init
<1>1. TypeOK
    BY BoundsAssumption DEF TypeOK, Idle, Pending, Ops, Statuses, Leases, EventKinds
<1>2. TableSound /\ InFlightSound
    BY DEF TableSound, InFlightSound, RequestSound, Idle, OwnerOps
<1>3. QED
    BY <1>1, <1>2 DEF IInv, AttemptsWithinBudget, UntouchedUntilClaimed,
       AuditTrailSound, NoOrphanRows

(* Enqueueing uses an id no request has seen. *)
LEMMA EnqueueIInv ==
    ASSUME IInv, NEW m \in 1..MaxTries, NEW r \in Roles \cup {None},
           NEW p \in 1..MaxPriority, Enqueue(m, r, p)
    PROVE  IInv'
<1> USE DEF IInv, Enqueue, columns, spec
<1>1. TypeOK'
    BY JobIds DEF TypeOK, EventKinds
<1>2. TableSound'
    BY JobIds DEF TypeOK, TableSound
<1>3. InFlightSound'
    <2> SUFFICES ASSUME NEW q \in Threads PROVE RequestSound(pending[q])'
        BY DEF InFlightSound
    <2>1. pending[q] \in Pending /\ RequestSound(pending[q])
        BY DEF InFlightSound, TypeOK
    <2>2. nextId \notin pending[q].jobs
        BY <2>1, JobIds DEF RequestSound, TypeOK
    <2>3. QED
        BY <2>1, <2>2, JobIds DEF RequestSound, TypeOK, Pending, HasClaimed
<1>4. nextId \notin exists
    BY JobIds DEF TableSound, TypeOK
<1>5. AttemptsWithinBudget' /\ UntouchedUntilClaimed'
    BY <1>4, JobIds DEF TypeOK, TableSound, NoOrphanRows, AttemptsWithinBudget,
       UntouchedUntilClaimed
<1>6. AuditTrailSound'
    <2> SUFFICES ASSUME NEW j \in exists', NEW w \in Workers,
                        \/ <<"other", w>> \in events'[j]
                        \/ w \in verifiers'[j]
                        \/ assignedWorker'[j] = w
                 PROVE  HasClaimed(w, j)'
        BY DEF AuditTrailSound
    <2>1. w # None /\ events[nextId] = {} /\ verifiers[nextId] = {}
        BY <1>4, NoneAssumption DEF NoOrphanRows
    <2>2. CASE j = nextId
        BY <1>4, <2>1, <2>2 DEF TypeOK, TableSound
    <2>3. CASE j # nextId
        BY <2>3 DEF TypeOK, AuditTrailSound, HasClaimed
    <2>4. QED
        BY <2>2, <2>3
<1>7. NoOrphanRows'
    BY <1>4 DEF TypeOK, NoOrphanRows
<1>8. QED
    BY <1>1, <1>2, <1>3, <1>5, <1>6, <1>7

(* A claim spends an attempt the job still has, and leaves its claim event. *)
LEMMA ClaimIInv ==
    ASSUME IInv, NEW w \in Workers, NEW roles \in SUBSET Roles, Claim(w, roles)
    PROVE  IInv'
<1> USE DEF IInv
<1>1. PICK j \in Jobs :
        /\ j \in exists
        /\ attempts[j] < maxAttempts[j]
        /\ status' = [status EXCEPT ![j] = "claimed"]
        /\ assignedWorker' = [assignedWorker EXCEPT ![j] = w]
        /\ lease' = [lease EXCEPT ![j] = "live"]
        /\ attempts' = [attempts EXCEPT ![j] = @ + 1]
        /\ events' = [events EXCEPT ![j] = @ \cup {<<"claimed", w>>}]
        /\ UNCHANGED <<nextId, exists, spec, artifacts, verifiers, pending>>
    BY DEF Claim, FirstInLine, Claimable
<1>2. TypeOK'
    BY <1>1, BoundsAssumption DEF TypeOK, spec, Statuses, Leases, EventKinds
<1>3. TableSound'
    BY <1>1 DEF TypeOK, TableSound
<1>4. InFlightSound'
    <2> SUFFICES ASSUME NEW q \in Threads PROVE RequestSound(pending[q])'
        BY DEF InFlightSound
    <2>1. pending[q] \in Pending /\ RequestSound(pending[q])
        BY DEF InFlightSound, TypeOK
    <2>2. QED
        BY <1>1, <2>1 DEF RequestSound, TypeOK, Pending, HasClaimed
<1>5. AttemptsWithinBudget' /\ UntouchedUntilClaimed'
    BY <1>1 DEF TypeOK, spec, AttemptsWithinBudget, UntouchedUntilClaimed
<1>6. AuditTrailSound' /\ NoOrphanRows'
    BY <1>1 DEF TypeOK, AuditTrailSound, NoOrphanRows, HasClaimed
<1>7. QED
    BY <1>2, <1>3, <1>4, <1>5, <1>6

(* Deleting rows deletes their children and resets their columns. *)
LEMMA ClearIInv ==
    ASSUME IInv, NEW gone \in SUBSET exists, ClearJobs(gone)
    PROVE  IInv'
<1> USE DEF IInv, ClearJobs, spec
<1>1. TypeOK'
    <2>1. /\ exists' \subseteq Jobs
          /\ status' \in [Jobs -> Statuses]
          /\ assignedWorker' \in [Jobs -> Workers \cup {None}]
          /\ attempts' \in [Jobs -> 0..MaxTries]
          /\ lease' \in [Jobs -> Leases]
        BY BoundsAssumption DEF TypeOK, Statuses, Leases
    <2>2. /\ events' \in [Jobs -> SUBSET (EventKinds \X (Workers \cup {None}))]
          /\ artifacts' \subseteq Jobs
          /\ verifiers' \in [Jobs -> SUBSET Workers]
        BY DEF TypeOK
    <2>3. QED
        BY <2>1, <2>2 DEF TypeOK
<1>2. TableSound'
    BY DEF TypeOK, TableSound
<1>3. InFlightSound'
    <2> SUFFICES ASSUME NEW q \in Threads PROVE RequestSound(pending[q])'
        BY DEF InFlightSound
    <2>1. pending[q] \in Pending /\ RequestSound(pending[q])
        BY DEF InFlightSound, TypeOK
    <2>2. QED
        BY <2>1 DEF RequestSound, TypeOK, Pending, HasClaimed
<1>4. AttemptsWithinBudget' /\ UntouchedUntilClaimed' /\ AuditTrailSound' /\ NoOrphanRows'
    BY DEF TypeOK, AttemptsWithinBudget, UntouchedUntilClaimed, AuditTrailSound,
       NoOrphanRows, HasClaimed
<1>5. QED
    BY <1>1, <1>2, <1>3, <1>4

(* Time only touches leases that a claim or a heartbeat has set. *)
LEMMA LeaseExpiresIInv ==
    ASSUME IInv, NEW j \in Jobs, LeaseExpires(j)
    PROVE  IInv'
<1> USE DEF IInv, LeaseExpires, spec, children
<1>1. TypeOK'
    BY DEF TypeOK, Leases
<1>2. TableSound' /\ InFlightSound'
    BY DEF TypeOK, TableSound, InFlightSound, RequestSound, HasClaimed
<1>3. AttemptsWithinBudget' /\ UntouchedUntilClaimed' /\ AuditTrailSound' /\ NoOrphanRows'
    BY DEF TypeOK, AttemptsWithinBudget, UntouchedUntilClaimed, AuditTrailSound,
       NoOrphanRows, HasClaimed
<1>4. QED
    BY <1>1, <1>2, <1>3

(* A read keeps the invariant when what it hands on is sound at that moment. *)
LEMMA ReadIInv ==
    ASSUME IInv, NEW q \in Threads, NEW p \in Pending, RequestSound(p), Read(q, p)
    PROVE  IInv'
<1> USE DEF IInv, Read, columns, spec, children
<1>1. TypeOK'
    BY DEF TypeOK
<1>2. TableSound'
    BY DEF TableSound
<1>3. InFlightSound'
    BY DEF TypeOK, InFlightSound, RequestSound, HasClaimed
<1>4. AttemptsWithinBudget' /\ UntouchedUntilClaimed' /\ AuditTrailSound' /\ NoOrphanRows'
    BY DEF AttemptsWithinBudget, UntouchedUntilClaimed, AuditTrailSound, NoOrphanRows, HasClaimed
<1>5. QED
    BY <1>1, <1>2, <1>3, <1>4

-----------------------------------------------------------------------------
(* A transaction that ends leaves the other requests as they were, and what a  *)
(* request may rely on survives every write: no write deletes a row, takes     *)
(* back an attempt or removes a claim event.                                   *)
LEMMA DoneInFlight ==
    ASSUME IInv, NEW q \in Threads, Done(q), UNCHANGED attempts,
           \A j \in Jobs : events[j] \subseteq events'[j]
    PROVE  InFlightSound'
<1> SUFFICES ASSUME NEW t \in Threads PROVE RequestSound(pending[t])'
    BY DEF InFlightSound
<1>1. pending[t] \in Pending /\ RequestSound(pending[t])
    BY DEF IInv, InFlightSound, TypeOK
<1>2. CASE t = q
    BY <1>2 DEF IInv, TypeOK, Done, Idle, RequestSound, OwnerOps
<1>3. CASE t # q
    BY <1>1, <1>3 DEF IInv, TypeOK, Done, spec, RequestSound, Pending, HasClaimed
<1>4. QED
    BY <1>2, <1>3

(* The event a request inserts is typed, only adds to the trail, names a       *)
(* worker with a claim or nobody, and goes to jobs of the table.               *)
LEMMA InsertEventsSound ==
    ASSUME IInv, NEW p \in Pending, RequestSound(p), InsertEvents(p), p.jobs \subseteq exists,
           p.op \in OwnerOps \cup {"requeue"}
    PROVE  /\ events' \in [Jobs -> SUBSET (EventKinds \X (Workers \cup {None}))]
           /\ \A j \in Jobs : events[j] \subseteq events'[j]
           /\ \A j \in Jobs \ exists : events'[j] = {}
           /\ \A j \in exists : attempts[j] = 0 => events'[j] = events[j]
           /\ \A j \in exists, w \in Workers :
                 <<"other", w>> \in events'[j] => \/ <<"other", w>> \in events[j]
                                                 \/ <<"claimed", w>> \in events[j]
<1> USE DEF IInv, InsertEvents
<1>1. /\ events' \in [Jobs -> SUBSET (EventKinds \X (Workers \cup {None}))]
      /\ \A j \in Jobs : events[j] \subseteq events'[j]
    BY DEF TypeOK, Pending
<1>2. \A j \in Jobs \ exists : events'[j] = {}
    BY DEF TypeOK, NoOrphanRows
<1>3. \A j \in exists : attempts[j] = 0 => events'[j] = events[j]
    BY DEF TypeOK, RequestSound
<1>4. ASSUME NEW j \in exists, NEW w \in Workers, <<"other", w>> \in events'[j],
             <<"other", w>> \notin events[j]
      PROVE  <<"claimed", w>> \in events[j]
    <2>1. j \in Jobs /\ j \in p.jobs /\ w = p.worker
        BY <1>4 DEF TypeOK
    <2>2. p.op \in OwnerOps
        BY <2>1, NoneAssumption DEF RequestSound
    <2>3. QED
        BY <2>1, <2>2 DEF RequestSound, HasClaimed
<1>5. QED
    BY <1>1, <1>2, <1>3, <1>4

(* The status a request sets is typed and reaches only claimed jobs. *)
LEMMA SetStatusSound ==
    ASSUME IInv, NEW p \in Pending, RequestSound(p), SetStatus(p), p.jobs \subseteq exists,
           p.op \in OwnerOps \cup {"requeue"}
    PROVE  /\ status' \in [Jobs -> Statuses]
           /\ \A j \in Jobs : attempts[j] = 0 => status'[j] = status[j]
<1> USE DEF IInv, SetStatus
<1>1. status' \in [Jobs -> Statuses]
    BY DEF TypeOK, Pending
<1>2. \A j \in Jobs : attempts[j] = 0 => status'[j] = status[j]
    BY DEF TypeOK, RequestSound
<1>3. QED
    BY <1>1, <1>2

-----------------------------------------------------------------------------
(* A renewed lease belongs to a job that was claimed.                          *)
LEMMA HeartbeatIInv ==
    ASSUME IInv, NEW q \in Threads, HeartbeatWrite(q)
    PROVE  IInv'
<1> USE DEF IInv, HeartbeatWrite, Done, spec, children
<1> DEFINE p == pending[q]
<1>1. p \in Pending /\ RequestSound(p) /\ p.op \in OwnerOps
    BY DEF TypeOK, InFlightSound, OwnerOps
<1>2. \A j \in p.jobs \cap exists : attempts[j] > 0
    BY <1>1 DEF RequestSound
<1>3. TypeOK'
    BY DEF TypeOK, Leases, Pending, Idle, Ops, EventKinds
<1>4. TableSound'
    BY DEF TypeOK, TableSound
<1>5. InFlightSound'
    BY DoneInFlight DEF TypeOK
<1>6. UntouchedUntilClaimed'
    BY <1>2 DEF TypeOK, UntouchedUntilClaimed
<1>7. AttemptsWithinBudget' /\ AuditTrailSound' /\ NoOrphanRows'
    BY DEF AttemptsWithinBudget, AuditTrailSound, NoOrphanRows, HasClaimed
<1>8. QED
    BY <1>3, <1>4, <1>5, <1>6, <1>7

(* Artifacts go to jobs of the table.                                          *)
LEMMA ArtifactIInv ==
    ASSUME IInv, NEW q \in Threads, ArtifactWrite(q)
    PROVE  IInv'
<1> USE DEF IInv, ArtifactWrite, Done, spec, columns
<1>1. TypeOK'
    BY DEF TypeOK, Pending, Idle, Ops, EventKinds
<1>2. TableSound'
    BY DEF TableSound
<1>3. InFlightSound'
    BY DoneInFlight DEF TypeOK
<1>4. AttemptsWithinBudget' /\ UntouchedUntilClaimed' /\ AuditTrailSound' /\ NoOrphanRows'
    BY DEF AttemptsWithinBudget, UntouchedUntilClaimed, AuditTrailSound, NoOrphanRows, HasClaimed
<1>5. QED
    BY <1>1, <1>2, <1>3, <1>4

(* add_waypoint, verify_job, complete_job and fail_job write the status, an    *)
(* event and possibly a verdict.                                               *)
LEMMA ReportIInv ==
    ASSUME IInv, NEW q \in Threads, WaypointWrite(q) \/ VerifyWrite(q) \/ FinishWrite(q)
    PROVE  IInv'
<1> USE DEF IInv
<1> DEFINE p == pending[q]
<1>1. /\ p \in Pending /\ RequestSound(p) /\ p.op \in OwnerOps
      /\ p.jobs \subseteq exists /\ SetStatus(p) /\ InsertEvents(p) /\ Done(q)
      /\ UNCHANGED <<assignedWorker, attempts, lease, artifacts>>
    BY DEF TypeOK, InFlightSound, OwnerOps, WaypointWrite, VerifyWrite, FinishWrite
<1>2. \/ verifiers' = verifiers
      \/ verifiers' = [j \in Jobs |-> IF j \in p.jobs THEN verifiers[j] \cup {p.worker}
                                      ELSE verifiers[j]]
    BY DEF WaypointWrite, VerifyWrite, FinishWrite
<1>3. /\ p.worker \in Workers
      /\ \A j \in p.jobs : attempts[j] > 0 /\ <<"claimed", p.worker>> \in events[j]
    BY <1>1 DEF RequestSound, HasClaimed
<1>4. /\ status' \in [Jobs -> Statuses]
      /\ \A j \in Jobs : attempts[j] = 0 => status'[j] = status[j]
    BY <1>1, SetStatusSound
<1>5. /\ events' \in [Jobs -> SUBSET (EventKinds \X (Workers \cup {None}))]
      /\ \A j \in Jobs : events[j] \subseteq events'[j]
      /\ \A j \in Jobs \ exists : events'[j] = {}
      /\ \A j \in exists : attempts[j] = 0 => events'[j] = events[j]
      /\ \A j \in exists, w \in Workers :
            <<"other", w>> \in events'[j] => \/ <<"other", w>> \in events[j]
                                            \/ <<"claimed", w>> \in events[j]
    BY <1>1, InsertEventsSound
<1>6. /\ verifiers' \in [Jobs -> SUBSET Workers]
      /\ \A j \in Jobs : attempts[j] = 0 \/ j \notin exists => verifiers'[j] = verifiers[j]
      /\ \A j \in Jobs, w \in Workers :
            w \in verifiers'[j] => w \in verifiers[j] \/ <<"claimed", w>> \in events[j]
    BY <1>1, <1>2, <1>3 DEF TypeOK
<1> HIDE DEF p
<1>7. TypeOK'
    BY <1>1, <1>4, <1>5, <1>6 DEF TypeOK, Done, spec, Pending, Idle, Ops, EventKinds
<1>8. TableSound'
    BY <1>1, <1>4 DEF TypeOK, TableSound, Done, spec
<1>9. InFlightSound'
    BY <1>1, <1>5, DoneInFlight
<1>10. AttemptsWithinBudget' /\ UntouchedUntilClaimed'
    BY <1>1, <1>4, <1>5, <1>6 DEF TypeOK, Done, spec, AttemptsWithinBudget, UntouchedUntilClaimed
<1>11. AuditTrailSound' /\ NoOrphanRows'
    BY <1>1, <1>5, <1>6 DEF TypeOK, Done, AuditTrailSound, NoOrphanRows, HasClaimed
<1>12. QED
    BY <1>7, <1>8, <1>9, <1>10, <1>11

(* A requeue, however late, touches only jobs that were claimed.               *)
LEMMA RequeueIInv ==
    ASSUME IInv, NEW q \in Threads, RequeueWrite(q)
    PROVE  IInv'
<1> USE DEF IInv
<1> DEFINE p == pending[q]
<1>1. /\ p \in Pending /\ RequestSound(p) /\ p.op = "requeue"
      /\ p.jobs \subseteq exists /\ SetStatus(p) /\ InsertEvents(p) /\ Done(q)
      /\ UNCHANGED <<attempts, artifacts, verifiers>>
    BY DEF TypeOK, InFlightSound, RequeueWrite
<1>2. /\ assignedWorker' = [j \in Jobs |-> IF j \in p.jobs THEN None ELSE assignedWorker[j]]
      /\ lease' = [j \in Jobs |-> IF j \in p.jobs THEN "none" ELSE lease[j]]
    BY DEF RequeueWrite
<1>3. /\ status' \in [Jobs -> Statuses]
      /\ \A j \in Jobs : attempts[j] = 0 => status'[j] = status[j]
    BY <1>1, SetStatusSound
<1>4. /\ events' \in [Jobs -> SUBSET (EventKinds \X (Workers \cup {None}))]
      /\ \A j \in Jobs : events[j] \subseteq events'[j]
      /\ \A j \in Jobs \ exists : events'[j] = {}
      /\ \A j \in exists : attempts[j] = 0 => events'[j] = events[j]
      /\ \A j \in exists, w \in Workers :
            <<"other", w>> \in events'[j] => \/ <<"other", w>> \in events[j]
                                            \/ <<"claimed", w>> \in events[j]
    BY <1>1, InsertEventsSound
<1>5. /\ assignedWorker' \in [Jobs -> Workers \cup {None}]
      /\ lease' \in [Jobs -> Leases]
      /\ \A j \in Jobs : assignedWorker'[j] \in {None, assignedWorker[j]}
      /\ \A j \in Jobs : lease'[j] \in {"none", lease[j]}
    BY <1>2 DEF TypeOK, Leases
<1> HIDE DEF p
<1>6. TypeOK'
    BY <1>1, <1>3, <1>4, <1>5 DEF TypeOK, Done, spec, Pending, Idle, Ops, EventKinds
<1>7. TableSound'
    BY <1>1, <1>3, <1>5 DEF TypeOK, TableSound, Done, spec
<1>8. InFlightSound'
    BY <1>1, <1>4, DoneInFlight
<1>9. AttemptsWithinBudget' /\ UntouchedUntilClaimed'
    BY <1>1, <1>3, <1>4, <1>5 DEF TypeOK, Done, spec, AttemptsWithinBudget, UntouchedUntilClaimed
<1>10. AuditTrailSound' /\ NoOrphanRows'
    BY <1>1, <1>4, <1>5, NoneAssumption
       DEF TypeOK, Done, AuditTrailSound, NoOrphanRows, HasClaimed
<1>11. QED
    BY <1>6, <1>7, <1>8, <1>9, <1>10

(* A rolled-back request changes nothing.                                      *)
LEMMA RollbackIInv ==
    ASSUME IInv, NEW q \in Threads, Rollback(q)
    PROVE  IInv'
<1> USE DEF IInv, Rollback, Done, spec, columns, children
<1>1. TypeOK'
    BY DEF TypeOK, Pending, Idle, Ops, EventKinds
<1>2. TableSound'
    BY DEF TableSound
<1>3. InFlightSound'
    BY DoneInFlight DEF TypeOK
<1>4. AttemptsWithinBudget' /\ UntouchedUntilClaimed' /\ AuditTrailSound' /\ NoOrphanRows'
    BY DEF AttemptsWithinBudget, UntouchedUntilClaimed, AuditTrailSound, NoOrphanRows, HasClaimed
<1>5. QED
    BY <1>1, <1>2, <1>3, <1>4

-----------------------------------------------------------------------------
(* What a handler has checked when it goes on to write. *)
LEMMA OwnerSound ==
    ASSUME IInv, NEW w \in Workers, NEW j \in Jobs, Owns(w, j)
    PROVE  j < nextId /\ attempts[j] > 0 /\ HasClaimed(w, j)
<1> USE DEF IInv, Owns
<1>1. j < nextId /\ HasClaimed(w, j)
    BY DEF TableSound, AuditTrailSound
<1>2. attempts[j] # 0
    BY NoneAssumption DEF UntouchedUntilClaimed
<1>3. QED
    BY <1>1, <1>2 DEF TypeOK

(* A worker's request that passed its checks hands on what the owner may do.   *)
LEMMA WorkerReadIInv ==
    ASSUME IInv, NEW q \in Requests, WorkerRead(q)
    PROVE  IInv'
<1>1. PICK w \in Workers, j \in Jobs :
        \/ HeartbeatRead(q, w, j)
        \/ \E wp \in Waypoints : WaypointRead(q, w, j, wp)
        \/ \E verdict \in {"completed", "failed"} : VerifyRead(q, w, j, verdict)
        \/ \E outcome \in {"completed", "failed"} : FinishRead(q, w, j, outcome)
    BY DEF WorkerRead
<1>2. Owns(w, j) /\ status[j] \in Statuses
    BY <1>1 DEF IInv, TypeOK, HeartbeatRead, WaypointRead, VerifyRead, FinishRead
<1>3. PICK p \in Pending :
        /\ Read(q, p)
        /\ p.op \in OwnerOps /\ p.jobs = {j} /\ p.worker = w
    <2>1. CASE HeartbeatRead(q, w, j)
        <3>1. HeartbeatRead(q, w, j)
            BY <2>1
        <3> DEFINE r == [Idle EXCEPT !.op = "heartbeat", !.jobs = {j}, !.worker = w]
        <3>2. Read(q, r)
            BY <3>1 DEF HeartbeatRead
        <3>3. r \in Pending /\ r.op \in OwnerOps /\ r.jobs = {j} /\ r.worker = w
            BY DEF Idle, Pending, Ops, OwnerOps, EventKinds, Statuses
        <3> HIDE DEF r
        <3>4. QED
            BY <3>2, <3>3
    <2>2. CASE \E wp \in Waypoints : WaypointRead(q, w, j, wp)
        <3>1. PICK wp \in Waypoints : WaypointRead(q, w, j, wp)
            BY <2>2
        <3>2. StatusFromWaypoint(status[j], wp) \in Statuses
            BY <1>2 DEF StatusFromWaypoint, Statuses
        <3>3. QED
            BY <3>1, <3>2 DEF WaypointRead, Pending, Ops, OwnerOps, EventKinds
    <2>3. CASE \E verdict \in {"completed", "failed"} : VerifyRead(q, w, j, verdict)
        <3>1. PICK verdict \in {"completed", "failed"} : VerifyRead(q, w, j, verdict)
            BY <2>3
        <3> DEFINE r == [Idle EXCEPT !.op = "verify", !.jobs = {j}, !.worker = w, !.set = verdict]
        <3>2. Read(q, r)
            BY <3>1 DEF VerifyRead
        <3>3. r \in Pending /\ r.op \in OwnerOps /\ r.jobs = {j} /\ r.worker = w
            BY DEF Idle, Pending, Ops, OwnerOps, EventKinds, Statuses
        <3> HIDE DEF r
        <3>4. QED
            BY <3>2, <3>3
    <2>4. CASE \E outcome \in {"completed", "failed"} : FinishRead(q, w, j, outcome)
        <3>1. PICK outcome \in {"completed", "failed"} : FinishRead(q, w, j, outcome)
            BY <2>4
        <3> DEFINE r == [Idle EXCEPT !.op = "finish", !.jobs = {j}, !.worker = w, !.set = outcome]
        <3>2. Read(q, r)
            BY <3>1 DEF FinishRead
        <3>3. r \in Pending /\ r.op \in OwnerOps /\ r.jobs = {j} /\ r.worker = w
            BY DEF Idle, Pending, Ops, OwnerOps, EventKinds, Statuses
        <3> HIDE DEF r
        <3>4. QED
            BY <3>2, <3>3
    <2>5. QED
        BY <1>1, <2>1, <2>2, <2>3, <2>4
<1>4. RequestSound(p)
    BY <1>2, <1>3, OwnerSound DEF RequestSound, OwnerOps
<1>5. QED
    BY <1>3, <1>4, ReadIInv DEF Threads

(* An artifact needs only that the job is there.                               *)
LEMMA AnyoneReadsIInv ==
    ASSUME IInv, NEW q \in Requests, AnyoneReads(q)
    PROVE  IInv'
<1>1. PICK j \in Jobs : ArtifactRead(q, j)
    BY DEF AnyoneReads
<1> DEFINE p == [Idle EXCEPT !.op = "artifact", !.jobs = {j}]
<1>2. p \in Pending /\ Read(q, p)
    BY <1>1 DEF ArtifactRead, Idle, Pending, Ops, EventKinds
<1>3. RequestSound(p)
    BY <1>1 DEF ArtifactRead, Idle, RequestSound, OwnerOps, IInv, TableSound
<1>4. QED
    BY <1>2, <1>3, ReadIInv DEF Threads

(* Stale jobs have been claimed.                                               *)
LEMMA RequeueReadIInv ==
    ASSUME IInv, NEW q \in Threads, RequeueRead(q)
    PROVE  IInv'
<1> DEFINE stale == {j \in Jobs : Stale(j)}
           p == [Idle EXCEPT !.op = "requeue", !.jobs = stale, !.set = "queued"]
<1>1. p \in Pending /\ Read(q, p)
    BY DEF RequeueRead, Idle, Pending, Ops, EventKinds, Statuses
<1>2. \A j \in stale : j < nextId /\ attempts[j] > 0
    BY DEF Stale, IInv, TypeOK, TableSound, UntouchedUntilClaimed
<1>3. RequestSound(p)
    BY <1>2 DEF Idle, RequestSound, OwnerOps
<1>4. QED
    BY <1>1, <1>3, ReadIInv

(* The invariant is inductive. *)
LEMMA NextIInv == IInv /\ [Next]_vars => IInv'
<1> SUFFICES ASSUME IInv, [Next]_vars PROVE IInv'
    OBVIOUS
<1>1. CASE Enqueued
    BY <1>1, EnqueueIInv DEF Enqueued
<1>2. CASE Claimed
    BY <1>2, ClaimIInv DEF Claimed
<1>3. CASE Cleared
    BY <1>3, ClearIInv DEF Cleared, Finished
<1>4. CASE \E j \in Jobs : LeaseExpires(j)
    BY <1>4, LeaseExpiresIInv
<1>5. CASE \E q \in Requests : WorkerRead(q) \/ AnyoneReads(q)
    BY <1>5, WorkerReadIInv, AnyoneReadsIInv
<1>6. CASE \E q \in Threads : RequeueRead(q) \/ Write(q) \/ Rollback(q)
    BY <1>6, RequeueReadIInv, HeartbeatIInv, ArtifactIInv, ReportIInv, RequeueIInv,
       RollbackIInv DEF Write
<1>7. CASE UNCHANGED vars
    BY <1>7 DEF vars, columns, spec, children, IInv, TypeOK, TableSound, InFlightSound,
       RequestSound, AttemptsWithinBudget, UntouchedUntilClaimed, AuditTrailSound,
       NoOrphanRows, HasClaimed
<1>8. QED
    BY <1>1, <1>2, <1>3, <1>4, <1>5, <1>6, <1>7 DEF Next

(* The inductive invariant holds in every reachable state. *)
THEOREM SpecIInv == Spec => []IInv
BY InitIInv, NextIInv, PTL DEF Spec

(* Every column keeps its type, whatever requests interleave. *)
THEOREM TypeCorrect == Spec => []TypeOK
BY SpecIInv, PTL DEF IInv

(* claim_next_job never exceeds max_attempts. *)
THEOREM BudgetKept == Spec => []AttemptsWithinBudget
BY SpecIInv, PTL DEF IInv

(* No request in flight touches a job before its first claim. *)
THEOREM UntouchedKept == Spec => []UntouchedUntilClaimed
BY SpecIInv, PTL DEF IInv

(* Whoever appears in the audit trail of a job has claimed it. *)
THEOREM AuditTrailKept == Spec => []AuditTrailSound
BY SpecIInv, PTL DEF IInv

(* No event, artifact or verdict survives or follows the deletion of its job. *)
THEOREM OrphansExcluded == Spec => []NoOrphanRows
BY SpecIInv, PTL DEF IInv

(* Workers change only through the queue: a claim of a queued job or a requeue. *)
THEOREM HandoverProved == Spec => HandoverThroughQueue
<1> DEFINE Handover ==
        \A j \in exists \cap exists' :
          assignedWorker'[j] # assignedWorker[j] =>
             \/ /\ status[j] = "queued" /\ status'[j] = "claimed"
                /\ attempts'[j] = attempts[j] + 1
             \/ /\ assignedWorker'[j] = None /\ status'[j] = "queued"
<1>1. ASSUME IInv, [Next]_vars PROVE [Handover]_vars
    <2> USE <1>1 DEF IInv, columns
    <2>1. CASE Enqueued
        BY <2>1 DEF Enqueued, Enqueue
    <2>2. CASE Claimed
        BY <2>2 DEF Claimed, Claim, FirstInLine, Claimable, TypeOK
    <2>3. CASE Cleared
        <3>1. PICK gone \in SUBSET exists : ClearJobs(gone)
            BY <2>3 DEF Cleared, Finished
        <3>2. QED
            BY <3>1 DEF ClearJobs, TypeOK
    <2>4. CASE \E j \in Jobs : LeaseExpires(j)
        BY <2>4 DEF LeaseExpires
    <2>5. CASE \E q \in Requests : WorkerRead(q) \/ AnyoneReads(q)
        <3>1. PICK q \in Requests : WorkerRead(q) \/ AnyoneReads(q)
            BY <2>5
        <3>2. ASSUME NEW w, NEW j, HeartbeatRead(q, w, j) PROVE UNCHANGED assignedWorker
            BY <3>2 DEF HeartbeatRead, Read
        <3>3. ASSUME NEW w, NEW j, NEW wp, WaypointRead(q, w, j, wp)
              PROVE  UNCHANGED assignedWorker
            BY <3>3 DEF WaypointRead, Read
        <3>4. ASSUME NEW w, NEW j, NEW o, VerifyRead(q, w, j, o) \/ FinishRead(q, w, j, o)
              PROVE  UNCHANGED assignedWorker
            BY <3>4 DEF VerifyRead, FinishRead, Read
        <3>5. ASSUME NEW j, ArtifactRead(q, j) PROVE UNCHANGED assignedWorker
            BY <3>5 DEF ArtifactRead, Read
        <3>6. UNCHANGED assignedWorker
            BY <3>1, <3>2, <3>3, <3>4, <3>5 DEF WorkerRead, AnyoneReads
        <3>7. QED
            BY <3>6
    <2>6. ASSUME NEW q \in Threads, RequeueWrite(q) PROVE Handover
        <3>1. pending[q].set = "queued"
            BY <2>6 DEF RequeueWrite, InFlightSound, RequestSound
        <3>2. QED
            BY <2>6, <3>1, NoneAssumption DEF RequeueWrite, SetStatus, TypeOK
    <2>7. ASSUME NEW q \in Threads, RequeueRead(q) \/ Write(q) \/ Rollback(q),
                 ~RequeueWrite(q)
          PROVE  Handover
        <3>1. UNCHANGED assignedWorker
            BY <2>7 DEF RequeueRead, Read, Write, Rollback, HeartbeatWrite, WaypointWrite,
               ArtifactWrite, VerifyWrite, FinishWrite
        <3>2. QED
            BY <3>1
    <2>8. CASE UNCHANGED vars
        BY <2>8 DEF vars
    <2> HIDE DEF Handover
    <2>9. QED
        BY <1>1, <2>1, <2>2, <2>3, <2>4, <2>5, <2>6, <2>7, <2>8 DEF Next
<1>2. QED
    BY <1>1, SpecIInv, PTL DEF Spec, HandoverThroughQueue
=============================================================================
