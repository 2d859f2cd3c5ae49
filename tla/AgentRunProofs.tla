--------------------------- MODULE AgentRunProofs ---------------------------
(* The safety invariants of AgentRun for every number of runs, steps, plans,   *)
(* API threads, restarts and failed transactions.                              *)
EXTENDS AgentRun, FiniteSetTheorems, TLAPS

(* A run that was not created has no steps, and a step that was not started    *)
(* has no attempt.                                                             *)
RowsSound ==
    /\ \A r \in Runs : status[r] = "absent" => \A k \in Ordinals : steps[r][k] = "none"
    /\ \A r \in Runs, k \in Ordinals :
          steps[r][k] \in {"none", "pending"} => attempts[r][k] = 0

(* What an API thread is about to write concerns a run that was created.       *)
RequestSound(p) ==
    p.op # "idle" =>
        /\ p.run \in Runs
        /\ status[p.run] # "absent"
        /\ p.set \in RunStatuses

RequestsSound == \A q \in Requests : RequestSound(request[q])

(* Where the worker is about to start a step, where it has one, and where its  *)
(* snapshot counts.                                                            *)
Starting == {"activate", "activating"}
Working == {"begin", "executing", "complete", "completing", "fail", "failing",
            "timeout", "timingOut"}
InLoop == {"loop", "completed"} \cup Starting \cup Working

WorkerSound ==
    /\ worker.pc # "idle" => worker.run \in Runs /\ status[worker.run] # "absent"
    /\ worker.pc \in {"activating", "writeRun"} => worker.set \in RunStatuses
    /\ worker.pc \in InLoop => worker.plan <= plan[worker.run]
    /\ worker.pc \in Starting \cup Working => worker.step \in Ordinals
    /\ worker.pc \in InLoop \ {"completed"} => worker.done < maxSteps[worker.run]

PendingSteps(r) == {k \in Ordinals : steps[r][k] = "pending"}

(* As long as the plan stands, the worker's snapshot is exact: the steps still *)
(* pending are those it has not come to and the one it is about to start,      *)
(* which is before the others; the step it works on is active; its count is    *)
(* the number of completed steps.                                              *)
SnapshotSound ==
    worker.pc \in InLoop /\ PlanStands =>
        /\ worker.pc \in Starting => /\ PendingSteps(worker.run) = worker.pending \cup {worker.step}
                                     /\ \A l \in worker.pending : worker.step < l
        /\ worker.pc \notin Starting => PendingSteps(worker.run) = worker.pending
        /\ worker.pc = "activating" => ActiveSteps(worker.run) = {}
        /\ worker.pc \in Working => StepStatus = "active"
        /\ worker.pc # "completed" => Count(worker.run, "completed") = worker.done
        /\ worker.pc = "completed" => Count(worker.run, "completed") = worker.done + 1

(* Without faults an active step is in the worker's hands. *)
SupervisionSound ==
    Smooth => \A r \in Runs, k \in Ordinals : steps[r][k] = "active" =>
        worker.pc \in Working /\ worker.run = r /\ worker.step = k /\ worker.plan = plan[r]

(* The inductive invariant. *)
IInv ==
    /\ TypeOK
    /\ RowsSound
    /\ RequestsSound
    /\ WorkerSound
    /\ SnapshotSound
    /\ SupervisionSound
    /\ AtMostOneActiveStep
    /\ StepRunsAtMostOnce
    /\ StepsInOrder
    /\ StepBudgetKept

-----------------------------------------------------------------------------
(* Ordinals and run numbers are natural numbers, and there are finitely many.  *)
LEMMA Numbers ==
    /\ Runs \subseteq Nat
    /\ Ordinals \subseteq Nat
    /\ 1 \in Ordinals
    /\ None \notin Runs
    /\ None \notin Ordinals
    /\ IsFiniteSet(Ordinals)
<1>1. Runs \subseteq Nat /\ Ordinals \subseteq Nat /\ 1 \in Ordinals
    BY BoundsAssumption DEF Runs, Ordinals
<1>2. IsFiniteSet(Ordinals)
    BY BoundsAssumption, FS_Interval DEF Ordinals
<1>3. QED
    BY <1>1, <1>2, NoneAssumption

(* Steps in a given status are counted by a number.                            *)
LEMMA CountType ==
    ASSUME NEW r \in Runs, NEW s
    PROVE  /\ IsFiniteSet({k \in Ordinals : steps[r][k] = s})
           /\ Count(r, s) \in Nat
<1>1. IsFiniteSet({k \in Ordinals : steps[r][k] = s})
    BY Numbers, FS_Subset
<1>2. QED
    BY <1>1, FS_CardinalityType DEF Count

(* No run exists at the start.                                                 *)
LEMMA InitIInv == Init => IInv
<1> SUFFICES ASSUME Init PROVE IInv
    OBVIOUS
<1> USE Numbers DEF Init
<1>1. TypeOK
    BY BoundsAssumption DEF TypeOK, StepStatuses, Manifests, NoRequest, RequestType,
       RequestOps, IdleWorker, WorkerType, WorkerPlaces
<1>2. RowsSound /\ SupervisionSound /\ AtMostOneActiveStep /\ StepRunsAtMostOnce /\ StepsInOrder
    BY DEF RowsSound, SupervisionSound, AtMostOneActiveStep, StepRunsAtMostOnce, StepsInOrder
<1>3. RequestsSound /\ WorkerSound /\ SnapshotSound
    BY DEF RequestsSound, RequestSound, NoRequest, WorkerSound, SnapshotSound, IdleWorker,
       InLoop, Starting, Working
<1>4. StepBudgetKept
    <2> SUFFICES ASSUME NEW r \in Runs PROVE Count(r, "completed") <= maxSteps[r]
        BY DEF StepBudgetKept
    <2>1. {k \in Ordinals : steps[r][k] = "completed"} = {}
        OBVIOUS
    <2>2. QED
        BY <2>1, FS_EmptySet DEF Count
<1>5. QED
    BY <1>1, <1>2, <1>3, <1>4 DEF IInv

-----------------------------------------------------------------------------
(* Steps that leave the tables, the worker and the fault counters alone keep   *)
(* the invariant as long as what the API threads will write is sound.          *)
LEMMA RequestIInv ==
    ASSUME IInv, UNCHANGED <<rows, worker, faults>>,
           manifest' \in [Runs -> Manifests],
           request' \in [Requests -> RequestType],
           \A q \in Requests : RequestSound(request'[q])
    PROVE  IInv'
<1> USE DEF IInv, rows, faults
<1>1. TypeOK'
    BY DEF TypeOK
<1>2. RowsSound' /\ RequestsSound' /\ WorkerSound'
    BY DEF RowsSound, RequestsSound, RequestSound, WorkerSound
<1>3. SnapshotSound' /\ SupervisionSound'
    BY DEF SnapshotSound, SupervisionSound, PlanStands, StepStatus, PendingSteps, ActiveSteps,
       Count, Smooth
<1>4. AtMostOneActiveStep' /\ StepRunsAtMostOnce' /\ StepsInOrder' /\ StepBudgetKept'
    BY DEF AtMostOneActiveStep, StepRunsAtMostOnce, StepsInOrder, StepBudgetKept, Count
<1>5. QED
    BY <1>1, <1>2, <1>3, <1>4

(* The update of a request by the read of a transition keeps its type.         *)
LEMMA IntentType ==
    ASSUME NEW p \in RequestType, NEW o \in RequestOps, NEW r \in Runs, NEW s \in RunStatuses
    PROVE  [p EXCEPT !.op = o, !.run = r, !.set = s] \in RequestType
BY DEF RequestType

(* So does that by the read of a plan.                                         *)
LEMMA PlanIntentType ==
    ASSUME NEW p \in RequestType, NEW o \in RequestOps, NEW r \in Runs, NEW s \in RunStatuses,
           NEW n \in 0..MaxOrdinal, NEW a \in BOOLEAN
    PROVE  [p EXCEPT !.op = o, !.run = r, !.set = s, !.length = n, !.auto = a] \in RequestType
BY DEF RequestType

(* And that by the read of an acceptance.                                      *)
LEMMA AcceptIntentType ==
    ASSUME NEW p \in RequestType, NEW o \in RequestOps, NEW r \in Runs, NEW s \in RunStatuses,
           NEW m \in Manifests
    PROVE  [p EXCEPT !.op = o, !.run = r, !.set = s, !.saved = m] \in RequestType
BY DEF RequestType

(* An idle thread.                                                             *)
LEMMA NoRequestType == NoRequest \in RequestType
BY BoundsAssumption DEF RequestType, NoRequest, RequestOps, Manifests

(* The reads of the API threads, with what they intend to write.               *)
LEMMA RequestReadsIInv ==
    ASSUME IInv, NEW q \in Requests, RequestReads(q)
    PROVE  IInv'
<1>1. PICK r \in Runs :
        \/ StartRead(q, r)
        \/ PauseRead(q, r)
        \/ CancelRead(q, r)
        \/ ResumeRead(q, r)
        \/ \E n \in Ordinals, auto \in BOOLEAN : PlanRead(q, r, n, auto)
        \/ AcceptRead(q, r)
    BY DEF RequestReads
<1>2. UNCHANGED <<rows, worker, faults, manifest>>
    BY <1>1 DEF StartRead, PauseRead, CancelRead, ResumeRead, PlanRead, AcceptRead, Reads
<1>3. \E p \in RequestType : RequestSound(p) /\ request' = [request EXCEPT ![q] = p]
    <2>1. ASSUME NEW s \in RunStatuses, status[r] # "absent", Intend(q, r, s)
          PROVE  \E p \in RequestType : RequestSound(p) /\ request' = [request EXCEPT ![q] = p]
        <3> DEFINE p == [NoRequest EXCEPT !.op = "transition", !.run = r, !.set = s]
        <3>1. p \in RequestType
            BY IntentType, NoRequestType DEF RequestOps
        <3>2. RequestSound(p)
            BY <2>1 DEF RequestSound, NoRequest
        <3>3. QED
            BY <2>1, <3>1, <3>2 DEF Intend
    <2>2. "absent" \notin RunStatuses
        BY DEF RunStatuses
    <2>3. CASE StartRead(q, r) \/ PauseRead(q, r) \/ CancelRead(q, r) \/ ResumeRead(q, r)
        <3>1. status[r] # "absent"
            BY <2>2, <2>3 DEF StartRead, PauseRead, CancelRead, ResumeRead, MayStart, RunMay
        <3>2. \E s \in {"running", "paused", "cancelled", "migration_review_required",
                         "workspace_review_required"} : Intend(q, r, s)
            BY <2>3 DEF StartRead, PauseRead, CancelRead, ResumeRead
        <3>3. QED
            BY <2>1, <3>1, <3>2 DEF RunStatuses
    <2>4. ASSUME NEW n \in Ordinals, NEW auto \in BOOLEAN, PlanRead(q, r, n, auto)
          PROVE  \E p \in RequestType : RequestSound(p) /\ request' = [request EXCEPT ![q] = p]
        <3> DEFINE p == [NoRequest EXCEPT !.op = "plan", !.run = r, !.set = "ready",
                                          !.length = n, !.auto = auto]
        <3>1. p \in RequestType
            <4>1. n \in 0..MaxOrdinal /\ "plan" \in RequestOps /\ "ready" \in RunStatuses
                BY BoundsAssumption DEF RequestOps, RunStatuses, Ordinals
            <4>2. QED
                BY <4>1, PlanIntentType, NoRequestType
        <3>2. RequestSound(p)
            BY <2>4 DEF RequestSound, NoRequest, PlanRead, RunStatuses
        <3>3. request' = [request EXCEPT ![q] = p]
            BY <2>4 DEF PlanRead
        <3>4. QED
            BY <3>1, <3>2, <3>3
    <2>5. CASE AcceptRead(q, r)
        <3> DEFINE p == [NoRequest EXCEPT !.op = "accept", !.run = r, !.set = "paused",
                             !.saved = IF status[r] = "migration_review_required"
                                       THEN "missing" ELSE manifest[r]]
        <3>1. manifest[r] \in Manifests
            BY DEF IInv, TypeOK
        <3>2. p \in RequestType
            <4>1. "accept" \in RequestOps /\ "paused" \in RunStatuses /\ "missing" \in Manifests
                BY DEF RequestOps, RunStatuses, Manifests
            <4>2. QED
                BY <3>1, <4>1, AcceptIntentType, NoRequestType
        <3>3. RequestSound(p)
            BY <2>5 DEF RequestSound, NoRequest, AcceptRead, RunStatuses
        <3>4. request' = [request EXCEPT ![q] = p]
            BY <2>5 DEF AcceptRead
        <3>5. QED
            BY <3>2, <3>3, <3>4
    <2>6. QED
        BY <1>1, <2>3, <2>4, <2>5
<1>4. PICK p \in RequestType : RequestSound(p) /\ request' = [request EXCEPT ![q] = p]
    BY <1>3
<1>5. request' \in [Requests -> RequestType] /\ \A t \in Requests : RequestSound(request'[t])
    BY <1>4 DEF IInv, TypeOK, RequestsSound
<1>6. manifest' \in [Runs -> Manifests]
    BY <1>2 DEF IInv, TypeOK
<1>7. QED
    BY <1>2, <1>5, <1>6, RequestIInv
-----------------------------------------------------------------------------
(* What RequestIInv asks, when one thread's intent becomes p.                  *)
LEMMA OneRequest ==
    ASSUME IInv, NEW q \in Requests, NEW p \in RequestType, RequestSound(p),
           request' = [request EXCEPT ![q] = p]
    PROVE  /\ request' \in [Requests -> RequestType]
           /\ \A t \in Requests : RequestSound(request'[t])
BY DEF IInv, TypeOK, RequestsSound

(* The end of a request, and the step to its last manifest, keep it sound.     *)
LEMMA RequestMoves ==
    ASSUME IInv, NEW q \in Requests, NEW o \in RequestOps, request[q].op # "idle"
    PROVE  /\ NoRequest \in RequestType /\ RequestSound(NoRequest)
           /\ [request[q] EXCEPT !.op = o] \in RequestType
           /\ RequestSound([request[q] EXCEPT !.op = o])
<1>1. request[q] \in RequestType /\ RequestSound(request[q])
    BY DEF IInv, TypeOK, RequestsSound
<1>2. [request[q] EXCEPT !.op = o] \in RequestType
    BY <1>1 DEF RequestType
<1>3. RequestSound([request[q] EXCEPT !.op = o])
    BY <1>1 DEF RequestType, RequestSound
<1>4. NoRequest \in RequestType /\ RequestSound(NoRequest)
    BY NoRequestType DEF RequestSound, NoRequest
<1>5. QED
    BY <1>2, <1>3, <1>4

(* A run that exists gets another status; nothing else happens to the tables.  *)
LEMMA StatusIInv ==
    ASSUME IInv, NEW r \in Runs, status[r] # "absent", NEW s \in RunStatuses,
           status' = [status EXCEPT ![r] = s],
           UNCHANGED <<maxSteps, plan, steps, attempts, manifest, worker, faults>>,
           request' \in [Requests -> RequestType],
           \A q \in Requests : RequestSound(request'[q])
    PROVE  IInv'
<1> USE DEF IInv, faults
<1>1. /\ "absent" \notin RunStatuses
      /\ \A t \in Runs : status'[t] = "absent" <=> status[t] = "absent"
    BY DEF RunStatuses, TypeOK
<1>2. TypeOK'
    BY DEF TypeOK
<1>3. RowsSound' /\ RequestsSound' /\ WorkerSound'
    BY <1>1 DEF RowsSound, RequestsSound, RequestSound, WorkerSound
<1>4. SnapshotSound' /\ SupervisionSound'
    BY DEF SnapshotSound, SupervisionSound, PlanStands, StepStatus, PendingSteps, ActiveSteps,
       Count, Smooth
<1>5. AtMostOneActiveStep' /\ StepRunsAtMostOnce' /\ StepsInOrder' /\ StepBudgetKept'
    BY DEF AtMostOneActiveStep, StepRunsAtMostOnce, StepsInOrder, StepBudgetKept, Count
<1>6. QED
    BY <1>2, <1>3, <1>4, <1>5

(* A new run has no steps, and neither the worker nor an API thread knows it.  *)
LEMMA CreateRunIInv ==
    ASSUME IInv, NEW r \in Runs, NEW limit \in Ordinals, CreateRun(r, limit)
    PROVE  IInv'
<1> USE DEF IInv, CreateRun, faults
<1>1. TypeOK'
    BY DEF TypeOK, RunStatuses, Manifests
<1>2. RowsSound' /\ RequestsSound'
    BY DEF TypeOK, RowsSound, RequestsSound, RequestSound
<1>3. worker.pc # "idle" => worker.run # r
    BY DEF WorkerSound
<1>4. WorkerSound'
    BY <1>3 DEF TypeOK, WorkerSound, InLoop, Starting, Working
<1>5. SnapshotSound' /\ SupervisionSound'
    BY DEF SnapshotSound, SupervisionSound, PlanStands, StepStatus, PendingSteps, ActiveSteps,
       Count, Smooth
<1>6. AtMostOneActiveStep' /\ StepRunsAtMostOnce' /\ StepsInOrder'
    BY DEF AtMostOneActiveStep, StepRunsAtMostOnce, StepsInOrder
<1>7. StepBudgetKept'
    <2> SUFFICES ASSUME NEW t \in Runs PROVE Count(t, "completed") <= maxSteps'[t]
        BY DEF StepBudgetKept, Count
    <2>1. CASE t # r
        BY <2>1 DEF StepBudgetKept, TypeOK
    <2>2. CASE t = r
        <3>1. {k \in Ordinals : steps[r][k] = "completed"} = {}
            BY DEF RowsSound
        <3>2. Count(t, "completed") = 0
            BY <2>2, <3>1, FS_EmptySet DEF Count
        <3>3. QED
            <4>1. maxSteps'[t] \in Nat
                BY <1>1, Numbers DEF TypeOK
            <4>2. QED
                BY <3>2, <4>1
    <2>3. QED
        BY <2>1, <2>2
<1>8. QED
    BY <1>1, <1>2, <1>4, <1>5, <1>6, <1>7

(* A new plan: its steps are pending, and the worker's plan stands no more.    *)
LEMMA PlanWriteIInv ==
    ASSUME IInv, NEW q \in Requests, PlanWrite(q)
    PROVE  IInv'
<1> DEFINE p == request[q]
           new == [k \in Ordinals |-> IF k <= p.length THEN "pending" ELSE "none"]
<1> USE DEF IInv
<1>1. /\ p.run \in Runs /\ status[p.run] # "absent" /\ p.set \in RunStatuses
      /\ p \in RequestType
    BY DEF PlanWrite, TypeOK, RequestsSound, RequestSound
<1>2. /\ plan[p.run] < MaxPlans
      /\ plan' = [plan EXCEPT ![p.run] = @ + 1]
      /\ steps' = [steps EXCEPT ![p.run] = new]
      /\ attempts' = [attempts EXCEPT ![p.run] = [k \in Ordinals |-> 0]]
      /\ status' = [status EXCEPT ![p.run] = p.set]
      /\ manifest' = [manifest EXCEPT ![p.run] = "current"]
      /\ request' = [request EXCEPT ![q].op = "refresh"]
      /\ UNCHANGED <<maxSteps, worker, restarts, failures>>
    BY DEF PlanWrite, faults
<1> HIDE DEF p
<1>3. new \in [Ordinals -> {"pending", "none"}]
    OBVIOUS
<1>4. TypeOK'
    <2>1. steps' \in [Runs -> [Ordinals -> StepStatuses \cup {"none"}]]
        BY <1>1, <1>2, <1>3 DEF TypeOK, StepStatuses
    <2>2. attempts' \in [Runs -> [Ordinals -> Nat]]
        BY <1>1, <1>2 DEF TypeOK
    <2>3. request' \in [Requests -> RequestType]
        <3>1. p.op # "idle" /\ "refresh" \in RequestOps
            BY DEF PlanWrite, RequestOps, p
        <3>2. request' = [request EXCEPT ![q] = [request[q] EXCEPT !.op = "refresh"]]
            BY <1>2 DEF TypeOK
        <3>3. QED
            BY <3>1, <3>2, RequestMoves, OneRequest DEF p
    <2>4. plan' \in [Runs -> 0..MaxPlans]
        BY <1>1, <1>2, BoundsAssumption DEF TypeOK
    <2>5. QED
        BY <1>1, <1>2, <2>1, <2>2, <2>3, <2>4 DEF TypeOK, Manifests
<1> HIDE DEF new
<1>5. /\ "absent" \notin RunStatuses
      /\ \A t \in Runs : status'[t] = "absent" <=> status[t] = "absent"
    BY <1>1, <1>2 DEF RunStatuses, TypeOK
<1>6. RowsSound' /\ RequestsSound'
    <2>1. RowsSound'
        BY <1>1, <1>2, <1>3, <1>5 DEF TypeOK, RowsSound
    <2>2. ASSUME NEW t \in Requests PROVE RequestSound(request[t])'
        BY <1>1, <1>2, <1>5 DEF TypeOK, RequestsSound, RequestSound, RequestType, p
    <2>3. QED
        BY <2>1, <2>2 DEF RequestsSound
<1>7. WorkerSound'
    BY <1>1, <1>2, <1>5 DEF TypeOK, WorkerSound, InLoop, Starting, Working, WorkerType
<1>8. worker.pc \in InLoop /\ worker.run = p.run => ~PlanStands'
    BY <1>1, <1>2 DEF TypeOK, WorkerSound, PlanStands, WorkerType
<1>9. SnapshotSound'
    <2> SUFFICES ASSUME worker.pc \in InLoop, PlanStands' PROVE SnapshotSound'
        BY <1>2 DEF SnapshotSound
    <2>1. worker.run \in Runs /\ worker.run # p.run
        BY <1>8 DEF WorkerSound, InLoop, Starting, Working
    <2>2. steps'[worker.run] = steps[worker.run] /\ plan'[worker.run] = plan[worker.run]
        BY <1>2, <2>1 DEF TypeOK
    <2>3. QED
        <3>1. /\ PendingSteps(worker.run)' = PendingSteps(worker.run)
              /\ ActiveSteps(worker.run)' = ActiveSteps(worker.run)
              /\ StepStatus' = StepStatus /\ PlanStands
            BY <1>2, <2>2 DEF PlanStands, StepStatus, PendingSteps, ActiveSteps
        <3>2. {k \in Ordinals : steps'[worker.run][k] = "completed"}
                = {k \in Ordinals : steps[worker.run][k] = "completed"}
            BY <2>2
        <3>3. Count(worker.run, "completed")' = Count(worker.run, "completed")
            BY <1>2, <3>2 DEF Count
        <3>4. QED
            BY <1>2, <3>1, <3>3 DEF SnapshotSound
<1>10. SupervisionSound'
    BY <1>1, <1>2, <1>3 DEF TypeOK, SupervisionSound, Smooth
<1>11. AtMostOneActiveStep' /\ StepRunsAtMostOnce'
    BY <1>1, <1>2, <1>3 DEF TypeOK, AtMostOneActiveStep, StepRunsAtMostOnce
<1>12. StepsInOrder'
    BY <1>1, <1>2, <1>3 DEF TypeOK, StepsInOrder
<1>13. StepBudgetKept'
    <2> SUFFICES ASSUME NEW t \in Runs PROVE (Count(t, "completed") <= maxSteps[t])'
        BY DEF StepBudgetKept
    <2>1. CASE t # p.run
        BY <1>2, <2>1 DEF TypeOK, StepBudgetKept, Count
    <2>2. CASE t = p.run
        <3>1. {k \in Ordinals : steps'[t][k] = "completed"} = {}
            BY <1>1, <1>2, <1>3, <2>2 DEF TypeOK
        <3>2. Count(t, "completed")' = 0
            BY <3>1, FS_EmptySet DEF Count
        <3>3. QED
            <4>1. maxSteps'[t] \in Nat
                BY <1>4, Numbers DEF TypeOK
            <4>2. QED
                BY <3>2, <4>1
    <2>3. QED
        BY <2>1, <2>2
<1>14. QED
    BY <1>4, <1>6, <1>7, <1>9, <1>10, <1>11, <1>12, <1>13

(* The writes of the API threads.                                              *)
LEMMA RequestWritesIInv ==
    ASSUME IInv, NEW q \in Requests, RequestWrites(q)
    PROVE  IInv'
<1> DEFINE p == request[q]
<1>1. p \in RequestType /\ RequestSound(p) /\ manifest \in [Runs -> Manifests]
    BY DEF IInv, TypeOK, RequestsSound
<1>2. /\ request \in [Requests -> RequestType]
      /\ \A o : [request EXCEPT ![q].op = o] = [request EXCEPT ![q] = [p EXCEPT !.op = o]]
    BY DEF IInv, TypeOK
<1>3. {"current", "drifted", "missing"} \subseteq Manifests /\ {"accepted", "refresh"} \subseteq RequestOps
    BY DEF Manifests, RequestOps
<1> HIDE DEF p
<1>4. CASE TransitionWrite(q)
    <2>1. /\ p.op = "transition" /\ status' = [status EXCEPT ![p.run] = p.set]
          /\ request' = [request EXCEPT ![q] = NoRequest]
          /\ UNCHANGED <<maxSteps, plan, steps, attempts, manifest, worker, faults>>
        BY <1>4 DEF TransitionWrite, Finished, p
    <2>2. p.run \in Runs /\ status[p.run] # "absent" /\ p.set \in RunStatuses
        BY <1>1, <2>1 DEF RequestSound
    <2>3. NoRequest \in RequestType /\ RequestSound(NoRequest)
        BY NoRequestType DEF RequestSound, NoRequest
    <2>4. QED
        BY <2>1, <2>2, <2>3, OneRequest, StatusIInv
<1>5. CASE AcceptBaseline(q)
    <2>1. /\ p.op = "accept" /\ manifest' = [manifest EXCEPT ![p.run] = "current"]
          /\ request' = [request EXCEPT ![q] = [p EXCEPT !.op = "accepted"]]
          /\ UNCHANGED <<rows, worker, faults>>
        BY <1>2, <1>5 DEF AcceptBaseline, p
    <2>2. /\ [p EXCEPT !.op = "accepted"] \in RequestType
          /\ RequestSound([p EXCEPT !.op = "accepted"])
        BY <1>3, <2>1, RequestMoves DEF p
    <2>3. manifest' \in [Runs -> Manifests]
        BY <1>1, <1>3, <2>1
    <2>4. QED
        BY <2>1, <2>2, <2>3, OneRequest, RequestIInv
<1>6. CASE AcceptWrite(q)
    <2>1. /\ p.op = "accepted" /\ status' = [status EXCEPT ![p.run] = p.set]
          /\ request' = [request EXCEPT ![q] = [p EXCEPT !.op = "refresh"]]
          /\ UNCHANGED <<maxSteps, plan, steps, attempts, manifest, worker, faults>>
        BY <1>2, <1>6 DEF AcceptWrite, p
    <2>2. p.run \in Runs /\ status[p.run] # "absent" /\ p.set \in RunStatuses
        BY <1>1, <2>1 DEF RequestSound
    <2>3. [p EXCEPT !.op = "refresh"] \in RequestType /\ RequestSound([p EXCEPT !.op = "refresh"])
        BY <1>3, <2>1, RequestMoves DEF p
    <2>4. QED
        BY <2>1, <2>2, <2>3, OneRequest, StatusIInv
<1>7. CASE Refresh(q)
    <2>1. /\ p.op = "refresh" /\ manifest' = [manifest EXCEPT ![p.run] = "current"]
          /\ Intend(q, p.run, "running") \/ Finished(q)
          /\ UNCHANGED <<rows, worker, faults>>
        BY <1>7 DEF Refresh, p
    <2> DEFINE go == [NoRequest EXCEPT !.op = "transition", !.run = p.run, !.set = "running"]
    <2>2. p.run \in Runs /\ status[p.run] # "absent"
        BY <1>1, <2>1 DEF RequestSound
    <2>3. go \in RequestType
        BY <2>2, IntentType, NoRequestType DEF RequestOps, RunStatuses
    <2>4. RequestSound(go)
        BY <2>2 DEF RequestSound, NoRequest, RunStatuses
    <2>5. NoRequest \in RequestType /\ RequestSound(NoRequest)
        BY NoRequestType DEF RequestSound, NoRequest
    <2>6. request' = [request EXCEPT ![q] = go] \/ request' = [request EXCEPT ![q] = NoRequest]
        BY <2>1 DEF Intend, Finished
    <2>7. /\ request' \in [Requests -> RequestType]
          /\ \A t \in Requests : RequestSound(request'[t])
        BY <2>3, <2>4, <2>5, <2>6, OneRequest
    <2>8. manifest' \in [Runs -> Manifests]
        BY <1>1, <1>3, <2>1
    <2>9. QED
        BY <2>1, <2>7, <2>8, RequestIInv
<1>8. CASE RequestFails(q)
    <2>1. /\ manifest' \in {[manifest EXCEPT ![p.run] = p.saved], manifest}
          /\ request' = [request EXCEPT ![q] = NoRequest]
          /\ UNCHANGED <<rows, worker, faults>>
        BY <1>8 DEF RequestFails, Finished, p
    <2>2. p.saved \in Manifests
        BY <1>1 DEF RequestType
    <2>3. manifest' \in [Runs -> Manifests]
        BY <1>1, <2>1, <2>2
    <2>4. NoRequest \in RequestType /\ RequestSound(NoRequest)
        BY NoRequestType DEF RequestSound, NoRequest
    <2>5. QED
        BY <2>1, <2>3, <2>4, OneRequest, RequestIInv
<1>9. QED
    BY <1>4, <1>5, <1>6, <1>7, <1>8, PlanWriteIInv DEF RequestWrites

(* Edits of the workspace concern the manifest only.                           *)
LEMMA EnvironmentIInv ==
    ASSUME IInv, Environment
    PROVE  IInv'
<1>1. manifest' \in [Runs -> Manifests] /\ UNCHANGED <<rows, request, worker, faults>>
    BY DEF IInv, TypeOK, Environment, EditWorkspace, LoseManifest, HostActionCompleted, Manifests
<1>2. request' \in [Requests -> RequestType] /\ \A t \in Requests : RequestSound(request'[t])
    BY <1>1 DEF IInv, TypeOK, RequestsSound
<1>3. QED
    BY <1>1, <1>2, RequestIInv

-----------------------------------------------------------------------------
(* The worker.  A step of it that leaves the tables alone keeps the invariant  *)
(* if it keeps the parts about the worker.                                     *)
LEMMA WorkerIInv ==
    ASSUME IInv, WorkerOnly, worker' \in WorkerType,
           WorkerSound', SnapshotSound', SupervisionSound'
    PROVE  IInv'
<1> USE DEF IInv, WorkerOnly, rows, faults
<1>1. TypeOK'
    BY DEF TypeOK
<1>2. RowsSound' /\ RequestsSound'
    BY DEF RowsSound, RequestsSound, RequestSound
<1>3. AtMostOneActiveStep' /\ StepRunsAtMostOnce' /\ StepsInOrder' /\ StepBudgetKept'
    BY DEF AtMostOneActiveStep, StepRunsAtMostOnce, StepsInOrder, StepBudgetKept, Count
<1>4. QED
    BY <1>1, <1>2, <1>3

(* The type of the resting worker.                                             *)
LEMMA IdleWorkerType == IdleWorker \in WorkerType
BY BoundsAssumption DEF IdleWorker, WorkerType, WorkerPlaces

(* Outside the step's work, or when the plan was replaced, no active step is   *)
(* in the worker's hands, so that it may let go.                               *)
LEMMA LetGo ==
    ASSUME IInv, worker.pc \notin Working \/ ~PlanStands
    PROVE  Smooth => \A r \in Runs, k \in Ordinals : steps[r][k] # "active"
BY DEF IInv, SupervisionSound, PlanStands

(* The worker ends its pass.                                                   *)
LEMMA RestIInv ==
    ASSUME IInv, WorkerOnly, Rest, worker.pc \notin Working \/ ~PlanStands
    PROVE  IInv'
<1>1. worker' = IdleWorker
    BY DEF Rest
<1>2. worker' \in WorkerType
    BY <1>1, IdleWorkerType
<1>3. WorkerSound' /\ SnapshotSound'
    BY <1>1 DEF WorkerSound, SnapshotSound, IdleWorker, InLoop, Starting, Working
<1>4. SupervisionSound'
    BY LetGo DEF SupervisionSound, WorkerOnly, rows, faults, Smooth
<1>5. QED
    BY <1>2, <1>3, <1>4, WorkerIInv

(* The worker leaves the loop for the end of the pass.                         *)
LEMMA LeaveIInv ==
    ASSUME IInv, WorkerOnly, NEW pc \in {"finish", "completeRun"}, Goto(pc),
           worker.pc # "idle", worker.pc \notin Working
    PROVE  IInv'
<1>1. worker' = [worker EXCEPT !.pc = pc] /\ worker \in WorkerType
    BY DEF Goto, IInv, TypeOK
<1>2. worker' \in WorkerType
    BY <1>1 DEF WorkerType, WorkerPlaces
<1>3. worker'.pc = pc /\ worker'.run = worker.run
    BY <1>1 DEF WorkerType
<1>4. WorkerSound' /\ SnapshotSound'
    BY <1>3 DEF IInv, WorkerOnly, rows, WorkerSound, SnapshotSound, InLoop, Starting, Working
<1>5. SupervisionSound'
    BY LetGo DEF SupervisionSound, WorkerOnly, rows, faults, Smooth
<1>6. QED
    BY <1>2, <1>4, <1>5, WorkerIInv

(* The worker goes on with the step it works on.                               *)
LEMMA WorkingIInv ==
    ASSUME IInv, WorkerOnly, NEW pc \in Working, Goto(pc), worker.pc \in Working
    PROVE  IInv'
<1>1. worker' = [worker EXCEPT !.pc = pc] /\ worker \in WorkerType
    BY DEF Goto, IInv, TypeOK
<1>2. worker' \in WorkerType
    BY <1>1 DEF WorkerType, WorkerPlaces, Working
<1>3. /\ worker'.pc = pc /\ worker'.run = worker.run /\ worker'.plan = worker.plan
      /\ worker'.pending = worker.pending /\ worker'.step = worker.step
      /\ worker'.done = worker.done
    BY <1>1 DEF WorkerType
<1>4. WorkerSound'
    BY <1>3 DEF IInv, WorkerOnly, rows, WorkerSound, InLoop, Starting, Working
<1>5. SnapshotSound'
    BY <1>3 DEF IInv, WorkerOnly, rows, SnapshotSound, InLoop, Starting, Working, PlanStands,
       StepStatus, PendingSteps, ActiveSteps, Count
<1>6. SupervisionSound'
    BY <1>3 DEF IInv, SupervisionSound, WorkerOnly, rows, faults, Smooth
<1>7. QED
    BY <1>2, <1>4, <1>5, <1>6, WorkerIInv

(* The worker takes up a running run.                                          *)
LEMMA WorkerPicksIInv ==
    ASSUME IInv, NEW r \in Runs, WorkerPicks(r)
    PROVE  IInv'
<1>1. /\ worker' = [IdleWorker EXCEPT !.pc = "snapshot", !.run = r]
      /\ worker.pc = "idle" /\ status[r] = "running" /\ WorkerOnly
    BY DEF WorkerPicks, NextRun
<1>2. worker' \in WorkerType
    BY <1>1, IdleWorkerType DEF WorkerType, WorkerPlaces
<1>3. worker'.pc = "snapshot" /\ worker'.run = r
    BY <1>1 DEF IdleWorker
<1>4. WorkerSound' /\ SnapshotSound'
    BY <1>1, <1>3 DEF WorkerOnly, rows, WorkerSound, SnapshotSound, InLoop, Starting, Working
<1>5. SupervisionSound'
    BY <1>1, LetGo DEF SupervisionSound, WorkerOnly, rows, faults, Smooth, Working
<1>6. QED
    BY <1>1, <1>2, <1>4, <1>5, WorkerIInv

(* The snapshot is exact when it is taken, and the loop is entered only below  *)
(* max_steps.                                                                  *)
LEMMA WorkerListsIInv ==
    ASSUME IInv, WorkerLists
    PROVE  IInv'
<1> DEFINE r == worker.run
           completed == Count(r, "completed")
           pc == IF completed >= maxSteps[r] THEN "completeRun" ELSE "loop"
<1>1. /\ worker.pc = "snapshot" /\ WorkerOnly
      /\ worker' = [worker EXCEPT !.pc = pc, !.plan = plan[r],
                                  !.pending = PendingSteps(r), !.done = completed]
    BY DEF WorkerLists, PendingSteps
<1>2. worker \in WorkerType /\ r \in Runs /\ status[r] # "absent" /\ maxSteps[r] \in Nat
    BY <1>1, Numbers DEF IInv, TypeOK, WorkerSound
<1>3. completed \in Nat
    BY <1>2, CountType
<1>4. plan[r] \in 0..MaxPlans /\ PendingSteps(r) \in SUBSET Ordinals
    BY <1>2 DEF IInv, TypeOK, PendingSteps
<1> HIDE DEF completed
<1>5. worker' \in WorkerType
    BY <1>1, <1>2, <1>3, <1>4 DEF WorkerType, WorkerPlaces
<1>6. /\ worker'.pc = pc /\ worker'.run = r /\ worker'.plan = plan[r]
      /\ worker'.pending = PendingSteps(r) /\ worker'.done = completed
    BY <1>1, <1>2 DEF WorkerType
<1>7. WorkerSound'
    BY <1>1, <1>2, <1>3, <1>4, <1>6, BoundsAssumption DEF WorkerOnly, rows, WorkerSound, InLoop, Starting, Working
<1>8. SnapshotSound'
    BY <1>1, <1>6 DEF WorkerOnly, rows, SnapshotSound, InLoop, Starting, Working, PlanStands,
       PendingSteps, Count, completed
<1>9. SupervisionSound'
    BY <1>1, LetGo DEF SupervisionSound, WorkerOnly, rows, faults, Smooth, Working
<1>10. QED
    BY <1>1, <1>5, <1>7, <1>8, <1>9, WorkerIInv

(* The loop leaves, rests, or turns to the first step that is pending.         *)
LEMMA WorkerLoopsIInv ==
    ASSUME IInv, WorkerLoops
    PROVE  IInv'
<1>1. worker.pc = "loop" /\ WorkerOnly
    BY DEF WorkerLoops
<1>2. worker.pc \notin Working /\ worker.pc # "idle"
    BY <1>1 DEF Working
<1>3. CASE Goto("finish")
    BY <1>1, <1>2, <1>3, LeaveIInv
<1>4. CASE Rest
    BY <1>1, <1>2, <1>4, RestIInv
<1>5. ASSUME NEW k \in worker.pending, NextInPlan(k),
             worker' = [worker EXCEPT !.pc = "activate", !.step = k, !.pending = @ \ {k}]
      PROVE  IInv'
    <2>1. worker \in WorkerType /\ k \in Ordinals /\ worker.pending \subseteq Ordinals
        BY DEF IInv, TypeOK, WorkerType
    <2>2. worker' \in WorkerType
        BY <1>5, <2>1 DEF WorkerType, WorkerPlaces
    <2>3. /\ worker'.pc = "activate" /\ worker'.run = worker.run /\ worker'.plan = worker.plan
          /\ worker'.pending = worker.pending \ {k} /\ worker'.step = k
          /\ worker'.done = worker.done
        BY <1>5, <2>1 DEF WorkerType
    <2>4. WorkerSound'
        BY <1>1, <2>1, <2>3 DEF IInv, WorkerOnly, rows, WorkerSound, InLoop, Starting, Working
    <2>5. worker.pending = worker'.pending \cup {k} /\ \A l \in worker'.pending : k < l
        BY <1>5, <2>1, <2>3, Numbers DEF NextInPlan
    <2>6. SnapshotSound'
        BY <1>1, <2>3, <2>5 DEF IInv, WorkerOnly, rows, SnapshotSound, InLoop, Starting, Working,
           PlanStands, PendingSteps, Count
    <2>7. SupervisionSound'
        BY <1>1, <1>2, LetGo DEF SupervisionSound, WorkerOnly, rows, faults, Smooth
    <2>8. QED
        BY <1>1, <2>2, <2>4, <2>6, <2>7, WorkerIInv
<1>6. QED
    BY <1>3, <1>4, <1>5 DEF WorkerLoops

(* What activate_step reads is the run's status, and that no step is active.   *)
LEMMA ActivateReadIInv ==
    ASSUME IInv, ActivateRead
    PROVE  IInv'
<1>1. worker.pc = "activate" /\ WorkerOnly
    BY DEF ActivateRead
<1>2. CASE Rest
    BY <1>1, <1>2, RestIInv DEF Working
<1>3. ASSUME PlanStands, ActiveSteps(worker.run) \subseteq {worker.step},
             StepMay(StepStatus, "active"),
             worker' = [worker EXCEPT !.pc = "activating", !.set = status[worker.run]]
      PROVE  IInv'
    <2>1. worker \in WorkerType /\ worker.run \in Runs /\ status[worker.run] \in RunStatuses
        BY <1>1 DEF IInv, TypeOK, WorkerSound
    <2>2. worker' \in WorkerType
        BY <1>3, <2>1 DEF WorkerType, WorkerPlaces
    <2>3. /\ worker'.pc = "activating" /\ worker'.run = worker.run /\ worker'.plan = worker.plan
          /\ worker'.pending = worker.pending /\ worker'.step = worker.step
          /\ worker'.done = worker.done /\ worker'.set = status[worker.run]
        BY <1>3, <2>1 DEF WorkerType
    <2>4. WorkerSound'
        BY <1>1, <2>1, <2>3 DEF IInv, WorkerOnly, rows, WorkerSound, InLoop, Starting, Working
    <2>5. StepStatus # "active"
        BY <1>3 DEF StepMay, StepTransitions, StepStatuses
    <2>6. ActiveSteps(worker.run) = {}
        BY <1>3, <2>5 DEF ActiveSteps, StepStatus
    <2>7. SnapshotSound'
        BY <1>1, <2>3, <2>6 DEF IInv, WorkerOnly, rows, SnapshotSound, InLoop, Starting, Working,
           PlanStands, PendingSteps, ActiveSteps, Count
    <2>8. SupervisionSound'
        BY <1>1, LetGo DEF SupervisionSound, WorkerOnly, rows, faults, Smooth, Working
    <2>9. QED
        BY <1>1, <2>2, <2>4, <2>7, <2>8, WorkerIInv
<1>4. QED
    BY <1>2, <1>3 DEF ActivateRead

(* A started step is worked on, whatever its outcome will be.                  *)
LEMMA StepWorkIInv ==
    ASSUME IInv, StepBegins \/ StepEnds
    PROVE  IInv'
<1>1. worker.pc \in Working /\ WorkerOnly
    BY DEF StepBegins, StepEnds, Working
<1>2. \E pc \in Working : Goto(pc)
    BY DEF StepBegins, StepEnds, Working
<1>3. QED
    BY <1>1, <1>2, WorkingIInv

(* While the plan stands the step at hand is active, so that it may be         *)
(* completed or failed; the worker gives up only on a replaced plan.           *)
LEMMA StepReadIInv ==
    ASSUME IInv, NEW pc \in {"complete", "fail", "timeout"}, NEW next \in Working,
           NEW to \in {"completed", "failed"}, StepRead(pc, next, to)
    PROVE  IInv'
<1>1. worker.pc \in Working /\ WorkerOnly
    BY DEF StepRead, Working
<1>2. PlanStands => StepMay(StepStatus, to)
    BY <1>1 DEF IInv, SnapshotSound, InLoop, Starting, Working, StepMay, StepTransitions, StepStatuses
<1>3. CASE Goto(next)
    BY <1>1, <1>3, WorkingIInv
<1>4. CASE Rest /\ ~PlanStands
    BY <1>1, <1>4, RestIInv
<1>5. QED
    BY <1>2, <1>3, <1>4 DEF StepRead

(* After a completed step the worker counts it and goes on, leaves the loop    *)
(* at max_steps, or rests.                                                     *)
LEMMA StepCompletedIInv ==
    ASSUME IInv, StepCompleted
    PROVE  IInv'
<1>1. worker.pc = "completed" /\ WorkerOnly
    BY DEF StepCompleted
<1>2. CASE Rest
    BY <1>1, <1>2, RestIInv DEF Working
<1> DEFINE pc == IF worker.done + 1 >= maxSteps[worker.run] THEN "finish" ELSE "loop"
<1>3. CASE worker' = [worker EXCEPT !.done = @ + 1, !.step = None, !.pc = pc]
    <2>1. /\ worker \in WorkerType /\ worker.run \in Runs /\ worker.done \in Nat
          /\ maxSteps[worker.run] \in Nat
        BY <1>1, Numbers DEF IInv, TypeOK, WorkerSound, WorkerType
    <2>2. worker' \in WorkerType
        <3>1. pc \in WorkerPlaces /\ worker.done + 1 \in Nat /\ None \in Ordinals \cup {None}
            BY <2>1 DEF WorkerPlaces
        <3> HIDE DEF pc
        <3>2. QED
            BY <1>3, <2>1, <3>1 DEF WorkerType
    <2>3. /\ worker'.pc = pc /\ worker'.run = worker.run /\ worker'.plan = worker.plan
          /\ worker'.pending = worker.pending /\ worker'.done = worker.done + 1
        BY <1>3, <2>1 DEF WorkerType
    <2>4. WorkerSound'
        BY <1>1, <2>1, <2>3 DEF IInv, WorkerOnly, rows, WorkerSound, InLoop, Starting, Working
    <2>5. SnapshotSound'
        BY <1>1, <2>3 DEF IInv, WorkerOnly, rows, SnapshotSound, InLoop, Starting, Working,
           PlanStands, PendingSteps, Count
    <2>6. SupervisionSound'
        BY <1>1, LetGo DEF SupervisionSound, WorkerOnly, rows, faults, Smooth, Working
    <2>7. QED
        BY <1>1, <2>2, <2>4, <2>5, <2>6, WorkerIInv
<1>4. QED
    BY <1>2, <1>3 DEF StepCompleted

(* The end of the pass.                                                        *)
LEMMA PassEndsIInv ==
    ASSUME IInv, PassEnds
    PROVE  IInv'
<1>1. /\ worker.pc = "finish" /\ worker.pc \notin Working /\ WorkerOnly
      /\ Goto("completeRun") \/ Rest
    BY DEF PassEnds, Working
<1>2. QED
    BY <1>1, LeaveIInv, RestIInv

(* complete_run, fail_run and pause_run read a run that exists.                *)
LEMMA RunReadIInv ==
    ASSUME IInv, NEW pc \in {"completeRun", "failRun", "pauseRun"},
           NEW to \in {"completed", "failed", "paused"}, RunRead(pc, to)
    PROVE  IInv'
<1>1. worker.pc = pc /\ worker.pc \notin Working /\ worker.pc # "idle" /\ WorkerOnly
    BY DEF RunRead, Working
<1>2. CASE Rest
    BY <1>1, <1>2, RestIInv
<1>3. CASE worker' = [worker EXCEPT !.pc = "writeRun", !.set = to]
    <2>1. worker \in WorkerType /\ to \in RunStatuses
        BY DEF IInv, TypeOK, RunStatuses
    <2>2. worker' \in WorkerType
        BY <1>3, <2>1 DEF WorkerType, WorkerPlaces
    <2>3. worker'.pc = "writeRun" /\ worker'.run = worker.run /\ worker'.set = to
        BY <1>3, <2>1 DEF WorkerType
    <2>4. WorkerSound' /\ SnapshotSound'
        BY <1>1, <2>1, <2>3 DEF IInv, WorkerOnly, rows, WorkerSound, SnapshotSound, InLoop,
           Starting, Working
    <2>5. SupervisionSound'
        BY <1>1, LetGo DEF SupervisionSound, WorkerOnly, rows, faults, Smooth
    <2>6. QED
        BY <1>1, <2>2, <2>4, <2>5, WorkerIInv
<1>4. QED
    BY <1>2, <1>3 DEF RunRead

(* The worker lets go of everything, while statuses or the fault counters may  *)
(* change: sound when an active step that is left behind is blamed on a fault. *)
LEMMA StopIInv ==
    ASSUME IInv,
           status' \in [Runs -> RunStatuses \cup {"absent"}],
           \A r \in Runs : status'[r] = "absent" <=> status[r] = "absent",
           UNCHANGED <<maxSteps, plan, steps, attempts, manifest>>,
           request' \in [Requests -> RequestType],
           \A q \in Requests : RequestSound(request'[q]),
           worker' = IdleWorker,
           restarts' \in 0..MaxRestarts, failures' \in 0..MaxFailures,
           Smooth' => \A r \in Runs, k \in Ordinals : steps[r][k] # "active"
    PROVE  IInv'
<1> USE DEF IInv
<1>1. TypeOK'
    BY IdleWorkerType DEF TypeOK
<1>2. RowsSound' /\ RequestsSound'
    <2>1. \A q \in Requests : request'[q].op # "idle" => request'[q].run \in Runs
        BY DEF RequestSound
    <2>2. QED
        BY <2>1 DEF RowsSound, RequestsSound, RequestSound
<1>3. WorkerSound' /\ SnapshotSound'
    BY DEF WorkerSound, SnapshotSound, IdleWorker, InLoop, Starting, Working
<1>4. SupervisionSound'
    BY DEF SupervisionSound
<1>5. AtMostOneActiveStep' /\ StepRunsAtMostOnce' /\ StepsInOrder' /\ StepBudgetKept'
    BY DEF AtMostOneActiveStep, StepRunsAtMostOnce, StepsInOrder, StepBudgetKept, Count
<1>6. QED
    BY <1>1, <1>2, <1>3, <1>4, <1>5

(* complete_run, fail_run and pause_run write the status they decided on.      *)
LEMMA RunWriteIInv ==
    ASSUME IInv, RunWrite
    PROVE  IInv'
<1>1. /\ worker.pc = "writeRun" /\ worker.pc \notin Working
      /\ worker' = IdleWorker
      /\ status' = [status EXCEPT ![worker.run] = worker.set]
      /\ UNCHANGED <<maxSteps, plan, steps, attempts, manifest, request, restarts, failures>>
    BY DEF RunWrite, Rest, Working, faults
<1>2. worker.run \in Runs /\ status[worker.run] # "absent" /\ worker.set \in RunStatuses
    BY <1>1 DEF IInv, WorkerSound
<1>3. /\ status' \in [Runs -> RunStatuses \cup {"absent"}]
      /\ \A r \in Runs : status'[r] = "absent" <=> status[r] = "absent"
    BY <1>1, <1>2 DEF IInv, TypeOK, RunStatuses
<1>4. Smooth' => \A r \in Runs, k \in Ordinals : steps[r][k] # "active"
    BY <1>1, LetGo DEF Smooth
<1>5. /\ request' \in [Requests -> RequestType] /\ \A q \in Requests : RequestSound(request'[q])
      /\ restarts' \in 0..MaxRestarts /\ failures' \in 0..MaxFailures
    BY <1>1 DEF IInv, TypeOK, RequestsSound
<1>6. QED
    BY <1>1, <1>3, <1>4, <1>5, StopIInv

(* A transaction of the worker fails.                                          *)
LEMMA WorkerFailsIInv ==
    ASSUME IInv, WorkerFails
    PROVE  IInv'
<1>1. /\ failures < MaxFailures /\ failures' = failures + 1 /\ worker' = IdleWorker
      /\ UNCHANGED <<status, maxSteps, plan, steps, attempts, manifest, request, restarts>>
    BY DEF WorkerFails, Rest, rows
<1>2. /\ request' \in [Requests -> RequestType] /\ \A q \in Requests : RequestSound(request'[q])
      /\ status' \in [Runs -> RunStatuses \cup {"absent"}]
      /\ restarts' \in 0..MaxRestarts
    BY <1>1 DEF IInv, TypeOK, RequestsSound
<1>3. failures' \in 0..MaxFailures /\ ~Smooth'
    BY <1>1, BoundsAssumption DEF IInv, TypeOK, Smooth
<1>4. QED
    BY <1>1, <1>2, <1>3, StopIInv

(* A restart ends all threads and recovers runs; it is a fault by itself.      *)
LEMMA RestartIInv ==
    ASSUME IInv, Restart
    PROVE  IInv'
<1>1. /\ restarts < MaxRestarts /\ restarts' = restarts + 1
      /\ request' = [q \in Requests |-> NoRequest] /\ worker' = IdleWorker
      /\ UNCHANGED <<maxSteps, plan, steps, attempts, manifest>>
    BY DEF Restart
<1>2. PICK lost \in SUBSET {r \in Runs : status[r] = "running"} :
        /\ failures + Cardinality(lost) <= MaxFailures
        /\ failures' = failures + Cardinality(lost)
        /\ status' = [r \in Runs |-> IF status[r] = "running" /\ r \notin lost
                                     THEN "paused_recovery" ELSE status[r]]
    BY DEF Restart
<1>3. /\ status' \in [Runs -> RunStatuses \cup {"absent"}]
      /\ \A r \in Runs : status'[r] = "absent" <=> status[r] = "absent"
    BY <1>2 DEF IInv, TypeOK, RunStatuses
<1>4. restarts' \in 0..MaxRestarts /\ ~Smooth'
    BY <1>1, BoundsAssumption DEF IInv, TypeOK, Smooth
<1>5. failures' \in 0..MaxFailures
    <2>1. IsFiniteSet(Runs)
        BY BoundsAssumption, FS_Interval DEF Runs
    <2>2. IsFiniteSet(lost)
        <3>1. lost \subseteq Runs
            BY <1>2
        <3>2. QED
            BY <2>1, <3>1, FS_Subset
    <2>3. Cardinality(lost) \in Nat
        BY <2>2, FS_CardinalityType
    <2>4. QED
        BY <1>2, <2>3, BoundsAssumption DEF IInv, TypeOK
<1>6. request' \in [Requests -> RequestType] /\ \A q \in Requests : RequestSound(request'[q])
    BY <1>1, NoRequestType DEF RequestSound, NoRequest
<1>7. QED
    BY <1>1, <1>3, <1>4, <1>5, <1>6, StopIInv

-----------------------------------------------------------------------------
(* The worker's writes to the steps.  When a step changes from s to t, the     *)
(* number of steps in any third status stays, for all runs.                    *)
LEMMA CountKept ==
    ASSUME TypeOK, NEW r \in Runs, NEW k \in Ordinals, NEW t, NEW u,
           steps' = [steps EXCEPT ![r][k] = t], steps[r][k] # u, t # u,
           NEW x \in Runs
    PROVE  Count(x, u)' = Count(x, u)
<1>1. {l \in Ordinals : steps'[x][l] = u} = {l \in Ordinals : steps[x][l] = u}
    BY DEF TypeOK
<1>2. QED
    BY <1>1 DEF Count

(* A step that becomes u is one more of them in its run, and in no other.      *)
LEMMA CountRaised ==
    ASSUME TypeOK, NEW r \in Runs, NEW k \in Ordinals, NEW u,
           steps' = [steps EXCEPT ![r][k] = u], steps[r][k] # u
    PROVE  /\ Count(r, u)' = Count(r, u) + 1
           /\ \A x \in Runs \ {r} : Count(x, u)' = Count(x, u)
<1> DEFINE S == {l \in Ordinals : steps[r][l] = u}
<1>1. {l \in Ordinals : steps'[r][l] = u} = S \cup {k}
    BY DEF TypeOK
<1>2. IsFiniteSet(S) /\ k \notin S
    BY CountType
<1>3. Cardinality(S \cup {k}) = Cardinality(S) + 1
    BY <1>2, FS_AddElement
<1>4. ASSUME NEW x \in Runs \ {r} PROVE Count(x, u)' = Count(x, u)
    <2>1. {l \in Ordinals : steps'[x][l] = u} = {l \in Ordinals : steps[x][l] = u}
        BY <1>4 DEF TypeOK
    <2>2. QED
        BY <2>1 DEF Count
<1>5. QED
    BY <1>1, <1>3, <1>4 DEF Count

(* A write to the steps of a replaced plan changes nothing but the worker.     *)
LEMMA StaleWriteIInv ==
    ASSUME IInv, WorkerOnly, NEW next \in {"completed", "failRun", "pauseRun"}, Goto(next),
           worker.pc \in Working, ~PlanStands
    PROVE  IInv'
<1>1. worker' = [worker EXCEPT !.pc = next] /\ worker \in WorkerType
    BY DEF Goto, IInv, TypeOK
<1>2. worker' \in WorkerType
    BY <1>1 DEF WorkerType, WorkerPlaces
<1>3. worker'.pc = next /\ worker'.run = worker.run /\ worker'.plan = worker.plan
    BY <1>1 DEF WorkerType
<1>4. WorkerSound'
    BY <1>3 DEF IInv, WorkerOnly, rows, WorkerSound, InLoop, Starting, Working
<1>5. SnapshotSound'
    BY <1>3 DEF WorkerOnly, rows, SnapshotSound, PlanStands
<1>6. SupervisionSound'
    BY LetGo DEF SupervisionSound, WorkerOnly, rows, faults, Smooth
<1>7. QED
    BY <1>2, <1>4, <1>5, <1>6, WorkerIInv

(* complete_step and fail_step end the active step at hand.                    *)
LEMMA StepWriteIInv ==
    ASSUME IInv, NEW pc \in {"completing", "failing", "timingOut"},
           NEW next \in {"completed", "failRun", "pauseRun"}, NEW to \in {"completed", "failed"},
           next = "completed" <=> to = "completed",
           StepWrite(pc, next, to)
    PROVE  IInv'
<1>1. /\ worker.pc = pc /\ worker.pc \in Working /\ worker.pc \in InLoop
      /\ worker' = [worker EXCEPT !.pc = next]
      /\ UNCHANGED <<status, maxSteps, plan, attempts, manifest, request, restarts, failures>>
    BY DEF StepWrite, Goto, faults, Working, InLoop
<1>2. CASE ~PlanStands
    <2>1. WorkerOnly /\ Goto(next)
        BY <1>1, <1>2 DEF StepWrite, WorkerOnly, rows, faults, Goto
    <2>2. QED
        BY <1>1, <1>2, <2>1, StaleWriteIInv
<1>3. CASE PlanStands
    <2>0. PICK r \in Runs, k \in Ordinals : r = worker.run /\ k = worker.step
        BY <1>1 DEF IInv, WorkerSound, Working
    <2>1. steps' = [steps EXCEPT ![r][k] = to]
        BY <1>3, <2>0 DEF StepWrite
    <2>2. /\ status[r] # "absent"
          /\ worker.done < maxSteps[r] /\ worker.plan = plan[r]
          /\ worker \in WorkerType /\ TypeOK
        BY <1>1, <1>3, <2>0 DEF IInv, TypeOK, WorkerSound, PlanStands, InLoop, Starting, Working
    <2>3. /\ steps[r][k] = "active" /\ PendingSteps(r) = worker.pending
          /\ Count(r, "completed") = worker.done
        BY <1>1, <1>3, <2>0 DEF IInv, SnapshotSound, StepStatus, InLoop, Starting, Working
    <2>4. /\ worker'.pc = next /\ worker'.run = r /\ worker'.plan = worker.plan
          /\ worker'.pending = worker.pending /\ worker'.step = k /\ worker'.done = worker.done
        BY <1>1, <2>0, <2>2 DEF WorkerType
    <2>5. \A x \in Runs, l \in Ordinals :
             steps'[x][l] = IF x = r /\ l = k THEN to ELSE steps[x][l]
        BY <2>1, <2>2 DEF TypeOK
    <2>6. TypeOK'
        <3>1. worker' \in WorkerType
            BY <1>1, <2>2 DEF WorkerType, WorkerPlaces
        <3>2. steps' \in [Runs -> [Ordinals -> StepStatuses \cup {"none"}]]
            BY <2>1, <2>2 DEF TypeOK, StepStatuses
        <3>3. QED
            BY <1>1, <2>2, <3>1, <3>2 DEF TypeOK
    <2>7. RowsSound' /\ RequestsSound'
        BY <1>1, <2>2, <2>5 DEF IInv, RowsSound, RequestsSound, RequestSound
    <2>8. WorkerSound'
        BY <1>1, <2>2, <2>4 DEF IInv, WorkerSound, InLoop, Starting, Working
    <2>9. AtMostOneActiveStep' /\ StepRunsAtMostOnce'
        BY <1>1, <2>2, <2>5 DEF IInv, AtMostOneActiveStep, StepRunsAtMostOnce
    <2>10. StepsInOrder'
        BY <2>2, <2>3, <2>5 DEF IInv, StepsInOrder
    <2>11. SupervisionSound'
        BY <1>1, <2>2, <2>3, <2>5 DEF IInv, SupervisionSound, Smooth, AtMostOneActiveStep
    <2>12. CASE to = "failed"
        <3>1. \A x \in Runs : Count(x, "completed")' = Count(x, "completed")
            BY <2>1, <2>2, <2>3, <2>12, CountKept
        <3>2. StepBudgetKept'
            BY <1>1, <3>1 DEF IInv, StepBudgetKept
        <3>3. SnapshotSound'
            BY <2>4, <2>12 DEF SnapshotSound, InLoop, Starting, Working
        <3>4. QED
            BY <3>2, <3>3, <2>6, <2>7, <2>8, <2>9, <2>10, <2>11 DEF IInv
    <2>13. CASE to = "completed"
        <3>1. /\ Count(r, "completed")' = Count(r, "completed") + 1
              /\ \A x \in Runs \ {r} : Count(x, "completed")' = Count(x, "completed")
            <4>1. steps' = [steps EXCEPT ![r][k] = "completed"] /\ steps[r][k] # "completed"
                BY <2>1, <2>3, <2>13
            <4>2. QED
                BY <2>2, <4>1, CountRaised
        <3>2. StepBudgetKept'
            <4>1. worker.done \in Nat /\ maxSteps[r] \in Nat
                BY <2>2, Numbers DEF TypeOK, WorkerType
            <4>2. Count(r, "completed")' <= maxSteps[r]
                BY <2>2, <2>3, <3>1, <4>1
            <4>3. ASSUME NEW x \in Runs PROVE (Count(x, "completed") <= maxSteps[x])'
                BY <1>1, <3>1, <4>2 DEF IInv, StepBudgetKept
            <4>4. QED
                BY <4>3 DEF StepBudgetKept
        <3>3. PendingSteps(r)' = PendingSteps(r)
            <4>1. \A l \in Ordinals : steps'[r][l] = "pending" <=> steps[r][l] = "pending"
                BY <2>2, <2>3, <2>5, <2>13
            <4>2. QED
                BY <1>1, <4>1 DEF PendingSteps
        <3>4. SnapshotSound'
            BY <2>3, <2>4, <2>13, <3>1, <3>3 DEF SnapshotSound, InLoop, Starting, Working
        <3>5. QED
            BY <3>2, <3>4, <2>6, <2>7, <2>8, <2>9, <2>10, <2>11 DEF IInv
    <2>14. QED
        BY <2>12, <2>13
<1>4. QED
    BY <1>2, <1>3

(* activate_step starts the first pending step, when none is active; nothing   *)
(* of that holds when the plan was replaced since, but then no row is left to  *)
(* be written.                                                                 *)
LEMMA ActivateWriteIInv ==
    ASSUME IInv, ActivateWrite
    PROVE  IInv'
<1>1. /\ worker.pc = "activating"
      /\ worker' = [worker EXCEPT !.pc = "begin", !.set = None]
      /\ UNCHANGED <<maxSteps, plan, manifest, request, restarts, failures>>
    BY DEF ActivateWrite, faults
<1>2. PICK r \in Runs, k \in Ordinals : r = worker.run /\ k = worker.step
    BY <1>1 DEF IInv, WorkerSound, Starting
<1>3. status' = [status EXCEPT ![r] = worker.set]
    BY <1>2 DEF ActivateWrite
<1>4. /\ TypeOK /\ worker \in WorkerType /\ status[r] # "absent" /\ worker.set \in RunStatuses
      /\ worker.done < maxSteps[r] /\ worker.plan <= plan[r]
    BY <1>1, <1>2 DEF IInv, TypeOK, WorkerSound, InLoop, Starting
<1>5. /\ worker'.pc = "begin" /\ worker'.run = r /\ worker'.plan = worker.plan
      /\ worker'.pending = worker.pending /\ worker'.step = k /\ worker'.done = worker.done
    BY <1>1, <1>2, <1>4 DEF WorkerType
<1>6. /\ "absent" \notin RunStatuses
      /\ \A t \in Runs : status'[t] = "absent" <=> status[t] = "absent"
    BY <1>3, <1>4 DEF TypeOK, RunStatuses
<1>7. worker' \in WorkerType /\ status' \in [Runs -> RunStatuses \cup {"absent"}]
    BY <1>1, <1>3, <1>4 DEF TypeOK, WorkerType, WorkerPlaces
<1>8. RequestsSound' /\ WorkerSound'
    <2>1. WorkerSound'
        BY <1>1, <1>2, <1>4, <1>5, <1>6 DEF WorkerSound, InLoop, Starting, Working
    <2>2. \A q \in Requests : request[q].op # "idle" => request[q].run \in Runs
        BY DEF IInv, RequestsSound, RequestSound
    <2>3. RequestsSound'
        BY <1>1, <1>6, <2>2 DEF IInv, RequestsSound, RequestSound
    <2>4. QED
        BY <2>1, <2>3
<1>9. \A t \in Runs, l \in Ordinals : Smooth => steps[t][l] # "active"
    BY <1>1, LetGo DEF Working
<1>10. CASE ~PlanStands
    <2>1. steps' = steps /\ attempts' = attempts
        BY <1>10 DEF ActivateWrite
    <2>2. TypeOK' /\ RowsSound'
        BY <1>1, <1>6, <1>7, <2>1 DEF IInv, TypeOK, RowsSound
    <2>3. SnapshotSound' /\ SupervisionSound'
        BY <1>1, <1>2, <1>5, <1>9, <1>10, <2>1 DEF SnapshotSound, SupervisionSound, PlanStands, Smooth
    <2>4. AtMostOneActiveStep' /\ StepRunsAtMostOnce' /\ StepsInOrder' /\ StepBudgetKept'
        BY <1>1, <2>1 DEF IInv, AtMostOneActiveStep, StepRunsAtMostOnce, StepsInOrder,
           StepBudgetKept, Count
    <2>5. QED
        BY <1>8, <2>2, <2>3, <2>4 DEF IInv
<1>11. CASE PlanStands
    <2>1. /\ steps' = [steps EXCEPT ![r][k] = "active"]
          /\ attempts' = [attempts EXCEPT ![r][k] = @ + 1]
        BY <1>2, <1>11 DEF ActivateWrite
    <2>2. /\ PendingSteps(r) = worker.pending \cup {k}
          /\ \A l \in worker.pending : k < l
          /\ ActiveSteps(r) = {}
          /\ Count(r, "completed") = worker.done
          /\ worker.plan = plan[r]
        BY <1>1, <1>2, <1>11 DEF IInv, SnapshotSound, PlanStands, InLoop, Starting
    <2>3. steps[r][k] = "pending" /\ attempts[r][k] = 0
        BY <2>2 DEF IInv, PendingSteps, RowsSound
    <2>4. \A x \in Runs, l \in Ordinals :
             /\ steps'[x][l] = IF x = r /\ l = k THEN "active" ELSE steps[x][l]
             /\ attempts'[x][l] = IF x = r /\ l = k THEN 1 ELSE attempts[x][l]
        BY <1>4, <2>1, <2>3 DEF TypeOK
    <2>5. TypeOK'
        <3>1. steps' \in [Runs -> [Ordinals -> StepStatuses \cup {"none"}]]
            BY <1>4, <2>1 DEF TypeOK, StepStatuses
        <3>2. attempts' \in [Runs -> [Ordinals -> Nat]]
            BY <1>4, <2>1 DEF TypeOK
        <3>3. QED
            BY <1>1, <1>4, <1>7, <3>1, <3>2 DEF TypeOK
    <2>6. RowsSound'
        BY <1>4, <1>6, <2>4 DEF IInv, RowsSound
    <2>7. \A x \in Runs : Count(x, "completed")' = Count(x, "completed")
        BY <1>4, <2>1, <2>3, CountKept
    <2>8. PendingSteps(r)' = worker.pending
        <3>1. k \notin worker.pending /\ worker.pending \subseteq Ordinals
            BY <1>4, <2>2, Numbers DEF WorkerType
        <3>2. \A l \in Ordinals : steps'[r][l] = "pending" <=> l \in worker.pending
            <4>1. \A l \in Ordinals : steps[r][l] = "pending" <=> l \in worker.pending \cup {k}
                BY <2>2 DEF PendingSteps
            <4>2. QED
                BY <2>4, <3>1, <4>1
        <3>3. QED
            BY <3>1, <3>2 DEF PendingSteps
    <2>9. SnapshotSound'
        <3>1. StepStatus' = "active"
            BY <1>5, <2>4 DEF StepStatus
        <3>2. PendingSteps(worker.run)' = worker'.pending
            BY <1>5, <2>8 DEF PendingSteps
        <3>3. Count(worker.run, "completed")' = worker'.done
            BY <1>5, <2>2, <2>7 DEF Count
        <3>4. QED
            BY <1>5, <3>1, <3>2, <3>3 DEF SnapshotSound, InLoop, Starting, Working
    <2>10. SupervisionSound'
        BY <1>1, <1>5, <1>9, <2>2, <2>4 DEF SupervisionSound, Smooth, Working
    <2>11. AtMostOneActiveStep' /\ StepRunsAtMostOnce'
        BY <2>2, <2>4 DEF IInv, ActiveSteps, AtMostOneActiveStep, StepRunsAtMostOnce
    <2>12. StepsInOrder'
        <3>1. ASSUME NEW l \in Ordinals, steps[r][l] = "pending" PROVE k <= l
            <4>1. l \in PendingSteps(r) /\ k \in Nat /\ l \in Nat
                BY <3>1, Numbers DEF PendingSteps
            <4>2. l = k \/ k < l
                BY <2>2, <4>1
            <4>3. QED
                BY <4>1, <4>2
        <3>2. ASSUME NEW x \in Runs, NEW m \in Ordinals, NEW l \in Ordinals, l < m,
                     steps'[x][m] \notin {"none", "pending"}
              PROVE  steps'[x][l] # "pending"
            <4>1. CASE x = r /\ m = k
                <5>1. ~(k <= l) /\ l # k
                    BY <3>2, <4>1, Numbers
                <5>2. QED
                    BY <2>4, <3>1, <4>1, <5>1
            <4>2. CASE ~(x = r /\ m = k)
                <5>1. steps[x][l] # "pending"
                    BY <2>4, <3>2, <4>2 DEF IInv, StepsInOrder
                <5>2. QED
                    BY <2>4, <5>1
            <4>3. QED
                BY <4>1, <4>2
        <3>3. QED
            BY <3>2 DEF StepsInOrder
    <2>13. StepBudgetKept'
        BY <1>1, <2>7 DEF IInv, StepBudgetKept
    <2>14. QED
        BY <1>8, <2>5, <2>6, <2>9, <2>10, <2>11, <2>12, <2>13 DEF IInv
<1>12. QED
    BY <1>10, <1>11

(* Every step of the worker.                                                   *)
LEMMA WorkerStepsIInv ==
    ASSUME IInv, WorkerSteps
    PROVE  IInv'
<1>1. CASE CompleteStepRead \/ FailStepRead \/ TimeoutStepRead
    BY <1>1, StepReadIInv DEF CompleteStepRead, FailStepRead, TimeoutStepRead, Working
<1>2. CASE CompleteStepWrite \/ FailStepWrite \/ TimeoutStepWrite
    BY <1>2, StepWriteIInv DEF CompleteStepWrite, FailStepWrite, TimeoutStepWrite
<1>3. CASE CompleteRunRead \/ FailRunRead \/ PauseRunRead
    BY <1>3, RunReadIInv DEF CompleteRunRead, FailRunRead, PauseRunRead
<1>4. QED
    BY <1>1, <1>2, <1>3, WorkerPicksIInv, WorkerListsIInv, WorkerLoopsIInv, ActivateReadIInv,
       ActivateWriteIInv, StepWorkIInv, StepCompletedIInv, PassEndsIInv, RunWriteIInv
       DEF WorkerSteps

-----------------------------------------------------------------------------
(* Every step, and every stutter, keeps the invariant.                         *)
LEMMA NextIInv == IInv /\ [Next]_vars => IInv'
<1> SUFFICES ASSUME IInv, [Next]_vars PROVE IInv'
    OBVIOUS
<1>1. CASE UNCHANGED vars
    <2>1. UNCHANGED <<rows, worker, faults>> /\ manifest' = manifest /\ request' = request
        BY <1>1 DEF vars
    <2>2. /\ manifest' \in [Runs -> Manifests] /\ request' \in [Requests -> RequestType]
          /\ \A q \in Requests : RequestSound(request'[q])
        BY <2>1 DEF IInv, TypeOK, RequestsSound
    <2>3. QED
        BY <2>1, <2>2, RequestIInv
<1>2. CASE Next
    BY <1>2, CreateRunIInv, RequestReadsIInv, RequestWritesIInv, WorkerStepsIInv, WorkerFailsIInv,
       RestartIInv, EnvironmentIInv DEF Next
<1>3. QED
    BY <1>1, <1>2

(* The inductive invariant holds of the workbench.                             *)
THEOREM SpecIInv == Spec => []IInv
BY InitIInv, NextIInv, PTL DEF Spec

(* The tables, the manifest and the threads keep their types.                  *)
THEOREM SpecTypeOK == Spec => []TypeOK
<1>1. IInv => TypeOK
    BY DEF IInv
<1>2. QED
    BY <1>1, SpecIInv, PTL

(* A run has at most one active step (count_active_steps), whatever API        *)
(* threads, the worker, failed transactions and restarts do.                   *)
THEOREM SpecAtMostOneActiveStep == Spec => []AtMostOneActiveStep
<1>1. IInv => AtMostOneActiveStep
    BY DEF IInv
<1>2. QED
    BY <1>1, SpecIInv, PTL

(* No step of a plan is started twice (attempt_count).                         *)
THEOREM SpecStepRunsAtMostOnce == Spec => []StepRunsAtMostOnce
<1>1. IInv => StepRunsAtMostOnce
    BY DEF IInv
<1>2. QED
    BY <1>1, SpecIInv, PTL

(* Steps are started in the order of the plan (list_steps, _execute_run).      *)
THEOREM SpecStepsInOrder == Spec => []StepsInOrder
<1>1. IInv => StepsInOrder
    BY DEF IInv
<1>2. QED
    BY <1>1, SpecIInv, PTL

(* No plan gets more than max_steps steps completed (_execute_run).            *)
THEOREM SpecStepBudgetKept == Spec => []StepBudgetKept
<1>1. IInv => StepBudgetKept
    BY DEF IInv
<1>2. QED
    BY <1>1, SpecIInv, PTL

(* Without faults an active step is the one the worker has at hand: cancel,    *)
(* pause and set_plan leave none behind.                                       *)
THEOREM SpecActiveStepSupervised == Spec => []ActiveStepSupervised
<1>1. IInv => ActiveStepSupervised
    BY DEF IInv, SupervisionSound, ActiveStepSupervised
<1>2. QED
    BY <1>1, SpecIInv, PTL
=============================================================================
