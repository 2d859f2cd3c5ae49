------------------------- MODULE RuntimeSlotsProofs -------------------------
(* Proofs about RuntimeSlots, for all slots, models, clients and bounds: type  *)
(* correctness, and that a slot's status tells what runs in it although stops, *)
(* status reads and the watcher come between any two steps of a launch.        *)
EXTENDS RuntimeSlots, FiniteSetTheorems, TLAPS

(* The parts of SlotsTypeOK, by the component that owns the variables.         *)
BackendTyped ==
    /\ process \in [Slots -> Process \cup {None}]
    /\ status \in [Slots -> Status]
    /\ lock \in [Slots -> Clients \cup {None}]
    /\ call \in [Clients -> CallType]
SupervisorTyped ==
    /\ known \in [Slots -> Models \cup {None}]
    /\ attempts \in [Slots -> 0..MaxAttempts]
    /\ tick \in [Ticks -> TickType]
WatcherTyped == watcher \in [todo: Seq(Slots), stops: BOOLEAN]
BoundsTyped == quiet \in BOOLEAN /\ left \in LimitType

(* A request that is not answered names a slot and a model; one that launches  *)
(* holds the slot's lock.                                                      *)
CallsSound ==
    \A c \in Clients :
        /\ call[c].at \in {"queued", "launching", "ready"} =>
               call[c].slot \in Slots /\ call[c].model \in Models
        /\ call[c].at \in {"launching", "ready"} => lock[call[c].slot] = c

(* A lock is held by a launch in its slot, and a process in the slot is the    *)
(* launch's.                                                                   *)
LocksSound ==
    \A s \in Slots :
        lock[s] # None =>
            /\ call[lock[s]].at \in {"launching", "ready"} /\ call[lock[s]].slot = s
            /\ process[s] # None => process[s].model = call[lock[s]].model

BackendInv == BackendTyped /\ CallsSound /\ LocksSound /\ StatusTellsTheProcess

(* A tick that judges has slots to judge, none of them twice, and has read     *)
(* them; one that restarts a slot has a model to start.                        *)
TickSound(k) ==
    k.at \in {"judge", "stop", "start", "starting"} =>
        /\ k.todo # <<>>
        /\ \A i, j \in DOMAIN k.todo : k.todo[i] = k.todo[j] => i = j
        /\ \A i \in DOMAIN k.todo : i > 1 => k.seen[k.todo[i]] \in Status
        /\ k.at = "judge" => k.seen[k.todo[1]] \in Status
        /\ k.at \in {"stop", "start"} => \E m \in Models : k.seen[k.todo[1]] = Running(m)
SupervisorInv == SupervisorTyped /\ \A t \in Ticks : TickSound(tick[t])

WatcherInv == WatcherTyped /\ (watcher.stops => watcher.todo # <<>>)

(* The inductive invariant.                                                    *)
SlotsIInv == BackendInv /\ SupervisorInv /\ WatcherInv /\ BoundsTyped

-----------------------------------------------------------------------------
(* Lemmas about the backend                                                    *)

(* The statuses are told apart by their state.                                 *)
LEMMA StatusCases ==
    /\ Stopped \in Status /\ Failed \in Status
    /\ Stopped.state = "stopped" /\ Failed.state = "error" /\ Stopped.model = None
    /\ \A m \in Models : /\ Running(m) \in Status
                         /\ Running(m).state = "running" /\ Running(m).model = m
    /\ \A st \in Status : st.state = "running" => \E m \in Models : st = Running(m)
    /\ \A st \in Status : st.model \in Models \cup {None}
  <1>1. Stopped \in Status /\ Failed \in Status
    BY DEF Status
  <1>2. Stopped.state = "stopped" /\ Failed.state = "error"
    BY DEF Stopped, Failed
  <1>3. Stopped.model = None /\ Failed.model = None
    BY DEF Stopped, Failed
  <1>4. \A m \in Models : /\ Running(m) \in Status
                          /\ Running(m).state = "running" /\ Running(m).model = m
    BY DEF Status, Running
  <1>5. \A st \in Status : st = Stopped \/ st = Failed \/ \E m \in Models : st = Running(m)
    BY DEF Status
  <1> QED
    BY <1>1, <1>2, <1>3, <1>4, <1>5

(* Whatever the status of a slot is, its readers are told a status.            *)
LEMMA SeenTyped == ASSUME BackendTyped, NEW s \in Slots PROVE Seen(s) \in Status
  BY StatusCases DEF BackendTyped, Seen

(* A stop, a status read, or neither.                                          *)
Reads == \E s \in Slots : Read(s)
Stops == \E s \in Slots : Stop(s)
ProcessStep == Reads \/ Stops \/ UNCHANGED <<process, status>>

(* An actor asks for a start, takes the answer to one, or neither.             *)
Asks == \E c \in Clients, s \in Slots, m \in Models : Call(c, s, m)
Takes == \E c \in Clients : call[c].at = "answered" /\ Returned(c)
CallStep == Asks \/ Takes \/ UNCHANGED call

(* Stops and status reads leave processes alone or remove them, and no status  *)
(* becomes "running" by them.                                                  *)
LEMMA ProcessStepKeeps ==
    ASSUME BackendInv, ProcessStep, UNCHANGED lock
    PROVE  /\ process' \in [Slots -> Process \cup {None}] /\ status' \in [Slots -> Status]
           /\ \A s \in Slots : process'[s] # None => process'[s] = process[s]
           /\ StatusTellsTheProcess'
  <1>1. ASSUME NEW s \in Slots, Read(s)
        PROVE  /\ process' \in [Slots -> Process \cup {None}] /\ status' \in [Slots -> Status]
               /\ \A q \in Slots : process'[q] # None => process'[q] = process[q]
               /\ StatusTellsTheProcess'
    <2>1. Seen(s) \in Status
      BY SeenTyped DEF BackendInv
    <2>2. process' \in [Slots -> Process \cup {None}] /\ status' \in [Slots -> Status]
      BY <1>1, <2>1 DEF BackendInv, BackendTyped, Read
    <2>3. \A q \in Slots : process'[q] # None => process'[q] = process[q]
      BY <1>1 DEF BackendInv, BackendTyped, Read
    <2>4. \A q \in Slots : q # s => process'[q] = process[q] /\ status'[q] = status[q]
      BY <1>1 DEF BackendInv, BackendTyped, Read
    <2>5. CASE Exited(s)
      <3>1. process'[s] = None /\ status'[s] = Stopped
        BY <1>1, <2>5 DEF BackendInv, BackendTyped, Read, Seen
      <3> QED
        BY <2>2, <2>3, <2>4, <3>1, StatusCases DEF BackendInv, StatusTellsTheProcess
    <2>6. CASE ~Exited(s)
      <3>1. process'[s] = process[s] /\ status'[s] = status[s]
        BY <1>1, <2>6 DEF BackendInv, BackendTyped, Read, Seen
      <3> QED
        BY <2>2, <2>3, <2>4, <3>1 DEF BackendInv, StatusTellsTheProcess
    <2> QED
      BY <2>5, <2>6
  <1>2. ASSUME NEW s \in Slots, Stop(s)
        PROVE  /\ process' \in [Slots -> Process \cup {None}] /\ status' \in [Slots -> Status]
               /\ \A q \in Slots : process'[q] # None => process'[q] = process[q]
               /\ StatusTellsTheProcess'
    <2>1. process' \in [Slots -> Process \cup {None}] /\ status' \in [Slots -> Status]
      BY <1>2, StatusCases DEF BackendInv, BackendTyped, Stop
    <2>2. /\ process'[s] = None /\ status'[s] = Stopped
          /\ \A q \in Slots : q # s => process'[q] = process[q] /\ status'[q] = status[q]
      BY <1>2 DEF BackendInv, BackendTyped, Stop
    <2> QED
      BY <2>1, <2>2, StatusCases DEF BackendInv, StatusTellsTheProcess
  <1>3. CASE UNCHANGED <<process, status>>
    BY <1>3 DEF BackendInv, BackendTyped, StatusTellsTheProcess
  <1> QED
    BY <1>1, <1>2, <1>3 DEF ProcessStep, Reads, Stops

(* A new request, and the end of an answered one, are none of a launch.        *)
LEMMA CallStepKeeps ==
    ASSUME BackendInv, CallStep, UNCHANGED lock
    PROVE  /\ call' \in [Clients -> CallType]
           /\ CallsSound'
           /\ \A s \in Slots : lock[s] # None => call'[lock[s]] = call[lock[s]]
  <1>1. ASSUME NEW c \in Clients, NEW s \in Slots, NEW m \in Models, Call(c, s, m)
        PROVE  /\ call' \in [Clients -> CallType]
               /\ CallsSound'
               /\ \A q \in Slots : lock[q] # None => call'[lock[q]] = call[lock[q]]
    <2> DEFINE new == [at |-> "queued", slot |-> s, model |-> m, ok |-> FALSE]
    <2>1. new \in CallType /\ new.at = "queued" /\ new.slot = s /\ new.model = m
      BY DEF CallType
    <2>2. call' = [call EXCEPT ![c] = new] /\ call[c].at = "idle"
      BY <1>1 DEF Call
    <2> HIDE DEF new
    <2>3. /\ call' \in [Clients -> CallType]
          /\ \A d \in Clients : call'[d] = IF d = c THEN new ELSE call[d]
      BY <2>1, <2>2 DEF BackendInv, BackendTyped
    <2>4. CallsSound'
      BY <2>1, <2>3 DEF BackendInv, CallsSound
    <2>5. \A q \in Slots : lock[q] # None => lock[q] \in Clients /\ lock[q] # c
      BY <2>2 DEF BackendInv, BackendTyped, LocksSound
    <2> QED
      BY <2>3, <2>4, <2>5
  <1>2. ASSUME NEW c \in Clients, call[c].at = "answered", Returned(c)
        PROVE  /\ call' \in [Clients -> CallType]
               /\ CallsSound'
               /\ \A q \in Slots : lock[q] # None => call'[lock[q]] = call[lock[q]]
    <2>1. NoCall \in CallType /\ NoCall.at = "idle"
      BY DEF CallType, NoCall
    <2>2. /\ call' \in [Clients -> CallType]
          /\ \A d \in Clients : call'[d] = IF d = c THEN NoCall ELSE call[d]
      BY <1>2, <2>1 DEF BackendInv, BackendTyped, Returned
    <2>3. CallsSound'
      BY <2>1, <2>2 DEF BackendInv, CallsSound
    <2>4. \A q \in Slots : lock[q] # None => lock[q] \in Clients /\ lock[q] # c
      BY <1>2 DEF BackendInv, BackendTyped, LocksSound
    <2> QED
      BY <2>2, <2>3, <2>4
  <1>3. CASE UNCHANGED call
    BY <1>3 DEF BackendInv, BackendTyped, CallsSound
  <1> QED
    BY <1>1, <1>2, <1>3 DEF CallStep, Asks, Takes

(* What every actor but the backend itself may do.                             *)
LEMMA ActorStep ==
    ASSUME BackendInv, ProcessStep, CallStep, UNCHANGED lock
    PROVE  BackendInv'
  <1>1. BackendTyped'
    BY ProcessStepKeeps, CallStepKeeps DEF BackendInv, BackendTyped
  <1>2. LocksSound'
    <2> SUFFICES ASSUME NEW s \in Slots, lock[s] # None
                 PROVE  /\ call'[lock[s]].at \in {"launching", "ready"}
                        /\ call'[lock[s]].slot = s
                        /\ process'[s] # None => process'[s].model = call'[lock[s]].model
      BY DEF LocksSound
    <2> QED
      BY ProcessStepKeeps, CallStepKeeps DEF BackendInv, LocksSound
  <1> QED
    BY <1>1, <1>2, ProcessStepKeeps, CallStepKeeps DEF BackendInv

-----------------------------------------------------------------------------
(* The steps of a start request                                                *)

(* The request of a client whose call gets a new place and result.             *)
LEMMA CallMoves ==
    ASSUME BackendTyped, NEW c \in Clients, NEW at \in {"launching", "ready", "answered"},
           \/ call' = [call EXCEPT ![c].at = at]
           \/ \E ok \in BOOLEAN : call' = [call EXCEPT ![c].at = at, ![c].ok = ok]
    PROVE  /\ call' \in [Clients -> CallType]
           /\ \A d \in Clients : d # c => call'[d] = call[d]
           /\ call'[c].at = at /\ call'[c].slot = call[c].slot /\ call'[c].model = call[c].model
  BY DEF BackendTyped, CallType

LEMMA ReusesKeeps == ASSUME NEW c \in Clients, BackendInv, Reuses(c) PROVE BackendInv'
  <1>1. /\ call' \in [Clients -> CallType]
        /\ \A d \in Clients : d # c => call'[d] = call[d]
        /\ call'[c].at = "answered"
    BY CallMoves DEF BackendInv, Reuses, Answer
  <1>2. UNCHANGED <<process, status, lock>> /\ call[c].at = "queued"
    BY DEF Reuses, Queued
  <1>3. BackendTyped' /\ StatusTellsTheProcess' /\ CallsSound'
    BY <1>1, <1>2 DEF BackendInv, BackendTyped, StatusTellsTheProcess, CallsSound
  <1>4. \A s \in Slots : lock[s] # None => lock[s] \in Clients /\ lock[s] # c
    BY <1>2 DEF BackendInv, BackendTyped, LocksSound
  <1>5. LocksSound'
    BY <1>1, <1>2, <1>4 DEF BackendInv, LocksSound
  <1> QED
    BY <1>3, <1>5 DEF BackendInv

LEMMA LaunchesKeeps == ASSUME NEW c \in Clients, BackendInv, Launches(c) PROVE BackendInv'
  <1> DEFINE s == call[c].slot
             m == call[c].model
             made == [model |-> m, alive |-> TRUE]
             told == IF Seen(s).state = "running" THEN Stopped ELSE Seen(s)
  <1>1. /\ call[c].at = "queued" /\ lock[s] = None
        /\ s \in Slots /\ m \in Models
    BY DEF BackendInv, CallsSound, Launches, Queued
  <1>2. made \in Process /\ made.model = m
    BY <1>1 DEF Process
  <1>3. told \in Status /\ told.state # "running"
    BY <1>1, SeenTyped, StatusCases DEF BackendInv
  <1>4. /\ lock' = [lock EXCEPT ![s] = c]
        /\ status' = [status EXCEPT ![s] = told]
        /\ process' = [process EXCEPT ![s] = made]
    BY DEF Launches
  <1>5. /\ call' \in [Clients -> CallType]
        /\ \A d \in Clients : d # c => call'[d] = call[d]
        /\ call'[c].at = "launching" /\ call'[c].slot = s /\ call'[c].model = m
    BY CallMoves DEF BackendInv, Launches
  <1> HIDE DEF made, told
  <1>6. /\ \A q \in Slots : q # s => /\ lock'[q] = lock[q] /\ status'[q] = status[q]
                                     /\ process'[q] = process[q]
        /\ lock'[s] = c /\ status'[s] = told /\ process'[s] = made
    BY <1>1, <1>4 DEF BackendInv, BackendTyped
  <1>7. BackendTyped'
    BY <1>1, <1>2, <1>3, <1>4, <1>5 DEF BackendInv, BackendTyped
  <1>8. StatusTellsTheProcess'
    <2>1. c # None
      BY RuntimeSlotsAssumption
    <2> QED
      BY <1>3, <1>6, <2>1 DEF BackendInv, StatusTellsTheProcess
  <1>9. CallsSound'
    <2> SUFFICES ASSUME NEW d \in Clients
                 PROVE  /\ call'[d].at \in {"queued", "launching", "ready"} =>
                               call'[d].slot \in Slots /\ call'[d].model \in Models
                        /\ call'[d].at \in {"launching", "ready"} => lock'[call'[d].slot] = d
      BY DEF CallsSound
    <2>1. CASE d = c
      BY <1>1, <1>5, <1>6, <2>1
    <2>2. CASE d # c
      <3>1. call[d].at \in {"launching", "ready"} => call[d].slot \in Slots /\ call[d].slot # s
        BY <1>1, RuntimeSlotsAssumption DEF BackendInv, CallsSound
      <3> QED
        BY <1>5, <1>6, <2>2, <3>1 DEF BackendInv, CallsSound
    <2> QED
      BY <2>1, <2>2
  <1>10. LocksSound'
    <2> SUFFICES ASSUME NEW q \in Slots, lock'[q] # None
                 PROVE  /\ call'[lock'[q]].at \in {"launching", "ready"}
                        /\ call'[lock'[q]].slot = q
                        /\ process'[q] # None => process'[q].model = call'[lock'[q]].model
      BY DEF LocksSound
    <2>1. CASE q = s
      BY <1>2, <1>5, <1>6, <2>1
    <2>2. CASE q # s
      <3>1. lock[q] \in Clients /\ lock[q] # c
        BY <1>1, <1>6, <2>2 DEF BackendInv, BackendTyped, LocksSound
      <3> QED
        BY <1>5, <1>6, <2>2, <3>1 DEF BackendInv, LocksSound
    <2> QED
      BY <2>1, <2>2
  <1> QED
    BY <1>7, <1>8, <1>9, <1>10 DEF BackendInv

LEMMA EndpointReadyKeeps ==
    ASSUME NEW c \in Clients, BackendInv, EndpointReady(c) PROVE BackendInv'
  <1>1. /\ call' \in [Clients -> CallType]
        /\ \A d \in Clients : d # c => call'[d] = call[d]
        /\ call'[c].at = "ready"
        /\ call'[c].slot = call[c].slot /\ call'[c].model = call[c].model
    BY CallMoves DEF BackendInv, EndpointReady
  <1>2. UNCHANGED <<process, status, lock>> /\ call[c].at = "launching"
    BY DEF EndpointReady
  <1>3. BackendTyped' /\ StatusTellsTheProcess' /\ CallsSound'
    BY <1>1, <1>2 DEF BackendInv, BackendTyped, StatusTellsTheProcess, CallsSound
  <1>4. LocksSound'
    BY <1>1, <1>2 DEF BackendInv, BackendTyped, LocksSound
  <1> QED
    BY <1>3, <1>4 DEF BackendInv

(* A start that ends: its call is answered and nobody holds the lock of its    *)
(* slot, whose process is not hidden by its status.                            *)
LEMMA StartEnds ==
    ASSUME NEW c \in Clients, NEW s \in Slots, BackendInv,
           call[c].slot = s, lock[s] \in {c, None},
           call[c].at \in {"queued", "launching", "ready"},
           lock' = [lock EXCEPT ![s] = None],
           NEW ok \in BOOLEAN, Answer(c, ok),
           NEW p \in Process \cup {None}, NEW st \in Status,
           process' = [process EXCEPT ![s] = p], status' = [status EXCEPT ![s] = st],
           p # None => st \in {Running(p.model), Failed}
    PROVE  BackendInv'
  <1>1. /\ call' \in [Clients -> CallType]
        /\ \A d \in Clients : d # c => call'[d] = call[d]
        /\ call'[c].at = "answered"
    BY CallMoves DEF BackendInv, Answer
  <1>2. /\ \A q \in Slots : q # s => /\ lock'[q] = lock[q] /\ status'[q] = status[q]
                                     /\ process'[q] = process[q]
        /\ lock'[s] = None /\ status'[s] = st /\ process'[s] = p
    BY DEF BackendInv, BackendTyped
  <1>3. BackendTyped'
    BY <1>1 DEF BackendInv, BackendTyped
  <1>4. StatusTellsTheProcess'
    BY <1>2 DEF BackendInv, StatusTellsTheProcess
  <1>5. CallsSound'
    <2> SUFFICES ASSUME NEW d \in Clients, d # c
                 PROVE  /\ call'[d].at \in {"queued", "launching", "ready"} =>
                               call'[d].slot \in Slots /\ call'[d].model \in Models
                        /\ call'[d].at \in {"launching", "ready"} => lock'[call'[d].slot] = d
      BY <1>1 DEF CallsSound
    <2>1. d # None
      BY RuntimeSlotsAssumption
    <2>2. call[d].at \in {"launching", "ready"} => call[d].slot \in Slots /\ call[d].slot # s
      BY <2>1 DEF BackendInv, CallsSound
    <2> QED
      BY <1>1, <1>2, <2>2 DEF BackendInv, CallsSound
  <1>6. LocksSound'
    <2> SUFFICES ASSUME NEW q \in Slots, lock'[q] # None
                 PROVE  /\ call'[lock'[q]].at \in {"launching", "ready"}
                        /\ call'[lock'[q]].slot = q
                        /\ process'[q] # None => process'[q].model = call'[lock'[q]].model
      BY DEF LocksSound
    <2>1. q # s /\ lock[q] \in Clients /\ lock[q] # c
      BY <1>2 DEF BackendInv, BackendTyped, LocksSound
    <2> QED
      BY <1>1, <1>2, <2>1 DEF BackendInv, LocksSound
  <1> QED
    BY <1>3, <1>4, <1>5, <1>6 DEF BackendInv

LEMMA LaunchEndsKeeps ==
    ASSUME NEW c \in Clients, BackendInv,
           NotReady(c) \/ LaunchRefused(c) \/ LaunchFails(c) \/ Publishes(c)
    PROVE  BackendInv'
  <1> DEFINE s == call[c].slot
  <1>1. /\ call[c].at \in {"queued", "launching", "ready"}
        /\ s \in Slots /\ call[c].model \in Models
    BY DEF BackendInv, CallsSound, NotReady, LaunchRefused, Queued, LaunchFails, Publishes
  <1>2. lock \in [Slots -> Clients \cup {None}] /\ process \in [Slots -> Process \cup {None}]
    BY DEF BackendInv, BackendTyped
  <1>3. CASE LaunchRefused(c)
    <2>1. lock' = [lock EXCEPT ![s] = None] /\ lock[s] = None
      BY <1>1, <1>2, <1>3 DEF LaunchRefused, Queued
    <2> DEFINE p == IF Exited(s) \/ Seen(s).state = "running" THEN None ELSE process[s]
    <2>2. p \in Process \cup {None}
      BY <1>1, <1>2
    <2>3. process' = [process EXCEPT ![s] = p] /\ status' = [status EXCEPT ![s] = Failed]
      BY <1>3 DEF LaunchRefused
    <2>4. Answer(c, FALSE) /\ Failed \in Status
      BY <1>3, StatusCases DEF LaunchRefused
    <2> HIDE DEF p
    <2> QED
      BY <1>1, <2>1, <2>2, <2>3, <2>4, StartEnds
  <1>4. CASE LaunchFails(c)
    <2>1. lock[s] = c
      BY <1>1, <1>4 DEF BackendInv, CallsSound, LaunchFails
    <2> QED
      BY <1>1, <1>4, <2>1, StartEnds, StatusCases DEF LaunchFails
  <1>5. CASE Publishes(c)
    <2>1. lock[s] = c /\ c # None
      BY <1>1, <1>5, RuntimeSlotsAssumption DEF BackendInv, CallsSound, Publishes
    <2>2. process[s] # None => process[s].model = call[c].model
      BY <1>1, <2>1 DEF BackendInv, LocksSound
    <2>3. process' = [process EXCEPT ![s] = process[s]] /\ process[s] \in Process \cup {None}
      BY <1>1, <1>2, <1>5 DEF Publishes
    <2>4. /\ status' = [status EXCEPT ![s] = Running(call[c].model)]
          /\ lock' = [lock EXCEPT ![s] = None] /\ Answer(c, TRUE)
          /\ Running(call[c].model) \in Status
      BY <1>1, <1>5, StatusCases DEF Publishes
    <2> QED
      BY <1>1, <2>1, <2>2, <2>3, <2>4, StartEnds
  <1>6. CASE NotReady(c)
    <2>1. lock' = [lock EXCEPT ![s] = None] /\ lock[s] = None
      BY <1>1, <1>2, <1>6 DEF NotReady, Queued
    <2>2. process' = [process EXCEPT ![s] = process[s]] /\ process[s] \in Process \cup {None}
      BY <1>1, <1>2, <1>6 DEF NotReady
    <2>3. /\ status' = [status EXCEPT ![s] = Failed]
          /\ Answer(c, FALSE) /\ Failed \in Status
      BY <1>6, StatusCases DEF NotReady
    <2> QED
      BY <1>1, <2>1, <2>2, <2>3, StartEnds
  <1> QED
    BY <1>3, <1>4, <1>5, <1>6

LEMMA StartMovesKeeps == ASSUME NEW c \in Clients, BackendInv, StartMoves(c) PROVE BackendInv'
  BY ReusesKeeps, LaunchesKeeps, EndpointReadyKeeps, LaunchEndsKeeps DEF StartMoves

(* A process that dies stays in its slot.                                      *)
LEMMA CrashKeeps == ASSUME NEW s \in Slots, BackendInv, Crash(s) PROVE BackendInv'
  <1> DEFINE dead == [process[s] EXCEPT !.alive = FALSE]
  <1>1. process[s] \in Process /\ lock[s] = None /\ UNCHANGED <<status, lock, call>>
    BY DEF BackendInv, BackendTyped, Crash
  <1>2. dead \in Process /\ dead.model = process[s].model
    BY <1>1 DEF Process
  <1>3. process' = [process EXCEPT ![s] = dead]
    BY DEF Crash
  <1> HIDE DEF dead
  <1>4. /\ process' \in [Slots -> Process \cup {None}] /\ process'[s] = dead
        /\ \A q \in Slots : q # s => process'[q] = process[q]
    BY <1>2, <1>3 DEF BackendInv, BackendTyped
  <1>5. process[s] # None
    BY DEF Crash
  <1>6. StatusTellsTheProcess'
    BY <1>1, <1>2, <1>4, <1>5 DEF BackendInv, StatusTellsTheProcess
  <1>7. LocksSound'
    BY <1>1, <1>4 DEF BackendInv, LocksSound
  <1> QED
    BY <1>1, <1>4, <1>6, <1>7 DEF BackendInv, BackendTyped, CallsSound

-----------------------------------------------------------------------------
(* The supervisor                                                              *)

(* SUPERVISED_SLOTS names no slot twice.                                       *)
LEMMA OrderIsInjective ==
    /\ SlotOrder \in Seq(Slots) /\ SlotOrder # <<>>
    /\ \A i, j \in DOMAIN SlotOrder : SlotOrder[i] = SlotOrder[j] => i = j
  <1> DEFINE n == Len(SlotOrder)
  <1>1. SlotOrder \in Seq(Slots) /\ SlotOrder # <<>> /\ n \in Nat /\ Cardinality(Slots) = n
    BY RuntimeSlotsAssumption
  <1>2. DOMAIN SlotOrder = 1 .. n /\ SlotOrder \in [1 .. n -> Slots]
    BY <1>1
  <1>3. \A s \in Slots : \E i \in 1 .. n : SlotOrder[i] = s
    BY <1>2 DEF Slots
  <1>4. SlotOrder \in Surjection(1 .. n, Slots)
    BY <1>2, <1>3 DEF Surjection
  <1>5. IsFiniteSet(1 .. n) /\ Cardinality(1 .. n) = n
    BY <1>1, FS_Interval
  <1>6. SlotOrder \in Injection(1 .. n, Slots)
    BY <1>1, <1>4, <1>5, FS_Surjection
  <1> QED
    BY <1>1, <1>2, <1>6 DEF Injection, IsInjective

LEMMA TickTyped ==
    ASSUME NEW k \in TickType
    PROVE  /\ \A at \in {"idle", "read", "judge", "stop", "start", "starting"} :
                 /\ [k EXCEPT !.at = at] \in TickType
                 /\ [k EXCEPT !.at = at].at = at
                 /\ [k EXCEPT !.at = at].seen = k.seen /\ [k EXCEPT !.at = at].todo = k.todo
           /\ NoTick \in TickType /\ NoTick.at = "idle"
  <1>1. <<>> \in Seq(Slots) /\ Blind \in [Slots -> Status \cup {None}]
    BY DEF Blind
  <1>2. NoTick \in TickType
    BY <1>1 DEF NoTick, TickType
  <1> QED
    BY <1>2 DEF TickType, NoTick

LEMMA NotEmpty == ASSUME NEW S, NEW q \in Seq(S), Len(q) # 0 PROVE q # <<>>
  OBVIOUS

(* The slot at hand, and the end of its turn.                                  *)
LEMMA PassedSound ==
    ASSUME NEW t \in Ticks, SupervisorInv,
           tick[t].at \in {"judge", "stop", "start", "starting"}
    PROVE  /\ Judged(t) \in Slots /\ Judged(t) = tick[t].todo[1]
           /\ Passed(t) \in TickType /\ TickSound(Passed(t))
  <1> DEFINE k == tick[t]
             todo == k.todo
             rest == Tail(todo)
  <1>1. k \in TickType /\ TickSound(k) /\ todo \in Seq(Slots)
    BY DEF SupervisorInv, SupervisorTyped, TickType
  <1>2. /\ todo # <<>> /\ Len(todo) \in Nat \ {0}
        /\ DOMAIN todo = 1 .. Len(todo)
        /\ Judged(t) = todo[1] /\ Judged(t) \in Slots
    BY <1>1 DEF TickSound, Judged
  <1>3. CASE Len(todo) = 1
    BY <1>1, <1>2, <1>3, TickTyped DEF Passed, TickSound
  <1>4. CASE Len(todo) # 1
    <2> DEFINE q == [k EXCEPT !.at = "judge", !.todo = rest, !.seen[Judged(t)] = None]
    <2>1. /\ rest \in Seq(Slots) /\ rest # <<>>
          /\ DOMAIN rest = 1 .. (Len(todo) - 1)
          /\ \A i \in DOMAIN rest : rest[i] = todo[i + 1]
      <3>1. rest \in Seq(Slots) /\ Len(rest) = Len(todo) - 1
        BY <1>1, <1>2
      <3>2. DOMAIN rest = 1 .. (Len(todo) - 1)
        BY <3>1
      <3>3. Len(rest) # 0
        BY <1>2, <1>4, <3>1
      <3>4. rest # <<>>
        BY <3>1, <3>3, NotEmpty
      <3>5. \A i \in 1 .. (Len(todo) - 1) : rest[i] = todo[i + 1]
        BY <1>1, <1>2
      <3> QED
        BY <3>1, <3>2, <3>4, <3>5
    <2>2. Passed(t) = q
      BY <1>4 DEF Passed
    <2>3. k.seen \in [Slots -> Status \cup {None}]
      BY <1>1 DEF TickType
    <2>4. /\ q \in TickType /\ q.at = "judge" /\ q.todo = rest
          /\ \A s \in Slots : q.seen[s] = IF s = Judged(t) THEN None ELSE k.seen[s]
      BY <1>1, <1>2, <2>1, <2>3 DEF TickType
    <2>5. \A i \in DOMAIN rest : i + 1 \in DOMAIN todo /\ i + 1 > 1 /\ rest[i] \in Slots
      BY <1>1, <1>2, <2>1
    <2>6. \A i \in DOMAIN rest : q.seen[rest[i]] \in Status
      <3> SUFFICES ASSUME NEW i \in DOMAIN rest PROVE q.seen[rest[i]] \in Status
        OBVIOUS
      <3>1. k.seen[todo[i + 1]] \in Status /\ i + 1 # 1 /\ 1 \in DOMAIN todo
        BY <1>1, <1>2, <2>1, <2>5 DEF TickSound
      <3>2. todo[i + 1] # todo[1]
        BY <1>1, <2>5, <3>1 DEF TickSound
      <3> QED
        BY <1>2, <2>1, <2>4, <2>5, <3>1, <3>2
    <2>7. \A i, j \in DOMAIN rest : rest[i] = rest[j] => i = j
      <3> SUFFICES ASSUME NEW i \in DOMAIN rest, NEW j \in DOMAIN rest, rest[i] = rest[j]
                   PROVE  i = j
        OBVIOUS
      <3>1. i + 1 = j + 1
        BY <1>1, <2>1, <2>5 DEF TickSound
      <3> QED
        BY <2>1, <3>1
    <2>8. 1 \in DOMAIN rest
      BY <1>2, <1>4, <2>1
    <2> QED
      BY <1>2, <2>1, <2>2, <2>4, <2>6, <2>7, <2>8 DEF TickSound
  <1> QED
    BY <1>2, <1>3, <1>4

(* A tick that becomes k.                                                      *)
LEMMA TickBecomesKeeps ==
    ASSUME NEW t \in Ticks, SupervisorInv, NEW k \in TickType, TickSound(k), TickBecomes(t, k),
           known' \in [Slots -> Models \cup {None}], attempts' \in [Slots -> 0..MaxAttempts]
    PROVE  SupervisorInv'
  BY DEF SupervisorInv, SupervisorTyped, TickBecomes

(* Every step of a tick is one of an actor to the backend, and keeps the       *)
(* supervisor's own invariant.                                                 *)
TickKeeps == ProcessStep /\ CallStep /\ UNCHANGED lock /\ SupervisorInv'

LEMMA TickBeginsKeeps ==
    ASSUME NEW t \in Ticks, SupervisorInv, TickBegins(t) PROVE TickKeeps
  <1>1. tick[t] \in TickType
    BY DEF SupervisorInv, SupervisorTyped
  <1> DEFINE k == [NoTick EXCEPT !.at = "read"]
  <1>2. k \in TickType /\ k.at = "read"
    BY <1>1, TickTyped
  <1>3. TickSound(k)
    BY <1>2 DEF TickSound
  <1> HIDE DEF k
  <1>4. SupervisorInv'
    BY <1>2, <1>3, TickBecomesKeeps DEF k, TickBegins, SupervisorInv, SupervisorTyped
  <1> QED
    BY <1>4 DEF TickKeeps, TickBegins, ProcessStep, CallStep, backend

LEMMA TickReadsKeeps ==
    ASSUME NEW t \in Ticks, NEW s \in Slots, BackendInv, SupervisorInv, TickReads(t, s)
    PROVE  TickKeeps
  <1> DEFINE k == [tick[t] EXCEPT !.seen[s] = Seen(s)]
  <1>1. tick[t] \in TickType /\ tick[t].at = "read" /\ Seen(s) \in Status
    BY SeenTyped DEF SupervisorInv, SupervisorTyped, TickReads, BackendInv
  <1>2. k \in TickType /\ k.at = "read"
    BY <1>1 DEF TickType
  <1>3. TickSound(k)
    BY <1>2 DEF TickSound
  <1> HIDE DEF k
  <1>4. SupervisorInv'
    BY <1>2, <1>3, TickBecomesKeeps DEF k, TickReads, SupervisorInv, SupervisorTyped
  <1> QED
    BY <1>4 DEF TickKeeps, TickReads, ProcessStep, Reads, CallStep

LEMMA TickHasReadKeeps ==
    ASSUME NEW t \in Ticks, SupervisorInv, TickHasRead(t) PROVE TickKeeps
  <1> DEFINE k == [Moved(t, "judge") EXCEPT !.todo = SlotOrder]
  <1>1. tick[t] \in TickType /\ \A s \in Slots : tick[t].seen[s] # None
    BY DEF SupervisorInv, SupervisorTyped, TickHasRead
  <1>2. \A s \in Slots : tick[t].seen[s] \in Status
    BY <1>1 DEF TickType
  <1>3. /\ k \in TickType /\ k.at = "judge" /\ k.todo = SlotOrder
        /\ k.seen = tick[t].seen
    BY <1>1, OrderIsInjective DEF TickType, Moved
  <1>4. SlotOrder # <<>> /\ \A i \in DOMAIN SlotOrder : SlotOrder[i] \in Slots
    BY OrderIsInjective DEF Slots
  <1>5. 1 \in DOMAIN SlotOrder
    BY OrderIsInjective
  <1>6. TickSound(k)
    BY <1>2, <1>3, <1>4, <1>5, OrderIsInjective DEF TickSound
  <1> HIDE DEF k
  <1>7. SupervisorInv'
    BY <1>3, <1>6, TickBecomesKeeps DEF k, TickHasRead, SupervisorInv, SupervisorTyped
  <1> QED
    BY <1>7 DEF TickKeeps, TickHasRead, ProcessStep, CallStep, backend

LEMMA TickJudgesKeeps ==
    ASSUME NEW t \in Ticks, SupervisorInv, TickJudges(t) PROVE TickKeeps
  <1> DEFINE s == Judged(t)
             seen == tick[t].seen[s]
             restarts == seen.state = "error" /\ known[s] # None /\ WithinBudget(s)
             k == [Moved(t, "stop") EXCEPT !.seen[s] = Running(known[s])]
  <1>1. tick[t] \in TickType /\ TickSound(tick[t]) /\ tick[t].at = "judge"
    BY DEF SupervisorInv, SupervisorTyped, TickJudges
  <1>2. s \in Slots /\ s = tick[t].todo[1] /\ Passed(t) \in TickType /\ TickSound(Passed(t))
    BY <1>1, PassedSound
  <1>3. seen \in Status
    BY <1>1, <1>2 DEF TickSound
  <1>4. known' \in [Slots -> Models \cup {None}]
    BY <1>2, <1>3, StatusCases DEF SupervisorInv, SupervisorTyped, TickJudges, Remembers
  <1>5. CASE restarts
    <2>1. attempts[s] \in 0 .. MaxAttempts /\ attempts[s] < MaxAttempts
      BY <1>2, <1>5 DEF SupervisorInv, SupervisorTyped, WithinBudget
    <2>2. attempts[s] + 1 \in 0 .. MaxAttempts
      BY <2>1, RuntimeSlotsAssumption
    <2>3. attempts' = [attempts EXCEPT ![s] = @ + 1] /\ TickBecomes(t, k)
      BY <1>5 DEF TickJudges
    <2>4. attempts' \in [Slots -> 0 .. MaxAttempts]
      BY <2>2, <2>3 DEF SupervisorInv, SupervisorTyped
    <2>5. known[s] \in Models /\ Running(known[s]) \in Status
      BY <1>2, <1>5, StatusCases DEF SupervisorInv, SupervisorTyped
    <2>6. Moved(t, "stop") \in TickType /\ Moved(t, "stop").at = "stop"
          /\ Moved(t, "stop").todo = tick[t].todo /\ Moved(t, "stop").seen = tick[t].seen
      BY <1>1, TickTyped DEF Moved
    <2>7. /\ k \in TickType /\ k.at = "stop" /\ k.todo = tick[t].todo
          /\ \A q \in Slots : k.seen[q] = IF q = s THEN Running(known[s]) ELSE tick[t].seen[q]
      BY <1>2, <2>5, <2>6 DEF TickType
    <2> HIDE DEF k
    <2>8. TickSound(k)
      <3>1. k.todo \in Seq(Slots)
        BY <2>7 DEF TickType
      <3>2. \A i \in DOMAIN k.todo : k.todo[i] \in Slots
        BY <3>1
      <3> QED
        BY <1>1, <1>2, <2>5, <2>7, <3>2 DEF TickSound
    <2> QED
      BY <1>4, <2>3, <2>4, <2>7, <2>8, TickBecomesKeeps
      DEF TickKeeps, TickJudges, ProcessStep, CallStep, backend
  <1>6. CASE ~restarts
    <2>1. attempts' = attempts /\ TickBecomes(t, Passed(t))
      BY <1>6 DEF TickJudges
    <2>2. SupervisorInv'
      BY <1>2, <1>4, <2>1, TickBecomesKeeps DEF SupervisorInv, SupervisorTyped
    <2> QED
      BY <2>2 DEF TickKeeps, TickJudges, ProcessStep, CallStep, backend
  <1> QED
    BY <1>5, <1>6

(* A tick that goes on with the same slot.                                     *)
LEMMA MovedSound ==
    ASSUME NEW t \in Ticks, SupervisorInv, NEW at \in {"start", "starting"},
           tick[t].at \in {"stop", "start"}
    PROVE  Moved(t, at) \in TickType /\ TickSound(Moved(t, at))
  <1>1. tick[t] \in TickType /\ TickSound(tick[t])
    BY DEF SupervisorInv, SupervisorTyped
  <1>2. /\ Moved(t, at) \in TickType /\ Moved(t, at).at = at
        /\ Moved(t, at).todo = tick[t].todo /\ Moved(t, at).seen = tick[t].seen
    BY <1>1 DEF Moved, TickType
  <1>3. \E m \in Models : tick[t].seen[tick[t].todo[1]] = Running(m)
    BY <1>1 DEF TickSound
  <1>4. /\ tick[t].todo # <<>>
        /\ \A i, j \in DOMAIN tick[t].todo : tick[t].todo[i] = tick[t].todo[j] => i = j
        /\ \A i \in DOMAIN tick[t].todo : i > 1 => tick[t].seen[tick[t].todo[i]] \in Status
    BY <1>1 DEF TickSound
  <1>5. Moved(t, at).at # "judge"
    BY <1>2
  <1> HIDE DEF Moved
  <1> QED
    BY <1>2, <1>3, <1>4, <1>5 DEF TickSound

LEMMA TickStopsKeeps ==
    ASSUME NEW t \in Ticks, SupervisorInv, TickStops(t) PROVE TickKeeps
  <1>1. Moved(t, "start") \in TickType /\ TickSound(Moved(t, "start")) /\ Judged(t) \in Slots
    BY MovedSound, PassedSound DEF TickStops
  <1>2. SupervisorInv'
    BY <1>1, TickBecomesKeeps DEF TickStops, SupervisorInv, SupervisorTyped
  <1> QED
    BY <1>1, <1>2 DEF TickKeeps, TickStops, ProcessStep, Stops, CallStep

LEMMA TickStartsKeeps ==
    ASSUME NEW t \in Ticks, SupervisorInv, TickStarts(t) PROVE TickKeeps
  <1>1. /\ Moved(t, "starting") \in TickType /\ TickSound(Moved(t, "starting"))
        /\ Judged(t) \in Slots /\ Judged(t) = tick[t].todo[1]
    BY MovedSound, PassedSound DEF TickStarts
  <1>2. TickSound(tick[t]) /\ tick[t].at = "start"
    BY DEF SupervisorInv, TickStarts
  <1>3. tick[t].seen[Judged(t)].model \in Models
    BY <1>1, <1>2, StatusCases DEF TickSound
  <1>4. SupervisorInv'
    BY <1>1, TickBecomesKeeps DEF TickStarts, SupervisorInv, SupervisorTyped
  <1>5. t \in Clients
    BY DEF Clients
  <1> QED
    BY <1>1, <1>3, <1>4, <1>5 DEF TickKeeps, TickStarts, ProcessStep, Asks, CallStep

LEMMA TickStartedKeeps ==
    ASSUME NEW t \in Ticks, SupervisorInv, TickStarted(t) PROVE TickKeeps
  <1>1. Passed(t) \in TickType /\ TickSound(Passed(t))
    BY PassedSound DEF TickStarted
  <1>2. SupervisorInv'
    BY <1>1, TickBecomesKeeps DEF TickStarted, SupervisorInv, SupervisorTyped
  <1>3. t \in Clients
    BY DEF Clients
  <1> QED
    BY <1>2, <1>3 DEF TickKeeps, TickStarted, ProcessStep, Takes, CallStep

LEMMA TickStepsKeeps ==
    ASSUME NEW t \in Ticks, BackendInv, SupervisorInv, TickSteps(t)
    PROVE  TickKeeps /\ UNCHANGED <<watcher, quiet, left>>
  <1>1. TickKeeps
    BY TickBeginsKeeps, TickHasReadKeeps, TickJudgesKeeps, TickStopsKeeps, TickStartsKeeps,
       TickStartedKeeps, TickReadsKeeps DEF TickSteps
  <1>2. UNCHANGED <<watcher, quiet, left>>
    BY DEF TickSteps, TickBegins, TickHasRead, TickJudges, TickStops, TickStarts, TickStarted,
           TickReads
  <1> QED
    BY <1>1, <1>2

-----------------------------------------------------------------------------
(* The panel, the watcher, and all steps                                       *)

(* The remainders of the bounds keep their type.                               *)
LEMMA BoundsKept ==
    ASSUME BoundsTyped,
           NEW what \in {"starts", "stops", "crashes", "sends", "cancels", "clears",
                         "questions", "plans"},
           left[what] > 0, left' = [left EXCEPT ![what] = @ - 1]
    PROVE  left' \in LimitType
  <1>1. left \in LimitType
    BY DEF BoundsTyped
  <1>2. left[what] \in Nat
    BY <1>1 DEF LimitType
  <1>3. left[what] - 1 \in Nat
    BY <1>2
  <1> QED
    BY <1>1, <1>3 DEF LimitType

LEMMA PanelKeeps ==
    ASSUME BackendInv, BoundsTyped,
           \/ \E s \in Slots : PanelStops(s)
           \/ \E s \in Slots, m \in Models : PanelStarts(s, m)
           \/ PanelStarted
    PROVE  BackendInv' /\ BoundsTyped' /\ UNCHANGED <<supervisor, watcher>>
  <1>1. ASSUME NEW s \in Slots, PanelStops(s)
        PROVE  BackendInv' /\ BoundsTyped' /\ UNCHANGED <<supervisor, watcher>>
    <2>1. ProcessStep /\ CallStep /\ UNCHANGED lock
      BY <1>1 DEF PanelStops, ProcessStep, Stops, CallStep
    <2>2. left' \in LimitType /\ quiet' = quiet
      BY <1>1, BoundsKept DEF PanelStops
    <2> QED
      BY <1>1, <2>1, <2>2, ActorStep DEF PanelStops, BoundsTyped
  <1>2. ASSUME NEW s \in Slots, NEW m \in Models, PanelStarts(s, m)
        PROVE  BackendInv' /\ BoundsTyped' /\ UNCHANGED <<supervisor, watcher>>
    <2>1. Panel \in Clients
      BY DEF Clients
    <2>2. ProcessStep /\ CallStep /\ UNCHANGED lock
      BY <1>2, <2>1 DEF PanelStarts, ProcessStep, Asks, CallStep
    <2>3. left' \in LimitType /\ quiet' = quiet
      BY <1>2, BoundsKept DEF PanelStarts
    <2> QED
      BY <1>2, <2>2, <2>3, ActorStep DEF PanelStarts, BoundsTyped
  <1>3. ASSUME PanelStarted
        PROVE  BackendInv' /\ BoundsTyped' /\ UNCHANGED <<supervisor, watcher>>
    <2>1. Panel \in Clients
      BY DEF Clients
    <2>2. ProcessStep /\ CallStep /\ UNCHANGED lock
      BY <1>3, <2>1 DEF PanelStarted, ProcessStep, Takes, CallStep
    <2> QED
      BY <1>3, <2>2, ActorStep DEF PanelStarted, BoundsTyped
  <1> QED
    BY <1>1, <1>2, <1>3

LEMMA WatchBeginsKeeps ==
    ASSUME SlotsIInv, NEW blocked, WatchBegins(blocked) PROVE SlotsIInv'
  <1>1. WatcherInv'
    <2>1. watcher' = [todo |-> SlotOrder, stops |-> FALSE] /\ ~watcher'.stops
      BY DEF WatchBegins
    <2>2. FALSE \in BOOLEAN
      OBVIOUS
    <2> QED
      BY <2>1, <2>2, OrderIsInjective DEF WatcherInv, WatcherTyped
  <1>2. ProcessStep /\ CallStep /\ UNCHANGED lock
    BY DEF WatchBegins, backend, ProcessStep, CallStep
  <1>3. SupervisorInv' /\ BoundsTyped'
    BY DEF WatchBegins, supervisor, SlotsIInv, SupervisorInv, SupervisorTyped, BoundsTyped
  <1> QED
    BY <1>1, <1>2, <1>3, ActorStep DEF SlotsIInv

LEMMA WatchReadsKeeps == ASSUME SlotsIInv, WatchReads PROVE SlotsIInv'
  <1>1. watcher.todo \in Seq(Slots) /\ watcher.todo # <<>>
    BY DEF SlotsIInv, WatcherInv, WatcherTyped, WatchReads
  <1>2. Head(watcher.todo) \in Slots /\ Tail(watcher.todo) \in Seq(Slots)
    BY <1>1
  <1>3. ProcessStep /\ CallStep /\ UNCHANGED lock
    BY <1>2 DEF WatchReads, ProcessStep, Reads, CallStep
  <1>4. WatcherInv'
    <2>1. CASE watcher' = [watcher EXCEPT !.stops = TRUE]
      BY <1>1, <2>1 DEF SlotsIInv, WatcherInv, WatcherTyped
    <2>2. CASE watcher' = [watcher EXCEPT !.todo = Tail(@)]
      <3>1. watcher'.stops = watcher.stops /\ ~watcher.stops
        BY <2>2 DEF WatchReads, SlotsIInv, WatcherInv, WatcherTyped
      <3>2. WatcherTyped'
        BY <1>2, <2>2 DEF SlotsIInv, WatcherInv, WatcherTyped
      <3> QED
        BY <3>1, <3>2 DEF WatcherInv
    <2> QED
      BY <2>1, <2>2 DEF WatchReads
  <1>5. SupervisorInv' /\ BoundsTyped'
    BY DEF WatchReads, supervisor, SlotsIInv, SupervisorInv, SupervisorTyped, BoundsTyped
  <1> QED
    BY <1>3, <1>4, <1>5, ActorStep DEF SlotsIInv

LEMMA WatchStopsKeeps == ASSUME SlotsIInv, WatchStops PROVE SlotsIInv'
  <1>1. watcher.todo \in Seq(Slots) /\ watcher.todo # <<>>
    BY DEF SlotsIInv, WatcherInv, WatcherTyped, WatchStops
  <1>2. Head(watcher.todo) \in Slots /\ Tail(watcher.todo) \in Seq(Slots)
    BY <1>1
  <1>3. ProcessStep /\ CallStep /\ UNCHANGED lock
    BY <1>2 DEF WatchStops, ProcessStep, Stops, CallStep
  <1>4. WatcherInv'
    <2>1. watcher' = [todo |-> Tail(watcher.todo), stops |-> FALSE] /\ ~watcher'.stops
      BY DEF WatchStops
    <2>2. FALSE \in BOOLEAN
      OBVIOUS
    <2> QED
      BY <1>2, <2>1, <2>2 DEF WatcherInv, WatcherTyped
  <1>5. SupervisorInv' /\ BoundsTyped'
    BY DEF WatchStops, supervisor, SlotsIInv, SupervisorInv, SupervisorTyped, BoundsTyped
  <1> QED
    BY <1>3, <1>4, <1>5, ActorStep DEF SlotsIInv

LEMMA WindowPassesKeeps ==
    ASSUME NEW s \in Slots, SlotsIInv, WindowPasses(s) PROVE SlotsIInv'
  <1>1. 0 \in 0 .. MaxAttempts
    BY RuntimeSlotsAssumption
  <1>2. SupervisorInv'
    BY <1>1 DEF SlotsIInv, SupervisorInv, SupervisorTyped, WindowPasses
  <1>3. ProcessStep /\ CallStep /\ UNCHANGED lock
    BY DEF WindowPasses, backend, ProcessStep, CallStep
  <1> QED
    BY <1>2, <1>3, ActorStep DEF SlotsIInv, WindowPasses, WatcherInv, WatcherTyped, BoundsTyped

(* Every step of the slots and their actors keeps the invariant.               *)
LEMMA SlotStepKeeps == ASSUME SlotsIInv, SlotStep PROVE SlotsIInv'
  <1> USE DEF SlotsIInv
  <1>1. ASSUME NEW c \in Clients, StartMoves(c) PROVE SlotsIInv'
    BY <1>1, StartMovesKeeps
    DEF StartMoves, supervisor, SupervisorInv, SupervisorTyped, WatcherInv, WatcherTyped,
        BoundsTyped
  <1>2. ASSUME NEW s \in Slots, Crash(s) PROVE SlotsIInv'
    <2>1. left' \in LimitType /\ quiet' = quiet
      BY <1>2, BoundsKept DEF Crash
    <2> QED
      BY <1>2, <2>1, CrashKeeps
      DEF Crash, supervisor, SupervisorInv, SupervisorTyped, WatcherInv, WatcherTyped, BoundsTyped
  <1>3. ASSUME \/ \E s \in Slots : PanelStops(s)
               \/ \E s \in Slots, m \in Models : PanelStarts(s, m)
               \/ PanelStarted
        PROVE  SlotsIInv'
    BY <1>3, PanelKeeps DEF supervisor, SupervisorInv, SupervisorTyped, WatcherInv, WatcherTyped
  <1>4. ASSUME NEW t \in Ticks, TickSteps(t) PROVE SlotsIInv'
    <2>1. TickKeeps /\ UNCHANGED <<watcher, quiet, left>>
      BY <1>4, TickStepsKeeps
    <2> QED
      BY <2>1, ActorStep DEF TickKeeps, WatcherInv, WatcherTyped, BoundsTyped
  <1>5. ASSUME IdlePasses PROVE SlotsIInv'
    <2>1. ProcessStep /\ CallStep /\ UNCHANGED lock
      BY <1>5 DEF IdlePasses, backend, ProcessStep, CallStep
    <2>2. quiet' \in BOOLEAN
      BY <1>5 DEF IdlePasses
    <2> QED
      BY <1>5, <2>1, <2>2, ActorStep
      DEF IdlePasses, supervisor, SupervisorInv, SupervisorTyped, WatcherInv, WatcherTyped,
          BoundsTyped
  <1> QED
    BY <1>1, <1>2, <1>3, <1>4, <1>5, WindowPassesKeeps, WatchReadsKeeps, WatchStopsKeeps
    DEF SlotStep

(* The slots start stopped, and nobody has asked for anything.                 *)
LEMMA SlotsInitKeeps == SlotsInit => SlotsIInv
  <1> SUFFICES ASSUME SlotsInit PROVE SlotsIInv
    OBVIOUS
  <1>1. /\ NoCall \in CallType /\ NoCall.at = "idle"
        /\ <<>> \in Seq(Slots)
        /\ 0 \in 0 .. MaxAttempts
    BY RuntimeSlotsAssumption DEF CallType, NoCall
  <1>2. NoTick \in TickType /\ NoTick.at = "idle"
    BY <1>1 DEF NoTick, TickType, Blind
  <1>3. BackendTyped /\ StatusTellsTheProcess
    BY <1>1, StatusCases DEF SlotsInit, BackendTyped, StatusTellsTheProcess
  <1>4. CallsSound /\ LocksSound
    BY <1>1 DEF SlotsInit, CallsSound, LocksSound
  <1>5. SupervisorInv
    BY <1>1, <1>2 DEF SlotsInit, SupervisorInv, SupervisorTyped, TickSound
  <1>6. WatcherInv
    <2>1. watcher = [todo |-> <<>>, stops |-> FALSE] /\ ~watcher.stops
      BY DEF SlotsInit
    <2>2. FALSE \in BOOLEAN
      OBVIOUS
    <2> QED
      BY <1>1, <2>1, <2>2 DEF WatcherInv, WatcherTyped
  <1>7. quiet \in BOOLEAN /\ left \in LimitType
    BY RuntimeSlotsAssumption DEF SlotsInit
  <1> QED
    BY <1>3, <1>4, <1>5, <1>6, <1>7 DEF SlotsIInv, BackendInv, BoundsTyped

LEMMA SlotsStutter == SlotsIInv /\ UNCHANGED slotVars => SlotsIInv'
  BY DEF slotVars, backend, supervisor, SlotsIInv, BackendInv, BackendTyped, CallsSound,
         LocksSound, StatusTellsTheProcess, SupervisorInv, SupervisorTyped, WatcherInv,
         WatcherTyped, BoundsTyped

LEMMA SlotsIInvTyped == SlotsIInv => SlotsTypeOK /\ StatusTellsTheProcess
  BY DEF SlotsIInv, BackendInv, BackendTyped, SupervisorInv, SupervisorTyped, WatcherInv,
         WatcherTyped, BoundsTyped, SlotsTypeOK

(* The slots without the chat (RuntimeService, the slot panel, the supervisor  *)
(* and the idle watcher) keep the invariant.                                   *)
THEOREM SlotsSpecIInv == SlotsSpec => []SlotsIInv
  <1>1. SlotsIInv /\ [SlotsNext]_slotVars => SlotsIInv'
    BY SlotStepKeeps, WatchBeginsKeeps, SlotsStutter DEF SlotsNext
  <1> QED
    BY <1>1, SlotsInitKeeps, PTL DEF SlotsSpec

(* Between launches a slot's status names the process that is in it or is an   *)
(* error, and in the middle of a launch the slot is never called running: for  *)
(* any number of slots, ticks and clients (start_model, status_for_slot).      *)
THEOREM SlotsStatusTells == SlotsSpec => []StatusTellsTheProcess
  BY SlotsSpecIInv, SlotsIInvTyped, PTL
=============================================================================
