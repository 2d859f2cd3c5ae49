---------------------------- MODULE RuntimeSlots ----------------------------
(* The runtime slots, each of which can hold one llama-server process, and the *)
(* renderer's actors that start and stop them: the slot panel, the supervisor  *)
(* (apps/desktop/src/services/runtimeProcessSupervisor.ts) and the idle        *)
(* watcher (services/lazyRuntimePolicy.ts).  ChatSend adds the chat's sends.   *)
(* All of them go through services/runtimeSlotManager.ts to the backend's      *)
(* RuntimeService (src/backend/app/runtime/service.py), whose requests run in  *)
(* threads: a start holds the slot's lock until the launch has ended, a stop   *)
(* and a status read take no lock.                                             *)
(*                                                                             *)
(* Simplifications.  The backend answers every request.  Left out are the      *)
(* simulation mode, two slots sharing one process, the retry of a launch with  *)
(* fewer layers after an out-of-memory error, the exclusion of the two GPU     *)
(* slots, vision_gpu (it has no lock), and the listeners on a slot's port that *)
(* are no slot's process: another program's, and those of a process that a     *)
(* launch has replaced in its slot without stopping it (Launches).  An error   *)
(* that names the model it is about (a refused start) is the same Failed: the  *)
(* renderer's actors take the model from what they remember.                   *)
EXTENDS Naturals, Sequences, FiniteSets

CONSTANTS
    SlotOrder,   \* SUPERVISED_SLOTS: the slots, in the supervisor's order
    Models,
    Ticks,       \* the supervisor's ticks that can overlap
    Sends,       \* the chat's sends: clients that start slots, see ChatSend
    Panel,       \* the slot panel
    MaxAttempts, \* MAX_RESTART_ATTEMPTS
    Limits,      \* bounds: what may happen, one member of Limits per behaviour
    None

Slots == {SlotOrder[i] : i \in DOMAIN SlotOrder}
Clients == Ticks \cup Sends \cup {Panel}

(* The bounds of a behaviour: how often each thing happens at most.            *)
LimitType == [starts: Nat,         \* starts from the panel
              stops: Nat,          \* stops from the panel
              crashes: Nat,        \* processes that die after their launch
              supervised: BOOLEAN, \* the supervisor runs
              watched: BOOLEAN,    \* the idle watcher runs
              sends: Nat, cancels: Nat, clears: Nat,
              questions: Nat, plans: Nat] \* see ChatSend

ASSUME RuntimeSlotsAssumption ==
    /\ SlotOrder \in Seq(Slots) \ {<<>>} /\ Cardinality(Slots) = Len(SlotOrder)
    /\ Limits \subseteq LimitType
    /\ MaxAttempts \in Nat \ {0}
    /\ None \notin Models \cup Clients

VARIABLES
    process,  \* _slots: the process of each slot
    status,   \* _statuses
    lock,     \* _slot_locks: the client whose start is under way
    call,     \* the start request of each client
    known,    \* lastKnownModelBySlot
    attempts, \* restartBudgetBySlot: attempts in the window
    tick,     \* checkAndRecoverSlots
    watcher,  \* maybeEvictIdleWorkModels: the slots it has yet to look at, and
              \* whether it is about to stop the first of them
    quiet,    \* no work model was used for idleUnloadWorkModelsMinutes
    left      \* the bounds' remainders

backend == <<process, status, lock, call>>
supervisor == <<known, attempts, tick>>
slotVars == <<backend, supervisor, watcher, quiet, left>>

-----------------------------------------------------------------------------
(* Types *)

Process == [model: Models, alive: BOOLEAN]
Stopped == [state |-> "stopped", model |-> None]
Failed == [state |-> "error", model |-> None]
Running(m) == [state |-> "running", model |-> m]
Status == {Stopped, Failed} \cup {Running(m) : m \in Models}

CallType == [at: {"idle", "queued", "launching", "ready", "answered"},
             slot: Slots \cup {None}, model: Models \cup {None}, ok: BOOLEAN]
NoCall == [at |-> "idle", slot |-> None, model |-> None, ok |-> FALSE]

(* A tick: what it has read, and the slots it has yet to judge.                *)
TickType == [at: {"idle", "read", "judge", "stop", "start", "starting"},
             seen: [Slots -> Status \cup {None}], todo: Seq(Slots)]
Blind == [s \in Slots |-> None]
NoTick == [at |-> "idle", seen |-> Blind, todo |-> <<>>]

SlotsInit ==
    /\ process = [s \in Slots |-> None]
    /\ status = [s \in Slots |-> Stopped]
    /\ lock = [s \in Slots |-> None]
    /\ call = [c \in Clients |-> NoCall]
    /\ known = [s \in Slots |-> None]
    /\ attempts = [s \in Slots |-> 0]
    /\ tick = [t \in Ticks |-> NoTick]
    /\ watcher = [todo |-> <<>>, stops |-> FALSE]
    /\ quiet = FALSE
    /\ left \in Limits

-----------------------------------------------------------------------------
(* The backend *)

Exited(s) == process[s] # None /\ ~process[s].alive

(* status_for_slot, which every reader of a status goes through: a process     *)
(* that has exited makes the slot "stopped".                                   *)
Seen(s) == IF Exited(s) THEN Stopped ELSE status[s]
Read(s) ==
    /\ process' = [process EXCEPT ![s] = IF Exited(s) THEN None ELSE @]
    /\ status' = [status EXCEPT ![s] = Seen(s)]

(* stop_model_for_slot: under no lock, in the middle of a launch too.          *)
Stop(s) ==
    /\ process' = [process EXCEPT ![s] = None]
    /\ status' = [status EXCEPT ![s] = Stopped]

(* POST /runtime/slots/{slot}/start.                                           *)
Call(c, s, m) ==
    /\ call[c].at = "idle"
    /\ call' = [call EXCEPT ![c] = [at |-> "queued", slot |-> s, model |-> m, ok |-> FALSE]]

Answer(c, ok) == call' = [call EXCEPT ![c].at = "answered", ![c].ok = ok]
Returned(c) == call' = [call EXCEPT ![c] = NoCall]

Queued(c) == call[c].at = "queued" /\ lock[call[c].slot] = None

(* The model already runs, with the same launch fingerprint.                   *)
Reuses(c) ==
    LET s == call[c].slot IN
    /\ Queued(c)
    /\ Seen(s) = Running(call[c].model)
    /\ Answer(c, TRUE)
    /\ UNCHANGED <<process, status, lock>>

(* _model_readiness_error: the model is not in the index, or its file is       *)
(* missing, no GGUF, unsupported or unhealthy.  The error is published before  *)
(* anything is read or stopped: what runs in the slot runs on under it.        *)
NotReady(c) ==
    /\ Queued(c)
    /\ status' = [status EXCEPT ![call[c].slot] = Failed]
    /\ Answer(c, FALSE)
    /\ UNCHANGED <<process, lock>>

(* A slot that is called running is stopped, and the launch begins; a process  *)
(* under an error is replaced without being stopped.  The status stays what it *)
(* was until the launch has ended.                                             *)
\* Mutant: what runs in the slot is not stopped before the launch.
LaunchesOver(c) ==
    LET s == call[c].slot IN
    /\ Queued(c)
    /\ lock' = [lock EXCEPT ![s] = c]
    /\ status' = [status EXCEPT ![s] = Seen(s)]
    /\ process' = [process EXCEPT ![s] = [model |-> call[c].model, alive |-> TRUE]]
    /\ call' = [call EXCEPT ![c].at = "launching"]
Launches(c) ==
    LET s == call[c].slot IN
    /\ Queued(c)
    /\ lock' = [lock EXCEPT ![s] = c]
    /\ status' = [status EXCEPT ![s] = IF Seen(s).state = "running" THEN Stopped ELSE Seen(s)]
    /\ process' = [process EXCEPT ![s] = [model |-> call[c].model, alive |-> TRUE]]
    /\ call' = [call EXCEPT ![c].at = "launching"]

(* The launch plan has a blocker, or the operating system starts no process:   *)
(* only a slot that was called running has been stopped by then.               *)
LaunchRefused(c) ==
    LET s == call[c].slot IN
    /\ Queued(c)
    /\ status' = [status EXCEPT ![s] = Failed]
    /\ process' = [process EXCEPT ![s] = IF Exited(s) \/ Seen(s).state = "running"
                                        THEN None ELSE @]
    /\ Answer(c, FALSE)
    /\ UNCHANGED lock

(* wait_for_runtime_endpoint: the endpoint answers.                            *)
EndpointReady(c) ==
    LET s == call[c].slot IN
    /\ call[c].at = "launching"
    /\ process[s] # None /\ process[s].alive
    /\ call' = [call EXCEPT ![c].at = "ready"]
    /\ UNCHANGED <<process, status, lock>>

(* The process has exited or been stopped, or the endpoint is not ready in     *)
(* time: _terminate_process_for_slot, and the error.                           *)
LaunchFails(c) ==
    LET s == call[c].slot IN
    /\ call[c].at = "launching"
    /\ process' = [process EXCEPT ![s] = None]
    /\ status' = [status EXCEPT ![s] = Failed]
    /\ lock' = [lock EXCEPT ![s] = None]
    /\ Answer(c, FALSE)

(* The status of the launch, whatever has become of the process meanwhile.     *)
Publishes(c) ==
    LET s == call[c].slot IN
    /\ call[c].at = "ready"
    /\ status' = [status EXCEPT ![s] = Running(call[c].model)]
    /\ lock' = [lock EXCEPT ![s] = None]
    /\ Answer(c, TRUE)
    /\ UNCHANGED process

StartMoves(c) ==
    /\ \/ Reuses(c) \/ NotReady(c) \/ Launches(c) \/ LaunchRefused(c)
       \/ EndpointReady(c) \/ LaunchFails(c) \/ Publishes(c)
    /\ UNCHANGED <<supervisor, watcher, quiet, left>>

(* A process dies after its launch.                                            *)
Crash(s) ==
    /\ left.crashes > 0
    /\ lock[s] = None
    /\ process[s] # None /\ process[s].alive
    /\ process' = [process EXCEPT ![s].alive = FALSE]
    /\ left' = [left EXCEPT !.crashes = @ - 1]
    /\ UNCHANGED <<status, lock, call, supervisor, watcher, quiet>>

-----------------------------------------------------------------------------
(* The slot panel: handleStart, handleStop; a restart and a saved profile are  *)
(* a stop and a start.                                                         *)

PanelStarts(s, m) ==
    /\ left.starts > 0
    /\ Call(Panel, s, m)
    /\ left' = [left EXCEPT !.starts = @ - 1]
    /\ UNCHANGED <<process, status, lock, supervisor, watcher, quiet>>

PanelStarted ==
    /\ call[Panel].at = "answered"
    /\ Returned(Panel)
    /\ UNCHANGED <<process, status, lock, supervisor, watcher, quiet, left>>

PanelStops(s) ==
    /\ left.stops > 0
    /\ Stop(s)
    /\ left' = [left EXCEPT !.stops = @ - 1]
    /\ UNCHANGED <<lock, call, supervisor, watcher, quiet>>

-----------------------------------------------------------------------------
(* The supervisor: every minute a tick begins, whether or not the one before   *)
(* it has ended.                                                               *)

TickBecomes(t, k) == tick' = [tick EXCEPT ![t] = k]
Moved(t, at) == [tick[t] EXCEPT !.at = at]
Judged(t) == Head(tick[t].todo)

(* The slot at hand is done with; the locals of a tick that has ended are      *)
(* forgotten.                                                                  *)
Passed(t) ==
    IF Len(tick[t].todo) = 1 THEN NoTick
    ELSE [tick[t] EXCEPT !.at = "judge", !.todo = Tail(@), !.seen[Judged(t)] = None]

TickBegins(t) ==
    /\ left.supervised
    /\ tick[t].at = "idle"
    /\ TickBecomes(t, [NoTick EXCEPT !.at = "read"])
    /\ UNCHANGED <<backend, known, attempts, watcher, quiet, left>>

(* getAllSlotsStatus: one request per slot, in any order.                      *)
TickReads(t, s) ==
    /\ tick[t].at = "read"
    /\ tick[t].seen[s] = None
    /\ Read(s)
    /\ TickBecomes(t, [tick[t] EXCEPT !.seen[s] = Seen(s)])
    /\ UNCHANGED <<lock, call, known, attempts, watcher, quiet, left>>

TickHasRead(t) ==
    /\ tick[t].at = "read"
    /\ \A s \in Slots : tick[t].seen[s] # None
    /\ TickBecomes(t, [Moved(t, "judge") EXCEPT !.todo = SlotOrder])
    /\ UNCHANGED <<backend, known, attempts, watcher, quiet, left>>

(* The model a slot runs is remembered, and forgotten once the slot is stopped.*)
Remembers(s, seen) ==
    known' = IF seen.state = "error" THEN known ELSE [known EXCEPT ![s] = seen.model]

(* consumeRestartBudget.                                                       *)
\* Mutant: an attempt is granted when the last one is already used.
WithinBudgetByOne(s) == attempts[s] <= MaxAttempts
\* Mutant: the last attempt is never granted.
WithinBudgetButOne(s) == attempts[s] + 1 < MaxAttempts
WithinBudget(s) == attempts[s] < MaxAttempts

(* What the snapshot says of the slot at hand is acted on, however old.        *)
TickJudges(t) ==
    LET s == Judged(t)
        seen == tick[t].seen[s]
        restarts == seen.state = "error" /\ known[s] # None /\ WithinBudget(s)
    IN
    /\ tick[t].at = "judge"
    /\ Remembers(s, seen)
    /\ attempts' = IF restarts THEN [attempts EXCEPT ![s] = @ + 1] ELSE attempts
    /\ TickBecomes(t, IF restarts THEN [Moved(t, "stop") EXCEPT !.seen[s] = Running(known[s])]
                      ELSE Passed(t))
    /\ UNCHANGED <<backend, watcher, quiet, left>>

(* restartSlot, with the model remembered when the tick judged the slot.       *)
TickStops(t) ==
    /\ tick[t].at = "stop"
    /\ Stop(Judged(t))
    /\ TickBecomes(t, Moved(t, "start"))
    /\ UNCHANGED <<lock, call, known, attempts, watcher, quiet, left>>

TickStarts(t) ==
    /\ tick[t].at = "start"
    /\ Call(t, Judged(t), tick[t].seen[Judged(t)].model)
    /\ TickBecomes(t, Moved(t, "starting"))
    /\ UNCHANGED <<process, status, lock, known, attempts, watcher, quiet, left>>

TickStarted(t) ==
    /\ tick[t].at = "starting"
    /\ call[t].at = "answered"
    /\ Returned(t)
    /\ TickBecomes(t, Passed(t))
    /\ UNCHANGED <<process, status, lock, known, attempts, watcher, quiet, left>>

(* RESTART_BUDGET_WINDOW_MS after the window's first attempt.                  *)
WindowPasses(s) ==
    /\ attempts[s] > 0
    /\ attempts' = [attempts EXCEPT ![s] = 0]
    /\ UNCHANGED <<backend, known, tick, watcher, quiet, left>>

TickSteps(t) ==
    \/ TickBegins(t) \/ TickHasRead(t) \/ TickJudges(t)
    \/ TickStops(t) \/ TickStarts(t) \/ TickStarted(t)
    \/ \E s \in Slots : TickReads(t, s)

-----------------------------------------------------------------------------
(* The idle watcher *)

(* Nobody has used a work model for long enough.                               *)
IdlePasses ==
    /\ left.watched
    /\ ~quiet
    /\ quiet' = TRUE
    /\ UNCHANGED <<backend, supervisor, watcher, left>>

(* The guard is asked once, before the first await.                            *)
WatchBegins(blocked) ==
    /\ left.watched
    /\ watcher.todo = <<>>
    /\ quiet /\ ~blocked
    /\ watcher' = [todo |-> SlotOrder, stops |-> FALSE]
    /\ UNCHANGED <<backend, supervisor, quiet, left>>

WatchReads ==
    /\ watcher.todo # <<>> /\ ~watcher.stops
    /\ LET s == Head(watcher.todo) IN
       /\ Read(s)
       /\ watcher' = IF Seen(s).state = "running" THEN [watcher EXCEPT !.stops = TRUE]
                     ELSE [watcher EXCEPT !.todo = Tail(@)]
    /\ UNCHANGED <<lock, call, supervisor, quiet, left>>

WatchStops ==
    /\ watcher.stops
    /\ Stop(Head(watcher.todo))
    /\ watcher' = [todo |-> Tail(watcher.todo), stops |-> FALSE]
    /\ UNCHANGED <<lock, call, supervisor, quiet, left>>

-----------------------------------------------------------------------------
(* Specification *)

(* The steps of the slots and their actors, without the chat.                  *)
SlotStep ==
    \/ \E c \in Clients : StartMoves(c)
    \/ \E s \in Slots : Crash(s) \/ PanelStops(s) \/ WindowPasses(s)
    \/ \E s \in Slots, m \in Models : PanelStarts(s, m)
    \/ PanelStarted
    \/ \E t \in Ticks : TickSteps(t)
    \/ IdlePasses \/ WatchReads \/ WatchStops

SlotsNext == SlotStep \/ WatchBegins(FALSE)

(* Requests are answered, a launch ends, and the supervisor's timer ticks.     *)
(* Nothing is assumed of the panel, of the watcher and of the five minutes     *)
(* after which attempts are forgotten.                                         *)
SlotsSpec ==
    /\ SlotsInit /\ [][SlotsNext]_slotVars
    /\ \A c \in Clients : WF_slotVars(StartMoves(c))
    /\ \A t \in Ticks : WF_slotVars(TickSteps(t))

-----------------------------------------------------------------------------
(* Properties *)

SlotsTypeOK ==
    /\ process \in [Slots -> Process \cup {None}]
    /\ status \in [Slots -> Status]
    /\ lock \in [Slots -> Clients \cup {None}]
    /\ call \in [Clients -> CallType]
    /\ known \in [Slots -> Models \cup {None}]
    /\ attempts \in [Slots -> 0..MaxAttempts]
    /\ tick \in [Ticks -> TickType]
    /\ watcher \in [todo: Seq(Slots), stops: BOOLEAN]
    /\ quiet \in BOOLEAN
    /\ left \in LimitType

(* Between launches no process is hidden: a process in its slot is the one the *)
(* slot's status names, or the slot is in an error (a refused start publishes  *)
(* one over the process that runs); it is never under "stopped" or under       *)
(* another model's name.  During a launch the slot is never called running:    *)
(* nobody is sent to a process that is about to be replaced.  Stops, restarts, *)
(* the watcher and status reads may come between any two steps of a launch.    *)
StatusTellsTheProcess ==
    \A s \in Slots :
        IF lock[s] = None
        THEN process[s] # None => status[s] \in {Running(process[s].model), Failed}
        ELSE status[s].state # "running"

(* A slot that is in an error while the supervisor remembers its model is      *)
(* restarted, unless the attempts of the window are used up: the error goes,   *)
(* or a tick that read "stopped" in the middle of a launch makes the           *)
(* supervisor forget the model.                                                *)
ErrorIsActedOn ==
    \A s \in Slots :
        (status[s].state = "error" /\ known[s] # None)
            ~> (status[s].state # "error" \/ known[s] = None \/ attempts[s] = MaxAttempts)

(* What runtimeProcessSupervisor.ts says of itself: a slot that ran and dies   *)
(* unexpectedly is restarted with the model it had.  When a process of a slot  *)
(* whose model the supervisor remembers has died, an attempt is made or a      *)
(* process runs again (in behaviours in which nobody stops the slot).          *)
CrashIsRestarted ==
    \A s \in Slots :
        (Exited(s) /\ known[s] # None)
            ~> (attempts[s] > 0 \/ (process[s] # None /\ process[s].alive))
=============================================================================
