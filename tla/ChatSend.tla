------------------------------ MODULE ChatSend ------------------------------
(* The life of a chat message in the renderer: sendMessage of                  *)
(* apps/desktop/src/stores/runtimeChatStore.ts and the phases it calls, from   *)
(* the guard on isSending to the history of runs, with the user's cancel and   *)
(* clear, the timers, and the runtime slots it needs (RuntimeSlots).  A send   *)
(* is one async function, and the store's isSending, activeRun and             *)
(* historicalRuns are all that two of them share: a cancelled send is still on *)
(* its way through its awaits when the next one begins.  Beside the sends, a   *)
(* question found in the workspace and the approval of a plan write activeRun  *)
(* (checkForPendingQuestion, submitAssistantAnswer, handleChatAction).         *)
(*                                                                             *)
(* An action is what happens between two awaits; awaits between which nothing  *)
(* shared is touched are one place:                                            *)
(*   look, prestep   the vision pre-step: before, and after isSending is set   *)
(*   prelude         preflight, workflow prelude, skills: no run yet           *)
(*   setup           backend check, routing, slot probe, workspace context     *)
(*   revstart, review  the repository review: its slot, its batches            *)
(*   prepare         the prompt, inside the try                                *)
(*   load, start, warm, discard  the on-demand start of the slot's model       *)
(*   bind, stream, finish, gone  the request, its end, the catch block's await *)
(* Left out: what messages say, the choice of the model (Route), the           *)
(* pre-step's own start of the vision slot, the resident fallback, and what    *)
(* becomes of a run that waits for the answer to its own question (AgentTurn). *)
(* One window, begun with nothing persisted: services/runtimeChatSync.ts also  *)
(* copies isSending, without its send, from the session before and from the    *)
(* detached chat window.                                                       *)
EXTENDS RuntimeSlots

CONSTANTS
    Route,   \* Route[r]: the slot and the model routing chooses
    Images,  \* the sends with an image for a coding turn
    Reviews  \* the sends that become a repository review

ASSUME ChatSendAssumption ==
    /\ Sends \subseteq Nat
    /\ Route \in [Sends -> [slot: Slots, model: Models]]
    /\ Images \subseteq Sends /\ Reviews \subseteq Sends

VARIABLES
    isSending, isStreaming,
    active,  \* activeRun
    history, \* historicalRuns: the status of each run in it
    send,    \* each send: where it is, its abort signal and its total timer
    cards    \* the questions and plans put to the user

chat == <<isSending, isStreaming, active, history, send, cards>>
vars == <<slotVars, chat>>

-----------------------------------------------------------------------------
(* Types *)

Ended == {"completed", "failed", "cancelled", "timeout"} \* with a finishedAt
RunStatuses == {"working", "asking", "resuming"} \cup Ended
Run == [run: Sends \cup {None}, \* None: a run of an earlier session of the program
        status: RunStatuses,
        finished: BOOLEAN,      \* it has a finishedAt
        own: BOOLEAN]           \* made by its send, not anew for an old run's id

CardsType == [question: {"none", "shown", "answered"}, \* the question found in a workspace
              asked: SUBSET Sends,     \* the sends that left one in their workspace
              planned: SUBSET Sends,   \* the sends whose plan waits for its approval
              followUps: SUBSET Sends] \* the sends an answer waits for
NoCards == [question |-> "none", asked |-> {}, planned |-> {}, followUps |-> {}]

\* Places of a send that has a run and has not reached the end of its try.
Working == {"setup", "revstart", "review", "prepare", "load", "start", "warm",
            "discard", "bind", "stream", "finish"}
SendType == [at: {"idle", "look", "prestep", "prelude", "gone", "done"} \cup Working,
             aborted: BOOLEAN,
             listed: BOOLEAN,  \* its controller is in runsAbortControllers
             timer: BOOLEAN,   \* its total timer is armed
             started: BOOLEAN] \* startedThisRun
NewSend == [at |-> "idle", aborted |-> FALSE, listed |-> FALSE, timer |-> FALSE,
            started |-> FALSE]

Init ==
    /\ SlotsInit
    /\ isSending = FALSE
    /\ isStreaming = FALSE
    /\ active = None
    /\ history = [r \in Sends |-> None]
    /\ send = [r \in Sends |-> NewSend]
    /\ cards = NoCards

-----------------------------------------------------------------------------
(* Helpers *)

At(r, at) == send[r].at = at
Becomes(r, k) == send' = [send EXCEPT ![r] = k]
Goto(r, at) == Becomes(r, [send[r] EXCEPT !.at = at])

SlotOf(r) == Route[r].slot
Ready(r) == Seen(SlotOf(r)) = Running(Route[r].model)

(* updateActiveRun with updateRunStatus: whichever run is the active one.  A   *)
(* run that has its finishedAt keeps it.                                       *)
Marked(s) ==
    IF active = None THEN None
    ELSE [active EXCEPT !.status = s, !.finished = @ \/ s \in Ended]

Archived(a) ==
    IF a = None \/ a.run = None THEN history ELSE [history EXCEPT ![a.run] = a.status]

(* The end of a turn: the active run, with its last status, goes to the        *)
(* history.                                                                    *)
\* Mutant: the active run is archived and stays.
ReleasedKeeping(s) ==
    /\ isSending' = FALSE
    /\ history' = Archived(Marked(s))
    /\ active' = Marked(s)
Released(s) ==
    /\ isSending' = FALSE
    /\ history' = Archived(Marked(s))
    /\ active' = None

(* finalizeSendState.                                                          *)
Finalized(s) == Released(s) /\ isStreaming' = FALSE

(* The end of a send.  An exit in front of the try leaves the controller in    *)
(* the map, and some of them leave the total timer armed.                      *)
Left(r, timer) ==
    [send[r] EXCEPT !.at = "done", !.started = FALSE, !.timer = timer,
                    !.aborted = @ /\ timer]
(* The finally block.                                                          *)
Cleaned(r) == [Left(r, FALSE) EXCEPT !.listed = FALSE]

(* The catch block, and the finally block after it.                            *)
Caught(r) ==
    /\ \E s \in {"cancelled", "failed"} : Finalized(s)
    /\ Becomes(r, Cleaned(r))

(* The abort signal of a send; nobody looks at it any more once the send has   *)
(* ended and its timer is gone.                                                *)
Aborted(k) == [k EXCEPT !.aborted = k.at # "done" \/ k.timer]

(* assertStartStillValid                                                       *)
StillValid(r) == ~send[r].aborted /\ active # None /\ active.run = r

-----------------------------------------------------------------------------
(* Up to the run *)

(* sendMessage's guard.                                                        *)
Begins(r, at) ==
    /\ At(r, "idle")
    /\ \A q \in Sends : q < r => ~At(q, "idle")
    /\ left.sends > 0
    /\ ~isSending
    /\ Goto(r, at)
    /\ left' = [left EXCEPT !.sends = @ - 1]

SendBegins(r) ==
    /\ Begins(r, IF r \in Images THEN "look" ELSE "prelude")
    /\ UNCHANGED <<backend, supervisor, watcher, quiet, isSending, isStreaming, active, history, cards>>

(* The pre-step blocks other sends, though nobody asks again whether one has   *)
(* begun; its end frees the guard for the send's own second call.              *)
PreStepBegins(r) ==
    /\ At(r, "look")
    /\ isSending' = TRUE
    /\ Goto(r, "prestep")
    /\ UNCHANGED <<slotVars, isStreaming, active, history, cards>>

PreStepEnds(r) ==
    /\ At(r, "prestep")
    /\ isSending' = FALSE
    /\ Goto(r, "prelude")
    /\ UNCHANGED <<slotVars, isStreaming, active, history, cards>>

(* The preflight or the prelude answers by itself.  A summary of the active    *)
(* task also frees the chat.                                                   *)
PreludeAnswers(r) ==
    /\ At(r, "prelude")
    /\ \/ UNCHANGED <<isSending, isStreaming>>
       \/ isSending' = FALSE /\ isStreaming' = FALSE
    /\ Becomes(r, Left(r, FALSE))
    /\ UNCHANGED <<slotVars, active, history, cards>>

(* initializeSendRun and createTimeoutLifecycle.  The guard is not asked       *)
(* again: a run that is active loses its place.                                *)
Accepted(r) ==
    /\ At(r, "prelude")
    /\ isSending' = TRUE
    /\ active' = [run |-> r, status |-> "working", finished |-> FALSE, own |-> TRUE]
    /\ Becomes(r, [send[r] EXCEPT !.at = "setup", !.listed = TRUE, !.timer = TRUE])
    /\ UNCHANGED <<slotVars, isStreaming, history, cards>>

-----------------------------------------------------------------------------
(* From the run to the prompt *)

(* The backend is offline, or the slot is broken: the total timer stays armed. *)
SetupFails(r) ==
    /\ At(r, "setup")
    /\ Finalized("failed")
    /\ Becomes(r, Left(r, send[r].timer))
    /\ UNCHANGED <<slotVars, cards>>

(* Routing or the workspace context fails; the check of the route itself       *)
(* forgets the timer.                                                          *)
RouteFails(r) ==
    /\ At(r, "setup")
    /\ Released("failed")
    /\ \E timer \in {FALSE, send[r].timer} : Becomes(r, Left(r, timer))
    /\ UNCHANGED <<slotVars, isStreaming, cards>>

SetUp(r) ==
    /\ At(r, "setup") /\ r \notin Reviews
    /\ Goto(r, "prepare")
    /\ UNCHANGED <<slotVars, isSending, isStreaming, active, history, cards>>

(* The review's preflight reads its slot, and starts it if need be.            *)
ReviewBegins(r) ==
    /\ At(r, "setup") /\ r \in Reviews
    /\ \/ /\ Ready(r)
          /\ Goto(r, "review")
          /\ UNCHANGED call
       \/ /\ ~Ready(r)
          /\ Call(r, SlotOf(r), Route[r].model)
          /\ Goto(r, "revstart")
    /\ Read(SlotOf(r))
    /\ UNCHANGED <<lock, supervisor, watcher, quiet, left, isSending, isStreaming, active, history, cards>>

ReviewStarted(r) ==
    /\ At(r, "revstart") /\ call[r].at = "answered"
    /\ Returned(r)
    /\ Read(SlotOf(r))
    /\ IF call[r].ok /\ Seen(SlotOf(r)).state = "running"
       THEN Goto(r, "review") /\ UNCHANGED <<isSending, isStreaming, active, history>>
       ELSE Finalized("failed") /\ Becomes(r, Left(r, send[r].timer))
    /\ UNCHANGED <<lock, supervisor, watcher, quiet, left, cards>>

ReviewEnds(r) ==
    /\ At(r, "review")
    /\ \E s \in {"completed", "failed"} : Released(s)
    /\ Becomes(r, Left(r, FALSE))
    /\ UNCHANGED <<slotVars, isStreaming, cards>>

(* An exception of the orchestrator leaves sendMessage, and the answer that    *)
(* waits for it: nothing is reset, and the total timer is what frees the chat. *)
ReviewThrows(r) ==
    /\ At(r, "review")
    /\ Becomes(r, Left(r, send[r].timer))
    /\ cards' = [cards EXCEPT !.followUps = @ \ {r}]
    /\ UNCHANGED <<slotVars, isSending, isStreaming, active, history>>

-----------------------------------------------------------------------------
(* From the prompt to the end, inside the try *)

(* The budget overflows, or the prompt does not match its binding.             *)
PromptRefused(r) ==
    /\ At(r, "prepare")
    /\ Released("failed")
    /\ Becomes(r, Cleaned(r))
    /\ UNCHANGED <<slotVars, isStreaming, cards>>

(* An exception up to the on-demand start, in its preparation, in the check of *)
(* the binding, in the request or after it.                                    *)
Throws(r) ==
    /\ send[r].at \in {"prepare", "load", "bind", "stream", "finish"}
    /\ Caught(r)
    /\ UNCHANGED <<slotVars, cards>>

Prepared(r) ==
    /\ At(r, "prepare")
    /\ StillValid(r)
    /\ Goto(r, "load")
    /\ UNCHANGED <<slotVars, isSending, isStreaming, active, history, cards>>

(* prepareOnDemandRuntimeAction: the user is asked about a risky start.        *)
RiskAsked(r) ==
    /\ At(r, "load") /\ ~Ready(r)
    /\ Finalized("asking")
    /\ Becomes(r, Cleaned(r))
    /\ Read(SlotOf(r))
    /\ UNCHANGED <<lock, call, supervisor, watcher, quiet, left, cards>>

(* executeOnDemandRuntimeAction.  A start is asked for without a look at the   *)
(* run; only a resident model is used under one.                               *)
Loaded(r) ==
    /\ At(r, "load")
    /\ \/ /\ Ready(r) /\ StillValid(r)
          /\ quiet' = FALSE
          /\ Goto(r, "warm")
          /\ UNCHANGED <<call, isSending, isStreaming, active, history>>
       \/ /\ Ready(r) /\ ~StillValid(r)
          /\ Finalized("failed")
          /\ Becomes(r, Cleaned(r))
          /\ UNCHANGED <<call, quiet>>
       \/ /\ ~Ready(r)
          /\ Call(r, SlotOf(r), Route[r].model)
          /\ Goto(r, "start")
          /\ UNCHANGED <<quiet, isSending, isStreaming, active, history>>
    /\ Read(SlotOf(r))
    /\ UNCHANGED <<lock, supervisor, watcher, left, cards>>

Started(r) ==
    /\ At(r, "start") /\ call[r].at = "answered"
    /\ Returned(r)
    /\ IF call[r].ok
       THEN /\ quiet' = FALSE
            /\ Becomes(r, [send[r] EXCEPT !.at = "warm", !.started = TRUE])
            /\ UNCHANGED <<isSending, isStreaming, active, history>>
       ELSE /\ Finalized("failed")
            /\ Becomes(r, Cleaned(r))
            /\ UNCHANGED quiet
    /\ UNCHANGED <<process, status, lock, supervisor, watcher, left, cards>>

(* waitForSlotReady, warm-up and verification, each of them answered before    *)
(* the run is looked at.                                                       *)
Warmed(r) ==
    /\ At(r, "warm")
    /\ StillValid(r)
    /\ Seen(SlotOf(r)).state = "running"
    /\ Read(SlotOf(r))
    /\ Goto(r, "bind")
    /\ UNCHANGED <<lock, call, supervisor, watcher, quiet, left, isSending, isStreaming, active,
                   history, cards>>

WarmUpFails(r) ==
    /\ At(r, "warm")
    /\ StillValid(r) \/ ~send[r].started
    /\ Read(SlotOf(r))
    /\ Finalized("failed")
    /\ Becomes(r, Cleaned(r))
    /\ UNCHANGED <<lock, call, supervisor, watcher, quiet, left, cards>>

(* A start of this send that nobody wants any more, or not in this workspace,  *)
(* is undone, whoever uses the slot by now.                                    *)
Discards(r) ==
    /\ At(r, "warm")
    /\ send[r].started
    /\ Stop(SlotOf(r))
    /\ Goto(r, "discard")
    /\ UNCHANGED <<lock, call, supervisor, watcher, quiet, left, isSending, isStreaming, active,
                   history, cards>>

Discarded(r) ==
    /\ At(r, "discard")
    /\ Finalized("failed")
    /\ Becomes(r, Cleaned(r))
    /\ UNCHANGED <<slotVars, cards>>

(* validateRequestExecutionBinding: the slot still runs the model; the run is  *)
(* not looked at.                                                              *)
Bound(r) ==
    /\ At(r, "bind")
    /\ Ready(r)
    /\ Read(SlotOf(r))
    /\ active' = Marked("working")
    /\ isStreaming' = TRUE
    /\ Goto(r, "stream")
    /\ UNCHANGED <<lock, call, supervisor, watcher, quiet, left, isSending, history, cards>>

\* Mutant: the controller is dropped as soon as the answer is there.
AnsweredDropping(r) ==
    /\ At(r, "stream")
    /\ isStreaming' = FALSE
    /\ Becomes(r, [send[r] EXCEPT !.at = "finish", !.listed = FALSE])
    /\ UNCHANGED <<slotVars, isSending, active, history, cards>>
Answered(r) ==
    /\ At(r, "stream")
    /\ isStreaming' = FALSE
    /\ Goto(r, "finish")
    /\ UNCHANGED <<slotVars, isSending, active, history, cards>>

Finished(r) ==
    /\ At(r, "finish")
    /\ \E s \in {"completed", "failed", "cancelled", "asking"} : Finalized(s)
    /\ Becomes(r, Cleaned(r))
    /\ UNCHANGED <<slotVars, cards>>

(* The runtime is gone: the catch block asks for its status first.             *)
RuntimeGone(r) ==
    /\ send[r].at \in {"bind", "stream"}
    /\ Becomes(r, [send[r] EXCEPT !.at = "gone", !.listed = FALSE])
    /\ UNCHANGED <<slotVars, isSending, isStreaming, active, history, cards>>

GoneEnds(r) ==
    /\ At(r, "gone")
    /\ Finalized("failed")
    /\ Becomes(r, Cleaned(r))
    /\ UNCHANGED <<slotVars, cards>>

-----------------------------------------------------------------------------
(* Timers and the user *)

(* The prompt, first-token, idle and generation timers of the request.         *)
PhaseTimeout(r) ==
    /\ send[r].at \in {"stream", "finish", "gone"}
    /\ ~send[r].aborted
    /\ Becomes(r, Aborted(send[r]))
    /\ isSending' = FALSE /\ isStreaming' = FALSE
    /\ UNCHANGED <<slotVars, active, history, cards>>

(* The total timer ends the run that is active, be it another send's.          *)
\* Mutant: the timer frees the chat only when its own run is the active one.
ExpiredOnlyOwn(r) ==
    IF active # None /\ active.run = r
    THEN active' = Marked("timeout") /\ isSending' = FALSE /\ isStreaming' = FALSE
    ELSE UNCHANGED <<active, isSending, isStreaming>>
Expired(r) ==
    active' = Marked("timeout") /\ isSending' = FALSE /\ isStreaming' = FALSE

TotalTimeout(r) ==
    /\ send[r].timer
    /\ Becomes(r, Aborted([send[r] EXCEPT !.timer = FALSE]))
    /\ IF send[r].aborted THEN UNCHANGED <<active, isSending, isStreaming>> ELSE Expired(r)
    /\ UNCHANGED <<slotVars, history, cards>>

(* cancelSendAction                                                            *)
\* Mutant: the cancelled run stays the active one.
CancelledStays ==
    /\ history' = Archived(Marked("cancelled"))
    /\ active' = Marked("cancelled")
Cancelled ==
    /\ history' = Archived(Marked("cancelled"))
    /\ active' = None

Cancel ==
    /\ left.cancels > 0
    /\ isSending \/ active # None
    /\ Cancelled
    /\ send' = [r \in Sends |->
                  IF active # None /\ active.run = r /\ send[r].listed
                  THEN [Aborted(send[r]) EXCEPT !.listed = FALSE]
                  ELSE send[r]]
    /\ isSending' = FALSE /\ isStreaming' = FALSE
    /\ left' = [left EXCEPT !.cancels = @ - 1]
    /\ UNCHANGED <<backend, supervisor, watcher, quiet, cards>>

(* clear and clearActivityHistory; neither of them aborts anything.  The       *)
(* messages that go with the first are the cards.                              *)
Clear ==
    /\ left.clears > 0
    /\ active' = None
    /\ history' = [r \in Sends |-> None]
    /\ \/ /\ isSending' = FALSE /\ isStreaming' = FALSE
          /\ cards' = [cards EXCEPT !.planned = {},
                                    !.question = IF @ = "shown" THEN "none" ELSE @]
       \/ UNCHANGED <<isSending, isStreaming, cards>>
    /\ left' = [left EXCEPT !.clears = @ - 1]
    /\ UNCHANGED <<backend, supervisor, watcher, quiet, send>>

-----------------------------------------------------------------------------
(* Questions and plans *)

(* The run asks: the question goes to its workspace (writePendingQuestion).    *)
AsksUser(r) ==
    /\ At(r, "stream")
    /\ left.questions > 0
    /\ r \notin cards.asked
    /\ active' = Marked("asking")
    /\ cards' = [cards EXCEPT !.asked = @ \cup {r}]
    /\ UNCHANGED <<slotVars, isSending, isStreaming, history, send>>

(* checkForPendingQuestion, whenever a workspace is opened: a question there,  *)
(* of a run of this session or of an earlier one, is shown with a run of its   *)
(* own that takes the place of whichever is active.  At most one answer at a   *)
(* time is about to be sent (a bound).                                         *)
Rehydrates(i) ==
    /\ left.questions > 0
    /\ i \in cards.asked \cup {None}
    /\ cards.question # "answered"
    /\ active' = [run |-> i, status |-> "asking", finished |-> FALSE, own |-> FALSE]
    /\ cards' = [cards EXCEPT !.question = "shown"]
    /\ left' = [left EXCEPT !.questions = @ - 1]
    /\ UNCHANGED <<backend, supervisor, watcher, quiet, isSending, isStreaming, history, send>>

(* submitAssistantAnswer, up to the await that clears the question.            *)
Answers ==
    /\ cards.question = "shown"
    /\ cards' = [cards EXCEPT !.question = "answered"]
    /\ UNCHANGED <<slotVars, isSending, isStreaming, active, history, send>>

(* The answer is sent as a message.  While another send is busy the message is *)
(* refused, and the run of the question goes at once.                          *)
FollowUp ==
    /\ cards.question = "answered"
    /\ \/ \E q \in Sends :
             /\ Begins(q, "prelude")
             /\ cards' = [cards EXCEPT !.question = "none", !.followUps = @ \cup {q}]
             /\ UNCHANGED active
       \/ /\ isSending
          /\ active' = None
          /\ cards' = [cards EXCEPT !.question = "none"]
          /\ UNCHANGED <<left, send>>
    /\ UNCHANGED <<backend, supervisor, watcher, quiet, isSending, isStreaming, history>>

(* The message has been sent, or answered by the prelude: whichever run is     *)
(* active goes.                                                                *)
FollowUpEnds(q) ==
    /\ q \in cards.followUps /\ At(q, "done")
    /\ active' = None
    /\ cards' = [cards EXCEPT !.followUps = @ \ {q}]
    /\ UNCHANGED <<slotVars, isSending, isStreaming, history, send>>

(* The answer contains a plan, which waits for its approval; only a plain      *)
(* stream says so of the active run.                                           *)
Proposes(r) ==
    /\ send[r].at \in {"stream", "finish"}
    /\ left.plans > 0
    /\ active' \in {active, IF At(r, "stream") THEN Marked("asking") ELSE active}
    /\ cards' = [cards EXCEPT !.planned = @ \cup {r}]
    /\ left' = [left EXCEPT !.plans = @ - 1]
    /\ UNCHANGED <<backend, supervisor, watcher, quiet, isSending, isStreaming, history, send>>

(* continueAgentRunAfterPlanApproval: whichever run is active resumes, or one  *)
(* is made anew under the id of the plan's run; then the plan is sent as a     *)
(* message, unless a send is busy or no workspace is known.                    *)
ApprovesPlan(r) ==
    /\ r \in cards.planned
    /\ active' = IF active # None THEN Marked("resuming")
                 ELSE [run |-> r, status |-> "resuming", finished |-> FALSE, own |-> FALSE]
    /\ \/ \E q \in Sends : Begins(q, "prelude")
       \/ UNCHANGED <<left, send>>
    /\ cards' = [cards EXCEPT !.planned = @ \ {r}]
    /\ UNCHANGED <<backend, supervisor, watcher, quiet, isSending, isStreaming, history>>

(* The plan is rejected: the run that is active is called cancelled, and stays.*)
RejectsPlan(r) ==
    /\ r \in cards.planned
    /\ active' = Marked("cancelled")
    /\ cards' = [cards EXCEPT !.planned = @ \ {r}]
    /\ UNCHANGED <<slotVars, isSending, isStreaming, history, send>>

CardSteps ==
    \/ \E r \in Sends : \/ AsksUser(r) \/ Proposes(r) \/ ApprovesPlan(r) \/ RejectsPlan(r)
                        \/ FollowUpEnds(r)
    \/ \E i \in Sends \cup {None} : Rehydrates(i)
    \/ Answers \/ FollowUp

-----------------------------------------------------------------------------
(* Specification *)

(* The guard the chat gives the idle watcher.                                  *)
Blocked == isSending \/ (active # None /\ ~active.finished)

SendSteps(r) ==
    \/ SendBegins(r) \/ PreStepBegins(r) \/ PreStepEnds(r)
    \/ PreludeAnswers(r) \/ Accepted(r)
    \/ SetupFails(r) \/ RouteFails(r) \/ SetUp(r)
    \/ ReviewBegins(r) \/ ReviewStarted(r) \/ ReviewEnds(r) \/ ReviewThrows(r)
    \/ PromptRefused(r) \/ Throws(r) \/ Prepared(r) \/ RiskAsked(r)
    \/ Loaded(r) \/ Started(r) \/ Warmed(r) \/ WarmUpFails(r)
    \/ Discards(r) \/ Discarded(r)
    \/ Bound(r) \/ Answered(r) \/ Finished(r) \/ RuntimeGone(r) \/ GoneEnds(r)
    \/ PhaseTimeout(r) \/ TotalTimeout(r)

Next ==
    \/ \E r \in Sends : SendSteps(r)
    \/ Cancel \/ Clear \/ CardSteps
    \/ (SlotStep \/ WatchBegins(Blocked)) /\ UNCHANGED chat

(* Beside the slots' fairness: a timer fires, and the pre-step, whose requests *)
(* have time limits of their own, ends.  Nothing is assumed of a send: a       *)
(* request may hang for ever.                                                  *)
SlotsFair ==
    /\ \A c \in Clients : WF_vars(StartMoves(c) /\ UNCHANGED chat)
    /\ \A t \in Ticks : WF_vars(TickSteps(t) /\ UNCHANGED chat)
SendsFair ==
    \A r \in Sends : WF_vars(TotalTimeout(r)) /\ WF_vars(PreStepEnds(r))

Spec == Init /\ [][Next]_vars /\ SlotsFair /\ SendsFair

-----------------------------------------------------------------------------
(* Properties *)

TypeOK ==
    /\ SlotsTypeOK
    /\ isSending \in BOOLEAN /\ isStreaming \in BOOLEAN
    /\ active \in Run \cup {None}
    /\ history \in [Sends -> RunStatuses \cup {None}]
    /\ send \in [Sends -> SendType]
    /\ cards \in CardsType

(* When no send is under way and no timer is armed, the chat is free: it       *)
(* neither sends nor streams, and the run that is shown, if any, has a         *)
(* finishedAt, or was made anew for a question found in the workspace or for a *)
(* plan that was approved (such a run is shown, and keeps the idle watcher     *)
(* from unloading models, until it is answered, cancelled, cleared or          *)
(* replaced).  Two sends, cancels, clears, timers, answers and approvals in    *)
(* any order, and every exit of sendMessage, in one window that has copied no  *)
(* isSending of another session or window.                                     *)
FreeWhenDone ==
    (\A r \in Sends : send[r].at \in {"idle", "done"} /\ ~send[r].timer)
        => ~isSending /\ ~isStreaming /\ (active = None \/ active.finished \/ ~active.own)

(* While a send works on the run that is shown, its abort controller is in the *)
(* map, so that a cancel reaches it, or it has been aborted already: the       *)
(* controller goes in the catch and finally blocks and by a cancel only, also  *)
(* when the shown run is another one with the same id.                         *)
CancelReachesTheRun ==
    \A r \in Sends :
        active # None /\ active.run = r /\ send[r].at \in Working
            => send[r].listed \/ send[r].aborted

(* A run goes to the history once: neither a late end of its own send nor the  *)
(* end of another one changes what the history says of it.  Only a clear       *)
(* empties it, and only a run made anew under the same id, for its question or *)
(* its plan, is written over it.                                               *)
MadeAnew(r) == active # None /\ active.run = r /\ ~active.own
HistoryWrittenOnce ==
    [][\A r \in Sends :
          history[r] # None => \/ history'[r] = history[r]
                               \/ left'.clears < left.clears
                               \/ MadeAnew(r)]_vars

(* The chat does not stay busy, even if a request, a review or the backend     *)
(* never answers: the total timer frees it.  (A copied isSending has neither   *)
(* send nor timer; see the head of the module.)                                *)
BusyEnds == isSending ~> ~isSending
=============================================================================
