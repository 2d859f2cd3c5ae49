------------------------------ MODULE AgentTurn ------------------------------
(* An agent run of the runtime chat in the renderer: the turn engine           *)
(* (apps/desktop/src/runtime/agent/agentTurnEngine.ts), the tools its runner   *)
(* gives it (services/runtimeChatAgentRunner.ts), the tool executor and the    *)
(* permission manager (runtime/tool), and the three places where it waits for  *)
(* the user: the tool approvals (stores/runtimeChatApprovalStore.ts), the      *)
(* approval coordinator (web access) and the question coordinator (ask_user),  *)
(* whose question is also a file of the workspace.                             *)
(*                                                                             *)
(* An action is what happens between two awaits.  Simplifications.  What the   *)
(* model says is one of a set of answers.  The loop's head and each call that  *)
(* needs no await are actions of their own, so that an abort may be seen a     *)
(* little earlier than in the code.  A pending question is read from disk when *)
(* a workspace opens, before a model can answer there.  The audit and the tool *)
(* events are left out.  A tool stands for all tools of its kind:              *)
(*   read     granted by the policy                                            *)
(*   write    needs the user's approval                                        *)
(*   bridge   tool_call, for a tool that needs the user's approval             *)
(*   web      web_search and web_fetch, in the mode ask_once_per_run           *)
(*   ask      ask_user                                                         *)
(*   propose  propose_file_changes                                             *)
(*   hidden   not exposed        foreign  not allowed by the active skill      *)
(*   stray    rejected as unrelated to the goal                                *)
EXTENDS Naturals, Sequences

CONSTANTS
    Runs,           \* runs of one session, in the order they begin
    Workspaces,
    RequiresAction, \* the runs that must not end without a tool or a patch
    Offers,         \* Offers[r]: the lists of tools the model may call in one turn
    MaxSteps,       \* MaxSteps[r]: policy.maxSteps
    MaxToolCalls,   \* MaxToolCalls[r]: policy.maxToolCalls
    Home,           \* the workspace the session begins in
    MaxChanges,     \* bound: changes of the workspace and ends of the renderer
    None

Tools == {"read", "write", "bridge", "web", "ask", "propose", "hidden", "foreign", "stray"}

ASSUME AgentTurnAssumption ==
    /\ Runs \subseteq Nat
    /\ Home \in Workspaces
    /\ RequiresAction \subseteq Runs
    /\ \A r \in Runs : Offers[r] \subseteq Seq(Tools) \ {<<>>}
    /\ MaxSteps \in [Runs -> Nat \ {0}] /\ MaxToolCalls \in [Runs -> Nat \ {0}]
    /\ MaxChanges \in Nat
    /\ None \notin Runs /\ None \notin Workspaces

VARIABLES
    run,         \* the engines and their abort signals
    request,     \* ToolExecutor: the requests of each run's calls
    listed,      \* runtimeChatApprovalStore.toolApprovals, the pending ones
    resolvers,   \* pendingToolResolvers
    webApproved, \* webResearchApprovedForRun
    answered,    \* questionCoordinator: the runs whose question is answered
    question,    \* .codee/pending-question.json of each workspace
    rehydrated,  \* rehydratedPendingQuestion
    wiped,       \* the waiting runs whose question another run has replaced or removed
    workspace, changes

approvals == <<request, listed, resolvers>>
questions == <<answered, question, rehydrated, wiped>>
session == <<workspace, changes>>
vars == <<run, approvals, webApproved, questions, session>>

-----------------------------------------------------------------------------
(* Types *)

Requests ==
    UNION {{r} \X (1..MaxToolCalls[r]) \X {"direct", "bridged"} : r \in Runs}
RequestType == [at: {"asking", "going", "done", "failed", "denied"},
                result: {"ok", "error", "timeout", None}]

(* None tells a request that is not there, and a result that is not there yet. *)
ASSUME NoneAssumption == None \notin RequestType \cup {"ok", "error", "timeout"}

Places == {"idle", "turn", "model", "queue", "call", "tool", "propose", "web",
           "ask-write", "ask-wait", "ask-clear", "ended"}
Statuses == {"running", "completed", "cancelled", "budget_exceeded", "failed"}
Reasons == {"final_answer", "patch_proposed", "tool_calls_executed", "budget_exceeded",
            "cancelled", "invalid_protocol", "execution_no_action",
            "skill_tool_policy_violation"}
RunType == [at: Places, root: Workspaces \cup {None}, aborted: BOOLEAN, turns: Nat,
            calls: Nat, todo: Seq(Tools), repaired: BOOLEAN, patched: BOOLEAN,
            status: Statuses, reason: Reasons]

NewRun == [at |-> "idle", root |-> None, aborted |-> FALSE, turns |-> 0, calls |-> 0,
           todo |-> <<>>, repaired |-> FALSE, patched |-> FALSE,
           status |-> "running", reason |-> "final_answer"]

Init ==
    /\ run = [r \in Runs |-> NewRun]
    /\ request = [q \in Requests |-> None]
    /\ listed = {}
    /\ resolvers = {}
    /\ webApproved = FALSE
    /\ answered = {}
    /\ question = [w \in Workspaces |-> None]
    /\ rehydrated = None
    /\ wiped = {}
    /\ workspace = Home
    /\ changes = 0

-----------------------------------------------------------------------------
(* Helpers *)

At(r, at) == run[r].at = at
Active == {r \in Runs : run[r].at \notin {"idle", "ended"}}
Aborted(r) == run[r].aborted
Tool(r) == Head(run[r].todo)

(* The request of the call at hand.                                            *)
Direct(r) == <<r, run[r].calls, "direct">>
Inner(q) == <<q[1], q[2], "bridged">>

Becomes(r, k) == run' = [run EXCEPT ![r] = k]
Goto(r, at) == Becomes(r, [run[r] EXCEPT !.at = at])

(* An exception leaves the engine, and the trajectory as it was.  The locals   *)
(* of an engine that is gone are forgotten, and its abort signal is deleted.   *)
Threw(k) == [k EXCEPT !.at = "ended", !.aborted = FALSE, !.todo = <<>>,
                      !.turns = 0, !.repaired = FALSE]

(* finalizeTrajectory and the end of the engine.                               *)
Finished(k, status, reason) == [Threw(k) EXCEPT !.status = status, !.reason = reason]

(* The call at hand is answered, by a result or by an error.                   *)
Called(k) == [k EXCEPT !.at = "call", !.todo = Tail(@)]

NoAction(r) == r \in RequiresAction /\ run[r].calls = 0 /\ ~run[r].patched

(* One repair hint per run; a second mistake ends it.                          *)
RepairOr(r, failed) ==
    Becomes(r, IF run[r].repaired THEN failed
               ELSE [run[r] EXCEPT !.repaired = TRUE, !.at = "turn"])

-----------------------------------------------------------------------------
(* The loop *)

(* A run begins when no other is being sent: one that was cancelled may still  *)
(* be on its way out.                                                          *)
Start(r) ==
    /\ At(r, "idle")
    /\ \A s \in Runs : s < r => run[s].at # "idle"
    /\ \A s \in Active : Aborted(s)
    /\ Becomes(r, [NewRun EXCEPT !.at = "turn", !.root = workspace])
    /\ UNCHANGED <<approvals, webApproved, questions, session>>

MayLoop(r) == run[r].turns < MaxSteps[r] /\ run[r].calls < MaxToolCalls[r]

(* What the engine reports if no turn has ended the run.                       *)
Epilogue(r) ==
    LET k == run[r] IN
    CASE k.turns >= MaxSteps[r] -> Finished(k, "budget_exceeded", "budget_exceeded")
      [] k.turns < MaxSteps[r] /\ NoAction(r) -> Finished(k, "failed", "execution_no_action")
      [] OTHER -> Finished(k, "completed", IF k.calls > 0 THEN "tool_calls_executed"
                                           ELSE IF k.patched THEN "patch_proposed"
                                           ELSE "final_answer")

LoopHead(r) ==
    /\ At(r, "turn")
    /\ Becomes(r,
          CASE ~MayLoop(r) -> Epilogue(r)
            [] MayLoop(r) /\ Aborted(r) -> Finished(run[r], "cancelled", "cancelled")
            [] OTHER -> [run[r] EXCEPT !.at = "model", !.turns = @ + 1])
    /\ UNCHANGED <<approvals, webApproved, questions, session>>

(* The request is aborted, times out, or the runtime is gone.                  *)
ModelFails(r) ==
    /\ At(r, "model")
    /\ Becomes(r, Threw(run[r]))
    /\ UNCHANGED <<approvals, webApproved, questions, session>>

AnswerIsCalls(r) ==
    /\ At(r, "model")
    /\ \E calls \in Offers[r] : Becomes(r, [run[r] EXCEPT !.at = "call", !.todo = calls])
    /\ UNCHANGED <<approvals, webApproved, questions, session>>

(* A broken tool envelope.                                                     *)
AnswerIsInvalid(r) ==
    /\ At(r, "model")
    /\ RepairOr(r, Finished(run[r], "failed", "invalid_protocol"))
    /\ UNCHANGED <<approvals, webApproved, questions, session>>

(* A patch that cannot be parsed.                                              *)
AnswerIsUnparsable(r) ==
    /\ At(r, "model")
    /\ LET failed == Finished(run[r], "failed", "invalid_protocol") IN
       IF r \in RequiresAction THEN RepairOr(r, failed) ELSE Becomes(r, failed)
    /\ UNCHANGED <<approvals, webApproved, questions, session>>

AnswerIsPatch(r) ==
    /\ At(r, "model")
    /\ Goto(r, "queue")
    /\ UNCHANGED <<approvals, webApproved, questions, session>>

(* handlePatchFromContent: the changes go to the editor store, which may throw. *)
PatchQueued(r) ==
    /\ At(r, "queue")
    /\ \/ Becomes(r, Finished([run[r] EXCEPT !.patched = TRUE], "completed", "patch_proposed"))
       \/ Becomes(r, Threw(run[r]))
    /\ UNCHANGED <<approvals, webApproved, questions, session>>

\* Mutant: the text is taken for the answer, whatever the run had to do.
AnswerIsTextAlways(r) ==
    /\ At(r, "model")
    /\ Becomes(r, Finished(run[r], "completed", "final_answer"))
    /\ UNCHANGED <<approvals, webApproved, questions, session>>

(* Text without a call or a patch ends the run, unless it had to act.          *)
AnswerIsText(r) ==
    /\ At(r, "model")
    /\ IF NoAction(r)
       THEN RepairOr(r, Finished(run[r], "failed", "execution_no_action"))
       ELSE Becomes(r, Finished(run[r], "completed",
                IF run[r].calls > 0 THEN "tool_calls_executed"
                ELSE IF run[r].patched THEN "patch_proposed" ELSE "final_answer"))
    /\ UNCHANGED <<approvals, webApproved, questions, session>>

-----------------------------------------------------------------------------
(* The calls of a turn *)

CallsDone(r) ==
    /\ At(r, "call") /\ run[r].todo = <<>>
    /\ Becomes(r, [run[r] EXCEPT !.at = "turn", !.reason = "tool_calls_executed"])
    /\ UNCHANGED <<approvals, webApproved, questions, session>>

(* The loop over the calls is left early: the code sets the reason and then,   *)
(* after the loop, sets it again to tool_calls_executed.                       *)
CallsLeft(r, status) == Becomes(r, Finished(run[r], status, "tool_calls_executed"))

CallCancelled(r) ==
    /\ At(r, "call") /\ run[r].todo # <<>>
    /\ Aborted(r)
    /\ CallsLeft(r, "cancelled")
    /\ UNCHANGED <<approvals, webApproved, questions, session>>

CallOverBudget(r) ==
    /\ At(r, "call") /\ run[r].todo # <<>>
    /\ ~Aborted(r)
    /\ run[r].calls >= MaxToolCalls[r]
    /\ CallsLeft(r, "budget_exceeded")
    /\ UNCHANGED <<approvals, webApproved, questions, session>>

\* Mutant: one call more than the policy allows.
CallMayByOne(r) ==
    /\ At(r, "call") /\ run[r].todo # <<>>
    /\ ~Aborted(r)
    /\ run[r].calls <= MaxToolCalls[r]
CallMay(r) ==
    /\ At(r, "call") /\ run[r].todo # <<>>
    /\ ~Aborted(r)
    /\ run[r].calls < MaxToolCalls[r]

(* Not exposed, or unrelated to the goal: the model is told, nothing runs.     *)
CallRefused(r) ==
    /\ CallMay(r)
    /\ Tool(r) \in {"hidden", "stray"}
    /\ Becomes(r, [Called(run[r]) EXCEPT !.repaired = @ \/ Tool(r) = "stray"])
    /\ UNCHANGED <<approvals, webApproved, questions, session>>

CallForeign(r) ==
    /\ CallMay(r)
    /\ Tool(r) = "foreign"
    /\ Becomes(r, Finished(run[r], "failed", "skill_tool_policy_violation"))
    /\ UNCHANGED <<approvals, webApproved, questions, session>>

Counted(r) == [run[r] EXCEPT !.calls = @ + 1]
ThisCall(r) == <<r, run[r].calls + 1, "direct">>

Going == [at |-> "going", result |-> None]
Asking == [at |-> "asking", result |-> None]

(* requestToolApproval: the entry is listed, and its promise waits.            *)
Asks(q) ==
    /\ listed' = listed \cup {q}
    /\ resolvers' = resolvers \cup {q}

CallReads(r) ==
    /\ CallMay(r)
    /\ \/ Tool(r) \in {"read", "propose"}
       \/ Tool(r) = "web" /\ webApproved
    /\ request' = [request EXCEPT ![ThisCall(r)] = Going]
    /\ Becomes(r, [Counted(r) EXCEPT !.at = "tool"])
    /\ UNCHANGED <<listed, resolvers, webApproved, questions, session>>

CallWrites(r) ==
    /\ CallMay(r)
    /\ Tool(r) = "write"
    /\ request' = [request EXCEPT ![ThisCall(r)] = Asking]
    /\ Asks(ThisCall(r))
    /\ Becomes(r, [Counted(r) EXCEPT !.at = "tool"])
    /\ UNCHANGED <<webApproved, questions, session>>

(* tool_call needs no approval, the tool it calls does: the outer request's    *)
(* time runs while the inner one waits for the user.                           *)
CallBridges(r) ==
    /\ CallMay(r)
    /\ Tool(r) = "bridge"
    /\ request' = [request EXCEPT ![ThisCall(r)] = Going, ![Inner(ThisCall(r))] = Asking]
    /\ Asks(Inner(ThisCall(r)))
    /\ Becomes(r, [Counted(r) EXCEPT !.at = "tool"])
    /\ UNCHANGED <<webApproved, questions, session>>

CallAsksForWeb(r) ==
    /\ CallMay(r)
    /\ Tool(r) = "web" /\ ~webApproved
    /\ Becomes(r, [Counted(r) EXCEPT !.at = "web"])
    /\ UNCHANGED <<approvals, webApproved, questions, session>>

\* Mutant: the wait begins before the question is on disk.
CallAsksUserAtOnce(r) ==
    /\ CallMay(r)
    /\ Tool(r) = "ask"
    /\ Becomes(r, [Counted(r) EXCEPT !.at = "ask-wait"])
    /\ UNCHANGED <<approvals, webApproved, questions, session>>

(* ask_user: the question is registered, shown, and on its way to the disk.    *)
CallAsksUser(r) ==
    /\ CallMay(r)
    /\ Tool(r) = "ask"
    /\ Becomes(r, [Counted(r) EXCEPT !.at = "ask-write"])
    /\ UNCHANGED <<approvals, webApproved, questions, session>>

-----------------------------------------------------------------------------
(* The tool executor *)

(* The result goes to whoever awaits it, once; a late one is dropped.  A       *)
(* request is forgotten when it is over and its result is taken.               *)
Settled(q, at, result) ==
    [at |-> at, result |-> IF request[q].result = None THEN result ELSE request[q].result]
Settle(q, at, result) == request' = [request EXCEPT ![q] = Settled(q, at, result)]

Awaited(q) == At(q[1], "tool") /\ q[2] = run[q[1]].calls
IsBridge(q) == q[3] = "direct" /\ request[Inner(q)] # None

OperationEnds(q) ==
    /\ request[q] # None /\ request[q].at = "going"
    /\ IsBridge(q) => request[Inner(q)].result # None
    /\ \E result \in IF IsBridge(q) THEN {request[Inner(q)].result} ELSE {"ok", "error"} :
          request' = [request EXCEPT
              ![q] = IF q[3] = "direct" /\ ~Awaited(q) THEN None
                     ELSE IF result = "ok" THEN Settled(q, "done", "ok")
                     ELSE Settled(q, "failed", "error"),
              ![Inner(q)] = IF q[3] = "direct" /\ @ # None /\ @.at # "going" THEN None ELSE @]
    /\ UNCHANGED <<run, listed, resolvers, webApproved, questions, session>>

\* Mutant: the time runs while the user is asked.
TimesOutAlways(q) ==
    /\ request[q] # None /\ request[q].result = None
    /\ request[q].at = "going" \/ (request[q].at = "asking" /\ q[3] = "direct")
    /\ Settle(q, request[q].at, "timeout")
    /\ UNCHANGED <<run, listed, resolvers, webApproved, questions, session>>

(* withTimeout gives up the wait, not the operation.                           *)
TimesOut(q) ==
    /\ request[q] # None /\ request[q].at = "going" /\ request[q].result = None
    /\ Settle(q, "going", "timeout")
    /\ UNCHANGED <<run, listed, resolvers, webApproved, questions, session>>

ToolReturns(r) ==
    /\ At(r, "tool")
    /\ request[Direct(r)].result # None
    /\ IF Tool(r) = "propose"
       THEN IF request[Direct(r)].result = "ok" THEN Goto(r, "propose")
            ELSE Becomes(r, Threw(run[r]))  \* there is no output to normalise
       ELSE Becomes(r, Called(run[r]))
    /\ request' = [request EXCEPT ![Direct(r)] = IF @.at = "going" THEN @ ELSE None]
    /\ UNCHANGED <<listed, resolvers, webApproved, questions, session>>

(* proposePatch, which nothing catches.                                        *)
Proposed(r) ==
    /\ At(r, "propose")
    /\ \/ Becomes(r, [Called(run[r]) EXCEPT !.patched = TRUE])
       \/ Becomes(r, Threw(run[r]))
    /\ UNCHANGED <<approvals, webApproved, questions, session>>

-----------------------------------------------------------------------------
(* The user *)

RootOf(q) == run[q[1]].root
CanDecide(q) == q \in listed /\ RootOf(q) = workspace

ApproveTool(q) ==
    /\ CanDecide(q)
    /\ listed' = listed \ {q}
    /\ resolvers' = resolvers \ {q}
    /\ request' = [request EXCEPT ![q] = IF q \in resolvers THEN Going ELSE @]
    /\ UNCHANGED <<run, webApproved, questions, session>>

RejectTool(q) ==
    /\ CanDecide(q)
    /\ listed' = listed \ {q}
    /\ resolvers' = resolvers \ {q}
    /\ IF q \in resolvers THEN Settle(q, "denied", "error") ELSE UNCHANGED request
    /\ UNCHANGED <<run, webApproved, questions, session>>

(* approve_web_access, reject_web_access.                                      *)
AllowWeb(r) ==
    /\ At(r, "web")
    /\ webApproved' = TRUE
    /\ request' = [request EXCEPT ![Direct(r)] = Going]
    /\ Becomes(r, [run[r] EXCEPT !.at = "tool"])
    /\ UNCHANGED <<listed, resolvers, questions, session>>

RefuseWeb(r) ==
    /\ At(r, "web")
    /\ webApproved' = FALSE
    /\ Becomes(r, Called(run[r]))
    /\ UNCHANGED <<approvals, questions, session>>

(* The wait hears the abort signal.                                            *)
WebAborted(r) ==
    /\ At(r, "web") /\ Aborted(r)
    /\ Becomes(r, Called(run[r]))
    /\ UNCHANGED <<approvals, webApproved, questions, session>>

Wipes(w, r) == wiped' = wiped \cup ({question[w]} \cap {s \in Runs \ {r} : At(s, "ask-wait")})

QuestionWritten(r) ==
    /\ At(r, "ask-write")
    /\ \/ /\ question' = [question EXCEPT ![run[r].root] = r]
          /\ Wipes(run[r].root, r)
          /\ Goto(r, "ask-wait")
       \/ /\ Becomes(r, Called(run[r]))  \* the write fails; the question stays shown
          /\ UNCHANGED <<question, wiped>>
    /\ UNCHANGED <<approvals, webApproved, answered, rehydrated, session>>

(* submitAssistantAnswer: an answer to a question that was read from disk does *)
(* not go to the coordinator (see AnswerRehydrated).                           *)
Answer(r) ==
    /\ At(r, "ask-write") \/ At(r, "ask-wait")
    /\ r \notin answered
    /\ rehydrated # r
    /\ run[r].root = workspace
    /\ answered' = answered \cup {r}
    /\ UNCHANGED <<run, approvals, webApproved, question, rehydrated, wiped, session>>

\* Mutant: the wait for an answer does not hear the abort signal.
QuestionResolvedByAnswer(r) == At(r, "ask-wait") /\ r \in answered
QuestionResolved(r) == At(r, "ask-wait") /\ (r \in answered \/ Aborted(r))

QuestionOver(r) ==
    /\ QuestionResolved(r)
    /\ Goto(r, "ask-clear")
    /\ answered' = answered \ {r}
    /\ wiped' = wiped \ {r}
    /\ UNCHANGED <<approvals, webApproved, question, rehydrated, session>>

(* clearPendingQuestion writes null, whoever's question is there; errors are   *)
(* swallowed.  Then the answer, or the abort, goes to the engine.              *)
QuestionCleared(r) ==
    LET w == run[r].root IN
    /\ At(r, "ask-clear")
    /\ \/ /\ question' = [question EXCEPT ![w] = None]
          /\ Wipes(w, r)
       \/ UNCHANGED <<question, wiped>>
    /\ Becomes(r, Called(run[r]))
    /\ UNCHANGED <<approvals, webApproved, answered, rehydrated, session>>

-----------------------------------------------------------------------------
(* The session *)

(* cancelSend aborts the active run.                                           *)
Current == {r \in Active : ~Aborted(r)}
\* Mutant: a change of the workspace leaves the run alone.
RunStays == UNCHANGED run
RunLeft == run' = [r \in Runs |-> IF r \in Current THEN [run[r] EXCEPT !.aborted = TRUE]
                                  ELSE run[r]]

Cancel ==
    /\ Current # {}
    /\ RunLeft
    /\ UNCHANGED <<approvals, webApproved, questions, session>>

\* Mutant: the promises of foreign approvals are forgotten, not settled.
DroppedUnsettled(w) ==
    /\ listed' = {q \in listed : RootOf(q) = w}
    /\ UNCHANGED <<resolvers, request>>

(* switchWorkspace of the approval store.                                      *)
Dropped(w) ==
    LET foreign == {q \in listed : RootOf(q) # w} IN
    /\ listed' = listed \ foreign
    /\ resolvers' = resolvers \ foreign
    /\ request' = [q \in Requests |-> IF q \in foreign \cap resolvers
                                      THEN [at |-> "denied", result |-> "error"] ELSE request[q]]

(* checkForPendingQuestion: what was there stays if there is no question.      *)
Rehydrated(w) ==
    rehydrated' = IF question[w] # None THEN question[w] ELSE rehydrated

(* The chat tab cancels the run and tells the approval store; the shell looks  *)
(* for a pending question of the new workspace.                                *)
SwitchWorkspace(w) ==
    /\ w # workspace
    /\ changes < MaxChanges
    /\ changes' = changes + 1
    /\ workspace' = w
    /\ RunLeft
    /\ Dropped(w)
    /\ Rehydrated(w)
    /\ UNCHANGED <<webApproved, answered, question, wiped>>

(* handleRehydratedAssistantAnswerFlow clears the file and sends a new message. *)
AnswerRehydrated ==
    /\ rehydrated # None
    /\ rehydrated' = None
    /\ LET w == run[rehydrated].root IN
       \/ /\ question' = [question EXCEPT ![w] = None]
          /\ Wipes(w, rehydrated)
       \/ UNCHANGED <<question, wiped>>
    /\ UNCHANGED <<run, approvals, webApproved, answered, session>>

(* The renderer dies and starts again, with the files as they are.             *)
Crash ==
    /\ changes < MaxChanges
    /\ changes' = changes + 1
    /\ run' = [r \in Runs |-> IF r \in Active
                              THEN Threw(run[r])
                              ELSE run[r]]
    /\ wiped' = {}
    /\ request' = [q \in Requests |-> None]
    /\ listed' = {}
    /\ resolvers' = {}
    /\ webApproved' = FALSE
    /\ answered' = {}
    /\ rehydrated' = question[workspace]
    /\ UNCHANGED <<question, workspace>>

-----------------------------------------------------------------------------
Engine(r) ==
    \/ LoopHead(r) \/ ModelFails(r) \/ AnswerIsCalls(r) \/ AnswerIsInvalid(r)
    \/ AnswerIsUnparsable(r) \/ AnswerIsPatch(r) \/ AnswerIsText(r) \/ PatchQueued(r)
    \/ CallsDone(r) \/ CallCancelled(r) \/ CallOverBudget(r) \/ CallRefused(r)
    \/ CallForeign(r) \/ CallReads(r) \/ CallWrites(r) \/ CallBridges(r)
    \/ CallAsksForWeb(r) \/ CallAsksUser(r) \/ ToolReturns(r) \/ Proposed(r)
    \/ WebAborted(r) \/ QuestionWritten(r) \/ QuestionOver(r) \/ QuestionCleared(r)

Executor(q) == OperationEnds(q) \/ TimesOut(q)
WaitEnds(q) == request[q] # None /\ request[q].result = None /\ Executor(q)

User ==
    \/ \E r \in Runs : Start(r) \/ AllowWeb(r) \/ RefuseWeb(r) \/ Answer(r)
    \/ \E q \in Requests : ApproveTool(q) \/ RejectTool(q)
    \/ Cancel
    \/ \E w \in Workspaces : SwitchWorkspace(w)
    \/ AnswerRehydrated
    \/ Crash

Next ==
    \/ \E r \in Runs : Engine(r)
    \/ \E q \in Requests : Executor(q)
    \/ User

(* Code that can go on does, a model request ends (it has a timeout), and so    *)
(* does a tool's wait.  Nothing is assumed of the user.                        *)
Fairness ==
    /\ \A r \in Runs : WF_vars(Engine(r))
    /\ \A q \in Requests : WF_vars(WaitEnds(q))

Spec == Init /\ [][Next]_vars /\ Fairness

-----------------------------------------------------------------------------
(* Properties *)

(* Every variable keeps its type, and a run its policy's budgets of turns and  *)
(* calls, over all its repairs and refused calls.                              *)
TypeOK ==
    /\ run \in [Runs -> RunType]
    /\ \A r \in Runs : run[r].turns <= MaxSteps[r] /\ run[r].calls <= MaxToolCalls[r]
    /\ request \in [Requests -> RequestType \cup {None}]
    /\ listed \in SUBSET Requests
    /\ resolvers \in SUBSET Requests
    /\ webApproved \in BOOLEAN
    /\ answered \in SUBSET Runs
    /\ question \in [Workspaces -> Runs \cup {None}]
    /\ rehydrated \in Runs \cup {None}
    /\ wiped \in SUBSET Runs
    /\ workspace \in Workspaces
    /\ changes \in 0..MaxChanges

(* A tool waits for an approval exactly as long as the user can give it: the    *)
(* list, the promises and the executor agree, through changes of the workspace, *)
(* aborts and tools that are given up.  Otherwise a run would hang on an entry *)
(* nobody sees, or an entry would do nothing.                                  *)
ApprovalsAnswerable ==
    \A q \in Requests :
        /\ (q \in resolvers) <=> (q \in listed)
        /\ (q \in resolvers) <=> (request[q] # None /\ request[q].at = "asking")
        /\ q \in listed => RootOf(q) = workspace

(* A run that had to act is never reported as completed without a tool call or *)
(* a patch, whatever mixture of refused calls, repairs and texts led there.    *)
CompletedMeansActed ==
    \A r \in RequiresAction : run[r].status = "completed" => ~NoAction(r)

OuterTimedOut(q) ==
    LET outer == request[<<q[1], q[2], "direct">>] IN outer # None /\ outer.result = "timeout"

(* No tool begins its work for a run that is over, save one: the tool behind a *)
(* bridge whose outer call has timed out while the user was thinking.          *)
NothingStartsAfterTheEnd ==
    [][\A q \in Requests :
          request'[q] # None /\ request'[q].at = "going"
              /\ (request[q] = None \/ request[q].at # "going") =>
            \/ run'[q[1]].at = "tool"
            \/ q[3] = "bridged" /\ OuterTimedOut(q)]_vars

(* The question a run waits with is on disk, to survive a restart, unless a    *)
(* late write or clear of an earlier, cancelled run has come in between.       *)
QuestionOnDisk ==
    \A r \in Runs :
        At(r, "ask-wait") /\ ~Aborted(r) /\ r \notin wiped => question[run[r].root] = r

(* The answer to a question goes to the run that waits for it, not to the      *)
(* continuation after a restart: no question is read back from disk while its  *)
(* run still waits, although every change of the workspace reads the file.     *)
AnswerNotDiverted ==
    \A r \in Runs : rehydrated = r => ~(At(r, "ask-wait") /\ ~Aborted(r))

(* A run that is cancelled ends, unless a tool of it waits for an approval:    *)
(* that wait hears no signal and has no time limit.                            *)
CancelledRunEnds ==
    \A r \in Runs :
        (Aborted(r) /\ ~\E q \in resolvers : q[1] = r /\ q[3] = "direct") ~> At(r, "ended")

(* A run that was cancelled, or stopped by its tool budget, says so.           *)
ReasonTellsTheEnd ==
    \A r \in Runs :
        run[r].status \in {"cancelled", "budget_exceeded"} => run[r].reason = run[r].status
=============================================================================
