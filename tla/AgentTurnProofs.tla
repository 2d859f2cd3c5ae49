--------------------------- MODULE AgentTurnProofs --------------------------
(* Proofs about AgentTurn, for any number of runs and workspaces, any offers   *)
(* of tools and any budgets: type correctness with the budgets, that a tool    *)
(* waits for an approval exactly as long as the user can give it, that nothing *)
(* starts for a run that is over (save behind a bridge), that a run that had   *)
(* to act did, and that a question is on disk and its answer goes to the run   *)
(* that waits.                                                                 *)
EXTENDS AgentTurn, TLAPS

(* Places of a call that has been counted and not been answered.               *)
InCall == {"tool", "propose", "web", "ask-write", "ask-wait", "ask-clear"}

(* A run between its calls, and at its end.                                    *)
RunSound(r, k) ==
    /\ k \in RunType
    /\ k.turns <= MaxSteps[r] /\ k.calls <= MaxToolCalls[r]
    /\ k.at = "idle" => k.calls = 0
    /\ k.at \in InCall => k.calls > 0 /\ k.todo # <<>>
    /\ k.at # "ended" => k.status = "running"
    /\ r \in RequiresAction /\ k.status = "completed" => k.calls > 0 \/ k.patched
RunInv ==
    /\ run \in [Runs -> RunType]
    /\ \A r \in Runs : RunSound(r, run[r])

SessionInv ==
    /\ workspace \in Workspaces /\ changes \in 0..MaxChanges /\ webApproved \in BOOLEAN
    /\ \A r \in Current : run[r].root = workspace

(* The requests: those of calls that were counted, and what each place of a    *)
(* run and of a request says of the other.                                     *)
RequestsTyped ==
    /\ request \in [Requests -> RequestType \cup {None}]
    /\ listed \in SUBSET Requests
    /\ resolvers \in SUBSET Requests
AskingHasNoResult ==
    \A q \in Requests : request[q] # None /\ request[q].at = "asking" => request[q].result = None
RequestsCounted == \A q \in Requests : request[q] # None => q[2] <= run[q[1]].calls
ToolHasRequest == \A r \in Runs : At(r, "tool") => request[Direct(r)] # None
WebHasNone == \A r \in Runs : At(r, "web") => request[Direct(r)] = None

(* Who waits for the user: a direct request with its run at it, or one behind  *)
(* a bridge whose outer request goes on, waited for or timed out.              *)
Outer(q) == <<q[1], q[2], "direct">>
DirectAsking ==
    \A q \in Requests :
        request[q] # None /\ request[q].at = "asking" /\ q[3] = "direct" => Awaited(q)
BridgedAsking ==
    \A q \in Requests :
        request[q] # None /\ request[q].at = "asking" /\ q[3] = "bridged" =>
            /\ request[Outer(q)] # None /\ request[Outer(q)].at = "going"
            /\ \/ request[Outer(q)].result = None /\ Awaited(q)
               \/ request[Outer(q)].result = "timeout"

RequestInv ==
    /\ RequestsTyped
    /\ ApprovalsAnswerable
    /\ AskingHasNoResult /\ RequestsCounted
    /\ ToolHasRequest /\ WebHasNone
    /\ DirectAsking /\ BridgedAsking

(* The questions: only runs that have begun have one, and the one that was     *)
(* read back from disk is of a run that no longer is the session's.            *)
QuestionsTyped ==
    /\ answered \in SUBSET Runs
    /\ question \in [Workspaces -> Runs \cup {None}]
    /\ rehydrated \in Runs \cup {None}
    /\ wiped \in SUBSET Runs
QuestionBegun == \A w \in Workspaces : question[w] # None => ~At(question[w], "idle")
RehydratedLeft ==
    rehydrated # None => ~At(rehydrated, "idle") /\ rehydrated \notin Current
QuestionInv == QuestionsTyped /\ QuestionOnDisk /\ QuestionBegun /\ RehydratedLeft

(* The inductive invariant.                                                    *)
IInv == RunInv /\ SessionInv /\ RequestInv /\ QuestionInv

-----------------------------------------------------------------------------
(* Requests                                                                    *)

LEMMA RequestParts ==
    /\ \A q \in Requests :
          /\ q[1] \in Runs /\ q[2] \in 1..MaxToolCalls[q[1]] /\ q[2] \in Nat
          /\ q[3] \in {"direct", "bridged"} /\ q = <<q[1], q[2], q[3]>>
          /\ Outer(q) \in Requests /\ Inner(q) \in Requests
    /\ \A r \in Runs, n \in Nat :
          n > 0 /\ n <= MaxToolCalls[r] =>
              <<r, n, "direct">> \in Requests /\ <<r, n, "bridged">> \in Requests
  <1>1. \A r \in Runs : MaxToolCalls[r] \in Nat
    BY AgentTurnAssumption
  <1>2. ASSUME NEW r \in Runs, NEW n \in 1..MaxToolCalls[r], NEW d \in {"direct", "bridged"}
        PROVE  <<r, n, d>> \in Requests
    BY DEF Requests
  <1>3. ASSUME NEW q \in Requests
        PROVE  /\ q[1] \in Runs /\ q[2] \in 1..MaxToolCalls[q[1]] /\ q[2] \in Nat
               /\ q[3] \in {"direct", "bridged"} /\ q = <<q[1], q[2], q[3]>>
    <2>1. PICK r \in Runs : q \in {r} \X (1..MaxToolCalls[r]) \X {"direct", "bridged"}
      BY DEF Requests
    <2>2. PICK n \in 1..MaxToolCalls[r], d \in {"direct", "bridged"} : q = <<r, n, d>>
      BY <2>1
    <2> QED
      BY <1>1, <2>2
  <1>4. \A r \in Runs, n \in Nat :
          n > 0 /\ n <= MaxToolCalls[r] => n \in 1..MaxToolCalls[r]
    BY <1>1
  <1> QED
    BY <1>2, <1>3, <1>4 DEF Outer, Inner

LEMMA GoingAndAsking ==
    /\ Going \in RequestType /\ Going # None /\ Going.at = "going" /\ Going.result = None
    /\ Asking \in RequestType /\ Asking # None /\ Asking.at = "asking" /\ Asking.result = None
  BY NoneAssumption DEF Going, Asking, RequestType

-----------------------------------------------------------------------------
(* Runs                                                                        *)

(* What every step of a run keeps: it does not become idle, a run that has     *)
(* begun keeps its root, an abort stays until the end, and calls add up.       *)
Goes(j, k) ==
    /\ k.at = "idle" => j.at = "idle"
    /\ j.at = "idle" => k = j \/ k.root = workspace
    /\ j.at # "idle" => k.root = j.root /\ (j.aborted => k.aborted \/ k.at = "ended")
    /\ j.at = "ended" => k.at = "ended"
    /\ j.calls <= k.calls
AllGo == \A r \in Runs : Goes(run[r], run'[r])

LEMMA GoesByStaying == RunInv /\ UNCHANGED run => RunInv' /\ AllGo
  <1> SUFFICES ASSUME RunInv, UNCHANGED run PROVE RunInv' /\ AllGo
    OBVIOUS
  <1>1. RunInv'
    BY DEF RunInv
  <1>2. \A r \in Runs : run[r].calls \in Nat
    BY DEF RunInv, RunType
  <1>3. \A n \in Nat : n <= n
    OBVIOUS
  <1> QED
    BY <1>1, <1>2, <1>3 DEF AllGo, Goes

(* A step by which run r becomes k.                                            *)
RunBecomes(r, k) == Becomes(r, k) /\ RunSound(r, k) /\ Goes(run[r], k)

LEMMA RunBecomesKeeps ==
    ASSUME RunInv, NEW r \in Runs, NEW k, RunBecomes(r, k)
    PROVE  /\ RunInv' /\ AllGo
           /\ run'[r] = k /\ \A s \in Runs : s # r => run'[s] = run[s]
  <1>1. run' \in [Runs -> RunType]
        /\ run'[r] = k /\ \A s \in Runs : s # r => run'[s] = run[s]
    BY DEF RunInv, RunBecomes, Becomes, RunSound
  <1>2. RunInv'
    BY <1>1 DEF RunInv, RunBecomes
  <1>3. \A s \in Runs : run[s].calls \in Nat
    BY DEF RunInv, RunType
  <1>4. \A n \in Nat : n <= n
    OBVIOUS
  <1>5. \A s \in Runs : Goes(run[s], run[s])
    BY <1>3, <1>4 DEF Goes
  <1>6. AllGo
    BY <1>1, <1>5 DEF AllGo, RunBecomes
  <1> QED
    BY <1>1, <1>2, <1>6

(* The records a run becomes.                                                  *)
LEMMA ThrewSound ==
    ASSUME NEW r \in Runs, NEW k, RunSound(r, k)
    PROVE  /\ RunSound(r, Threw(k)) /\ Threw(k).at = "ended" /\ Threw(k).root = k.root
           /\ Threw(k).calls = k.calls
  <1>1. k \in RunType /\ FALSE \in BOOLEAN /\ <<>> \in Seq(Tools) /\ 0 <= MaxSteps[r]
    BY AgentTurnAssumption DEF RunSound
  <1>2. /\ Threw(k) \in RunType /\ Threw(k).at = "ended" /\ Threw(k).root = k.root
        /\ Threw(k).turns = 0 /\ Threw(k).calls = k.calls
        /\ Threw(k).patched = k.patched /\ Threw(k).status = k.status
    BY <1>1 DEF Threw, RunType, Places
  <1>3. "ended" \notin InCall
    BY DEF InCall
  <1> QED
    BY <1>1, <1>2, <1>3 DEF RunSound

LEMMA FinishedSound ==
    ASSUME NEW r \in Runs, NEW k, RunSound(r, k),
           NEW status \in Statuses, NEW reason \in Reasons,
           r \in RequiresAction /\ status = "completed" => k.calls > 0 \/ k.patched
    PROVE  /\ RunSound(r, Finished(k, status, reason))
           /\ Finished(k, status, reason).at = "ended"
           /\ Finished(k, status, reason).root = k.root
           /\ Finished(k, status, reason).calls = k.calls
  <1> DEFINE f == Finished(k, status, reason)
  <1>1. k \in RunType /\ FALSE \in BOOLEAN /\ <<>> \in Seq(Tools) /\ 0 <= MaxSteps[r]
    BY AgentTurnAssumption DEF RunSound
  <1>2. /\ f \in RunType /\ f.at = "ended" /\ f.root = k.root
        /\ f.turns = 0 /\ f.calls = k.calls
        /\ f.patched = k.patched /\ f.status = status
    BY <1>1 DEF Finished, Threw, RunType, Places
  <1> HIDE DEF f
  <1>3. "ended" \notin InCall
    BY DEF InCall
  <1>4. RunSound(r, f)
    BY <1>1, <1>2, <1>3 DEF RunSound
  <1> QED
    BY <1>2, <1>4 DEF f

(* A run that has begun ends, or goes to a place between two calls.            *)
LEMMA GoesToTheEnd ==
    ASSUME NEW j \in RunType, NEW k, j.at \notin {"idle", "ended"},
           k.at = "ended", k.root = j.root, k.calls = j.calls
    PROVE  Goes(j, k)
  BY DEF Goes, RunType

LEMMA CalledSound ==
    ASSUME NEW r \in Runs, NEW k, RunSound(r, k), k.todo # <<>>, k.at # "ended", k.at # "idle",
           NEW repaired \in BOOLEAN, NEW patched \in BOOLEAN,
           NEW c, c \in {Called(k), [Called(k) EXCEPT !.repaired = repaired],
                         [Called(k) EXCEPT !.patched = patched]}
    PROVE  RunSound(r, c) /\ Goes(k, c) /\ c.at = "call"
  <1>1. k \in RunType
    BY DEF RunSound
  <1>2. k.todo \in Seq(Tools)
    BY <1>1 DEF RunType
  <1>3. Tail(k.todo) \in Seq(Tools)
    BY <1>2
  <1>4. /\ Called(k) \in RunType /\ Called(k).at = "call" /\ Called(k).root = k.root
        /\ Called(k).turns = k.turns /\ Called(k).calls = k.calls
        /\ Called(k).status = k.status /\ Called(k).aborted = k.aborted
    BY <1>1, <1>3 DEF Called, RunType, Places
  <1>5. /\ c \in RunType /\ c.at = "call" /\ c.root = k.root
        /\ c.turns = k.turns /\ c.calls = k.calls
        /\ c.status = k.status /\ c.aborted = k.aborted
    <2>1. CASE c = Called(k)
      BY <1>4, <2>1
    <2>2. CASE c = [Called(k) EXCEPT !.repaired = repaired]
      BY <1>4, <2>2 DEF RunType
    <2>3. CASE c = [Called(k) EXCEPT !.patched = patched]
      BY <1>4, <2>3 DEF RunType
    <2> QED
      BY <2>1, <2>2, <2>3
  <1>6. k.status = "running" /\ "call" \notin InCall
    BY DEF RunSound, InCall
  <1>7. RunSound(r, c)
    BY <1>1, <1>5, <1>6 DEF RunSound
  <1>8. Goes(k, c)
    BY <1>1, <1>5 DEF Goes, RunType
  <1> QED
    BY <1>5, <1>7, <1>8

(* A run that only goes to another place.                                      *)
LEMMA PlaceSound ==
    ASSUME NEW r \in Runs, NEW k, RunSound(r, k), k.at # "ended", k.at # "idle",
           NEW at \in Places \ {"idle", "ended"}, at \in InCall => k.at \in InCall
    PROVE  /\ RunSound(r, [k EXCEPT !.at = at]) /\ Goes(k, [k EXCEPT !.at = at])
           /\ [k EXCEPT !.at = at].at = at /\ [k EXCEPT !.at = at].calls = k.calls
           /\ [k EXCEPT !.at = at].root = k.root /\ [k EXCEPT !.at = at].aborted = k.aborted
  <1> DEFINE p == [k EXCEPT !.at = at]
  <1>1. k \in RunType /\ k.status = "running"
    BY DEF RunSound
  <1>2. /\ p \in RunType /\ p.at = at /\ p.root = k.root /\ p.turns = k.turns
        /\ p.calls = k.calls /\ p.status = k.status /\ p.aborted = k.aborted
        /\ p.todo = k.todo /\ p.patched = k.patched
    BY <1>1 DEF RunType
  <1> HIDE DEF p
  <1>3. RunSound(r, p)
    BY <1>1, <1>2 DEF RunSound
  <1>4. Goes(k, p)
    BY <1>1, <1>2 DEF Goes, RunType
  <1> QED
    BY <1>2, <1>3, <1>4 DEF p

(* A call that is counted.                                                     *)
LEMMA CountedSound ==
    ASSUME RunInv, NEW r \in Runs, CallMay(r), NEW at \in InCall
    PROVE  LET k == [Counted(r) EXCEPT !.at = at] IN
           /\ RunSound(r, k) /\ Goes(run[r], k)
           /\ k.at = at /\ k.calls = run[r].calls + 1 /\ k.root = run[r].root
           /\ k.aborted = run[r].aborted
           /\ ThisCall(r) \in Requests /\ Inner(ThisCall(r)) \in Requests
  <1> DEFINE k == [Counted(r) EXCEPT !.at = at]
  <1>1. run[r] \in RunType /\ RunSound(r, run[r]) /\ run[r].at = "call" /\ run[r].todo # <<>>
        /\ run[r].calls < MaxToolCalls[r]
    BY DEF RunInv, CallMay, At
  <1>2. run[r].calls \in Nat /\ MaxToolCalls[r] \in Nat
    BY <1>1, AgentTurnAssumption DEF RunType
  <1>3. run[r].calls + 1 \in Nat /\ run[r].calls + 1 > 0 /\ run[r].calls + 1 <= MaxToolCalls[r]
        /\ run[r].calls <= run[r].calls + 1
    BY <1>1, <1>2
  <1>4. at \in Places \ {"idle", "ended"}
    BY DEF Places, InCall
  <1>5. /\ k \in RunType /\ k.at = at /\ k.root = run[r].root /\ k.turns = run[r].turns
        /\ k.calls = run[r].calls + 1 /\ k.status = run[r].status
        /\ k.aborted = run[r].aborted /\ k.todo = run[r].todo
    BY <1>1, <1>3, <1>4 DEF Counted, RunType
  <1> HIDE DEF k
  <1>6. RunSound(r, k)
    BY <1>1, <1>3, <1>4, <1>5 DEF RunSound
  <1>7. Goes(run[r], k)
    BY <1>1, <1>3, <1>4, <1>5 DEF Goes
  <1>8. ThisCall(r) \in Requests /\ Inner(ThisCall(r)) \in Requests
    BY <1>2, <1>3, RequestParts DEF ThisCall
  <1> QED
    BY <1>5, <1>6, <1>7, <1>8 DEF k

-----------------------------------------------------------------------------
(* What the steps of runs do to the session, the requests and the questions    *)

LEMMA CurrentGoes ==
    ASSUME AllGo, NEW s \in Current'
    PROVE  /\ s \in Runs
           /\ \/ s \in Current /\ run'[s].root = run[s].root
              \/ run[s].at = "idle" /\ run'[s].root = workspace
  <1>1. s \in Runs /\ run'[s].at \notin {"idle", "ended"} /\ ~run'[s].aborted
    BY DEF Current, Active, Aborted
  <1>2. Goes(run[s], run'[s])
    BY <1>1 DEF AllGo
  <1> QED
    BY <1>1, <1>2 DEF Goes, Current, Active, Aborted

LEMMA SessionKept ==
    ASSUME SessionInv, AllGo, webApproved' \in BOOLEAN, UNCHANGED session
    PROVE  SessionInv'
  BY CurrentGoes DEF SessionInv, session

LEMMA RequestsSeeRuns ==
    ASSUME RunInv, RequestInv, AllGo, RunInv', UNCHANGED approvals, UNCHANGED workspace,
           \A s \in Runs : At(s, "tool")' <=> At(s, "tool"),
           \A s \in Runs : At(s, "tool") => run'[s].calls = run[s].calls,
           \A s \in Runs : At(s, "web")' => request[Direct(s)'] = None
    PROVE  RequestInv'
  <1> USE RequestParts
  <1>1. UNCHANGED <<request, listed, resolvers>>
    BY DEF approvals
  <1>2. \A s \in Runs : Goes(run[s], run'[s]) /\ run[s].calls \in Nat /\ run'[s].calls \in Nat
    BY DEF AllGo, RunInv, RunType
  <1>3. \A q \in Requests : Awaited(q)' <=> Awaited(q)
    BY DEF Awaited, At
  <1>4. \A q \in Requests : RootOf(q) = workspace => RootOf(q)' = workspace
    BY <1>2 DEF RootOf, Goes
  <1>5. RequestsTyped' /\ AskingHasNoResult'
    BY <1>1 DEF RequestInv, RequestsTyped, AskingHasNoResult
  <1>6. ApprovalsAnswerable'
    BY <1>1, <1>4 DEF RequestInv, ApprovalsAnswerable
  <1>7. RequestsCounted'
    <2> SUFFICES ASSUME NEW q \in Requests, request'[q] # None
                 PROVE  q[2] <= run'[q[1]].calls
      BY DEF RequestsCounted
    <2>1. q[1] \in Runs /\ q[2] \in Nat /\ q[2] <= run[q[1]].calls
      BY <1>1 DEF RequestInv, RequestsCounted
    <2>2. run[q[1]].calls <= run'[q[1]].calls
      BY <1>2, <2>1 DEF Goes
    <2> QED
      BY <1>2, <2>1, <2>2
  <1>8. ToolHasRequest'
    <2> SUFFICES ASSUME NEW s \in Runs, At(s, "tool")' PROVE request'[Direct(s)'] # None
      BY DEF ToolHasRequest
    <2>1. At(s, "tool") /\ Direct(s)' = Direct(s)
      BY DEF Direct
    <2> QED
      BY <1>1, <2>1 DEF RequestInv, ToolHasRequest
  <1>9. WebHasNone'
    BY <1>1 DEF WebHasNone
  <1>10. DirectAsking'
    BY <1>1, <1>3 DEF RequestInv, DirectAsking
  <1>11. BridgedAsking'
    BY <1>1, <1>3 DEF RequestInv, BridgedAsking, Outer
  <1> QED
    BY <1>5, <1>6, <1>7, <1>8, <1>9, <1>10, <1>11 DEF RequestInv

LEMMA QuestionsSeeRuns ==
    ASSUME QuestionInv, AllGo, UNCHANGED <<question, rehydrated, wiped>>,
           answered' \in SUBSET Runs,
           \A s \in Runs : At(s, "ask-wait")' => At(s, "ask-wait")
    PROVE  QuestionInv'
  <1>1. \A s \in Runs : Goes(run[s], run'[s])
    BY DEF AllGo
  <1>2. QuestionsTyped'
    BY DEF QuestionInv, QuestionsTyped
  <1>3. QuestionOnDisk'
    <2> SUFFICES ASSUME NEW s \in Runs, At(s, "ask-wait")', ~Aborted(s)', s \notin wiped'
                 PROVE  question'[run'[s].root] = s
      BY DEF QuestionOnDisk
    <2>1. At(s, "ask-wait") /\ ~Aborted(s) /\ run'[s].root = run[s].root
      BY <1>1 DEF Goes, At, Aborted
    <2> QED
      BY <2>1 DEF QuestionInv, QuestionOnDisk
  <1>4. QuestionBegun'
    BY <1>1 DEF QuestionInv, QuestionsTyped, QuestionBegun, Goes, At
  <1>5. RehydratedLeft'
    BY <1>1, CurrentGoes DEF QuestionInv, QuestionsTyped, RehydratedLeft, Goes, At
  <1> QED
    BY <1>2, <1>3, <1>4, <1>5 DEF QuestionInv

(* A step of a run between its calls, which leaves requests and questions      *)
(* alone.                                                                      *)
LEMMA OnTheWay ==
    ASSUME IInv, NEW r \in Runs, NEW k, RunBecomes(r, k),
           run[r].at # "tool", k.at \notin {"tool", "web", "ask-wait"},
           UNCHANGED <<approvals, questions, session>>, webApproved' \in BOOLEAN
    PROVE  IInv'
  <1>1. /\ RunInv' /\ AllGo
        /\ run'[r] = k /\ \A s \in Runs : s # r => run'[s] = run[s]
    BY RunBecomesKeeps DEF IInv
  <1>2. SessionInv'
    BY <1>1, SessionKept DEF IInv
  <1>3. /\ \A s \in Runs : At(s, "tool")' <=> At(s, "tool")
        /\ \A s \in Runs : At(s, "tool") => run'[s].calls = run[s].calls
        /\ \A s \in Runs : At(s, "ask-wait")' => At(s, "ask-wait")
        /\ \A s \in Runs : At(s, "web")' => request[Direct(s)'] = None
    BY <1>1 DEF At, Direct, IInv, RequestInv, WebHasNone
  <1>4. RequestInv'
    BY <1>1, <1>3, RequestsSeeRuns DEF IInv, session
  <1>5. QuestionInv'
    BY <1>1, <1>3, QuestionsSeeRuns DEF IInv, questions, QuestionInv, QuestionsTyped
  <1> QED
    BY <1>1, <1>2, <1>4, <1>5 DEF IInv

-----------------------------------------------------------------------------
(* The loop and the calls that need nobody                                     *)

LEMMA RunFacts ==
    ASSUME IInv, NEW r \in Runs
    PROVE  /\ run[r] \in RunType /\ RunSound(r, run[r])
           /\ run[r].turns \in Nat /\ run[r].calls \in Nat
           /\ MaxSteps[r] \in Nat \ {0} /\ MaxToolCalls[r] \in Nat \ {0}
           /\ run[r].repaired \in BOOLEAN /\ run[r].patched \in BOOLEAN
           /\ webApproved \in BOOLEAN
  BY AgentTurnAssumption DEF IInv, RunInv, RunType, SessionInv

(* A run that ends.                                                            *)
LEMMA EndKeeps ==
    ASSUME IInv, NEW r \in Runs, run[r].at \notin {"idle", "ended", "tool"},
           UNCHANGED <<approvals, webApproved, questions, session>>,
           NEW status \in Statuses, NEW reason \in Reasons,
           r \in RequiresAction /\ status = "completed" => run[r].calls > 0 \/ run[r].patched,
           Becomes(r, Threw(run[r])) \/ Becomes(r, Finished(run[r], status, reason))
    PROVE  IInv'
  <1>1. /\ run[r] \in RunType /\ RunSound(r, run[r]) /\ webApproved' \in BOOLEAN
    BY RunFacts
  <1>2. CASE Becomes(r, Threw(run[r]))
    <2> DEFINE k == Threw(run[r])
    <2>1. RunSound(r, k) /\ k.at = "ended" /\ Goes(run[r], k)
      BY <1>1, ThrewSound, GoesToTheEnd
    <2>2. RunBecomes(r, k)
      BY <1>2, <2>1 DEF RunBecomes
    <2> HIDE DEF k
    <2> QED
      BY <1>1, <2>1, <2>2, OnTheWay
  <1>3. CASE Becomes(r, Finished(run[r], status, reason))
    <2> DEFINE k == Finished(run[r], status, reason)
    <2>1. RunSound(r, k) /\ k.at = "ended" /\ k.root = run[r].root /\ k.calls = run[r].calls
      BY <1>1, FinishedSound
    <2> HIDE DEF k
    <2>2. Goes(run[r], k)
      BY <1>1, <2>1, GoesToTheEnd
    <2>3. RunBecomes(r, k)
      BY <1>3, <2>1, <2>2 DEF RunBecomes, k
    <2> QED
      BY <1>1, <2>1, <2>3, OnTheWay
  <1> QED
    BY <1>2, <1>3

(* A run that goes on, to a place between two calls.                           *)
LEMMA GoOnKeeps ==
    ASSUME IInv, NEW r \in Runs, NEW k, Becomes(r, k), k \in RunType,
           run[r].at \notin {"idle", "ended", "tool"},
           k.at \in {"turn", "model", "queue", "call"},
           k.root = run[r].root, k.aborted = run[r].aborted,
           k.calls = run[r].calls, k.turns <= MaxSteps[r], k.status = run[r].status,
           UNCHANGED <<approvals, webApproved, questions, session>>
    PROVE  IInv'
  <1>1. RunSound(r, run[r]) /\ run[r].calls \in Nat /\ webApproved' \in BOOLEAN
    BY RunFacts
  <1>2. RunSound(r, k)
    BY <1>1 DEF RunSound, InCall
  <1>3. Goes(run[r], k)
    BY <1>1 DEF Goes
  <1> QED
    BY <1>1, <1>2, <1>3, OnTheWay DEF RunBecomes

LEMMA StartKeeps == ASSUME IInv, NEW r \in Runs, Start(r) PROVE IInv'
  <1> DEFINE k == [NewRun EXCEPT !.at = "turn", !.root = workspace]
  <1>1. /\ run[r].at = "idle" /\ run[r].calls = 0 /\ 0 <= MaxSteps[r] /\ 0 <= MaxToolCalls[r]
        /\ workspace \in Workspaces
    BY RunFacts DEF Start, At, RunSound, IInv, SessionInv
  <1>2. NewRun \in RunType
    BY DEF NewRun, RunType, Places, Statuses, Reasons
  <1>3. NewRun.calls = 0 /\ NewRun.turns = 0 /\ NewRun.status = "running"
    BY DEF NewRun
  <1>4. /\ k \in RunType /\ k.at = "turn" /\ k.root = workspace
        /\ k.calls = 0 /\ k.turns = 0 /\ k.status = "running"
    BY <1>1, <1>2, <1>3 DEF RunType, Places
  <1>5. Becomes(r, k)
    BY DEF Start
  <1> HIDE DEF k
  <1>6. RunSound(r, k) /\ Goes(run[r], k)
    BY <1>1, <1>4 DEF RunSound, Goes, InCall
  <1>7. webApproved' \in BOOLEAN
    BY RunFacts DEF Start
  <1> QED
    BY <1>1, <1>4, <1>5, <1>6, <1>7, OnTheWay DEF Start, RunBecomes

LEMMA LoopHeadKeeps == ASSUME IInv, NEW r \in Runs, LoopHead(r) PROVE IInv'
  <1>1. /\ run[r] \in RunType /\ run[r].at = "turn"
        /\ run[r].turns \in Nat /\ run[r].calls \in Nat
        /\ MaxSteps[r] \in Nat /\ MaxToolCalls[r] \in Nat
        /\ UNCHANGED <<approvals, webApproved, questions, session>>
    BY RunFacts DEF LoopHead, At
  <1>2. /\ {"completed", "cancelled", "budget_exceeded", "failed"} \subseteq Statuses
        /\ {"final_answer", "patch_proposed", "tool_calls_executed", "budget_exceeded",
            "cancelled", "execution_no_action"} \subseteq Reasons
    BY DEF Statuses, Reasons
  <1>3. CASE ~MayLoop(r)
    <2>1. Becomes(r, Epilogue(r))
      BY <1>3 DEF LoopHead
    <2>2. PICK status \in Statuses, reason \in Reasons :
              /\ Epilogue(r) = Finished(run[r], status, reason)
              /\ status = "completed" => ~NoAction(r)
      <3>1. CASE run[r].turns >= MaxSteps[r]
        BY <1>1, <1>2, <3>1 DEF Epilogue
      <3>2. CASE run[r].turns < MaxSteps[r] /\ NoAction(r)
        BY <1>1, <1>2, <3>2 DEF Epilogue
      <3>3. CASE run[r].turns < MaxSteps[r] /\ ~NoAction(r)
        BY <1>1, <1>2, <3>3 DEF Epilogue
      <3> QED
        BY <1>1, <3>1, <3>2, <3>3
    <2>3. r \in RequiresAction /\ status = "completed" => run[r].calls > 0 \/ run[r].patched
      BY <1>1, <2>2 DEF NoAction
    <2> QED
      BY <1>1, <2>1, <2>2, <2>3, EndKeeps
  <1>4. CASE MayLoop(r) /\ Aborted(r)
    <2>1. Becomes(r, Finished(run[r], "cancelled", "cancelled"))
      BY <1>4 DEF LoopHead
    <2> QED
      BY <1>1, <1>2, <2>1, EndKeeps
  <1>5. CASE MayLoop(r) /\ ~Aborted(r)
    <2> DEFINE k == [run[r] EXCEPT !.at = "model", !.turns = @ + 1]
    <2>1. Becomes(r, k)
      BY <1>5 DEF LoopHead
    <2>2. run[r].turns + 1 \in Nat /\ run[r].turns + 1 <= MaxSteps[r]
      BY <1>1, <1>5 DEF MayLoop
    <2>3. /\ k \in RunType /\ k.at = "model" /\ k.root = run[r].root
          /\ k.aborted = run[r].aborted /\ k.calls = run[r].calls
          /\ k.turns = run[r].turns + 1 /\ k.status = run[r].status
      BY <1>1, <2>2 DEF RunType, Places
    <2> HIDE DEF k
    <2> QED
      BY <1>1, <2>1, <2>2, <2>3, GoOnKeeps
  <1> QED
    BY <1>3, <1>4, <1>5

LEMMA RepairKeeps ==
    ASSUME IInv, NEW r \in Runs, run[r].at = "model", NEW reason \in Reasons,
           RepairOr(r, Finished(run[r], "failed", reason)),
           UNCHANGED <<approvals, webApproved, questions, session>>
    PROVE  IInv'
  <1>1. CASE run[r].repaired
    <2>1. Becomes(r, Finished(run[r], "failed", reason)) /\ "failed" \in Statuses
      BY <1>1 DEF RepairOr, Statuses
    <2> QED
      BY <2>1, EndKeeps
  <1>2. CASE ~run[r].repaired
    <2> DEFINE k == [run[r] EXCEPT !.repaired = TRUE, !.at = "turn"]
    <2>1. Becomes(r, k)
      BY <1>2 DEF RepairOr
    <2>2. run[r] \in RunType /\ run[r].turns <= MaxSteps[r]
      BY RunFacts DEF RunSound
    <2>3. /\ k \in RunType /\ k.at = "turn" /\ k.root = run[r].root
          /\ k.aborted = run[r].aborted /\ k.calls = run[r].calls
          /\ k.turns = run[r].turns /\ k.status = run[r].status
      BY <2>2 DEF RunType, Places
    <2> HIDE DEF k
    <2> QED
      BY <2>1, <2>2, <2>3, GoOnKeeps
  <1> QED
    BY <1>1, <1>2

LEMMA AnswersKeep ==
    ASSUME IInv, NEW r \in Runs,
           \/ ModelFails(r) \/ AnswerIsCalls(r) \/ AnswerIsInvalid(r) \/ AnswerIsUnparsable(r)
           \/ AnswerIsPatch(r) \/ AnswerIsText(r)
    PROVE  IInv'
  <1>1. /\ run[r].at = "model"
        /\ UNCHANGED <<approvals, webApproved, questions, session>>
    BY DEF ModelFails, AnswerIsCalls, AnswerIsInvalid, AnswerIsUnparsable, AnswerIsPatch,
           AnswerIsText, At
  <1>2. run[r] \in RunType /\ run[r].turns <= MaxSteps[r] /\ run[r].calls \in Nat
    BY RunFacts DEF RunSound
  <1>3. {"completed", "failed"} \subseteq Statuses
        /\ {"final_answer", "patch_proposed", "tool_calls_executed", "invalid_protocol",
            "execution_no_action"} \subseteq Reasons
    BY DEF Statuses, Reasons
  <1>4. CASE ModelFails(r)
    BY <1>1, <1>3, <1>4, EndKeeps DEF ModelFails
  <1>5. CASE AnswerIsCalls(r)
    <2>1. PICK calls \in Offers[r] : Becomes(r, [run[r] EXCEPT !.at = "call", !.todo = calls])
      BY <1>5 DEF AnswerIsCalls
    <2>2. calls \in Seq(Tools)
      BY AgentTurnAssumption
    <2> DEFINE k == [run[r] EXCEPT !.at = "call", !.todo = calls]
    <2>3. /\ k \in RunType /\ k.at = "call" /\ k.root = run[r].root
          /\ k.aborted = run[r].aborted /\ k.calls = run[r].calls
          /\ k.turns = run[r].turns /\ k.status = run[r].status
      BY <1>2, <2>2 DEF RunType, Places
    <2> HIDE DEF k
    <2> QED
      BY <1>1, <1>2, <2>1, <2>3, GoOnKeeps DEF k
  <1>6. CASE AnswerIsInvalid(r)
    BY <1>1, <1>3, <1>6, RepairKeeps DEF AnswerIsInvalid
  <1>7. CASE AnswerIsUnparsable(r)
    <2>1. CASE r \in RequiresAction
      BY <1>1, <1>3, <1>7, <2>1, RepairKeeps DEF AnswerIsUnparsable
    <2>2. CASE r \notin RequiresAction
      BY <1>1, <1>3, <1>7, <2>2, EndKeeps DEF AnswerIsUnparsable
    <2> QED
      BY <2>1, <2>2
  <1>8. CASE AnswerIsPatch(r)
    <2> DEFINE k == [run[r] EXCEPT !.at = "queue"]
    <2>1. Becomes(r, k)
      BY <1>8 DEF AnswerIsPatch, Goto
    <2>2. /\ k \in RunType /\ k.at = "queue" /\ k.root = run[r].root
          /\ k.aborted = run[r].aborted /\ k.calls = run[r].calls
          /\ k.turns = run[r].turns /\ k.status = run[r].status
      BY <1>2 DEF RunType, Places
    <2> HIDE DEF k
    <2> QED
      BY <1>1, <1>2, <2>1, <2>2, GoOnKeeps
  <1>9. CASE AnswerIsText(r)
    <2>1. CASE NoAction(r)
      BY <1>1, <1>3, <1>9, <2>1, RepairKeeps DEF AnswerIsText
    <2>2. CASE ~NoAction(r)
      <3>1. PICK reason \in Reasons : Becomes(r, Finished(run[r], "completed", reason))
        BY <1>3, <1>9, <2>2 DEF AnswerIsText
      <3>2. r \in RequiresAction => run[r].calls > 0 \/ run[r].patched
        BY <1>2, <2>2 DEF NoAction
      <3> QED
        BY <1>1, <1>3, <3>1, <3>2, EndKeeps
    <2> QED
      BY <2>1, <2>2
  <1> QED
    BY <1>4, <1>5, <1>6, <1>7, <1>8, <1>9

LEMMA PatchQueuedKeeps == ASSUME IInv, NEW r \in Runs, PatchQueued(r) PROVE IInv'
  <1>1. /\ run[r].at = "queue" /\ run[r] \in RunType /\ RunSound(r, run[r])
        /\ UNCHANGED <<approvals, webApproved, questions, session>>
    BY RunFacts DEF PatchQueued, At
  <1>2. "completed" \in Statuses /\ "patch_proposed" \in Reasons
    BY DEF Statuses, Reasons
  <1>3. CASE Becomes(r, Threw(run[r]))
    <2>1. "failed" \in Statuses
      BY DEF Statuses
    <2> QED
      BY <1>1, <1>2, <1>3, <2>1, EndKeeps
  <1>4. CASE Becomes(r, Finished([run[r] EXCEPT !.patched = TRUE], "completed", "patch_proposed"))
    <2> DEFINE j == [run[r] EXCEPT !.patched = TRUE]
               k == Finished(j, "completed", "patch_proposed")
    <2>1. /\ j \in RunType /\ j.at = "queue" /\ j.root = run[r].root /\ j.calls = run[r].calls
          /\ j.turns = run[r].turns /\ j.status = run[r].status /\ j.patched
      BY <1>1 DEF RunType
    <2> HIDE DEF j
    <2>2. RunSound(r, j)
      BY <1>1, <2>1 DEF RunSound, InCall
    <2>3. RunSound(r, k) /\ k.at = "ended" /\ k.root = j.root /\ k.calls = j.calls
      BY <1>2, <2>1, <2>2, FinishedSound
    <2> HIDE DEF k
    <2>4. Goes(run[r], k)
      BY <1>1, <2>1, <2>3, GoesToTheEnd
    <2>5. Becomes(r, k)
      BY <1>4 DEF j, k
    <2>6. webApproved' \in BOOLEAN
      BY <1>1, RunFacts
    <2> QED
      BY <1>1, <2>3, <2>4, <2>5, <2>6, OnTheWay DEF RunBecomes
  <1> QED
    BY <1>3, <1>4 DEF PatchQueued

(* A call that is answered at once.                                            *)
LEMMA CalledKeeps ==
    ASSUME IInv, NEW r \in Runs, run[r].at \notin {"idle", "ended", "tool"}, run[r].todo # <<>>,
           NEW repaired \in BOOLEAN, NEW patched \in BOOLEAN, NEW c,
           c \in {Called(run[r]), [Called(run[r]) EXCEPT !.repaired = repaired],
                  [Called(run[r]) EXCEPT !.patched = patched]},
           Becomes(r, c), UNCHANGED <<approvals, questions, session>>, webApproved' \in BOOLEAN
    PROVE  IInv'
  <1>1. RunSound(r, run[r])
    BY RunFacts
  <1>2. RunSound(r, c) /\ Goes(run[r], c) /\ c.at = "call"
    BY <1>1, CalledSound
  <1> QED
    BY <1>2, OnTheWay DEF RunBecomes

LEMMA CallsKeep ==
    ASSUME IInv, NEW r \in Runs,
           \/ CallsDone(r) \/ CallCancelled(r) \/ CallOverBudget(r) \/ CallRefused(r)
           \/ CallForeign(r) \/ Proposed(r) \/ WebAborted(r) \/ RefuseWeb(r)
    PROVE  IInv'
  <1>1. run[r] \in RunType /\ run[r].turns <= MaxSteps[r] /\ RunSound(r, run[r])
        /\ run[r].repaired \in BOOLEAN /\ run[r].patched \in BOOLEAN
        /\ webApproved \in BOOLEAN /\ TRUE \in BOOLEAN /\ FALSE \in BOOLEAN
    BY RunFacts DEF RunSound
  <1>2. {"cancelled", "budget_exceeded", "failed"} \subseteq Statuses
        /\ {"tool_calls_executed", "skill_tool_policy_violation"} \subseteq Reasons
    BY DEF Statuses, Reasons
  <1>3. run[r].at \in InCall => run[r].todo # <<>>
    BY <1>1 DEF RunSound
  <1>4. CASE CallsDone(r)
    <2> DEFINE k == [run[r] EXCEPT !.at = "turn", !.reason = "tool_calls_executed"]
    <2>1. Becomes(r, k) /\ run[r].at = "call"
          /\ UNCHANGED <<approvals, webApproved, questions, session>>
      BY <1>4 DEF CallsDone, At
    <2>2. /\ k \in RunType /\ k.at = "turn" /\ k.root = run[r].root
          /\ k.aborted = run[r].aborted /\ k.calls = run[r].calls
          /\ k.turns = run[r].turns /\ k.status = run[r].status
      BY <1>1, <1>2 DEF RunType, Places
    <2> HIDE DEF k
    <2> QED
      BY <1>1, <2>1, <2>2, GoOnKeeps
  <1>5. CASE CallCancelled(r)
    BY <1>2, <1>5, EndKeeps DEF CallCancelled, CallsLeft, At
  <1>6. CASE CallOverBudget(r)
    BY <1>2, <1>6, EndKeeps DEF CallOverBudget, CallsLeft, At
  <1>7. CASE CallForeign(r)
    BY <1>2, <1>7, EndKeeps DEF CallForeign, CallMay, At
  <1>8. CASE CallRefused(r)
    <2> DEFINE repaired == run[r].repaired \/ Tool(r) = "stray"
    <2>1. repaired \in BOOLEAN
      BY <1>1
    <2>2. [Called(run[r]) EXCEPT !.repaired = @ \/ Tool(r) = "stray"]
              = [Called(run[r]) EXCEPT !.repaired = repaired]
      BY DEF Called
    <2>3. Becomes(r, [Called(run[r]) EXCEPT !.repaired = repaired])
      BY <1>8, <2>2 DEF CallRefused
    <2> HIDE DEF repaired
    <2> QED
      BY <1>1, <1>8, <2>1, <2>3, CalledKeeps DEF CallRefused, CallMay, At
  <1>9. CASE Proposed(r)
    <2>1. run[r].at = "propose" /\ run[r].todo # <<>>
          /\ UNCHANGED <<approvals, webApproved, questions, session>>
      BY <1>3, <1>9 DEF Proposed, At, InCall
    <2>2. CASE Becomes(r, [Called(run[r]) EXCEPT !.patched = TRUE])
      BY <1>1, <2>1, <2>2, CalledKeeps
    <2>3. CASE Becomes(r, Threw(run[r]))
      BY <1>2, <2>1, <2>3, EndKeeps
    <2> QED
      BY <1>9, <2>2, <2>3 DEF Proposed
  <1>10. CASE WebAborted(r)
    BY <1>1, <1>3, <1>10, CalledKeeps DEF WebAborted, At, InCall
  <1>11. CASE RefuseWeb(r)
    <2>1. /\ Becomes(r, Called(run[r])) /\ run[r].at = "web" /\ run[r].todo # <<>>
          /\ UNCHANGED <<approvals, questions, session>> /\ webApproved' \in BOOLEAN
      BY <1>3, <1>11 DEF RefuseWeb, At, InCall
    <2> QED
      BY <1>1, <2>1, CalledKeeps
  <1> QED
    BY <1>4, <1>5, <1>6, <1>7, <1>8, <1>9, <1>10, <1>11

-----------------------------------------------------------------------------
(* The calls that start a request                                              *)

(* The rest of the invariant, when a step takes care of the requests.          *)
LEMMA RequestsApart ==
    ASSUME IInv, NEW r \in Runs, NEW k, RunBecomes(r, k), k.at # "ask-wait",
           UNCHANGED <<questions, session>>, webApproved' \in BOOLEAN, RequestInv'
    PROVE  IInv'
  <1>1. /\ RunInv' /\ AllGo
        /\ run'[r] = k /\ \A s \in Runs : s # r => run'[s] = run[s]
    BY RunBecomesKeeps DEF IInv
  <1>2. SessionInv'
    BY <1>1, SessionKept DEF IInv
  <1>3. \A s \in Runs : At(s, "ask-wait")' => At(s, "ask-wait")
    BY <1>1 DEF At
  <1>4. QuestionInv'
    BY <1>1, <1>3, QuestionsSeeRuns DEF IInv, questions, QuestionInv, QuestionsTyped
  <1> QED
    BY <1>1, <1>2, <1>4 DEF IInv

(* A call whose number is not used yet: request a, behind it b.                *)
LEMMA CallBegins ==
    ASSUME IInv, NEW r \in Runs, CallMay(r),
           Becomes(r, [Counted(r) EXCEPT !.at = "tool"]),
           NEW a \in {Going, Asking}, NEW b \in {None, Asking}, a = Asking => b = None,
           request' \in [Requests -> RequestType \cup {None}],
           request'[ThisCall(r)] = a, request'[Inner(ThisCall(r))] = b,
           \A q \in Requests : q \notin {ThisCall(r), Inner(ThisCall(r))} =>
               request'[q] = request[q],
           NEW asked \in SUBSET Requests,
           \A q \in Requests : q \in asked <=> \/ q = ThisCall(r) /\ a = Asking
                                               \/ q = Inner(ThisCall(r)) /\ b = Asking,
           listed' = listed \cup asked, resolvers' = resolvers \cup asked,
           UNCHANGED <<webApproved, questions, session>>
    PROVE  IInv'
  <1> DEFINE k == [Counted(r) EXCEPT !.at = "tool"]
             c == ThisCall(r)
             i == Inner(ThisCall(r))
             n == run[r].calls + 1
  <1>1. /\ RunSound(r, k) /\ Goes(run[r], k) /\ k.at = "tool" /\ k.calls = n
        /\ k.root = run[r].root /\ c \in Requests /\ i \in Requests
    <2>1. "tool" \in InCall /\ RunInv
      BY DEF InCall, IInv
    <2> HIDE DEF n
    <2> QED
      BY <2>1, CountedSound DEF n
  <1> USE RequestParts, GoingAndAsking
  <1>2. /\ run[r].calls \in Nat /\ n \in Nat /\ run[r].calls < n /\ run[r].at = "call"
        /\ webApproved' \in BOOLEAN
    <2>1. run[r].calls \in Nat /\ run[r].at = "call" /\ webApproved \in BOOLEAN
      BY RunFacts DEF CallMay, At
    <2> QED
      BY <2>1
  <1>3. c = <<r, n, "direct">> /\ i = <<r, n, "bridged">> /\ c # i
    BY DEF ThisCall, Inner
  <1>4. RunBecomes(r, k)
    BY <1>1 DEF RunBecomes
  <1>5. /\ run'[r] = k /\ \A s \in Runs : s # r => run'[s] = run[s]
    BY <1>4, RunBecomesKeeps DEF IInv
  <1> HIDE DEF k, c, i, n
  <1>6. run[r].root = workspace
    <2>1. r \in Current
      BY <1>2 DEF CallMay, Current, Active
    <2> QED
      BY <2>1 DEF IInv, SessionInv
  <1>7. request[c] = None /\ request[i] = None
    <2>1. ~(n <= run[r].calls)
      BY <1>2
    <2> QED
      BY <1>1, <1>3, <2>1 DEF IInv, RequestInv, RequestsCounted
  <1>8. /\ request'[c] = a /\ request'[i] = b
        /\ \A q \in Requests : q \notin {c, i} => request'[q] = request[q]
        /\ \A q \in Requests : q \in asked <=> (q = c /\ a = Asking) \/ (q = i /\ b = Asking)
    BY DEF c, i
  <1>9. RequestsTyped'
    BY DEF IInv, RequestInv, RequestsTyped
  <1>10. ApprovalsAnswerable'
    <2> SUFFICES ASSUME NEW q \in Requests
                 PROVE  /\ (q \in resolvers') <=> (q \in listed')
                        /\ (q \in resolvers') <=> (request'[q] # None /\ request'[q].at = "asking")
                        /\ q \in listed' => run'[q[1]].root = workspace'
      BY DEF ApprovalsAnswerable, RootOf
    <2>1. run'[q[1]].root = run[q[1]].root /\ workspace' = workspace
      BY <1>1, <1>5 DEF session
    <2>2. CASE q \notin {c, i}
      BY <1>8, <2>1, <2>2 DEF IInv, RequestInv, ApprovalsAnswerable, RootOf
    <2>3. CASE q = c
      <3>1. q \notin resolvers /\ q \notin listed
        BY <1>7, <2>3 DEF IInv, RequestInv, ApprovalsAnswerable
      <3>2. q[1] = r
        BY <1>3, <2>3
      <3>3. q \in asked <=> a = Asking
        BY <1>3, <1>8, <2>3
      <3>4. request'[q] = a
        BY <1>8, <2>3
      <3>5. request'[q] # None /\ request'[q].at = "asking" <=> a = Asking
        BY <3>4
      <3> QED
        BY <1>6, <2>1, <3>1, <3>2, <3>3, <3>5
    <2>4. CASE q = i
      <3>1. q \notin resolvers /\ q \notin listed
        BY <1>7, <2>4 DEF IInv, RequestInv, ApprovalsAnswerable
      <3>2. q[1] = r
        BY <1>3, <2>4
      <3>3. q \in asked <=> b = Asking
        BY <1>3, <1>8, <2>4
      <3>4. request'[q] = b
        BY <1>8, <2>4
      <3>5. request'[q] # None /\ request'[q].at = "asking" <=> b = Asking
        BY <3>4
      <3> QED
        BY <1>6, <2>1, <3>1, <3>2, <3>3, <3>5
    <2> QED
      BY <2>2, <2>3, <2>4
  <1>11. AskingHasNoResult'
    BY <1>8 DEF IInv, RequestInv, AskingHasNoResult
  <1>12. RequestsCounted'
    <2> SUFFICES ASSUME NEW q \in Requests, request'[q] # None
                 PROVE  q[2] <= run'[q[1]].calls
      BY DEF RequestsCounted
    <2>1. CASE q \in {c, i}
      BY <1>1, <1>2, <1>3, <1>5, <2>1
    <2>2. CASE q \notin {c, i}
      <3>1. q[1] \in Runs /\ q[2] \in Nat /\ q[2] <= run[q[1]].calls
        BY <1>8, <2>2 DEF IInv, RequestInv, RequestsCounted
      <3>2. CASE q[1] = r
        BY <1>1, <1>2, <1>5, <3>1, <3>2
      <3>3. CASE q[1] # r
        BY <1>5, <3>1, <3>3
      <3> QED
        BY <3>2, <3>3
    <2> QED
      BY <2>1, <2>2
  <1>13. ToolHasRequest'
    <2> SUFFICES ASSUME NEW s \in Runs, run'[s].at = "tool"
                 PROVE  request'[<<s, run'[s].calls, "direct">>] # None
      BY DEF ToolHasRequest, At, Direct
    <2>1. CASE s = r
      BY <1>1, <1>3, <1>5, <1>8, <2>1
    <2>2. CASE s # r
      <3>1. run'[s] = run[s] /\ request[<<s, run[s].calls, "direct">>] # None
            /\ run[s].at \in InCall
        BY <1>5, <2>2 DEF IInv, RequestInv, ToolHasRequest, At, Direct, InCall
      <3>2. <<s, run[s].calls, "direct">> \in Requests
        BY <3>1, RunFacts DEF RunSound
      <3> QED
        BY <1>3, <1>8, <2>2, <3>1, <3>2
    <2> QED
      BY <2>1, <2>2
  <1>14. WebHasNone'
    <2> SUFFICES ASSUME NEW s \in Runs, run'[s].at = "web"
                 PROVE  request'[<<s, run'[s].calls, "direct">>] = None
      BY DEF WebHasNone, At, Direct
    <2>1. s # r
      BY <1>1, <1>5
    <2>2. run'[s] = run[s] /\ request[<<s, run[s].calls, "direct">>] = None
          /\ run[s].at \in InCall
      BY <1>5, <2>1 DEF IInv, RequestInv, WebHasNone, At, Direct, InCall
    <2>3. <<s, run[s].calls, "direct">> \in Requests
      BY <2>2, RunFacts DEF RunSound
    <2> QED
      BY <1>3, <1>8, <2>1, <2>2, <2>3
  <1>15. \A q \in Requests : Awaited(q) => Awaited(q)'
    BY <1>2, <1>5 DEF Awaited, At
  <1>16. \A q \in {c, i} : Awaited(q)'
    BY <1>1, <1>3, <1>5 DEF Awaited, At
  <1>17. DirectAsking'
    BY <1>8, <1>15, <1>16, <1>3 DEF IInv, RequestInv, DirectAsking
  <1>18. BridgedAsking'
    <2> SUFFICES ASSUME NEW q \in Requests, request'[q] # None, request'[q].at = "asking",
                        q[3] = "bridged"
                 PROVE  LET o == request'[Outer(q)] IN
                        /\ o # None /\ o.at = "going"
                        /\ (o.result = None /\ Awaited(q)') \/ o.result = "timeout"
      BY DEF BridgedAsking, Outer
    <2>1. CASE q = i
      <3>1. Outer(q) = c /\ b = Asking
        BY <1>3, <1>8, <2>1 DEF Outer
      <3>2. a = Going
        BY <3>1
      <3> QED
        BY <1>8, <1>16, <2>1, <3>1, <3>2
    <2>2. CASE q # i
      <3>1. q # c
        BY <1>3
      <3>2. request'[q] = request[q]
        BY <1>8, <2>2, <3>1
      <3>3. LET o == request[Outer(q)] IN
                /\ o # None /\ o.at = "going"
                /\ (o.result = None /\ Awaited(q)) \/ o.result = "timeout"
        BY <3>2 DEF IInv, RequestInv, BridgedAsking
      <3>4. Outer(q) \in Requests /\ Outer(q) # c /\ Outer(q) # i
        BY <1>7, <3>3
      <3>5. request'[Outer(q)] = request[Outer(q)]
        BY <1>8, <3>4
      <3> QED
        BY <1>15, <3>3, <3>5
    <2> QED
      BY <2>1, <2>2
  <1>19. RequestInv'
    BY <1>9, <1>10, <1>11, <1>12, <1>13, <1>14, <1>17, <1>18 DEF RequestInv
  <1> QED
    BY <1>1, <1>2, <1>4, <1>19, RequestsApart

LEMMA CallStepsKeep ==
    ASSUME IInv, NEW r \in Runs, CallReads(r) \/ CallWrites(r) \/ CallBridges(r)
    PROVE  IInv'
  <1> DEFINE c == ThisCall(r)
             i == Inner(ThisCall(r))
  <1>1. /\ CallMay(r) /\ Becomes(r, [Counted(r) EXCEPT !.at = "tool"])
        /\ UNCHANGED <<webApproved, questions, session>>
    BY DEF CallReads, CallWrites, CallBridges
  <1>2. c \in Requests /\ i \in Requests /\ c # i
    <2>1. "tool" \in InCall /\ RunInv
      BY DEF InCall, IInv
    <2>2. c \in Requests /\ i \in Requests
      BY <1>1, <2>1, CountedSound
    <2>3. c[3] = "direct" /\ i[3] = "bridged"
      BY DEF ThisCall, Inner
    <2> QED
      BY <2>2, <2>3
  <1>3. request \in [Requests -> RequestType \cup {None}]
    BY DEF IInv, RequestInv, RequestsTyped
  <1>4. request[i] = None
    <2>1. run[r].calls \in Nat
      BY RunFacts
    <2>2. i[1] = r /\ i[2] = run[r].calls + 1 /\ ~(run[r].calls + 1 <= run[r].calls)
      BY <2>1 DEF ThisCall, Inner
    <2> HIDE DEF i
    <2> QED
      BY <1>2, <2>2 DEF IInv, RequestInv, RequestsCounted
  <1>5. Going # Asking /\ Going # None /\ Asking # None
    BY GoingAndAsking
  <1> HIDE DEF c, i
  <1>6. CASE CallReads(r)
    <2>1. /\ request' = [request EXCEPT ![c] = Going] /\ UNCHANGED <<listed, resolvers>>
      BY <1>6 DEF CallReads, c
    <2>2. /\ request' \in [Requests -> RequestType \cup {None}]
          /\ request'[c] = Going /\ request'[i] = None
          /\ \A q \in Requests : q \notin {c, i} => request'[q] = request[q]
      BY <1>2, <1>3, <1>4, <2>1, GoingAndAsking
    <2>3. /\ listed' = listed \cup {} /\ resolvers' = resolvers \cup {}
          /\ \A q \in Requests : q \in {} <=> (q = c /\ Going = Asking) \/ (q = i /\ None = Asking)
      BY <1>5, <2>1
    <2>4. {} \in SUBSET Requests
      OBVIOUS
    <2> QED
      BY <1>1, <1>5, <2>2, <2>3, <2>4, CallBegins DEF c, i
  <1>7. CASE CallWrites(r)
    <2>1. /\ request' = [request EXCEPT ![c] = Asking]
          /\ listed' = listed \cup {c} /\ resolvers' = resolvers \cup {c}
      BY <1>7 DEF CallWrites, Asks, c
    <2>2. /\ request' \in [Requests -> RequestType \cup {None}]
          /\ request'[c] = Asking /\ request'[i] = None
          /\ \A q \in Requests : q \notin {c, i} => request'[q] = request[q]
      BY <1>2, <1>3, <1>4, <2>1, GoingAndAsking
    <2>3. \A q \in Requests : q \in {c} <=> (q = c /\ Asking = Asking) \/ (q = i /\ None = Asking)
      BY <1>5
    <2>4. {c} \in SUBSET Requests
      BY <1>2
    <2> QED
      BY <1>1, <1>5, <2>1, <2>2, <2>3, <2>4, CallBegins DEF c, i
  <1>8. CASE CallBridges(r)
    <2>1. /\ request' = [request EXCEPT ![c] = Going, ![i] = Asking]
          /\ listed' = listed \cup {i} /\ resolvers' = resolvers \cup {i}
      BY <1>8 DEF CallBridges, Asks, c, i
    <2>2. /\ request' \in [Requests -> RequestType \cup {None}]
          /\ request'[c] = Going /\ request'[i] = Asking
          /\ \A q \in Requests : q \notin {c, i} => request'[q] = request[q]
      BY <1>2, <1>3, <2>1, GoingAndAsking
    <2>3. \A q \in Requests :
              q \in {i} <=> (q = c /\ Going = Asking) \/ (q = i /\ Asking = Asking)
      BY <1>5
    <2>4. {i} \in SUBSET Requests
      BY <1>2
    <2> QED
      BY <1>1, <1>5, <2>1, <2>2, <2>3, <2>4, CallBegins DEF c, i
  <1> QED
    BY <1>6, <1>7, <1>8

(* A call that waits for the user before it has a request.                     *)
LEMMA CallWaitsKeep ==
    ASSUME IInv, NEW r \in Runs, CallAsksForWeb(r) \/ CallAsksUser(r)
    PROVE  IInv'
  <1>1. /\ CallMay(r) /\ UNCHANGED <<approvals, webApproved, questions, session>>
        /\ run[r].at = "call" /\ RunInv /\ webApproved' \in BOOLEAN
    BY RunFacts DEF CallAsksForWeb, CallAsksUser, CallMay, At, IInv
  <1>2. PICK at \in {"web", "ask-write"} : Becomes(r, [Counted(r) EXCEPT !.at = at])
    BY DEF CallAsksForWeb, CallAsksUser
  <1>3. at \in InCall
    BY DEF InCall
  <1> DEFINE k == [Counted(r) EXCEPT !.at = at]
  <1>4. /\ RunSound(r, k) /\ Goes(run[r], k) /\ k.at = at /\ k.calls = run[r].calls + 1
        /\ ThisCall(r) \in Requests
    BY <1>1, <1>3, CountedSound
  <1>5. RunBecomes(r, k)
    BY <1>2, <1>4 DEF RunBecomes
  <1>6. /\ RunInv' /\ AllGo
        /\ run'[r] = k /\ \A s \in Runs : s # r => run'[s] = run[s]
    BY <1>1, <1>5, RunBecomesKeeps
  <1> HIDE DEF k
  <1>7. request[<<r, k.calls, "direct">>] = None
    <2>1. ThisCall(r) = <<r, k.calls, "direct">>
      BY <1>4 DEF ThisCall
    <2>2. run[r].calls \in Nat
      BY RunFacts
    <2>3. ~(run[r].calls + 1 <= run[r].calls)
      BY <2>2
    <2>4. ThisCall(r)[1] = r /\ ThisCall(r)[2] = run[r].calls + 1
      BY DEF ThisCall
    <2> QED
      BY <1>4, <2>1, <2>3, <2>4 DEF IInv, RequestInv, RequestsCounted
  <1>8. /\ \A s \in Runs : At(s, "tool")' <=> At(s, "tool")
        /\ \A s \in Runs : At(s, "tool") => run'[s].calls = run[s].calls
        /\ \A s \in Runs : At(s, "web")' => request[Direct(s)'] = None
    BY <1>1, <1>4, <1>6, <1>7 DEF At, Direct, IInv, RequestInv, WebHasNone
  <1>9. RequestInv'
    BY <1>1, <1>6, <1>8, RequestsSeeRuns DEF IInv, session
  <1> QED
    BY <1>1, <1>4, <1>5, <1>9, RequestsApart

-----------------------------------------------------------------------------
(* The ends of requests                                                        *)

LEMMA ToolReturnsKeeps == ASSUME IInv, NEW r \in Runs, ToolReturns(r) PROVE IInv'
  <1> DEFINE c == Direct(r)
  <1>1. /\ run[r].at = "tool" /\ run[r] \in RunType /\ RunSound(r, run[r]) /\ run[r].todo # <<>>
        /\ run[r].calls \in Nat /\ run[r].calls > 0 /\ run[r].calls <= MaxToolCalls[r]
        /\ webApproved' \in BOOLEAN
    BY RunFacts DEF ToolReturns, At, RunSound, InCall
  <1>2. PICK k : RunBecomes(r, k) /\ k.at \in {"propose", "ended", "call"}
    <2>1. CASE Goto(r, "propose")
      <3> DEFINE k == [run[r] EXCEPT !.at = "propose"]
      <3>1. "propose" \in Places \ {"idle", "ended"} /\ "tool" \in InCall
        BY DEF Places, InCall
      <3>2. RunSound(r, k) /\ Goes(run[r], k) /\ k.at = "propose"
        BY <1>1, <3>1, PlaceSound
      <3>3. Becomes(r, k)
        BY <2>1 DEF Goto
      <3> HIDE DEF k
      <3> QED
        BY <3>2, <3>3 DEF RunBecomes
    <2>2. CASE Becomes(r, Threw(run[r]))
      BY <1>1, <2>2, ThrewSound, GoesToTheEnd DEF RunBecomes
    <2>3. CASE Becomes(r, Called(run[r]))
      <3>1. TRUE \in BOOLEAN
        OBVIOUS
      <3> QED
        BY <1>1, <2>3, <3>1, CalledSound DEF RunBecomes
    <2> QED
      BY <2>1, <2>2, <2>3 DEF ToolReturns
  <1>3. /\ run'[r] = k /\ \A s \in Runs : s # r => run'[s] = run[s]
        /\ \A s \in Runs : Goes(run[s], run'[s])
        /\ \A s \in Runs : run[s].calls \in Nat /\ run'[s].calls \in Nat
    BY <1>2, RunBecomesKeeps DEF IInv, AllGo, RunInv, RunType
  <1>4. c = <<r, run[r].calls, "direct">> /\ c \in Requests
    BY <1>1, RequestParts DEF Direct
  <1> HIDE DEF c
  <1>5. request[c] # None /\ request[c].result # None
    BY <1>1 DEF ToolReturns, c, IInv, RequestInv, ToolHasRequest, At
  <1>6. request[c].at # "asking"
    BY <1>4, <1>5 DEF IInv, RequestInv, AskingHasNoResult
  <1>7. request \in [Requests -> RequestType \cup {None}]
    BY DEF IInv, RequestInv, RequestsTyped
  <1>8. /\ request'[c] \in {request[c], None}
        /\ request[c].at = "going" => request'[c] = request[c]
        /\ request' \in [Requests -> RequestType \cup {None}]
        /\ \A q \in Requests : q # c => request'[q] = request[q]
    BY <1>4, <1>7 DEF ToolReturns, c
  <1>9. UNCHANGED <<listed, resolvers, workspace>>
    BY DEF ToolReturns, session
  <1>10. RequestsTyped'
    BY <1>8, <1>9 DEF IInv, RequestInv, RequestsTyped
  <1>11. ApprovalsAnswerable'
    <2>1. \A q \in Requests : RootOf(q) = workspace => RootOf(q)' = workspace
      BY <1>3, RequestParts DEF RootOf, Goes
    <2> QED
      BY <1>6, <1>8, <1>9, <2>1 DEF IInv, RequestInv, ApprovalsAnswerable
  <1>12. AskingHasNoResult'
    BY <1>6, <1>8 DEF IInv, RequestInv, AskingHasNoResult
  <1>13. RequestsCounted'
    <2> SUFFICES ASSUME NEW q \in Requests, request'[q] # None
                 PROVE  q[2] <= run'[q[1]].calls
      BY DEF RequestsCounted
    <2>1. q[1] \in Runs /\ q[2] \in Nat /\ q[2] <= run[q[1]].calls
      BY <1>8, RequestParts DEF IInv, RequestInv, RequestsCounted
    <2>2. run[q[1]].calls <= run'[q[1]].calls
      BY <1>3, <2>1 DEF Goes
    <2> QED
      BY <1>3, <2>1, <2>2
  <1>14. \A s \in Runs : s # r /\ run[s].at \in InCall =>
             /\ <<s, run[s].calls, "direct">> \in Requests
             /\ request'[<<s, run[s].calls, "direct">>] = request[<<s, run[s].calls, "direct">>]
    <2> SUFFICES ASSUME NEW s \in Runs, s # r, run[s].at \in InCall
                 PROVE  /\ <<s, run[s].calls, "direct">> \in Requests
                        /\ request'[<<s, run[s].calls, "direct">>]
                               = request[<<s, run[s].calls, "direct">>]
      OBVIOUS
    <2>1. run[s].calls \in Nat /\ run[s].calls > 0 /\ run[s].calls <= MaxToolCalls[s]
      BY RunFacts DEF RunSound
    <2>2. <<s, run[s].calls, "direct">> \in Requests
      BY <2>1, RequestParts
    <2> QED
      BY <1>4, <1>8, <2>2
  <1>15. ToolHasRequest' /\ WebHasNone'
    <2>1. "tool" \in InCall /\ "web" \in InCall
      BY DEF InCall
    <2> SUFFICES ASSUME NEW s \in Runs
                 PROVE  /\ run'[s].at = "tool" => request'[<<s, run'[s].calls, "direct">>] # None
                        /\ run'[s].at = "web" => request'[<<s, run'[s].calls, "direct">>] = None
      BY DEF ToolHasRequest, WebHasNone, At, Direct
    <2>2. CASE s = r
      BY <1>2, <1>3, <2>2
    <2>3. CASE s # r
      BY <1>3, <1>14, <2>1, <2>3 DEF IInv, RequestInv, ToolHasRequest, WebHasNone, At, Direct
    <2> QED
      BY <2>2, <2>3
  <1>16. \A q \in Requests : Awaited(q) /\ q[1] # r => Awaited(q)'
    BY <1>3, RequestParts DEF Awaited, At
  <1>17. \A q \in Requests : Awaited(q) /\ q[1] = r => Outer(q) = c
    BY <1>4 DEF Awaited, Outer
  <1>18. DirectAsking'
    <2> SUFFICES ASSUME NEW q \in Requests, request'[q] # None, request'[q].at = "asking",
                        q[3] = "direct"
                 PROVE  Awaited(q)'
      BY DEF DirectAsking
    <2>1. q # c /\ request'[q] = request[q]
      BY <1>6, <1>8
    <2>2. Awaited(q)
      BY <2>1 DEF IInv, RequestInv, DirectAsking
    <2>3. Outer(q) = q
      BY RequestParts DEF Outer
    <2> QED
      BY <1>16, <1>17, <2>1, <2>2, <2>3
  <1>19. BridgedAsking'
    <2> SUFFICES ASSUME NEW q \in Requests, request'[q] # None, request'[q].at = "asking",
                        q[3] = "bridged"
                 PROVE  LET o == request'[Outer(q)] IN
                        /\ o # None /\ o.at = "going"
                        /\ (o.result = None /\ Awaited(q)') \/ o.result = "timeout"
      BY DEF BridgedAsking, Outer
    <2>1. request'[q] = request[q]
      BY <1>6, <1>8
    <2>2. LET o == request[Outer(q)] IN
              /\ o # None /\ o.at = "going"
              /\ (o.result = None /\ Awaited(q)) \/ o.result = "timeout"
      BY <2>1 DEF IInv, RequestInv, BridgedAsking
    <2>3. Outer(q) \in Requests
      BY RequestParts
    <2>4. request'[Outer(q)] = request[Outer(q)]
      BY <1>8, <2>2, <2>3
    <2>5. Outer(q) = c => request[Outer(q)].result # None
      BY <1>5
    <2> QED
      BY <1>16, <1>17, <2>2, <2>4, <2>5
  <1>20. RequestInv'
    BY <1>10, <1>11, <1>12, <1>13, <1>15, <1>18, <1>19 DEF RequestInv
  <1>21. UNCHANGED <<questions, session>>
    BY DEF ToolReturns
  <1> QED
    BY <1>1, <1>2, <1>20, <1>21, RequestsApart

(* The user allows the web: the call's request begins.                         *)
LEMMA AllowWebKeeps == ASSUME IInv, NEW r \in Runs, AllowWeb(r) PROVE IInv'
  <1> DEFINE c == Direct(r)
             k == [run[r] EXCEPT !.at = "tool"]
  <1>1. /\ run[r].at = "web" /\ run[r] \in RunType /\ RunSound(r, run[r])
        /\ run[r].calls \in Nat /\ run[r].calls > 0 /\ run[r].calls <= MaxToolCalls[r]
        /\ UNCHANGED <<listed, resolvers, questions, session>>
        /\ request' = [request EXCEPT ![c] = Going] /\ Becomes(r, k)
    BY RunFacts DEF AllowWeb, At, RunSound, InCall
  <1>2. webApproved' = TRUE /\ webApproved' \in BOOLEAN
    BY DEF AllowWeb
  <1>3. RunBecomes(r, k) /\ k.at = "tool" /\ k.calls = run[r].calls
    <2>1. "tool" \in Places \ {"idle", "ended"} /\ "web" \in InCall
      BY DEF Places, InCall
    <2>2. RunSound(r, k) /\ Goes(run[r], k) /\ k.at = "tool" /\ k.calls = run[r].calls
      BY <1>1, <2>1, PlaceSound
    <2> QED
      BY <1>1, <2>2 DEF RunBecomes
  <1> HIDE DEF k
  <1>4. /\ run'[r] = k /\ \A s \in Runs : s # r => run'[s] = run[s]
        /\ \A s \in Runs : Goes(run[s], run'[s]) /\ run'[s].calls = run[s].calls
    BY <1>3, RunBecomesKeeps DEF IInv, AllGo
  <1>5. c = <<r, run[r].calls, "direct">> /\ c \in Requests
    BY <1>1, RequestParts DEF Direct
  <1> HIDE DEF c
  <1>6. request[c] = None
    BY <1>1 DEF c, IInv, RequestInv, WebHasNone, At
  <1>7. request \in [Requests -> RequestType \cup {None}]
    BY DEF IInv, RequestInv, RequestsTyped
  <1>8. /\ request'[c] = Going
        /\ request' \in [Requests -> RequestType \cup {None}]
        /\ \A q \in Requests : q # c => request'[q] = request[q]
    BY <1>1, <1>5, <1>7, GoingAndAsking
  <1>9. \A q \in Requests :
            request'[q] # None /\ request'[q].at = "asking" <=>
                request[q] # None /\ request[q].at = "asking"
    BY <1>6, <1>8, GoingAndAsking
  <1>10. RequestsTyped' /\ AskingHasNoResult'
    BY <1>1, <1>8, GoingAndAsking DEF IInv, RequestInv, RequestsTyped, AskingHasNoResult
  <1>11. ApprovalsAnswerable'
    <2>1. \A q \in Requests : RootOf(q) = workspace => RootOf(q)' = workspace
      BY <1>4, RequestParts DEF RootOf, Goes
    <2> QED
      BY <1>1, <1>9, <2>1 DEF IInv, RequestInv, ApprovalsAnswerable, session
  <1>12. RequestsCounted'
    <2> SUFFICES ASSUME NEW q \in Requests, request'[q] # None
                 PROVE  q[2] <= run'[q[1]].calls
      BY DEF RequestsCounted
    <2>1. CASE q = c
      BY <1>1, <1>4, <1>5, <2>1
    <2>2. CASE q # c
      BY <1>4, <1>8, <2>2, RequestParts DEF IInv, RequestInv, RequestsCounted
    <2> QED
      BY <2>1, <2>2
  <1>13. ToolHasRequest' /\ WebHasNone'
    <2> SUFFICES ASSUME NEW s \in Runs
                 PROVE  /\ run'[s].at = "tool" => request'[<<s, run'[s].calls, "direct">>] # None
                        /\ run'[s].at = "web" => request'[<<s, run'[s].calls, "direct">>] = None
      BY DEF ToolHasRequest, WebHasNone, At, Direct
    <2>1. CASE s = r
      BY <1>3, <1>4, <1>5, <1>8, <2>1, GoingAndAsking
    <2>2. CASE s # r
      <3>1. run'[s] = run[s]
        BY <1>4, <2>2
      <3>2. run[s].at \in {"tool", "web"} => <<s, run[s].calls, "direct">> \in Requests
        BY RunFacts, RequestParts DEF RunSound, InCall
      <3>3. run[s].at \in {"tool", "web"} =>
                request'[<<s, run[s].calls, "direct">>] = request[<<s, run[s].calls, "direct">>]
        BY <1>5, <1>8, <2>2, <3>2
      <3> QED
        BY <3>1, <3>3 DEF IInv, RequestInv, ToolHasRequest, WebHasNone, At, Direct
    <2> QED
      BY <2>1, <2>2
  <1>14. \A q \in Requests : Awaited(q) => Awaited(q)'
    BY <1>1, <1>3, <1>4, RequestParts DEF Awaited, At
  <1>15. DirectAsking'
    BY <1>8, <1>14, GoingAndAsking DEF IInv, RequestInv, DirectAsking
  <1>16. BridgedAsking'
    <2> SUFFICES ASSUME NEW q \in Requests, request'[q] # None, request'[q].at = "asking",
                        q[3] = "bridged"
                 PROVE  LET o == request'[Outer(q)] IN
                        /\ o # None /\ o.at = "going"
                        /\ (o.result = None /\ Awaited(q)') \/ o.result = "timeout"
      BY DEF BridgedAsking, Outer
    <2>1. LET o == request[Outer(q)] IN
              /\ o # None /\ o.at = "going"
              /\ (o.result = None /\ Awaited(q)) \/ o.result = "timeout"
      BY <1>9 DEF IInv, RequestInv, BridgedAsking
    <2>2. Outer(q) \in Requests /\ Outer(q) # c
      BY <1>6, <2>1, RequestParts
    <2>3. request'[Outer(q)] = request[Outer(q)]
      BY <1>8, <2>2
    <2> QED
      BY <1>14, <2>1, <2>3
  <1>17. RequestInv'
    BY <1>10, <1>11, <1>12, <1>13, <1>15, <1>16 DEF RequestInv
  <1> QED
    BY <1>1, <1>2, <1>3, <1>17, RequestsApart

(* Steps of the executor, the user and the session by which no request begins  *)
(* and nobody else waits for the user.                                         *)
LEMMA AskingShrinks ==
    ASSUME RunInv, RequestInv,
           \A s \in Runs : /\ run'[s].at = run[s].at /\ run'[s].calls = run[s].calls
                           /\ run'[s].root = run[s].root,
           request' \in [Requests -> RequestType \cup {None}],
           listed' = resolvers', resolvers' \subseteq resolvers,
           \A q \in Requests : q \in resolvers' <=> request'[q] # None /\ request'[q].at = "asking",
           \A q \in resolvers' : request'[q] = request[q] /\ RootOf(q) = workspace',
           \A q \in Requests : request'[q] # None => request[q] # None,
           \A q \in Requests : Awaited(q) /\ q[3] = "direct" /\ request[q] # None =>
               request'[q] # None,
           \A q \in resolvers' : q[3] = "bridged" =>
               /\ request'[Outer(q)] # None /\ request'[Outer(q)].at = "going"
               /\ request'[Outer(q)].result \in {request[Outer(q)].result, "timeout"}
    PROVE  RequestInv'
  <1> USE RequestParts
  <1>1. RequestsTyped'
    BY DEF RequestInv, RequestsTyped
  <1>2. ApprovalsAnswerable'
    BY DEF ApprovalsAnswerable, RootOf
  <1>3. AskingHasNoResult'
    BY DEF RequestInv, AskingHasNoResult, ApprovalsAnswerable
  <1>4. RequestsCounted'
    BY DEF RequestInv, RequestsCounted
  <1>5. ToolHasRequest'
    <2> SUFFICES ASSUME NEW s \in Runs, At(s, "tool") PROVE request'[Direct(s)] # None
      BY DEF ToolHasRequest, Direct, At
    <2>1. /\ run[s].calls \in Nat /\ run[s].calls > 0 /\ run[s].calls <= MaxToolCalls[s]
      BY DEF RunInv, RunSound, RunType, At, InCall
    <2>2. Direct(s) \in Requests
      BY <2>1 DEF Direct
    <2>3. request[Direct(s)] # None
      BY DEF RequestInv, ToolHasRequest
    <2>4. Awaited(Direct(s)) /\ Direct(s)[3] = "direct"
      BY DEF Awaited, Direct
    <2> QED
      BY <2>2, <2>3, <2>4
  <1>6. WebHasNone'
    <2> SUFFICES ASSUME NEW s \in Runs, At(s, "web") PROVE request'[Direct(s)] = None
      BY DEF WebHasNone, Direct, At
    <2>1. /\ run[s].calls \in Nat /\ run[s].calls > 0 /\ run[s].calls <= MaxToolCalls[s]
      BY DEF RunInv, RunSound, RunType, At, InCall
    <2>2. Direct(s) \in Requests
      BY <2>1 DEF Direct
    <2> QED
      BY <2>2 DEF RequestInv, WebHasNone
  <1>7. \A q \in Requests : Awaited(q)' <=> Awaited(q)
    BY DEF Awaited, At
  <1>8. DirectAsking'
    BY <1>7 DEF RequestInv, DirectAsking
  <1>9. BridgedAsking'
    BY <1>7 DEF RequestInv, BridgedAsking, Outer
  <1> QED
    BY <1>1, <1>2, <1>3, <1>4, <1>5, <1>6, <1>8, <1>9 DEF RequestInv

LEMMA RequestsOnly ==
    ASSUME IInv, UNCHANGED <<run, webApproved, questions, session>>, RequestInv'
    PROVE  IInv'
  <1>1. RunInv' /\ AllGo
    BY GoesByStaying DEF IInv
  <1>2. SessionInv'
    BY <1>1, SessionKept DEF IInv, SessionInv
  <1>3. QuestionInv'
    BY <1>1, QuestionsSeeRuns DEF IInv, questions, QuestionInv, QuestionsTyped, At
  <1> QED
    BY <1>1, <1>2, <1>3 DEF IInv

LEMMA ResolversAreListed ==
    RequestInv => /\ listed = resolvers /\ listed \subseteq Requests
                  /\ \A q \in resolvers : /\ request[q] # None /\ request[q].at = "asking"
                                          /\ request[q].result = None /\ RootOf(q) = workspace
  BY DEF RequestInv, RequestsTyped, ApprovalsAnswerable, AskingHasNoResult

(* A request behind a bridge waits for the user: its outer request goes on.    *)
LEMMA OuterGoes ==
    ASSUME RequestInv, NEW q \in resolvers, q[3] = "bridged"
    PROVE  /\ Outer(q) \in Requests /\ Outer(q) \notin resolvers
           /\ request[Outer(q)] # None /\ request[Outer(q)].at = "going"
           /\ Inner(Outer(q)) = q
  <1>1. q \in Requests /\ request[q] # None /\ request[q].at = "asking"
    BY ResolversAreListed
  <1>2. Outer(q) \in Requests /\ Inner(Outer(q)) = q
    BY <1>1, RequestParts DEF Inner, Outer
  <1>3. request[Outer(q)] # None /\ request[Outer(q)].at = "going"
    BY <1>1 DEF RequestInv, BridgedAsking
  <1> QED
    BY <1>2, <1>3, ResolversAreListed

LEMMA TimesOutKeeps == ASSUME IInv, NEW q \in Requests, TimesOut(q) PROVE IInv'
  <1> DEFINE v == [at |-> "going", result |-> "timeout"]
  <1>1. v \in RequestType /\ v.at = "going" /\ v.result = "timeout" /\ v # None
    BY NoneAssumption DEF RequestType
  <1>2. /\ request' = [request EXCEPT ![q] = v]
        /\ request[q] # None /\ request[q].at = "going"
        /\ UNCHANGED <<run, listed, resolvers, webApproved, questions, session>>
    BY DEF TimesOut, Settle, Settled
  <1> HIDE DEF v
  <1>3. /\ request' \in [Requests -> RequestType \cup {None}]
        /\ request'[q] = v /\ \A p \in Requests : p # q => request'[p] = request[p]
    BY <1>1, <1>2 DEF IInv, RequestInv, RequestsTyped
  <1>4. q \notin resolvers /\ UNCHANGED workspace
    BY <1>2, ResolversAreListed DEF IInv, session
  <1>5. RequestInv'
    BY <1>1, <1>2, <1>3, <1>4, ResolversAreListed, OuterGoes, AskingShrinks, RequestParts
    DEF IInv, RequestInv, ApprovalsAnswerable
  <1> QED
    BY <1>2, <1>5, RequestsOnly

LEMMA OperationEndsKeeps == ASSUME IInv, NEW q \in Requests, OperationEnds(q) PROVE IInv'
  <1> DEFINE i == Inner(q)
  <1>1. PICK result \in {"ok", "error", "timeout", None} :
          request' = [request EXCEPT
              ![q] = IF q[3] = "direct" /\ ~Awaited(q) THEN None
                     ELSE IF result = "ok" THEN Settled(q, "done", "ok")
                     ELSE Settled(q, "failed", "error"),
              ![i] = IF q[3] = "direct" /\ @ # None /\ @.at # "going" THEN None ELSE @]
    <2>1. IsBridge(q) => request[i] # None /\ request[i].result \in {"ok", "error", "timeout", None}
      BY RequestParts DEF IsBridge, IInv, RequestInv, RequestsTyped, RequestType
    <2> QED
      BY <2>1 DEF OperationEnds
  <1>2. /\ request[q] # None /\ request[q].at = "going" /\ request[q] \in RequestType
        /\ UNCHANGED <<run, listed, resolvers, webApproved, questions, session>>
        /\ IsBridge(q) => request[i].result # None
        /\ request \in [Requests -> RequestType \cup {None}]
    BY DEF OperationEnds, IInv, RequestInv, RequestsTyped
  <1>3. i \in Requests /\ (q[3] = "bridged" => i = q) /\ (q[3] = "direct" => i # q)
        /\ q[3] \in {"direct", "bridged"} /\ i[3] = "bridged"
    BY RequestParts DEF Inner
  <1>4. \A at \in {"done", "failed"}, re \in {"ok", "error"} :
            /\ Settled(q, at, re) \in RequestType
            /\ Settled(q, at, re).at = at /\ Settled(q, at, re) # None
    BY <1>2, NoneAssumption DEF Settled, RequestType
  <1> DEFINE a == IF q[3] = "direct" /\ ~Awaited(q) THEN None
                  ELSE IF result = "ok" THEN Settled(q, "done", "ok")
                  ELSE Settled(q, "failed", "error")
             b == IF q[3] = "direct" /\ request[i] # None /\ request[i].at # "going" THEN None
                  ELSE request[i]
  <1>5. /\ a \in RequestType \cup {None}
        /\ a # None => a.at # "asking"
        /\ a = None => q[3] = "direct" /\ ~Awaited(q)
    BY <1>4
  <1>6. /\ b \in {request[i], None} /\ b \in RequestType \cup {None}
        /\ q[3] = "direct" /\ request[i] # None /\ request[i].at = "going" => b = request[i]
    BY <1>2, <1>3
  <1>7. CASE q[3] = "direct"
    <2>1. request' = [request EXCEPT ![q] = a, ![i] = b]
      BY <1>1, <1>2, <1>3, <1>7
    <2> HIDE DEF a, b, i
    <2>2. /\ request' \in [Requests -> RequestType \cup {None}]
          /\ request'[q] = a /\ request'[i] = b
          /\ \A p \in Requests : p \notin {q, i} => request'[p] = request[p]
      BY <1>2, <1>3, <1>5, <1>6, <1>7, <2>1
    <2>3. q \notin resolvers /\ i \notin resolvers
      <3>1. request[i] # None => request[i].result # None
        BY <1>2, <1>7 DEF IsBridge, i
      <3> QED
        BY <1>2, <3>1, ResolversAreListed DEF IInv
    <2>4. \A p \in resolvers : p[3] = "bridged" => Outer(p) \notin {q, i}
      <3> SUFFICES ASSUME NEW p \in resolvers, p[3] = "bridged" PROVE Outer(p) \notin {q, i}
        OBVIOUS
      <3>1. Outer(p) = q => i = p
        BY OuterGoes DEF IInv, i
      <3>2. Outer(p)[3] = "direct"
        BY DEF Outer
      <3> QED
        BY <1>3, <2>3, <3>1, <3>2
    <2>5. RequestInv'
      <3>1. \A p \in Requests : p \in resolvers' <=> request'[p] # None /\ request'[p].at = "asking"
        <4> SUFFICES ASSUME NEW p \in Requests
                     PROVE  p \in resolvers <=> request'[p] # None /\ request'[p].at = "asking"
          BY <1>2
        <4>1. CASE p = q
          BY <1>5, <2>2, <2>3, <4>1
        <4>2. CASE p = i
          BY <1>6, <2>2, <2>3, <4>2, <1>3 DEF IInv, RequestInv, ApprovalsAnswerable
        <4>3. CASE p \notin {q, i}
          BY <2>2, <4>3 DEF IInv, RequestInv, ApprovalsAnswerable
        <4> QED
          BY <4>1, <4>2, <4>3
      <3>2. \A p \in resolvers' : request'[p] = request[p] /\ RootOf(p) = workspace'
        BY <1>2, <2>2, <2>3, ResolversAreListed DEF IInv, session
      <3>3. \A p \in Requests : request'[p] # None => request[p] # None
        BY <1>2, <1>6, <2>2
      <3>4. \A p \in Requests : Awaited(p) /\ p[3] = "direct" /\ request[p] # None =>
                request'[p] # None
        BY <1>3, <1>5, <2>2
      <3>5. \A p \in resolvers' : p[3] = "bridged" =>
               /\ request'[Outer(p)] # None /\ request'[Outer(p)].at = "going"
               /\ request'[Outer(p)].result \in {request[Outer(p)].result, "timeout"}
        BY <1>2, <2>2, <2>4, OuterGoes DEF IInv
      <3>6. listed' = resolvers' /\ resolvers' \subseteq resolvers
        BY <1>2, ResolversAreListed DEF IInv
      <3> QED
        BY <1>2, <2>2, <3>1, <3>2, <3>3, <3>4, <3>5, <3>6, AskingShrinks DEF IInv
    <2> QED
      BY <1>2, <2>5, RequestsOnly
  <1>8. CASE q[3] = "bridged"
    <2>1. request' = [request EXCEPT
              ![q] = a,
              ![i] = IF q[3] = "direct" /\ @ # None /\ @.at # "going" THEN None ELSE @]
      <3> HIDE DEF a, i
      <3> QED
        BY <1>1 DEF a
    <2>2. /\ request' \in [Requests -> RequestType \cup {None}]
          /\ request'[q] = a /\ \A p \in Requests : p # q => request'[p] = request[p]
      <3> HIDE DEF a, i
      <3>1. i = q /\ q[3] # "direct"
        BY <1>3, <1>8
      <3> QED
        BY <1>2, <1>5, <2>1, <3>1
    <2>3. q \notin resolvers /\ UNCHANGED workspace /\ a # None /\ a.at # "asking"
      BY <1>2, <1>5, <1>8, ResolversAreListed DEF IInv, session
    <2> HIDE DEF a, b, i
    <2>4. \A p \in Requests : Outer(p) # q
      BY <1>8 DEF Outer
    <2>5. RequestInv'
      BY <1>2, <2>2, <2>3, <2>4, ResolversAreListed, OuterGoes, AskingShrinks
      DEF IInv, RequestInv, ApprovalsAnswerable
    <2> QED
      BY <1>2, <2>5, RequestsOnly
  <1> QED
    BY <1>3, <1>7, <1>8

-----------------------------------------------------------------------------
(* The user's decisions, and the ends of the session                           *)

LEMMA DecidedKeeps ==
    ASSUME IInv, NEW q \in resolvers, NEW v \in RequestType, v.at # "asking",
           listed' = listed \ {q}, resolvers' = resolvers \ {q},
           request' = [request EXCEPT ![q] = v],
           UNCHANGED <<run, webApproved, questions, session>>
    PROVE  IInv'
  <1>1. /\ q \in Requests /\ v # None
        /\ request \in [Requests -> RequestType \cup {None}]
        /\ listed = resolvers /\ request[q] # None /\ UNCHANGED workspace
    BY ResolversAreListed, NoneAssumption DEF IInv, RequestInv, RequestsTyped, session
  <1>2. /\ request' \in [Requests -> RequestType \cup {None}]
        /\ request'[q] = v /\ \A p \in Requests : p # q => request'[p] = request[p]
    BY <1>1
  <1>3. RequestInv'
    <2>1. \A p \in Requests : p \in resolvers' <=> request'[p] # None /\ request'[p].at = "asking"
      BY <1>1, <1>2 DEF IInv, RequestInv, ApprovalsAnswerable
    <2>2. \A p \in resolvers' : request'[p] = request[p] /\ RootOf(p) = workspace'
      BY <1>1, <1>2, ResolversAreListed DEF IInv
    <2>3. \A p \in Requests : request'[p] # None <=> request[p] # None
      BY <1>1, <1>2
    <2>4. \A p \in resolvers' : p[3] = "bridged" =>
               /\ request'[Outer(p)] # None /\ request'[Outer(p)].at = "going"
               /\ request'[Outer(p)].result \in {request[Outer(p)].result, "timeout"}
      BY <1>2, OuterGoes DEF IInv
    <2> QED
      BY <1>1, <1>2, <2>1, <2>2, <2>3, <2>4, AskingShrinks DEF IInv
  <1> QED
    BY <1>3, RequestsOnly

LEMMA DecisionsKeep ==
    ASSUME IInv, NEW q \in Requests, ApproveTool(q) \/ RejectTool(q) PROVE IInv'
  <1>1. /\ q \in resolvers /\ listed' = listed \ {q} /\ resolvers' = resolvers \ {q}
        /\ UNCHANGED <<run, webApproved, questions, session>>
    BY ResolversAreListed DEF ApproveTool, RejectTool, CanDecide, IInv
  <1>2. CASE ApproveTool(q)
    <2>1. request' = [request EXCEPT ![q] = Going]
      BY <1>1, <1>2 DEF ApproveTool
    <2> QED
      BY <1>1, <2>1, GoingAndAsking, DecidedKeeps
  <1>3. CASE RejectTool(q)
    <2>1. request' = [request EXCEPT ![q] = Settled(q, "denied", "error")]
      BY <1>1, <1>3 DEF RejectTool, Settle
    <2>2. request[q].result = None
      BY <1>1, ResolversAreListed DEF IInv
    <2>3. Settled(q, "denied", "error") \in RequestType
          /\ Settled(q, "denied", "error").at # "asking"
      BY <2>2 DEF Settled, RequestType
    <2> QED
      BY <1>1, <2>1, <2>3, DecidedKeeps
  <1> QED
    BY <1>2, <1>3

(* The signal that the active run is to end.                                   *)
LEMMA LeftKeeps ==
    ASSUME RunInv, RunLeft
    PROVE  /\ RunInv' /\ AllGo /\ Current' = {}
           /\ \A s \in Runs : /\ run'[s].at = run[s].at /\ run'[s].calls = run[s].calls
                              /\ run'[s].root = run[s].root
                              /\ run'[s].at = "ask-wait" => run'[s].aborted
  <1> DEFINE left(s) == [run[s] EXCEPT !.aborted = TRUE]
  <1>1. \A s \in Runs : run[s] \in RunType /\ RunSound(s, run[s]) /\ run[s].calls \in Nat
    BY DEF RunInv, RunType
  <1>2. \A s \in Runs :
            /\ left(s) \in RunType /\ left(s).aborted
            /\ left(s).at = run[s].at /\ left(s).calls = run[s].calls
            /\ left(s).root = run[s].root /\ left(s).turns = run[s].turns
            /\ left(s).todo = run[s].todo /\ left(s).status = run[s].status
            /\ left(s).patched = run[s].patched
    BY <1>1 DEF RunType
  <1> HIDE DEF left
  <1>3. \A s \in Runs : run'[s] = IF s \in Current THEN left(s) ELSE run[s]
    BY DEF RunLeft, left
  <1>4. \A s \in Runs :
            /\ run'[s] \in RunType /\ (s \in Current => run'[s].aborted)
            /\ run'[s].at = run[s].at /\ run'[s].calls = run[s].calls
            /\ run'[s].root = run[s].root /\ run'[s].turns = run[s].turns
            /\ run'[s].todo = run[s].todo /\ run'[s].status = run[s].status
            /\ run'[s].patched = run[s].patched
            /\ s \notin Current => run'[s] = run[s]
    BY <1>1, <1>2, <1>3
  <1>5. run' \in [Runs -> RunType]
    BY <1>4 DEF RunLeft
  <1>6. \A s \in Runs : RunSound(s, run'[s])
    BY <1>1, <1>4 DEF RunSound
  <1>7. RunInv'
    BY <1>5, <1>6 DEF RunInv
  <1>8. \A s \in Runs : s \notin Current =>
            run[s].at \in {"idle", "ended"} \/ run[s].aborted
    BY DEF Current, Active, Aborted
  <1>9. Current' = {}
    BY <1>4, <1>8 DEF Current, Active, Aborted
  <1>10. \A n \in Nat : n <= n
    OBVIOUS
  <1>11. AllGo
    <2> SUFFICES ASSUME NEW s \in Runs PROVE Goes(run[s], run'[s])
      BY DEF AllGo
    <2>1. run[s].at = "idle" => s \notin Current
      BY DEF Current, Active
    <2> QED
      BY <1>1, <1>4, <1>10, <2>1 DEF Goes
  <1> QED
    BY <1>4, <1>7, <1>8, <1>9, <1>11

LEMMA CancelKeeps == ASSUME IInv, Cancel PROVE IInv'
  <1>1. RunLeft /\ UNCHANGED <<approvals, webApproved, questions, session>>
    BY DEF Cancel
  <1>2. /\ RunInv' /\ AllGo
        /\ \A s \in Runs : /\ run'[s].at = run[s].at /\ run'[s].calls = run[s].calls
                           /\ run'[s].root = run[s].root
    BY <1>1, LeftKeeps DEF IInv
  <1>3. SessionInv'
    BY <1>1, <1>2, SessionKept DEF IInv, SessionInv
  <1>4. RequestInv'
    BY <1>1, <1>2, RequestsSeeRuns DEF IInv, RequestInv, WebHasNone, At, Direct, session
  <1>5. QuestionInv'
    BY <1>1, <1>2, QuestionsSeeRuns DEF IInv, QuestionInv, QuestionsTyped, questions, At
  <1> QED
    BY <1>2, <1>3, <1>4, <1>5 DEF IInv

LEMMA SwitchKeeps ==
    ASSUME IInv, NEW w \in Workspaces, SwitchWorkspace(w) PROVE IInv'
  <1>1. /\ RunLeft /\ Dropped(w) /\ Rehydrated(w) /\ workspace' = w
        /\ changes < MaxChanges /\ changes' = changes + 1
        /\ UNCHANGED <<webApproved, answered, question, wiped>>
    BY DEF SwitchWorkspace
  <1>2. /\ RunInv' /\ AllGo /\ Current' = {}
        /\ \A s \in Runs : /\ run'[s].at = run[s].at /\ run'[s].calls = run[s].calls
                           /\ run'[s].root = run[s].root
                           /\ run'[s].at = "ask-wait" => run'[s].aborted
    BY <1>1, LeftKeeps DEF IInv
  <1>3. SessionInv'
    <2>1. changes' \in 0..MaxChanges
      BY <1>1, AgentTurnAssumption DEF IInv, SessionInv
    <2> QED
      BY <1>1, <1>2, <2>1 DEF IInv, SessionInv
  <1>4. RequestInv'
    <2> DEFINE foreign == {q \in listed : RootOf(q) # w}
               denied == [at |-> "denied", result |-> "error"]
    <2>1. /\ listed' = listed \ foreign /\ resolvers' = resolvers \ foreign
          /\ request' = [q \in Requests |-> IF q \in foreign \cap resolvers
                                            THEN denied ELSE request[q]]
      BY <1>1 DEF Dropped
    <2>2. denied \in RequestType /\ denied # None /\ denied.at # "asking"
      BY NoneAssumption DEF RequestType
    <2> HIDE DEF denied
    <2>3. /\ listed = resolvers /\ resolvers \subseteq Requests
          /\ request \in [Requests -> RequestType \cup {None}]
      BY ResolversAreListed DEF IInv, RequestInv, RequestsTyped
    <2>4. /\ request' \in [Requests -> RequestType \cup {None}]
          /\ listed' = resolvers' /\ resolvers' \subseteq resolvers
          /\ \A q \in resolvers' : q \in resolvers /\ RootOf(q) = w
          /\ \A q \in Requests : q \notin resolvers \/ q \in resolvers' =>
                 request'[q] = request[q]
          /\ \A q \in resolvers : q \notin resolvers' => request'[q] = denied
      BY <2>1, <2>2, <2>3
    <2> HIDE DEF foreign
    <2>5. \A q \in Requests : q \in resolvers' <=> request'[q] # None /\ request'[q].at = "asking"
      BY <2>2, <2>4 DEF IInv, RequestInv, ApprovalsAnswerable
    <2>6. \A q \in resolvers' : request'[q] = request[q] /\ RootOf(q) = workspace'
      BY <1>1, <2>3, <2>4
    <2>7. \A q \in Requests : request'[q] # None <=> request[q] # None
      BY <2>2, <2>3, <2>4, ResolversAreListed DEF IInv
    <2>8. \A q \in resolvers' : q[3] = "bridged" =>
               /\ request'[Outer(q)] # None /\ request'[Outer(q)].at = "going"
               /\ request'[Outer(q)].result \in {request[Outer(q)].result, "timeout"}
      BY <2>4, OuterGoes DEF IInv
    <2> QED
      BY <1>2, <2>4, <2>5, <2>6, <2>7, <2>8, AskingShrinks DEF IInv
  <1>5. QuestionInv'
    <2>1. rehydrated' \in {question[w], rehydrated}
      BY <1>1 DEF Rehydrated
    <2>2. QuestionsTyped'
      BY <1>1, <2>1 DEF IInv, QuestionInv, QuestionsTyped
    <2>3. QuestionOnDisk'
      BY <1>2 DEF QuestionOnDisk, At, Aborted
    <2>4. QuestionBegun'
      BY <1>1, <1>2 DEF IInv, QuestionInv, QuestionsTyped, QuestionBegun, At
    <2>5. RehydratedLeft'
      BY <1>2, <2>1 DEF IInv, QuestionInv, QuestionsTyped, QuestionBegun, RehydratedLeft, At
    <2> QED
      BY <2>2, <2>3, <2>4, <2>5 DEF QuestionInv
  <1> QED
    BY <1>2, <1>3, <1>4, <1>5 DEF IInv

LEMMA CrashKeeps == ASSUME IInv, Crash PROVE IInv'
  <1>1. /\ changes < MaxChanges /\ changes' = changes + 1 /\ wiped' = {}
        /\ request' = [q \in Requests |-> None] /\ listed' = {} /\ resolvers' = {}
        /\ webApproved' = FALSE /\ answered' = {} /\ rehydrated' = question[workspace]
        /\ UNCHANGED <<question, workspace>>
    BY DEF Crash
  <1>2. \A s \in Runs : run'[s] = IF s \in Active THEN Threw(run[s]) ELSE run[s]
    BY DEF Crash
  <1>3. \A s \in Runs : RunSound(s, run[s])
    BY RunFacts
  <1>4. \A s \in Runs : /\ RunSound(s, run'[s]) /\ run'[s].at \in {"idle", "ended"}
                        /\ run'[s].at = "idle" => run[s].at = "idle"
    <2> SUFFICES ASSUME NEW s \in Runs
                 PROVE  /\ RunSound(s, run'[s]) /\ run'[s].at \in {"idle", "ended"}
                        /\ run'[s].at = "idle" => run[s].at = "idle"
      OBVIOUS
    <2>1. CASE s \in Active
      BY <1>2, <1>3, <2>1, ThrewSound
    <2>2. CASE s \notin Active
      BY <1>2, <1>3, <2>2 DEF Active
    <2> QED
      BY <2>1, <2>2
  <1>5. RunInv'
    <2>1. run' = [s \in Runs |-> run'[s]]
      BY DEF Crash
    <2>2. \A s \in Runs : run'[s] \in RunType
      BY <1>4 DEF RunSound
    <2> QED
      BY <1>4, <2>1, <2>2 DEF RunInv
  <1>6. Current' = {}
    BY <1>4 DEF Current, Active
  <1>7. SessionInv'
    <2>1. changes' \in 0..MaxChanges
      BY <1>1, AgentTurnAssumption DEF IInv, SessionInv
    <2>2. webApproved' \in BOOLEAN
      BY <1>1
    <2> QED
      BY <1>1, <1>6, <2>1, <2>2 DEF IInv, SessionInv
  <1>8. RequestInv'
    <2>1. {} \in SUBSET Requests
      OBVIOUS
    <2>2. \A q \in Requests : request'[q] = None
      BY <1>1
    <2>3. RequestsTyped'
      BY <1>1, <2>1 DEF RequestsTyped
    <2>4. ApprovalsAnswerable'
      BY <1>1, <2>2 DEF ApprovalsAnswerable
    <2>5. /\ AskingHasNoResult' /\ RequestsCounted' /\ DirectAsking' /\ BridgedAsking'
      BY <2>2 DEF AskingHasNoResult, RequestsCounted, DirectAsking, BridgedAsking
    <2>6. ToolHasRequest' /\ WebHasNone'
      BY <1>4 DEF ToolHasRequest, WebHasNone, At
    <2> QED
      BY <2>3, <2>4, <2>5, <2>6 DEF RequestInv
  <1>9. QuestionInv'
    <2>1. rehydrated' \in Runs \cup {None}
      BY <1>1 DEF IInv, SessionInv, QuestionInv, QuestionsTyped
    <2>2. QuestionsTyped'
      BY <1>1, <2>1 DEF IInv, QuestionInv, QuestionsTyped
    <2>3. QuestionOnDisk'
      BY <1>4 DEF QuestionOnDisk, At
    <2>4. QuestionBegun'
      BY <1>1, <1>4 DEF IInv, QuestionInv, QuestionsTyped, QuestionBegun, At
    <2>5. rehydrated' # None => run'[rehydrated'].at # "idle"
      <3>1. workspace \in Workspaces
        BY DEF IInv, SessionInv
      <3>2. question[workspace] # None => run'[question[workspace]].at # "idle"
        BY <1>1, <2>4, <3>1 DEF QuestionBegun, At
      <3> QED
        BY <1>1, <3>2
    <2>6. RehydratedLeft'
      BY <1>6, <2>5 DEF RehydratedLeft, At
    <2> QED
      BY <2>2, <2>3, <2>4, <2>6 DEF QuestionInv
  <1> QED
    BY <1>5, <1>7, <1>8, <1>9 DEF IInv

-----------------------------------------------------------------------------
(* The questions                                                               *)

LEMMA AnswerKeeps == ASSUME IInv, NEW r \in Runs, Answer(r) PROVE IInv'
  <1>1. /\ answered' = answered \cup {r}
        /\ UNCHANGED <<run, approvals, webApproved, question, rehydrated, wiped, session>>
    BY DEF Answer
  <1>2. RunInv' /\ AllGo
    BY <1>1, GoesByStaying DEF IInv
  <1>3. SessionInv'
    BY <1>1, <1>2, SessionKept DEF IInv, SessionInv
  <1>4. RequestInv'
    BY <1>1, <1>2, RequestsSeeRuns DEF IInv, RequestInv, WebHasNone, At, Direct, session
  <1>5. QuestionInv'
    BY <1>1, <1>2, QuestionsSeeRuns DEF IInv, QuestionInv, QuestionsTyped, At
  <1> QED
    BY <1>2, <1>3, <1>4, <1>5 DEF IInv

(* A write of a workspace's file by run r, or for it: who waits there with     *)
(* another question has been wiped out.                                        *)
LEMMA FileWritten ==
    ASSUME IInv, AllGo, NEW r \in Runs, NEW w, NEW v \in Runs \cup {None},
           question' = [question EXCEPT ![w] = v], Wipes(w, r),
           v # None => run[v].at # "idle",
           answered' \in SUBSET Runs, rehydrated' \in {rehydrated, None},
           \A s \in Runs \ {r} : At(s, "ask-wait")' => At(s, "ask-wait"),
           At(r, "ask-wait")' /\ ~Aborted(r)' => v = r /\ run'[r].root = w /\ w \in Workspaces
    PROVE  QuestionInv'
  <1>1. QuestionsTyped /\ QuestionOnDisk /\ QuestionBegun /\ RehydratedLeft
    BY DEF IInv, QuestionInv
  <1>2. /\ question' \in [Workspaces -> Runs \cup {None}]
        /\ w \in Workspaces => question'[w] = v
        /\ \A u \in Workspaces : u # w => question'[u] = question[u]
    BY <1>1 DEF QuestionsTyped
  <1>3. /\ wiped' \in SUBSET Runs /\ wiped \subseteq wiped'
        /\ \A s \in Runs \ {r} : question[w] = s /\ run[s].at = "ask-wait" => s \in wiped'
    BY <1>1 DEF Wipes, QuestionsTyped, At
  <1>4. \A s \in Runs : Goes(run[s], run'[s])
    BY DEF AllGo
  <1>5. QuestionsTyped'
    BY <1>1, <1>2, <1>3 DEF QuestionsTyped
  <1>6. QuestionOnDisk'
    <2> SUFFICES ASSUME NEW s \in Runs, At(s, "ask-wait")', ~Aborted(s)', s \notin wiped'
                 PROVE  question'[run'[s].root] = s
      BY DEF QuestionOnDisk
    <2>1. CASE s = r
      BY <1>2, <2>1
    <2>2. CASE s # r
      <3>1. At(s, "ask-wait")
        BY <2>2
      <3>2. ~Aborted(s) /\ run'[s].root = run[s].root /\ s \in Current
        BY <1>4, <3>1 DEF Goes, At, Aborted, Current, Active
      <3>3. question[run[s].root] = s
        BY <1>1, <1>3, <3>1, <3>2 DEF QuestionOnDisk
      <3>4. run[s].root \in Workspaces
        BY <3>2 DEF IInv, SessionInv
      <3>5. run[s].root # w
        BY <1>3, <2>2, <3>1, <3>3 DEF At
      <3> QED
        BY <1>2, <3>2, <3>3, <3>4, <3>5
    <2> QED
      BY <2>1, <2>2
  <1>7. \A s \in Runs : run[s].at # "idle" => run'[s].at # "idle"
    BY <1>4 DEF Goes
  <1>8. QuestionBegun'
    <2> SUFFICES ASSUME NEW u \in Workspaces, question'[u] # None
                 PROVE  run'[question'[u]].at # "idle"
      BY DEF QuestionBegun, At
    <2>1. CASE u = w
      BY <1>2, <1>7, <2>1
    <2>2. CASE u # w
      BY <1>1, <1>2, <1>7, <2>2 DEF QuestionBegun, QuestionsTyped, At
    <2> QED
      BY <2>1, <2>2
  <1>9. RehydratedLeft'
    <2> SUFFICES ASSUME rehydrated' # None
                 PROVE  run'[rehydrated'].at # "idle" /\ rehydrated' \notin Current'
      BY DEF RehydratedLeft, At
    <2>1. rehydrated' = rehydrated /\ rehydrated \in Runs
          /\ run[rehydrated].at # "idle" /\ rehydrated \notin Current
      BY <1>1 DEF RehydratedLeft, QuestionsTyped, At
    <2> QED
      BY <1>7, <2>1, CurrentGoes
  <1> QED
    BY <1>5, <1>6, <1>8, <1>9 DEF QuestionInv

LEMMA AnswerRehydratedKeeps == ASSUME IInv, AnswerRehydrated PROVE IInv'
  <1>1. /\ rehydrated \in Runs /\ rehydrated' = None
        /\ run[rehydrated].at # "idle" /\ rehydrated \notin Current
        /\ UNCHANGED <<run, approvals, webApproved, answered, session>>
    BY DEF AnswerRehydrated, IInv, QuestionInv, QuestionsTyped, RehydratedLeft, At
  <1>2. RunInv' /\ AllGo
    BY <1>1, GoesByStaying DEF IInv
  <1>3. SessionInv'
    BY <1>1, <1>2, SessionKept DEF IInv, SessionInv
  <1>4. RequestInv'
    BY <1>1, <1>2, RequestsSeeRuns DEF IInv, RequestInv, WebHasNone, At, Direct, session
  <1>5. QuestionInv'
    <2>1. ~(At(rehydrated, "ask-wait") /\ ~Aborted(rehydrated))
      BY <1>1 DEF Current, Active, At
    <2>2. CASE UNCHANGED <<question, wiped>>
      <3>1. QuestionsTyped' /\ QuestionOnDisk' /\ QuestionBegun'
        BY <1>1, <2>2
        DEF IInv, QuestionInv, QuestionsTyped, QuestionOnDisk, QuestionBegun, At, Aborted
      <3>2. RehydratedLeft'
        BY <1>1 DEF RehydratedLeft
      <3> QED
        BY <3>1, <3>2 DEF QuestionInv
    <2>3. CASE /\ question' = [question EXCEPT ![run[rehydrated].root] = None]
               /\ Wipes(run[rehydrated].root, rehydrated)
      <3> DEFINE r == rehydrated
                 w == run[rehydrated].root
      <3>1. /\ answered' \in SUBSET Runs /\ rehydrated' \in {rehydrated, None}
            /\ \A s \in Runs : At(s, "ask-wait")' <=> At(s, "ask-wait")
            /\ \A s \in Runs : run'[s].aborted = run[s].aborted /\ run'[s].at = run[s].at
        BY <1>1 DEF IInv, QuestionInv, QuestionsTyped, At
      <3>2. r \in Runs /\ question' = [question EXCEPT ![w] = None] /\ Wipes(w, r)
            /\ ~(run[r].at = "ask-wait" /\ ~run[r].aborted)
        BY <1>1, <2>1, <2>3 DEF At, Aborted
      <3>3. \A s \in Runs : \A u :
               /\ s = rehydrated
               /\ question' = [question EXCEPT ![u] = None] /\ Wipes(u, s)
               /\ ~(run[s].at = "ask-wait" /\ ~run[s].aborted)
               => QuestionInv'
        <4> SUFFICES ASSUME NEW s \in Runs, NEW u,
                            question' = [question EXCEPT ![u] = None], Wipes(u, s),
                            ~(run[s].at = "ask-wait" /\ ~run[s].aborted)
                     PROVE  QuestionInv'
          OBVIOUS
        <4>1. ~(At(s, "ask-wait")' /\ ~Aborted(s)')
          BY <3>1 DEF At, Aborted
        <4> QED
          BY <1>2, <3>1, <4>1, FileWritten
      <3> QED
        BY <3>2, <3>3
    <2> QED
      BY <2>2, <2>3 DEF AnswerRehydrated
  <1> QED
    BY <1>2, <1>3, <1>4, <1>5 DEF IInv

(* A step of a run at its question.                                            *)
LEMMA AskerGoes ==
    ASSUME IInv, NEW r \in Runs, NEW k, RunBecomes(r, k),
           run[r].at # "tool", k.at \notin {"tool", "web"},
           UNCHANGED <<approvals, webApproved, session>>, QuestionInv'
    PROVE  IInv'
  <1>1. /\ RunInv' /\ AllGo
        /\ run'[r] = k /\ \A s \in Runs : s # r => run'[s] = run[s]
    BY RunBecomesKeeps DEF IInv
  <1>2. SessionInv'
    BY <1>1, SessionKept DEF IInv, SessionInv
  <1>3. RequestInv'
    BY <1>1, RequestsSeeRuns DEF IInv, RequestInv, WebHasNone, At, Direct, session
  <1> QED
    BY <1>1, <1>2, <1>3 DEF IInv

LEMMA QuestionWrittenKeeps == ASSUME IInv, NEW r \in Runs, QuestionWritten(r) PROVE IInv'
  <1>1. /\ run[r].at = "ask-write" /\ run[r].at \in InCall /\ run[r].todo # <<>>
        /\ RunSound(r, run[r]) /\ run[r] \in RunType
        /\ UNCHANGED <<approvals, webApproved, answered, rehydrated, session>>
        /\ webApproved' \in BOOLEAN /\ TRUE \in BOOLEAN
    BY RunFacts DEF QuestionWritten, At, RunSound, InCall
  <1>2. CASE Becomes(r, Called(run[r])) /\ UNCHANGED <<question, wiped>>
    BY <1>1, <1>2, CalledKeeps DEF questions
  <1>3. CASE /\ question' = [question EXCEPT ![run[r].root] = r]
             /\ Wipes(run[r].root, r)
             /\ Goto(r, "ask-wait")
    <2> DEFINE k == [run[r] EXCEPT !.at = "ask-wait"]
               w == run[r].root
    <2>1. "ask-wait" \in Places \ {"idle", "ended"} /\ "ask-wait" \in InCall
      BY DEF Places, InCall
    <2>2. /\ RunSound(r, k) /\ Goes(run[r], k) /\ k.at = "ask-wait" /\ k.root = w
          /\ k.aborted = run[r].aborted
      BY <1>1, <2>1, PlaceSound
    <2>3. RunBecomes(r, k)
      BY <1>3, <2>2 DEF RunBecomes, Goto
    <2> HIDE DEF k
    <2>4. AllGo /\ run'[r] = k /\ \A s \in Runs : s # r => run'[s] = run[s]
      BY <2>3, RunBecomesKeeps DEF IInv
    <2>5. ~run[r].aborted => w \in Workspaces
      BY <1>1 DEF IInv, SessionInv, Current, Active, Aborted
    <2>6. /\ \A s \in Runs \ {r} : At(s, "ask-wait")' => At(s, "ask-wait")
          /\ At(r, "ask-wait")' /\ ~Aborted(r)' => run'[r].root = w /\ w \in Workspaces
      BY <2>2, <2>4, <2>5 DEF At, Aborted
    <2>7. /\ answered' \in SUBSET Runs /\ rehydrated' \in {rehydrated, None}
          /\ question' = [question EXCEPT ![w] = r] /\ Wipes(w, r)
      BY <1>1, <1>3 DEF IInv, QuestionInv, QuestionsTyped
    <2> HIDE DEF w
    <2>8. QuestionInv'
      BY <1>1, <2>4, <2>6, <2>7, FileWritten
    <2> QED
      BY <1>1, <2>2, <2>3, <2>8, AskerGoes
  <1> QED
    BY <1>2, <1>3 DEF QuestionWritten

LEMMA QuestionOverKeeps == ASSUME IInv, NEW r \in Runs, QuestionOver(r) PROVE IInv'
  <1> DEFINE k == [run[r] EXCEPT !.at = "ask-clear"]
  <1>1. /\ run[r].at = "ask-wait" /\ run[r].at \in InCall /\ RunSound(r, run[r])
        /\ Becomes(r, k) /\ answered' = answered \ {r} /\ wiped' = wiped \ {r}
        /\ UNCHANGED <<approvals, webApproved, question, rehydrated, session>>
    BY RunFacts DEF QuestionOver, QuestionResolved, Goto, At, InCall
  <1>2. "ask-clear" \in Places \ {"idle", "ended"} /\ "ask-clear" \in InCall
    BY DEF Places, InCall
  <1>3. RunBecomes(r, k) /\ k.at = "ask-clear"
    <2>1. RunSound(r, k) /\ Goes(run[r], k) /\ k.at = "ask-clear"
      BY <1>1, <1>2, PlaceSound
    <2> QED
      BY <1>1, <2>1 DEF RunBecomes
  <1> HIDE DEF k
  <1>4. AllGo /\ run'[r] = k /\ \A s \in Runs : s # r => run'[s] = run[s]
    BY <1>3, RunBecomesKeeps DEF IInv
  <1>5. \A s \in Runs : run[s].at # "idle" => run'[s].at # "idle"
    BY <1>4 DEF AllGo, Goes
  <1>6. QuestionsTyped'
    BY <1>1 DEF IInv, QuestionInv, QuestionsTyped
  <1>7. QuestionOnDisk'
    <2> SUFFICES ASSUME NEW s \in Runs, At(s, "ask-wait")', ~Aborted(s)', s \notin wiped'
                 PROVE  question'[run'[s].root] = s
      BY DEF QuestionOnDisk
    <2>1. s # r /\ run'[s] = run[s]
      BY <1>3, <1>4 DEF At
    <2> QED
      BY <1>1, <2>1 DEF IInv, QuestionInv, QuestionOnDisk, At, Aborted
  <1>8. QuestionBegun'
    BY <1>1, <1>5 DEF IInv, QuestionInv, QuestionsTyped, QuestionBegun, At
  <1>9. RehydratedLeft'
    BY <1>1, <1>4, <1>5, CurrentGoes DEF IInv, QuestionInv, QuestionsTyped, RehydratedLeft, At
  <1>10. QuestionInv'
    BY <1>6, <1>7, <1>8, <1>9 DEF QuestionInv
  <1> QED
    BY <1>1, <1>3, <1>10, AskerGoes

LEMMA QuestionClearedKeeps == ASSUME IInv, NEW r \in Runs, QuestionCleared(r) PROVE IInv'
  <1> DEFINE k == Called(run[r])
             w == run[r].root
  <1>1. /\ run[r].at = "ask-clear" /\ run[r].at \in InCall /\ run[r].todo # <<>>
        /\ RunSound(r, run[r]) /\ Becomes(r, k)
        /\ UNCHANGED <<approvals, webApproved, answered, rehydrated, session>>
        /\ webApproved' \in BOOLEAN /\ TRUE \in BOOLEAN
    BY RunFacts DEF QuestionCleared, At, RunSound, InCall
  <1>2. CASE UNCHANGED <<question, wiped>>
    BY <1>1, <1>2, CalledKeeps DEF questions
  <1>3. CASE question' = [question EXCEPT ![w] = None] /\ Wipes(w, r)
    <2>1. RunSound(r, k) /\ Goes(run[r], k) /\ k.at = "call"
      BY <1>1, CalledSound
    <2>2. RunBecomes(r, k)
      BY <1>1, <2>1 DEF RunBecomes
    <2> HIDE DEF k
    <2>3. AllGo /\ run'[r] = k /\ \A s \in Runs : s # r => run'[s] = run[s]
      BY <2>2, RunBecomesKeeps DEF IInv
    <2>4. /\ \A s \in Runs \ {r} : At(s, "ask-wait")' => At(s, "ask-wait")
          /\ ~At(r, "ask-wait")'
      BY <2>1, <2>3 DEF At
    <2>5. /\ answered' \in SUBSET Runs /\ rehydrated' \in {rehydrated, None}
      BY <1>1 DEF IInv, QuestionInv, QuestionsTyped
    <2> HIDE DEF w
    <2>6. QuestionInv'
      BY <1>3, <2>3, <2>4, <2>5, FileWritten
    <2> QED
      BY <1>1, <2>1, <2>2, <2>6, AskerGoes
  <1> QED
    BY <1>2, <1>3 DEF QuestionCleared

-----------------------------------------------------------------------------
(* The theorems                                                                *)

LEMMA EngineKeeps == ASSUME IInv, NEW r \in Runs, Engine(r) PROVE IInv'
  BY LoopHeadKeeps, AnswersKeep, PatchQueuedKeeps, CallsKeep, CallStepsKeep, CallWaitsKeep,
     ToolReturnsKeeps, QuestionWrittenKeeps, QuestionOverKeeps, QuestionClearedKeeps
  DEF Engine

LEMMA UserKeeps == ASSUME IInv, User PROVE IInv'
  <1>1. ASSUME NEW r \in Runs, Start(r) \/ AllowWeb(r) \/ RefuseWeb(r) \/ Answer(r) PROVE IInv'
    BY <1>1, StartKeeps, AllowWebKeeps, CallsKeep, AnswerKeeps
  <1>2. ASSUME NEW q \in Requests, ApproveTool(q) \/ RejectTool(q) PROVE IInv'
    BY <1>2, DecisionsKeep
  <1> QED
    BY <1>1, <1>2, CancelKeeps, SwitchKeeps, AnswerRehydratedKeeps, CrashKeeps DEF User

LEMMA NextKeeps == IInv /\ [Next]_vars => IInv'
  <1>1. CASE IInv /\ Next
    BY <1>1, EngineKeeps, TimesOutKeeps, OperationEndsKeeps, UserKeeps DEF Next, Executor
  <1>2. CASE IInv /\ UNCHANGED vars
    <2>1. UNCHANGED <<run, request, listed, resolvers, webApproved, answered, question,
                      rehydrated, wiped, workspace, changes>>
      BY <1>2 DEF vars, approvals, questions, session
    <2>2. RunInv' /\ SessionInv'
      BY <1>2, <2>1 DEF IInv, RunInv, SessionInv, Current, Active, Aborted
    <2>3. RequestInv'
      BY <1>2, <2>1
      DEF IInv, RequestInv, RequestsTyped, ApprovalsAnswerable, AskingHasNoResult,
          RequestsCounted, ToolHasRequest, WebHasNone, DirectAsking, BridgedAsking, At,
          Direct, Awaited, RootOf, Outer
    <2>4. QuestionInv'
      BY <1>2, <2>1
      DEF IInv, QuestionInv, QuestionsTyped, QuestionOnDisk, QuestionBegun, RehydratedLeft,
          At, Aborted, Current, Active
    <2> QED
      BY <2>2, <2>3, <2>4 DEF IInv
  <1> QED
    BY <1>1, <1>2

LEMMA InitKeeps == Init => IInv
  <1> SUFFICES ASSUME Init PROVE IInv
    OBVIOUS
  <1>1. NewRun \in RunType
    BY DEF NewRun, RunType, Places, Statuses, Reasons
  <1>2. /\ NewRun.at = "idle" /\ NewRun.turns = 0 /\ NewRun.calls = 0
        /\ NewRun.status = "running"
    BY DEF NewRun
  <1>3. \A r \in Runs : 0 <= MaxSteps[r] /\ 0 <= MaxToolCalls[r]
    <2>1. \A r \in Runs : MaxSteps[r] \in Nat /\ MaxToolCalls[r] \in Nat
      BY AgentTurnAssumption
    <2>2. \A n \in Nat : 0 <= n
      OBVIOUS
    <2> QED
      BY <2>1, <2>2
  <1>4. run = [r \in Runs |-> NewRun]
    BY DEF Init
  <1>5. \A r \in Runs : run[r] = NewRun /\ run[r].at = "idle"
    BY <1>2, <1>4
  <1>6. RunInv
    BY <1>1, <1>2, <1>3, <1>4, <1>5 DEF RunInv, RunSound, InCall
  <1>7. SessionInv
    <2>1. FALSE \in BOOLEAN /\ 0 \in 0..MaxChanges
      BY AgentTurnAssumption
    <2>2. webApproved \in BOOLEAN
      BY <2>1 DEF Init
    <2> QED
      BY <1>5, <2>1, <2>2, AgentTurnAssumption DEF Init, SessionInv, Current, Active
  <1>8. RequestInv
    <2>1. \A q \in Requests : request[q] = None
      BY DEF Init
    <2>2. RequestsTyped /\ ApprovalsAnswerable
      BY <2>1 DEF Init, RequestsTyped, ApprovalsAnswerable
    <2>3. AskingHasNoResult /\ RequestsCounted /\ DirectAsking /\ BridgedAsking
      BY <2>1 DEF AskingHasNoResult, RequestsCounted, DirectAsking, BridgedAsking
    <2>4. ToolHasRequest /\ WebHasNone
      BY <1>5 DEF ToolHasRequest, WebHasNone, At
    <2> QED
      BY <2>2, <2>3, <2>4 DEF RequestInv
  <1>9. QuestionInv
    <2>1. \A w \in Workspaces : question[w] = None
      BY DEF Init
    <2> QED
      BY <1>5, <2>1
      DEF Init, QuestionInv, QuestionsTyped, QuestionOnDisk, QuestionBegun, RehydratedLeft, At
  <1> QED
    BY <1>6, <1>7, <1>8, <1>9 DEF IInv

(* The inductive invariant holds.                                              *)
THEOREM SpecIInv == Spec => []IInv
  BY InitKeeps, NextKeeps, PTL DEF Spec

(* Every variable keeps its type, and a run the budgets of turns and calls of  *)
(* its policy, whatever the model answers.                                     *)
THEOREM TypeCorrect == Spec => []TypeOK
  <1>1. IInv => TypeOK
    BY DEF IInv, RunInv, RunSound, SessionInv, RequestInv, RequestsTyped, QuestionInv,
           QuestionsTyped, TypeOK
  <1> QED
    BY <1>1, SpecIInv, PTL

(* A tool waits for an approval exactly as long as the user can give it.       *)
THEOREM Answerable == Spec => []ApprovalsAnswerable
  <1>1. IInv => ApprovalsAnswerable
    BY DEF IInv, RequestInv
  <1> QED
    BY <1>1, SpecIInv, PTL

(* A run that had to act is never reported as completed without having acted.  *)
THEOREM CompletedActed == Spec => []CompletedMeansActed
  <1>1. ASSUME IInv PROVE CompletedMeansActed
    <2>1. RequiresAction \subseteq Runs
      BY AgentTurnAssumption
    <2>2. \A r \in RequiresAction :
              RunSound(r, run[r]) /\ run[r].calls \in Nat
      BY <1>1, <2>1, RunFacts
    <2> QED
      BY <2>2 DEF CompletedMeansActed, NoAction, RunSound
  <1> QED
    BY <1>1, SpecIInv, PTL

(* The question a run waits with is on disk, unless an earlier run's late      *)
(* write or clear has come in between.                                         *)
THEOREM OnDisk == Spec => []QuestionOnDisk
  <1>1. IInv => QuestionOnDisk
    BY DEF IInv, QuestionInv
  <1> QED
    BY <1>1, SpecIInv, PTL

(* No question is read back from disk while its run still waits.               *)
THEOREM NotDiverted == Spec => []AnswerNotDiverted
  <1>1. ASSUME IInv PROVE AnswerNotDiverted
    <2>1. \A r \in Runs : r # None
      BY AgentTurnAssumption
    <2> QED
      BY <1>1, <2>1
      DEF IInv, QuestionInv, RehydratedLeft, AnswerNotDiverted, Current, Active, At
  <1> QED
    BY <1>1, SpecIInv, PTL

(* A request whose operation begins in a step.                                 *)
Begins(q) ==
    request'[q] # None /\ request'[q].at = "going" /\ (request[q] = None \/ request[q].at # "going")

LEMMA CallsBegin ==
    ASSUME IInv, NEW r \in Runs, CallReads(r) \/ CallWrites(r) \/ CallBridges(r) \/ AllowWeb(r),
           NEW q \in Requests, Begins(q)
    PROVE  run'[q[1]].at = "tool"
  <1>1. run'[r].at = "tool"
    <2>1. \/ Becomes(r, [Counted(r) EXCEPT !.at = "tool"])
          \/ Becomes(r, [run[r] EXCEPT !.at = "tool"])
      BY DEF CallReads, CallWrites, CallBridges, AllowWeb
    <2>2. run[r] \in RunType /\ run \in [Runs -> RunType]
      BY DEF IInv, RunInv
    <2>3. /\ [Counted(r) EXCEPT !.at = "tool"].at = "tool"
          /\ [run[r] EXCEPT !.at = "tool"].at = "tool"
      BY <2>2 DEF Counted, RunType
    <2> QED
      BY <2>1, <2>2, <2>3 DEF Becomes
  <1>2. request \in [Requests -> RequestType \cup {None}]
    BY DEF IInv, RequestInv, RequestsTyped
  <1>3. PICK c \in {ThisCall(r), Direct(r)} :
            \/ request' = [request EXCEPT ![c] = Going]
            \/ request' = [request EXCEPT ![c] = Asking]
            \/ request' = [request EXCEPT ![c] = Going, ![Inner(c)] = Asking]
    BY DEF CallReads, CallWrites, CallBridges, AllowWeb
  <1>4. c[1] = r /\ Inner(c)[1] = r
    BY DEF ThisCall, Direct, Inner
  <1>5. q \notin {c, Inner(c)} => request'[q] = request[q]
    BY <1>2, <1>3
  <1> QED
    BY <1>1, <1>4, <1>5 DEF Begins

LEMMA OthersBeginNothing ==
    ASSUME IInv, NEW q \in Requests, Begins(q),
           \/ UNCHANGED request \/ Crash
           \/ \E r \in Runs : ToolReturns(r)
           \/ \E p \in Requests : Executor(p) \/ RejectTool(p)
           \/ \E w \in Workspaces : SwitchWorkspace(w)
    PROVE  FALSE
  <1>1. request \in [Requests -> RequestType \cup {None}]
    BY DEF IInv, RequestInv, RequestsTyped
  <1>2. CASE UNCHANGED request
    BY <1>2 DEF Begins
  <1>3. CASE Crash
    BY <1>3 DEF Begins, Crash
  <1>4. ASSUME NEW r \in Runs, ToolReturns(r) PROVE FALSE
    <2>1. request'[q] \in {request[q], None}
      BY <1>1, <1>4 DEF ToolReturns
    <2> QED
      BY <2>1 DEF Begins
  <1>5. ASSUME NEW p \in Requests, TimesOut(p) PROVE FALSE
    BY <1>1, <1>5 DEF Begins, TimesOut, Settle, Settled
  <1>6. ASSUME NEW p \in Requests, RejectTool(p) PROVE FALSE
    <2>1. request'[q] = request[q] \/ request'[q].at = "denied"
      BY <1>1, <1>6 DEF RejectTool, Settle, Settled
    <2> QED
      BY <2>1 DEF Begins
  <1>7. ASSUME NEW p \in Requests, OperationEnds(p) PROVE FALSE
    <2> DEFINE i == Inner(p)
    <2>1. PICK result :
            request' = [request EXCEPT
                ![p] = IF p[3] = "direct" /\ ~Awaited(p) THEN None
                       ELSE IF result = "ok" THEN Settled(p, "done", "ok")
                       ELSE Settled(p, "failed", "error"),
                ![i] = IF p[3] = "direct" /\ @ # None /\ @.at # "going" THEN None ELSE @]
      BY <1>7 DEF OperationEnds
    <2> DEFINE a == IF p[3] = "direct" /\ ~Awaited(p) THEN None
                    ELSE IF result = "ok" THEN Settled(p, "done", "ok")
                    ELSE Settled(p, "failed", "error")
    <2>2. a = None \/ a.at # "going"
      BY DEF Settled
    <2>3. request' = [request EXCEPT
              ![p] = a,
              ![i] = IF p[3] = "direct" /\ @ # None /\ @.at # "going" THEN None ELSE @]
      <3> HIDE DEF a, i
      <3> QED
        BY <2>1 DEF a
    <2> HIDE DEF a, i
    <2>4. request'[q] \in {request[q], None, a}
      BY <1>1, <2>3
    <2> QED
      BY <2>2, <2>4 DEF Begins
  <1>8. ASSUME NEW w \in Workspaces, SwitchWorkspace(w) PROVE FALSE
    <2>1. request'[q] = request[q] \/ request'[q].at = "denied"
      BY <1>8 DEF SwitchWorkspace, Dropped
    <2> QED
      BY <2>1 DEF Begins
  <1> QED
    BY <1>2, <1>3, <1>4, <1>5, <1>6, <1>7, <1>8 DEF Executor

(* No tool begins its work for a run that is over, save the one behind a       *)
(* bridge whose outer call has timed out.                                      *)
THEOREM NothingStartsLate == Spec => NothingStartsAfterTheEnd
  <1> DEFINE Only ==
        \A q \in Requests :
          request'[q] # None /\ request'[q].at = "going"
              /\ (request[q] = None \/ request[q].at # "going") =>
            \/ run'[q[1]].at = "tool"
            \/ q[3] = "bridged" /\ OuterTimedOut(q)
  <1>1. IInv /\ Next => Only
    <2> SUFFICES ASSUME IInv, Next, NEW q \in Requests, Begins(q)
                 PROVE  run'[q[1]].at = "tool" \/ (q[3] = "bridged" /\ OuterTimedOut(q))
      BY DEF Begins
    <2>1. ASSUME NEW p \in Requests, ApproveTool(p)
          PROVE  run'[q[1]].at = "tool" \/ (q[3] = "bridged" /\ OuterTimedOut(q))
      <3>1. p \in resolvers /\ request' = [request EXCEPT ![p] = Going] /\ UNCHANGED run
            /\ request \in [Requests -> RequestType \cup {None}]
        BY <2>1, ResolversAreListed
        DEF ApproveTool, CanDecide, IInv, RequestInv, RequestsTyped
      <3>2. q = p
        BY <3>1 DEF Begins
      <3>3. request[q] # None /\ request[q].at = "asking" /\ q[3] \in {"direct", "bridged"}
        BY <3>1, <3>2, ResolversAreListed, RequestParts DEF IInv
      <3>4. q[3] = "direct" => Awaited(q)
        BY <3>3 DEF IInv, RequestInv, DirectAsking
      <3>5. q[3] = "bridged" => Awaited(q) \/ OuterTimedOut(q)
        BY <3>3 DEF IInv, RequestInv, BridgedAsking, Outer, OuterTimedOut
      <3> QED
        BY <3>1, <3>3, <3>4, <3>5 DEF Awaited, At
    <2>2. ASSUME NEW r \in Runs, Engine(r)
          PROVE  \/ CallReads(r) \/ CallWrites(r) \/ CallBridges(r)
                 \/ ToolReturns(r) \/ UNCHANGED request
      BY <2>2
      DEF Engine, LoopHead, ModelFails, AnswerIsCalls, AnswerIsInvalid, AnswerIsUnparsable,
          AnswerIsPatch, AnswerIsText, PatchQueued, CallsDone, CallCancelled, CallOverBudget,
          CallRefused, CallForeign, CallAsksForWeb, CallAsksUser, Proposed, WebAborted,
          QuestionWritten, QuestionOver, QuestionCleared, approvals
    <2>3. ASSUME NEW r \in Runs, Start(r) \/ RefuseWeb(r) \/ Answer(r) PROVE UNCHANGED request
      BY <2>3 DEF Start, RefuseWeb, Answer, approvals
    <2>4. Cancel \/ AnswerRehydrated => UNCHANGED request
      BY DEF Cancel, AnswerRehydrated, approvals
    <2> QED
      BY <2>1, <2>2, <2>3, <2>4, CallsBegin, OthersBeginNothing DEF Next, User
  <1>2. IInv /\ [Next]_vars => [Only]_vars
    BY <1>1
  <1> QED
    BY <1>2, SpecIInv, PTL DEF Spec, NothingStartsAfterTheEnd
=============================================================================
