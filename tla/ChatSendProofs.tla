--------------------------- MODULE ChatSendProofs ---------------------------
(* Proofs about ChatSend, for any number of sends, slots and models, and for   *)
(* any bounds: type correctness, that the chat is free when no send is under   *)
(* way, that a cancel reaches the run that is shown, and that the history of   *)
(* runs is written once.  What a send does to the slots is one of the steps    *)
(* every actor may make (RuntimeSlotsProofs!ActorStep).                        *)
EXTENDS ChatSend, RuntimeSlotsProofs

(* Places in front of the run.                                                 *)
Before == {"idle", "look", "prestep", "prelude"}

(* A send that will still free the chat, or whose total timer will.            *)
Works(k) ==
    /\ ~k.aborted
    /\ k.at \in Working \/ (k.at = "done" /\ k.timer)
Holds(k) == k.at \in {"prestep", "gone"} \/ Works(k)
Streams(k) == k.at \in {"stream", "gone"}
Runs(k) == k.at \in {"stream", "finish", "gone"} \/ Works(k)

(* A send in front of its run has nothing to abort, and one that works has its *)
(* total timer armed, and its controller in the map, until it is aborted.      *)
SendSound(k) ==
    /\ k.at \in Before => ~k.aborted /\ ~k.timer /\ ~k.listed
    /\ k.at \in Working /\ ~k.aborted => k.timer /\ k.listed

ChatTyped ==
    /\ isSending \in BOOLEAN /\ isStreaming \in BOOLEAN
    /\ active \in Run \cup {None}
    /\ history \in [Sends -> RunStatuses \cup {None}]
    /\ send \in [Sends -> SendType]

(* Whoever is busy, streams or shows an unfinished run that a send has made    *)
(* has a send to end it.                                                       *)
Unfinished == active # None /\ ~active.finished /\ active.own
BusyHeld == isSending => \E r \in Sends : Holds(send[r])
StreamHeld == isStreaming => \E r \in Sends : Streams(send[r])
ActiveHeld == Unfinished => \E r \in Sends : Runs(send[r])

(* The run that is shown is not in the history yet, unless it was made anew    *)
(* under an old id; and a run of this session that is shown, in the history or *)
(* on a card has begun.                                                        *)
RunIsNew ==
    active # None /\ active.own => active.run \in Sends /\ history[active.run] = None
RunHasBegun ==
    active # None /\ active.run \in Sends => send[active.run].at \notin Before
HistoryBehind == \A r \in Sends : history[r] # None => send[r].at \notin Before

(* The inductive invariant of the chat, and of the chat over the slots.        *)
ChatInv ==
    /\ ChatTyped
    /\ \A r \in Sends : SendSound(send[r])
    /\ BusyHeld /\ StreamHeld /\ ActiveHeld
    /\ RunIsNew /\ RunHasBegun /\ HistoryBehind
CardsInv ==
    /\ cards \in CardsType
    /\ \A r \in cards.asked \cup cards.planned : send[r].at \notin Before
IInv == SlotsIInv /\ ChatInv /\ CardsInv

-----------------------------------------------------------------------------
(* What a step of a send may do                                                *)

(* A step by which send r becomes k.                                           *)
SendBecomes(r, k) == k \in SendType /\ Becomes(r, k) /\ SendSound(k)

LEMMA SendBecomesTyped ==
    ASSUME ChatInv, NEW r \in Sends, NEW k, SendBecomes(r, k)
    PROVE  /\ send' \in [Sends -> SendType]
           /\ send'[r] = k
           /\ \A q \in Sends : q # r => send'[q] = send[q]
           /\ \A q \in Sends : SendSound(send'[q])
  <1>1. /\ send' \in [Sends -> SendType]
        /\ send'[r] = k
        /\ \A q \in Sends : q # r => send'[q] = send[q]
    BY DEF SendBecomes, Becomes, ChatInv, ChatTyped
  <1> QED
    BY <1>1 DEF SendBecomes, ChatInv

(* No run gets its place in front of the run back.                             *)
LEMMA HistoryBehindKept ==
    ASSUME ChatInv, NEW r \in Sends, NEW k, SendBecomes(r, k),
           k.at \in Before => send[r].at \in Before, UNCHANGED history
    PROVE  HistoryBehind'
  BY SendBecomesTyped DEF ChatInv, HistoryBehind

(* The active run, marked or not, and what it keeps.                           *)
LEMMA MarkedTyped ==
    ASSUME ChatTyped, NEW s \in RunStatuses
    PROVE  /\ Marked(s) \in Run \cup {None}
           /\ active # None => /\ Marked(s) \in Run
                               /\ Marked(s).run = active.run /\ Marked(s).status = s
                               /\ Marked(s).own = active.own
                               /\ Marked(s).finished = (active.finished \/ s \in Ended)
           /\ active = None => Marked(s) = None
  <1>1. CASE active = None
    BY <1>1 DEF Marked
  <1>2. CASE active # None
    <2> DEFINE f == active.finished \/ s \in Ended
    <2>1. active \in Run /\ f \in BOOLEAN
      BY <1>2 DEF ChatTyped
    <2>2. Marked(s) = [active EXCEPT !.status = s, !.finished = f]
      BY <1>2 DEF Marked
    <2> HIDE DEF f
    <2>3. /\ Marked(s) \in Run /\ Marked(s).run = active.run /\ Marked(s).status = s
          /\ Marked(s).own = active.own /\ Marked(s).finished = f
      BY <2>1, <2>2 DEF Run
    <2> QED
      BY <1>2, <2>3 DEF f
  <1> QED
    BY <1>1, <1>2

(* A step that leaves the run that is shown and the history alone, or gives    *)
(* the run a new status.                                                       *)
LEMMA OnTheWay ==
    ASSUME ChatInv, NEW r \in Sends, NEW k, SendBecomes(r, k),
           k.at \in Before => send[r].at \in Before,
           UNCHANGED history,
           UNCHANGED active \/ \E s \in RunStatuses : active' = Marked(s),
           isSending' \in BOOLEAN, isStreaming' \in BOOLEAN,
           isSending' => Holds(k) \/ (isSending /\ ~Holds(send[r])),
           isStreaming' => Streams(k) \/ (isStreaming /\ ~Streams(send[r])),
           Unfinished' => Runs(k) \/ (Unfinished /\ ~Runs(send[r]))
    PROVE  ChatInv'
  <1>1. /\ send' \in [Sends -> SendType] /\ send'[r] = k
        /\ \A q \in Sends : q # r => send'[q] = send[q]
        /\ \A q \in Sends : SendSound(send'[q])
    BY SendBecomesTyped
  <1>2. /\ active' \in Run \cup {None}
        /\ active' # None => /\ active # None
                             /\ active'.run = active.run /\ active'.own = active.own
    BY MarkedTyped DEF ChatInv, ChatTyped
  <1>3. ChatTyped'
    BY <1>1, <1>2 DEF ChatInv, ChatTyped
  <1>4. BusyHeld'
    BY <1>1 DEF ChatInv, BusyHeld
  <1>5. StreamHeld'
    BY <1>1 DEF ChatInv, StreamHeld
  <1>6. ActiveHeld'
    BY <1>1 DEF ChatInv, ActiveHeld
  <1>7. RunIsNew' /\ RunHasBegun'
    BY <1>1, <1>2 DEF ChatInv, RunIsNew, RunHasBegun
  <1> QED
    BY <1>1, <1>3, <1>4, <1>5, <1>6, <1>7, HistoryBehindKept DEF ChatInv

(* The end of a turn moves the run that is shown, whoever's it is, to the      *)
(* history.                                                                    *)
LEMMA ArchivedTyped ==
    ASSUME ChatInv, NEW s \in RunStatuses
    PROVE  /\ Archived(Marked(s)) \in [Sends -> RunStatuses \cup {None}]
           /\ \A q \in Sends : Archived(Marked(s))[q] # history[q] =>
                  active # None /\ q = active.run
  <1>1. CASE active = None
    BY <1>1, MarkedTyped DEF ChatInv, ChatTyped, Archived
  <1>2. CASE active # None
    <2>1. Marked(s) \in Run /\ Marked(s).run = active.run /\ Marked(s).status = s
      BY <1>2, MarkedTyped DEF ChatInv
    <2>2. \/ Archived(Marked(s)) = history
          \/ Archived(Marked(s)) = [history EXCEPT ![active.run] = s]
      BY <2>1 DEF Archived
    <2> QED
      BY <1>2, <2>2 DEF ChatInv, ChatTyped
  <1> QED
    BY <1>1, <1>2

(* A step that ends the turn, by which the send ends or goes on unobserved.    *)
LEMMA TurnEnds ==
    ASSUME ChatInv, NEW r \in Sends, NEW k, SendBecomes(r, k), k.at = "done",
           NEW s \in RunStatuses, Released(s),
           isStreaming' = FALSE \/ (UNCHANGED isStreaming /\ ~Streams(send[r]))
    PROVE  ChatInv'
  <1>1. /\ send' \in [Sends -> SendType] /\ send'[r] = k
        /\ \A q \in Sends : q # r => send'[q] = send[q]
        /\ \A q \in Sends : SendSound(send'[q])
    BY SendBecomesTyped
  <1>2. ~isSending' /\ isSending' \in BOOLEAN /\ isStreaming' \in BOOLEAN /\ active' = None
    BY DEF Released, ChatInv, ChatTyped
  <1>3. history' = Archived(Marked(s))
    BY DEF Released
  <1>4. ChatTyped'
    BY <1>1, <1>2, <1>3, ArchivedTyped DEF ChatTyped
  <1>5. BusyHeld' /\ ActiveHeld' /\ RunIsNew' /\ RunHasBegun'
    BY <1>2 DEF BusyHeld, ActiveHeld, Unfinished, RunIsNew, RunHasBegun
  <1>6. StreamHeld'
    BY <1>1 DEF ChatInv, StreamHeld
  <1>7. HistoryBehind'
    <2>1. k.at \notin Before
      BY DEF Before
    <2> QED
      BY <1>1, <1>3, <2>1, ArchivedTyped DEF ChatInv, HistoryBehind, RunHasBegun
  <1> QED
    BY <1>1, <1>4, <1>5, <1>6, <1>7 DEF ChatInv

-----------------------------------------------------------------------------
(* The steps of a send, as the chat sees them                                  *)

Places == {"idle", "look", "prestep", "prelude", "gone", "done"} \cup Working

(* A send that only goes to another place.                                     *)
LEMMA GotoBecomes ==
    ASSUME ChatInv, NEW r \in Sends, NEW at \in Places, Goto(r, at),
           at \in Before => send[r].at \in Before,
           at \in Working => send[r].at \in Working
    PROVE  \E k : /\ SendBecomes(r, k)
                  /\ k.at = at /\ k.aborted = send[r].aborted
                  /\ k.listed = send[r].listed /\ k.timer = send[r].timer
  <1> DEFINE k == [send[r] EXCEPT !.at = at]
  <1>1. send[r] \in SendType /\ SendSound(send[r])
    BY DEF ChatInv, ChatTyped
  <1>2. /\ k \in SendType
        /\ k.at = at /\ k.aborted = send[r].aborted
        /\ k.listed = send[r].listed /\ k.timer = send[r].timer
    BY <1>1 DEF SendType, Places
  <1>3. Becomes(r, k)
    BY DEF Goto
  <1> HIDE DEF k
  <1>4. SendSound(k)
    BY <1>1, <1>2 DEF SendSound
  <1> QED
    BY <1>2, <1>3, <1>4 DEF SendBecomes

(* The places a send leaves for good.                                          *)
LEMMA LeftTyped ==
    ASSUME ChatInv, NEW r \in Sends, NEW timer \in BOOLEAN
    PROVE  /\ Left(r, timer) \in SendType /\ Left(r, timer).at = "done"
           /\ Left(r, timer).timer = timer
           /\ Left(r, timer).aborted = (send[r].aborted /\ timer)
           /\ SendSound(Left(r, timer))
           /\ Cleaned(r) \in SendType /\ Cleaned(r).at = "done" /\ SendSound(Cleaned(r))
  <1>1. send[r] \in SendType
    BY DEF ChatInv, ChatTyped
  <1>2. FALSE \in BOOLEAN /\ \A t \in BOOLEAN : (send[r].aborted /\ t) \in BOOLEAN
    BY <1>1 DEF SendType
  <1>3. \A t \in BOOLEAN : /\ Left(r, t) \in SendType /\ Left(r, t).at = "done"
                           /\ Left(r, t).timer = t
                           /\ Left(r, t).aborted = (send[r].aborted /\ t)
    BY <1>1, <1>2 DEF Left, SendType
  <1>4. Cleaned(r) \in SendType /\ Cleaned(r).at = "done"
    BY <1>2, <1>3 DEF Cleaned, SendType
  <1>5. \A k : k.at = "done" => SendSound(k)
    BY DEF SendSound, Before, Working
  <1> QED
    BY <1>3, <1>4, <1>5

(* The exits of a send that end the turn.                                      *)
LEMMA ExitKeeps ==
    ASSUME ChatInv, NEW r \in Sends, NEW s \in RunStatuses,
           \/ Finalized(s)
           \/ Released(s) /\ UNCHANGED isStreaming /\ ~Streams(send[r]),
           \/ \E timer \in BOOLEAN : Becomes(r, Left(r, timer))
           \/ Becomes(r, Cleaned(r))
    PROVE  ChatInv'
  <1>1. PICK k : SendBecomes(r, k) /\ k.at = "done"
    BY LeftTyped DEF SendBecomes
  <1>2. Released(s) /\ (isStreaming' = FALSE \/ (UNCHANGED isStreaming /\ ~Streams(send[r])))
    BY DEF Finalized
  <1> QED
    BY <1>1, <1>2, TurnEnds

LEMMA SetupExitsKeep ==
    ASSUME ChatInv, NEW r \in Sends,
           SetupFails(r) \/ RouteFails(r) \/ ReviewEnds(r) \/ PromptRefused(r)
    PROVE  ChatInv'
  <1>1. "failed" \in RunStatuses /\ "completed" \in RunStatuses /\ FALSE \in BOOLEAN
        /\ send[r].timer \in BOOLEAN
    BY DEF RunStatuses, Ended, ChatInv, ChatTyped, SendType
  <1>2. CASE SetupFails(r)
    BY <1>1, <1>2, ExitKeeps DEF SetupFails
  <1>3. CASE RouteFails(r)
    BY <1>1, <1>3, ExitKeeps DEF RouteFails, At, Streams
  <1>4. CASE ReviewEnds(r)
    BY <1>1, <1>4, ExitKeeps DEF ReviewEnds, At, Streams
  <1>5. CASE PromptRefused(r)
    BY <1>1, <1>5, ExitKeeps DEF PromptRefused, At, Streams
  <1> QED
    BY <1>2, <1>3, <1>4, <1>5

LEMMA TryExitsKeep ==
    ASSUME ChatInv, NEW r \in Sends,
           \/ Throws(r) \/ RiskAsked(r) \/ WarmUpFails(r) \/ Discarded(r)
           \/ Finished(r) \/ GoneEnds(r)
    PROVE  ChatInv'
  <1>1. {"failed", "completed", "cancelled", "asking"} \subseteq RunStatuses
    BY DEF RunStatuses, Ended
  <1>2. \E s \in RunStatuses : Finalized(s)
    BY <1>1 DEF Throws, Caught, RiskAsked, WarmUpFails, Discarded, Finished, GoneEnds
  <1>3. Becomes(r, Cleaned(r))
    BY DEF Throws, Caught, RiskAsked, WarmUpFails, Discarded, Finished, GoneEnds
  <1> QED
    BY <1>2, <1>3, ExitKeeps

(* A send in the middle of its way that changes nothing of the chat.           *)
LEMMA AlongKeeps ==
    ASSUME ChatInv, NEW r \in Sends, NEW k, SendBecomes(r, k),
           send[r].at \in Working \ {"stream", "finish"}, k.at \in Working \cup {"gone"},
           k.aborted = send[r].aborted,
           UNCHANGED <<isSending, isStreaming, active, history>>
    PROVE  ChatInv'
  <1>1. k.at \notin Before /\ k.at # "prestep" /\ send[r].at # "prestep" /\ k.at # "done"
    BY DEF Before, Working
  <1>2. isSending' \in BOOLEAN /\ isStreaming' \in BOOLEAN
    BY DEF ChatInv, ChatTyped
  <1>3. Holds(send[r]) => Holds(k)
    BY <1>1 DEF Holds, Works, Working
  <1>4. ~Streams(send[r])
    BY DEF Streams, Working
  <1>5. Runs(send[r]) => Runs(k)
    BY <1>1 DEF Runs, Works, Working
  <1>6. Unfinished' = Unfinished
    BY DEF Unfinished
  <1> QED
    BY <1>1, <1>2, <1>3, <1>4, <1>5, <1>6, OnTheWay

LEMMA WorkingGoes ==
    ASSUME ChatInv, NEW r \in Sends, NEW at \in Working, Goto(r, at),
           send[r].at \in Working \ {"stream", "finish"},
           UNCHANGED <<isSending, isStreaming, active, history>>
    PROVE  ChatInv'
  <1>1. at \in Places /\ at \notin Before
    BY DEF Places, Before, Working
  <1>2. PICK k : SendBecomes(r, k) /\ k.at = at /\ k.aborted = send[r].aborted
                 /\ k.listed = send[r].listed
    BY <1>1, GotoBecomes
  <1> QED
    BY <1>2, AlongKeeps

LEMMA WorkKeeps ==
    ASSUME ChatInv, NEW r \in Sends,
           \/ SetUp(r) \/ ReviewBegins(r) \/ ReviewStarted(r) \/ Prepared(r)
           \/ Loaded(r) \/ Started(r) \/ Warmed(r) \/ Discards(r)
    PROVE  ChatInv'
  <1> USE DEF At
  <1>1. /\ "failed" \in RunStatuses /\ send[r].timer \in BOOLEAN
        /\ {"setup", "revstart", "review", "prepare", "load", "start", "warm", "discard", "bind"}
               \subseteq Working \ {"stream", "finish"}
    BY DEF RunStatuses, Ended, ChatInv, ChatTyped, SendType, Working
  <1>2. CASE SetUp(r)
    BY <1>1, <1>2, WorkingGoes DEF SetUp
  <1>3. CASE ReviewBegins(r)
    BY <1>1, <1>3, WorkingGoes DEF ReviewBegins
  <1>4. CASE ReviewStarted(r)
    <2>1. CASE Goto(r, "review") /\ UNCHANGED <<isSending, isStreaming, active, history>>
      BY <1>1, <1>4, <2>1, WorkingGoes DEF ReviewStarted
    <2>2. CASE Finalized("failed") /\ Becomes(r, Left(r, send[r].timer))
      BY <1>1, <2>2, ExitKeeps
    <2> QED
      BY <1>4, <2>1, <2>2 DEF ReviewStarted
  <1>5. CASE Prepared(r)
    BY <1>1, <1>5, WorkingGoes DEF Prepared
  <1>6. CASE Loaded(r)
    <2>1. CASE /\ Goto(r, "warm") \/ Goto(r, "start")
               /\ UNCHANGED <<isSending, isStreaming, active, history>>
      BY <1>1, <1>6, <2>1, WorkingGoes DEF Loaded
    <2>2. CASE Finalized("failed") /\ Becomes(r, Cleaned(r))
      BY <1>1, <2>2, ExitKeeps
    <2> QED
      BY <1>6, <2>1, <2>2 DEF Loaded
  <1>7. CASE Started(r)
    <2> DEFINE k == [send[r] EXCEPT !.at = "warm", !.started = TRUE]
    <2>1. CASE Becomes(r, k) /\ UNCHANGED <<isSending, isStreaming, active, history>>
      <3>1. send[r] \in SendType /\ SendSound(send[r]) /\ send[r].at = "start"
        BY <1>7 DEF Started, ChatInv, ChatTyped
      <3>2. /\ k \in SendType /\ k.at = "warm" /\ k.listed = send[r].listed
            /\ k.aborted = send[r].aborted /\ k.timer = send[r].timer
        BY <3>1, <1>1 DEF SendType
      <3> HIDE DEF k
      <3>3. SendSound(k)
        BY <3>1, <3>2 DEF SendSound, Before, Working
      <3> QED
        BY <1>1, <2>1, <3>1, <3>2, <3>3, AlongKeeps DEF SendBecomes
    <2>2. CASE Finalized("failed") /\ Becomes(r, Cleaned(r))
      BY <1>1, <2>2, ExitKeeps
    <2> QED
      BY <1>7, <2>1, <2>2 DEF Started
  <1>8. CASE Warmed(r)
    BY <1>1, <1>8, WorkingGoes DEF Warmed
  <1>9. CASE Discards(r)
    BY <1>1, <1>9, WorkingGoes DEF Discards
  <1> QED
    BY <1>2, <1>3, <1>4, <1>5, <1>6, <1>7, <1>8, <1>9

(* Up to the run.                                                              *)
LEMMA EarlyKeeps ==
    ASSUME ChatInv, NEW r \in Sends, NEW k, SendBecomes(r, k),
           send[r].at \in Before, k.at \in Before \cup {"done"},
           UNCHANGED <<active, history>>,
           isSending' \in BOOLEAN, isStreaming' \in BOOLEAN,
           isStreaming' => isStreaming,
           isSending' => k.at = "prestep" \/ (isSending /\ send[r].at # "prestep")
    PROVE  ChatInv'
  <1>1. k.at \notin Working
    BY DEF Before, Working
  <1>2. ~Streams(send[r]) /\ ~Runs(send[r])
    BY DEF Before, Streams, Runs, Works, Working
  <1>3. isSending' => Holds(k) \/ (isSending /\ ~Holds(send[r]))
    BY DEF Before, Holds, Works, Working
  <1>4. Unfinished' = Unfinished
    BY DEF Unfinished
  <1> QED
    BY <1>1, <1>2, <1>3, <1>4, OnTheWay

LEMMA EarlyGoes ==
    ASSUME ChatInv, NEW r \in Sends, NEW at \in Before, Goto(r, at),
           send[r].at \in Before, UNCHANGED <<isStreaming, active, history>>,
           isSending' \in BOOLEAN,
           isSending' => at = "prestep" \/ (isSending /\ send[r].at # "prestep")
    PROVE  ChatInv'
  <1>1. at \in Places /\ at \notin Working
    BY DEF Places, Before, Working
  <1>2. PICK k : SendBecomes(r, k) /\ k.at = at
    BY <1>1, GotoBecomes
  <1>3. isStreaming' \in BOOLEAN /\ (isStreaming' => isStreaming)
    BY DEF ChatInv, ChatTyped
  <1> QED
    BY <1>2, <1>3, EarlyKeeps

LEMMA PreludeKeeps ==
    ASSUME ChatInv, NEW r \in Sends,
           SendBegins(r) \/ PreStepBegins(r) \/ PreStepEnds(r) \/ PreludeAnswers(r)
    PROVE  ChatInv'
  <1> USE DEF At
  <1>1. /\ "idle" \in Before /\ "look" \in Before /\ "prestep" \in Before
        /\ "prelude" \in Before
        /\ isSending \in BOOLEAN /\ isStreaming \in BOOLEAN
        /\ TRUE \in BOOLEAN /\ FALSE \in BOOLEAN
    BY DEF Before, ChatInv, ChatTyped
  <1>2. CASE SendBegins(r)
    <2>1. CASE Goto(r, "look")
      BY <1>1, <1>2, <2>1, EarlyGoes DEF SendBegins, Begins
    <2>2. CASE Goto(r, "prelude")
      BY <1>1, <1>2, <2>2, EarlyGoes DEF SendBegins, Begins
    <2> QED
      BY <1>2, <2>1, <2>2 DEF SendBegins, Begins
  <1>3. CASE PreStepBegins(r)
    BY <1>1, <1>3, EarlyGoes DEF PreStepBegins
  <1>4. CASE PreStepEnds(r)
    BY <1>1, <1>4, EarlyGoes DEF PreStepEnds
  <1>5. CASE PreludeAnswers(r)
    <2> DEFINE k == Left(r, FALSE)
    <2>1. SendBecomes(r, k) /\ k.at = "done"
      BY <1>1, <1>5, LeftTyped DEF PreludeAnswers, SendBecomes
    <2> HIDE DEF k
    <2>2. UNCHANGED <<active, history>> /\ send[r].at = "prelude"
      BY <1>5 DEF PreludeAnswers
    <2>3. CASE UNCHANGED <<isSending, isStreaming>>
      BY <1>1, <2>1, <2>2, <2>3, EarlyKeeps
    <2>4. CASE isSending' = FALSE /\ isStreaming' = FALSE
      BY <1>1, <2>1, <2>2, <2>4, EarlyKeeps
    <2> QED
      BY <1>5, <2>3, <2>4 DEF PreludeAnswers
  <1> QED
    BY <1>2, <1>3, <1>4, <1>5

(* The run begins: it is the one that is shown, it is new, and it can be       *)
(* cancelled.                                                                  *)
LEMMA AcceptedKeeps == ASSUME ChatInv, NEW r \in Sends, Accepted(r) PROVE ChatInv'
  <1> DEFINE k == [send[r] EXCEPT !.at = "setup", !.listed = TRUE, !.timer = TRUE]
             run == [run |-> r, status |-> "working", finished |-> FALSE, own |-> TRUE]
  <1>1. send[r] \in SendType /\ SendSound(send[r]) /\ send[r].at = "prelude"
    BY DEF ChatInv, ChatTyped, Accepted, At
  <1>2. "setup" \in Working \ Before /\ "prelude" \in Before
    BY DEF Working, Before
  <1>3. /\ k \in SendType /\ k.at = "setup" /\ k.aborted = send[r].aborted
        /\ k.listed /\ k.timer
    BY <1>1, <1>2 DEF SendType
  <1>4. ~send[r].aborted /\ history[r] = None
    BY <1>1, <1>2 DEF SendSound, ChatInv, HistoryBehind
  <1>5. run \in Run /\ run.run = r /\ run.own
    BY DEF Run, RunStatuses
  <1>6. Becomes(r, k) /\ active' = run /\ isSending' = TRUE /\ UNCHANGED <<isStreaming, history>>
    BY DEF Accepted
  <1> HIDE DEF k, run
  <1>7. SendSound(k) /\ Works(k) /\ Holds(k) /\ Runs(k)
    BY <1>2, <1>3, <1>4 DEF SendSound, Works, Holds, Runs
  <1>8. SendBecomes(r, k)
    BY <1>3, <1>6, <1>7 DEF SendBecomes
  <1>9. /\ send' \in [Sends -> SendType] /\ send'[r] = k
        /\ \A q \in Sends : q # r => send'[q] = send[q]
        /\ \A q \in Sends : SendSound(send'[q])
    BY <1>8, SendBecomesTyped
  <1>10. ChatTyped'
    BY <1>5, <1>6, <1>9 DEF ChatInv, ChatTyped
  <1>11. BusyHeld' /\ ActiveHeld'
    BY <1>7, <1>9 DEF BusyHeld, ActiveHeld
  <1>12. StreamHeld'
    <2>1. ~Streams(send[r])
      BY <1>1 DEF Streams
    <2> QED
      BY <1>6, <1>9, <2>1 DEF ChatInv, StreamHeld
  <1>13. RunIsNew' /\ RunHasBegun'
    BY <1>2, <1>3, <1>4, <1>5, <1>6, <1>9 DEF RunIsNew, RunHasBegun
  <1>14. HistoryBehind'
    BY <1>2, <1>3, <1>6, <1>8, <1>1, HistoryBehindKept
  <1> QED
    BY <1>9, <1>10, <1>11, <1>12, <1>13, <1>14 DEF ChatInv

(* An exception of the review's orchestrator: the total timer stays armed.     *)
LEMMA ReviewThrowsKeeps == ASSUME ChatInv, NEW r \in Sends, ReviewThrows(r) PROVE ChatInv'
  <1> DEFINE k == Left(r, send[r].timer)
  <1>1. send[r] \in SendType /\ SendSound(send[r]) /\ send[r].at = "review"
    BY DEF ChatInv, ChatTyped, ReviewThrows, At
  <1>2. /\ k \in SendType /\ k.at = "done" /\ k.timer = send[r].timer
        /\ k.aborted = (send[r].aborted /\ send[r].timer) /\ SendBecomes(r, k)
    BY <1>1, LeftTyped DEF SendType, ReviewThrows, SendBecomes
  <1> HIDE DEF k
  <1>3. "review" \in Working /\ "done" \notin Working \cup Before
    BY DEF Working, Before
  <1>4. Works(send[r]) => Works(k)
    BY <1>1, <1>2, <1>3 DEF Works, SendSound
  <1>5. (Holds(send[r]) => Holds(k)) /\ ~Streams(send[r]) /\ (Runs(send[r]) => Runs(k))
    BY <1>1, <1>4 DEF Holds, Streams, Runs
  <1>6. UNCHANGED <<isSending, isStreaming, active, history>> /\ Unfinished' = Unfinished
        /\ isSending \in BOOLEAN /\ isStreaming \in BOOLEAN
    BY DEF ReviewThrows, Unfinished, ChatInv, ChatTyped
  <1> QED
    BY <1>2, <1>3, <1>5, <1>6, OnTheWay

(* The request, which runs its own way: the send streams, and its run is shown *)
(* as working, until the answer, an exception or a timer.                      *)
LEMMA BoundKeeps == ASSUME ChatInv, NEW r \in Sends, Bound(r) PROVE ChatInv'
  <1>1. Goto(r, "stream") /\ send[r].at = "bind"
        /\ active' = Marked("working") /\ isStreaming' = TRUE
        /\ UNCHANGED <<isSending, history>>
    BY DEF Bound, At
  <1>2. "stream" \in Places \cap Working /\ "stream" \notin Before /\ "bind" \in Working
        /\ "working" \in RunStatuses
    BY DEF Places, Working, Before, RunStatuses
  <1>3. PICK k : /\ SendBecomes(r, k) /\ k.at = "stream"
                 /\ k.aborted = send[r].aborted /\ k.listed = send[r].listed
    BY <1>1, <1>2, GotoBecomes
  <1>4. Streams(k) /\ Runs(k) /\ (Holds(send[r]) => Holds(k))
    BY <1>1, <1>2, <1>3 DEF Streams, Runs, Holds, Works
  <1>5. isSending' \in BOOLEAN /\ isStreaming' \in BOOLEAN
    BY <1>1 DEF ChatInv, ChatTyped
  <1> QED
    BY <1>1, <1>2, <1>3, <1>4, <1>5, OnTheWay

LEMMA AnsweredKeeps == ASSUME ChatInv, NEW r \in Sends, Answered(r) PROVE ChatInv'
  <1>1. Goto(r, "finish") /\ send[r].at = "stream" /\ ~isStreaming'
        /\ isStreaming' \in BOOLEAN
        /\ UNCHANGED <<isSending, active, history>>
    BY DEF Answered, At
  <1>2. "finish" \in Places \cap Working /\ "finish" \notin Before /\ "stream" \in Working
    BY DEF Places, Working, Before
  <1>3. PICK k : /\ SendBecomes(r, k) /\ k.at = "finish"
                 /\ k.aborted = send[r].aborted /\ k.listed = send[r].listed
    BY <1>1, <1>2, GotoBecomes
  <1>4. Runs(k) /\ (Holds(send[r]) => Holds(k))
    BY <1>1, <1>2, <1>3 DEF Runs, Holds, Works
  <1>5. isSending' \in BOOLEAN
    BY <1>1 DEF ChatInv, ChatTyped
  <1> QED
    BY <1>1, <1>2, <1>3, <1>4, <1>5, OnTheWay

LEMMA RuntimeGoneKeeps == ASSUME ChatInv, NEW r \in Sends, RuntimeGone(r) PROVE ChatInv'
  <1> DEFINE k == [send[r] EXCEPT !.at = "gone", !.listed = FALSE]
  <1>1. send[r] \in SendType
    BY DEF ChatInv, ChatTyped
  <1>2. k \in SendType /\ k.at = "gone" /\ Becomes(r, k)
    BY <1>1 DEF SendType, RuntimeGone
  <1> HIDE DEF k
  <1>3. "gone" \notin Before \cup Working
    BY DEF Before, Working
  <1>4. SendBecomes(r, k)
    BY <1>2, <1>3 DEF SendBecomes, SendSound
  <1>5. Holds(k) /\ Streams(k) /\ Runs(k)
    BY <1>2 DEF Holds, Streams, Runs
  <1>6. UNCHANGED <<isSending, isStreaming, active, history>>
        /\ isSending' \in BOOLEAN /\ isStreaming' \in BOOLEAN
    BY DEF RuntimeGone, ChatInv, ChatTyped
  <1>7. Unfinished' = Unfinished
    BY <1>6 DEF Unfinished
  <1> QED
    BY <1>2, <1>3, <1>4, <1>5, <1>6, <1>7, OnTheWay

-----------------------------------------------------------------------------
(* Timers and the user                                                         *)

(* An abort of a send that has begun, with its timer armed or fired.           *)
LEMMA AbortTyped ==
    ASSUME NEW k \in SendType, SendSound(k), k.at \notin Before
    PROVE  /\ Aborted(k) \in SendType /\ SendSound(Aborted(k))
           /\ Aborted(k).at = k.at /\ Aborted(k).listed = k.listed
           /\ Aborted(k).aborted = (k.at # "done" \/ k.timer)
           /\ [Aborted(k) EXCEPT !.listed = FALSE] \in SendType
           /\ [Aborted(k) EXCEPT !.listed = FALSE].at = k.at
           /\ SendSound([Aborted(k) EXCEPT !.listed = FALSE])
  <1>1. (k.at # "done" \/ k.timer) \in BOOLEAN /\ FALSE \in BOOLEAN
    OBVIOUS
  <1> DEFINE a == Aborted(k)
             b == [a EXCEPT !.listed = FALSE]
  <1>2. /\ a \in SendType /\ a.at = k.at /\ a.listed = k.listed
        /\ a.aborted = (k.at # "done" \/ k.timer)
    BY <1>1 DEF Aborted, SendType
  <1> HIDE DEF a
  <1>3. /\ b \in SendType /\ b.at = k.at /\ b.aborted = a.aborted
    BY <1>1, <1>2 DEF SendType
  <1> HIDE DEF b
  <1>4. k.at \in Working => k.at # "done"
    BY DEF Working
  <1>5. SendSound(a) /\ SendSound(b)
    BY <1>2, <1>3, <1>4 DEF SendSound
  <1> QED
    BY <1>2, <1>3, <1>5 DEF a, b

LEMMA PhaseTimeoutKeeps == ASSUME ChatInv, NEW r \in Sends, PhaseTimeout(r) PROVE ChatInv'
  <1> DEFINE k == Aborted(send[r])
  <1>1. /\ send[r] \in SendType /\ SendSound(send[r])
        /\ send[r].at \in {"stream", "finish", "gone"} /\ send[r].at \notin Before
    BY DEF ChatInv, ChatTyped, PhaseTimeout, Before
  <1>2. SendBecomes(r, k) /\ k.at = send[r].at /\ k.listed = send[r].listed
    BY <1>1, AbortTyped DEF PhaseTimeout, SendBecomes
  <1> HIDE DEF k
  <1>3. Runs(k)
    BY <1>1, <1>2 DEF Runs
  <1>4. /\ ~isSending' /\ ~isStreaming' /\ isSending' \in BOOLEAN /\ isStreaming' \in BOOLEAN
        /\ UNCHANGED <<active, history>>
    BY DEF PhaseTimeout
  <1> QED
    BY <1>1, <1>2, <1>3, <1>4, OnTheWay

LEMMA TotalTimeoutKeeps == ASSUME ChatInv, NEW r \in Sends, TotalTimeout(r) PROVE ChatInv'
  <1> DEFINE j == [send[r] EXCEPT !.timer = FALSE]
             k == [j EXCEPT !.aborted = j.at # "done" \/ j.timer]
  <1>1. send[r] \in SendType /\ SendSound(send[r]) /\ send[r].timer
    BY DEF ChatInv, ChatTyped, TotalTimeout
  <1>2. send[r].at \notin Before
    BY <1>1 DEF SendSound
  <1>3. /\ j \in SendType /\ j.at = send[r].at /\ j.listed = send[r].listed /\ ~j.timer
    BY <1>1 DEF SendType
  <1> HIDE DEF j
  <1>4. (j.at # "done" \/ j.timer) \in BOOLEAN
    OBVIOUS
  <1>5. /\ k \in SendType /\ k.at = send[r].at /\ k.listed = send[r].listed
        /\ k.aborted = (j.at # "done" \/ j.timer)
    BY <1>3, <1>4 DEF SendType
  <1>6. Becomes(r, k)
    BY DEF TotalTimeout, Aborted, j
  <1> HIDE DEF k
  <1>7. k.at \in Working => k.aborted
    BY <1>3, <1>5 DEF Working
  <1>8. SendBecomes(r, k)
    BY <1>2, <1>5, <1>6, <1>7 DEF SendBecomes, SendSound
  <1>9. CASE send[r].aborted
    <2>1. UNCHANGED <<isSending, isStreaming, active, history>>
          /\ isSending' \in BOOLEAN /\ isStreaming' \in BOOLEAN
      BY <1>9 DEF TotalTimeout, ChatInv, ChatTyped
    <2>2. ~Works(send[r])
      BY <1>9 DEF Works
    <2>3. /\ Holds(send[r]) => Holds(k)
          /\ Streams(send[r]) => Streams(k)
          /\ Runs(send[r]) => Runs(k)
      BY <1>5, <2>2 DEF Holds, Streams, Runs
    <2>4. Unfinished' = Unfinished
      BY <2>1 DEF Unfinished
    <2> QED
      BY <1>2, <1>5, <1>8, <2>1, <2>3, <2>4, OnTheWay
  <1>10. CASE ~send[r].aborted
    <2>1. /\ active' = Marked("timeout") /\ UNCHANGED history
          /\ ~isSending' /\ ~isStreaming'
          /\ isSending' \in BOOLEAN /\ isStreaming' \in BOOLEAN
      BY <1>10 DEF TotalTimeout, Expired
    <2>2. "timeout" \in RunStatuses /\ "timeout" \in Ended
      BY DEF RunStatuses, Ended
    <2>3. ~Unfinished'
      BY <2>1, <2>2, MarkedTyped DEF Unfinished, ChatInv
    <2> QED
      BY <1>2, <1>5, <1>8, <2>1, <2>2, <2>3, OnTheWay
  <1> QED
    BY <1>9, <1>10

(* The user's cancel: the run goes to the history, and its send is aborted     *)
(* wherever it is.                                                             *)
LEMMA CancelKeeps == ASSUME ChatInv, Cancel PROVE ChatInv'
  <1>1. /\ send' \in [Sends -> SendType]
        /\ \A q \in Sends : send'[q].at = send[q].at /\ SendSound(send'[q])
    <2> SUFFICES ASSUME NEW q \in Sends
                 PROVE  /\ send'[q] \in SendType /\ send'[q].at = send[q].at
                        /\ SendSound(send'[q])
      BY DEF Cancel
    <2>1. send[q] \in SendType /\ SendSound(send[q])
      BY DEF ChatInv, ChatTyped
    <2>2. CASE active # None /\ active.run = q /\ send[q].listed
      <3>1. send'[q] = [Aborted(send[q]) EXCEPT !.listed = FALSE]
        BY <2>2 DEF Cancel
      <3>2. send[q].at \notin Before
        BY <2>2 DEF ChatInv, RunHasBegun
      <3> QED
        BY <2>1, <3>1, <3>2, AbortTyped
    <2>3. CASE ~(active # None /\ active.run = q /\ send[q].listed)
      <3>1. send'[q] = send[q]
        BY <2>3 DEF Cancel
      <3> QED
        BY <2>1, <3>1
    <2> QED
      BY <2>2, <2>3
  <1>2. /\ ~isSending' /\ ~isStreaming' /\ isSending' \in BOOLEAN /\ isStreaming' \in BOOLEAN
        /\ active' = None /\ history' = Archived(Marked("cancelled"))
    BY DEF Cancel, Cancelled
  <1>3. "cancelled" \in RunStatuses
    BY DEF RunStatuses, Ended
  <1>4. ChatTyped'
    BY <1>1, <1>2, <1>3, ArchivedTyped DEF ChatTyped
  <1>5. BusyHeld' /\ StreamHeld' /\ ActiveHeld' /\ RunIsNew' /\ RunHasBegun'
    BY <1>2 DEF BusyHeld, StreamHeld, ActiveHeld, Unfinished, RunIsNew, RunHasBegun
  <1>6. HistoryBehind'
    BY <1>1, <1>2, <1>3, ArchivedTyped DEF ChatInv, HistoryBehind, RunHasBegun
  <1> QED
    BY <1>1, <1>4, <1>5, <1>6 DEF ChatInv

(* A clear forgets the run and the history, and leaves the sends alone.        *)
LEMMA ClearKeeps == ASSUME ChatInv, Clear PROVE ChatInv'
  <1>1. active' = None /\ history' = [r \in Sends |-> None] /\ UNCHANGED send
    BY DEF Clear
  <1>2. /\ isSending' \in BOOLEAN /\ isStreaming' \in BOOLEAN
        /\ isSending' => isSending
        /\ isStreaming' => isStreaming
    <2>1. CASE UNCHANGED <<isSending, isStreaming>>
      BY <2>1 DEF ChatInv, ChatTyped
    <2>2. CASE isSending' = FALSE /\ isStreaming' = FALSE
      BY <2>2
    <2> QED
      BY <2>1, <2>2 DEF Clear
  <1>3. ChatTyped' /\ \A q \in Sends : SendSound(send'[q])
    BY <1>1, <1>2 DEF ChatInv, ChatTyped
  <1>4. BusyHeld' /\ StreamHeld'
    BY <1>1, <1>2 DEF ChatInv, BusyHeld, StreamHeld
  <1>5. ActiveHeld' /\ RunIsNew' /\ RunHasBegun' /\ HistoryBehind'
    BY <1>1 DEF ActiveHeld, Unfinished, RunIsNew, RunHasBegun, HistoryBehind
  <1> QED
    BY <1>3, <1>4, <1>5 DEF ChatInv

-----------------------------------------------------------------------------
(* Questions and plans                                                         *)

(* The message that an answer or a plan sends begins, or is refused.           *)
MayBegin == UNCHANGED send \/ \E q \in Sends : At(q, "idle") /\ Goto(q, "prelude")

LEMMA MayBeginTyped ==
    ASSUME ChatInv, MayBegin
    PROVE  /\ send' \in [Sends -> SendType]
           /\ \A q \in Sends : /\ SendSound(send'[q])
                               /\ send'[q].at \in Before <=> send[q].at \in Before
                               /\ Holds(send[q]) => Holds(send'[q])
                               /\ Streams(send[q]) => Streams(send'[q])
                               /\ Runs(send[q]) => Runs(send'[q])
  <1>1. CASE UNCHANGED send
    BY <1>1 DEF ChatInv, ChatTyped
  <1>2. ASSUME NEW q \in Sends, At(q, "idle"), Goto(q, "prelude")
        PROVE  /\ send' \in [Sends -> SendType]
               /\ \A p \in Sends : /\ SendSound(send'[p])
                                   /\ send'[p].at \in Before <=> send[p].at \in Before
                                   /\ Holds(send[p]) => Holds(send'[p])
                                   /\ Streams(send[p]) => Streams(send'[p])
                                   /\ Runs(send[p]) => Runs(send'[p])
    <2>1. /\ "prelude" \in Places /\ "prelude" \in Before /\ "idle" \in Before
          /\ "prelude" \notin Working /\ send[q].at = "idle"
      BY <1>2 DEF Places, Before, Working, At
    <2>2. PICK k : SendBecomes(q, k) /\ k.at = "prelude"
      BY <1>2, <2>1, GotoBecomes
    <2>3. /\ send' \in [Sends -> SendType] /\ send'[q] = k
          /\ \A p \in Sends : p # q => send'[p] = send[p]
          /\ \A p \in Sends : SendSound(send'[p])
      BY <2>2, SendBecomesTyped
    <2>4. ~Holds(send[q]) /\ ~Streams(send[q]) /\ ~Runs(send[q])
      BY <2>1 DEF Holds, Streams, Runs, Works, Working
    <2> QED
      BY <2>1, <2>2, <2>3, <2>4
  <1> QED
    BY <1>1, <1>2 DEF MayBegin

(* A step that puts another run in the place of the active one, made anew, or  *)
(* gives it another status, or removes it.                                     *)
LEMMA NewlyShown ==
    ASSUME ChatInv, MayBegin, UNCHANGED <<isSending, isStreaming, history>>,
           active' \in Run \cup {None},
           Unfinished' => Unfinished,
           active' # None =>
               \/ active # None /\ active'.run = active.run /\ active'.own = active.own
               \/ /\ ~active'.own
                  /\ active'.run \in Sends => send[active'.run].at \notin Before
    PROVE  ChatInv'
  <1>1. ChatTyped' /\ \A q \in Sends : SendSound(send'[q])
    BY MayBeginTyped DEF ChatInv, ChatTyped
  <1>2. BusyHeld' /\ StreamHeld' /\ ActiveHeld'
    BY MayBeginTyped DEF ChatInv, BusyHeld, StreamHeld, ActiveHeld
  <1>3. RunIsNew'
    BY DEF ChatInv, RunIsNew
  <1>4. RunHasBegun' /\ HistoryBehind'
    BY MayBeginTyped DEF ChatInv, RunHasBegun, HistoryBehind
  <1> QED
    BY <1>1, <1>2, <1>3, <1>4 DEF ChatInv

LEMMA StatusShown ==
    ASSUME ChatInv, NEW s \in RunStatuses, active' = Marked(s),
           MayBegin, UNCHANGED <<isSending, isStreaming, history>>
    PROVE  ChatInv'
  <1>1. /\ active' \in Run \cup {None}
        /\ active' # None => /\ active # None /\ active'.run = active.run
                             /\ active'.own = active.own
                             /\ active'.finished = (active.finished \/ s \in Ended)
    BY MarkedTyped DEF ChatInv
  <1>2. Unfinished' => Unfinished
    BY <1>1 DEF Unfinished
  <1> QED
    BY <1>1, <1>2, NewlyShown

LEMMA AnewShown ==
    ASSUME ChatInv, NEW i \in Sends \cup {None}, NEW s \in RunStatuses,
           i \in Sends => send[i].at \notin Before,
           active' = [run |-> i, status |-> s, finished |-> FALSE, own |-> FALSE],
           MayBegin, UNCHANGED <<isSending, isStreaming, history>>
    PROVE  ChatInv'
  <1>1. FALSE \in BOOLEAN
    OBVIOUS
  <1>2. active' \in Run /\ active'.run = i /\ ~active'.own
    BY <1>1 DEF Run
  <1>3. ~Unfinished'
    BY <1>2 DEF Unfinished
  <1> QED
    BY <1>2, <1>3, NewlyShown

LEMMA CardStepsKeepChat == ASSUME ChatInv, CardsInv, CardSteps PROVE ChatInv'
  <1>1. {"asking", "resuming", "cancelled"} \subseteq RunStatuses
    BY DEF RunStatuses, Ended
  <1>2. CASE (\E r \in Sends : AsksUser(r) \/ RejectsPlan(r))
    BY <1>1, <1>2, StatusShown DEF AsksUser, RejectsPlan, MayBegin
  <1>3. CASE (\E r \in Sends : Proposes(r)) \/ Answers
    <2>1. UNCHANGED <<isSending, isStreaming, history, send>> /\ active' \in {active, Marked("asking")}
      BY <1>3 DEF Proposes, Answers
    <2>2. CASE active' = Marked("asking")
      BY <1>1, <2>1, <2>2, StatusShown DEF MayBegin
    <2>3. CASE UNCHANGED active
      BY <2>1, <2>3, NewlyShown DEF MayBegin, Unfinished, ChatInv, ChatTyped
    <2> QED
      BY <2>1, <2>2, <2>3
  <1>4. ASSUME NEW r \in Sends, ApprovesPlan(r) PROVE ChatInv'
    <2>1. MayBegin /\ UNCHANGED <<isSending, isStreaming, history>>
      BY <1>4 DEF ApprovesPlan, Begins, MayBegin
    <2>2. CASE active # None
      BY <1>1, <1>4, <2>1, <2>2, StatusShown DEF ApprovesPlan
    <2>3. CASE active = None
      <3>1. send[r].at \notin Before
        BY <1>4 DEF CardsInv, ApprovesPlan
      <3>2. active' = [run |-> r, status |-> "resuming", finished |-> FALSE, own |-> FALSE]
        BY <1>4, <2>3 DEF ApprovesPlan
      <3> QED
        BY <1>1, <2>1, <3>1, <3>2, AnewShown
    <2> QED
      BY <2>2, <2>3
  <1>5. ASSUME NEW i \in Sends \cup {None}, Rehydrates(i) PROVE ChatInv'
    <2>1. i \in Sends => send[i].at \notin Before
      <3>1. None \notin Sends
        BY RuntimeSlotsAssumption DEF Clients
      <3> QED
        BY <1>5, <3>1 DEF Rehydrates, CardsInv
    <2>2. MayBegin /\ UNCHANGED <<isSending, isStreaming, history>>
      BY <1>5 DEF Rehydrates, MayBegin
    <2>3. active' = [run |-> i, status |-> "asking", finished |-> FALSE, own |-> FALSE]
      BY <1>5 DEF Rehydrates
    <2> QED
      BY <1>1, <2>1, <2>2, <2>3, AnewShown
  <1>6. CASE FollowUp
    <2>1. /\ MayBegin /\ UNCHANGED <<isSending, isStreaming, history>>
          /\ UNCHANGED active \/ active' = None
      BY <1>6 DEF FollowUp, Begins, MayBegin
    <2> QED
      BY <2>1, NewlyShown DEF Unfinished, ChatInv, ChatTyped
  <1>7. CASE \E q \in Sends : FollowUpEnds(q)
    <2>1. /\ MayBegin /\ UNCHANGED <<isSending, isStreaming, history>> /\ active' = None
      BY <1>7 DEF FollowUpEnds, MayBegin
    <2> QED
      BY <2>1, NewlyShown DEF Unfinished
  <1> QED
    BY <1>2, <1>3, <1>4, <1>5, <1>6, <1>7 DEF CardSteps

(* No send gets its place in front of the run back.                            *)
NoWayBack == \A q \in Sends : send'[q].at \in Before => send[q].at \in Before

LEMMA CardsKept ==
    ASSUME CardsInv, NoWayBack, cards' \in CardsType,
           \A r \in cards'.asked \cup cards'.planned :
               r \in cards.asked \cup cards.planned \/ send[r].at \notin Before
    PROVE  CardsInv'
  <1>1. cards'.asked \subseteq Sends /\ cards'.planned \subseteq Sends
    BY DEF CardsType
  <1> QED
    BY <1>1 DEF CardsInv, NoWayBack

LEMMA CardStepsKeepCards == ASSUME ChatInv, CardsInv, CardSteps PROVE CardsInv'
  <1> USE DEF CardsType
  <1>1. cards \in CardsType
    BY DEF CardsInv
  <1>2. MayBegin => NoWayBack
    BY MayBeginTyped DEF NoWayBack
  <1>3. ASSUME NEW r \in Sends, AsksUser(r) \/ Proposes(r) PROVE CardsInv'
    <2>1. send[r].at \notin Before /\ MayBegin
      BY <1>3 DEF AsksUser, Proposes, At, Before, MayBegin
    <2>2. /\ cards' \in CardsType
          /\ cards'.asked \cup cards'.planned \subseteq cards.asked \cup cards.planned \cup {r}
      BY <1>1, <1>3 DEF AsksUser, Proposes
    <2> QED
      BY <1>2, <2>1, <2>2, CardsKept
  <1>4. ASSUME NEW r \in Sends, ApprovesPlan(r) \/ RejectsPlan(r) \/ FollowUpEnds(r)
        PROVE  CardsInv'
    <2>1. MayBegin
      BY <1>4 DEF ApprovesPlan, RejectsPlan, FollowUpEnds, Begins, MayBegin
    <2>2. /\ cards' \in CardsType
          /\ cards'.asked \subseteq cards.asked /\ cards'.planned \subseteq cards.planned
      BY <1>1, <1>4 DEF ApprovesPlan, RejectsPlan, FollowUpEnds
    <2> QED
      BY <1>2, <2>1, <2>2, CardsKept
  <1>5. CASE (\E i \in Sends \cup {None} : Rehydrates(i)) \/ Answers \/ FollowUp
    <2>1. MayBegin
      BY <1>5 DEF Rehydrates, Answers, FollowUp, Begins, MayBegin
    <2>2. /\ cards' \in CardsType
          /\ cards'.asked = cards.asked /\ cards'.planned = cards.planned
      BY <1>1, <1>5 DEF Rehydrates, Answers, FollowUp
    <2> QED
      BY <1>2, <2>1, <2>2, CardsKept
  <1> QED
    BY <1>3, <1>4, <1>5 DEF CardSteps

(* The steps of a send, and of the user, take no send back.                    *)
LEMMA SendStepsNoWayBack == ASSUME ChatInv, NEW r \in Sends, SendSteps(r) PROVE NoWayBack
  <1>1. send \in [Sends -> SendType] /\ send[r] \in SendType
    BY DEF ChatInv, ChatTyped
  <1>2. ASSUME NEW k, Becomes(r, k), k.at \in Before => send[r].at \in Before PROVE NoWayBack
    BY <1>1, <1>2 DEF Becomes, NoWayBack
  <1>3. ASSUME NEW at, Goto(r, at), at \in Before => send[r].at \in Before PROVE NoWayBack
    <2>1. [send[r] EXCEPT !.at = at].at = at
      BY <1>1 DEF SendType
    <2> QED
      BY <1>2, <1>3, <2>1 DEF Goto
  <1>4. CASE SendBegins(r) \/ PreStepBegins(r) \/ PreStepEnds(r)
    <2>1. send[r].at \in Before /\ \E at : Goto(r, at)
      BY <1>4 DEF SendBegins, Begins, PreStepBegins, PreStepEnds, At, Before
    <2> QED
      BY <1>3, <2>1
  <1>5. ASSUME NEW at, Goto(r, at),
               at \in {"prepare", "review", "revstart", "load", "warm", "start", "discard",
                       "bind", "stream", "finish"}
        PROVE  NoWayBack
    BY <1>3, <1>5 DEF Before
  <1>6. CASE \/ SetUp(r) \/ ReviewBegins(r) \/ Prepared(r) \/ Warmed(r) \/ Discards(r)
             \/ Bound(r) \/ Answered(r)
    BY <1>5, <1>6 DEF SetUp, ReviewBegins, Prepared, Warmed, Discards, Bound, Answered
  <1>7. ASSUME NEW timer \in BOOLEAN, Becomes(r, Left(r, timer)) PROVE NoWayBack
    BY <1>2, <1>7, LeftTyped DEF Before
  <1>8. ASSUME Becomes(r, Cleaned(r)) PROVE NoWayBack
    BY <1>2, <1>8, LeftTyped DEF Before
  <1>9. FALSE \in BOOLEAN /\ send[r].timer \in BOOLEAN
    BY <1>1 DEF SendType
  <1>10. CASE \/ PreludeAnswers(r) \/ SetupFails(r) \/ RouteFails(r) \/ ReviewEnds(r)
              \/ ReviewThrows(r)
    BY <1>7, <1>9, <1>10 DEF PreludeAnswers, SetupFails, RouteFails, ReviewEnds, ReviewThrows
  <1>11. CASE \/ PromptRefused(r) \/ Throws(r) \/ RiskAsked(r) \/ WarmUpFails(r)
              \/ Discarded(r) \/ Finished(r) \/ GoneEnds(r)
    BY <1>8, <1>11 DEF PromptRefused, Throws, Caught, RiskAsked, WarmUpFails, Discarded,
                       Finished, GoneEnds
  <1>12. CASE ReviewStarted(r)
    BY <1>5, <1>7, <1>9, <1>12 DEF ReviewStarted
  <1>13. CASE Loaded(r)
    BY <1>5, <1>8, <1>13 DEF Loaded
  <1>14. CASE Started(r)
    <2>1. [send[r] EXCEPT !.at = "warm", !.started = TRUE].at = "warm"
      BY <1>1 DEF SendType
    <2> QED
      BY <1>2, <1>8, <1>14, <2>1 DEF Started, Before
  <1>15. CASE Accepted(r) \/ RuntimeGone(r)
    <2>1. /\ [send[r] EXCEPT !.at = "setup", !.listed = TRUE, !.timer = TRUE].at = "setup"
          /\ [send[r] EXCEPT !.at = "gone", !.listed = FALSE].at = "gone"
      BY <1>1 DEF SendType
    <2> QED
      BY <1>2, <1>15, <2>1 DEF Accepted, RuntimeGone, Before
  <1>16. CASE PhaseTimeout(r) \/ TotalTimeout(r)
    <2>1. /\ Aborted(send[r]).at = send[r].at
          /\ Aborted([send[r] EXCEPT !.timer = FALSE]).at = send[r].at
      BY <1>1 DEF Aborted, SendType
    <2> QED
      BY <1>2, <1>16, <2>1 DEF PhaseTimeout, TotalTimeout
  <1> QED
    BY <1>4, <1>6, <1>10, <1>11, <1>12, <1>13, <1>14, <1>15, <1>16 DEF SendSteps

LEMMA SendStepsKeepCards ==
    ASSUME ChatInv, CardsInv, NEW r \in Sends, SendSteps(r) PROVE CardsInv'
  <1>1. NoWayBack
    BY SendStepsNoWayBack
  <1>2. UNCHANGED cards \/ cards' = [cards EXCEPT !.followUps = @ \ {r}]
    BY DEF SendSteps, SendBegins, PreStepBegins, PreStepEnds, PreludeAnswers, Accepted,
           SetupFails, RouteFails, SetUp, ReviewBegins, ReviewStarted, ReviewEnds, ReviewThrows,
           PromptRefused, Throws, Prepared, RiskAsked, Loaded, Started, Warmed, WarmUpFails,
           Discards, Discarded, Bound, Answered, Finished, RuntimeGone, GoneEnds,
           PhaseTimeout, TotalTimeout
  <1>3. /\ cards' \in CardsType
        /\ cards'.asked = cards.asked /\ cards'.planned = cards.planned
    BY <1>2 DEF CardsInv, CardsType
  <1> QED
    BY <1>1, <1>3, CardsKept

(* A cancel and a clear leave the sends where they are.                        *)
LEMMA UserKeepsCards == ASSUME ChatInv, CardsInv, Cancel \/ Clear PROVE CardsInv'
  <1>1. NoWayBack
    <2> SUFFICES ASSUME NEW q \in Sends PROVE send'[q].at = send[q].at
      BY DEF NoWayBack
    <2>1. send[q] \in SendType
      BY DEF ChatInv, ChatTyped
    <2>2. /\ Aborted(send[q]).at = send[q].at
          /\ [Aborted(send[q]) EXCEPT !.listed = FALSE].at = send[q].at
      BY <2>1 DEF Aborted, SendType
    <2> QED
      BY <2>2 DEF Cancel, Clear
  <1>2. /\ cards' \in CardsType
        /\ cards'.asked = cards.asked /\ cards'.planned \subseteq cards.planned
    BY DEF CardsInv, CardsType, Cancel, Clear
  <1> QED
    BY <1>1, <1>2, CardsKept

-----------------------------------------------------------------------------
(* The steps of the chat, as the slots see them                                *)

(* What a send does to the slots is what any client may do.                    *)
SlotsSide ==
    /\ ProcessStep /\ CallStep
    /\ UNCHANGED <<lock, supervisor, watcher>>
    /\ quiet' \in BOOLEAN /\ left' \in LimitType

LEMMA SlotsSideKeeps == SlotsIInv /\ SlotsSide => SlotsIInv'
  BY ActorStep
  DEF SlotsSide, SlotsIInv, supervisor, SupervisorInv, SupervisorTyped, WatcherInv,
      WatcherTyped, BoundsTyped

LEMMA RouteTyped == \A r \in Sends : SlotOf(r) \in Slots /\ Route[r].model \in Models
  BY ChatSendAssumption DEF SlotOf

LEMMA LeaveTheSlots ==
    ASSUME SlotsIInv, NEW r \in Sends,
           \/ PreStepBegins(r) \/ PreStepEnds(r) \/ PreludeAnswers(r) \/ Accepted(r)
           \/ SetupFails(r) \/ RouteFails(r) \/ SetUp(r) \/ ReviewEnds(r) \/ ReviewThrows(r)
           \/ PromptRefused(r) \/ Throws(r) \/ Prepared(r) \/ Discarded(r) \/ Answered(r)
           \/ Finished(r) \/ RuntimeGone(r) \/ GoneEnds(r)
           \/ PhaseTimeout(r) \/ TotalTimeout(r)
    PROVE  SlotsIInv'
  <1>1. UNCHANGED slotVars
    BY DEF PreStepBegins, PreStepEnds, PreludeAnswers, Accepted, SetupFails, RouteFails, SetUp,
           ReviewEnds, ReviewThrows, PromptRefused, Throws, Prepared, Discarded, Answered,
           Finished, RuntimeGone, GoneEnds, PhaseTimeout, TotalTimeout
  <1> QED
    BY <1>1, SlotsStutter

LEMMA UseTheSlots ==
    ASSUME SlotsIInv, NEW r \in Sends,
           \/ ReviewBegins(r) \/ ReviewStarted(r) \/ RiskAsked(r) \/ Loaded(r) \/ Started(r)
           \/ Warmed(r) \/ WarmUpFails(r) \/ Discards(r) \/ Bound(r)
    PROVE  SlotsIInv'
  <1>1. /\ quiet \in BOOLEAN /\ left \in LimitType
        /\ r \in Clients /\ SlotOf(r) \in Slots /\ Route[r].model \in Models
    BY RouteTyped DEF SlotsIInv, BoundsTyped, Clients
  <1>2. ProcessStep
    BY <1>1 DEF ReviewBegins, ReviewStarted, RiskAsked, Loaded, Started, Warmed, WarmUpFails,
                Discards, Bound, ProcessStep, Reads, Stops
  <1>3. CallStep
    BY <1>1 DEF ReviewBegins, ReviewStarted, RiskAsked, Loaded, Started, Warmed, WarmUpFails,
                Discards, Bound, CallStep, Asks, Takes
  <1>4. UNCHANGED <<lock, supervisor, watcher, left>>
    BY DEF ReviewBegins, ReviewStarted, RiskAsked, Loaded, Started, Warmed, WarmUpFails,
           Discards, Bound
  <1>5. quiet' = FALSE \/ UNCHANGED quiet
    BY DEF ReviewBegins, ReviewStarted, RiskAsked, Loaded, Started, Warmed, WarmUpFails,
           Discards, Bound
  <1>6. quiet' \in BOOLEAN
    BY <1>1, <1>5
  <1> QED
    BY <1>1, <1>2, <1>3, <1>4, <1>6, SlotsSideKeeps DEF SlotsSide

(* Sends that begin, cancels, clears, questions and plans count against the    *)
(* bounds.                                                                     *)
LEMMA CountAgainstBounds ==
    ASSUME SlotsIInv, (\E r \in Sends : SendBegins(r)) \/ Cancel \/ Clear \/ CardSteps
    PROVE  SlotsIInv'
  <1>1. left' \in LimitType
    <2>1. BoundsTyped /\ left \in LimitType
      BY DEF SlotsIInv, BoundsTyped
    <2>2. CASE (\E r \in Sends : SendBegins(r)) \/ Cancel \/ Clear
      BY <2>1, <2>2, BoundsKept DEF SendBegins, Begins, Cancel, Clear
    <2>3. CASE CardSteps
      <3>1. UNCHANGED slotVars => UNCHANGED left
        BY DEF slotVars
      <3> QED
        BY <2>1, <2>3, <3>1, BoundsKept
        DEF CardSteps, AsksUser, Proposes, ApprovesPlan, RejectsPlan, FollowUpEnds, Rehydrates,
            Answers, FollowUp, Begins
    <2> QED
      BY <2>2, <2>3
  <1>2. UNCHANGED <<backend, supervisor, watcher, quiet>>
    BY DEF SendBegins, Begins, Cancel, Clear, CardSteps, AsksUser, Proposes, ApprovesPlan,
           RejectsPlan, FollowUpEnds, Rehydrates, Answers, FollowUp, slotVars
  <1>3. UNCHANGED <<process, status, lock, call>>
    BY <1>2 DEF backend
  <1> QED
    BY <1>1, <1>2, <1>3, SlotsSideKeeps
    DEF SlotsSide, ProcessStep, CallStep, SlotsIInv, BoundsTyped

-----------------------------------------------------------------------------
(* The invariant                                                               *)

LEMMA SendStepsKeep == ASSUME IInv, NEW r \in Sends, SendSteps(r) PROVE IInv'
  <1>1. SlotsIInv'
    BY LeaveTheSlots, UseTheSlots, CountAgainstBounds DEF IInv, SendSteps
  <1>2. ChatInv'
    BY PreludeKeeps, AcceptedKeeps, SetupExitsKeep, TryExitsKeep, WorkKeeps, ReviewThrowsKeeps,
       BoundKeeps, AnsweredKeeps, RuntimeGoneKeeps, PhaseTimeoutKeeps, TotalTimeoutKeeps
    DEF IInv, SendSteps
  <1> QED
    BY <1>1, <1>2, SendStepsKeepCards DEF IInv

LEMMA ChatStutter == ChatInv /\ UNCHANGED chat => ChatInv'
  BY DEF chat, ChatInv, ChatTyped, BusyHeld, StreamHeld, ActiveHeld, Unfinished, RunIsNew,
         RunHasBegun, HistoryBehind

LEMMA CardsStutter == CardsInv /\ UNCHANGED chat => CardsInv'
  BY DEF chat, CardsInv

LEMMA NextKeeps == IInv /\ [Next]_vars => IInv'
  <1> SUFFICES ASSUME IInv, [Next]_vars PROVE IInv'
    OBVIOUS
  <1>1. CASE Cancel
    BY <1>1, CancelKeeps, UserKeepsCards, CountAgainstBounds DEF IInv
  <1>2. CASE Clear
    BY <1>2, ClearKeeps, UserKeepsCards, CountAgainstBounds DEF IInv
  <1>3. CASE (SlotStep \/ WatchBegins(Blocked)) /\ UNCHANGED chat
    BY <1>3, SlotStepKeeps, WatchBeginsKeeps, ChatStutter, CardsStutter DEF IInv
  <1>4. CASE UNCHANGED vars
    BY <1>4, SlotsStutter, ChatStutter, CardsStutter DEF IInv, vars
  <1>5. CASE CardSteps
    BY <1>5, CardStepsKeepChat, CardStepsKeepCards, CountAgainstBounds DEF IInv
  <1> QED
    BY <1>1, <1>2, <1>3, <1>4, <1>5, SendStepsKeep DEF Next

LEMMA InitKeeps == Init => IInv
  <1> SUFFICES ASSUME Init PROVE IInv
    OBVIOUS
  <1>1. SlotsIInv
    BY SlotsInitKeeps DEF Init
  <1>2. NewSend \in SendType /\ NewSend.at = "idle" /\ SendSound(NewSend)
    <2>1. /\ NewSend.at = "idle" /\ ~NewSend.aborted /\ ~NewSend.listed /\ ~NewSend.timer
          /\ NewSend \in SendType
      BY DEF NewSend, SendType
    <2> QED
      BY <2>1 DEF SendSound, Before, Working
  <1>3. ~isSending /\ ~isStreaming /\ isSending \in BOOLEAN /\ isStreaming \in BOOLEAN
        /\ active = None
    BY DEF Init
  <1>4. ChatTyped
    BY <1>2, <1>3 DEF Init, ChatTyped
  <1>5. BusyHeld /\ StreamHeld /\ ActiveHeld /\ RunIsNew /\ RunHasBegun /\ HistoryBehind
    BY <1>3 DEF Init, BusyHeld, StreamHeld, ActiveHeld, Unfinished, RunIsNew, RunHasBegun,
                HistoryBehind
  <1>6. CardsInv
    BY DEF Init, CardsInv, CardsType, NoCards
  <1> QED
    BY <1>1, <1>2, <1>4, <1>5, <1>6 DEF Init, IInv, ChatInv

(* The invariant that carries every result below: sendMessage, its timers, the *)
(* user and the actors of the slots keep it, in whatever order they come.      *)
THEOREM SpecIInv == Spec => []IInv
  BY InitKeeps, NextKeeps, PTL DEF Spec

(* Every variable of the chat and of the slots keeps its type.                 *)
THEOREM TypeCorrect == Spec => []TypeOK
  <1>1. IInv => TypeOK
    BY SlotsIInvTyped DEF IInv, ChatInv, ChatTyped, CardsInv, TypeOK
  <1> QED
    BY <1>1, SpecIInv, PTL

(* A slot's status tells what runs in it, with the chat's sends among those    *)
(* who start and stop it.                                                      *)
THEOREM StatusTells == Spec => []StatusTellsTheProcess
  <1>1. IInv => StatusTellsTheProcess
    BY SlotsIInvTyped DEF IInv
  <1> QED
    BY <1>1, SpecIInv, PTL

(* The chat is free when no send is under way and no timer is armed: no exit   *)
(* of sendMessage, alone or with cancels, clears, answers, approvals and       *)
(* timers of other sends in between, leaves isSending, isStreaming or an       *)
(* unfinished run of its own behind.  Only a run made anew for a question or a *)
(* plan may be shown unfinished.                                               *)
THEOREM FreeAgain == Spec => []FreeWhenDone
  <1>1. IInv => FreeWhenDone
    <2> SUFFICES ASSUME IInv, \A r \in Sends : send[r].at \in {"idle", "done"} /\ ~send[r].timer
                 PROVE  /\ ~isSending /\ ~isStreaming
                        /\ active = None \/ active.finished \/ ~active.own
      BY DEF FreeWhenDone
    <2>1. \A r \in Sends : ~Holds(send[r]) /\ ~Streams(send[r]) /\ ~Runs(send[r])
      BY DEF Holds, Streams, Runs, Works, Working
    <2> QED
      BY <2>1 DEF IInv, ChatInv, BusyHeld, StreamHeld, ActiveHeld, Unfinished
  <1> QED
    BY <1>1, SpecIInv, PTL

(* While a send works on the run that is shown, a cancel finds its controller, *)
(* or the send has been aborted already.                                       *)
THEOREM CancelReaches == Spec => []CancelReachesTheRun
  <1>1. IInv => CancelReachesTheRun
    BY DEF IInv, ChatInv, SendSound, CancelReachesTheRun
  <1> QED
    BY <1>1, SpecIInv, PTL

(* The end of one send never rewrites what the history says of a run, its own  *)
(* or another one's; only a run made anew under the same id is written over    *)
(* it.                                                                         *)
THEOREM WrittenOnce == Spec => HistoryWrittenOnce
  <1> DEFINE Once == \A r \in Sends :
                       history[r] # None => \/ history'[r] = history[r]
                                            \/ left'.clears < left.clears
                                            \/ MadeAnew(r)
  <1>1. IInv /\ Next => Once
    <2> SUFFICES ASSUME IInv, Next, NEW r \in Sends, history[r] # None, ~MadeAnew(r)
                 PROVE  history'[r] = history[r] \/ left'.clears < left.clears
      OBVIOUS
    <2>1. CASE \E s \in RunStatuses : history' = Archived(Marked(s))
      BY <2>1, ArchivedTyped DEF IInv, ChatInv, RunIsNew, MadeAnew
    <2>2. CASE Clear
      <3>1. left \in LimitType /\ left' = [left EXCEPT !.clears = @ - 1]
        BY <2>2 DEF Clear, IInv, SlotsIInv, BoundsTyped
      <3>2. left.clears \in Nat /\ left'.clears = left.clears - 1
        BY <3>1 DEF LimitType
      <3> QED
        BY <3>2
    <2>3. CASE UNCHANGED history
      BY <2>3
    <2>4. ASSUME NEW q \in Sends, SendSteps(q)
          PROVE  UNCHANGED history \/ \E s \in RunStatuses : history' = Archived(Marked(s))
      <3>1. {"completed", "failed", "cancelled", "asking"} \subseteq RunStatuses
        BY DEF RunStatuses, Ended
      <3>2. CASE UNCHANGED history
        BY <3>2
      <3>3. CASE \E s \in {"completed", "failed", "cancelled", "asking"} : Released(s)
        BY <3>1, <3>3 DEF Released
      <3> QED
        BY <2>4, <3>2, <3>3
        DEF SendSteps, SendBegins, PreStepBegins, PreStepEnds, PreludeAnswers, Accepted,
            SetupFails, RouteFails, SetUp, ReviewBegins, ReviewStarted, ReviewEnds, ReviewThrows,
            PromptRefused, Throws, Caught, Prepared, RiskAsked, Loaded, Started, Warmed,
            WarmUpFails, Discards, Discarded, Bound, Answered, Finished, RuntimeGone, GoneEnds,
            PhaseTimeout, TotalTimeout, Finalized
    <2>5. Cancel => \E s \in RunStatuses : history' = Archived(Marked(s))
      BY DEF Cancel, Cancelled, RunStatuses, Ended
    <2>6. CardSteps => UNCHANGED history
      BY DEF CardSteps, AsksUser, Proposes, ApprovesPlan, RejectsPlan, FollowUpEnds, Rehydrates,
             Answers, FollowUp
    <2> QED
      BY <2>1, <2>2, <2>3, <2>4, <2>5, <2>6 DEF Next, chat
  <1>2. IInv /\ [Next]_vars => [Once]_vars
    BY <1>1
  <1> QED
    BY <1>2, SpecIInv, PTL DEF Spec, HistoryWrittenOnce
=============================================================================
