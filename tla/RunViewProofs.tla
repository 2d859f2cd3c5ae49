--------------------------- MODULE RunViewProofs ---------------------------
(* Proofs about RunView, for all runs, numbers of events, requests in flight   *)
(* and scenarios: the client's positions, the stream of the selected run, that *)
(* no event is missed while selections do not overlap, and that the row that   *)
(* is shown is the run's when everything is quiet.                             *)
EXTENDS RunView, TLAPS

(* The parts of TypeOK, by the component that owns the variables.              *)
BackendTyped ==
    /\ log \in [Runs -> Seq(Kinds)]
    /\ row \in [Runs -> Numbers]
    /\ \A r \in Runs : row[r] <= Len(log[r]) /\ Len(log[r]) <= MaxEvents
ClientTyped ==
    /\ source \in Source \cup {None}
    /\ timer \in BOOLEAN
    /\ activeRun \in Runs \cup {None}
    /\ afterSequence \in 0 .. MaxEvents
ShownTyped ==
    /\ selectedRunId \in Runs \cup {None}
    /\ selectedRun \in Shown \cup {None}
    /\ events \in [Numbers -> Runs \cup {None}]
CallTyped == call \in [Calls -> Call \cup {None}]
RestTyped == calm \in BOOLEAN /\ stale \in BOOLEAN /\ left \in LimitType

(* While selections do not overlap there is one of them at most, it is of the  *)
(* selected run, and nothing is streamed until it ends.                        *)
CalmSound ==
    calm =>
        /\ \A c, d \in Calls :
              c \in InFlight("select") /\ d \in InFlight("select") => c = d
        /\ \A c \in Calls :
              c \in InFlight("select") => activeRun = None /\ call[c].run = selectedRunId

(* The inductive invariant.                                                    *)
IInv ==
    /\ BackendTyped /\ ClientTyped /\ ShownTyped /\ CallTyped /\ RestTyped
    /\ PositionsKept /\ StreamIsOfSelection /\ CalmSound /\ NoEventMissed

-----------------------------------------------------------------------------
(* Lemmas about the helpers *)

(* The bounds that are spent keep their type.                                  *)
LEMMA SpendTyped ==
    ASSUME left \in LimitType,
           NEW what \in {"selects", "acts", "leaves", "drops", "faults", "events"},
           Spend(what)
    PROVE  left' \in LimitType
  <1>1. left[what] \in Nat /\ left[what] > 0
    BY DEF LimitType, Spend
  <1>2. left[what] - 1 \in Nat
    BY <1>1
  <1> QED
    BY <1>2 DEF LimitType, Spend

(* A new request has the type of a request.                                    *)
LEMMA AskedTyped ==
    ASSUME NEW op \in {"select", "refresh", "act"}, NEW r \in Runs
    PROVE  /\ Asked(op, r) \in Call
           /\ Asked(op, r).op = op /\ Asked(op, r).run = r
  BY RunViewAssumption DEF Asked, Call

(* An append keeps the types of the backend and shortens no log.               *)
LEMMA AppendsTyped ==
    ASSUME BackendTyped, NEW r \in Runs, NEW k \in Kinds, Appends(r, k)
    PROVE  /\ BackendTyped'
           /\ \A q \in Runs : Len(log[q]) <= Len(log'[q])
  <1> DEFINE longer == Append(log[r], k)
  <1>1. log[r] \in Seq(Kinds) /\ Len(log[r]) \in Nat /\ Len(log[r]) < MaxEvents
    BY DEF BackendTyped, Appends
  <1>2. longer \in Seq(Kinds) /\ Len(longer) = Len(log[r]) + 1
    BY <1>1
  <1>3. log' = [log EXCEPT ![r] = longer]
    BY DEF Appends
  <1>4. log' \in [Runs -> Seq(Kinds)] /\ \A q \in Runs : log'[q] = IF q = r THEN longer ELSE log[q]
    BY <1>2, <1>3 DEF BackendTyped
  <1> HIDE DEF longer
  <1>5. \A q \in Runs : Len(log[q]) <= Len(log'[q]) /\ Len(log'[q]) <= MaxEvents
    <2> TAKE q \in Runs
    <2>1. Len(log[q]) \in Nat /\ Len(log[q]) <= MaxEvents
      BY DEF BackendTyped
    <2>2. CASE q = r
      <3>1. log'[q] = longer
        BY <1>4, <2>2
      <3>2. Len(log'[q]) = Len(log[q]) + 1 /\ Len(log[q]) < MaxEvents
        BY <1>1, <1>2, <2>2, <3>1
      <3> QED
        BY <2>1, <3>2, RunViewAssumption
    <2>3. CASE q # r
      BY <1>4, <2>1, <2>3
    <2> QED
      BY <2>2, <2>3
  <1>6. Len(log[r]) + 1 \in Numbers
    BY <1>1, RunViewAssumption DEF Numbers
  <1>7. /\ row' \in [Runs -> Numbers]
        /\ \A q \in Runs : row'[q] = row[q] \/ (q = r /\ row'[q] = Len(log[r]) + 1)
    BY <1>6 DEF BackendTyped, Appends
  <1>8. \A q \in Runs : row'[q] <= Len(log'[q])
    <2> TAKE q \in Runs
    <2>1. row[q] \in Nat /\ row[q] <= Len(log[q]) /\ Len(log[q]) \in Nat /\ Len(log'[q]) \in Nat
      BY <1>4 DEF BackendTyped, Numbers
    <2>2. Len(log'[r]) = Len(log[r]) + 1
      BY <1>2, <1>4
    <2> QED
      BY <2>1, <2>2, <1>5, <1>7
  <1> QED
    BY <1>4, <1>5, <1>7, <1>8 DEF BackendTyped

(* The appends that change nothing of the client keep its positions.           *)
LEMMA AppendsPositions ==
    ASSUME BackendTyped, BackendTyped', ClientTyped, PositionsKept,
           \A q \in Runs : Len(log[q]) <= Len(log'[q]),
           UNCHANGED client
    PROVE  PositionsKept'
  <1>1. \A q \in Runs : Len(log[q]) \in Nat /\ Len(log'[q]) \in Nat
    BY DEF BackendTyped
  <1>2. source # None => source.sent \in Nat
    BY RunViewAssumption DEF ClientTyped, Source
  <1>3. afterSequence \in Nat
    BY RunViewAssumption DEF ClientTyped
  <1>4. source # None => activeRun \in Runs
    BY DEF ClientTyped, PositionsKept
  <1>5. UNCHANGED <<source, timer, activeRun, afterSequence>>
    BY DEF client
  <1>6. activeRun # None => activeRun \in Runs
    BY DEF ClientTyped
  <1> QED
    BY <1>1, <1>2, <1>3, <1>4, <1>5, <1>6 DEF PositionsKept

(* What no step but those of the stream and of a selection touches.            *)
LEMMA ViewKept ==
    ASSUME IInv, UNCHANGED <<client, selectedRunId, events, calm>>,
           \A c \in Calls : call'[c] # None /\ call'[c].op = "select" =>
               /\ call[c] # None /\ call[c].op = "select"
               /\ call'[c].run = call[c].run
    PROVE  StreamIsOfSelection' /\ CalmSound' /\ NoEventMissed'
  <1>1. StreamIsOfSelection'
    BY DEF IInv, StreamIsOfSelection, client
  <1>2. NoEventMissed'
    BY DEF IInv, NoEventMissed, client
  <1>3. \A c \in Calls : c \in InFlight("select")' =>
            c \in InFlight("select") /\ call'[c].run = call[c].run
    BY DEF InFlight
  <1>4. UNCHANGED <<activeRun, selectedRunId, calm>>
    BY DEF client
  <1>5. CalmSound'
    BY <1>3, <1>4 DEF IInv, CalmSound
  <1> QED
    BY <1>1, <1>2, <1>5

(* A request is replaced by one that is of no selection, or of the same.       *)
LEMMA BecomesKeeps ==
    ASSUME CallTyped, NEW c \in Calls, NEW k, Becomes(c, k),
           k # None /\ k.op = "select" =>
               call[c] # None /\ call[c].op = "select" /\ k.run = call[c].run
    PROVE  \A d \in Calls : call'[d] # None /\ call'[d].op = "select" =>
               /\ call[d] # None /\ call[d].op = "select"
               /\ call'[d].run = call[d].run
  BY DEF CallTyped, Becomes

LEMMA BecomesTyped ==
    ASSUME CallTyped, NEW c \in Calls, NEW k \in Call \cup {None}, Becomes(c, k)
    PROVE  CallTyped'
  BY DEF CallTyped, Becomes

(* A new request of another kind is no selection.                              *)
LEMMA AsksKeeps ==
    ASSUME CallTyped, NEW op \in {"refresh", "act"}, NEW r \in Runs, Asks(op, r)
    PROVE  /\ CallTyped'
           /\ \A c \in Calls : call'[c] # None /\ call'[c].op = "select" =>
                  /\ call[c] # None /\ call[c].op = "select"
                  /\ call'[c].run = call[c].run
  <1>1. PICK c \in Calls : call' = [call EXCEPT ![c] = Asked(op, r)]
    BY DEF Asks
  <1>2. Asked(op, r) \in Call /\ Asked(op, r).op # "select"
    BY AskedTyped
  <1> QED
    BY <1>1, <1>2 DEF CallTyped

(* A refresh that replaces a request.                                          *)
LEMMA RefreshesKeeps ==
    ASSUME CallTyped, ShownTyped, NEW c \in Calls, Refreshes(c)
    PROVE  /\ CallTyped'
           /\ \A d \in Calls : call'[d] # None /\ call'[d].op = "select" =>
                  /\ call[d] # None /\ call[d].op = "select"
                  /\ call'[d].run = call[d].run
  <1>1. CASE selectedRunId = None
    <2>1. Becomes(c, None)
      BY <1>1 DEF Refreshes
    <2> QED
      BY <2>1, BecomesTyped, BecomesKeeps
  <1>2. CASE selectedRunId # None
    <2>1. selectedRunId \in Runs
      BY <1>2 DEF ShownTyped
    <2>2. Asked("refresh", selectedRunId) \in Call /\ Asked("refresh", selectedRunId).op = "refresh"
      BY <2>1, AskedTyped
    <2>3. Becomes(c, Asked("refresh", selectedRunId))
      BY <1>2 DEF Refreshes
    <2> QED
      BY <2>2, <2>3, BecomesTyped, BecomesKeeps
  <1> QED
    BY <1>1, <1>2

(* What an open source is worth.                                               *)
LEMMA OpenSource ==
    ASSUME IInv, source # None
    PROVE  /\ source \in Source /\ source.sent \in 0 .. MaxEvents
           /\ activeRun \in Runs /\ Len(log[activeRun]) \in 0 .. MaxEvents
           /\ afterSequence <= source.sent /\ source.sent <= Len(log[activeRun])
  <1>1. source \in Source /\ activeRun \in Runs
    BY DEF IInv, ClientTyped, PositionsKept
  <1>2. log[activeRun] \in Seq(Kinds) /\ Len(log[activeRun]) <= MaxEvents
    BY <1>1 DEF IInv, BackendTyped
  <1> QED
    BY <1>1, <1>2, RunViewAssumption DEF IInv, PositionsKept, Source

-----------------------------------------------------------------------------
(* One lemma per action *)

LEMMA EventAppendedIInv == IInv /\ EventAppended => IInv'
  <1> SUFFICES ASSUME IInv, EventAppended PROVE IInv'
    OBVIOUS
  <1>1. BackendTyped' /\ \A q \in Runs : Len(log[q]) <= Len(log'[q])
    BY AppendsTyped DEF IInv, EventAppended
  <1>2. PositionsKept'
    BY <1>1, AppendsPositions DEF IInv, EventAppended
  <1>3. RestTyped'
    BY SpendTyped DEF IInv, RestTyped, EventAppended
  <1>4. StreamIsOfSelection' /\ CalmSound' /\ NoEventMissed'
    BY ViewKept DEF EventAppended, shown
  <1> QED
    BY <1>1, <1>2, <1>3, <1>4 DEF IInv, EventAppended, client, shown, ClientTyped, ShownTyped, CallTyped

LEMMA ServerSendsIInv == IInv /\ ServerSends => IInv'
  <1> SUFFICES ASSUME IInv, ServerSends PROVE IInv'
    OBVIOUS
  <1>1. /\ source \in Source /\ activeRun \in Runs
        /\ Len(log[activeRun]) \in 0 .. MaxEvents
        /\ afterSequence <= source.sent /\ source.sent \in 0 .. MaxEvents
    BY OpenSource DEF ServerSends
  <1>2. source' \in Source /\ source'.sent = Len(log[activeRun])
    BY <1>1 DEF ServerSends, Source
  <1> QED
    BY <1>1, <1>2, RunViewAssumption
    DEF IInv, ServerSends, backend, shown, BackendTyped, ClientTyped, ShownTyped, CallTyped,
        RestTyped, PositionsKept, StreamIsOfSelection, CalmSound, InFlight, NoEventMissed

LEMMA ServerEndsIInv == IInv /\ ServerEnds => IInv'
  <1> SUFFICES ASSUME IInv, ServerEnds PROVE IInv'
    OBVIOUS
  <1>1. /\ source \in Source /\ activeRun \in Runs
        /\ Len(log[activeRun]) \in 0 .. MaxEvents
        /\ afterSequence <= source.sent /\ source.sent <= Len(log[activeRun])
        /\ source.sent \in 0 .. MaxEvents
    BY OpenSource DEF ServerEnds
  <1>2. source' \in Source /\ source'.sent = Len(log[activeRun])
    BY <1>1 DEF ServerEnds, Source
  <1> QED
    BY <1>1, <1>2, RunViewAssumption
    DEF IInv, ServerEnds, backend, shown, BackendTyped, ClientTyped, ShownTyped, CallTyped,
        RestTyped, PositionsKept, StreamIsOfSelection, CalmSound, InFlight, NoEventMissed

LEMMA ReceivedIInv == IInv /\ Received => IInv'
  <1> SUFFICES ASSUME IInv, Received PROVE IInv'
    OBVIOUS
  <1> DEFINE n == afterSequence + 1
  <1>1. /\ source \in Source /\ source.sent \in 0 .. MaxEvents
        /\ activeRun \in Runs /\ Len(log[activeRun]) \in 0 .. MaxEvents
        /\ source.sent <= Len(log[activeRun])
    BY OpenSource DEF Received
  <1>2. afterSequence \in 0 .. MaxEvents /\ afterSequence < source.sent
    BY DEF IInv, ClientTyped, Received
  <1>3. n \in Numbers /\ n <= source.sent /\ n \in 0 .. MaxEvents
    BY <1>1, <1>2, RunViewAssumption DEF Numbers
  <1>4. /\ CallTyped'
        /\ \A c \in Calls : call'[c] # None /\ call'[c].op = "select" =>
               /\ call[c] # None /\ call[c].op = "select"
               /\ call'[c].run = call[c].run
    <2>1. CASE Tells(n) /\ selectedRunId # None
      <3>1. selectedRunId \in Runs /\ Asks("refresh", selectedRunId)
        BY <2>1 DEF IInv, ShownTyped, Received
      <3> QED
        BY <3>1, AsksKeeps DEF IInv
    <2>2. CASE ~(Tells(n) /\ selectedRunId # None)
      BY <2>2 DEF IInv, CallTyped, Received
    <2> QED
      BY <2>1, <2>2
  <1>5. /\ events' = [events EXCEPT ![n] = activeRun] /\ afterSequence' = n
        /\ UNCHANGED <<log, row, source, timer, activeRun, selectedRunId, selectedRun, calm, stale, left>>
    BY DEF Received, backend
  <1> HIDE DEF n
  <1>6. BackendTyped' /\ ClientTyped' /\ ShownTyped' /\ RestTyped'
    BY <1>1, <1>3, <1>5 DEF IInv, BackendTyped, ClientTyped, ShownTyped, RestTyped
  <1>7. PositionsKept'
    BY <1>1, <1>3, <1>5, RunViewAssumption DEF PositionsKept
  <1>8. StreamIsOfSelection'
    BY <1>5 DEF IInv, StreamIsOfSelection
  <1>9. CalmSound'
    <2>1. \A c \in Calls : c \in InFlight("select")' =>
              c \in InFlight("select") /\ call'[c].run = call[c].run
      BY <1>4 DEF InFlight
    <2> QED
      BY <1>5, <2>1 DEF IInv, CalmSound
  <1>10. NoEventMissed'
    <2>1. \A m \in Numbers : m <= n => m <= afterSequence \/ m = n
      BY <1>2 DEF Numbers, n
    <2>2. \A m \in Numbers : events'[m] = IF m = n THEN activeRun ELSE events[m]
      BY <1>5 DEF IInv, ShownTyped
    <2> QED
      BY <1>1, <1>5, <2>1, <2>2 DEF IInv, NoEventMissed
  <1> QED
    BY <1>4, <1>6, <1>7, <1>8, <1>9, <1>10 DEF IInv

(* A lost source, whatever it is lost to.                                      *)
LEMMA LostIInv ==
    ASSUME IInv, source # None, Lost, UNCHANGED <<backend, shown, call, calm>>, RestTyped'
    PROVE  IInv'
  <1>1. activeRun \in Runs
    BY OpenSource
  <1> QED
    BY <1>1, RunViewAssumption
    DEF IInv, Lost, backend, shown, BackendTyped, ClientTyped, ShownTyped, CallTyped,
        PositionsKept, StreamIsOfSelection, CalmSound, InFlight, NoEventMissed

LEMMA SourceEndsIInv == IInv /\ SourceEnds => IInv'
  BY LostIInv DEF SourceEnds, IInv, RestTyped

LEMMA SourceDropsIInv == IInv /\ SourceDrops => IInv'
  BY LostIInv, SpendTyped DEF SourceDrops, IInv, RestTyped

(* Opening a source at the position of the client.                             *)
LEMMA OpensTyped ==
    ASSUME NEW r \in Runs, NEW n \in 0 .. MaxEvents, Opens(r, n)
    PROVE  source' \in Source /\ source'.sent = n /\ activeRun' = r /\ afterSequence' = n
  BY DEF Opens, Source

LEMMA ReconnectsIInv == IInv /\ Reconnects => IInv'
  <1> SUFFICES ASSUME IInv, Reconnects PROVE IInv'
    OBVIOUS
  <1>1. activeRun \in Runs /\ afterSequence \in 0 .. MaxEvents
    BY DEF IInv, ClientTyped, PositionsKept, Reconnects
  <1>2. /\ source' \in Source /\ source'.sent = afterSequence
        /\ activeRun' = activeRun /\ afterSequence' = afterSequence /\ timer' = FALSE
    BY <1>1, OpensTyped DEF Reconnects
  <1>3. afterSequence <= Len(log[activeRun])
    BY <1>1, RunViewAssumption DEF IInv, PositionsKept
  <1>4. UNCHANGED <<log, row, selectedRunId, selectedRun, events, call, calm, stale, left>>
    BY DEF Reconnects, backend, shown
  <1>5. BackendTyped' /\ ShownTyped' /\ CallTyped' /\ RestTyped'
    BY <1>4 DEF IInv, BackendTyped, ShownTyped, CallTyped, RestTyped
  <1>6. ClientTyped'
    BY <1>1, <1>2 DEF ClientTyped
  <1>7. activeRun # None
    BY <1>1, RunViewAssumption
  <1>8. PositionsKept'
    BY <1>1, <1>2, <1>3, <1>4, <1>7 DEF PositionsKept
  <1>9. StreamIsOfSelection' /\ CalmSound' /\ NoEventMissed'
    BY <1>2, <1>4 DEF IInv, StreamIsOfSelection, CalmSound, InFlight, NoEventMissed
  <1> QED
    BY <1>5, <1>6, <1>8, <1>9 DEF IInv

(* Whatever is selected, nothing is streamed at first.                         *)
LEMMA DisconnectsSound ==
    ASSUME Disconnects
    PROVE  ClientTyped' /\ PositionsKept' /\ StreamIsOfSelection' /\ NoEventMissed'
  <1>1. 0 \in 0 .. MaxEvents
    BY RunViewAssumption
  <1>2. source' = None /\ ~timer' /\ timer' \in BOOLEAN /\ activeRun' = None /\ afterSequence' = 0
    BY DEF Disconnects
  <1> QED
    BY <1>1, <1>2 DEF ClientTyped, PositionsKept, StreamIsOfSelection, NoEventMissed

LEMMA SelectIInv == IInv /\ Select => IInv'
  <1> SUFFICES ASSUME IInv, Select PROVE IInv'
    OBVIOUS
  <1>1. ClientTyped' /\ PositionsKept' /\ StreamIsOfSelection' /\ NoEventMissed'
    BY DisconnectsSound DEF Select
  <1>2. RestTyped'
    <2>1. left' \in LimitType
      BY SpendTyped DEF IInv, RestTyped, Select
    <2> QED
      BY <2>1 DEF IInv, RestTyped, Select
  <1>3. BackendTyped'
    BY DEF IInv, BackendTyped, backend, Select
  <1>4. activeRun' = None
    BY DEF Select, Disconnects
  <1>5. calm' => \A c \in Calls : c \notin InFlight("select")
    BY DEF Select
  <1>6. CASE /\ selectedRunId' = None /\ selectedRun' = None /\ events' = NoEvents
             /\ UNCHANGED call
    <2>1. CalmSound'
      BY <1>5, <1>6 DEF CalmSound, InFlight
    <2>2. ShownTyped' /\ CallTyped'
      BY <1>6 DEF IInv, ShownTyped, CallTyped, NoEvents
    <2> QED
      BY <1>1, <1>2, <1>3, <2>1, <2>2 DEF IInv
  <1>7. CASE \E r \in Runs : /\ selectedRunId' = r /\ Asks("select", r)
                             /\ UNCHANGED <<selectedRun, events>>
    <2>1. PICK r \in Runs : /\ selectedRunId' = r /\ Asks("select", r)
                           /\ UNCHANGED <<selectedRun, events>>
      BY <1>7
    <2>2. PICK c \in Calls : call' = [call EXCEPT ![c] = Asked("select", r)]
      BY <2>1 DEF Asks
    <2>3. Asked("select", r) \in Call /\ Asked("select", r).run = r
      BY AskedTyped
    <2>4. CallTyped' /\ ShownTyped'
      BY <2>1, <2>2, <2>3 DEF IInv, CallTyped, ShownTyped
    <2>5. \A d \in Calls : call'[d] = IF d = c THEN Asked("select", r) ELSE call[d]
      BY <2>2 DEF IInv, CallTyped
    <2>6. calm' => \A d \in Calls : d \in InFlight("select")' => d = c
      BY <1>5, <2>5 DEF InFlight
    <2>7. CalmSound'
      BY <1>4, <2>1, <2>3, <2>5, <2>6 DEF CalmSound
    <2> QED
      BY <1>1, <1>2, <1>3, <2>4, <2>7 DEF IInv
  <1> QED
    BY <1>6, <1>7 DEF Select

LEMMA LeaveIInv == IInv /\ Leave => IInv'
  <1> SUFFICES ASSUME IInv, Leave PROVE IInv'
    OBVIOUS
  <1>1. ClientTyped' /\ PositionsKept' /\ StreamIsOfSelection' /\ NoEventMissed'
    BY DisconnectsSound DEF Leave
  <1>2. left' \in LimitType
    BY SpendTyped DEF IInv, RestTyped, Leave
  <1>3. CalmSound'
    BY DEF IInv, CalmSound, InFlight, Leave, Disconnects, shown
  <1> QED
    BY <1>1, <1>2, <1>3
    DEF IInv, Leave, backend, shown, BackendTyped, ShownTyped, CallTyped, RestTyped

LEMMA ActIInv == IInv /\ Act => IInv'
  <1> SUFFICES ASSUME IInv, Act PROVE IInv'
    OBVIOUS
  <1>1. selectedRunId \in Runs /\ Asks("act", selectedRunId)
    BY DEF IInv, ShownTyped, Act
  <1>2. /\ CallTyped'
        /\ \A c \in Calls : call'[c] # None /\ call'[c].op = "select" =>
               /\ call[c] # None /\ call[c].op = "select"
               /\ call'[c].run = call[c].run
    BY <1>1, AsksKeeps DEF IInv
  <1>3. StreamIsOfSelection' /\ CalmSound' /\ NoEventMissed'
    BY <1>2, ViewKept DEF Act, shown
  <1>4. left' \in LimitType
    BY SpendTyped DEF IInv, RestTyped, Act
  <1> QED
    BY <1>2, <1>3, <1>4
    DEF IInv, Act, backend, client, shown, BackendTyped, ClientTyped, ShownTyped, RestTyped,
        PositionsKept

(* A step of a request that leaves the client and the events alone.            *)
LEMMA CallStepIInv ==
    ASSUME IInv, CallTyped', RestTyped', selectedRun' \in Shown \cup {None},
           UNCHANGED <<backend, client, selectedRunId, events, calm>>,
           \A c \in Calls : call'[c] # None /\ call'[c].op = "select" =>
               /\ call[c] # None /\ call[c].op = "select"
               /\ call'[c].run = call[c].run
    PROVE  IInv'
  <1>1. StreamIsOfSelection' /\ CalmSound' /\ NoEventMissed'
    BY ViewKept
  <1> QED
    BY <1>1
    DEF IInv, backend, client, BackendTyped, ClientTyped, ShownTyped, PositionsKept

LEMMA ReadIInv == ASSUME NEW c \in Calls, IInv, Read(c) PROVE IInv'
  <1> DEFINE k == [call[c] EXCEPT !.row = row[call[c].run],
                       !.at = IF call[c].op = "select" THEN "listing" ELSE "answered"]
  <1>1. call[c] \in Call /\ call[c] # None
    BY DEF IInv, CallTyped, Read, At
  <1>2. row[call[c].run] \in 0 .. MaxEvents
    BY <1>1, RunViewAssumption DEF IInv, BackendTyped, Call, Numbers
  <1>3. k \in Call /\ k.op = call[c].op /\ k.run = call[c].run
    BY <1>1, <1>2 DEF Call
  <1>4. Becomes(c, k)
    BY DEF Read
  <1> HIDE DEF k
  <1>5. CallTyped'
    BY <1>3, <1>4, BecomesTyped DEF IInv
  <1>6. \A d \in Calls : call'[d] # None /\ call'[d].op = "select" =>
            /\ call[d] # None /\ call[d].op = "select"
            /\ call'[d].run = call[d].run
    BY <1>1, <1>3, <1>4, BecomesKeeps DEF IInv
  <1> QED
    BY <1>5, <1>6, CallStepIInv DEF IInv, RestTyped, ShownTyped, Read, shown

LEMMA ReadListIInv == ASSUME NEW c \in Calls, IInv, ReadList(c) PROVE IInv'
  <1> DEFINE k == [call[c] EXCEPT !.list = Len(log[call[c].run]), !.at = "answered"]
  <1>1. call[c] \in Call /\ call[c] # None
    BY DEF IInv, CallTyped, ReadList, At
  <1>2. Len(log[call[c].run]) \in 0 .. MaxEvents
    <2>1. call[c].run \in Runs
      BY <1>1 DEF Call
    <2>2. log[call[c].run] \in Seq(Kinds) /\ Len(log[call[c].run]) <= MaxEvents
      BY <2>1 DEF IInv, BackendTyped
    <2> QED
      BY <2>2, RunViewAssumption
  <1>3. k \in Call /\ k.op = call[c].op /\ k.run = call[c].run
    BY <1>1, <1>2 DEF Call
  <1>4. Becomes(c, k)
    BY DEF ReadList
  <1> HIDE DEF k
  <1>5. CallTyped'
    BY <1>3, <1>4, BecomesTyped DEF IInv
  <1>6. \A d \in Calls : call'[d] # None /\ call'[d].op = "select" =>
            /\ call[d] # None /\ call[d].op = "select"
            /\ call'[d].run = call[d].run
    BY <1>1, <1>3, <1>4, BecomesKeeps DEF IInv
  <1> QED
    BY <1>5, <1>6, CallStepIInv DEF IInv, RestTyped, ShownTyped, ReadList, shown

LEMMA ActedIInv == ASSUME NEW c \in Calls, IInv, Acted(c) PROVE IInv'
  <1> DEFINE r == call[c].run
             k == [call[c] EXCEPT !.row = Len(log[r]) + 1, !.at = "answered"]
  <1>1. call[c] \in Call /\ call[c].op = "act" /\ r \in Runs
    BY DEF IInv, CallTyped, Acted, At, Call
  <1>2. PICK e \in Kinds : Appends(r, e)
    BY DEF Acted
  <1>3. BackendTyped' /\ \A q \in Runs : Len(log[q]) <= Len(log'[q])
    BY <1>1, <1>2, AppendsTyped DEF IInv
  <1>4. PositionsKept'
    BY <1>3, AppendsPositions DEF IInv, Acted
  <1>5. Len(log[r]) + 1 \in 0 .. MaxEvents
    <2>1. log[r] \in Seq(Kinds) /\ Len(log[r]) < MaxEvents
      BY <1>1, <1>2 DEF IInv, BackendTyped, Appends
    <2> QED
      BY <2>1, RunViewAssumption
  <1>6. k \in Call /\ k.op = "act"
    BY <1>1, <1>5 DEF Call
  <1>7. Becomes(c, k)
    BY DEF Acted
  <1> HIDE DEF k
  <1>8. CallTyped'
    BY <1>6, <1>7, BecomesTyped DEF IInv
  <1>9. \A d \in Calls : call'[d] # None /\ call'[d].op = "select" =>
            /\ call[d] # None /\ call[d].op = "select"
            /\ call'[d].run = call[d].run
    BY <1>6, <1>7, BecomesKeeps DEF IInv
  <1>10. StreamIsOfSelection' /\ CalmSound' /\ NoEventMissed'
    BY <1>9, ViewKept DEF Acted, shown
  <1> QED
    BY <1>3, <1>4, <1>8, <1>10
    DEF IInv, Acted, client, shown, ClientTyped, ShownTyped, RestTyped

LEMMA ActRefusedIInv == ASSUME NEW c \in Calls, IInv, ActRefused(c) PROVE IInv'
  <1>1. /\ CallTyped'
        /\ \A d \in Calls : call'[d] # None /\ call'[d].op = "select" =>
               /\ call[d] # None /\ call[d].op = "select"
               /\ call'[d].run = call[d].run
    <2>1. CASE Becomes(c, None)
      BY <2>1, BecomesTyped, BecomesKeeps DEF IInv
    <2>2. CASE Refreshes(c)
      BY <2>2, RefreshesKeeps DEF IInv
    <2> QED
      BY <2>1, <2>2 DEF ActRefused
  <1> QED
    BY <1>1, CallStepIInv DEF IInv, RestTyped, ShownTyped, ActRefused, shown

LEMMA RunDeliveredIInv == ASSUME NEW c \in Calls, IInv, RunDelivered(c) PROVE IInv'
  <1>1. /\ CallTyped'
        /\ \A d \in Calls : call'[d] # None /\ call'[d].op = "select" =>
               /\ call[d] # None /\ call[d].op = "select"
               /\ call'[d].run = call[d].run
    <2>1. CASE Becomes(c, None)
      BY <2>1, BecomesTyped, BecomesKeeps DEF IInv
    <2>2. CASE Refreshes(c)
      BY <2>2, RefreshesKeeps DEF IInv
    <2> QED
      BY <2>1, <2>2 DEF RunDelivered
  <1>2. call[c] \in Call
    BY DEF IInv, CallTyped, RunDelivered, At
  <1>3. selectedRun' \in Shown
    BY <1>2 DEF RunDelivered, Shown, Call
  <1>4. RestTyped'
    BY DEF IInv, RestTyped, RunDelivered
  <1> QED
    BY <1>1, <1>3, <1>4, CallStepIInv DEF RunDelivered

LEMMA CallFailsIInv == ASSUME NEW c \in Calls, IInv, CallFails(c) PROVE IInv'
  <1>1. left' \in LimitType
    BY SpendTyped DEF IInv, RestTyped, CallFails
  <1>2. CallTyped'
    BY BecomesTyped DEF IInv, CallFails
  <1>3. \A d \in Calls : call'[d] # None /\ call'[d].op = "select" =>
            /\ call[d] # None /\ call[d].op = "select"
            /\ call'[d].run = call[d].run
    BY BecomesKeeps DEF IInv, CallFails
  <1> QED
    BY <1>1, <1>2, <1>3, CallStepIInv DEF IInv, RestTyped, ShownTyped, CallFails, shown

(* The end of a selection: nothing was streamed if selections did not overlap, *)
(* and what is streamed otherwise is of the run that is selected by now.       *)
LEMMA SelectDeliveredIInv == ASSUME NEW c \in Calls, IInv, SelectDelivered(c) PROVE IInv'
  <1> DEFINE r == call[c].run
  <1>1. call[c] \in Call /\ r \in Runs /\ c \in InFlight("select")
    BY DEF IInv, CallTyped, SelectDelivered, At, Call, InFlight
  <1>2. /\ selectedRun' = [run |-> r, row |-> call[c].row]
        /\ events' = [n \in Numbers |-> IF n <= call[c].list THEN r ELSE None]
        /\ Streams(r) /\ Becomes(c, None)
        /\ UNCHANGED <<log, row, selectedRunId, calm, stale, left>>
    BY DEF SelectDelivered, backend
  <1>3. selectedRun' \in Shown
    BY <1>1, <1>2 DEF Shown, Call
  <1>4. CallTyped'
    BY <1>2, BecomesTyped DEF IInv
  <1>5. calm => /\ activeRun = None /\ selectedRunId = r
                /\ \A d \in Calls : d \in InFlight("select") => d = c
    BY <1>1 DEF IInv, CalmSound
  <1>6. call' = [call EXCEPT ![c] = None]
    BY <1>2 DEF Becomes
  <1> HIDE DEF r
  <1>7. BackendTyped' /\ ShownTyped' /\ RestTyped'
    BY <1>1, <1>2, <1>3 DEF IInv, BackendTyped, ShownTyped, RestTyped
  <1>8. CalmSound'
    <2>1. \A d \in Calls : call'[d] = IF d = c THEN None ELSE call[d]
      BY <1>6 DEF IInv, CallTyped
    <2>2. calm' => \A d \in Calls : d \notin InFlight("select")'
      BY <1>2, <1>5, <2>1 DEF InFlight
    <2> QED
      BY <2>2 DEF CalmSound
  <1>9. CASE selectedRunId = None
    <2>1. UNCHANGED <<source, timer, activeRun, afterSequence, log, selectedRunId, calm>>
      BY <1>2, <1>9 DEF Streams, client
    <2>2. ClientTyped' /\ PositionsKept' /\ StreamIsOfSelection'
      BY <2>1 DEF IInv, ClientTyped, PositionsKept, StreamIsOfSelection
    <2>3. NoEventMissed'
      BY <1>5, <2>1 DEF NoEventMissed
    <2> QED
      BY <1>4, <1>7, <1>8, <2>2, <2>3 DEF IInv
  <1>10. CASE selectedRunId # None
    <2>1. selectedRunId \in Runs /\ afterSequence \in 0 .. MaxEvents
      BY <1>10 DEF IInv, ShownTyped, ClientTyped
    <2>2. Opens(selectedRunId, afterSequence) /\ timer' \in BOOLEAN
      BY <1>2, <1>10 DEF IInv, ClientTyped, Streams, Connects
    <2>3. /\ source' \in Source /\ source'.sent = afterSequence
          /\ activeRun' = selectedRunId /\ afterSequence' = afterSequence
      BY <2>1, <2>2, OpensTyped
    <2>4. afterSequence <= Len(log[selectedRunId])
      <3>1. Len(log[selectedRunId]) \in Nat
        BY <2>1 DEF IInv, BackendTyped
      <3>2. activeRun # None => activeRun = selectedRunId
        BY DEF IInv, StreamIsOfSelection
      <3> QED
        BY <3>1, <3>2 DEF IInv, PositionsKept
    <2>5. ClientTyped'
      BY <2>1, <2>2, <2>3 DEF ClientTyped
    <2>6. PositionsKept'
      BY <1>2, <2>1, <2>3, <2>4, RunViewAssumption DEF PositionsKept
    <2>7. StreamIsOfSelection'
      BY <1>2, <2>3 DEF StreamIsOfSelection
    <2>8. NoEventMissed'
      <3> SUFFICES ASSUME calm' PROVE NoEventMissed'
        BY DEF NoEventMissed
      <3>1. afterSequence' = 0 /\ activeRun' = r
        BY <1>2, <1>5, <2>3 DEF IInv, PositionsKept
      <3>2. \A n \in Numbers : events'[n] \in {r, None} /\ ~(n <= 0)
        BY <1>2 DEF Numbers
      <3> QED
        BY <3>1, <3>2 DEF NoEventMissed
    <2> QED
      BY <1>4, <1>7, <1>8, <2>5, <2>6, <2>7, <2>8 DEF IInv
  <1> QED
    BY <1>9, <1>10

-----------------------------------------------------------------------------
(* The invariant of the specification, and the theorems                        *)

LEMMA InitIInv == Init => IInv
  <1> SUFFICES ASSUME Init PROVE IInv
    OBVIOUS
  <1>1. BackendTyped
    <2>1. <<"live">> \in Seq(Kinds) /\ Len(<<"live">>) = 1
      BY DEF Kinds
    <2>2. 1 \in Numbers /\ 1 <= MaxEvents
      BY RunViewAssumption DEF Numbers
    <2> QED
      BY <2>1, <2>2 DEF Init, BackendTyped
  <1>2. left \in LimitType
    BY RunViewAssumption DEF Init
  <1>3. 0 \in 0 .. MaxEvents
    BY RunViewAssumption
  <1>4. ~timer /\ timer \in BOOLEAN /\ calm \in BOOLEAN /\ stale \in BOOLEAN
    BY DEF Init
  <1>5. ClientTyped /\ RestTyped
    BY <1>2, <1>3, <1>4 DEF Init, ClientTyped, RestTyped
  <1>6. ShownTyped /\ CallTyped
    BY DEF Init, ShownTyped, CallTyped, NoEvents
  <1>7. PositionsKept /\ StreamIsOfSelection /\ NoEventMissed
    BY <1>4 DEF Init, PositionsKept, StreamIsOfSelection, NoEventMissed
  <1>8. InFlight("select") = {}
    BY DEF Init, InFlight
  <1> QED
    BY <1>1, <1>5, <1>6, <1>7, <1>8 DEF IInv, CalmSound

LEMMA NextIInv == IInv /\ [Next]_vars => IInv'
  <1> SUFFICES ASSUME IInv, [Next]_vars PROVE IInv'
    OBVIOUS
  <1>1. CASE BackendSteps
    BY <1>1, EventAppendedIInv, ServerSendsIInv, ServerEndsIInv DEF BackendSteps
  <1>2. CASE Client
    BY <1>2, ReceivedIInv, SourceEndsIInv, SourceDropsIInv, ReconnectsIInv DEF Client
  <1>3. CASE User
    BY <1>3, SelectIInv, ActIInv, LeaveIInv DEF User
  <1>4. CASE \E c \in Calls : Answers(c) \/ Delivered(c) \/ CallFails(c)
    BY <1>4, ReadIInv, ReadListIInv, ActedIInv, ActRefusedIInv, SelectDeliveredIInv,
       RunDeliveredIInv, CallFailsIInv DEF Answers, Delivered
  <1>5. CASE UNCHANGED vars
    BY <1>5 DEF vars, backend, client, shown, IInv, BackendTyped, ClientTyped, ShownTyped,
       CallTyped, RestTyped, PositionsKept, StreamIsOfSelection, CalmSound, InFlight,
       NoEventMissed
  <1> QED
    BY <1>1, <1>2, <1>3, <1>4, <1>5 DEF Next

(* The inductive invariant holds in every behaviour.                           *)
THEOREM SpecIInv == Spec => []IInv
  BY InitIInv, NextIInv, PTL DEF Spec

(* Types, and the positions of client and server in the log of the run that is *)
(* streamed: no position is carried over to another run.                       *)
THEOREM SpecTypeOK == Spec => []TypeOK
  <1>1. IInv => TypeOK
    BY DEF IInv, TypeOK, BackendTyped, ClientTyped, ShownTyped, CallTyped, RestTyped
  <1> QED
    BY <1>1, SpecIInv, PTL

(* The stream is the selected run's.                                           *)
THEOREM SpecStreamIsOfSelection == Spec => []StreamIsOfSelection
  <1>1. IInv => StreamIsOfSelection
    BY DEF IInv
  <1> QED
    BY <1>1, SpecIInv, PTL

(* Without overlapping selections the view has every event of the run that is  *)
(* streamed, up to the client's position, and no other run's.                  *)
THEOREM SpecNoEventMissed == Spec => []NoEventMissed
  <1>1. IInv => NoEventMissed
    BY DEF IInv
  <1> QED
    BY <1>1, SpecIInv, PTL

-----------------------------------------------------------------------------
(* The row that is shown                                                       *)

(* A row names an event that changed the run.                                  *)
RowsTell == \A r \in Runs : log[r][row[r]] # "note"

(* No answer, and nothing shown, is newer than the run.                        *)
AnswersSound ==
    /\ \A c \in Calls : call[c] # None => call[c].row <= row[call[c].run]
    /\ selectedRun # None => selectedRun.row <= row[selectedRun.run]

(* The request k will show run r as event n left it, or newer.                 *)
Brings(k, r, n) ==
    /\ k.run = r
    /\ \/ k.op = "refresh" /\ k.at = "asked"
       \/ k.op # "select" /\ k.at = "answered" /\ k.row = n

(* The row of the run that is streamed is shown, or the event that changed it  *)
(* is still to be received, or a request is about to show it.                  *)
ViewSound ==
    calm /\ ~stale /\ activeRun # None =>
        \/ selectedRun = [run |-> activeRun, row |-> row[activeRun]]
        \/ row[activeRun] > afterSequence
        \/ \E c \in Calls : call[c] # None /\ Brings(call[c], activeRun, row[activeRun])

View == IInv /\ RowsTell /\ AnswersSound /\ ViewSound

(* A row stays, or goes on to an event that the client cannot have received.   *)
RowsGrow == \A r \in Runs : row'[r] = row[r] \/ row'[r] = Len(log[r]) + 1

(* What a step leaves of the answers in flight.                                *)
AnswersKept ==
    \A c \in Calls : call'[c] # None =>
        \/ call[c] # None /\ call'[c].run = call[c].run /\ call'[c].row = call[c].row
        \/ call'[c].row <= row'[call'[c].run]
BringersKept ==
    \A c \in Calls : call[c] # None /\ Brings(call[c], activeRun, row[activeRun]) =>
        call'[c] # None /\ Brings(call'[c], activeRun, row[activeRun])

LEMMA RowsStay == ASSUME RowsTell, UNCHANGED backend PROVE RowsTell' /\ RowsGrow
  BY DEF RowsTell, RowsGrow, backend

LEMMA AppendsTell ==
    ASSUME BackendTyped, RowsTell, NEW r \in Runs, NEW k \in Kinds, Appends(r, k)
    PROVE  RowsTell' /\ RowsGrow
  <1> DEFINE longer == Append(log[r], k)
  <1>1. log[r] \in Seq(Kinds) /\ Len(log[r]) \in Nat
        /\ row[r] \in 1 .. Len(log[r])
    BY DEF BackendTyped, Numbers
  <1>2. /\ longer[Len(log[r]) + 1] = k
        /\ \A i \in 1 .. Len(log[r]) : longer[i] = log[r][i]
    BY <1>1
  <1>3. \A q \in Runs : /\ log'[q] = IF q = r THEN longer ELSE log[q]
                        /\ row'[q] = IF q = r /\ k # "note" THEN Len(log[r]) + 1 ELSE row[q]
    BY DEF Appends, BackendTyped
  <1> HIDE DEF longer
  <1>4. RowsGrow
    BY <1>3 DEF RowsGrow
  <1>5. ASSUME NEW q \in Runs PROVE log'[q][row'[q]] # "note"
    BY <1>1, <1>2, <1>3 DEF RowsTell
  <1> QED
    BY <1>4, <1>5 DEF RowsTell

(* A row that is newer by a step is beyond what the client has received.       *)
LEMMA RowsAhead ==
    ASSUME IInv, RowsGrow, activeRun # None
    PROVE  /\ activeRun \in Runs
           /\ row'[activeRun] = row[activeRun] \/ row'[activeRun] > afterSequence
  <1>1. activeRun \in Runs /\ afterSequence \in Nat
    BY RunViewAssumption DEF IInv, ClientTyped
  <1>2. log[activeRun] \in Seq(Kinds) /\ afterSequence <= Len(log[activeRun])
    BY <1>1 DEF IInv, BackendTyped, PositionsKept
  <1>3. Len(log[activeRun]) \in Nat
    BY <1>2
  <1>4. Len(log[activeRun]) + 1 > afterSequence
    BY <1>1, <1>2, <1>3
  <1> QED
    BY <1>1, <1>4 DEF RowsGrow

(* Steps that leave the position and what is shown as they are.                *)
LEMMA ViewStays ==
    ASSUME IInv, ViewSound, RowsGrow, BringersKept,
           UNCHANGED <<activeRun, afterSequence, selectedRun, calm, stale>>
    PROVE  ViewSound'
  <1> SUFFICES ASSUME calm, ~stale, activeRun # None,
                      row'[activeRun] = row[activeRun]
               PROVE  \/ selectedRun = [run |-> activeRun, row |-> row[activeRun]]
                      \/ row[activeRun] > afterSequence
                      \/ \E c \in Calls :
                            call'[c] # None /\ Brings(call'[c], activeRun, row[activeRun])
    BY RowsAhead DEF ViewSound
  <1> QED
    BY DEF ViewSound, BringersKept

LEMMA AnswersStay ==
    ASSUME IInv, CallTyped', AnswersSound, RowsGrow, AnswersKept, UNCHANGED selectedRun
    PROVE  AnswersSound'
  <1>1. \A r \in Runs : /\ row[r] \in Nat /\ row'[r] \in Nat /\ row[r] <= row'[r]
    <2> TAKE r \in Runs
    <2>1. row[r] \in Nat /\ row[r] <= Len(log[r]) /\ Len(log[r]) \in Nat
      BY DEF IInv, BackendTyped, Numbers
    <2> QED
      BY <2>1 DEF RowsGrow
  <1>2. ASSUME NEW c \in Calls, call'[c] # None PROVE call'[c].row <= row'[call'[c].run]
    <2>1. call'[c].run \in Runs /\ call'[c].row \in Nat
      BY <1>2, RunViewAssumption DEF CallTyped, Call
    <2>2. CASE call[c] # None /\ call'[c].run = call[c].run /\ call'[c].row = call[c].row
      <3>1. call'[c].row <= row[call'[c].run]
        BY <2>2 DEF AnswersSound
      <3> QED
        BY <1>1, <2>1, <3>1
    <2> QED
      BY <1>2, <2>2 DEF AnswersKept
  <1>3. ASSUME selectedRun # None PROVE selectedRun.row <= row'[selectedRun.run]
    <2>1. selectedRun.run \in Runs /\ selectedRun.row \in Nat
      BY <1>3, RunViewAssumption DEF IInv, ShownTyped, Shown
    <2>2. selectedRun.row <= row[selectedRun.run]
      BY <1>3 DEF AnswersSound
    <2> QED
      BY <1>1, <2>1, <2>2
  <1> QED
    BY <1>2, <1>3 DEF AnswersSound

(* A new request has read nothing yet.                                         *)
LEMMA AsksBrings ==
    ASSUME IInv, NEW op \in {"select", "refresh", "act"}, NEW r \in Runs, Asks(op, r),
           RowsGrow
    PROVE  /\ AnswersKept /\ BringersKept
           /\ op = "refresh" => \A n : \E c \in Calls : call'[c] # None /\ Brings(call'[c], r, n)
  <1> DEFINE new == Asked(op, r)
  <1>1. PICK c \in Calls : call[c] = None /\ call' = [call EXCEPT ![c] = new]
    BY DEF Asks
  <1>2. new \in Call /\ new.op = op /\ new.run = r /\ new.row = 0 /\ new.at = "asked"
    BY AskedTyped DEF Asked
  <1>3. new # None
    BY <1>2, NoneAssumption
  <1> HIDE DEF new
  <1>4. call'[c] = new /\ \A d \in Calls \ {c} : call'[d] = call[d]
    BY <1>1 DEF IInv, CallTyped
  <1>5. 0 <= row'[r]
    <2>1. row[r] \in Nat /\ Len(log[r]) \in Nat
      BY DEF IInv, BackendTyped, Numbers
    <2> QED
      BY <2>1 DEF RowsGrow
  <1>6. AnswersKept
    BY <1>2, <1>4, <1>5 DEF AnswersKept
  <1>7. BringersKept
    BY <1>1, <1>4 DEF BringersKept
  <1> QED
    BY <1>2, <1>3, <1>4, <1>6, <1>7 DEF Brings

-----------------------------------------------------------------------------
(* One lemma per kind of step                                                  *)

(* The steps of the backend, the stream and the session that leave requests    *)
(* and rows alone, or only append an event.                                    *)
LEMMA ViewUntouched ==
    ASSUME View, IInv', RowsTell', RowsGrow,
           UNCHANGED <<call, activeRun, afterSequence, selectedRun, calm, stale>>
    PROVE  View'
  <1>1. AnswersKept /\ BringersKept
    BY DEF AnswersKept, BringersKept
  <1> QED
    BY <1>1, ViewStays, AnswersStay DEF View, IInv

LEMMA ViewStream ==
    ASSUME View, IInv',
           EventAppended \/ ServerSends \/ ServerEnds \/ SourceEnds \/ SourceDrops \/ Reconnects
    PROVE  View'
  <1>1. UNCHANGED <<call, activeRun, afterSequence, selectedRun, calm, stale>>
    BY DEF EventAppended, ServerSends, ServerEnds, SourceEnds, SourceDrops, Reconnects, Lost,
           Opens, client, shown
  <1>2. RowsTell' /\ RowsGrow
    <2>1. CASE EventAppended
      BY <2>1, AppendsTell DEF EventAppended, View, IInv
    <2>2. CASE ~EventAppended
      <3>1. UNCHANGED backend
        BY <2>2 DEF ServerSends, ServerEnds, SourceEnds, SourceDrops, Reconnects
      <3> QED
        BY <3>1, RowsStay DEF View
    <2> QED
      BY <2>1, <2>2
  <1> QED
    BY <1>1, <1>2, ViewUntouched

(* An event that changed the run is received: the run is asked for.            *)
LEMMA ViewReceived == ASSUME View, IInv', Received PROVE View'
  <1> DEFINE n == afterSequence + 1
  <1>1. RowsTell' /\ RowsGrow /\ UNCHANGED <<row, activeRun, selectedRun, calm, stale>>
    BY RowsStay DEF View, Received, backend
  <1>2. activeRun \in Runs /\ selectedRunId = activeRun /\ activeRun # None
    BY OpenSource, RunViewAssumption DEF View, IInv, StreamIsOfSelection, Received
  <1>3. n \in Nat /\ row[activeRun] \in Nat /\ afterSequence' = n /\ n = afterSequence + 1
    <2>1. afterSequence \in Nat
      BY RunViewAssumption DEF View, IInv, ClientTyped
    <2>2. row[activeRun] \in Nat
      BY <1>2 DEF View, IInv, BackendTyped, Numbers
    <2> QED
      BY <2>1, <2>2 DEF Received
  <1>4. CASE Tells(n)
    <2>1. Asks("refresh", activeRun)
      BY <1>2, <1>4 DEF Received
    <2>2. /\ AnswersKept
          /\ \E c \in Calls : call'[c] # None /\ Brings(call'[c], activeRun, row[activeRun])
      BY <1>1, <1>2, <2>1, AsksBrings DEF View
    <2>3. AnswersSound'
      BY <1>1, <2>2, AnswersStay DEF View, IInv
    <2>4. ViewSound'
      BY <1>1, <2>2 DEF ViewSound
    <2> QED
      BY <1>1, <2>3, <2>4 DEF View
  <1>5. CASE ~Tells(n)
    <2>1. call' = call
      BY <1>5 DEF Received
    <2>2. AnswersKept
      BY <2>1 DEF AnswersKept
    <2>3. AnswersSound'
      BY <1>1, <2>2, AnswersStay DEF View, IInv
    <2>4. row[activeRun] # n
      BY <1>2, <1>5 DEF View, RowsTell, Tells
    <2> HIDE DEF n
    <2>5. row[activeRun] > afterSequence => row[activeRun] > n
      <3>1. afterSequence \in Nat
        BY RunViewAssumption DEF View, IInv, ClientTyped
      <3> QED
        BY <1>3, <2>4, <3>1
    <2>6. ViewSound'
      BY <1>1, <1>3, <2>1, <2>5 DEF View, ViewSound
    <2> QED
      BY <1>1, <2>3, <2>6 DEF View
  <1> QED
    BY <1>4, <1>5

(* Nothing is streamed afterwards.                                             *)
LEMMA ViewLeft == ASSUME View, IInv', Select \/ Leave PROVE View'
  <1>1. RowsTell' /\ RowsGrow
    BY RowsStay DEF View, Select, Leave
  <1>2. ViewSound'
    BY DEF Select, Leave, Disconnects, ViewSound
  <1>3. AnswersSound'
    <2>1. CASE Leave
      BY <2>1, <1>1, AnswersStay DEF Leave, shown, AnswersKept, View, IInv
    <2>2. CASE Select /\ UNCHANGED call /\ selectedRun' = None
      BY <2>2 DEF Select, backend, View, AnswersSound
    <2>3. ASSUME NEW r \in Runs, Asks("select", r), UNCHANGED selectedRun PROVE AnswersSound'
      BY <1>1, <2>3, AsksBrings, AnswersStay DEF View, IInv
    <2> QED
      BY <2>1, <2>2, <2>3 DEF Select
  <1> QED
    BY <1>1, <1>2, <1>3 DEF View

LEMMA ViewAct == ASSUME View, IInv', Act PROVE View'
  <1>1. RowsTell' /\ RowsGrow
    BY RowsStay DEF View, Act
  <1>2. selectedRunId \in Runs /\ Asks("act", selectedRunId)
    BY DEF View, IInv, ShownTyped, Act
  <1>3. AnswersKept /\ BringersKept
    BY <1>1, <1>2, AsksBrings DEF View
  <1> QED
    BY <1>1, <1>3, ViewStays, AnswersStay DEF View, IInv, Act, client, shown

(* A request becomes k.                                                        *)
LEMMA BecomesBrings ==
    ASSUME View, NEW c \in Calls, NEW k, Becomes(c, k),
           k # None => k.row <= row'[k.run],
           call[c] # None /\ Brings(call[c], activeRun, row[activeRun]) =>
               k # None /\ Brings(k, activeRun, row[activeRun])
    PROVE  AnswersKept /\ BringersKept
  <1>1. call'[c] = k /\ \A d \in Calls \ {c} : call'[d] = call[d]
    BY DEF View, IInv, CallTyped, Becomes
  <1> QED
    BY <1>1 DEF AnswersKept, BringersKept

LEMMA ViewAnswers == ASSUME View, IInv', NEW c \in Calls, Answers(c) PROVE View'
  <1>1. call[c] \in Call /\ call[c] # None /\ call[c].run \in Runs
    BY DEF View, IInv, CallTyped, Call, Answers, Read, ReadList, Acted, ActRefused, At
  <1>2. UNCHANGED <<client, shown, calm, stale>>
    BY DEF Answers, Read, ReadList, Acted, ActRefused
  <1>3. RowsTell' /\ RowsGrow
    <2>1. CASE Acted(c)
      BY <1>1, <2>1, AppendsTell DEF Acted, View, IInv
    <2>2. CASE ~Acted(c)
      <3>1. UNCHANGED backend
        BY <2>2 DEF Answers, Read, ReadList, ActRefused
      <3> QED
        BY <3>1, RowsStay DEF View
    <2> QED
      BY <2>1, <2>2
  <1>4. \A r \in Runs : 0 <= row'[r]
    <2>1. \A r \in Runs : row'[r] \in Nat
      BY DEF IInv, BackendTyped, Numbers
    <2> QED
      BY <2>1
  <1>5. AnswersKept /\ BringersKept
    <2>1. CASE Read(c)
      <3> DEFINE k == [call[c] EXCEPT !.row = row[call[c].run],
                           !.at = IF call[c].op = "select" THEN "listing" ELSE "answered"]
      <3>1. /\ Becomes(c, k) /\ k.run = call[c].run /\ k.row = row[k.run]
            /\ k.op = call[c].op /\ call[c].at = "asked"
            /\ k.op # "select" => k.at = "answered"
            /\ row' = row
        BY <1>1, <2>1 DEF Read, Call, backend, At
      <3>2. k # None
        <4>1. row[call[c].run] \in 0 .. MaxEvents
          BY <1>1, RunViewAssumption DEF View, IInv, BackendTyped, Numbers
        <4>2. k \in Call
          BY <1>1, <4>1 DEF Call
        <4> QED
          BY <4>2, NoneAssumption
      <3> HIDE DEF k
      <3>3. row[k.run] <= row[k.run]
        BY <1>1, <3>1 DEF View, IInv, BackendTyped, Numbers
      <3>4. Brings(call[c], activeRun, row[activeRun]) => Brings(k, activeRun, row[activeRun])
        BY <3>1 DEF Brings
      <3> QED
        BY <3>1, <3>2, <3>3, <3>4, BecomesBrings
    <2>2. CASE ReadList(c)
      <3> DEFINE k == [call[c] EXCEPT !.list = Len(log[call[c].run]), !.at = "answered"]
      <3>1. /\ Becomes(c, k) /\ k.run = call[c].run /\ k.row = call[c].row
            /\ row' = row /\ call[c].at = "listing"
        BY <1>1, <2>2 DEF ReadList, Call, backend, At
      <3> HIDE DEF k
      <3>2. k.row <= row'[k.run]
        BY <1>1, <3>1 DEF View, AnswersSound
      <3> QED
        BY <3>1, <3>2, BecomesBrings DEF Brings
    <2>3. CASE Acted(c)
      <3> DEFINE k == [call[c] EXCEPT !.row = Len(log[call[c].run]) + 1, !.at = "answered"]
      <3>1. /\ Becomes(c, k) /\ k.run = call[c].run /\ k.row = Len(log[call[c].run]) + 1
            /\ call[c].at = "asked" /\ call[c].op = "act"
        BY <1>1, <2>3 DEF Acted, Call, At
      <3> HIDE DEF k
      <3>2. row'[k.run] = k.row
        BY <1>1, <2>3, <3>1 DEF Acted, Appends, View, IInv, BackendTyped
      <3>3. k.row <= row'[k.run]
        BY <1>1, <3>1, <3>2 DEF IInv, BackendTyped, Numbers
      <3> QED
        BY <3>1, <3>3, BecomesBrings DEF Brings
    <2>4. CASE ActRefused(c)
      <3>1. call[c].at = "asked" /\ call[c].op = "act"
        BY <2>4 DEF ActRefused, At
      <3>2. CASE Becomes(c, None)
        BY <3>1, <3>2, BecomesBrings DEF Brings
      <3>3. CASE selectedRunId # None /\ Becomes(c, Asked("refresh", selectedRunId))
        <4>1. Asked("refresh", selectedRunId).row = 0
          BY DEF Asked
        <4>2. Asked("refresh", selectedRunId).run \in Runs
          BY <3>3 DEF Asked, View, IInv, ShownTyped
        <4> QED
          BY <1>4, <3>1, <3>3, <4>1, <4>2, BecomesBrings DEF Brings
      <3> QED
        BY <2>4, <3>2, <3>3 DEF ActRefused, Refreshes
    <2> QED
      BY <2>1, <2>2, <2>3, <2>4 DEF Answers
  <1> QED
    BY <1>2, <1>3, <1>5, ViewStays, AnswersStay DEF View, IInv, client, shown

LEMMA ViewFails == ASSUME View, IInv', NEW c \in Calls, CallFails(c) PROVE View'
  <1>1. RowsTell' /\ RowsGrow
    BY RowsStay DEF View, CallFails
  <1>2. ViewSound'
    BY DEF CallFails, ViewSound
  <1>3. AnswersKept
    BY DEF CallFails, Becomes, AnswersKept, View, IInv, CallTyped
  <1> QED
    BY <1>1, <1>2, <1>3, AnswersStay DEF View, IInv, CallFails, shown

(* The stream begins at the first event, and the row comes with a later one.   *)
LEMMA ViewSelected == ASSUME View, IInv', NEW c \in Calls, SelectDelivered(c) PROVE View'
  <1>1. call[c] \in Call /\ call[c] # None /\ call[c].run \in Runs /\ c \in InFlight("select")
    BY DEF View, IInv, CallTyped, Call, SelectDelivered, At, InFlight
  <1>2. RowsTell' /\ RowsGrow /\ row' = row
    BY RowsStay DEF View, SelectDelivered, backend
  <1>3. /\ selectedRun' = [run |-> call[c].run, row |-> call[c].row]
        /\ call' = [call EXCEPT ![c] = None] /\ calm' = calm
    BY DEF SelectDelivered, Becomes
  <1>4. AnswersSound'
    <2>1. ASSUME NEW d \in Calls, call'[d] # None PROVE call'[d] = call[d]
      BY <1>3, <2>1 DEF View, IInv, CallTyped
    <2> QED
      BY <1>1, <1>2, <1>3, <2>1 DEF View, AnswersSound
  <1>5. ASSUME calm, activeRun' # None PROVE row[activeRun'] > afterSequence'
    <2>1. activeRun = None /\ afterSequence = 0
      BY <1>1, <1>5 DEF View, IInv, CalmSound, PositionsKept
    <2>2. activeRun' \in Runs
      BY <1>5 DEF IInv, ClientTyped
    <2>3. afterSequence' = 0
      BY <2>1 DEF SelectDelivered, Streams, Connects, Opens, client
    <2>4. row[activeRun'] \in Nat /\ row[activeRun'] >= 1
      BY <2>2 DEF View, IInv, BackendTyped, Numbers
    <2> QED
      BY <2>3, <2>4
  <1>6. ViewSound'
    BY <1>2, <1>3, <1>5 DEF ViewSound
  <1> QED
    BY <1>2, <1>4, <1>6 DEF View

(* An answer that is shown is the row, or older and overtaken.                 *)
LEMMA ViewDelivered == ASSUME View, IInv', NEW c \in Calls, RunDelivered(c) PROVE View'
  <1> DEFINE k == call[c]
  <1>1. /\ k \in Call /\ k # None /\ k.run \in Runs /\ k.row \in Nat
        /\ k.at = "answered" /\ k.op # "select"
    BY RunViewAssumption DEF View, IInv, CallTyped, Call, RunDelivered, At
  <1>2. /\ RowsTell' /\ RowsGrow
        /\ UNCHANGED <<row, activeRun, afterSequence, selectedRunId, calm>>
        /\ selectedRun' = [run |-> k.run, row |-> k.row]
        /\ stale' = (stale \/ Overtaken(k))
    BY RowsStay DEF View, RunDelivered, backend, client
  <1>3. /\ \A d \in Calls \ {c} : call'[d] = call[d]
        /\ call'[c] # None => call'[c].row = 0 /\ call'[c].run \in Runs
    <2>1. CASE Becomes(c, None)
      BY <2>1 DEF View, IInv, CallTyped, Becomes
    <2>2. CASE selectedRunId # None /\ Becomes(c, Asked("refresh", selectedRunId))
      BY <2>2 DEF View, IInv, CallTyped, ShownTyped, Becomes, Asked
    <2> QED
      BY <2>1, <2>2 DEF RunDelivered, Refreshes
  <1>4. k.row <= row[k.run]
    BY <1>1 DEF View, AnswersSound
  <1> HIDE DEF k
  <1>5. AnswersSound'
    <2>1. \A r \in Runs : 0 <= row[r]
      <3>1. \A r \in Runs : row[r] \in Nat
        BY DEF View, IInv, BackendTyped, Numbers
      <3> QED
        BY <3>1
    <2> QED
      BY <1>2, <1>3, <1>4, <2>1 DEF View, AnswersSound
  <1>6. ASSUME calm, ~stale', activeRun # None
        PROVE  \/ selectedRun' = [run |-> activeRun, row |-> row[activeRun]]
               \/ row[activeRun] > afterSequence
               \/ \E d \in Calls : call'[d] # None /\ Brings(call'[d], activeRun, row[activeRun])
    <2>1. ~stale /\ ~Overtaken(k)
      BY <1>2, <1>6
    <2>2. k.run = activeRun
      BY <1>6, <2>1 DEF Overtaken, View, IInv, StreamIsOfSelection
    <2>3. row[activeRun] \in Nat
      BY <1>1, <2>2 DEF View, IInv, BackendTyped, Numbers
    <2>4. CASE k.row = row[activeRun]
      BY <1>2, <2>2, <2>4
    <2>5. CASE k.row # row[activeRun]
      <3>1. k.row < row[activeRun]
        BY <1>1, <1>4, <2>2, <2>3, <2>5
      <3>2. selectedRun # [run |-> activeRun, row |-> row[activeRun]]
        <4>1. CASE selectedRun = None
          <5>1. [run |-> activeRun, row |-> row[activeRun]] \in Shown
            BY <1>1, <2>2, <2>3, RunViewAssumption DEF View, IInv, BackendTyped, Numbers, Shown
          <5> QED
            BY <4>1, <5>1, NoneAssumption
        <4>2. CASE selectedRun # None
          BY <2>1, <2>2, <3>1, <4>2 DEF Overtaken
        <4> QED
          BY <4>1, <4>2
      <3>3. ~Brings(k, activeRun, row[activeRun])
        BY <1>1, <2>5 DEF Brings
      <3> QED
        BY <1>3, <1>6, <2>1, <3>2, <3>3 DEF View, ViewSound, k
    <2> QED
      BY <2>4, <2>5
  <1>7. ViewSound'
    BY <1>2, <1>6 DEF ViewSound
  <1> QED
    BY <1>2, <1>5, <1>7 DEF View

LEMMA ViewInit == Init => View
  <1> SUFFICES ASSUME Init PROVE View
    OBVIOUS
  <1>1. RowsTell
    BY DEF Init, RowsTell
  <1> QED
    BY <1>1, InitIInv DEF View, Init, AnswersSound, ViewSound

LEMMA ViewNext == View /\ [Next]_vars => View'
  <1> SUFFICES ASSUME View, [Next]_vars PROVE View'
    OBVIOUS
  <1>1. IInv'
    BY NextIInv DEF View
  <1>2. CASE BackendSteps \/ Client
    BY <1>1, <1>2, ViewStream, ViewReceived DEF BackendSteps, Client
  <1>3. CASE User
    BY <1>1, <1>3, ViewLeft, ViewAct DEF User
  <1>4. ASSUME NEW c \in Calls, Answers(c) \/ Delivered(c) \/ CallFails(c) PROVE View'
    BY <1>1, <1>4, ViewAnswers, ViewFails, ViewSelected, ViewDelivered DEF Delivered
  <1>5. CASE UNCHANGED vars
    <2>1. UNCHANGED <<backend, call, activeRun, afterSequence, selectedRun, calm, stale>>
      BY <1>5 DEF vars, client, shown
    <2> QED
      BY <1>1, <2>1, RowsStay, ViewUntouched DEF View
  <1> QED
    BY <1>2, <1>3, <1>4, <1>5 DEF Next

(* Once the stream is quiet and every request answered, the row that is shown  *)
(* is the run's: what changed it was received, what was received was asked     *)
(* for, and no older answer came after the newest without being noticed.       *)
THEOREM SpecQuietViewIsCurrent == Spec => []QuietViewIsCurrent
  <1>1. View => QuietViewIsCurrent
    <2> SUFFICES ASSUME View, calm, ~stale, source # None,
                        afterSequence = Len(log[activeRun]),
                        \A c \in Calls : call[c] = None
                 PROVE  selectedRun = [run |-> activeRun, row |-> row[activeRun]]
      BY DEF QuietViewIsCurrent
    <2>1. activeRun \in Runs /\ activeRun # None
      BY OpenSource, RunViewAssumption DEF View
    <2>2. row[activeRun] \in Nat /\ row[activeRun] <= afterSequence /\ afterSequence \in Nat
      BY <2>1, RunViewAssumption DEF View, IInv, BackendTyped, ClientTyped, Numbers
    <2>3. ~(row[activeRun] > afterSequence)
      BY <2>2
    <2> QED
      BY <2>1, <2>3 DEF View, ViewSound
  <1> QED
    BY <1>1, ViewInit, ViewNext, PTL DEF Spec
=============================================================================
