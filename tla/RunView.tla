------------------------------ MODULE RunView ------------------------------
(* How the desktop shows an agent run.  The backend appends the run's events  *)
(* to agent_events, numbered from 1, in the transaction that changes the      *)
(* run's row; an event stream (backend/app/agent_workbench/event_stream.py)   *)
(* sends them to the renderer, whose client                                   *)
(* (apps/desktop/src/services/agentWorkbenchSse.ts) counts what it received   *)
(* and reconnects; the store (agentWorkbenchStore.ts) merges the events and   *)
(* asks for the run again whenever one of them tells of a change.             *)
(*                                                                            *)
(* A select, a refresh and an action of the user (start, pause, resume,       *)
(* cancel, acceptance) are async functions: their requests are answered in    *)
(* any order, and the store does not ask whether an answer still belongs to   *)
(* what it shows.  The row of a run is represented by the number of the event *)
(* that last changed it.  Review gates, follow-ups and what events say are    *)
(* left out.                                                                  *)
EXTENDS Naturals, Sequences

CONSTANTS
    Runs,
    MaxEvents, \* bound on the events of a run
    Calls,     \* bound on the requests of the renderer in flight
    Limits,    \* how often each bounded thing may happen, one record per scenario
    None

LimitType == [selects: Nat, acts: Nat, leaves: Nat, drops: Nat, faults: Nat, events: Nat]

ASSUME RunViewAssumption ==
    /\ None \notin Runs
    /\ MaxEvents \in Nat \ {0}
    /\ Limits \subseteq LimitType

VARIABLES
    log,           \* agent_events: the kinds of each run's events
    row,           \* agent_runs: the number of the event that last changed each run
    source,        \* the EventSource: what the server has sent on it, and whether it ended
    timer,         \* reconnectTimeout is set
    activeRun,     \* activeRunId of the stream client
    afterSequence, \* the number of the last event received
    selectedRunId,
    selectedRun,   \* the row that is shown
    events,        \* the events that are shown, by number: the run they came from
    call,          \* the requests in flight
    calm,          \* no run was selected while another selection was in flight
    stale,         \* since the selection an answer came late or not at all
    left

client == <<source, timer, activeRun, afterSequence>>
shown == <<selectedRunId, selectedRun, events>>
backend == <<log, row>>
vars == <<backend, client, shown, call, calm, stale, left>>

-----------------------------------------------------------------------------
(* Types *)

Kinds == {"live", "over", "note"} \* "run.*", "step.*" and "plan.revised"; the others
Numbers == 1 .. MaxEvents

Over(r) == log[r][row[r]] = "over"

Source == [sent: 0 .. MaxEvents, ended: BOOLEAN]
Shown == [run: Runs, row: 0 .. MaxEvents]
Call == [op: {"select", "refresh", "act"}, run: Runs, row: 0 .. MaxEvents,
         list: 0 .. MaxEvents, at: {"asked", "listing", "answered"}]
NoEvents == [n \in Numbers |-> None]

ASSUME NoneAssumption == None \notin Call /\ None \notin Shown

Init ==
    /\ log = [r \in Runs |-> <<"live">>] \* run.created
    /\ row = [r \in Runs |-> 1]
    /\ source = None /\ timer = FALSE
    /\ activeRun = None /\ afterSequence = 0
    /\ selectedRunId = None /\ selectedRun = None
    /\ events = NoEvents
    /\ call = [c \in Calls |-> None]
    /\ calm = TRUE /\ stale = FALSE
    /\ left \in Limits

-----------------------------------------------------------------------------
(* Helpers *)

Spend(what) == left[what] > 0 /\ left' = [left EXCEPT ![what] = @ - 1]
InFlight(op) == {c \in Calls : call[c] # None /\ call[c].op = op}
At(c, at) == call[c] # None /\ call[c].at = at

Asked(op, r) == [op |-> op, run |-> r, row |-> 0, list |-> 0, at |-> "asked"]
(* Requests are interchangeable: a new one takes a free place.                *)
Asks(op, r) ==
    \E c \in Calls :
        /\ call[c] = None
        /\ c = CHOOSE d \in Calls : call[d] = None
        /\ call' = [call EXCEPT ![c] = Asked(op, r)]
Becomes(c, k) == call' = [call EXCEPT ![c] = k]
(* refreshSelectedRun, called by the function of request c.                   *)
Refreshes(c) == Becomes(c, IF selectedRunId = None THEN None
                           ELSE Asked("refresh", selectedRunId))

(* connectAgentWorkbenchSse.  The timer is cleared with a source that is      *)
(* open, and only then.                                                       *)
Opens(r, n) ==
    /\ activeRun' = r
    /\ afterSequence' = n
    /\ source' = [sent |-> n, ended |-> FALSE]
Connects(r, n) == Opens(r, n) /\ timer' = (timer /\ source = None)

(* disconnectAgentWorkbenchSse.                                               *)
\* Mutant: the next stream begins where the last one stopped.
DisconnectsKeeping ==
    /\ source' = None /\ timer' = FALSE
    /\ activeRun' = None
    /\ afterSequence' = afterSequence
Disconnects ==
    /\ source' = None /\ timer' = FALSE
    /\ activeRun' = None
    /\ afterSequence' = 0

(* connectStream, called by the function that selected run r.                 *)
\* Mutant: the stream of the run that was read, not of the one selected since.
StreamsOf(r) == Connects(r, afterSequence)
Streams(r) ==
    IF selectedRunId = None THEN UNCHANGED client
    ELSE Connects(selectedRunId, afterSequence)

-----------------------------------------------------------------------------
(* The backend *)

(* append_event: the number is taken, the event inserted and the row of the   *)
(* run changed in one transaction.                                            *)
Appends(r, k) ==
    /\ Len(log[r]) < MaxEvents
    /\ log' = [log EXCEPT ![r] = Append(@, k)]
    /\ row' = [row EXCEPT ![r] = IF k = "note" THEN @ ELSE Len(log[r]) + 1]

EventAppended ==
    /\ Spend("events")
    /\ \E r \in Runs, k \in Kinds : Appends(r, k)
    /\ UNCHANGED <<client, shown, call, calm, stale>>

(* One round of the stream's generator: it sends what is new ...              *)
ServerSends ==
    /\ source # None
    /\ ~source.ended /\ source.sent < Len(log[activeRun])
    /\ source' = [source EXCEPT !.sent = Len(log[activeRun])]
    /\ UNCHANGED <<backend, timer, activeRun, afterSequence, shown, call, calm, stale, left>>

(* ... or finds nothing new and the run over, and ends with a last look.      *)
ServerEnds ==
    /\ source # None
    /\ ~source.ended /\ Over(activeRun)
    /\ source' = [sent |-> Len(log[activeRun]), ended |-> TRUE]
    /\ UNCHANGED <<backend, timer, activeRun, afterSequence, shown, call, calm, stale, left>>

-----------------------------------------------------------------------------
(* The stream client *)

(* ingestEvent asks for the run again when the event tells of a change.       *)
\* Mutant: only if the event is not among those already shown.
TellsIfNew(n) == log[activeRun][n] # "note" /\ events[n] # activeRun
Tells(n) == log[activeRun][n] # "note"

(* An event arrives: it is counted and merged into those shown, which are     *)
(* kept by number, whatever run they are from.                                *)
Received ==
    /\ source # None
    /\ afterSequence < source.sent
    /\ LET n == afterSequence + 1 IN
        /\ afterSequence' = n
        /\ events' = [events EXCEPT ![n] = activeRun]
        /\ IF Tells(n) /\ selectedRunId # None THEN Asks("refresh", selectedRunId)
                                               ELSE call' = call
    /\ UNCHANGED <<backend, source, timer, activeRun, selectedRunId, selectedRun, calm, stale, left>>

(* onerror: the source is closed, with what was still on its way.             *)
\* Mutants: nobody tries again; what was on its way counts as received.
LostForGood == source' = None /\ UNCHANGED <<timer, activeRun, afterSequence>>
LostAsReceived ==
    /\ source' = None /\ timer' = TRUE
    /\ afterSequence' = source.sent
    /\ UNCHANGED activeRun
Lost ==
    /\ source' = None /\ timer' = TRUE
    /\ UNCHANGED <<activeRun, afterSequence>>

SourceEnds ==
    /\ source # None
    /\ source.ended /\ afterSequence = source.sent
    /\ Lost
    /\ UNCHANGED <<backend, shown, call, calm, stale, left>>

SourceDrops ==
    /\ source # None
    /\ Spend("drops")
    /\ Lost
    /\ UNCHANGED <<backend, shown, call, calm, stale>>

(* The timer of scheduleReconnect.                                            *)
Reconnects ==
    /\ timer
    /\ timer' = FALSE
    /\ Opens(activeRun, afterSequence)
    /\ UNCHANGED <<backend, shown, call, calm, stale, left>>

-----------------------------------------------------------------------------
(* The store *)

(* selectRun, up to its first request.  A selection of no run ends here.      *)
Select ==
    /\ Spend("selects")
    /\ Disconnects
    /\ calm' = (calm /\ InFlight("select") = {})
    /\ stale' = FALSE
    /\ \/ /\ selectedRunId' = None /\ selectedRun' = None /\ events' = NoEvents
          /\ UNCHANGED call
       \/ \E r \in Runs :
          /\ selectedRunId' = r
          /\ Asks("select", r)
          /\ UNCHANGED <<selectedRun, events>>
    /\ UNCHANGED backend

(* The start, pause, ... of the selected run.                                 *)
Act ==
    /\ Spend("acts")
    /\ selectedRunId # None
    /\ Asks("act", selectedRunId)
    /\ UNCHANGED <<backend, client, shown, calm, stale>>

(* The backend reads the run for a selection or a refresh.                    *)
Read(c) ==
    /\ At(c, "asked") /\ call[c].op # "act"
    /\ Becomes(c, [call[c] EXCEPT !.row = row[call[c].run],
                        !.at = IF call[c].op = "select" THEN "listing" ELSE "answered"])
    /\ UNCHANGED <<backend, client, shown, calm, stale, left>>

(* A selection reads the events in a second request.                          *)
ReadList(c) ==
    /\ At(c, "listing")
    /\ Becomes(c, [call[c] EXCEPT !.list = Len(log[call[c].run]), !.at = "answered"])
    /\ UNCHANGED <<backend, client, shown, calm, stale, left>>

(* The backend changes the run, and answers with its row.                     *)
Acted(c) ==
    /\ At(c, "asked") /\ call[c].op = "act"
    /\ LET r == call[c].run IN
        /\ \E k \in Kinds \ {"note"} : Appends(r, k)
        /\ Becomes(c, [call[c] EXCEPT !.row = Len(log[r]) + 1, !.at = "answered"])
    /\ UNCHANGED <<client, shown, calm, stale, left>>

(* The state machine refuses; resume and acceptance ask for the run then.     *)
ActRefused(c) ==
    /\ At(c, "asked") /\ call[c].op = "act"
    /\ Becomes(c, None) \/ Refreshes(c)
    /\ UNCHANGED <<backend, client, shown, calm, stale, left>>

(* The rest of selectRun: what was read is shown, and the stream is opened.   *)
SelectDelivered(c) ==
    /\ At(c, "answered") /\ call[c].op = "select"
    /\ LET r == call[c].run IN
        /\ selectedRun' = [run |-> r, row |-> call[c].row]
        /\ events' = [n \in Numbers |-> IF n <= call[c].list THEN r ELSE None]
        /\ Streams(r)
    /\ Becomes(c, None)
    /\ UNCHANGED <<backend, selectedRunId, calm, stale, left>>

(* The answer is not of the selected run, or older than what is shown.        *)
Overtaken(k) ==
    \/ k.run # selectedRunId
    \/ selectedRun # None /\ selectedRun.run = k.run /\ k.row < selectedRun.row

(* The answer to a refresh or an action is shown, whatever is selected now;   *)
(* an acceptance goes on with a refresh.                                      *)
RunDelivered(c) ==
    /\ At(c, "answered") /\ call[c].op # "select"
    /\ selectedRun' = [run |-> call[c].run, row |-> call[c].row]
    /\ stale' = (stale \/ Overtaken(call[c]))
    /\ Becomes(c, None) \/ (call[c].op = "act" /\ Refreshes(c))
    /\ UNCHANGED <<backend, client, selectedRunId, events, calm, left>>

(* A request fails.                                                           *)
CallFails(c) ==
    /\ Spend("faults")
    /\ call[c] # None /\ call[c].at # "answered"
    /\ Becomes(c, None)
    /\ stale' = TRUE
    /\ UNCHANGED <<backend, client, shown, calm>>

(* The workbench is unmounted, or its workspace changes.                      *)
Leave ==
    /\ Spend("leaves")
    /\ Disconnects
    /\ UNCHANGED <<backend, shown, call, calm, stale>>

-----------------------------------------------------------------------------
(* The specification *)

BackendSteps == EventAppended \/ ServerSends \/ ServerEnds
Client == Received \/ SourceEnds \/ SourceDrops \/ Reconnects
Answers(c) == Read(c) \/ ReadList(c) \/ Acted(c) \/ ActRefused(c)
Delivered(c) == SelectDelivered(c) \/ RunDelivered(c)
User == Select \/ Act \/ Leave

Next ==
    \/ BackendSteps \/ Client \/ User
    \/ \E c \in Calls : Answers(c) \/ Delivered(c) \/ CallFails(c)

Spec == Init /\ [][Next]_vars

(* The generator polls, the client's callbacks run, its timer fires, and      *)
(* requests that do not fail are answered.                                    *)
FairSpec ==
    /\ Spec
    /\ WF_vars(ServerSends \/ ServerEnds)
    /\ WF_vars(Received)
    /\ WF_vars(SourceEnds \/ Reconnects)
    /\ WF_vars(\E c \in Calls : Answers(c) \/ Delivered(c))

-----------------------------------------------------------------------------
(* Properties *)

(* The client has received no more than the server has sent, nor the server    *)
(* sent more than there is.                                                   *)
PositionsKept ==
    /\ activeRun = None => source = None /\ ~timer /\ afterSequence = 0
    /\ source # None => afterSequence <= source.sent /\ source.sent <= Len(log[activeRun])
    /\ activeRun # None => afterSequence <= Len(log[activeRun])

(* Types; and the position in one run's events is never used for another's,   *)
(* which would skip its beginning.                                            *)
TypeOK ==
    /\ log \in [Runs -> Seq(Kinds)]
    /\ row \in [Runs -> Numbers]
    /\ \A r \in Runs : row[r] <= Len(log[r]) /\ Len(log[r]) <= MaxEvents
    /\ source \in Source \cup {None}
    /\ timer \in BOOLEAN
    /\ activeRun \in Runs \cup {None}
    /\ afterSequence \in 0 .. MaxEvents
    /\ selectedRunId \in Runs \cup {None}
    /\ selectedRun \in Shown \cup {None}
    /\ events \in [Numbers -> Runs \cup {None}]
    /\ call \in [Calls -> Call \cup {None}]
    /\ calm \in BOOLEAN /\ stale \in BOOLEAN
    /\ left \in LimitType
    /\ PositionsKept

(* The stream is the selected run's, whatever order overlapping selections,   *)
(* lost connections and the timer come in.                                    *)
StreamIsOfSelection == activeRun # None => activeRun = selectedRunId

(* Selections that do not overlap: what is shown while a run is streamed are  *)
(* its events only, and all of them up to the last one received, through      *)
(* lost connections, ends of the stream and reconnects.                       *)
NoEventMissed ==
    calm /\ activeRun # None =>
        \A n \in Numbers :
            /\ events[n] \in {activeRun, None}
            /\ n <= afterSequence => events[n] = activeRun

(* When the stream is quiet and every request answered, the row that is shown *)
(* is the run's, although the row, the list and the stream are three reads:   *)
(* unless selections overlapped, or an answer came late or not at all.        *)
QuietViewIsCurrent ==
    /\ calm /\ ~stale
    /\ source # None
    /\ afterSequence = Len(log[activeRun])
    /\ \A c \in Calls : call[c] = None
    => selectedRun = [run |-> activeRun, row |-> row[activeRun]]

(* An event of the run that is streamed arrives, unless the stream is left.   *)
EventsArrive ==
    \A r \in Runs, n \in Numbers :
        (activeRun = r /\ n <= Len(log[r])) ~> (activeRun # r \/ afterSequence >= n)
=============================================================================
