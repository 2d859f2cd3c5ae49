----------------------------- MODULE MCRunView -----------------------------
(* RunView for TLC.  Four scenarios: overlapping selections of two runs that  *)
(* go on; one with an action and a lost connection; a selection, a leave and  *)
(* another selection; and an action with a failing request.                   *)
EXTENDS RunView, TLC

CONSTANTS a, b, c1, c2, c3, null

MCRuns == {a, b}
MCCalls == {c1, c2, c3}

Nothing == [selects |-> 0, acts |-> 0, leaves |-> 0, drops |-> 0, faults |-> 0, events |-> 0]
MCLimits ==
    {[Nothing EXCEPT !.selects = 2, !.drops = 1, !.events = 1],
     [Nothing EXCEPT !.selects = 1, !.acts = 1, !.drops = 1, !.events = 1],
     [Nothing EXCEPT !.selects = 2, !.leaves = 1, !.events = 1],
     [Nothing EXCEPT !.selects = 1, !.acts = 1, !.faults = 1]}
=============================================================================
