---------------------------- MODULE MCJobSpooler ----------------------------
(* JobSpooler for TLC: two workers (one for the run with a counterexample),   *)
(* one request thread and the event stream's poller.                          *)
EXTENDS JobSpooler

CONSTANTS w1, w2, r1, q1, poller, null

MCWorkers == {w1, w2}
MCWorkers1 == {w1}
MCRoles == {r1}
MCRequests == {q1}
=============================================================================
