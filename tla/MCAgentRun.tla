----------------------------- MODULE MCAgentRun -----------------------------
(* AgentRun for TLC.  API threads are interchangeable.                         *)
EXTENDS AgentRun, TLC

CONSTANTS q1, q2, none

MCRequests == {q1, q2}
MCRequests1 == {q1}
MCSymmetry == Permutations(MCRequests)

(* One run has the whole range of behaviours.  Where further runs are created, *)
(* each of them has one plan of one step at most, in an unchanged workspace,   *)
(* without restarts and failures, and the last one none: its part is to stand  *)
(* in the list in front of the others.  No step of the worker is bounded.      *)
Created == {r \in Runs : status[r] # "absent"}
Small(r) ==
    /\ plan[r] <= 1 /\ maxSteps[r] = 1
    /\ \A k \in Ordinals \ {1} : steps[r][k] = "none"
    /\ manifest[r] \in {"missing", "current"} /\ (manifest[r] = "missing" => status[r] = "absent")
MCBound ==
    Cardinality(Created) > 1 =>
        /\ \A r \in Runs : Small(r)
        /\ restarts = 0 /\ failures = 0
        /\ \A q \in Requests : request[q].length <= 1
                               /\ request[q].run # MaxRuns
        /\ plan[MaxRuns] = 0

MCSpec == Init /\ [][Next /\ MCBound']_vars /\ WF_vars(WorkerSteps)
=============================================================================
