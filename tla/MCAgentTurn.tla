----------------------------- MODULE MCAgentTurn -----------------------------
(* AgentTurn with two runs, the first with every kind of tool, the second with *)
(* the tools that wait for the user.                                           *)
EXTENDS AgentTurn

MCOffers ==
    [r \in Runs |->
        IF r = 1 THEN {<<"web", "read">>, <<"stray", "ask">>, <<"foreign">>, <<"propose">>,
                       <<"hidden", "write">>, <<"bridge">>}
        ELSE {<<"ask">>, <<"web">>}]
MCSteps == [r \in Runs |-> IF r = 1 THEN 2 ELSE 1]
MCToolCalls == [r \in Runs |-> 1]
=============================================================================
