----------------------------- MODULE MCChatSend -----------------------------
(* ChatSend with one slot.  A behaviour is one of six scenarios: two sends     *)
(* with cancels and a clear, of which the first has an image and the second is *)
(* a review; one send beside the idle watcher, the panel and a crash; one send *)
(* beside two ticks of the supervisor and a crash; two sends with a question   *)
(* found in the workspace, a cancel and a clear; two sends with a plan to      *)
(* approve and a cancel; and two ticks beside the panel, without a send.       *)
EXTENDS ChatSend

CONSTANTS m1, m2

MCSlotOrder == <<"fast_gpu">>
MCRoute == [r \in Sends |-> [slot |-> "fast_gpu", model |-> m1]]

Nothing == [starts |-> 0, stops |-> 0, crashes |-> 0, supervised |-> FALSE, watched |-> FALSE,
            sends |-> 0, cancels |-> 0, clears |-> 0, questions |-> 0, plans |-> 0]
MCLimits ==
    {[Nothing EXCEPT !.sends = 2, !.cancels = 2, !.clears = 1],
     [Nothing EXCEPT !.sends = 1, !.cancels = 1, !.starts = 1, !.stops = 1, !.crashes = 1,
                     !.watched = TRUE],
     [Nothing EXCEPT !.sends = 1, !.crashes = 1, !.supervised = TRUE],
     [Nothing EXCEPT !.sends = 2, !.cancels = 1, !.questions = 1, !.clears = 1],
     [Nothing EXCEPT !.sends = 2, !.cancels = 1, !.plans = 1],
     [Nothing EXCEPT !.starts = 2, !.stops = 1, !.supervised = TRUE]}
=============================================================================
