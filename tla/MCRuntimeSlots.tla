--------------------------- MODULE MCRuntimeSlots ---------------------------
(* RuntimeSlots without the chat: a model is started from the panel, its       *)
(* process dies, and nobody stops the slot.                                    *)
EXTENDS RuntimeSlots

MCSlotOrder == <<"fast_gpu">>
MCLimits ==
    {[starts |-> 1, stops |-> 0, crashes |-> 1, supervised |-> TRUE, watched |-> FALSE,
      sends |-> 0, cancels |-> 0, clears |-> 0, questions |-> 0, plans |-> 0]}
=============================================================================
