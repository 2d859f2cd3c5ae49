---------------------------- MODULE MCPatchApply ----------------------------
(* PatchApply with a patch that creates one file and deletes another, and with *)
(* almost as many restore points left from earlier sessions as are kept.  One  *)
(* content beside Absent is enough: a file is as it was, or it is not.         *)
(* A behaviour has two calls that overlap, or three that come one after the    *)
(* other and one failing operation or end of the process.                      *)
EXTENDS PatchApply, TLC

CONSTANTS f, g, p, text

MCChanges ==
    p :> <<[file |-> g, type |-> "create", content |-> text],
           [file |-> f, type |-> "delete", content |-> Absent]>>

MCStartFiles == {f :> text @@ g :> Absent}
MCStartPoints == <<f :> Absent, g :> text, f :> text>>

MCLimits == {[calls |-> 2, atOnce |-> 2, faults |-> 0], [calls |-> 3, atOnce |-> 1, faults |-> 1]}

CallSymmetry == Permutations(Calls)
=============================================================================
