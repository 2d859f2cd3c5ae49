-------------------------- MODULE PatchTransaction --------------------------
(* What the agent patch coordinator of the Electron main process promises     *)
(* (apps/desktop/electron/agentPatchCoordinator.ts), without saying how: a     *)
(* patch is shown, approved or rejected, and applied as a whole or not at all. *)
(* PatchApply implements it as long as calm holds: the calls that touch files  *)
(* come one at a time, and no rollback and no process dies half way.           *)
EXTENDS Naturals, Sequences

CONSTANTS
    Files,      \* the files of the workspace
    Proposals,  \* ids of agent patch proposals
    Changes,    \* Changes[p]: the changes of proposal p, in order
    Contents,   \* what a file may contain
    Absent      \* the content of a file that does not exist

VARIABLES
    file,      \* the files on disk
    state,     \* the state of each proposal
    approved,  \* the proposals whose current preview is approved
    applying,  \* the proposals being applied
    calm       \* no call has disturbed another, and none was cut off

States == {"NONE", "WAITING_FOR_APPROVAL", "APPROVED", "REJECTED",
           "APPLYING", "APPLIED", "ROLLED_BACK", "FAILED"}

FilesOf(p) == {Changes[p][i].file : i \in DOMAIN Changes[p]}

(* The files once every change of p is made.                                   *)
Patched(p, fs) ==
    [f \in Files |->
        IF f \in FilesOf(p)
        THEN Changes[p][CHOOSE i \in DOMAIN Changes[p] : Changes[p][i].file = f].content
        ELSE fs[f]]

Become(p, s) == state' = [state EXCEPT ![p] = s]

Init ==
    /\ file \in [Files -> Contents \cup {Absent}]
    /\ state = [p \in Proposals |-> "NONE"]
    /\ approved = {}
    /\ applying = {}
    /\ calm = TRUE

Preview(p) ==
    /\ p \notin applying
    /\ Become(p, "WAITING_FOR_APPROVAL")
    /\ approved' = approved \ {p}
    /\ UNCHANGED <<file, applying, calm>>

Approve(p) ==
    /\ state[p] # "NONE"
    /\ Become(p, "APPROVED")
    /\ approved' = approved \cup {p}
    /\ UNCHANGED <<file, applying, calm>>

Reject(p) ==
    /\ state[p] # "NONE"
    /\ Become(p, "REJECTED")
    /\ UNCHANGED <<file, approved, applying, calm>>

(* Until it ends, nothing else changes a file.                                 *)
Begin(p) ==
    /\ p \in approved
    /\ applying = {} /\ applying' = {p}
    /\ Become(p, "APPLYING")
    /\ UNCHANGED <<file, approved, calm>>

(* All files become new, and the proposal says so.                             *)
Commit(p) ==
    /\ p \in approved
    /\ applying = {p} /\ applying' = {}
    /\ file' = Patched(p, file)
    /\ Become(p, "APPLIED")
    /\ UNCHANGED <<approved, calm>>

(* All files stay old, and the proposal says so.                               *)
Abort(p) ==
    /\ applying = {p} /\ applying' = {}
    /\ \E s \in {"FAILED", "ROLLED_BACK"} : Become(p, s)
    /\ UNCHANGED <<file, approved, calm>>

(* A save of one file.  A failed one may lose the file (PatchApply!RemoveTarget). *)
Save(f, c) ==
    /\ applying = {}
    /\ file' = [file EXCEPT ![f] = c]
    /\ UNCHANGED <<state, approved, applying, calm>>

(* A rollback by the user sets the files of a restore point, all at once.      *)
Restore ==
    /\ applying = {}
    /\ \E fs \in SUBSET Files : \E saved \in [fs -> Contents \cup {Absent}] :
          file' = [f \in Files |-> IF f \in fs THEN saved[f] ELSE file[f]]
    /\ UNCHANGED <<state, approved, applying, calm>>

(* A new process has no proposals.                                             *)
Restart ==
    /\ state' = [p \in Proposals |-> "NONE"]
    /\ approved' = {}
    /\ applying = {}
    /\ UNCHANGED <<file, applying, calm>>

(* Once the calls get into each other's way nothing more is promised.          *)
Disturbed == calm' = FALSE

Next ==
    \/ \E p \in Proposals : \/ Preview(p) \/ Approve(p) \/ Reject(p)
                            \/ Begin(p) \/ Commit(p) \/ Abort(p)
    \/ \E f \in Files, c \in Contents \cup {Absent} : Save(f, c)
    \/ Restore
    \/ Restart
    \/ Disturbed

Spec == Init /\ [][Next]_<<file, state, approved, applying, calm>>
=============================================================================
