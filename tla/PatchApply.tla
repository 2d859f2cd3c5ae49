----------------------------- MODULE PatchApply -----------------------------
(* How the Electron main process changes files of the workspace: the agent     *)
(* patch coordinator (apps/desktop/electron/agentPatchCoordinator.ts) with the *)
(* file change service, the restore points (restorePointService.ts) and the    *)
(* atomic save (atomicFileWrite.ts) it works with.                             *)
(*                                                                             *)
(* Every IPC handler is asynchronous: at each await another call may run, so a *)
(* call is a program counter and what it holds between two awaits.  Nothing is *)
(* locked.  Restore points are files of their own with an index that is read,  *)
(* changed in memory and written back; a write empties index.json before it    *)
(* fills it, and an empty index is read as one without entries.  A crash keeps *)
(* the disk and forgets calls, proposals and snapshots.                        *)
(*                                                                             *)
(* Simplifications.  The path checks, size limits and binary checks are a      *)
(* refusal that may come at any call.  Reads of several files in a row, a      *)
(* deletion and the read of the index after it, and a write of a workspace or  *)
(* restore-point file with its verification are one step.                      *)
(* An approval version is the list of snapshot ids it contains (createdAt and  *)
(* the proposal id stay the same when a proposal is previewed again).          *)
EXTENDS Naturals, Sequences, FiniteSets, SequencesExt

CONSTANTS
    Files, Proposals, Changes, Contents, Absent,  \* as in PatchTransaction
    Calls,       \* IPC calls that may be in flight at once
    KeptPoints,  \* maxPointsPerWorkspace
    Limits,      \* bounds: what may happen, one member of Limits per behaviour
    MaxSnaps,    \* bound: snapshots ever taken
    StartFiles,  \* the contents of the workspace the model starts from
    StartPoints, \* the restore points of earlier sessions, the oldest first
    None

(* The bounds of a behaviour: calls that touch files or restore points, how    *)
(* many of them are in flight at once, and failing file operations and ends of *)
(* the process.                                                                *)
LimitType == [calls: Nat, atOnce: Nat, faults: Nat]

Content == Contents \cup {Absent}
FileMaps == UNION {[fs -> Content] : fs \in SUBSET Files}

ASSUME ChangesAssumption ==
    /\ Absent \notin Contents
    /\ Changes \in [Proposals -> Seq([file: Files, type: {"create", "modify", "delete"},
                                      content: Content])]
    /\ \A p \in Proposals : \A i \in DOMAIN Changes[p] :
          \* PATCH_CONTENT_REQUIRED, PATCH_DELETE_CONTENT_INVALID
          /\ Changes[p][i].type = "delete" <=> Changes[p][i].content = Absent
          \* PATCH_DUPLICATE_FILE
          /\ \A j \in DOMAIN Changes[p] :
                Changes[p][i].file = Changes[p][j].file => i = j

ASSUME SetsAssumption == IsFiniteSet(Files) /\ IsFiniteSet(Calls)

(* A patch must not clean away the restore point it would roll back to: the    *)
(* code keeps 60 points, a patch changes at most 8 files.                      *)
ASSUME KeptPointsAssumption ==
    /\ KeptPoints \in Nat \ {0}
    /\ \A p \in Proposals : KeptPoints > Len(Changes[p])

ASSUME PatchBoundsAssumption ==
    /\ Limits \subseteq LimitType
    /\ MaxSnaps \in Nat
    /\ StartFiles \subseteq [Files -> Content]
    /\ StartPoints \in Seq(FileMaps) /\ Len(StartPoints) <= KeptPoints

VARIABLES
    file,      \* the files on disk
    points,    \* restore point files on disk, by id
    index,     \* index.json: ids, the newest first
    snapshot,  \* FileChangeService: the latest snapshot of each file
    snaps,     \* snapshots taken so far
    proposal,  \* AgentPatchCoordinator.proposals
    call,      \* the calls in flight
    begun,     \* calls begun so far, and restore points made
    faults,    \* failed file operations and crashes so far
    calm,      \* no call has disturbed another
    cut,       \* a call or a rollback was cut off half way
    limit      \* the bounds of this behaviour

disk == <<file, points, index>>
memory == <<snapshot, snaps, proposal>>
vars == <<disk, memory, call, begun, faults, calm, cut, limit>>

-----------------------------------------------------------------------------
(* Types *)

States == {"WAITING_FOR_APPROVAL", "APPROVED", "REJECTED",
           "APPLYING", "APPLIED", "ROLLED_BACK", "FAILED"}
Versions == UNION {[fs -> 1..MaxSnaps] : fs \in SUBSET Files}
ProposalType == [state: States, version: Versions, approved: Versions \cup {None}]
SnapshotType == [id: Nat, content: Content]

Ops == {"apply", "save", "point", "rollback", "delete", "list", "cleanup", "rebuild"}
Places == {"read", "read-index", "write-index", "fill-index", \* a restore point
           "clean", "clean-index", "fill-clean",
           "change", "patch", "restore",                     \* a patch
           "put", "replace"}                                 \* a save
CallType ==
    [op: Ops, at: Places, p: Proposals \cup {None}, held: BOOLEAN, i: Nat,
     point: Nat, ids: Seq(Nat), saved: FileMaps,
     f: Files \cup {None}, content: Content \cup {None}, before: [Files -> Content]]

ASSUME NoneAssumption ==
    /\ None \notin Proposals /\ None \notin Versions
    /\ None \notin ProposalType /\ None \notin SnapshotType /\ None \notin CallType

PointIds == 1..begun.points  \* ids count the points made
FilesOf(p) == {Changes[p][i].file : i \in DOMAIN Changes[p]}
Active == {c \in Calls : call[c] # None}

-----------------------------------------------------------------------------
(* Helpers *)

Init ==
    /\ file \in StartFiles
    /\ points = StartPoints
    /\ index = Reverse([r \in DOMAIN StartPoints |-> r])
    /\ snapshot = [f \in Files |-> None]
    /\ snaps = 0
    /\ proposal = [p \in Proposals |-> None]
    /\ call = [c \in Calls |-> None]
    /\ begun = [calls |-> 0, points |-> Len(StartPoints)]
    /\ faults = 0
    /\ calm = TRUE
    /\ cut = FALSE
    /\ limit \in Limits

(* A call begins with what it holds at its first await; it disturbs those that *)
(* are still in flight.                                                        *)
NewCall(op, at) ==
    [op |-> op, at |-> at, p |-> None, held |-> TRUE, i |-> 0, point |-> 0, ids |-> <<>>,
     saved |-> [f \in {} |-> Absent], f |-> None, content |-> None, before |-> file]

Becomes(c, k) == call' = [call EXCEPT ![c] = k]

Begin(c, k) ==
    /\ call[c] = None
    /\ begun.calls < limit.calls /\ Cardinality(Active) < limit.atOnce
    /\ begun' = [begun EXCEPT !.calls = @ + 1]
    /\ Becomes(c, k)
    /\ calm' = (calm /\ Active = {})

At(c, at) == call[c] # None /\ call[c].at = at
Goto(c, at) == Becomes(c, [call[c] EXCEPT !.at = at])
End(c) == Becomes(c, None)

\* Mutant: the state goes to whatever is stored under the proposal's id.
SetStateById(c, s) == proposal' = [proposal EXCEPT ![call[c].p].state = s]
(* A call still holds the proposal that the map holds, unless the proposal was *)
(* previewed again meanwhile.                                                  *)
SetState(c, s) ==
    proposal' = IF call[c].held THEN [proposal EXCEPT ![call[c].p].state = s] ELSE proposal

FaultHits ==
    /\ faults < limit.faults
    /\ faults' = faults + 1

ContentsOf(fs) == [f \in fs |-> file[f]]

(* createDiff works with the latest snapshot of a file, however old, and takes *)
(* one only if there is none.                                                  *)
Missing(fs) == SetToSeq({f \in fs : snapshot[f] = None})
\* Mutant: the first new snapshot gets an id that is not the next one.
SnapshotsSkipping(fs) ==
    [f \in Files |->
        IF f \in ToSet(Missing(fs))
        THEN [id |-> snaps + 1 + (CHOOSE i \in DOMAIN Missing(fs) : Missing(fs)[i] = f),
              content |-> file[f]]
        ELSE snapshot[f]]
Snapshots(fs) ==
    [f \in Files |->
        IF f \in ToSet(Missing(fs))
        THEN [id |-> snaps + (CHOOSE i \in DOMAIN Missing(fs) : Missing(fs)[i] = f),
              content |-> file[f]]
        ELSE snapshot[f]]

-----------------------------------------------------------------------------
(* Proposals *)

PreviewMay(p) ==
    \A i \in DOMAIN Changes[p] :
        (file[Changes[p][i].file] = Absent) <=> (Changes[p][i].type = "create")

(* createPreview: a new stored proposal, even if one of this id is being applied. *)
Preview(p) ==
    LET fs == FilesOf(p)
        snap == Snapshots(fs)
    IN
    /\ PreviewMay(p)
    /\ snaps + Len(Missing(fs)) <= MaxSnaps
    /\ snaps' = snaps + Len(Missing(fs))
    /\ snapshot' = snap
    /\ proposal' = [proposal EXCEPT ![p] =
          [state |-> "WAITING_FOR_APPROVAL",
           version |-> [f \in fs |-> snap[f].id],
           approved |-> None]]
    /\ call' = [c \in Calls |->
          IF c \in Active /\ call[c].p = p THEN [call[c] EXCEPT !.held = FALSE] ELSE call[c]]
    /\ calm' = (calm /\ \A c \in Active : call[c].p # p)
    /\ UNCHANGED <<disk, begun, faults, cut>>

Approve(p, version) ==
    /\ proposal[p] # None
    /\ proposal[p].version = version
    /\ proposal' = [proposal EXCEPT ![p].approved = version, ![p].state = "APPROVED"]
    /\ UNCHANGED <<disk, snapshot, snaps, call, begun, faults, calm, cut>>

Reject(p) ==
    /\ proposal[p] # None
    /\ proposal' = [proposal EXCEPT ![p].state = "REJECTED"]
    /\ UNCHANGED <<disk, snapshot, snaps, call, begun, faults, calm, cut>>

(* undoPatch: back to the file's latest snapshot, which is forgotten.          *)
Undo(f) ==
    /\ snapshot[f] # None
    /\ begun.calls < limit.calls /\ Cardinality(Active) < limit.atOnce
    /\ begun' = [begun EXCEPT !.calls = @ + 1]
    /\ file' = [file EXCEPT ![f] = snapshot[f].content]
    /\ snapshot' = [snapshot EXCEPT ![f] = None]
    /\ calm' = (calm /\ Active = {})
    /\ UNCHANGED <<points, index, snaps, proposal, call, faults, cut>>

-----------------------------------------------------------------------------
(* Restore points: createRestorePoint, with the index read into memory, written *)
(* back with the new entry in front, and cleaned.                              *)

(* The files a call puts into the restore point it is making.                  *)
Wanted(c) ==
    IF call[c].op = "apply"
    THEN IF call[c].i = 0 THEN FilesOf(call[c].p) ELSE {Changes[call[c].p][call[c].i].file}
    ELSE {call[c].f}

\* Mutant: the new entry goes to the end of the index.
WithEntryLast(id, ids) == Append(ids, id)
WithEntry(id, ids) == <<id>> \o ids

(* applyPatchWithRestorePoint first asks createDiff for the file's snapshot.   *)
(* The id, which is in the order of createdAt, is made before the index is     *)
(* read.                                                                       *)
MakePoint(c) ==
    /\ At(c, "read")
    /\ begun' = [begun EXCEPT !.points = @ + 1]
    /\ points' = [r \in DOMAIN points \cup {begun'.points} |->
          IF r = begun'.points THEN ContentsOf(Wanted(c)) ELSE points[r]]
    /\ Becomes(c, [call[c] EXCEPT !.at = "read-index",
                                  !.point = IF call[c].i = 0 THEN begun'.points ELSE @,
                                  !.ids = <<begun'.points>>])
    /\ IF call[c].op = "apply" /\ call[c].i > 0
       THEN /\ snapshot' = Snapshots(Wanted(c))
            /\ snaps' = snaps + Len(Missing(Wanted(c)))
       ELSE UNCHANGED <<snapshot, snaps>>
    /\ UNCHANGED <<file, index, proposal, faults, calm, cut>>

MakesPoint(c) == call[c].op \in {"apply", "save", "point"}

ReadIndex(c) ==
    /\ At(c, "read-index")
    /\ Becomes(c, [call[c] EXCEPT !.at = "write-index", !.ids = WithEntry(Head(@), index)])
    /\ UNCHANGED <<disk, memory, begun, faults, calm, cut>>

(* writeIndex: fs.writeFile truncates the file, and fills it.                  *)
EmptyIndex(c) ==
    /\ \/ At(c, "write-index") /\ Goto(c, "fill-index")
       \/ At(c, "clean-index") /\ Goto(c, "fill-clean")
    /\ index' = <<>>
    /\ UNCHANGED <<file, points, memory, begun, faults, calm, cut>>

FillIndex(c) ==
    /\ At(c, "fill-index")
    /\ index' = call[c].ids
    /\ IF MakesPoint(c)
       THEN Becomes(c, [call[c] EXCEPT !.at = "clean", !.ids = <<>>])
       ELSE End(c)
    /\ UNCHANGED <<file, points, memory, begun, faults, calm, cut>>

(* What follows the restore point: an apply goes to its first change after the *)
(* point of the whole patch, and to the write after the point of one file.     *)
PointMade(c) ==
    CASE call[c].op = "apply" /\ call[c].i = 0 ->
            Becomes(c, [call[c] EXCEPT !.at = "change", !.i = 1, !.ids = <<>>])
      [] call[c].op = "apply" /\ call[c].i > 0 ->
            Becomes(c, [call[c] EXCEPT !.at = "patch", !.ids = <<>>])
      [] call[c].op = "save" -> Becomes(c, [call[c] EXCEPT !.at = "put", !.ids = <<>>])
      [] OTHER -> End(c)

(* cleanupOldRestorePoints: at most KeptPoints entries survive, the newest.    *)
\* Mutant: one restore point more than configured.
TooManyByOne(ids) == Len(ids) > KeptPoints + 1
\* Mutant: the cleanup takes the wrong end of the index.
SurplusNewest(ids) == SubSeq(ids, 1, Len(ids) - KeptPoints)
TooMany(ids) == Len(ids) > KeptPoints
Kept(ids) == SubSeq(ids, 1, KeptPoints)
Surplus(ids) == SubSeq(ids, KeptPoints + 1, Len(ids))

Clean(c) ==
    /\ At(c, "clean")
    /\ IF TooMany(index)
       THEN /\ points' = [r \in DOMAIN points \ ToSet(Surplus(index)) |-> points[r]]
            /\ Becomes(c, [call[c] EXCEPT !.at = "clean-index", !.ids = Kept(index)])
       ELSE PointMade(c) /\ UNCHANGED points
    /\ UNCHANGED <<file, index, memory, begun, faults, calm, cut>>

FillCleaned(c) ==
    /\ At(c, "fill-clean")
    /\ index' = call[c].ids
    /\ PointMade(c)
    /\ UNCHANGED <<file, points, memory, begun, faults, calm, cut>>

(* The entries of an index that are in S.                                      *)
Only(ids, S) ==
    LET upTo[n \in 0..Len(ids)] ==
            IF n = 0 THEN <<>>
            ELSE IF ids[n] \in S THEN Append(upTo[n - 1], ids[n]) ELSE upTo[n - 1]
    IN  upTo[Len(ids)]

BeginPoint(c, f) ==
    /\ Begin(c, [NewCall("point", "read") EXCEPT !.f = f])
    /\ UNCHANGED <<disk, memory, faults, cut>>

BeginCleanup(c) ==
    /\ TooMany(index)
    /\ Begin(c, NewCall("cleanup", "clean"))
    /\ UNCHANGED <<disk, memory, faults, cut>>

BeginDelete(c, r) ==
    /\ Begin(c, [NewCall("delete", "write-index") EXCEPT
                    !.ids = Only(index, Nat \ {r})])
    /\ points' = [id \in DOMAIN points \ {r} |-> points[id]]
    /\ UNCHANGED <<file, index, memory, faults, cut>>

(* listRestorePoints: entries whose file is gone are dropped from the index.   *)
BeginList(c) ==
    /\ ~ ToSet(index) \subseteq DOMAIN points
    /\ Begin(c, [NewCall("list", "write-index") EXCEPT !.ids = Only(index, DOMAIN points)])
    /\ UNCHANGED <<disk, memory, faults, cut>>

(* rebuildIndexFromDisk: the files on disk, the newest first.                  *)
BeginRebuild(c) ==
    /\ DOMAIN points # ToSet(index)
    /\ Begin(c, [NewCall("rebuild", "write-index") EXCEPT
                    !.ids = Only(Reverse([r \in PointIds |-> r]), DOMAIN points)])
    /\ UNCHANGED <<disk, memory, faults, cut>>

-----------------------------------------------------------------------------
(* Patches: applyApprovedProposal and rollback                                 *)

(* The guard is the approval alone, not the state.                             *)
ApplyMay(p) == proposal[p] # None /\ proposal[p].approved = proposal[p].version

BeginApply(c, p) ==
    /\ ApplyMay(p)
    /\ Begin(c, [NewCall("apply", "read") EXCEPT !.p = p])
    /\ proposal' = [proposal EXCEPT ![p].state = "APPLYING"]
    /\ UNCHANGED <<disk, snapshot, snaps, faults, cut>>

(* The next change; a deletion needs no restore point of its own.              *)
Change(c) ==
    LET k == call[c] IN
    /\ At(c, "change")
    /\ IF k.i > Len(Changes[k.p])
       THEN End(c) /\ SetState(c, "APPLIED") /\ UNCHANGED file
       ELSE /\ IF Changes[k.p][k.i].type = "delete"
               THEN /\ file' = [file EXCEPT ![Changes[k.p][k.i].file] = Absent]
                    /\ Becomes(c, [k EXCEPT !.i = @ + 1])
               ELSE Goto(c, "read") /\ UNCHANGED file
            /\ UNCHANGED proposal
    /\ UNCHANGED <<points, index, snapshot, snaps, begun, faults, calm, cut>>

Patch(c) ==
    LET k == call[c] IN
    /\ At(c, "patch")
    /\ file' = [file EXCEPT ![Changes[k.p][k.i].file] = Changes[k.p][k.i].content]
    /\ Becomes(c, [k EXCEPT !.at = "change", !.i = @ + 1])
    /\ UNCHANGED <<points, index, memory, begun, faults, calm, cut>>

(* An error before the restore point of the patch leaves the files alone, one  *)
(* after it rolls back; if the restore point is gone the rollback throws.      *)
Refused(c) ==
    /\ call[c] # None /\ call[c].op = "apply" /\ call[c].i = 0
    /\ FaultHits
    /\ End(c)
    /\ SetState(c, "FAILED")
    /\ UNCHANGED <<disk, snapshot, snaps, begun, calm, cut>>

ApplyFails(c) ==
    /\ call[c] # None /\ call[c].op = "apply" /\ call[c].i > 0 /\ call[c].at # "restore"
    /\ FaultHits
    /\ IF call[c].point \in DOMAIN points
       THEN Becomes(c, [call[c] EXCEPT !.at = "restore", !.ids = <<>>,
                                       !.saved = points[call[c].point]])
       ELSE End(c)
    /\ UNCHANGED <<disk, memory, begun, calm, cut>>

BeginRollback(c, r) ==
    /\ r \in DOMAIN points
    /\ Begin(c, [NewCall("rollback", "restore") EXCEPT !.saved = points[r]])
    /\ UNCHANGED <<disk, memory, faults, cut>>

(* restorePoint: file by file; an error is noted and the next file tried.  The *)
(* result is not looked at: the proposal is ROLLED_BACK either way.            *)
\* Mutant: the rollback ends with the first file.
RestoredFirst(c, f) ==
    /\ End(c)
    /\ IF call[c].op = "apply" THEN SetState(c, "ROLLED_BACK") ELSE UNCHANGED proposal

Restored(c, f) ==
    LET left == DOMAIN call[c].saved \ {f} IN
    IF left = {}
    THEN /\ End(c)
         /\ IF call[c].op = "apply" THEN SetState(c, "ROLLED_BACK") ELSE UNCHANGED proposal
    ELSE /\ Becomes(c, [call[c] EXCEPT !.saved = [g \in left |-> call[c].saved[g]]])
         /\ UNCHANGED proposal

RestoreFile(c, f) ==
    /\ At(c, "restore") /\ f \in DOMAIN call[c].saved
    /\ file' = [file EXCEPT ![f] = call[c].saved[f]]
    /\ Restored(c, f)
    /\ UNCHANGED <<points, index, snapshot, snaps, begun, faults, calm, cut>>

RestoreFails(c, f) ==
    /\ At(c, "restore") /\ f \in DOMAIN call[c].saved
    /\ FaultHits
    /\ Restored(c, f)
    /\ cut' = TRUE
    /\ UNCHANGED <<disk, snapshot, snaps, begun, calm>>

-----------------------------------------------------------------------------
(* Saves: a restore point if the file exists, then writeFileAtomic             *)

BeginSave(c, f, content) ==
    /\ Begin(c, [NewCall("save", IF file[f] = Absent THEN "put" ELSE "read") EXCEPT
                    !.f = f, !.content = content])
    /\ UNCHANGED <<disk, memory, faults, cut>>

(* The rename of the temporary file, first or after the target was removed.    *)
Put(c) ==
    /\ At(c, "put") \/ At(c, "replace")
    /\ file' = [file EXCEPT ![call[c].f] = call[c].content]
    /\ End(c)
    /\ UNCHANGED <<points, index, memory, begun, faults, calm, cut>>

(* EPERM, EACCES or EBUSY: the target is removed before the next rename.       *)
RemoveTarget(c) ==
    /\ At(c, "put") /\ file[call[c].f] # Absent
    /\ FaultHits
    /\ file' = [file EXCEPT ![call[c].f] = Absent]
    /\ Goto(c, "replace")
    /\ UNCHANGED <<points, index, memory, begun, calm, cut>>

(* The save gives up and removes its temporary file; so does a restore point   *)
(* that cannot be written, and any other operation on the index.               *)
CallFails(c) ==
    /\ call[c] # None /\ call[c].op \notin {"apply", "rollback"}
    /\ FaultHits
    /\ End(c)
    /\ UNCHANGED <<disk, memory, begun, calm, cut>>

Crash ==
    /\ FaultHits
    /\ call' = [c \in Calls |-> None]
    /\ proposal' = [p \in Proposals |-> None]
    /\ snapshot' = [f \in Files |-> None]
    /\ cut' = (cut \/ Active # {})
    /\ UNCHANGED <<disk, snaps, begun, calm>>

-----------------------------------------------------------------------------

Request(c) ==
    \/ \E p \in Proposals : BeginApply(c, p)
    \/ \E f \in Files : BeginPoint(c, f)
    \/ \E f \in Files, content \in Contents : BeginSave(c, f, content)
    \/ \E r \in DOMAIN points : BeginRollback(c, r) \/ BeginDelete(c, r)
    \/ BeginCleanup(c) \/ BeginList(c) \/ BeginRebuild(c)

Goes(c) ==
    \/ MakePoint(c) \/ ReadIndex(c) \/ EmptyIndex(c) \/ FillIndex(c)
    \/ Clean(c) \/ FillCleaned(c)
    \/ Change(c) \/ Patch(c) \/ Put(c)
    \/ \E f \in Files : RestoreFile(c, f)

Fault(c) ==
    \/ Refused(c) \/ ApplyFails(c) \/ RemoveTarget(c) \/ CallFails(c)
    \/ \E f \in Files : RestoreFails(c, f)

Step ==
    \/ \E p \in Proposals : \/ Preview(p)
                            \/ \E v \in [FilesOf(p) -> 1..snaps] : Approve(p, v)
                            \/ Reject(p)
    \/ \E f \in Files : Undo(f)
    \/ \E c \in Calls : Request(c) \/ Goes(c) \/ Fault(c)
    \/ Crash

Next == Step /\ UNCHANGED limit

Spec == Init /\ [][Next]_vars

-----------------------------------------------------------------------------
(* Properties *)

TypeOK ==
    /\ file \in [Files -> Content]
    /\ DOMAIN points \subseteq PointIds /\ \A r \in DOMAIN points : points[r] \in FileMaps
    /\ index \in Seq(PointIds)
    /\ snapshot \in [Files -> SnapshotType \cup {None}] /\ snaps \in Nat
    /\ \A f \in Files : snapshot[f] # None => snapshot[f].id \in 1..snaps
    /\ proposal \in [Proposals -> ProposalType \cup {None}]
    /\ call \in [Calls -> CallType \cup {None}]
    /\ \A c \in Active : call[c].point \in PointIds \cup {0} /\ call[c].ids \in Seq(PointIds)
    /\ begun \in [calls: 0..limit.calls, points: Nat]
    /\ faults \in 0..limit.faults
    /\ calm \in BOOLEAN /\ cut \in BOOLEAN
    /\ limit \in Limits

(* Whenever a patch or a save may already have changed a file, a restore point  *)
(* on disk holds what the file contained before, and the user is shown it      *)
(* (while the index is being written, the repair would show it): should the    *)
(* process die here, nothing is lost.  createRestorePoint comes first, and its *)
(* cleanup never takes the points of the patch at work.                        *)
OldContentKept ==
    \A c \in Active :
        calm /\ call[c].point > 0
             /\ (call[c].i > 0 \/ call[c].at \in {"put", "replace"}) =>
            /\ call[c].point \in DOMAIN points
            /\ call[c].at \notin {"fill-index", "fill-clean", "restore"} =>
                   call[c].point \in ToSet(index)
            /\ \A f \in IF call[c].op = "apply" THEN FilesOf(call[c].p) ELSE {call[c].f} :
                  points[call[c].point][f] = call[c].before[f]

(* As long as the calls come one at a time, the entries of the index stay in    *)
(* order and none comes twice, through failed writes, repairs and ends of the  *)
(* process: the cleanup cuts off the tail, and would otherwise remove a restore *)
(* point younger than one it keeps.                                            *)
IndexNewestFirst ==
    calm => \A i, j \in DOMAIN index : i < j => index[i] > index[j]

(* However calls overlap, a patch does not lose what it would roll back to: a   *)
(* restore point that a call in flight may need is removed by the user's       *)
(* deletion only, or when about half of KeptPoints younger ones were made      *)
(* since.  Half, because a repair can list a point that its call then adds a   *)
(* second time, and each other call can put one older point in front.          *)
PointInUseStays ==
    [][\A c \in Active :
          call[c].point \in DOMAIN points \ DOMAIN points' =>
              \/ \E d \in Calls : BeginDelete(d, call[c].point)
              \/ LET ahead == begun.points - call[c].point + Cardinality(Calls \ {c}) IN
                    2 * ahead + 1 >= KeptPoints]_vars

(* Between calls the index lists exactly the restore points on disk, and no    *)
(* more than are kept: what it does not list is out of the user's reach, and   *)
(* out of the cleanup's.                                                       *)
IndexListsPoints ==
    calm /\ faults = 0 /\ Active = {} =>
        ToSet(index) = DOMAIN points /\ Len(index) <= KeptPoints

(* A proposal is only ever said to be applied, or being applied, if the preview *)
(* stored with it is the one that was approved: a new preview of a proposal     *)
(* needs a new approval, also when an apply of the old one is still at work.    *)
ApprovalIsCurrent ==
    \A p \in Proposals :
        proposal[p] # None /\ proposal[p].state \in {"APPLYING", "APPLIED", "ROLLED_BACK"} =>
            proposal[p].approved = proposal[p].version

(* As long as calls do not disturb each other and none is cut off, this is the  *)
(* coordinator's promise: a patch takes effect as a whole, when its call ends,  *)
(* or not at all.  To the abstract specification the files are as they were    *)
(* when the call at work began.                                                *)
Transaction == INSTANCE PatchTransaction WITH
    file <- IF calm /\ ~cut /\ Active # {} THEN call[CHOOSE c \in Active : TRUE].before ELSE file,
    state <- [p \in Proposals |-> IF proposal[p] = None THEN "NONE" ELSE proposal[p].state],
    approved <- {p \in Proposals : ApplyMay(p)},
    applying <- {p \in Proposals : \E c \in Active : call[c].op = "apply" /\ call[c].p = p},
    calm <- calm /\ ~cut

PatchIsTransaction == Transaction!Spec
=============================================================================
