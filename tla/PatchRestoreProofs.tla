------------------------- MODULE PatchRestoreProofs -------------------------
(* Proofs about the restore points of PatchApply, and that PatchApply         *)
(* implements PatchTransaction.  Three invariants, each on top of the one     *)
(* before it:                                                                 *)
(*   Calm         as long as calls come one at a time, the index is in order  *)
(*                and lists the restore point of the call at work, far enough  *)
(*                in front for the cleanup not to reach it;                   *)
(*   ListedSound  and if nothing fails, what the call will write last is the  *)
(*                complete list of the restore points on disk;                *)
(*   FileSound    and the files are what the call has made of those it found:  *)
(*                so many changes of the patch, or part of the way back.      *)
EXTENDS PatchApplyProofs

-----------------------------------------------------------------------------
(* The inductive invariant                                                    *)

(* r is among the first n entries of ids.                                     *)
Near(ids, r, n) == \E j \in DOMAIN ids : ids[j] = r /\ j <= n

(* The files a call may change, once it has its restore point.                *)
Guarded(k) == IF k.op = "apply" THEN FilesOf(k.p) ELSE {k.f}

(* The restore point holds the files as they were.                            *)
PointHolds(k, pts) ==
    /\ k.point \in DOMAIN pts /\ DOMAIN pts[k.point] = Guarded(k)
    /\ \A f \in Guarded(k) : pts[k.point][f] = k.before[f]

(* And where it is listed.  Each change of a patch puts one entry in front of  *)
(* it at most, so that the cleanup, which keeps more entries than a patch has  *)
(* changes, does not reach it.                                                *)
PointListed(k, ix) ==
    /\ k.at \in {"write-index", "fill-index", "clean-index", "fill-clean"} =>
          Near(k.ids, k.point, k.i + 1)
    /\ k.at \in {"clean", "clean-index", "put", "replace", "patch"} =>
          Near(ix, k.point, k.i + 1)
    /\ k.i > 0 /\ k.at \in {"change", "read", "read-index", "write-index"} =>
          Near(ix, k.point, k.i)

IdsSound(k, ix) ==
    /\ Decreasing(k.ids)
    /\ k.at = "read-index" => \A j \in DOMAIN ix : ix[j] < k.ids[1]
    /\ k.at = "read-index" /\ k.i = 0 => k.ids[1] = k.point \/ k.point = 0

CallSafe(k, fs, pts, ix) ==
    /\ IdsSound(k, ix)
    /\ k.at = "read" /\ k.i = 0 => fs = k.before
    /\ k.point > 0 => PointHolds(k, pts) /\ PointListed(k, ix)

Alone == \A c, d \in Calls : call[c] # None /\ call[d] # None => c = d

CalmSound ==
    calm => /\ Alone
            /\ Decreasing(index)
            /\ \A c \in Calls : call[c] # None => CallSafe(call[c], file, points, index)

-----------------------------------------------------------------------------
(* Steps of a call                                                            *)

(* What a step may change of a call.                                          *)
Moved(new, k, at, i, point, ids) ==
    /\ new \in CallType /\ SameFields(new, k)
    /\ new.at = at /\ new.i = i /\ new.point = point /\ new.ids = ids

LEMMA MovedIs ==
    ASSUME NEW k \in CallType
    PROVE  /\ \A at \in Places : Moved([k EXCEPT !.at = at], k, at, k.i, k.point, k.ids)
           /\ \A at \in Places, ids \in Seq(Nat) :
                 Moved([k EXCEPT !.at = at, !.ids = ids], k, at, k.i, k.point, ids)
           /\ \A at \in Places, point \in Nat, ids \in Seq(Nat) :
                 Moved([k EXCEPT !.at = at, !.point = point, !.ids = ids],
                       k, at, k.i, point, ids)
           /\ \A i \in Nat : Moved([k EXCEPT !.i = i], k, k.at, i, k.point, k.ids)
           /\ \A at \in Places, i \in Nat :
                 Moved([k EXCEPT !.at = at, !.i = i], k, at, i, k.point, k.ids)
           /\ \A at \in Places, i \in Nat, ids \in Seq(Nat) :
                 Moved([k EXCEPT !.at = at, !.i = i, !.ids = ids], k, at, i, k.point, ids)
           /\ \A at \in Places, ids \in Seq(Nat), saved \in FileMaps :
                 Moved([k EXCEPT !.at = at, !.ids = ids, !.saved = saved],
                       k, at, k.i, k.point, ids)
           /\ \A saved \in FileMaps :
                 Moved([k EXCEPT !.saved = saved], k, k.at, k.i, k.point, k.ids)
  <1>1. \A at \in Places :
           Moved([k EXCEPT !.at = at], k, at, k.i, k.point, k.ids)
    BY DEF Moved, SameFields, CallType
  <1>2. \A at \in Places, ids \in Seq(Nat) :
           Moved([k EXCEPT !.at = at, !.ids = ids], k, at, k.i, k.point, ids)
    BY DEF Moved, SameFields, CallType
  <1>3. \A at \in Places, point \in Nat, ids \in Seq(Nat) :
           Moved([k EXCEPT !.at = at, !.point = point, !.ids = ids], k, at, k.i, point, ids)
    <2> TAKE at \in Places, point \in Nat, ids \in Seq(Nat)
    <2> DEFINE old == [k EXCEPT !.at = at]
    <2> DEFINE new == [k EXCEPT !.at = at, !.point = point, !.ids = ids]
    <2>1. old \in CallType
      BY DEF CallType
    <2>2. new = [old EXCEPT !.point = point, !.ids = ids]
      BY DEF CallType
    <2> HIDE DEF old
    <2>3. new \in CallType
      BY <2>1, <2>2 DEF CallType
    <2>4. SameFields(new, k)
      BY SMTT(30) DEF SameFields, CallType
    <2>5. new.at = at /\ new.i = k.i /\ new.point = point /\ new.ids = ids
      BY SMTT(30) DEF CallType
    <2> QED
      BY <2>3, <2>4, <2>5 DEF Moved
  <1>4. \A i \in Nat :
           Moved([k EXCEPT !.i = i], k, k.at, i, k.point, k.ids)
    BY DEF Moved, SameFields, CallType
  <1>5. \A at \in Places, i \in Nat :
           Moved([k EXCEPT !.at = at, !.i = i], k, at, i, k.point, k.ids)
    BY DEF Moved, SameFields, CallType
  <1>6. \A at \in Places, i \in Nat, ids \in Seq(Nat) :
           Moved([k EXCEPT !.at = at, !.i = i, !.ids = ids], k, at, i, k.point, ids)
    <2> TAKE at \in Places, i \in Nat, ids \in Seq(Nat)
    <2> DEFINE old == [k EXCEPT !.at = at]
    <2> DEFINE new == [k EXCEPT !.at = at, !.i = i, !.ids = ids]
    <2>1. old \in CallType
      BY DEF CallType
    <2>2. new = [old EXCEPT !.i = i, !.ids = ids]
      BY DEF CallType
    <2> HIDE DEF old
    <2>3. new \in CallType
      BY <2>1, <2>2 DEF CallType
    <2>4. SameFields(new, k)
      BY SMTT(30) DEF SameFields, CallType
    <2>5. new.at = at /\ new.i = i /\ new.point = k.point /\ new.ids = ids
      BY SMTT(30) DEF CallType
    <2> QED
      BY <2>3, <2>4, <2>5 DEF Moved
  <1>7. \A at \in Places, ids \in Seq(Nat), saved \in FileMaps :
           Moved([k EXCEPT !.at = at, !.ids = ids, !.saved = saved], k, at, k.i, k.point, ids)
    <2> TAKE at \in Places, ids \in Seq(Nat), saved \in FileMaps
    <2> DEFINE old == [k EXCEPT !.at = at]
    <2> DEFINE new == [k EXCEPT !.at = at, !.ids = ids, !.saved = saved]
    <2>1. old \in CallType
      BY DEF CallType
    <2>2. new = [old EXCEPT !.ids = ids, !.saved = saved]
      BY DEF CallType
    <2> HIDE DEF old
    <2>3. new \in CallType
      BY <2>1, <2>2 DEF CallType
    <2>4. SameFields(new, k)
      BY SMTT(30) DEF SameFields, CallType
    <2>5. new.at = at /\ new.i = k.i /\ new.point = k.point /\ new.ids = ids
      BY SMTT(30) DEF CallType
    <2> QED
      BY <2>3, <2>4, <2>5 DEF Moved
  <1>8. \A saved \in FileMaps :
           Moved([k EXCEPT !.saved = saved], k, k.at, k.i, k.point, k.ids)
    BY DEF Moved, SameFields, CallType
  <1> QED
    BY <1>1, <1>2, <1>3, <1>4, <1>5, <1>6, <1>7, <1>8

LEMMA MovedIsCall ==
    ASSUME NEW new, NEW k, NEW at, NEW i, NEW point, NEW ids, Moved(new, k, at, i, point, ids)
    PROVE  new # None
  BY NoneAssumption DEF Moved

LEMMA PlacesAre ==
    /\ \A at \in {"read", "read-index", "write-index", "fill-index", "clean", "clean-index",
                  "fill-clean", "change", "patch", "restore", "put", "replace"} : at \in Places
    /\ <<>> \in Seq(Nat)
  BY DEF Places

LEMMA MakePointMoves ==
    ASSUME Typed, NEW c \in Calls, MakePoint(c)
    PROVE  /\ begun'.points = begun.points + 1
           /\ Moved(call'[c], call[c], "read-index", call[c].i,
                    IF call[c].i = 0 THEN begun'.points ELSE call[c].point, <<begun'.points>>)
  <1> DEFINE k == call[c]
             new == [k EXCEPT !.at = "read-index",
                              !.point = IF k.i = 0 THEN begun'.points ELSE @,
                              !.ids = <<begun'.points>>]
  <1>1. k \in CallType /\ k.i \in Nat /\ k.point \in Nat
    BY CallIs DEF MakePoint, At
  <1>2. begun'.points = begun.points + 1 /\ begun'.points \in Nat
    BY DEF MakePoint, Typed, CountsTyped
  <1>3. Becomes(c, new)
    BY DEF MakePoint
  <1> HIDE DEF k
  <1>4. Moved(new, k, "read-index", k.i, IF k.i = 0 THEN begun'.points ELSE k.point,
              <<begun'.points>>)
    <2> DEFINE n == begun'.points
    <2>1. n \in Nat
      BY <1>2
    <2> HIDE DEF n
    <2>2. <<n>> \in Seq(Nat) /\ (IF k.i = 0 THEN n ELSE k.point) \in Nat
      BY <1>1, <2>1
    <2>3. Moved([k EXCEPT !.at = "read-index", !.point = IF k.i = 0 THEN n ELSE k.point,
                          !.ids = <<n>>],
                k, "read-index", k.i, IF k.i = 0 THEN n ELSE k.point, <<n>>)
      BY <1>1, <2>2, MovedIs, PlacesAre
    <2> QED
      BY <2>3 DEF n
  <1> HIDE DEF new
  <1> QED
    BY <1>2, <1>3, <1>4, BecomesIs DEF k

LEMMA ReadIndexMoves ==
    ASSUME Typed, NEW c \in Calls, ReadIndex(c)
    PROVE  /\ Len(call[c].ids) = 1 /\ call[c].ids[1] \in PointIds
           /\ Moved(call'[c], call[c], "write-index", call[c].i, call[c].point,
                    WithEntry(call[c].ids[1], index))
  <1> DEFINE k == call[c]
             new == [k EXCEPT !.at = "write-index", !.ids = WithEntry(Head(@), index)]
  <1>1. k \in CallType /\ k.ids \in Seq(PointIds) /\ CallSound(k) /\ k.at = "read-index"
    BY CallIs DEF ReadIndex, At
  <1>2. Len(k.ids) = 1
    BY <1>1 DEF CallSound
  <1>3. Becomes(c, new)
    BY DEF ReadIndex
  <1> HIDE DEF k
  <1>4. Head(k.ids) = k.ids[1] /\ k.ids[1] \in PointIds
    BY <1>1, <1>2
  <1>5. Moved(new, k, "write-index", k.i, k.point, WithEntry(Head(k.ids), index))
    <2> DEFINE all == WithEntry(Head(k.ids), index)
    <2>1. all \in Seq(PointIds) /\ PointIds \subseteq Nat
      BY <1>4, EntryInFront DEF Typed, DiskTyped, CountsTyped, PointIds
    <2>2. all \in Seq(Nat)
      BY <2>1, SeqWider
    <2> HIDE DEF all
    <2>3. Moved([k EXCEPT !.at = "write-index", !.ids = all],
                k, "write-index", k.i, k.point, all)
      BY <1>1, <2>2, MovedIs, PlacesAre
    <2> QED
      BY <2>3 DEF all
  <1> HIDE DEF new
  <1> QED
    BY <1>2, <1>3, <1>4, <1>5, BecomesIs DEF k

LEMMA EmptyIndexMoves ==
    ASSUME Typed, NEW c \in Calls, EmptyIndex(c)
    PROVE  \/ /\ call[c].at = "write-index"
              /\ Moved(call'[c], call[c], "fill-index", call[c].i, call[c].point, call[c].ids)
           \/ /\ call[c].at = "clean-index"
              /\ Moved(call'[c], call[c], "fill-clean", call[c].i, call[c].point, call[c].ids)
  <1> DEFINE k == call[c]
             new(at) == [k EXCEPT !.at = at]
  <1>1. k \in CallType
    BY CallIs DEF EmptyIndex, At
  <1>2. \/ k.at = "write-index" /\ Becomes(c, new("fill-index"))
        \/ k.at = "clean-index" /\ Becomes(c, new("fill-clean"))
    BY DEF EmptyIndex, At, Goto
  <1> HIDE DEF k
  <1>3. \A at \in {"fill-index", "fill-clean"} : Moved(new(at), k, at, k.i, k.point, k.ids)
    BY <1>1, MovedIs, PlacesAre
  <1> HIDE DEF new
  <1> QED
    BY <1>2, <1>3, BecomesIs DEF k

LEMMA FillIndexMoves ==
    ASSUME Typed, NEW c \in Calls, FillIndex(c)
    PROVE  IF MakesPoint(c)
           THEN Moved(call'[c], call[c], "clean", call[c].i, call[c].point, <<>>)
           ELSE call'[c] = None
  <1> DEFINE k == call[c]
             new == [k EXCEPT !.at = "clean", !.ids = <<>>]
  <1>1. k \in CallType
    BY CallIs DEF FillIndex, At
  <1>2. IF MakesPoint(c) THEN Becomes(c, new) ELSE Becomes(c, None)
    BY DEF FillIndex, End
  <1> HIDE DEF k
  <1>3. Moved(new, k, "clean", k.i, k.point, <<>>)
    BY <1>1, MovedIs, PlacesAre
  <1> HIDE DEF new
  <1> QED
    BY <1>2, <1>3, BecomesIs DEF k

LEMMA PointMadeMoves ==
    ASSUME Typed, NEW c \in Calls, call[c] # None, PointMade(c)
    PROVE  \/ /\ call[c].op = "apply" /\ call[c].i = 0
              /\ Moved(call'[c], call[c], "change", 1, call[c].point, <<>>)
           \/ /\ call[c].op = "apply" /\ call[c].i > 0
              /\ Moved(call'[c], call[c], "patch", call[c].i, call[c].point, <<>>)
           \/ /\ call[c].op = "save"
              /\ Moved(call'[c], call[c], "put", call[c].i, call[c].point, <<>>)
           \/ call[c].op \notin {"apply", "save"} /\ call'[c] = None
  <1> DEFINE k == call[c]
             change == [k EXCEPT !.at = "change", !.i = 1, !.ids = <<>>]
             to(at) == [k EXCEPT !.at = at, !.ids = <<>>]
  <1>1. k \in CallType /\ k.i \in Nat
    BY CallIs
  <1>2. \/ k.op = "apply" /\ k.i = 0 /\ Becomes(c, change)
        \/ k.op = "apply" /\ k.i > 0 /\ Becomes(c, to("patch"))
        \/ k.op = "save" /\ Becomes(c, to("put"))
        \/ k.op \notin {"apply", "save"} /\ Becomes(c, None)
    <2>1. CASE k.op = "apply" /\ k.i = 0
      BY <2>1 DEF PointMade
    <2>2. CASE k.op = "apply" /\ k.i > 0
      BY <2>2 DEF PointMade
    <2>3. CASE k.op = "save"
      BY <2>3 DEF PointMade
    <2>4. CASE k.op \notin {"apply", "save"}
      BY <2>4 DEF PointMade, End
    <2> QED
      BY <1>1, <2>1, <2>2, <2>3, <2>4
  <1> HIDE DEF k
  <1>3. /\ Moved(change, k, "change", 1, k.point, <<>>)
        /\ \A at \in {"patch", "put"} : Moved(to(at), k, at, k.i, k.point, <<>>)
    BY <1>1, MovedIs, PlacesAre
  <1> HIDE DEF change, to
  <1> QED
    BY <1>2, <1>3, BecomesIs DEF k

LEMMA CleanMoves ==
    ASSUME Typed, NEW c \in Calls, Clean(c), TooMany(index)
    PROVE  /\ Moved(call'[c], call[c], "clean-index", call[c].i, call[c].point, Kept(index))
           /\ points' = [r \in DOMAIN points \ ToSet(Surplus(index)) |-> points[r]]
  <1> DEFINE k == call[c]
             new == [k EXCEPT !.at = "clean-index", !.ids = Kept(index)]
  <1>1. k \in CallType
    BY CallIs DEF Clean, At
  <1>2. Becomes(c, new) /\ points' = [r \in DOMAIN points \ ToSet(Surplus(index)) |-> points[r]]
    BY DEF Clean
  <1> HIDE DEF k
  <1>3. Moved(new, k, "clean-index", k.i, k.point, Kept(index))
    <2>1. index \in Seq(PointIds) /\ PointIds \subseteq Nat
      BY DEF Typed, DiskTyped, CountsTyped, PointIds
    <2>2. Kept(index) \in Seq(Nat)
      BY <2>1, KeptAndSurplus, SeqWider
    <2> QED
      BY <1>1, <2>2, MovedIs, PlacesAre
  <1> HIDE DEF new
  <1> QED
    BY <1>2, <1>3, BecomesIs DEF k

(* The next change of a patch, or the end of it.                              *)
LEMMA ChangeMoves ==
    ASSUME Typed, NEW c \in Calls, Change(c) \/ Patch(c)
    PROVE  LET k == call[c]
               item == Changes[k.p][k.i]
           IN
           \/ /\ k.at = "change" /\ k.i > Len(Changes[k.p])
              /\ call'[c] = None /\ SetState(c, "APPLIED") /\ file' = file
           \/ /\ k.at = "change" /\ k.i <= Len(Changes[k.p]) /\ item.type # "delete"
              /\ Moved(call'[c], k, "read", k.i, k.point, k.ids)
              /\ UNCHANGED <<file, proposal>>
           \/ /\ k.at = "change" /\ k.i <= Len(Changes[k.p]) /\ item.type = "delete"
              /\ Moved(call'[c], k, "change", k.i + 1, k.point, k.ids)
              /\ file' = [file EXCEPT ![item.file] = Absent] /\ proposal' = proposal
           \/ /\ k.at = "patch"
              /\ Moved(call'[c], k, "change", k.i + 1, k.point, k.ids)
              /\ file' = [file EXCEPT ![item.file] = item.content] /\ proposal' = proposal
  <1> DEFINE k == call[c]
             item == Changes[k.p][k.i]
             next == [k EXCEPT !.i = @ + 1]
             read == [k EXCEPT !.at = "read"]
             done == [k EXCEPT !.at = "change", !.i = @ + 1]
  <1>1. k \in CallType /\ k.i \in Nat /\ Len(Changes[k.p]) \in Nat /\ k.at \in {"change", "patch"}
    BY AtPatch DEF Change, Patch, At
  <1>2. \/ /\ k.at = "change" /\ k.i > Len(Changes[k.p])
           /\ Becomes(c, None) /\ SetState(c, "APPLIED") /\ file' = file
        \/ /\ k.at = "change" /\ k.i <= Len(Changes[k.p]) /\ item.type # "delete"
           /\ Becomes(c, read) /\ UNCHANGED <<file, proposal>>
        \/ /\ k.at = "change" /\ k.i <= Len(Changes[k.p]) /\ item.type = "delete"
           /\ Becomes(c, next)
           /\ file' = [file EXCEPT ![item.file] = Absent] /\ proposal' = proposal
        \/ /\ k.at = "patch" /\ Becomes(c, done)
           /\ file' = [file EXCEPT ![item.file] = item.content] /\ proposal' = proposal
    <2>1. CASE Patch(c)
      BY <2>1 DEF Patch, At, memory
    <2>2. CASE Change(c) /\ k.i > Len(Changes[k.p])
      BY <2>2 DEF Change, At, End
    <2>3. CASE Change(c) /\ ~(k.i > Len(Changes[k.p])) /\ item.type = "delete"
      <3>1. /\ k.at = "change" /\ Becomes(c, next) /\ proposal' = proposal
            /\ file' = [file EXCEPT ![item.file] = Absent]
        BY <2>3 DEF Change, At
      <3>2. k.i <= Len(Changes[k.p])
        BY <1>1, <2>3
      <3> HIDE DEF next
      <3> QED
        BY <2>3, <3>1, <3>2
    <2>4. CASE Change(c) /\ ~(k.i > Len(Changes[k.p])) /\ item.type # "delete"
      BY <1>1, <2>4 DEF Change, At, Goto
    <2> QED
      BY <2>1, <2>2, <2>3, <2>4
  <1> HIDE DEF k
  <1>3. /\ Moved(read, k, "read", k.i, k.point, k.ids)
        /\ Moved(done, k, "change", k.i + 1, k.point, k.ids)
        /\ k.at = "change" => Moved(next, k, "change", k.i + 1, k.point, k.ids)
    <2>1. k.i + 1 \in Nat
      BY <1>1
    <2> QED
      BY <1>1, <2>1, MovedIs, PlacesAre
  <1> HIDE DEF next, read, done
  <1>4. \A new : Becomes(c, new) => call'[c] = new
    BY BecomesIs
  <1> QED
    BY <1>2, <1>3, <1>4 DEF k

LEMMA RestoredMoves ==
    ASSUME Typed, NEW c \in Calls, NEW f, At(c, "restore"), Restored(c, f)
    PROVE  \/ /\ DOMAIN call[c].saved \ {f} = {} /\ call'[c] = None
              /\ IF call[c].op = "apply" THEN SetState(c, "ROLLED_BACK") ELSE proposal' = proposal
           \/ /\ Moved(call'[c], call[c], "restore", call[c].i, call[c].point, call[c].ids)
              /\ call'[c].saved = [g \in DOMAIN call[c].saved \ {f} |-> call[c].saved[g]]
              /\ proposal' = proposal
  <1> DEFINE k == call[c]
             left == [g \in DOMAIN k.saved \ {f} |-> k.saved[g]]
             new == [k EXCEPT !.saved = left]
  <1>1. k \in CallType /\ k.at = "restore"
    BY CallIs DEF At
  <1>2. \/ /\ DOMAIN k.saved \ {f} = {} /\ Becomes(c, None)
           /\ IF k.op = "apply" THEN SetState(c, "ROLLED_BACK") ELSE proposal' = proposal
        \/ Becomes(c, new) /\ proposal' = proposal
    BY DEF Restored, End
  <1>3. left \in FileMaps
    BY <1>1, FileMapsAre DEF CallType
  <1> HIDE DEF k, left
  <1>4. Moved(new, k, "restore", k.i, k.point, k.ids) /\ new.saved = left
    BY <1>1, <1>3, MovedIs, PlacesAre DEF CallType
  <1> HIDE DEF new
  <1>5. \A any : Becomes(c, any) => call'[c] = any
    BY BecomesIs
  <1>6. CASE Becomes(c, new) /\ proposal' = proposal
    BY <1>5, <1>6, <1>4 DEF k, left
  <1>7. CASE /\ DOMAIN k.saved \ {f} = {} /\ Becomes(c, None)
             /\ IF k.op = "apply" THEN SetState(c, "ROLLED_BACK") ELSE proposal' = proposal
    BY <1>5, <1>7 DEF k
  <1> QED
    BY <1>2, <1>6, <1>7

LEMMA ApplyFailsMoves ==
    ASSUME Typed, NEW c \in Calls, ApplyFails(c)
    PROVE  IF call[c].point \in DOMAIN points
           THEN /\ Moved(call'[c], call[c], "restore", call[c].i, call[c].point, <<>>)
                /\ call'[c].saved = points[call[c].point]
           ELSE call'[c] = None
  <1> DEFINE k == call[c]
             saved == points[k.point]
             new == [k EXCEPT !.at = "restore", !.ids = <<>>, !.saved = saved]
  <1>1. k \in CallType
    BY CallIs DEF ApplyFails
  <1>2. IF k.point \in DOMAIN points THEN Becomes(c, new) ELSE Becomes(c, None)
    BY DEF ApplyFails, End
  <1> HIDE DEF k, saved
  <1>3. k.point \in DOMAIN points => saved \in FileMaps
    BY DEF Typed, DiskTyped, saved
  <1>4. k.point \in DOMAIN points =>
            Moved(new, k, "restore", k.i, k.point, <<>>) /\ new.saved = saved
    BY <1>1, <1>3, MovedIs, PlacesAre DEF CallType
  <1> HIDE DEF new
  <1>5. \A any : Becomes(c, any) => call'[c] = any
    BY BecomesIs
  <1> QED
    BY <1>2, <1>5, <1>4 DEF k, saved

LEMMA RemoveTargetMoves ==
    ASSUME Typed, NEW c \in Calls, RemoveTarget(c)
    PROVE  /\ call[c].at = "put"
           /\ Moved(call'[c], call[c], "replace", call[c].i, call[c].point, call[c].ids)
  <1> DEFINE k == call[c]
             new == [k EXCEPT !.at = "replace"]
  <1>1. k \in CallType /\ k.at = "put" /\ Becomes(c, new)
    BY CallIs DEF RemoveTarget, At, Goto
  <1> HIDE DEF k
  <1>2. Moved(new, k, "replace", k.i, k.point, k.ids)
    BY <1>1, MovedIs, PlacesAre
  <1> HIDE DEF new
  <1> QED
    BY <1>1, <1>2, BecomesIs DEF k

-----------------------------------------------------------------------------
(* The steps of a call keep the old contents                                  *)

(* The facts a step starts from.                                              *)
LEMMA CalmNow ==
    ASSUME Approvals, CalmSound, calm, NEW c \in Calls, call[c] # None
    PROVE  /\ CallSafe(call[c], file, points, index) /\ Decreasing(index)
           /\ call[c] \in CallType /\ CallSound(call[c])
           /\ call[c].i \in Nat /\ call[c].point \in Nat /\ call[c].ids \in Seq(PointIds)
           /\ index \in Seq(PointIds) /\ PointIds \subseteq Nat /\ DOMAIN points \subseteq PointIds
           /\ begun.points \in Nat /\ PointIds = 1..begun.points
  BY CallIs DEF Approvals, CalmSound, Typed, DiskTyped, CountsTyped, PointIds

LEMMA CalmGoesOn ==
    ASSUME Typed, CalmSound, calm, NEW c \in Calls, call[c] # None, OthersStay(c),
           Decreasing(index'),
           call'[c] # None => CallSafe(call'[c], file', points', index')
    PROVE  CalmSound'
  <1>1. \A d \in Calls : call'[d] # None => d = c
    BY DEF CalmSound, Alone, OthersStay
  <1> QED
    BY <1>1 DEF CalmSound, Alone

LEMMA NearMore ==
    ASSUME NEW ids \in Seq(Nat), NEW r, NEW n \in Nat, Near(ids, r, n)
    PROVE  Near(ids, r, n + 1)
  BY DEF Near

(* A patch that is at its changes has a restore point.                        *)
LEMMA AtChanges ==
    ASSUME Typed, NEW c \in Calls, call[c] # None, call[c].i # 0
    PROVE  call[c].op = "apply" /\ call[c].point > 0 /\ ApplySound(call[c]) /\ call[c].i > 0
  BY CallIs DEF CallSound, ApplySound

(* A step that moves a call on and leaves the restore points alone.           *)
LEMMA MovedSafe ==
    ASSUME NEW k \in CallType, NEW new, NEW at, NEW i, NEW ids, Moved(new, k, at, i, k.point, ids)
    PROVE  /\ Guarded(new) = Guarded(k) /\ new.before = k.before
           /\ \A pts : PointHolds(new, pts) <=> PointHolds(k, pts)
  BY DEF Moved, SameFields, Guarded, PointHolds

LEMMA CalmMakePoint ==
    ASSUME Approvals, CalmSound, calm, NEW c \in Calls, MakePoint(c)
    PROVE  Decreasing(index') /\ CallSafe(call'[c], file', points', index')
  <1> DEFINE k == call[c]
             n == begun.points + 1
             new == call'[c]
  <1>1. /\ CallSafe(k, file, points, index) /\ Decreasing(index) /\ k \in CallType
        /\ CallSound(k) /\ k.i \in Nat /\ k.point \in Nat /\ k.at = "read" /\ call[c] # None
        /\ Typed
        /\ index \in Seq(PointIds) /\ DOMAIN points \subseteq PointIds
        /\ begun.points \in Nat /\ PointIds = 1..begun.points
    BY CalmNow DEF MakePoint, At, Approvals
  <1>2. /\ begun'.points = n
        /\ Moved(new, k, "read-index", k.i, IF k.i = 0 THEN n ELSE k.point, <<n>>)
    BY <1>1, MakePointMoves
  <1>3. UNCHANGED <<file, index>>
    BY DEF MakePoint
  <1>4. k.i = 0 => Wanted(c) = Guarded(k)
    BY DEF Wanted, Guarded
  <1>5. /\ DOMAIN points' = DOMAIN points \cup {n}
        /\ points'[n] = ContentsOf(Wanted(c))
        /\ \A r \in DOMAIN points : points'[r] = points[r]
    <2>1. n \notin DOMAIN points
      BY <1>1
    <2> QED
      BY <1>2, <2>1 DEF MakePoint
  <1>6. k.i # 0 => k.point > 0
    BY <1>1, AtChanges
  <1> HIDE DEF k, new
  <1>7. Guarded(new) = Guarded(k) /\ new.before = k.before
    BY <1>2 DEF Moved, SameFields, Guarded
  <1>8. IdsSound(new, index)
    <2>1. \A j \in DOMAIN index : index[j] < n
      BY <1>1
    <2>2. Decreasing(<<n>>)
      BY DEF Decreasing
    <2> HIDE DEF n
    <2> QED
      BY <1>2, <2>1, <2>2 DEF IdsSound, Moved
  <1>9. PointHolds(new, points')
    <2>1. CASE k.i = 0
      <3>1. new.point = n /\ file = k.before /\ points'[n] = ContentsOf(Guarded(k))
        BY <1>1, <1>2, <1>4, <1>5, <2>1 DEF Moved, CallSafe
      <3> QED
        BY <1>5, <1>7, <3>1 DEF PointHolds, ContentsOf
    <2>2. CASE k.i # 0
      <3>1. new.point = k.point /\ PointHolds(k, points)
        BY <1>1, <1>2, <1>6, <2>2 DEF Moved, CallSafe
      <3> QED
        BY <1>5, <1>7, <3>1 DEF PointHolds
    <2> QED
      BY <2>1, <2>2
  <1>10. PointListed(new, index)
    <2>1. ASSUME k.i > 0 PROVE Near(index, new.point, k.i)
      BY <1>1, <1>2, <1>6, <2>1 DEF Moved, CallSafe, PointListed
    <2> QED
      BY <1>2, <2>1 DEF PointListed, Moved
  <1>11. CallSafe(new, file', points', index')
    BY <1>2, <1>3, <1>8, <1>9, <1>10 DEF CallSafe, Moved
  <1> QED
    BY <1>1, <1>3, <1>11 DEF new

LEMMA CalmReadIndex ==
    ASSUME Approvals, CalmSound, calm, NEW c \in Calls, ReadIndex(c)
    PROVE  Decreasing(index') /\ CallSafe(call'[c], file', points', index')
  <1> DEFINE k == call[c]
             id == k.ids[1]
             all == WithEntry(id, index)
             new == call'[c]
  <1>1. /\ CallSafe(k, file, points, index) /\ Decreasing(index) /\ k \in CallType
        /\ k.i \in Nat /\ k.point \in Nat /\ k.at = "read-index"
        /\ index \in Seq(PointIds) /\ PointIds \subseteq Nat
    BY CalmNow DEF ReadIndex, At
  <1>2. UNCHANGED <<file, points, index>>
    BY DEF ReadIndex, disk
  <1>3. id \in PointIds /\ Moved(new, k, "write-index", k.i, k.point, all)
    BY ReadIndexMoves DEF Approvals
  <1>4. \A j \in DOMAIN index : index[j] < id
    BY <1>1 DEF CallSafe, IdsSound
  <1> HIDE DEF k, id, all, new
  <1>5. /\ all \in Seq(PointIds) /\ Len(all) = Len(index) + 1 /\ all[1] = id
        /\ \A j \in DOMAIN index : j + 1 \in DOMAIN all /\ all[j + 1] = index[j]
    <2>1. index \in Seq(PointIds) /\ id \in PointIds
      BY <1>1, <1>3
    <2> QED
      BY <2>1, EntryInFront DEF all
  <1>6. Decreasing(all)
    BY <1>1, <1>3, <1>4, EntryInFront DEF all
  <1>7. IdsSound(new, index)
    BY <1>3, <1>6 DEF IdsSound, Moved
  <1>8. ASSUME k.point > 0 PROVE PointHolds(new, points) /\ PointListed(new, index)
    <2>1. PointHolds(k, points) /\ (k.i > 0 => Near(index, k.point, k.i))
      BY <1>1, <1>8 DEF CallSafe, PointListed
    <2>2. Near(all, k.point, k.i + 1)
      <3>1. CASE k.i = 0
        <4>1. id = k.point
          BY <1>1, <1>8, <3>1 DEF CallSafe, IdsSound, id
        <4>2. 1 \in DOMAIN all
          BY <1>1, <1>5
        <4> QED
          BY <1>5, <3>1, <4>1, <4>2 DEF Near
      <3>2. CASE k.i # 0
        <4>1. PICK j \in DOMAIN index : index[j] = k.point /\ j <= k.i
          BY <1>1, <2>1, <3>2 DEF Near
        <4>2. j + 1 \in DOMAIN all /\ all[j + 1] = k.point /\ j + 1 <= k.i + 1
          BY <1>1, <1>5, <4>1
        <4> QED
          BY <4>2 DEF Near
      <3> QED
        BY <3>1, <3>2
    <2>3. PointListed(new, index)
      BY <1>3, <2>1, <2>2 DEF PointListed, Moved
    <2> QED
      BY <1>1, <1>3, <2>1, <2>3, MovedSafe
  <1>9. CallSafe(new, file', points', index')
    BY <1>2, <1>3, <1>7, <1>8 DEF CallSafe, Moved
  <1> QED
    BY <1>1, <1>2, <1>9 DEF new

LEMMA CalmEmptyIndex ==
    ASSUME Approvals, CalmSound, calm, NEW c \in Calls, EmptyIndex(c)
    PROVE  Decreasing(index') /\ CallSafe(call'[c], file', points', index')
  <1> DEFINE k == call[c]
             new == call'[c]
  <1>1. /\ CallSafe(k, file, points, index) /\ k \in CallType
        /\ k.at \in {"write-index", "clean-index"}
    BY CalmNow DEF EmptyIndex, At
  <1>2. UNCHANGED <<file, points>> /\ index' = <<>> /\ Decreasing(<<>>)
    BY DEF EmptyIndex, Decreasing
  <1>3. PICK at \in {"fill-index", "fill-clean"} : Moved(new, k, at, k.i, k.point, k.ids)
    BY EmptyIndexMoves DEF Approvals
  <1> HIDE DEF k, new
  <1>4. IdsSound(new, <<>>)
    BY <1>1, <1>3 DEF IdsSound, Moved, CallSafe
  <1>5. ASSUME k.point > 0 PROVE PointHolds(new, points) /\ PointListed(new, <<>>)
    <2>1. PointHolds(k, points) /\ Near(k.ids, k.point, k.i + 1)
      BY <1>1, <1>5 DEF CallSafe, PointListed
    <2>2. PointListed(new, <<>>)
      BY <1>3, <2>1 DEF PointListed, Moved
    <2> QED
      BY <1>1, <1>3, <2>1, <2>2, MovedSafe
  <1>6. CallSafe(new, file', points', index')
    BY <1>2, <1>3, <1>4, <1>5 DEF CallSafe, Moved
  <1> QED
    BY <1>2, <1>6 DEF new

LEMMA CalmFillIndex ==
    ASSUME Approvals, CalmSound, calm, NEW c \in Calls, FillIndex(c)
    PROVE  /\ Decreasing(index')
           /\ call'[c] # None => CallSafe(call'[c], file', points', index')
  <1> DEFINE k == call[c]
             new == call'[c]
  <1>1. CallSafe(k, file, points, index) /\ k \in CallType /\ k.at = "fill-index"
    BY CalmNow DEF FillIndex, At
  <1>2. UNCHANGED <<file, points>> /\ index' = k.ids /\ Decreasing(<<>>)
    BY DEF FillIndex, Decreasing
  <1>3. new = None \/ Moved(new, k, "clean", k.i, k.point, <<>>)
    BY FillIndexMoves DEF Approvals
  <1> HIDE DEF k, new
  <1>4. Decreasing(k.ids)
    BY <1>1 DEF IdsSound, CallSafe
  <1>5. ASSUME new # None PROVE CallSafe(new, file', points', k.ids)
    <2>1. Moved(new, k, "clean", k.i, k.point, <<>>)
      BY <1>3, <1>5
    <2>2. IdsSound(new, k.ids)
      BY <1>2, <2>1 DEF IdsSound, Moved
    <2>3. ASSUME k.point > 0 PROVE PointHolds(new, points) /\ PointListed(new, k.ids)
      <3>1. PointHolds(k, points) /\ Near(k.ids, k.point, k.i + 1)
        BY <1>1, <2>3 DEF CallSafe, PointListed
      <3>2. PointListed(new, k.ids)
        BY <2>1, <3>1 DEF PointListed, Moved
      <3> QED
        BY <1>1, <2>1, <3>1, <3>2, MovedSafe
    <2> QED
      BY <1>2, <2>1, <2>2, <2>3 DEF CallSafe, Moved
  <1> QED
    BY <1>2, <1>4, <1>5 DEF new

(* After the restore point: pts and ix are what the step leaves.              *)
LEMMA CalmPointMade ==
    ASSUME Approvals, NEW c \in Calls, call[c] # None, PointMade(c), NEW fs, NEW pts, NEW ix,
           call[c].point > 0 =>
               PointHolds(call[c], pts) /\ Near(ix, call[c].point, call[c].i + 1)
    PROVE  call'[c] # None => CallSafe(call'[c], fs, pts, ix)
  <1> DEFINE k == call[c]
             new == call'[c]
  <1>1. k \in CallType /\ Decreasing(<<>>)
    BY CallIs DEF Approvals, Decreasing
  <1>2. \/ k.i = 0 /\ Moved(new, k, "change", 1, k.point, <<>>)
        \/ \E at \in {"patch", "put"} : Moved(new, k, at, k.i, k.point, <<>>)
        \/ new = None
    BY PointMadeMoves DEF Approvals
  <1>3. k.point > 0 => PointHolds(k, pts) /\ Near(ix, k.point, k.i + 1)
    OBVIOUS
  <1> HIDE DEF k, new
  <1>4. ASSUME new # None PROVE CallSafe(new, fs, pts, ix)
    <2>1. PICK at \in {"change", "patch", "put"}, i \in {1, k.i} :
              Moved(new, k, at, i, k.point, <<>>) /\ (at = "change" => i = 1 /\ k.i = 0)
              /\ (at # "change" => i = k.i)
      BY <1>2, <1>4
    <2>2. IdsSound(new, ix)
      BY <1>1, <2>1 DEF IdsSound, Moved
    <2>3. ASSUME k.point > 0 PROVE PointHolds(new, pts) /\ PointListed(new, ix)
      <3>1. PointListed(new, ix)
        BY <1>3, <2>1, <2>3 DEF PointListed, Moved
      <3>2. PointHolds(new, pts)
        BY <1>1, <1>3, <2>1, <2>3, MovedSafe
      <3> QED
        BY <3>1, <3>2
    <2> QED
      BY <2>1, <2>2, <2>3 DEF CallSafe, Moved
  <1> QED
    BY <1>4 DEF new

(* What the cleanup keeps includes the restore point of the call at work.     *)
LEMMA CleanKeeps ==
    ASSUME NEW k \in CallType, CallSound(k), k.at = "clean", k.point > 0,
           NEW ids \in Seq(Nat), Decreasing(ids), TooMany(ids), Near(ids, k.point, k.i + 1)
    PROVE  /\ Near(Kept(ids), k.point, k.i + 1)
           /\ k.point \notin ToSet(Surplus(ids))
  <1>1. k.i \in Nat /\ k.i + 1 <= KeptPoints
    <2>1. k.i \in Nat /\ KeptPoints \in Nat /\ KeptPoints >= 1
      BY KeptPointsAssumption DEF CallType
    <2>2. CASE k.i = 0
      BY <2>1, <2>2
    <2>3. CASE k.i # 0
      <3>1. k.p \in Proposals /\ k.i <= Len(Changes[k.p])
        BY <2>1, <2>3 DEF CallSound, ApplySound
      <3>2. Len(Changes[k.p]) \in Nat /\ Len(Changes[k.p]) < KeptPoints
        BY <3>1, FilesOfProposal
      <3> QED
        BY <2>1, <3>1, <3>2
    <2> QED
      BY <2>2, <2>3
  <1>2. PICK j \in DOMAIN ids : ids[j] = k.point /\ j <= k.i + 1
    BY DEF Near
  <1>3. DOMAIN ids = 1..Len(ids) /\ Len(ids) \in Nat /\ KeptPoints \in Nat
    BY KeptPointsAssumption
  <1>4. j \in 1..KeptPoints
    BY <1>1, <1>2, <1>3
  <1>5. /\ Kept(ids) \in Seq(Nat) /\ Len(Kept(ids)) = KeptPoints /\ Kept(ids)[j] = ids[j]
        /\ ToSet(Kept(ids)) = ToSet(ids) \ ToSet(Surplus(ids))
    BY <1>4, KeptAndSurplus
  <1>6. j \in DOMAIN Kept(ids)
    BY <1>3, <1>4, <1>5
  <1>7. k.point \in ToSet(Kept(ids))
    BY <1>2, <1>5, <1>6 DEF ToSet
  <1> QED
    BY <1>2, <1>5, <1>6, <1>7 DEF Near

LEMMA CalmClean ==
    ASSUME Approvals, CalmSound, calm, NEW c \in Calls, Clean(c)
    PROVE  /\ Decreasing(index')
           /\ call'[c] # None => CallSafe(call'[c], file', points', index')
  <1> DEFINE k == call[c]
             new == call'[c]
  <1>1. /\ CallSafe(k, file, points, index) /\ k \in CallType
        /\ k.at = "clean" /\ call[c] # None /\ CallSound(k) /\ Decreasing(index)
        /\ index \in Seq(PointIds) /\ PointIds \subseteq Nat
    BY CalmNow DEF Clean, At
  <1>2. UNCHANGED <<file, index>>
    BY DEF Clean
  <1>3. k.point > 0 => PointHolds(k, points) /\ Near(index, k.point, k.i + 1)
    BY <1>1 DEF CallSafe, PointListed
  <1>4. CASE ~TooMany(index)
    <2>1. PointMade(c) /\ UNCHANGED points
      BY <1>4 DEF Clean
    <2> QED
      BY <1>1, <1>2, <1>3, <2>1, CalmPointMade
  <1>5. CASE TooMany(index)
    <2>1. /\ Moved(new, k, "clean-index", k.i, k.point, Kept(index))
          /\ points' = [r \in DOMAIN points \ ToSet(Surplus(index)) |-> points[r]]
      BY <1>5, CleanMoves DEF Approvals
    <2> HIDE DEF k, new
    <2>2. index \in Seq(Nat) /\ Decreasing(Kept(index))
      BY <1>1, <1>5, KeptAndSurplus, SeqWider
    <2>3. IdsSound(new, index)
      BY <2>1, <2>2 DEF IdsSound, Moved
    <2>4. ASSUME k.point > 0 PROVE PointHolds(new, points') /\ PointListed(new, index)
      <3>1. Near(Kept(index), k.point, k.i + 1) /\ k.point \notin ToSet(Surplus(index))
        BY <1>1, <1>3, <1>5, <2>2, <2>4, CleanKeeps
      <3>2. PointListed(new, index)
        BY <1>3, <2>1, <2>4, <3>1 DEF PointListed, Moved
      <3>3. PointHolds(k, points')
        BY <1>3, <2>1, <2>4, <3>1 DEF PointHolds
      <3> QED
        BY <1>1, <2>1, <3>2, <3>3, MovedSafe
    <2>5. CallSafe(new, file', points', index')
      BY <1>2, <2>1, <2>3, <2>4 DEF CallSafe, Moved
    <2> QED
      BY <1>1, <1>2, <2>5 DEF new
  <1> QED
    BY <1>4, <1>5

LEMMA CalmFillCleaned ==
    ASSUME Approvals, CalmSound, calm, NEW c \in Calls, FillCleaned(c)
    PROVE  /\ Decreasing(index')
           /\ call'[c] # None => CallSafe(call'[c], file', points', index')
  <1> DEFINE k == call[c]
  <1>1. /\ CallSafe(k, file, points, index) /\ k \in CallType /\ k.i \in Nat /\ k.point \in Nat
        /\ k.at = "fill-clean" /\ call[c] # None
    BY CalmNow DEF FillCleaned, At
  <1>2. UNCHANGED <<file, points>> /\ index' = k.ids /\ PointMade(c)
    BY DEF FillCleaned
  <1>3. k.point > 0 => PointHolds(k, points') /\ Near(index', k.point, k.i + 1)
    BY <1>1, <1>2 DEF CallSafe, PointListed
  <1>4. Decreasing(index')
    BY <1>1, <1>2 DEF CallSafe, IdsSound
  <1> QED
    BY <1>1, <1>2, <1>3, <1>4, CalmPointMade

LEMMA CalmChange ==
    ASSUME Approvals, CalmSound, calm, NEW c \in Calls, Change(c) \/ Patch(c)
    PROVE  /\ Decreasing(index')
           /\ call'[c] # None => CallSafe(call'[c], file', points', index')
  <1> DEFINE k == call[c]
             new == call'[c]
  <1>1. /\ CallSafe(k, file, points, index) /\ k \in CallType /\ k.i \in Nat
        /\ Decreasing(index) /\ k.i > 0
        /\ index \in Seq(PointIds) /\ PointIds \subseteq Nat
    BY CalmNow, AtPatch DEF Change, Patch, At, Approvals
  <1>2. UNCHANGED <<points, index>>
    BY DEF Change, Patch
  <1>3. \/ new = None
        \/ k.at = "change" /\ Moved(new, k, "read", k.i, k.point, k.ids)
        \/ k.at \in {"change", "patch"} /\ Moved(new, k, "change", k.i + 1, k.point, k.ids)
    BY ChangeMoves DEF Approvals
  <1> HIDE DEF k, new
  <1>4. ASSUME new # None PROVE CallSafe(new, file', points', index)
    <2>1. PICK at \in {"read", "change"}, i \in {k.i, k.i + 1} :
              /\ Moved(new, k, at, i, k.point, k.ids)
              /\ \/ at = "change" /\ i = k.i + 1 /\ k.at \in {"change", "patch"}
                 \/ at = "read" /\ i = k.i /\ k.at = "change"
      BY <1>3, <1>4
    <2>2. IdsSound(new, index)
      BY <1>1, <2>1 DEF IdsSound, CallSafe, Moved
    <2>3. ASSUME k.point > 0 PROVE PointHolds(new, points) /\ PointListed(new, index)
      <3>1. PointHolds(k, points) /\ PointListed(k, index)
        BY <1>1, <2>3 DEF CallSafe
      <3>2. /\ k.at = "change" => Near(index, k.point, k.i)
            /\ k.at = "patch" => Near(index, k.point, k.i + 1)
        BY <1>1, <3>1 DEF PointListed
      <3>3. k.at \in {"change", "patch"} => Near(index, k.point, k.i + 1)
        BY <1>1, <3>2, NearMore, SeqWider
      <3>4. PointListed(new, index)
        BY <1>1, <2>1, <3>2, <3>3 DEF PointListed, Moved
      <3>5. PointHolds(new, points)
        BY <1>1, <2>1, <3>1, MovedSafe
      <3> QED
        BY <3>4, <3>5
    <2>4. new.i # 0 /\ new.point = k.point
      BY <1>1, <2>1 DEF Moved
    <2> QED
      BY <1>2, <2>2, <2>3, <2>4 DEF CallSafe
  <1> QED
    BY <1>1, <1>2, <1>4 DEF new

(* A save goes on, or a patch is rolled back.                                 *)
LEMMA CalmMovesOn ==
    ASSUME Approvals, CalmSound, calm, NEW c \in Calls, call[c] # None,
           UNCHANGED <<points, index>>, NEW at, NEW ids,
           Moved(call'[c], call[c], at, call[c].i, call[c].point, ids), Decreasing(ids),
           at = "restore" \/ (call[c].at = "put" /\ at = "replace")
    PROVE  CallSafe(call'[c], file', points', index')
  <1> DEFINE k == call[c]
             new == call'[c]
  <1>1. CallSafe(k, file, points, index) /\ k \in CallType
    BY CalmNow
  <1>2. /\ Moved(new, k, at, k.i, k.point, ids)
        /\ at = "restore" \/ (k.at = "put" /\ at = "replace")
    OBVIOUS
  <1> HIDE DEF k, new
  <1>3. IdsSound(new, index)
    BY <1>2 DEF IdsSound, Moved
  <1>4. ASSUME k.point > 0 PROVE PointHolds(new, points) /\ PointListed(new, index)
    <2>1. PointHolds(k, points) /\ PointListed(k, index)
      BY <1>1, <1>4 DEF CallSafe
    <2>2. PointListed(new, index)
      BY <1>2, <2>1 DEF PointListed, Moved
    <2> QED
      BY <1>1, <1>2, <2>1, <2>2, MovedSafe
  <1>5. CallSafe(new, file', points', index')
    BY <1>2, <1>3, <1>4 DEF CallSafe, Moved
  <1> QED
    BY <1>5 DEF new

LEMMA CalmRestored ==
    ASSUME Approvals, CalmSound, calm, NEW c \in Calls, NEW f, At(c, "restore"), Restored(c, f),
           UNCHANGED <<points, index>>
    PROVE  call'[c] # None => CallSafe(call'[c], file', points', index')
  <1>1. call[c] # None /\ Decreasing(call[c].ids)
    BY CalmNow DEF At, CallSafe, IdsSound
  <1>2. \/ call'[c] = None
        \/ Moved(call'[c], call[c], "restore", call[c].i, call[c].point, call[c].ids)
    BY RestoredMoves DEF Approvals
  <1> QED
    BY <1>1, <1>2, CalmMovesOn

LEMMA CalmFault ==
    ASSUME Approvals, CalmSound, calm, NEW c \in Calls, ApplyFails(c) \/ RemoveTarget(c)
    PROVE  /\ Decreasing(index')
           /\ call'[c] # None => CallSafe(call'[c], file', points', index')
  <1>1. /\ call[c] # None /\ Decreasing(call[c].ids) /\ Decreasing(index)
        /\ UNCHANGED <<points, index>>
    BY CalmNow DEF ApplyFails, RemoveTarget, At, CallSafe, IdsSound, disk
  <1>2. Decreasing(<<>>)
    BY DEF Decreasing
  <1>3. \/ call'[c] = None
        \/ Moved(call'[c], call[c], "restore", call[c].i, call[c].point, <<>>)
        \/ /\ call[c].at = "put"
           /\ Moved(call'[c], call[c], "replace", call[c].i, call[c].point, call[c].ids)
    BY ApplyFailsMoves, RemoveTargetMoves DEF Approvals
  <1> QED
    BY <1>1, <1>2, <1>3, CalmMovesOn

LEMMA CalmCallStep ==
    ASSUME Approvals, CalmSound, NEW c \in Calls, Goes(c) \/ Fault(c) PROVE CalmSound'
  <1>1. calm' = calm
    BY DEF Goes, Fault, MakePoint, ReadIndex, EmptyIndex, FillIndex, Clean, FillCleaned,
           Change, Patch, Put, RestoreFile, Refused, ApplyFails, RemoveTarget, CallFails,
           RestoreFails
  <1>2. CASE ~calm
    BY <1>1, <1>2 DEF CalmSound
  <1>3. CASE calm
    <2>1. call[c] # None
      BY DEF Goes, Fault, MakePoint, ReadIndex, EmptyIndex, FillIndex, Clean, FillCleaned,
             Change, Patch, Put, RestoreFile, Refused, ApplyFails, RemoveTarget, CallFails,
             RestoreFails, At
    <2>2. OthersStay(c) /\ Typed
      BY GoingOn DEF Approvals
    <2>3. Decreasing(index) /\ CallSafe(call[c], file, points, index)
      BY <1>3, <2>1, CalmNow
    <2>4. CASE \/ MakePoint(c) \/ ReadIndex(c) \/ EmptyIndex(c) \/ FillIndex(c)
               \/ Clean(c) \/ FillCleaned(c) \/ Change(c) \/ Patch(c)
               \/ ApplyFails(c) \/ RemoveTarget(c)
      <3>1. /\ Decreasing(index')
            /\ call'[c] # None => CallSafe(call'[c], file', points', index')
        BY <1>3, <2>4, CalmMakePoint, CalmReadIndex, CalmEmptyIndex, CalmFillIndex, CalmClean,
           CalmFillCleaned, CalmChange, CalmFault
      <3> QED
        BY <1>3, <2>1, <2>2, <3>1, CalmGoesOn
    <2>5. CASE Put(c) \/ Refused(c) \/ CallFails(c)
      <3>1. call'[c] = None /\ index' = index
        BY <2>5, BecomesIs DEF Put, Refused, CallFails, End, disk, Approvals
      <3> QED
        BY <1>3, <2>1, <2>2, <2>3, <3>1, CalmGoesOn
    <2>6. ASSUME NEW f \in Files, RestoreFile(c, f) \/ RestoreFails(c, f) PROVE CalmSound'
      <3>1. At(c, "restore") /\ Restored(c, f) /\ UNCHANGED <<points, index>>
        BY <2>6 DEF RestoreFile, RestoreFails, disk
      <3>2. call'[c] # None => CallSafe(call'[c], file', points', index')
        BY <1>3, <3>1, CalmRestored
      <3> QED
        BY <1>3, <2>1, <2>2, <2>3, <3>1, <3>2, CalmGoesOn
    <2> QED
      BY <2>4, <2>5, <2>6 DEF Goes, Fault
  <1> QED
    BY <1>2, <1>3

-----------------------------------------------------------------------------
(* The other steps                                                            *)

LEMMA CalmRequest ==
    ASSUME Approvals, CalmSound, NEW c \in Calls, Request(c) PROVE CalmSound'
  <1>1. PICK op \in Ops, at \in Places \ {"read-index"} : \E k :
              /\ Fresh(k, op, at) /\ Begin(c, k) /\ call'[c] = k /\ OthersStay(c)
              /\ Ordered(k) /\ UNCHANGED <<file, index>>
    BY RequestIs DEF Approvals
  <1>2. PICK k : /\ Fresh(k, op, at) /\ Begin(c, k) /\ call'[c] = k /\ OthersStay(c)
                 /\ Ordered(k) /\ UNCHANGED <<file, index>>
    BY <1>1
  <1>3. SUFFICES ASSUME calm' PROVE CalmSound'
    BY DEF CalmSound
  <1>4. calm /\ \A d \in Calls : call[d] = None
    BY <1>2, <1>3 DEF Begin, Active
  <1>5. \A d \in Calls : call'[d] # None => d = c
    BY <1>2, <1>4 DEF OthersStay
  <1>6. Decreasing(index)
    BY <1>4 DEF CalmSound
  <1>7. CallSafe(k, file', points', index')
    BY <1>2, <1>6 DEF CallSafe, IdsSound, Fresh, Ordered
  <1> QED
    BY <1>2, <1>5, <1>6, <1>7 DEF CalmSound, Alone

LEMMA CalmUser ==
    ASSUME Approvals, CalmSound, NEW p \in Proposals,
           Preview(p) \/ (\E v : Approve(p, v)) \/ Reject(p)
    PROVE  CalmSound'
  <1>1. SUFFICES ASSUME calm' PROVE CalmSound'
    BY DEF CalmSound
  <1>2. UNCHANGED <<file, points, index>> /\ calm
    BY <1>1 DEF Preview, Approve, Reject, disk
  <1>3. \A c \in Calls : call'[c] = call[c]
    BY <1>1 DEF Preview, Approve, Reject, Active
  <1> QED
    BY <1>2, <1>3 DEF CalmSound, Alone

LEMMA CalmUndo == ASSUME CalmSound, NEW f \in Files, Undo(f) PROVE CalmSound'
  <1>1. SUFFICES ASSUME calm' PROVE CalmSound'
    BY DEF CalmSound
  <1>2. UNCHANGED <<points, index>> /\ calm /\ \A c \in Calls : call'[c] = None
    BY <1>1 DEF Undo, Active
  <1> QED
    BY <1>2 DEF CalmSound, Alone

LEMMA CalmCrash == ASSUME CalmSound, Crash PROVE CalmSound'
  BY DEF CalmSound, Crash, Alone, disk

LEMMA CalmStep == ASSUME Approvals, CalmSound, [Next]_vars PROVE CalmSound'
  <1>1. CASE UNCHANGED vars
    BY <1>1 DEF vars, disk, CalmSound, Alone
  <1>2. CASE Next
    <2>1. ASSUME NEW p \in Proposals,
                 \/ Preview(p)
                 \/ \E v \in [FilesOf(p) -> 1..snaps] : Approve(p, v)
                 \/ Reject(p)
          PROVE  CalmSound'
      BY <2>1, CalmUser
    <2>2. ASSUME NEW c \in Calls, Request(c) \/ Goes(c) \/ Fault(c) PROVE CalmSound'
      BY <2>2, CalmRequest, CalmCallStep
    <2> QED
      BY <1>2, <2>1, <2>2, CalmUndo, CalmCrash DEF Next, Step
  <1> QED
    BY <1>1, <1>2

LEMMA CalmInit == Init => CalmSound
  <1> SUFFICES ASSUME Init PROVE CalmSound
    OBVIOUS
  <1> DEFINE n == Len(StartPoints)
  <1>1. n \in Nat /\ DOMAIN StartPoints = 1..n
    BY PatchBoundsAssumption
  <1> HIDE DEF n
  <1>2. Decreasing(Reverse([r \in 1..n |-> r]))
    BY <1>1, Countdown
  <1>3. index = Reverse([r \in 1..n |-> r])
    BY <1>1 DEF Init
  <1> QED
    BY <1>2, <1>3 DEF Init, CalmSound, Alone

Calm == Approvals /\ CalmSound

(* The inductive invariant of calls that come one at a time, through failed   *)
(* file operations and ends of the process.                                   *)
THEOREM CalmHolds == Spec => []Calm
  <1>1. Init => Calm
    BY ApprovalsInit, CalmInit DEF Calm
  <1>2. Calm /\ [Next]_vars => Calm'
    BY ApprovalsStep, CalmStep DEF Calm
  <1> QED
    BY <1>1, <1>2, PTL DEF Spec

(* The entries of the index stay in order and none comes twice.               *)
THEOREM NewestFirst == Spec => []IndexNewestFirst
  <1>1. Calm => IndexNewestFirst
    BY DEF Calm, CalmSound, IndexNewestFirst, Decreasing
  <1> QED
    BY <1>1, CalmHolds, PTL

(* Whenever a patch or a save may have changed a file, the restore point on disk *)
(* holds what the file contained before, and the user is shown it: a cleanup  *)
(* that ends the making of a point leaves the one the call may need.          *)
THEOREM OldContentSafe == Spec => []OldContentKept
  <1>1. Calm => OldContentKept
    <2> SUFFICES ASSUME Calm, NEW c \in Calls, call[c] # None, calm, call[c].point > 0,
                        call[c].i > 0 \/ call[c].at \in {"put", "replace"}
                 PROVE  /\ call[c].point \in DOMAIN points
                        /\ call[c].at \notin {"fill-index", "fill-clean", "restore"} =>
                              call[c].point \in ToSet(index)
                        /\ \A f \in Guarded(call[c]) :
                              points[call[c].point][f] = call[c].before[f]
      BY DEF OldContentKept, Active, Guarded
    <2> DEFINE k == call[c]
    <2>1. /\ CallSafe(k, file, points, index) /\ CallSound(k) /\ k \in CallType
          /\ k.i \in Nat /\ k.point > 0 /\ (k.i > 0 \/ k.at \in {"put", "replace"})
      BY CalmNow DEF Calm
    <2> HIDE DEF k
    <2>2. PointHolds(k, points) /\ PointListed(k, index)
      BY <2>1 DEF CallSafe
    <2>3. ASSUME k.at \notin {"fill-index", "fill-clean", "restore"}
          PROVE  Near(index, k.point, k.i) \/ Near(index, k.point, k.i + 1)
      <3>1. k.at \in Places
        BY <2>1 DEF CallType
      <3> QED
        BY <2>1, <2>2, <2>3, <3>1 DEF PointListed, Places
    <2>4. k.at \notin {"fill-index", "fill-clean", "restore"} => k.point \in ToSet(index)
      BY <2>3 DEF Near, ToSet
    <2> QED
      BY <2>2, <2>4 DEF PointHolds, k
  <1> QED
    BY <1>1, CalmHolds, PTL

-----------------------------------------------------------------------------
(* The index lists the restore points                                         *)

AllListed(ids, pts, n) == ToSet(ids) = DOMAIN pts /\ Len(ids) <= n

(* As long as no call failed, a call always knows where the complete list is:  *)
(* in the index, or in what it is about to write.                             *)
CallListed(k, pts, ix) ==
    /\ k.at \in {"read", "change", "patch", "put", "restore"} => AllListed(ix, pts, KeptPoints)
    /\ k.at = "read-index" =>
          DOMAIN pts = ToSet(ix) \cup {k.ids[1]} /\ Len(ix) <= KeptPoints
    /\ k.at \in {"write-index", "fill-index"} =>
          AllListed(k.ids, pts, IF k.op = "delete" THEN KeptPoints ELSE KeptPoints + 1)
    /\ k.at = "clean" => AllListed(ix, pts, KeptPoints + 1)
    /\ k.at \in {"clean-index", "fill-clean"} => AllListed(k.ids, pts, KeptPoints)
    /\ k.at # "replace" /\ k.op \notin {"cleanup", "list", "rebuild"}

Idle == \A c \in Calls : call[c] = None

ListedSound ==
    calm /\ faults = 0 =>
        /\ Idle => AllListed(index, points, KeptPoints)
        /\ \A c \in Calls : call[c] # None => CallListed(call[c], points, index)

(* What has to be shown of a step of c.                                       *)
ListedThen(c) ==
    IF call'[c] = None THEN AllListed(index', points', KeptPoints)
                       ELSE CallListed(call'[c], points', index')

LEMMA ListedNow ==
    ASSUME Approvals, ListedSound, calm, faults = 0, NEW c \in Calls, call[c] # None
    PROVE  /\ CallListed(call[c], points, index)
           /\ call[c] \in CallType /\ CallSound(call[c]) /\ call[c].i \in Nat
           /\ call[c].at \in Places /\ call[c].op \in Ops
           /\ call[c].ids \in Seq(PointIds) /\ index \in Seq(PointIds) /\ PointIds \subseteq Nat
           /\ Len(index) \in Nat /\ KeptPoints \in Nat
  <1>1. /\ CallListed(call[c], points, index) /\ call[c] \in CallType /\ CallSound(call[c])
        /\ call[c].i \in Nat /\ call[c].ids \in Seq(PointIds) /\ call[c].op \in Ops
    BY CallIs DEF ListedSound, Approvals
  <1>2. index \in Seq(PointIds) /\ PointIds \subseteq Nat /\ KeptPoints \in Nat
    BY KeptPointsAssumption DEF Approvals, Typed, DiskTyped, CountsTyped, PointIds
  <1>3. call[c].at \in Places
    BY <1>1 DEF CallType
  <1> QED
    BY <1>1, <1>2, <1>3

LEMMA ListedMakePoint ==
    ASSUME Approvals, ListedSound, calm, faults = 0, NEW c \in Calls, MakePoint(c)
    PROVE  ListedThen(c)
  <1> DEFINE k == call[c]
             n == begun'.points
             new == call'[c]
  <1>1. /\ CallListed(k, points, index) /\ k \in CallType /\ k.at = "read"
    BY ListedNow DEF MakePoint, At
  <1>2. Moved(new, k, "read-index", k.i, IF k.i = 0 THEN n ELSE k.point, <<n>>)
    BY MakePointMoves DEF Approvals
  <1>3. DOMAIN points' = DOMAIN points \cup {n} /\ index' = index
    BY DEF MakePoint
  <1> HIDE DEF k, n
  <1>4. ToSet(index) = DOMAIN points /\ Len(index) <= KeptPoints
        /\ k.op \notin {"cleanup", "list", "rebuild"}
    BY <1>1 DEF CallListed, AllListed
  <1> HIDE DEF new
  <1>5. CallListed(new, points', index')
    BY <1>2, <1>3, <1>4 DEF CallListed, Moved, SameFields
  <1>6. new # None
    BY <1>2, MovedIsCall
  <1> QED
    BY <1>5, <1>6 DEF ListedThen, new

LEMMA ListedReadIndex ==
    ASSUME Approvals, ListedSound, calm, faults = 0, NEW c \in Calls, ReadIndex(c)
    PROVE  CallListed(call'[c], points', index')
  <1> DEFINE k == call[c]
             id == k.ids[1]
             all == WithEntry(id, index)
             new == call'[c]
  <1>1. /\ CallListed(k, points, index) /\ k \in CallType /\ k.at = "read-index" /\ CallSound(k)
        /\ index \in Seq(PointIds) /\ Len(index) \in Nat /\ KeptPoints \in Nat
    BY ListedNow DEF ReadIndex, At
  <1>2. id \in PointIds /\ Moved(new, k, "write-index", k.i, k.point, all)
    BY ReadIndexMoves DEF Approvals
  <1>3. points' = points
    BY DEF ReadIndex, disk
  <1>4. DOMAIN points = ToSet(index) \cup {id} /\ Len(index) <= KeptPoints
        /\ k.op \notin {"cleanup", "list", "rebuild"}
    BY <1>1 DEF CallListed
  <1>5. k.op # "delete"
    BY <1>1 DEF CallSound
  <1> HIDE DEF k, id, all, new
  <1>6. Len(all) = Len(index) + 1 /\ ToSet(all) = {id} \cup ToSet(index)
    <2>1. index \in Seq(PointIds) /\ id \in PointIds
      BY <1>1, <1>2
    <2> QED
      BY <2>1, EntryInFront DEF all
  <1>7. AllListed(all, points, KeptPoints + 1)
    BY <1>1, <1>4, <1>6 DEF AllListed
  <1>8. CallListed(new, points', index')
    BY <1>2, <1>3, <1>4, <1>5, <1>7 DEF CallListed, Moved, SameFields
  <1> QED
    BY <1>8 DEF new

LEMMA ListedEmptyIndex ==
    ASSUME Approvals, ListedSound, calm, faults = 0, NEW c \in Calls, EmptyIndex(c)
    PROVE  CallListed(call'[c], points', index')
  <1> DEFINE k == call[c]
             new == call'[c]
  <1>1. CallListed(k, points, index) /\ points' = points
    BY ListedNow DEF EmptyIndex, At
  <1>2. \/ k.at = "write-index" /\ Moved(new, k, "fill-index", k.i, k.point, k.ids)
        \/ k.at = "clean-index" /\ Moved(new, k, "fill-clean", k.i, k.point, k.ids)
    BY EmptyIndexMoves DEF Approvals
  <1> HIDE DEF k, new
  <1>3. CallListed(new, points', index')
    BY <1>1, <1>2 DEF CallListed, Moved, SameFields
  <1> QED
    BY <1>3 DEF new

LEMMA ListedFillIndex ==
    ASSUME Approvals, ListedSound, calm, faults = 0, NEW c \in Calls, FillIndex(c)
    PROVE  ListedThen(c)
  <1> DEFINE k == call[c]
             new == call'[c]
  <1>1. /\ CallListed(k, points, index) /\ CallSound(k) /\ k.op \in Ops /\ k.at = "fill-index"
        /\ points' = points /\ index' = k.ids
    BY ListedNow DEF FillIndex, At
  <1>2. k.op \notin {"cleanup", "list", "rebuild"}
        /\ AllListed(k.ids, points, IF k.op = "delete" THEN KeptPoints ELSE KeptPoints + 1)
    BY <1>1 DEF CallListed
  <1>3. MakesPoint(c) \/ k.op = "delete"
    BY <1>1, <1>2 DEF MakesPoint, CallSound, Ops
  <1>4. CASE MakesPoint(c)
    <2>1. Moved(new, k, "clean", k.i, k.point, <<>>) /\ k.op # "delete"
      BY <1>4, FillIndexMoves DEF Approvals, MakesPoint
    <2> HIDE DEF k, new
    <2>2. CallListed(new, points', index')
      BY <1>1, <1>2, <2>1 DEF CallListed, Moved, SameFields
    <2>3. new # None
      BY <2>1, MovedIsCall
    <2> QED
      BY <2>2, <2>3 DEF ListedThen, new
  <1>5. CASE ~MakesPoint(c)
    <2>1. new = None
      BY <1>5, FillIndexMoves DEF Approvals
    <2> QED
      BY <1>1, <1>2, <1>3, <1>5, <2>1 DEF ListedThen
  <1> QED
    BY <1>4, <1>5

LEMMA ListedPointMade ==
    ASSUME Approvals, NEW c \in Calls, call[c] # None, PointMade(c), NEW pts, NEW ix,
           AllListed(ix, pts, KeptPoints),
           call[c].op \notin {"cleanup", "list", "rebuild"}
    PROVE  \/ call'[c] = None
           \/ call'[c] # None /\ CallListed(call'[c], pts, ix)
  <1> DEFINE k == call[c]
             new == call'[c]
  <1>1. \/ \E at \in {"change", "patch", "put"}, i \in {1, k.i} :
              Moved(new, k, at, i, k.point, <<>>)
        \/ new = None
    BY PointMadeMoves DEF Approvals
  <1>2. k.op \notin {"cleanup", "list", "rebuild"} /\ AllListed(ix, pts, KeptPoints)
    OBVIOUS
  <1> HIDE DEF k, new
  <1>3. CASE new # None
    <2>1. PICK at \in {"change", "patch", "put"}, i \in {1, k.i} :
                  Moved(new, k, at, i, k.point, <<>>)
      BY <1>1, <1>3
    <2>2. CallListed(new, pts, ix)
      BY <1>2, <2>1 DEF CallListed, Moved, SameFields
    <2> QED
      BY <1>3, <2>2 DEF new
  <1> QED
    BY <1>3 DEF new

LEMMA ListedClean ==
    ASSUME Calm, ListedSound, calm, faults = 0, NEW c \in Calls, Clean(c)
    PROVE  ListedThen(c)
  <1> DEFINE k == call[c]
             new == call'[c]
  <1>1. /\ CallListed(k, points, index) /\ k.at = "clean" /\ call[c] # None
        /\ Len(index) \in Nat /\ KeptPoints \in Nat
    BY ListedNow DEF Clean, At, Calm
  <1>2. index \in Seq(PointIds) /\ PointIds \subseteq Nat /\ Decreasing(index)
    BY <1>1, CalmNow DEF Calm
  <1>3. /\ ToSet(index) = DOMAIN points /\ Len(index) <= KeptPoints + 1
        /\ k.op \notin {"cleanup", "list", "rebuild"} /\ index' = index
    BY <1>1 DEF CallListed, AllListed, Clean
  <1>4. CASE ~TooMany(index)
    <2>1. PointMade(c) /\ points' = points
      BY <1>4 DEF Clean
    <2>2. AllListed(index, points, KeptPoints)
      BY <1>1, <1>3, <1>4 DEF AllListed, TooMany
    <2>3. \/ call'[c] = None
          \/ call'[c] # None /\ CallListed(call'[c], points, index)
      BY <1>1, <1>3, <2>1, <2>2, ListedPointMade DEF Calm
    <2> QED
      BY <1>3, <2>1, <2>2, <2>3 DEF ListedThen
  <1>5. CASE TooMany(index)
    <2>1. /\ Moved(new, k, "clean-index", k.i, k.point, Kept(index))
          /\ points' = [r \in DOMAIN points \ ToSet(Surplus(index)) |-> points[r]]
      BY <1>5, CleanMoves DEF Approvals, Calm
    <2> HIDE DEF k, new
    <2>2. Len(Kept(index)) = KeptPoints /\ ToSet(Kept(index)) = ToSet(index) \ ToSet(Surplus(index))
      BY <1>2, <1>5, KeptAndSurplus
    <2>3. AllListed(Kept(index), points', KeptPoints)
      BY <1>1, <1>3, <2>1, <2>2 DEF AllListed
    <2>4. CallListed(new, points', index')
      BY <1>3, <2>1, <2>3 DEF CallListed, Moved, SameFields
    <2>5. new # None
      BY <2>1, MovedIsCall
    <2> QED
      BY <2>4, <2>5 DEF ListedThen, new
  <1> QED
    BY <1>4, <1>5

LEMMA ListedFillCleaned ==
    ASSUME Approvals, ListedSound, calm, faults = 0, NEW c \in Calls, FillCleaned(c)
    PROVE  ListedThen(c)
  <1>1. /\ CallListed(call[c], points, index) /\ call[c].at = "fill-clean" /\ call[c] # None
    BY ListedNow DEF FillCleaned, At
  <1>2. points' = points /\ index' = call[c].ids /\ PointMade(c)
    BY DEF FillCleaned
  <1>3. /\ AllListed(index', points', KeptPoints)
        /\ call[c].op \notin {"cleanup", "list", "rebuild"}
    BY <1>1, <1>2 DEF CallListed
  <1>4. \/ call'[c] = None
        \/ call'[c] # None /\ CallListed(call'[c], points', index')
    BY <1>1, <1>2, <1>3, ListedPointMade
  <1> QED
    BY <1>3, <1>4 DEF ListedThen

(* The steps that do not touch the restore points.                            *)
LEMMA ListedMovesOn ==
    ASSUME Approvals, ListedSound, calm, faults = 0, NEW c \in Calls,
           \/ Change(c) \/ Patch(c) \/ Put(c)
           \/ \E f \in Files : RestoreFile(c, f)
    PROVE  ListedThen(c)
  <1> DEFINE k == call[c]
             new == call'[c]
  <1>1. call[c] # None /\ UNCHANGED <<points, index>>
    BY DEF Change, Patch, Put, RestoreFile, At
  <1>2. CallListed(k, points, index) /\ k.at \in {"change", "patch", "put", "replace", "restore"}
    BY <1>1, ListedNow DEF Change, Patch, Put, RestoreFile, At
  <1>3. \/ new = None
        \/ \E at \in {"read", "change", "restore"}, i \in {k.i, k.i + 1} :
              Moved(new, k, at, i, k.point, k.ids)
    <2>1. CASE Change(c) \/ Patch(c)
      BY <2>1, ChangeMoves DEF Approvals
    <2>2. CASE Put(c)
      BY <2>2, BecomesIs DEF Put, End, Approvals
    <2>3. ASSUME NEW f \in Files, RestoreFile(c, f)
          PROVE  new = None \/ Moved(new, k, "restore", k.i, k.point, k.ids)
      <3>1. At(c, "restore") /\ Restored(c, f)
        BY <2>3 DEF RestoreFile
      <3> QED
        BY <3>1, RestoredMoves DEF Approvals
    <2> QED
      BY <2>1, <2>2, <2>3
  <1> HIDE DEF k, new
  <1>4. AllListed(index, points, KeptPoints) /\ k.op \notin {"cleanup", "list", "rebuild"}
    BY <1>2 DEF CallListed
  <1>5. CASE new # None
    <2>1. PICK at \in {"read", "change", "restore"}, i \in {k.i, k.i + 1} :
              Moved(new, k, at, i, k.point, k.ids)
      BY <1>3, <1>5
    <2>2. CallListed(new, points', index')
      BY <1>1, <1>4, <2>1 DEF CallListed, Moved, SameFields
    <2> QED
      BY <1>5, <2>2 DEF ListedThen, new
  <1>6. CASE new = None
    BY <1>1, <1>4, <1>6 DEF ListedThen, new
  <1> QED
    BY <1>5, <1>6

LEMMA ListedGoes ==
    ASSUME Calm, ListedSound, NEW c \in Calls, Goes(c) PROVE ListedSound'
  <1>1. calm' = calm /\ faults' = faults /\ call[c] # None
    BY DEF Goes, MakePoint, ReadIndex, EmptyIndex, FillIndex, Clean, FillCleaned,
           Change, Patch, Put, RestoreFile, At
  <1>2. SUFFICES ASSUME calm, faults = 0 PROVE ListedSound'
    BY <1>1 DEF ListedSound
  <1>3. ListedThen(c)
    <2>1. CASE ReadIndex(c)
      BY <1>2, <2>1, ListedReadIndex, ReadIndexMoves, MovedIsCall DEF ListedThen, Calm, Approvals
    <2>2. CASE EmptyIndex(c)
      BY <1>2, <2>2, ListedEmptyIndex, EmptyIndexMoves, MovedIsCall
      DEF ListedThen, Calm, Approvals
    <2> QED
      BY <1>2, <2>1, <2>2, ListedMakePoint, ListedFillIndex, ListedClean, ListedFillCleaned,
         ListedMovesOn DEF Goes, Calm
  <1>4. OthersStay(c) /\ \A d \in Calls \ {c} : call[d] = None
    BY <1>1, <1>2, GoingOn DEF Calm, Approvals, CalmSound, Alone
  <1> QED
    BY <1>3, <1>4 DEF ListedSound, ListedThen, OthersStay, Idle

LEMMA ListedRequest ==
    ASSUME Calm, ListedSound, NEW c \in Calls, Request(c) PROVE ListedSound'
  <1>1. PICK op \in Ops, at \in Places \ {"read-index"} : \E k :
              /\ Fresh(k, op, at) /\ Begin(c, k) /\ call'[c] = k /\ OthersStay(c)
              /\ UNCHANGED <<file, index>> /\ Asked(op, at, k)
    BY RequestIs DEF Calm, Approvals
  <1>2. PICK k : /\ Fresh(k, op, at) /\ Begin(c, k) /\ call'[c] = k /\ OthersStay(c)
                 /\ UNCHANGED <<file, index>> /\ Asked(op, at, k)
    BY <1>1
  <1>3. faults' = faults
    BY DEF Request, BeginApply, BeginPoint, BeginSave, BeginRollback, BeginDelete,
           BeginCleanup, BeginList, BeginRebuild
  <1>4. SUFFICES ASSUME calm', faults = 0 PROVE ListedSound'
    BY <1>3 DEF ListedSound
  <1>5. calm /\ Idle
    BY <1>2, <1>4 DEF Begin, Active, Idle
  <1>6. ToSet(index) = DOMAIN points /\ Len(index) <= KeptPoints
    BY <1>4, <1>5 DEF ListedSound, AllListed
  <1>7. /\ index \in Seq(PointIds) /\ PointIds \subseteq Nat /\ Len(index) \in Nat
        /\ KeptPoints \in Nat /\ DOMAIN points \subseteq PointIds
    BY KeptPointsAssumption
    DEF Calm, Approvals, Typed, DiskTyped, CountsTyped, PointIds
  <1>8. k # None
    BY <1>2, NoneAssumption DEF Fresh
  <1>9. op \notin {"cleanup", "list", "rebuild"}
    BY <1>2, <1>6, <1>7 DEF Asked, TooMany
  <1>10. CASE op = "delete"
    <2>1. PICK r : k.ids = Only(index, Nat \ {r}) /\ DOMAIN points' = DOMAIN points \ {r}
      BY <1>2, <1>10 DEF Asked
    <2> DEFINE ids == Only(index, Nat \ {r})
    <2>2. Len(ids) \in Nat /\ Len(ids) <= Len(index) /\ ToSet(ids) = ToSet(index) \cap (Nat \ {r})
      <3>1. ids \in Seq(PointIds) /\ Len(ids) <= Len(index)
            /\ ToSet(ids) = ToSet(index) \cap (Nat \ {r})
        BY <1>7, OnlyKeeps
      <3> HIDE DEF ids
      <3> QED
        BY <3>1
    <2> HIDE DEF ids
    <2>3. AllListed(ids, points', KeptPoints)
      <3>1. Len(ids) <= KeptPoints
        BY <1>6, <1>7, <2>2
      <3>2. ToSet(ids) = DOMAIN points'
        BY <1>6, <1>7, <2>1, <2>2
      <3> QED
        BY <3>1, <3>2 DEF AllListed
    <2>4. k.ids = ids
      BY <2>1 DEF ids
    <2>5. CallListed(k, points', index')
      BY <1>2, <1>10, <2>3, <2>4 DEF CallListed, Fresh, Asked
    <2> QED
      BY <1>2, <1>5, <1>8, <2>5 DEF ListedSound, OthersStay, Idle
  <1>11. CASE op # "delete"
    <2>1. at \in {"read", "put", "restore"} /\ points' = points
      BY <1>2, <1>9, <1>11 DEF Asked, Ops
    <2>2. CallListed(k, points', index')
      BY <1>2, <1>6, <1>9, <2>1 DEF CallListed, AllListed, Fresh
    <2> QED
      BY <1>2, <1>5, <1>8, <2>2 DEF ListedSound, OthersStay, Idle
  <1> QED
    BY <1>10, <1>11

LEMMA ListedFault ==
    ASSUME Calm, Crash \/ \E c \in Calls : Fault(c) PROVE ListedSound'
  <1>1. faults \in Nat /\ faults' = faults + 1
    <2>1. limit.faults \in Nat /\ faults \in 0..limit.faults
      BY PatchBoundsAssumption DEF Calm, Approvals, Typed, CountsTyped, LimitType
    <2>2. faults' = faults + 1
      BY DEF Crash, Fault, Refused, ApplyFails, RemoveTarget, CallFails, RestoreFails, FaultHits
    <2> QED
      BY <2>1, <2>2
  <1> QED
    BY <1>1 DEF ListedSound

LEMMA ListedUser ==
    ASSUME ListedSound, NEW p \in Proposals,
           Preview(p) \/ (\E v : Approve(p, v)) \/ Reject(p)
    PROVE  ListedSound'
  <1>1. SUFFICES ASSUME calm' PROVE ListedSound'
    BY DEF ListedSound
  <1>2. UNCHANGED <<points, index, faults>> /\ calm
    BY <1>1 DEF Preview, Approve, Reject, disk
  <1>3. \A c \in Calls : call'[c] = call[c]
    BY <1>1 DEF Preview, Approve, Reject, Active
  <1> QED
    BY <1>2, <1>3 DEF ListedSound, Idle

LEMMA ListedUndo == ASSUME ListedSound, NEW f \in Files, Undo(f) PROVE ListedSound'
  <1>1. SUFFICES ASSUME calm' PROVE ListedSound'
    BY DEF ListedSound
  <1>2. UNCHANGED <<points, index, call, faults>> /\ calm
    BY <1>1 DEF Undo
  <1> QED
    BY <1>2 DEF ListedSound, Idle

LEMMA ListedStep == ASSUME Calm, ListedSound, [Next]_vars PROVE ListedSound'
  <1>1. CASE UNCHANGED vars
    BY <1>1 DEF vars, disk, ListedSound, Idle
  <1>2. CASE Next
    <2>1. ASSUME NEW p \in Proposals,
                 \/ Preview(p)
                 \/ \E v \in [FilesOf(p) -> 1..snaps] : Approve(p, v)
                 \/ Reject(p)
          PROVE  ListedSound'
      BY <2>1, ListedUser
    <2>2. ASSUME NEW c \in Calls, Request(c) \/ Goes(c) \/ Fault(c) PROVE ListedSound'
      BY <2>2, ListedRequest, ListedGoes, ListedFault
    <2> QED
      BY <1>2, <2>1, <2>2, ListedUndo, ListedFault DEF Next, Step
  <1> QED
    BY <1>1, <1>2

LEMMA ListedInit == Init => ListedSound
  <1> SUFFICES ASSUME Init PROVE ListedSound
    OBVIOUS
  <1> DEFINE n == Len(StartPoints)
             ids == Reverse([r \in 1..n |-> r])
  <1>1. n \in Nat /\ DOMAIN StartPoints = 1..n /\ n <= KeptPoints
    BY PatchBoundsAssumption
  <1> HIDE DEF n
  <1>2. Len(ids) = n /\ ToSet(ids) = 1..n
    BY <1>1, Countdown
  <1>3. index = ids /\ DOMAIN points = 1..n
    BY <1>1 DEF Init
  <1> HIDE DEF ids
  <1>4. AllListed(index, points, KeptPoints) /\ \A c \in Calls : call[c] = None
    BY <1>1, <1>2, <1>3 DEF Init, AllListed
  <1> QED
    BY <1>4 DEF ListedSound

(* Between calls the index lists exactly the restore points on disk, and no   *)
(* more than are kept: the deletion, the cleanup and the restore point that is *)
(* made each leave what their call writes last complete.                      *)
THEOREM ListsPoints == Spec => []IndexListsPoints
  <1>1. Init => Calm /\ ListedSound
    BY ApprovalsInit, CalmInit, ListedInit DEF Calm
  <1>2. Calm /\ ListedSound /\ [Next]_vars => Calm' /\ ListedSound'
    BY ApprovalsStep, CalmStep, ListedStep DEF Calm
  <1>3. ListedSound => IndexListsPoints
    BY DEF ListedSound, IndexListsPoints, Idle, Active, AllListed
  <1> QED
    BY <1>1, <1>2, <1>3, PTL DEF Spec

-----------------------------------------------------------------------------
(* The files while a patch is at work                                         *)

(* The files once the first n changes of q are made.                          *)
Halfway(q, n, fs) ==
    [h \in Files |->
        IF \E j \in 1..n : Changes[q][j].file = h
        THEN Changes[q][CHOOSE j \in 1..n : Changes[q][j].file = h].content
        ELSE fs[h]]

LEMMA HalfwayIs ==
    ASSUME NEW q \in Proposals, NEW fs \in [Files -> Content]
    PROVE  /\ Halfway(q, 0, fs) = fs
           /\ Halfway(q, Len(Changes[q]), fs) = Transaction!Patched(q, fs)
           /\ \A n \in 0..Len(Changes[q]), h \in Files \ FilesOf(q) : Halfway(q, n, fs)[h] = fs[h]
  <1>1. Len(Changes[q]) \in Nat /\ DOMAIN Changes[q] = 1..Len(Changes[q])
    BY FilesOfProposal
  <1>2. Halfway(q, 0, fs) = fs
    BY DEF Halfway
  <1>3. Halfway(q, Len(Changes[q]), fs) = Transaction!Patched(q, fs)
    BY <1>1 DEF Halfway, Transaction!Patched, Transaction!FilesOf
  <1>4. \A n \in 0..Len(Changes[q]), h \in Files \ FilesOf(q) : Halfway(q, n, fs)[h] = fs[h]
    BY <1>1 DEF Halfway, FilesOf
  <1> QED
    BY <1>2, <1>3, <1>4

(* One change more.  Each file is changed once (PATCH_DUPLICATE_FILE).        *)
LEMMA HalfwayNext ==
    ASSUME NEW q \in Proposals, NEW fs \in [Files -> Content], NEW i \in 1..Len(Changes[q])
    PROVE  Halfway(q, i, fs) =
              [Halfway(q, i - 1, fs) EXCEPT ![Changes[q][i].file] = Changes[q][i].content]
  <1> DEFINE item(j) == Changes[q][j]
  <1>1. Len(Changes[q]) \in Nat /\ DOMAIN Changes[q] = 1..Len(Changes[q])
    BY FilesOfProposal
  <1>2. \A j, k \in 1..i : item(j).file = item(k).file => j = k
    <2>1. 1..i \subseteq DOMAIN Changes[q]
      BY <1>1
    <2>2. \A j, k \in DOMAIN Changes[q] : Changes[q][j].file = Changes[q][k].file => j = k
      BY ChangesAssumption
    <2> QED
      BY <2>1, <2>2
  <1>3. 1..i = 1..(i - 1) \cup {i}
    BY <1>1
  <1> DEFINE old == Halfway(q, i - 1, fs)
             new == Halfway(q, i, fs)
  <1>4. ASSUME NEW h \in Files
        PROVE  new[h] = IF h = item(i).file THEN item(i).content ELSE old[h]
    <2>1. new[h] = IF \E j \in 1..i : item(j).file = h
                   THEN item(CHOOSE j \in 1..i : item(j).file = h).content ELSE fs[h]
      BY DEF Halfway
    <2>2. old[h] = IF \E j \in 1..(i - 1) : item(j).file = h
                   THEN item(CHOOSE j \in 1..(i - 1) : item(j).file = h).content ELSE fs[h]
      BY DEF Halfway
    <2> HIDE DEF old, new, item
    <2>3. CASE h = item(i).file
      <3>1. (CHOOSE j \in 1..i : item(j).file = h) = i
        BY <1>2, <1>3, <2>3
      <3> QED
        BY <1>3, <2>1, <2>3, <3>1
    <2>4. CASE h # item(i).file /\ \E j \in 1..(i - 1) : item(j).file = h
      <3>1. (CHOOSE j \in 1..i : item(j).file = h) = (CHOOSE j \in 1..(i - 1) : item(j).file = h)
        <4>1. PICK j \in 1..(i - 1) : item(j).file = h
          BY <2>4
        <4>2. (CHOOSE k \in 1..i : item(k).file = h) = j
          BY <1>2, <1>3, <4>1
        <4>3. (CHOOSE k \in 1..(i - 1) : item(k).file = h) = j
          BY <1>2, <1>3, <4>1
        <4> QED
          BY <4>2, <4>3
      <3> QED
        BY <1>3, <2>1, <2>2, <2>4, <3>1
    <2>5. CASE h # item(i).file /\ ~ \E j \in 1..(i - 1) : item(j).file = h
      BY <1>3, <2>1, <2>2, <2>5
    <2> QED
      BY <2>3, <2>4, <2>5
  <1>5. new = [h \in Files |-> new[h]] /\ old = [h \in Files |-> old[h]]
    BY DEF Halfway
  <1> HIDE DEF old, new
  <1>6. new = [old EXCEPT ![item(i).file] = item(i).content]
    BY <1>4, <1>5
  <1> QED
    BY <1>6 DEF old, new

(* What the files are to the call at work.                                    *)
FilesSound(k, fs) ==
    /\ k.held
    /\ k.op = "apply" /\ k.i = 0 => fs = k.before
    /\ k.op = "apply" /\ k.i > 0 /\ k.at # "restore" => fs = Halfway(k.p, k.i - 1, k.before)
    /\ k.op = "apply" /\ k.at = "restore" =>
          \A h \in Files :
              IF h \in DOMAIN k.saved THEN k.saved[h] = k.before[h] ELSE fs[h] = k.before[h]
    /\ k.op \notin {"apply", "rollback"} /\ k.at # "replace" => fs = k.before
    /\ k.at = "replace" => fs = [k.before EXCEPT ![k.f] = Absent]

FileSound ==
    calm /\ ~cut => \A c \in Calls : call[c] # None => FilesSound(call[c], file)

LEMMA FilesNow ==
    ASSUME Calm, FileSound, calm, ~cut, NEW c \in Calls, call[c] # None
    PROVE  /\ FilesSound(call[c], file)
           /\ call[c] \in CallType /\ CallSound(call[c]) /\ call[c].i \in Nat
           /\ call[c].at \in Places /\ call[c].op \in Ops
           /\ call[c].before \in [Files -> Content] /\ file \in [Files -> Content]
           /\ call[c].op = "apply" => call[c].p \in Proposals
  <1>1. /\ FilesSound(call[c], file) /\ call[c] \in CallType /\ CallSound(call[c])
        /\ call[c].i \in Nat /\ call[c].op \in Ops /\ file \in [Files -> Content]
        /\ call[c].op = "apply" => call[c].p \in Proposals
    BY CallIs DEF FileSound, Calm, Approvals, Typed, DiskTyped
  <1>2. call[c].at \in Places /\ call[c].before \in [Files -> Content]
    BY <1>1 DEF CallType
  <1> QED
    BY <1>1, <1>2

(* A call goes on, and the files stay as they are.                            *)
LEMMA FilesMoveOn ==
    ASSUME NEW k \in CallType, NEW fs, FilesSound(k, fs), NEW new, NEW at, NEW i, NEW point,
           NEW ids, Moved(new, k, at, i, point, ids),
           at \notin {"restore", "replace"}, k.at \notin {"restore", "replace"},
           i = k.i \/ (i = 1 /\ k.i = 0 /\ k.op = "apply" /\ k.p \in Proposals)
    PROVE  FilesSound(new, fs)
  <1>1. k.before \in [Files -> Content] /\ k.i \in Nat
    BY DEF CallType
  <1>2. CASE i = k.i
    BY <1>2 DEF FilesSound, Moved, SameFields
  <1>3. CASE i = 1 /\ k.i = 0 /\ k.op = "apply" /\ k.p \in Proposals
    <2>1. fs = k.before /\ Halfway(k.p, 0, k.before) = k.before
      BY <1>1, <1>3, HalfwayIs DEF FilesSound
    <2>2. fs = Halfway(new.p, new.i - 1, new.before)
      BY <1>3, <2>1 DEF Moved, SameFields
    <2> QED
      BY <1>3, <2>2 DEF FilesSound, Moved, SameFields
  <1> QED
    BY <1>2, <1>3

FilesThen(c) == call'[c] # None => FilesSound(call'[c], file')

(* The steps of a restore point.                                              *)
LEMMA FilesIndexing ==
    ASSUME Calm, FileSound, calm, ~cut, NEW c \in Calls,
           \/ MakePoint(c) \/ ReadIndex(c) \/ EmptyIndex(c) \/ FillIndex(c)
           \/ Clean(c) \/ FillCleaned(c)
    PROVE  FilesThen(c)
  <1> DEFINE k == call[c]
             new == call'[c]
  <1>1. /\ call[c] # None /\ file' = file
        /\ k.at \in {"read"} \cup Indexing
    BY DEF MakePoint, ReadIndex, EmptyIndex, FillIndex, Clean, FillCleaned, At, disk, Indexing
  <1>2. /\ FilesSound(k, file) /\ k \in CallType /\ (k.op = "apply" => k.p \in Proposals)
    BY <1>1, FilesNow
  <1>3. Typed
    BY DEF Calm, Approvals
  <1>4. \/ new = None
        \/ \E at \in Places \ {"restore", "replace"}, i \in {1, k.i} : \E point, ids :
              /\ Moved(new, k, at, i, point, ids)
              /\ i = k.i \/ (i = 1 /\ k.i = 0 /\ k.op = "apply")
    <2>1. \A at \in {"read-index", "write-index", "fill-index", "clean", "clean-index",
                     "fill-clean", "change", "patch", "put"} :
                         at \in Places \ {"restore", "replace"}
      BY DEF Places
    <2>2. CASE MakePoint(c)
      BY <1>3, <2>1, <2>2, MakePointMoves
    <2>3. CASE ReadIndex(c)
      BY <1>3, <2>1, <2>3, ReadIndexMoves
    <2>4. CASE EmptyIndex(c)
      BY <1>3, <2>1, <2>4, EmptyIndexMoves
    <2>5. CASE FillIndex(c)
      BY <1>3, <2>1, <2>5, FillIndexMoves
    <2>6. CASE PointMade(c)
      BY <1>1, <1>3, <2>1, <2>6, PointMadeMoves
    <2>7. CASE Clean(c) /\ TooMany(index)
      BY <1>3, <2>1, <2>7, CleanMoves
    <2>8. CASE FillCleaned(c) \/ (Clean(c) /\ ~TooMany(index))
      BY <2>6, <2>8 DEF FillCleaned, Clean
    <2> QED
      BY <2>2, <2>3, <2>4, <2>5, <2>7, <2>8
  <1> HIDE DEF k, new
  <1>5. new # None => FilesSound(new, file)
    BY <1>1, <1>2, <1>4, FilesMoveOn DEF Indexing
  <1> QED
    BY <1>1, <1>5 DEF FilesThen, new

LEMMA FilesChange ==
    ASSUME Calm, FileSound, calm, ~cut, NEW c \in Calls, Change(c) \/ Patch(c)
    PROVE  FilesThen(c)
  <1> DEFINE k == call[c]
             new == call'[c]
             item == Changes[k.p][k.i]
  <1>1. call[c] # None /\ k.at \in {"change", "patch"}
    BY DEF Change, Patch, At
  <1>2. FilesSound(k, file) /\ k \in CallType /\ k.before \in [Files -> Content]
    BY <1>1, FilesNow
  <1>3. /\ k.op = "apply" /\ k.i \in Nat /\ k.i > 0 /\ k.p \in Proposals
        /\ k.i <= Len(Changes[k.p]) => k.i \in DOMAIN Changes[k.p]
        /\ Len(Changes[k.p]) \in Nat
        /\ k.at = "patch" => k.i <= Len(Changes[k.p])
    BY AtPatch DEF Change, Patch, Calm, Approvals
  <1>4. \/ new = None
        \/ Moved(new, k, "read", k.i, k.point, k.ids) /\ file' = file
        \/ /\ Moved(new, k, "change", k.i + 1, k.point, k.ids)
           /\ k.i <= Len(Changes[k.p]) /\ item.type = "delete"
           /\ file' = [file EXCEPT ![item.file] = Absent]
        \/ /\ Moved(new, k, "change", k.i + 1, k.point, k.ids)
           /\ k.i <= Len(Changes[k.p])
           /\ file' = [file EXCEPT ![item.file] = item.content]
    BY <1>3, ChangeMoves DEF Calm, Approvals
  <1> HIDE DEF k, new
  <1>5. CASE Moved(new, k, "read", k.i, k.point, k.ids) /\ file' = file
    <2>1. FilesSound(new, file)
      BY <1>1, <1>2, <1>5, FilesMoveOn
    <2> QED
      BY <1>5, <2>1 DEF FilesThen, new
  <1>6. CASE /\ Moved(new, k, "change", k.i + 1, k.point, k.ids) /\ k.i <= Len(Changes[k.p])
             /\ file' = [file EXCEPT ![item.file] = item.content]
    <2>1. k.i \in 1..Len(Changes[k.p]) /\ (k.i + 1) - 1 = k.i /\ k.i + 1 > 0
      BY <1>3, <1>6
    <2>2. file = Halfway(k.p, k.i - 1, k.before)
      BY <1>1, <1>2, <1>3 DEF FilesSound
    <2>3. file' = Halfway(k.p, k.i, k.before)
      BY <1>2, <1>3, <1>6, <2>1, <2>2, HalfwayNext
    <2> HIDE DEF item
    <2>4. /\ new.i = k.i + 1 /\ new.op = "apply" /\ new.at = "change" /\ new.held
          /\ new.p = k.p /\ new.before = k.before
      BY <1>2, <1>3, <1>6 DEF FilesSound, Moved, SameFields
    <2>5. new.i # 0 /\ new.i - 1 = k.i
      BY <1>3, <2>4
    <2>6. FilesSound(new, file')
      BY <2>3, <2>4, <2>5 DEF FilesSound
    <2> QED
      BY <2>6 DEF FilesThen, new
  <1>7. k.i <= Len(Changes[k.p]) /\ item.type = "delete" => item.content = Absent
    BY <1>3, ChangesAssumption
  <1> QED
    BY <1>4, <1>5, <1>6, <1>7 DEF FilesThen, new

LEMMA FilesRestored ==
    ASSUME Calm, FileSound, calm, ~cut, NEW c \in Calls, NEW f \in Files, RestoreFile(c, f)
    PROVE  FilesThen(c)
  <1> DEFINE k == call[c]
             new == call'[c]
  <1>1. /\ call[c] # None /\ k.at = "restore" /\ f \in DOMAIN k.saved
        /\ At(c, "restore") /\ Restored(c, f)
        /\ file' = [file EXCEPT ![f] = k.saved[f]]
    BY DEF RestoreFile, At
  <1>2. FilesSound(k, file) /\ CallSound(k) /\ file \in [Files -> Content] /\ k.op \in Ops
        /\ k.i \in Nat
    BY <1>1, FilesNow
  <1>3. \/ new = None
        \/ /\ Moved(new, k, "restore", k.i, k.point, k.ids)
           /\ new.saved = [g \in DOMAIN k.saved \ {f} |-> k.saved[g]]
    BY <1>1, RestoredMoves DEF Calm, Approvals
  <1> HIDE DEF k, new
  <1>4. k.op \in {"apply", "rollback"} /\ (k.op = "apply" => k.i # 0)
    BY <1>1, <1>2 DEF CallSound, ApplySound, SaveSound, Indexing, Ops
  <1>5. CASE /\ Moved(new, k, "restore", k.i, k.point, k.ids)
             /\ new.saved = [g \in DOMAIN k.saved \ {f} |-> k.saved[g]]
    <2>1. ASSUME k.op = "apply", NEW h \in Files
          PROVE  IF h \in DOMAIN new.saved THEN new.saved[h] = k.before[h]
                                           ELSE file'[h] = k.before[h]
      <3>1. IF h \in DOMAIN k.saved THEN k.saved[h] = k.before[h] ELSE file[h] = k.before[h]
        BY <1>1, <1>2, <2>1 DEF FilesSound
      <3> QED
        BY <1>1, <1>2, <1>5, <3>1
    <2>2. FilesSound(new, file')
      BY <1>2, <1>4, <1>5, <2>1 DEF FilesSound, Moved, SameFields
    <2> QED
      BY <2>2 DEF FilesThen, new
  <1> QED
    BY <1>3, <1>5 DEF FilesThen, new

LEMMA FilesFault ==
    ASSUME Calm, FileSound, calm, ~cut, NEW c \in Calls, ApplyFails(c) \/ RemoveTarget(c)
    PROVE  FilesThen(c)
  <1> DEFINE k == call[c]
             new == call'[c]
  <1>1. call[c] # None
    BY DEF ApplyFails, RemoveTarget, At
  <1>2. /\ FilesSound(k, file) /\ k \in CallType /\ CallSound(k) /\ k.i \in Nat
        /\ file \in [Files -> Content] /\ k.op \in Ops
    BY <1>1, FilesNow
  <1>3. CASE RemoveTarget(c)
    <2>1. /\ k.at = "put" /\ Moved(new, k, "replace", k.i, k.point, k.ids)
      BY <1>3, RemoveTargetMoves DEF Calm, Approvals
    <2>2. file' = [file EXCEPT ![k.f] = Absent]
      BY <1>3 DEF RemoveTarget
    <2> HIDE DEF k, new
    <2>3. k.op \notin {"apply", "rollback"}
      BY <1>2, <2>1 DEF CallSound, ApplySound, Indexing
    <2>4. FilesSound(new, file')
      BY <1>2, <2>1, <2>2, <2>3 DEF FilesSound, Moved, SameFields
    <2> QED
      BY <2>4 DEF FilesThen, new
  <1>4. CASE ApplyFails(c)
    <2>1. k.op = "apply" /\ k.i > 0 /\ k.at # "restore" /\ file' = file
      BY <1>4 DEF ApplyFails, disk
    <2>2. CallSafe(k, file, points, index) /\ k.point > 0 /\ ApplySound(k)
      BY <1>1, <1>2, <2>1, CalmNow, AtChanges DEF Calm, Approvals
    <2>3. PointHolds(k, points)
      BY <2>2 DEF CallSafe
    <2>4. /\ Moved(new, k, "restore", k.i, k.point, <<>>)
          /\ new.saved = points[k.point]
      BY <1>4, <2>3, ApplyFailsMoves DEF Calm, Approvals, PointHolds
    <2> HIDE DEF k, new
    <2>5. ASSUME NEW h \in Files
          PROVE  IF h \in DOMAIN new.saved THEN new.saved[h] = k.before[h]
                                           ELSE file[h] = k.before[h]
      <3>1. DOMAIN new.saved = FilesOf(k.p)
            /\ \A g \in FilesOf(k.p) : new.saved[g] = k.before[g]
        BY <2>1, <2>3, <2>4 DEF PointHolds, Guarded
      <3>2. CASE h \in FilesOf(k.p)
        BY <3>1, <3>2
      <3>3. CASE h \notin FilesOf(k.p)
        <4>1. k.p \in Proposals /\ k.i - 1 \in 0..Len(Changes[k.p])
          <5>1. k.p \in Proposals /\ k.i <= Len(Changes[k.p]) + 1
            BY <2>2 DEF ApplySound
          <5>2. Len(Changes[k.p]) \in Nat
            BY <5>1, FilesOfProposal
          <5> QED
            BY <1>2, <2>1, <5>1, <5>2
        <4>2. file = Halfway(k.p, k.i - 1, k.before) /\ k.before \in [Files -> Content]
          BY <1>2, <2>1 DEF FilesSound, CallType
        <4> QED
          BY <3>1, <3>3, <4>1, <4>2, HalfwayIs
      <3> QED
        BY <3>2, <3>3
    <2>6. FilesSound(new, file')
      BY <1>2, <2>1, <2>4, <2>5 DEF FilesSound, Moved, SameFields
    <2> QED
      BY <2>6 DEF FilesThen, new
  <1> QED
    BY <1>3, <1>4

LEMMA FileCallStep ==
    ASSUME Calm, FileSound, calm, ~cut, NEW c \in Calls, Goes(c) \/ Fault(c), ~cut'
    PROVE  FileSound'
  <1>1. call[c] # None
    BY DEF Goes, Fault, MakePoint, ReadIndex, EmptyIndex, FillIndex, Clean, FillCleaned,
           Change, Patch, Put, RestoreFile, Refused, ApplyFails, RemoveTarget, CallFails,
           RestoreFails, At
  <1>2. FilesThen(c)
    <2>1. CASE Put(c) \/ Refused(c) \/ CallFails(c)
      BY <2>1, BecomesIs DEF Put, Refused, CallFails, End, FilesThen, Calm, Approvals
    <2>2. ASSUME NEW f \in Files PROVE ~RestoreFails(c, f)
      BY DEF RestoreFails
    <2> QED
      BY <2>1, <2>2, FilesIndexing, FilesChange, FilesRestored, FilesFault DEF Goes, Fault
  <1>3. OthersStay(c) /\ \A d \in Calls \ {c} : call[d] = None
    BY <1>1, GoingOn DEF Calm, Approvals, CalmSound, Alone
  <1> QED
    BY <1>2, <1>3 DEF FileSound, FilesThen, OthersStay

LEMMA FileRequest ==
    ASSUME Calm, NEW c \in Calls, Request(c) PROVE FileSound'
  <1>1. PICK op \in Ops, at \in Places \ {"read-index"} : \E k :
              /\ Fresh(k, op, at) /\ Begin(c, k) /\ call'[c] = k /\ OthersStay(c)
              /\ UNCHANGED <<file, index>> /\ Asked(op, at, k)
    BY RequestIs DEF Calm, Approvals
  <1>2. PICK k : /\ Fresh(k, op, at) /\ Begin(c, k) /\ call'[c] = k /\ OthersStay(c)
                 /\ UNCHANGED <<file, index>> /\ Asked(op, at, k)
    BY <1>1
  <1>3. SUFFICES ASSUME calm' PROVE FileSound'
    BY DEF FileSound
  <1>4. Idle
    BY <1>2, <1>3 DEF Begin, Active, Idle
  <1>5. FilesSound(k, file')
    BY <1>2 DEF FilesSound, Fresh, Asked, Ops
  <1> QED
    BY <1>2, <1>4, <1>5 DEF FileSound, OthersStay, Idle

LEMMA FileStep == ASSUME Calm, FileSound, [Next]_vars PROVE FileSound'
  <1>1. CASE UNCHANGED vars
    BY <1>1 DEF vars, disk, FileSound
  <1>2. CASE Next
    <2>1. SUFFICES ASSUME calm', ~cut' PROVE FileSound'
      BY DEF FileSound
    <2>2. ASSUME NEW p \in Proposals,
                 \/ Preview(p)
                 \/ \E v \in [FilesOf(p) -> 1..snaps] : Approve(p, v)
                 \/ Reject(p)
          PROVE  FileSound'
      <3>1. UNCHANGED <<file, cut>> /\ calm
        BY <2>1, <2>2 DEF Preview, Approve, Reject, disk
      <3>2. \A c \in Calls : call'[c] = call[c]
        BY <2>1, <2>2 DEF Preview, Approve, Reject, Active
      <3> QED
        BY <2>1, <3>1, <3>2 DEF FileSound
    <2>3. ASSUME NEW f \in Files, Undo(f) PROVE FileSound'
      BY <2>1, <2>3 DEF Undo, FileSound, Active
    <2>4. ASSUME NEW c \in Calls, Goes(c) \/ Fault(c) PROVE FileSound'
      <3>1. calm /\ ~cut
        <4>1. calm' = calm
          BY <2>4 DEF Goes, Fault, MakePoint, ReadIndex, EmptyIndex, FillIndex, Clean,
             FillCleaned, Change, Patch, Put, RestoreFile, Refused, ApplyFails, RemoveTarget,
             CallFails, RestoreFails
        <4>2. CASE Goes(c)
          <5>1. cut' = cut
            BY <4>2 DEF Goes, MakePoint, ReadIndex, EmptyIndex, FillIndex, Clean, FillCleaned,
                        Change, Patch, Put, RestoreFile
          <5> QED
            BY <2>1, <4>1, <5>1
        <4>3. CASE Fault(c)
          <5>1. cut' = cut \/ cut' = TRUE
            BY <4>3 DEF Fault, Refused, ApplyFails, RemoveTarget, CallFails, RestoreFails
          <5> QED
            BY <2>1, <4>1, <5>1
        <4> QED
          BY <2>4, <4>2, <4>3
      <3> QED
        BY <2>1, <2>4, <3>1, FileCallStep
    <2>5. CASE Crash
      BY <2>5 DEF Crash, FileSound
    <2> QED
      BY <1>2, <2>2, <2>3, <2>4, <2>5, FileRequest DEF Next, Step
  <1> QED
    BY <1>1, <1>2

-----------------------------------------------------------------------------
(* A patch is a transaction                                                   *)

(* What the abstract specification sees of a state.                           *)
TFile ==
    IF calm /\ ~cut /\ Active # {} THEN call[CHOOSE c \in Active : TRUE].before ELSE file
TState == [p \in Proposals |-> IF proposal[p] = None THEN "NONE" ELSE proposal[p].state]
TApproved == {p \in Proposals : ApplyMay(p)}
TApplying == {p \in Proposals : \E c \in Active : call[c].op = "apply" /\ call[c].p = p}
TCalm == calm /\ ~cut
TVars == <<TFile, TState, TApproved, TApplying, TCalm>>

TNext == [Transaction!Next]_TVars

LEMMA StepDisturbs == ASSUME TCalm' = FALSE PROVE TNext
  BY DEF TNext, Transaction!Next, Transaction!Disturbed, TCalm

LEMMA StepStutters ==
    ASSUME UNCHANGED <<TFile, TState, TApproved, TApplying, TCalm>> PROVE TNext
  BY DEF TNext, TVars

LEMMA StepPreviews ==
    ASSUME NEW p \in Proposals, p \notin TApplying,
           TState' = [TState EXCEPT ![p] = "WAITING_FOR_APPROVAL"],
           TApproved' = TApproved \ {p}, UNCHANGED <<TFile, TApplying, TCalm>>
    PROVE  TNext
  BY DEF TNext, Transaction!Next, Transaction!Preview, Transaction!Become,
         TFile, TState, TApproved, TApplying, TCalm

LEMMA StepApproves ==
    ASSUME NEW p \in Proposals, TState[p] # "NONE", TState' = [TState EXCEPT ![p] = "APPROVED"],
           TApproved' = TApproved \cup {p}, UNCHANGED <<TFile, TApplying, TCalm>>
    PROVE  TNext
  BY DEF TNext, Transaction!Next, Transaction!Approve, Transaction!Become,
         TFile, TState, TApproved, TApplying, TCalm

LEMMA StepRejects ==
    ASSUME NEW p \in Proposals, TState[p] # "NONE", TState' = [TState EXCEPT ![p] = "REJECTED"],
           UNCHANGED <<TFile, TApproved, TApplying, TCalm>>
    PROVE  TNext
  BY DEF TNext, Transaction!Next, Transaction!Reject, Transaction!Become,
         TFile, TState, TApproved, TApplying, TCalm

LEMMA StepBegins ==
    ASSUME NEW p \in Proposals, p \in TApproved, TApplying = {}, TApplying' = {p},
           TState' = [TState EXCEPT ![p] = "APPLYING"], UNCHANGED <<TFile, TApproved, TCalm>>
    PROVE  TNext
  BY DEF TNext, Transaction!Next, Transaction!Begin, Transaction!Become,
         TFile, TState, TApproved, TApplying, TCalm

LEMMA StepCommits ==
    ASSUME NEW p \in Proposals, p \in TApproved, TApplying = {p}, TApplying' = {},
           TFile' = Transaction!Patched(p, TFile),
           TState' = [TState EXCEPT ![p] = "APPLIED"], UNCHANGED <<TApproved, TCalm>>
    PROVE  TNext
  BY DEF TNext, Transaction!Next, Transaction!Commit, Transaction!Become,
         TFile, TState, TApproved, TApplying, TCalm

LEMMA StepAborts ==
    ASSUME NEW p \in Proposals, TApplying = {p}, TApplying' = {},
           NEW s \in {"FAILED", "ROLLED_BACK"},
           TState' = [TState EXCEPT ![p] = s], UNCHANGED <<TFile, TApproved, TCalm>>
    PROVE  TNext
  BY DEF TNext, Transaction!Next, Transaction!Abort, Transaction!Become,
         TFile, TState, TApproved, TApplying, TCalm

LEMMA StepSaves ==
    ASSUME NEW f \in Files, NEW content \in Content, TApplying = {},
           TFile' = [TFile EXCEPT ![f] = content],
           UNCHANGED <<TState, TApproved, TApplying, TCalm>>
    PROVE  TNext
  BY DEF TNext, Transaction!Next, Transaction!Save, Content,
         TFile, TState, TApproved, TApplying, TCalm

LEMMA StepRestores ==
    ASSUME TApplying = {}, TFile' \in [Files -> Content],
           UNCHANGED <<TState, TApproved, TApplying, TCalm>>
    PROVE  TNext
  <1> DEFINE new == TFile'
  <1>1. new = [f \in Files |-> IF f \in Files THEN new[f] ELSE TFile[f]]
    OBVIOUS
  <1>2. \E fs \in SUBSET Files : \E saved \in [fs -> Content] :
            TFile' = [f \in Files |-> IF f \in fs THEN saved[f] ELSE TFile[f]]
    BY <1>1
  <1> QED
    BY <1>2 DEF TNext, Transaction!Next, Transaction!Restore, Content,
                TFile, TState, TApproved, TApplying, TCalm

LEMMA StepRestarts ==
    ASSUME TState' = [p \in Proposals |-> "NONE"], TApproved' = {}, TApplying = {},
           UNCHANGED <<TFile, TApplying, TCalm>>
    PROVE  TNext
  BY DEF TNext, Transaction!Next, Transaction!Restart,
         TFile, TState, TApproved, TApplying, TCalm

LEMMA WorkShows ==
    ASSUME Calm, calm, ~cut, NEW c \in Calls, call[c] # None
    PROVE  /\ TFile = call[c].before
           /\ TApplying = IF call[c].op = "apply" THEN {call[c].p} ELSE {}
           /\ \A d \in Calls \ {c} : call[d] = None
  <1>1. Active = {c} /\ \A d \in Calls \ {c} : call[d] = None
    BY DEF Calm, CalmSound, Alone, Active
  <1>2. call[c].op = "apply" => call[c].p \in Proposals
    BY CallIs DEF Calm, Approvals
  <1>3. TFile = call[c].before
    BY <1>1 DEF TFile
  <1> QED
    BY <1>1, <1>2, <1>3 DEF TApplying

LEMMA WorkShowsThen ==
    ASSUME calm', ~cut', NEW c \in Calls, call'[c] # None,
           \A d \in Calls \ {c} : call'[d] = None,
           call'[c].op = "apply" => call'[c].p \in Proposals
    PROVE  /\ TFile' = call'[c].before
           /\ TApplying' = IF call'[c].op = "apply" THEN {call'[c].p} ELSE {}
  <1>1. Active' = {c}
    BY DEF Active
  <1>2. TFile' = call'[c].before
    BY <1>1 DEF TFile
  <1> QED
    BY <1>1, <1>2 DEF TApplying

LEMMA IdleShows == ASSUME \A c \in Calls : call[c] = None PROVE TFile = file /\ TApplying = {}
  BY DEF TFile, TApplying, Active

LEMMA IdleShowsThen ==
    ASSUME \A c \in Calls : call'[c] = None PROVE TFile' = file' /\ TApplying' = {}
  BY DEF TFile, TApplying, Active

LEMMA ProposalsShow ==
    ASSUME proposal' = proposal PROVE TState' = TState /\ TApproved' = TApproved
  BY DEF TState, TApproved, ApplyMay

(* Only the state of a proposal is set.                                       *)
LEMMA StateShows ==
    ASSUME Typed, NEW p \in Proposals, proposal[p] # None, NEW s \in States,
           proposal' = [proposal EXCEPT ![p].state = s]
    PROVE  /\ TState' = [TState EXCEPT ![p] = s] /\ TState[p] # "NONE"
           /\ TApproved' = TApproved
  <1> DEFINE new == [proposal[p] EXCEPT !.state = s]
  <1>1. proposal[p] \in ProposalType
    BY DEF Typed, ProposalsTyped
  <1>2. /\ new \in ProposalType /\ new.state = s
        /\ new.version = proposal[p].version /\ new.approved = proposal[p].approved
    BY <1>1 DEF ProposalType
  <1>3. proposal'[p] = new /\ \A q \in Proposals \ {p} : proposal'[q] = proposal[q]
    BY DEF Typed, ProposalsTyped
  <1> HIDE DEF new
  <1>4. new # None
    BY <1>2, NoneAssumption
  <1>5. TState' = [TState EXCEPT ![p] = s]
    <2>1. ASSUME NEW q \in Proposals PROVE TState'[q] = IF q = p THEN s ELSE TState[q]
      BY <1>2, <1>3, <1>4 DEF TState
    <2>2. /\ TState = [q \in Proposals |-> TState[q]]
          /\ TState' = [q \in Proposals |-> TState'[q]]
      BY DEF TState
    <2> QED
      BY <2>1, <2>2
  <1>6. TState[p] # "NONE"
    BY <1>1 DEF TState, ProposalType, States
  <1>7. TApproved' = TApproved
    BY <1>2, <1>3, <1>4 DEF TApproved, ApplyMay
  <1> QED
    BY <1>5, <1>6, <1>7

(* Nothing is to be seen of a call that goes on.                              *)
LEMMA GoesOnUnseen ==
    ASSUME Calm, calm, ~cut, calm', ~cut', NEW c \in Calls, call[c] # None, call'[c] # None,
           SameWork(c), OthersStay(c), proposal' = proposal
    PROVE  TNext
  <1>1. /\ TFile = call[c].before
        /\ TApplying = IF call[c].op = "apply" THEN {call[c].p} ELSE {}
        /\ \A d \in Calls \ {c} : call[d] = None
    BY WorkShows
  <1>2. /\ call'[c].op = call[c].op /\ call'[c].p = call[c].p
        /\ call'[c].before = call[c].before
    BY DEF SameWork, SameFields
  <1>3. call'[c].op = "apply" => call'[c].p \in Proposals
    BY <1>2, CallIs DEF Calm, Approvals
  <1>4. /\ TFile' = call'[c].before
        /\ TApplying' = IF call'[c].op = "apply" THEN {call'[c].p} ELSE {}
    BY <1>1, <1>3, WorkShowsThen DEF OthersStay
  <1>5. TCalm' = TCalm
    BY DEF TCalm
  <1> QED
    BY <1>1, <1>2, <1>4, <1>5, ProposalsShow, StepStutters

(* The call at work ends.                                                     *)
LEMMA EndShows ==
    ASSUME Calm, calm, ~cut, NEW c \in Calls, call[c] # None, call'[c] = None, OthersStay(c)
    PROVE  TFile' = file' /\ TApplying' = {}
  <1>1. \A d \in Calls : call'[d] = None
    BY WorkShows DEF OthersStay
  <1> QED
    BY <1>1, IdleShowsThen

(* ... and leaves the files as they were: nothing is to be seen of it.        *)
LEMMA EndsUnseen ==
    ASSUME Calm, calm, ~cut, calm', ~cut', NEW c \in Calls, call[c] # None, call'[c] = None,
           OthersStay(c), call[c].op # "apply", file' = call[c].before, proposal' = proposal
    PROVE  TNext
  <1>1. TFile' = TFile /\ TApplying = {} /\ TApplying' = {}
    BY WorkShows, EndShows
  <1>2. TCalm' = TCalm
    BY DEF TCalm
  <1> QED
    BY <1>1, <1>2, ProposalsShow, StepStutters

(* ... with one file changed.                                                 *)
LEMMA EndsSaved ==
    ASSUME Calm, calm, ~cut, calm', ~cut', NEW c \in Calls, call[c] # None, call'[c] = None,
           OthersStay(c), call[c].op # "apply", proposal' = proposal,
           NEW f \in Files, NEW content \in Content,
           file' = [call[c].before EXCEPT ![f] = content]
    PROVE  TNext
  <1>1. TFile' = [TFile EXCEPT ![f] = content] /\ TApplying = {} /\ TApplying' = {}
    BY WorkShows, EndShows
  <1>2. TCalm' = TCalm
    BY DEF TCalm
  <1> QED
    BY <1>1, <1>2, ProposalsShow, StepSaves

(* A patch ends: its proposal is set to s.                                    *)
LEMMA PatchEnds ==
    ASSUME Calm, calm, ~cut, calm', ~cut', NEW c \in Calls, call[c] # None, call'[c] = None,
           OthersStay(c), call[c].op = "apply", call[c].held, NEW s \in States, SetState(c, s)
    PROVE  LET p == call[c].p IN
           /\ p \in Proposals /\ p \in TApproved
           /\ TApplying = {p} /\ TApplying' = {} /\ TFile = call[c].before /\ TFile' = file'
           /\ TState' = [TState EXCEPT ![p] = s] /\ UNCHANGED <<TApproved, TCalm>>
  <1> DEFINE p == call[c].p
  <1>1. p \in Proposals /\ ApplyMay(p)
    BY CallIs DEF Calm, Approvals, HeldApproved
  <1>2. proposal' = [proposal EXCEPT ![p].state = s] /\ proposal[p] # None
    BY <1>1 DEF SetState, ApplyMay
  <1>3. TState' = [TState EXCEPT ![p] = s] /\ TApproved' = TApproved
    BY <1>1, <1>2, StateShows DEF Calm, Approvals
  <1>4. TApplying = {p} /\ TApplying' = {} /\ TFile = call[c].before /\ TFile' = file'
    BY WorkShows, EndShows
  <1>5. TCalm' = TCalm /\ p \in TApproved
    BY <1>1 DEF TCalm, TApproved
  <1> QED
    BY <1>1, <1>3, <1>4, <1>5

Undisturbed == calm /\ ~cut /\ calm' /\ ~cut'

(* The steps of a restore point are not seen; a patch ends with its last change. *)
LEMMA IndexingUnseen ==
    ASSUME Calm, FileSound, Undisturbed, NEW c \in Calls,
           \/ MakePoint(c) \/ ReadIndex(c) \/ EmptyIndex(c) \/ FillIndex(c)
           \/ Clean(c) \/ FillCleaned(c)
    PROVE  TNext
  <1>1. /\ call[c] # None /\ file' = file /\ proposal' = proposal
        /\ call[c].at # "replace"
    BY DEF MakePoint, ReadIndex, EmptyIndex, FillIndex, Clean, FillCleaned, At, disk, memory
  <1>2. SameWork(c) /\ OthersStay(c)
    BY GoingOn DEF Goes, Calm, Approvals
  <1>3. CASE call'[c] # None
    BY <1>1, <1>2, <1>3, GoesOnUnseen DEF Undisturbed
  <1>4. CASE call'[c] = None
    <2>1. Typed
      BY DEF Calm, Approvals
    <2>2. \/ FillIndex(c) /\ ~MakesPoint(c)
          \/ PointMade(c) /\ call[c].op \notin {"apply", "save"}
      <3>1. ~MakePoint(c) /\ ~ReadIndex(c) /\ ~EmptyIndex(c)
        BY <1>4, <2>1, MakePointMoves, ReadIndexMoves, EmptyIndexMoves, MovedIsCall
      <3>2. ~(Clean(c) /\ TooMany(index))
        BY <1>4, <2>1, CleanMoves, MovedIsCall
      <3>3. ~(FillIndex(c) /\ MakesPoint(c))
        BY <1>4, <2>1, FillIndexMoves, MovedIsCall
      <3>4. PointMade(c) => call[c].op \notin {"apply", "save"}
        BY <1>1, <1>4, <2>1, PointMadeMoves, MovedIsCall
      <3> QED
        BY <3>1, <3>2, <3>3, <3>4 DEF Clean, FillCleaned
    <2>3. call[c].op \notin {"apply", "rollback"}
      <3>1. FillIndex(c) \/ Clean(c) \/ FillCleaned(c)
        BY <1>4, <2>1, MakePointMoves, ReadIndexMoves, EmptyIndexMoves, MovedIsCall
      <3>2. CallSound(call[c]) /\ call[c].at \in {"fill-index", "clean", "fill-clean"}
        BY <1>1, <2>1, <3>1, CallIs DEF FillIndex, Clean, FillCleaned, At
      <3> QED
        BY <2>2, <3>2 DEF CallSound, MakesPoint
    <2>4. file = call[c].before
      BY <1>1, <2>3, FilesNow DEF FilesSound, Undisturbed
    <2> QED
      BY <1>1, <1>2, <1>4, <2>3, <2>4, EndsUnseen DEF Undisturbed
  <1> QED
    BY <1>3, <1>4

LEMMA ChangeShows ==
    ASSUME Calm, FileSound, Undisturbed, NEW c \in Calls, Change(c) \/ Patch(c)
    PROVE  TNext
  <1> DEFINE k == call[c]
  <1>1. call[c] # None /\ k.at \in {"change", "patch"}
    BY DEF Change, Patch, At
  <1>2. SameWork(c) /\ OthersStay(c)
    BY GoingOn DEF Goes, Calm, Approvals
  <1>3. \/ call'[c] # None /\ proposal' = proposal
        \/ /\ call'[c] = None /\ SetState(c, "APPLIED") /\ file' = file
           /\ k.i > Len(Changes[k.p]) /\ k.at = "change"
    BY ChangeMoves, MovedIsCall DEF Calm, Approvals
  <1>4. CASE call'[c] # None /\ proposal' = proposal
    BY <1>1, <1>2, <1>4, GoesOnUnseen DEF Undisturbed
  <1>5. CASE /\ call'[c] = None /\ SetState(c, "APPLIED") /\ file' = file
             /\ k.i > Len(Changes[k.p]) /\ k.at = "change"
    <2>1. FilesSound(k, file) /\ k.before \in [Files -> Content]
      BY <1>1, FilesNow DEF Undisturbed
    <2>2. k.op = "apply" /\ ApplySound(k) /\ k.i \in Nat /\ k.i > 0
      BY AtPatch DEF Change, Patch, Calm, Approvals
    <2>3. k.p \in Proposals /\ k.i <= Len(Changes[k.p]) + 1
      BY <2>2 DEF ApplySound
    <2>4. k.i - 1 = Len(Changes[k.p])
      <3>1. Len(Changes[k.p]) \in Nat
        BY <2>3, FilesOfProposal
      <3> QED
        BY <1>5, <2>2, <2>3, <3>1
    <2>5. file = Transaction!Patched(k.p, k.before)
      BY <1>5, <2>1, <2>2, <2>3, <2>4, HalfwayIs DEF FilesSound
    <2>6. k.held /\ "APPLIED" \in States
      BY <2>1 DEF FilesSound, States
    <2>7. /\ k.p \in TApproved /\ TApplying = {k.p} /\ TApplying' = {}
          /\ TFile = k.before /\ TFile' = file'
          /\ TState' = [TState EXCEPT ![k.p] = "APPLIED"] /\ UNCHANGED <<TApproved, TCalm>>
      BY <1>1, <1>2, <1>5, <2>2, <2>6, PatchEnds DEF Undisturbed
    <2> HIDE DEF k
    <2>8. TFile' = Transaction!Patched(k.p, TFile)
      BY <1>5, <2>5, <2>7
    <2> QED
      BY <2>3, <2>7, <2>8, StepCommits
  <1> QED
    BY <1>3, <1>4, <1>5

LEMMA PutShows ==
    ASSUME Calm, FileSound, Undisturbed, NEW c \in Calls, Put(c) PROVE TNext
  <1> DEFINE k == call[c]
  <1>1. call[c] # None /\ k.at \in {"put", "replace"} /\ proposal' = proposal
        /\ file' = [file EXCEPT ![k.f] = k.content]
    BY DEF Put, At, memory
  <1>2. OthersStay(c) /\ call'[c] = None
    BY BecomesIs DEF Put, End, Calm, Approvals
  <1>3. FilesSound(k, file) /\ k.before \in [Files -> Content]
    BY <1>1, FilesNow DEF Undisturbed
  <1>4. k.op = "save" /\ k.f \in Files /\ k.content \in Content
    BY AtPut DEF Put, SaveSound, Calm, Approvals
  <1>5. file' = [k.before EXCEPT ![k.f] = k.content]
    <2> HIDE DEF k
    <2>1. file = k.before \/ file = [k.before EXCEPT ![k.f] = Absent]
      BY <1>1, <1>3, <1>4 DEF FilesSound
    <2> QED
      BY <1>1, <1>3, <1>4, <2>1
  <1>6. k.op # "apply"
    BY <1>4
  <1>7. ASSUME NEW f \in Files, NEW content \in Content,
               file' = [k.before EXCEPT ![f] = content]
        PROVE  TNext
    BY <1>1, <1>2, <1>6, <1>7, EndsSaved DEF Undisturbed
  <1> QED
    BY <1>4, <1>5, <1>7

LEMMA RestoreShows ==
    ASSUME Calm, FileSound, Undisturbed, NEW c \in Calls, NEW f \in Files, RestoreFile(c, f)
    PROVE  TNext
  <1> DEFINE k == call[c]
  <1>1. /\ call[c] # None /\ k.at = "restore" /\ f \in DOMAIN k.saved
        /\ At(c, "restore") /\ Restored(c, f)
        /\ file' = [file EXCEPT ![f] = k.saved[f]]
    BY DEF RestoreFile, At
  <1>2. SameWork(c) /\ OthersStay(c)
    BY GoingOn DEF Goes, Calm, Approvals
  <1>3. \/ call'[c] # None /\ proposal' = proposal
        \/ /\ DOMAIN k.saved \ {f} = {} /\ call'[c] = None
           /\ IF k.op = "apply" THEN SetState(c, "ROLLED_BACK") ELSE proposal' = proposal
    BY <1>1, RestoredMoves, MovedIsCall DEF Calm, Approvals
  <1>4. CASE call'[c] # None /\ proposal' = proposal
    BY <1>1, <1>2, <1>4, GoesOnUnseen DEF Undisturbed
  <1>5. /\ FilesSound(k, file) /\ k.before \in [Files -> Content] /\ k \in CallType
        /\ file \in [Files -> Content]
    BY <1>1, FilesNow DEF Undisturbed
  <1>6. CASE /\ DOMAIN k.saved \ {f} = {} /\ call'[c] = None
             /\ k.op = "apply" /\ SetState(c, "ROLLED_BACK")
    <2>1. k.held /\ "ROLLED_BACK" \in States
      BY <1>5 DEF FilesSound, States
    <2>2. ASSUME NEW h \in Files PROVE file'[h] = k.before[h]
      <3>1. IF h \in DOMAIN k.saved THEN k.saved[h] = k.before[h] ELSE file[h] = k.before[h]
        BY <1>1, <1>5, <1>6 DEF FilesSound
      <3> QED
        BY <1>1, <1>5, <1>6, <3>1
    <2>3. file' = k.before
      BY <1>1, <1>5, <2>2
    <2>4. /\ k.p \in Proposals /\ TApplying = {k.p} /\ TApplying' = {}
          /\ TFile = k.before /\ TFile' = file'
          /\ TState' = [TState EXCEPT ![k.p] = "ROLLED_BACK"] /\ UNCHANGED <<TApproved, TCalm>>
      BY <1>1, <1>2, <1>6, <2>1, PatchEnds DEF Undisturbed
    <2> QED
      BY <2>3, <2>4, StepAborts
  <1>7. CASE call'[c] = None /\ k.op # "apply" /\ proposal' = proposal
    <2>1. TFile' = file' /\ TApplying' = {} /\ TApplying = {}
      BY <1>1, <1>2, <1>7, EndShows, WorkShows DEF Undisturbed
    <2>2. file' \in [Files -> Content]
      <3>1. k.saved[f] \in Content
        BY <1>1, <1>5, FileMapsAre DEF CallType
      <3> QED
        BY <1>1, <1>5, <3>1
    <2>3. TCalm' = TCalm
      BY DEF TCalm, Undisturbed
    <2> QED
      BY <1>7, <2>1, <2>2, <2>3, ProposalsShow, StepRestores
  <1> QED
    BY <1>3, <1>4, <1>6, <1>7

LEMMA FaultShows ==
    ASSUME Calm, FileSound, Undisturbed, NEW c \in Calls, Fault(c) PROVE TNext
  <1> DEFINE k == call[c]
  <1>1. call[c] # None /\ SameWork(c) /\ OthersStay(c) /\ Typed
    BY GoingOn DEF Fault, Refused, ApplyFails, RemoveTarget, CallFails, RestoreFails, At,
                   Calm, Approvals
  <1>2. /\ FilesSound(k, file) /\ k.before \in [Files -> Content] /\ k \in CallType
        /\ CallSound(k) /\ k.op \in Ops
    BY <1>1, FilesNow DEF Undisturbed
  <1>3. CASE Refused(c)
    <2>1. /\ k.op = "apply" /\ k.i = 0 /\ SetState(c, "FAILED") /\ file' = file
          /\ call'[c] = None
      BY <1>1, <1>3, BecomesIs DEF Refused, disk, End
    <2>2. k.held /\ file = k.before /\ "FAILED" \in States
      BY <1>2, <2>1 DEF FilesSound, States
    <2>3. /\ k.p \in Proposals /\ TApplying = {k.p} /\ TApplying' = {}
          /\ TFile = k.before /\ TFile' = file'
          /\ TState' = [TState EXCEPT ![k.p] = "FAILED"] /\ UNCHANGED <<TApproved, TCalm>>
      BY <1>1, <2>1, <2>2, PatchEnds DEF Undisturbed
    <2> QED
      BY <2>1, <2>2, <2>3, StepAborts
  <1>4. CASE ApplyFails(c)
    <2>1. k.op = "apply" /\ k.i # 0 /\ proposal' = proposal
      BY <1>1, <1>4, CallIs DEF ApplyFails, memory
    <2>2. k.point > 0 /\ CallSafe(k, file, points, index)
      BY <1>1, <2>1, AtChanges, CalmNow DEF Calm, Undisturbed
    <2>3. k.point \in DOMAIN points
      BY <2>2 DEF CallSafe, PointHolds
    <2>4. call'[c] # None
      BY <1>1, <1>4, <2>3, ApplyFailsMoves, MovedIsCall
    <2> QED
      BY <1>1, <2>1, <2>4, GoesOnUnseen DEF Undisturbed
  <1>5. CASE RemoveTarget(c)
    <2>1. call'[c] # None /\ proposal' = proposal
      BY <1>1, <1>5, RemoveTargetMoves, MovedIsCall DEF RemoveTarget, memory
    <2> QED
      BY <1>1, <2>1, GoesOnUnseen DEF Undisturbed
  <1>6. CASE CallFails(c)
    <2>1. /\ k.op \notin {"apply", "rollback"} /\ file' = file /\ proposal' = proposal
          /\ call'[c] = None
      BY <1>1, <1>6, BecomesIs DEF CallFails, End, disk, memory
    <2>2. CASE k.at = "replace"
      <3>1. k.f \in Files
        BY <1>1, <2>2, AtPut DEF At, SaveSound
      <3>2. file' = [k.before EXCEPT ![k.f] = Absent] /\ Absent \in Content
        BY <1>2, <2>1, <2>2 DEF FilesSound, Content
      <3> QED
        BY <1>1, <2>1, <3>1, <3>2, EndsSaved DEF Undisturbed
    <2>3. CASE k.at # "replace"
      <3>1. file' = k.before
        BY <1>2, <2>1, <2>3 DEF FilesSound
      <3> QED
        BY <1>1, <2>1, <3>1, EndsUnseen DEF Undisturbed
    <2> QED
      BY <2>2, <2>3
  <1>7. ASSUME NEW f \in Files PROVE ~RestoreFails(c, f)
    BY DEF RestoreFails, Undisturbed
  <1> QED
    BY <1>3, <1>4, <1>5, <1>6, <1>7 DEF Fault

LEMMA RequestShows ==
    ASSUME Calm, Undisturbed, NEW c \in Calls, Request(c) PROVE TNext
  <1>1. PICK op \in Ops, at \in Places \ {"read-index"} : \E k :
              /\ Fresh(k, op, at) /\ Begin(c, k) /\ call'[c] = k /\ OthersStay(c)
              /\ UNCHANGED <<file, index>>
              /\ op = "apply" => /\ at = "read" /\ BeginApply(c, k.p) /\ k.p \in Proposals
              /\ op # "apply" => proposal' = proposal
    BY RequestIs DEF Calm, Approvals
  <1>2. PICK k : /\ Fresh(k, op, at) /\ Begin(c, k) /\ call'[c] = k /\ OthersStay(c)
                 /\ file' = file
                 /\ op = "apply" => BeginApply(c, k.p) /\ k.p \in Proposals
                 /\ op # "apply" => proposal' = proposal
    BY <1>1
  <1>3. \A d \in Calls : call[d] = None
    BY <1>2 DEF Begin, Active, Undisturbed
  <1>4. TFile = file /\ TApplying = {}
    BY <1>3, IdleShows
  <1>5. k # None /\ k.op = op /\ k.before = file
    BY <1>2, NoneAssumption DEF Fresh
  <1>6. TFile' = file /\ TApplying' = IF op = "apply" THEN {k.p} ELSE {}
    <2>1. /\ call'[c] # None /\ \A d \in Calls \ {c} : call'[d] = None
          /\ call'[c].op = "apply" => call'[c].p \in Proposals
      BY <1>2, <1>3, <1>5 DEF OthersStay
    <2> QED
      BY <1>2, <1>5, <2>1, WorkShowsThen DEF Undisturbed
  <1>7. TCalm' = TCalm
    BY DEF TCalm, Undisturbed
  <1>8. CASE op = "apply"
    <2>1. /\ ApplyMay(k.p) /\ k.p \in Proposals
          /\ proposal' = [proposal EXCEPT ![k.p].state = "APPLYING"]
      BY <1>2, <1>8 DEF BeginApply
    <2>2. "APPLYING" \in States /\ proposal[k.p] # None /\ k.p \in TApproved
      BY <2>1 DEF States, ApplyMay, TApproved
    <2>3. TState' = [TState EXCEPT ![k.p] = "APPLYING"] /\ TApproved' = TApproved
      BY <2>1, <2>2, StateShows DEF Calm, Approvals
    <2> QED
      BY <1>4, <1>6, <1>7, <1>8, <2>1, <2>2, <2>3, StepBegins
  <1>9. CASE op # "apply"
    BY <1>2, <1>4, <1>6, <1>7, <1>9, ProposalsShow, StepStutters
  <1> QED
    BY <1>8, <1>9

LEMMA UndoShows ==
    ASSUME Calm, Undisturbed, NEW f \in Files, Undo(f) PROVE TNext
  <1>1. /\ \A c \in Calls : call[c] = None /\ call'[c] = None
        /\ proposal' = proposal /\ snapshot[f] # None
        /\ file' = [file EXCEPT ![f] = snapshot[f].content]
    BY DEF Undo, Active, Undisturbed
  <1>2. TFile = file /\ TApplying = {} /\ TFile' = file' /\ TApplying' = {}
    BY <1>1, IdleShows, IdleShowsThen
  <1>3. snapshot[f].content \in Content
    BY <1>1 DEF Calm, Approvals, Typed, SnapshotsTyped, SnapshotType
  <1>4. TCalm' = TCalm
    BY DEF TCalm, Undisturbed
  <1>5. TFile' = [TFile EXCEPT ![f] = snapshot[f].content]
    BY <1>1, <1>2
  <1> QED
    BY <1>1, <1>2, <1>3, <1>4, <1>5, ProposalsShow, StepSaves

(* A user's step: the calls and the files stay as they are.                   *)
LEMMA CallsShow ==
    ASSUME \A c \in Calls : call'[c] = call[c], file' = file, Undisturbed
    PROVE  UNCHANGED <<TFile, TApplying, TCalm>>
  <1>1. Active' = Active
    BY DEF Active
  <1>2. TApplying' = TApplying
    BY <1>1 DEF TApplying, Active
  <1>3. TFile' = TFile
    <2>1. CASE Active = {}
      BY <1>1, <2>1 DEF TFile
    <2>2. CASE Active # {}
      <3>1. (CHOOSE c \in Active : TRUE) \in Calls
        BY <2>2 DEF Active
      <3> QED
        BY <1>1, <2>2, <3>1 DEF TFile, Undisturbed
    <2> QED
      BY <2>1, <2>2
  <1> QED
    BY <1>2, <1>3 DEF TCalm, Undisturbed

LEMMA UserShows ==
    ASSUME Calm, Calm', Undisturbed, NEW p \in Proposals,
           \/ Preview(p)
           \/ \E v \in [FilesOf(p) -> 1..snaps] : Approve(p, v)
           \/ Reject(p)
    PROVE  TNext
  <1>1. \A c \in Calls : call'[c] = call[c]
    BY DEF Preview, Approve, Reject, Active, Undisturbed
  <1>2. file' = file
    BY DEF Preview, Approve, Reject, disk
  <1>3. UNCHANGED <<TFile, TApplying, TCalm>>
    BY <1>1, <1>2, CallsShow
  <1>4. /\ proposal \in [Proposals -> ProposalType \cup {None}]
        /\ proposal' \in [Proposals -> ProposalType \cup {None}]
    BY DEF Calm, Approvals, Typed, ProposalsTyped
  <1>5. CASE Reject(p)
    <2>1. /\ proposal[p] # None /\ "REJECTED" \in States
          /\ proposal' = [proposal EXCEPT ![p].state = "REJECTED"]
      BY <1>5 DEF Reject, States
    <2> QED
      BY <1>3, <2>1, StateShows, StepRejects DEF Calm, Approvals
  <1>6. ASSUME NEW v \in [FilesOf(p) -> 1..snaps], Approve(p, v) PROVE TNext
    <2> DEFINE new == [proposal[p] EXCEPT !.approved = v, !.state = "APPROVED"]
    <2>1. proposal[p] \in ProposalType /\ proposal[p].version = v /\ proposal[p] # None
      BY <1>4, <1>6 DEF Approve
    <2>2. new.state = "APPROVED" /\ new.approved = v /\ new.version = v
      BY <2>1 DEF ProposalType
    <2>3. proposal' = [proposal EXCEPT ![p] = new]
      BY <1>6 DEF Approve
    <2> HIDE DEF new
    <2>4. proposal'[p] = new /\ \A q \in Proposals \ {p} : proposal'[q] = proposal[q]
      BY <1>4, <2>3
    <2>5. new # None
      <3>1. v \in Versions /\ "APPROVED" \in States
        BY <2>1 DEF ProposalType, States
      <3>2. new \in ProposalType
        BY <2>1, <3>1 DEF new, ProposalType
      <3> QED
        BY <3>2, NoneAssumption
    <2>6. TState' = [TState EXCEPT ![p] = "APPROVED"] /\ TState[p] # "NONE"
      <3>1. ASSUME NEW q \in Proposals
            PROVE  TState'[q] = IF q = p THEN "APPROVED" ELSE TState[q]
        BY <2>2, <2>4, <2>5 DEF TState
      <3>2. /\ TState = [q \in Proposals |-> TState[q]]
            /\ TState' = [q \in Proposals |-> TState'[q]]
        BY DEF TState
      <3>3. TState[p] # "NONE"
        BY <2>1 DEF TState, ProposalType, States
      <3> QED
        BY <3>1, <3>2, <3>3
    <2>7. TApproved' = TApproved \cup {p}
      BY <2>2, <2>4, <2>5 DEF TApproved, ApplyMay
    <2> QED
      BY <1>3, <2>6, <2>7, StepApproves
  <1>7. CASE Preview(p)
    <2>1. p \notin TApplying
      BY <1>7 DEF Preview, TApplying, Undisturbed
    <2>2. PICK new \in ProposalType :
              /\ proposal' = [proposal EXCEPT ![p] = new]
              /\ new.state = "WAITING_FOR_APPROVAL" /\ new.approved = None
      BY <1>7, PreviewIs DEF Calm, Approvals
    <2>3. new # None /\ new.version # None
      BY NoneAssumption DEF ProposalType
    <2>4. proposal'[p] = new /\ \A q \in Proposals \ {p} : proposal'[q] = proposal[q]
      BY <1>4, <2>2
    <2>5. TState' = [TState EXCEPT ![p] = "WAITING_FOR_APPROVAL"]
      <3>1. ASSUME NEW q \in Proposals
            PROVE  TState'[q] = IF q = p THEN "WAITING_FOR_APPROVAL" ELSE TState[q]
        BY <2>2, <2>3, <2>4 DEF TState
      <3>2. /\ TState = [q \in Proposals |-> TState[q]]
            /\ TState' = [q \in Proposals |-> TState'[q]]
        BY DEF TState
      <3> QED
        BY <3>1, <3>2
    <2>6. TApproved' = TApproved \ {p}
      BY <2>2, <2>3, <2>4 DEF TApproved, ApplyMay
    <2> QED
      BY <1>3, <2>1, <2>5, <2>6, StepPreviews
  <1> QED
    BY <1>5, <1>6, <1>7

LEMMA CrashShows == ASSUME Undisturbed, Crash PROVE TNext
  <1>1. \A c \in Calls : call[c] = None /\ call'[c] = None
    BY DEF Crash, Active, Undisturbed
  <1>2. /\ TFile = file /\ TApplying = {} /\ TFile' = file' /\ TApplying' = {}
        /\ file' = file /\ proposal' = [p \in Proposals |-> None]
    BY <1>1, IdleShows, IdleShowsThen DEF Crash, disk
  <1>3. TState' = [p \in Proposals |-> "NONE"] /\ TApproved' = {}
    BY <1>2 DEF TState, TApproved, ApplyMay
  <1>4. TCalm' = TCalm
    BY DEF TCalm, Undisturbed
  <1> QED
    BY <1>2, <1>3, <1>4, StepRestarts

(* Calls that were disturbed or cut off stay so.                              *)
LEMMA StaysUndisturbed ==
    ASSUME Calm, Next, calm', ~cut' PROVE Undisturbed
  <1>1. ASSUME NEW c \in Calls, Goes(c) \/ Fault(c) PROVE Undisturbed
    <2>1. calm' = calm
      BY <1>1 DEF Goes, Fault, MakePoint, ReadIndex, EmptyIndex, FillIndex, Clean, FillCleaned,
         Change, Patch, Put, RestoreFile, Refused, ApplyFails, RemoveTarget, CallFails,
         RestoreFails
    <2>2. CASE Goes(c)
      <3>1. cut' = cut
        BY <2>2 DEF Goes, MakePoint, ReadIndex, EmptyIndex, FillIndex, Clean, FillCleaned,
                    Change, Patch, Put, RestoreFile
      <3> QED
        BY <2>1, <3>1 DEF Undisturbed
    <2>3. CASE Fault(c)
      <3>1. cut' = cut \/ cut' = TRUE
        BY <2>3 DEF Fault, Refused, ApplyFails, RemoveTarget, CallFails, RestoreFails
      <3> QED
        BY <2>1, <3>1 DEF Undisturbed
    <2> QED
      BY <1>1, <2>2, <2>3
  <1>2. ASSUME NEW c \in Calls, Request(c) PROVE Undisturbed
    <2>1. calm' = (calm /\ Active = {})
      BY <1>2 DEF Request, BeginApply, BeginPoint, BeginSave, BeginRollback, BeginDelete,
                  BeginCleanup, BeginList, BeginRebuild, Begin
    <2>2. cut' = cut
      BY <1>2 DEF Request, BeginApply, BeginPoint, BeginSave, BeginRollback, BeginDelete,
                  BeginCleanup, BeginList, BeginRebuild
    <2> QED
      BY <2>1, <2>2 DEF Undisturbed
  <1>3. ASSUME NEW p \in Proposals,
               \/ Preview(p)
               \/ \E v \in [FilesOf(p) -> 1..snaps] : Approve(p, v)
               \/ Reject(p)
        PROVE  Undisturbed
    <2>1. cut' = cut
      BY <1>3 DEF Preview, Approve, Reject
    <2>2. CASE Preview(p)
      <3>1. calm' = (calm /\ \A c \in Active : call[c].p # p)
        BY <2>2 DEF Preview
      <3> QED
        BY <2>1, <3>1 DEF Undisturbed
    <2>3. CASE ~Preview(p)
      <3>1. calm' = calm
        BY <1>3, <2>3 DEF Approve, Reject
      <3> QED
        BY <2>1, <3>1 DEF Undisturbed
    <2> QED
      BY <2>2, <2>3
  <1>4. ASSUME NEW f \in Files, Undo(f) PROVE Undisturbed
    BY <1>4 DEF Undo, Undisturbed
  <1>5. CASE Crash
    BY <1>5 DEF Crash, Undisturbed
  <1> QED
    BY <1>1, <1>2, <1>3, <1>4, <1>5 DEF Next, Step

(* Every step is one of the coordinator's promise, or changes nothing it shows. *)
LEMMA TransactionStep ==
    ASSUME Calm, Calm', FileSound, [Next]_vars PROVE TNext
  <1>1. CASE UNCHANGED vars
    <2>1. UNCHANGED <<file, proposal, call, calm, cut>>
      BY <1>1 DEF vars, disk, memory
    <2>2. Active' = Active
      BY <2>1 DEF Active
    <2>3. UNCHANGED <<TFile, TApplying, TCalm>>
      BY <2>1, <2>2 DEF TFile, TApplying, TCalm
    <2> QED
      BY <2>1, <2>3, ProposalsShow, StepStutters
  <1>2. CASE Next /\ ~(calm' /\ ~cut')
    BY <1>2, StepDisturbs DEF TCalm
  <1>3. CASE Next /\ calm' /\ ~cut'
    <2>1. Undisturbed
      BY <1>3, StaysUndisturbed
    <2>2. ASSUME NEW p \in Proposals,
                 \/ Preview(p)
                 \/ \E v \in [FilesOf(p) -> 1..snaps] : Approve(p, v)
                 \/ Reject(p)
          PROVE  TNext
      BY <2>1, <2>2, UserShows
    <2>3. ASSUME NEW f \in Files, Undo(f) PROVE TNext
      BY <2>1, <2>3, UndoShows
    <2>4. ASSUME NEW c \in Calls, Request(c) PROVE TNext
      BY <2>1, <2>4, RequestShows
    <2>5. ASSUME NEW c \in Calls, Goes(c) PROVE TNext
      BY <2>1, <2>5, IndexingUnseen, ChangeShows, PutShows, RestoreShows DEF Goes
    <2>6. ASSUME NEW c \in Calls, Fault(c) PROVE TNext
      BY <2>1, <2>6, FaultShows
    <2>7. CASE Crash
      BY <2>1, <2>7, CrashShows
    <2> QED
      BY <1>3, <2>2, <2>3, <2>4, <2>5, <2>6, <2>7 DEF Next, Step
  <1> QED
    BY <1>1, <1>2, <1>3

LEMMA TransactionInit == Init => Transaction!Init
  <1> SUFFICES ASSUME Init PROVE Transaction!Init
    OBVIOUS
  <1>1. /\ \A c \in Calls : call[c] = None
        /\ proposal = [p \in Proposals |-> None] /\ calm = TRUE /\ cut = FALSE
        /\ file \in [Files -> Contents \cup {Absent}]
    BY PatchBoundsAssumption DEF Init, Content
  <1>2. TFile = file /\ TApplying = {} /\ TCalm = TRUE
    BY <1>1, IdleShows DEF TCalm
  <1>3. TState = [p \in Proposals |-> "NONE"] /\ TApproved = {}
    BY <1>1 DEF TState, TApproved, ApplyMay
  <1> QED
    BY <1>1, <1>2, <1>3 DEF Transaction!Init, TFile, TState, TApproved, TApplying, TCalm

LEMMA FileInit == Init => FileSound
  BY DEF Init, FileSound

(* As long as calls do not disturb each other and none is cut off, a patch    *)
(* takes effect as a whole, when its call ends, or not at all: the files it   *)
(* changes one by one are those it will have changed, and what it rolls back  *)
(* to is what the files contained when it began.                              *)
THEOREM PatchesAreTransactions == Spec => PatchIsTransaction
  <1>1. Init => Calm /\ FileSound
    BY ApprovalsInit, CalmInit, FileInit DEF Calm
  <1>2. Calm /\ FileSound /\ [Next]_vars => Calm' /\ FileSound'
    BY ApprovalsStep, CalmStep, FileStep DEF Calm
  <1>3. Calm /\ FileSound /\ Calm' /\ [Next]_vars => TNext
    BY TransactionStep
  <1> QED
    BY <1>1, <1>2, <1>3, TransactionInit, PTL
       DEF Spec, PatchIsTransaction, Transaction!Spec, TNext, TVars,
           TFile, TState, TApproved, TApplying, TCalm
=============================================================================
