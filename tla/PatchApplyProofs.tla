-------------------------- MODULE PatchApplyProofs --------------------------
(* Proofs about PatchApply, for any number of files, proposals, changes and   *)
(* calls, and for any bounds: type correctness, and that only what was        *)
(* approved is ever applied.  What every operation makes of the call that     *)
(* takes it (RequestIs for the calls that begin, GoingOn for the others) is   *)
(* stated here once; PatchRestoreProofs uses it for the restore points and for *)
(* the refinement.                                                            *)
(*                                                                            *)
(* Only is a recursive function, and what it computes is shown without        *)
(* induction: a shortest index on which it goes wrong would have a shorter one *)
(* (Least, from WellFoundedInduction's WFMin).                                *)
EXTENDS PatchApply, WellFoundedInduction, FiniteSetTheorems, TLAPS

-----------------------------------------------------------------------------
(* Sequences of restore point ids                                             *)

Decreasing(ids) == \A i, j \in DOMAIN ids : i < j => ids[i] > ids[j]

(* A set of numbers that is not empty has a smallest one.                     *)
LEMMA Least == ASSUME NEW T, T \subseteq Nat, T # {}
               PROVE  \E m \in T : \A k \in T : m <= k
  <1>1. IsWellFoundedOn(OpToRel(<, Nat), Nat)
    BY NatLessThanWellFounded
  <1>2. \E m \in T : \A k \in T : <<k, m>> \notin OpToRel(<, Nat)
    BY <1>1, WFMin, Zenon
  <1>3. \A k, m \in Nat : <<k, m>> \notin OpToRel(<, Nat) => m <= k
    BY DEF OpToRel
  <1> QED
    BY <1>2, <1>3

(* h is how far Only has come with each of the first n entries of ids.        *)
OnlyUpTo(h, ids, S, n) ==
    h = [m \in 0..n |-> IF m = 0 THEN <<>>
                        ELSE IF ids[m] \in S THEN Append(h[m - 1], ids[m]) ELSE h[m - 1]]

LEMMA OnlyUpToExists ==
    ASSUME NEW ids, NEW S, NEW n \in Nat PROVE \E h : OnlyUpTo(h, ids, S, n)
  <1> DEFINE Bad == {m \in Nat : ~ \E h : OnlyUpTo(h, ids, S, m)}
  <1> SUFFICES ASSUME Bad # {} PROVE FALSE
    OBVIOUS
  <1>1. PICK m \in Bad : \A k \in Bad : m <= k
    <2>1. Bad \subseteq Nat
      OBVIOUS
    <2> HIDE DEF Bad
    <2> QED
      BY <2>1, Least
  <1>2. CASE m = 0
    <2>1. OnlyUpTo([k \in 0..0 |-> <<>>], ids, S, 0)
      BY DEF OnlyUpTo
    <2> QED
      BY <1>1, <1>2, <2>1
  <1>3. CASE m # 0
    <2>1. m - 1 \in Nat /\ m - 1 \notin Bad
      BY <1>1, <1>3
    <2>2. PICK g : OnlyUpTo(g, ids, S, m - 1)
      BY <2>1
    <2> DEFINE next == IF ids[m] \in S THEN Append(g[m - 1], ids[m]) ELSE g[m - 1]
               h == [k \in 0..m |-> IF k = m THEN next ELSE g[k]]
    <2>3. \A k \in 0..m : h[k] = IF k = m THEN next ELSE g[k]
      OBVIOUS
    <2>4. \A k \in 0..(m - 1) : g[k] =
              IF k = 0 THEN <<>>
              ELSE IF ids[k] \in S THEN Append(g[k - 1], ids[k]) ELSE g[k - 1]
      BY <2>2 DEF OnlyUpTo
    <2>5. h = [k \in 0..m |-> h[k]]
      OBVIOUS
    <2> HIDE DEF h
    <2>6. \A k \in 0..m : h[k] =
              IF k = 0 THEN <<>>
              ELSE IF ids[k] \in S THEN Append(h[k - 1], ids[k]) ELSE h[k - 1]
      BY <1>3, <2>1, <2>3, <2>4
    <2>7. OnlyUpTo(h, ids, S, m)
      BY <2>5, <2>6 DEF OnlyUpTo
    <2> QED
      BY <1>1, <2>7
  <1> QED
    BY <1>2, <1>3

LEMMA OnlyUnfolds ==
    ASSUME NEW T, NEW ids \in Seq(T), NEW S
    PROVE  \E h : OnlyUpTo(h, ids, S, Len(ids)) /\ Only(ids, S) = h[Len(ids)]
  <1> DEFINE upTo == CHOOSE h : OnlyUpTo(h, ids, S, Len(ids))
  <1>1. OnlyUpTo(upTo, ids, S, Len(ids))
    <2>1. Len(ids) \in Nat
      OBVIOUS
    <2> QED
      BY <2>1, OnlyUpToExists, Zenon
  <1>2. Only(ids, S) = upTo[Len(ids)]
    BY DEF Only, OnlyUpTo
  <1> QED
    BY <1>1, <1>2

(* What Only is for: the entries that are in S, in the order of ids.          *)
LEMMA OnlyKeeps ==
    ASSUME NEW T, NEW ids \in Seq(T), NEW S
    PROVE  /\ Only(ids, S) \in Seq(T)
           /\ Len(Only(ids, S)) <= Len(ids)
           /\ ToSet(Only(ids, S)) = ToSet(ids) \cap S
           /\ T \subseteq Nat /\ Decreasing(ids) => Decreasing(Only(ids, S))
  <1> DEFINE len == Len(ids)
  <1>1. len \in Nat /\ \A n \in 1..len : ids[n] \in T
    OBVIOUS
  <1>2. PICK h : OnlyUpTo(h, ids, S, len) /\ Only(ids, S) = h[len]
    BY OnlyUnfolds
  <1>3. \A k \in 0..len : h[k] =
            IF k = 0 THEN <<>> ELSE IF ids[k] \in S THEN Append(h[k - 1], ids[k]) ELSE h[k - 1]
    BY <1>2 DEF OnlyUpTo
  <1>4. DOMAIN ids = 1..len
    OBVIOUS
  <1> DEFINE Good(n) ==
               /\ h[n] \in Seq(T)
               /\ Len(h[n]) <= n
               /\ \A i \in 1..Len(h[n]) : \E j \in 1..n : h[n][i] = ids[j] /\ ids[j] \in S
               /\ \A j \in 1..n : ids[j] \in S => \E i \in 1..Len(h[n]) : h[n][i] = ids[j]
               /\ T \subseteq Nat /\ Decreasing(ids) =>
                      \A i, j \in 1..Len(h[n]) : i < j => h[n][i] > h[n][j]
             Bad == {n \in 0..len : ~Good(n)}
  <1> HIDE DEF len, Good
  <1>5. Bad = {}
    <2> SUFFICES ASSUME Bad # {} PROVE FALSE
      OBVIOUS
    <2>1. PICK n \in Bad : \A k \in Bad : n <= k
      <3>1. Bad \subseteq Nat
        BY <1>1
      <3> HIDE DEF Bad
      <3> QED
        BY <3>1, Least
    <2>2. CASE n = 0
      <3>1. h[0] = <<>>
        BY <1>1, <1>3
      <3>2. Good(0)
        BY <3>1 DEF Good
      <3> QED
        BY <2>1, <2>2, <3>2
    <2>3. CASE n # 0
      <3>1. n \in 1..len /\ n - 1 \in 0..len /\ n - 1 \notin Bad /\ ids[n] \in T
        BY <1>1, <2>1, <2>3
      <3>2. Good(n - 1)
        BY <3>1
      <3>3. h[n] = IF ids[n] \in S THEN Append(h[n - 1], ids[n]) ELSE h[n - 1]
        BY <1>3, <3>1
      <3> DEFINE old == h[n - 1]
                 new == h[n]
      <3> HIDE DEF Bad
      <3>4. old \in Seq(T) /\ Len(old) \in Nat /\ Len(old) <= n - 1
        BY <3>2 DEF Good
      <3>5. new = IF ids[n] \in S THEN Append(old, ids[n]) ELSE old
        BY <3>3
      <3> HIDE DEF new, old
      <3>6. /\ \A i \in 1..Len(old) : \E j \in 1..(n - 1) : old[i] = ids[j] /\ ids[j] \in S
            /\ \A j \in 1..(n - 1) : ids[j] \in S => \E i \in 1..Len(old) : old[i] = ids[j]
            /\ T \subseteq Nat /\ Decreasing(ids) =>
                   \A i, j \in 1..Len(old) : i < j => old[i] > old[j]
        BY <3>2 DEF Good, old
      <3>7. CASE ids[n] \notin S
        <4>1. new = old
          BY <3>5, <3>7
        <4>2. \A j \in 1..n : ids[j] \in S => j \in 1..(n - 1)
          BY <3>1, <3>7
        <4>3. n \in Nat /\ n - 1 \in Nat /\ \A j \in 1..(n - 1) : j \in 1..n
          BY <1>1, <3>1
        <4>4. /\ \A i \in 1..Len(old) : \E j \in 1..n : old[i] = ids[j] /\ ids[j] \in S
              /\ \A j \in 1..n : ids[j] \in S => \E i \in 1..Len(old) : old[i] = ids[j]
              /\ Len(old) <= n
          BY <4>2, <4>3, <3>4, <3>6
        <4>5. Good(n)
          BY <4>1, <4>4, <3>4, <3>6 DEF Good, new
        <4> QED
          BY <2>1, <4>5 DEF Bad
      <3>8. CASE ids[n] \in S
        <4>1. new = Append(old, ids[n])
          BY <3>5, <3>8
        <4>2. /\ new \in Seq(T) /\ Len(new) = Len(old) + 1
              /\ new[Len(old) + 1] = ids[n]
              /\ \A i \in 1..Len(old) : new[i] = old[i]
          BY <3>1, <3>4, <4>1
        <4>3. \A i \in 1..Len(new) : i \in 1..Len(old) \/ i = Len(old) + 1
          BY <3>4, <4>2
        <4>4. \A i \in 1..Len(new) : \E j \in 1..n : new[i] = ids[j] /\ ids[j] \in S
          <5>1. n \in 1..n /\ \A j \in 1..(n - 1) : j \in 1..n
            BY <1>1, <3>1
          <5> QED
            BY <3>8, <3>4, <3>6, <4>2, <4>3, <5>1
        <4>5. \A j \in 1..n : ids[j] \in S => \E i \in 1..Len(new) : new[i] = ids[j]
          <5> TAKE j \in 1..n
          <5> HAVE ids[j] \in S
          <5>1. CASE j = n
            BY <3>4, <4>2, <5>1
          <5>2. CASE j # n
            <6>1. j \in 1..(n - 1)
              BY <3>1, <5>2
            <6>2. PICK i \in 1..Len(old) : old[i] = ids[j]
              BY <3>6, <6>1
            <6>3. i \in 1..Len(new) /\ new[i] = ids[j]
              BY <3>4, <4>2, <6>2
            <6> QED
              BY <6>3
          <5> QED
            BY <5>1, <5>2
        <4>6. ASSUME T \subseteq Nat, Decreasing(ids), NEW i \in 1..Len(new),
                     NEW j \in 1..Len(new), i < j
              PROVE  new[i] > new[j]
          <5>1. i \in 1..Len(old)
            BY <3>4, <4>2, <4>3, <4>6
          <5>2. CASE j \in 1..Len(old)
            BY <3>4, <3>6, <4>2, <4>6, <5>1, <5>2
          <5>3. CASE j = Len(old) + 1
            <6>1. PICK m \in 1..(n - 1) : old[i] = ids[m]
              BY <3>6, <5>1
            <6>2. m < n /\ m \in 1..len
              BY <1>1, <3>1
            <6>3. ids[m] > ids[n]
              BY <1>4, <3>1, <4>6, <6>2 DEF Decreasing
            <6> QED
              BY <4>2, <5>1, <5>3, <6>1, <6>3
          <5> QED
            BY <4>3, <5>2, <5>3
        <4>7. Len(new) <= n
          BY <3>1, <3>4, <4>2
        <4>8. Good(n)
          BY <4>2, <4>4, <4>5, <4>6, <4>7 DEF new, Good
        <4> QED
          BY <2>1, <4>8 DEF Bad
      <3> QED
        BY <3>7, <3>8
    <2> QED
      BY <2>2, <2>3
  <1>6. len \in 0..len
    BY <1>1
  <1>7. Good(len)
    BY <1>5, <1>6
  <1> DEFINE all == h[len]
  <1> HIDE DEF Bad
  <1>8. all \in Seq(T) /\ Len(all) <= len /\ DOMAIN all = 1..Len(all)
    BY <1>7 DEF Good
  <1>9. /\ \A i \in DOMAIN all : \E j \in DOMAIN ids : all[i] = ids[j] /\ ids[j] \in S
        /\ \A j \in DOMAIN ids : ids[j] \in S => \E i \in DOMAIN all : all[i] = ids[j]
    BY <1>4, <1>7, <1>8 DEF Good
  <1>10. T \subseteq Nat /\ Decreasing(ids) => Decreasing(all)
    BY <1>7, <1>8 DEF Decreasing, Good
  <1>11. ToSet(all) = ToSet(ids) \cap S
    <2> HIDE DEF all
    <2> QED
      BY <1>9 DEF ToSet
  <1> QED
    BY <1>2, <1>8, <1>10, <1>11 DEF len

LEMMA EntryInFront ==
    ASSUME NEW T, NEW ids \in Seq(T), NEW id \in T
    PROVE  /\ WithEntry(id, ids) \in Seq(T)
           /\ Len(WithEntry(id, ids)) = Len(ids) + 1
           /\ WithEntry(id, ids)[1] = id
           /\ \A i \in DOMAIN ids :
                 i + 1 \in DOMAIN WithEntry(id, ids) /\ WithEntry(id, ids)[i + 1] = ids[i]
           /\ ToSet(WithEntry(id, ids)) = {id} \cup ToSet(ids)
           /\ T \subseteq Nat /\ Decreasing(ids) /\ (\A i \in DOMAIN ids : ids[i] < id) =>
                 Decreasing(WithEntry(id, ids))
  <1> DEFINE all == WithEntry(id, ids)
  <1>1. Len(ids) \in Nat /\ DOMAIN ids = 1..Len(ids)
    OBVIOUS
  <1>2. all \in Seq(T) /\ Len(all) = Len(ids) + 1 /\ all[1] = id
    BY DEF WithEntry
  <1>3. \A i \in 1..Len(ids) : all[i + 1] = ids[i]
    BY DEF WithEntry
  <1> HIDE DEF all
  <1>4. /\ DOMAIN all = 1..(Len(ids) + 1)
        /\ \A i \in DOMAIN ids : i + 1 \in DOMAIN all
        /\ \A i \in DOMAIN all : i = 1 \/ i - 1 \in DOMAIN ids
    BY <1>1, <1>2
  <1>5. \A i \in DOMAIN all : i # 1 => all[i] = ids[i - 1]
    BY <1>1, <1>3, <1>4
  <1>6. ToSet(all) = {id} \cup ToSet(ids)
    <2>1. 1 \in DOMAIN all
      BY <1>1, <1>4
    <2> QED
      BY <1>1, <1>2, <1>3, <1>4, <1>5, <2>1 DEF ToSet
  <1>7. ASSUME T \subseteq Nat, Decreasing(ids), \A i \in DOMAIN ids : ids[i] < id
        PROVE  Decreasing(all)
    <2> SUFFICES ASSUME NEW i \in DOMAIN all, NEW j \in DOMAIN all, i < j PROVE all[i] > all[j]
      BY DEF Decreasing
    <2>1. j # 1 /\ j - 1 \in DOMAIN ids /\ all[j] = ids[j - 1] /\ ids[j - 1] \in T
      BY <1>1, <1>4, <1>5
    <2>2. CASE i = 1
      BY <1>2, <1>7, <2>1, <2>2
    <2>3. CASE i # 1
      <3>1. i - 1 \in DOMAIN ids /\ i - 1 < j - 1 /\ all[i] = ids[i - 1]
        BY <1>1, <1>4, <1>5, <2>3
      <3> QED
        BY <1>7, <2>1, <3>1 DEF Decreasing
    <2> QED
      BY <2>2, <2>3
  <1> QED
    BY <1>1, <1>2, <1>3, <1>4, <1>6, <1>7 DEF all

(* What a cleanup keeps and what it removes.                                  *)
LEMMA KeptAndSurplus ==
    ASSUME NEW T, NEW ids \in Seq(T), TooMany(ids)
    PROVE  /\ Kept(ids) \in Seq(T) /\ Len(Kept(ids)) = KeptPoints
           /\ \A i \in 1..KeptPoints : Kept(ids)[i] = ids[i]
           /\ ToSet(Surplus(ids)) = {ids[i] : i \in {j \in DOMAIN ids : j > KeptPoints}}
           /\ T \subseteq Nat /\ Decreasing(ids) =>
                 /\ Decreasing(Kept(ids))
                 /\ ToSet(Kept(ids)) = ToSet(ids) \ ToSet(Surplus(ids))
  <1>1. /\ Len(ids) \in Nat /\ DOMAIN ids = 1..Len(ids) /\ KeptPoints \in Nat
        /\ KeptPoints > 0 /\ Len(ids) > KeptPoints
    BY KeptPointsAssumption DEF TooMany
  <1>2. /\ Kept(ids) \in Seq(T) /\ Len(Kept(ids)) = KeptPoints
        /\ DOMAIN Kept(ids) = 1..KeptPoints
        /\ \A i \in 1..KeptPoints : Kept(ids)[i] = ids[i]
    BY <1>1 DEF Kept
  <1>3. /\ Surplus(ids) \in Seq(T) /\ Len(Surplus(ids)) = Len(ids) - KeptPoints
        /\ DOMAIN Surplus(ids) = 1..(Len(ids) - KeptPoints)
        /\ \A i \in 1..(Len(ids) - KeptPoints) : Surplus(ids)[i] = ids[KeptPoints + i]
    <2>1. \A i \in (KeptPoints + 1)..Len(ids) : ids[i] \in T
      BY <1>1
    <2> DEFINE a == KeptPoints + 1
               b == Len(ids)
    <2>2. a \in Int /\ b \in Int /\ b - a + 1 = Len(ids) - KeptPoints /\ a <= b
      BY <1>1
    <2> HIDE DEF a, b
    <2>3. /\ SubSeq(ids, a, b) \in Seq(T)
          /\ Len(SubSeq(ids, a, b)) = b - a + 1
          /\ \A i \in 1..(b - a + 1) : SubSeq(ids, a, b)[i] = ids[a + i - 1]
      BY <1>1, <2>1, <2>2 DEF a, b
    <2>4. \A i \in 1..(b - a + 1) : a + i - 1 = KeptPoints + i
      BY <1>1 DEF a, b
    <2>5. Surplus(ids) = SubSeq(ids, a, b)
      BY DEF Surplus, a, b
    <2> DEFINE left == Len(ids) - KeptPoints
    <2>6. left \in Nat /\ b - a + 1 = left
      BY <1>1 DEF a, b
    <2> HIDE DEF left
    <2>7. Surplus(ids) \in Seq(T) /\ Len(Surplus(ids)) = left
      BY <2>3, <2>5, <2>6
    <2>8. \A i \in 1..left : Surplus(ids)[i] = ids[KeptPoints + i]
      BY <2>3, <2>4, <2>5, <2>6
    <2> QED
      BY <2>7, <2>8 DEF left
  <1>4. ToSet(Surplus(ids)) = {ids[i] : i \in {j \in DOMAIN ids : j > KeptPoints}}
    <2>1. \A i \in 1..(Len(ids) - KeptPoints) :
              KeptPoints + i \in DOMAIN ids /\ KeptPoints + i > KeptPoints
      BY <1>1
    <2>2. \A j \in DOMAIN ids : j > KeptPoints =>
              j - KeptPoints \in 1..(Len(ids) - KeptPoints) /\ KeptPoints + (j - KeptPoints) = j
      BY <1>1
    <2> QED
      BY <1>3, <2>1, <2>2 DEF ToSet
  <1>5. ASSUME T \subseteq Nat, Decreasing(ids)
        PROVE  Decreasing(Kept(ids)) /\ ToSet(Kept(ids)) = ToSet(ids) \ ToSet(Surplus(ids))
    <2>1. \A i \in 1..KeptPoints : i \in DOMAIN ids
      BY <1>1
    <2>2. Decreasing(Kept(ids))
      BY <1>2, <1>5, <2>1 DEF Decreasing
    <2>3. \A i \in 1..KeptPoints, j \in DOMAIN ids : j > KeptPoints => ids[i] # ids[j]
      <3> SUFFICES ASSUME NEW i \in 1..KeptPoints, NEW j \in DOMAIN ids, j > KeptPoints
                   PROVE  ids[i] # ids[j]
        OBVIOUS
      <3> i \in DOMAIN ids /\ ids[i] \in T /\ ids[j] \in T
        <4>1. i \in DOMAIN ids
          BY <2>1
        <4>2. \A m \in DOMAIN ids : ids[m] \in T
          BY <1>1
        <4> QED
          BY <4>1, <4>2
      <3>1. i < j
        BY <1>1
      <3>2. ids[i] \in Nat /\ ids[j] \in Nat
        BY <1>5
      <3>3. ids[i] > ids[j]
        BY <1>5, <2>1, <3>1 DEF Decreasing
      <3> QED
        BY <3>2, <3>3
    <2>4. \A j \in DOMAIN ids : j \in 1..KeptPoints \/ j > KeptPoints
      BY <1>1
    <2>5. ToSet(Kept(ids)) = {ids[i] : i \in 1..KeptPoints}
      BY <1>2 DEF ToSet
    <2>6. ToSet(ids) = {ids[i] : i \in DOMAIN ids}
      BY DEF ToSet
    <2> QED
      BY <1>4, <2>1, <2>2, <2>3, <2>4, <2>5, <2>6
  <1> QED
    BY <1>2, <1>4, <1>5

(* The numbers of the restore points, the newest first.                       *)
LEMMA Countdown ==
    ASSUME NEW n \in Nat
    PROVE  LET ids == Reverse([r \in 1..n |-> r]) IN
           ids \in Seq(1..n) /\ Len(ids) = n /\ Decreasing(ids) /\ ToSet(ids) = 1..n
  <1> DEFINE up == [r \in 1..n |-> r]
             ids == Reverse(up)
  <1>1. up \in Seq(1..n) /\ Len(up) = n
    OBVIOUS
  <1> HIDE DEF up
  <1>2. ids = [i \in 1..n |-> up[(n - i) + 1]]
    BY <1>1 DEF Reverse
  <1>3. \A i \in 1..n : (n - i) + 1 \in 1..n /\ up[(n - i) + 1] = (n - i) + 1
    BY DEF up
  <1>4. DOMAIN ids = 1..n /\ \A i \in 1..n : ids[i] = (n - i) + 1
    BY <1>2, <1>3
  <1>5. ids \in [1..n -> 1..n]
    BY <1>2, <1>3
  <1>6. ids \in Seq(1..n) /\ Len(ids) = n
    BY <1>5
  <1> HIDE DEF ids
  <1>7. Decreasing(ids)
    BY <1>4 DEF Decreasing
  <1>8. \A r \in 1..n : (n - r) + 1 \in 1..n /\ ids[(n - r) + 1] = r
    BY <1>4
  <1>9. ToSet(ids) = 1..n
    BY <1>4, <1>8 DEF ToSet
  <1> QED
    BY <1>6, <1>7, <1>9 DEF ids, up

-----------------------------------------------------------------------------
(* Snapshots and proposals                                                    *)

LEMMA MissingListed ==
    ASSUME NEW fs, fs \subseteq Files
    PROVE  /\ Len(Missing(fs)) \in Nat /\ DOMAIN Missing(fs) = 1..Len(Missing(fs))
           /\ ToSet(Missing(fs)) = {f \in fs : snapshot[f] = None}
  <1> DEFINE miss == {f \in fs : snapshot[f] = None}
             size == Cardinality(miss)
  <1>1. IsFiniteSet(miss)
    BY FS_Subset, SetsAssumption, miss \subseteq Files
  <1>2. size \in Nat /\ ExistsBijection(1..size, miss)
    BY <1>1, FS_CardinalityType
  <1>3. \E s \in [1..size -> miss] : IsInjective(s)
    BY <1>2 DEF ExistsBijection, Bijection, Injection
  <1>4. Missing(fs) = CHOOSE s \in [1..size -> miss] : IsInjective(s)
    BY DEF Missing, SetToSeq
  <1> HIDE DEF size, miss
  <1>5. Missing(fs) \in [1..size -> miss] /\ IsInjective(Missing(fs))
    BY <1>3, <1>4
  <1>6. Missing(fs) \in Injection(1..size, miss)
    BY <1>5 DEF Injection
  <1>7. Cardinality(1..size) = size
    BY <1>2, FS_Interval
  <1>8. Missing(fs) \in Surjection(1..size, miss)
    BY <1>1, <1>6, <1>7, FS_Injection DEF size
  <1>9. ToSet(Missing(fs)) = miss
    BY <1>5, <1>8 DEF Surjection, ToSet
  <1>10. Len(Missing(fs)) = size /\ DOMAIN Missing(fs) = 1..size
    BY <1>2, <1>5
  <1> QED
    BY <1>2, <1>9, <1>10 DEF miss

SnapshotsTyped ==
    /\ snapshot \in [Files -> SnapshotType \cup {None}] /\ snaps \in Nat
    /\ \A f \in Files : snapshot[f] # None => snapshot[f].id \in 1..snaps

(* The snapshots that createDiff takes get the next ids.                      *)
LEMMA SnapshotsKeep ==
    ASSUME SnapshotsTyped, file \in [Files -> Content], NEW fs, fs \subseteq Files
    PROVE  /\ snaps + Len(Missing(fs)) \in Nat
           /\ Snapshots(fs) \in [Files -> SnapshotType \cup {None}]
           /\ \A f \in fs : Snapshots(fs)[f] # None
           /\ \A f \in Files : Snapshots(fs)[f] # None =>
                 Snapshots(fs)[f].id \in 1..(snaps + Len(Missing(fs)))
  <1> DEFINE new(f) == [id |-> snaps + (CHOOSE i \in DOMAIN Missing(fs) : Missing(fs)[i] = f),
                        content |-> file[f]]
  <1>1. /\ snaps \in Nat /\ Len(Missing(fs)) \in Nat
        /\ DOMAIN Missing(fs) = 1..Len(Missing(fs))
        /\ ToSet(Missing(fs)) = {f \in fs : snapshot[f] = None}
    BY MissingListed DEF SnapshotsTyped
  <1>2. \A f \in Files : Snapshots(fs)[f] =
            IF f \in fs /\ snapshot[f] = None THEN new(f) ELSE snapshot[f]
    BY <1>1 DEF Snapshots
  <1>3. ASSUME NEW f \in fs, snapshot[f] = None
        PROVE  /\ new(f) \in SnapshotType
               /\ new(f).id \in 1..(snaps + Len(Missing(fs)))
    <2>1. \E i \in DOMAIN Missing(fs) : Missing(fs)[i] = f
      BY <1>1, <1>3 DEF ToSet
    <2> DEFINE n == CHOOSE i \in DOMAIN Missing(fs) : Missing(fs)[i] = f
    <2>2. n \in 1..Len(Missing(fs))
      BY <1>1, <2>1
    <2> HIDE DEF n
    <2>3. snaps + n \in Nat /\ snaps + n \in 1..(snaps + Len(Missing(fs)))
      BY <1>1, <2>2
    <2>4. new(f) = [id |-> snaps + n, content |-> file[f]] /\ file[f] \in Content
      BY DEF n
    <2> QED
      BY <2>3, <2>4 DEF SnapshotType
  <1>4. \A f \in Files : snapshot[f] # None => snapshot[f].id \in 1..(snaps + Len(Missing(fs)))
    BY <1>1 DEF SnapshotsTyped
  <1>5. Snapshots(fs) = [f \in Files |-> Snapshots(fs)[f]]
    BY DEF Snapshots
  <1>6. \A f \in Files : Snapshots(fs)[f] \in SnapshotType \cup {None}
    BY <1>2, <1>3 DEF SnapshotsTyped
  <1>7. \A f \in fs : Snapshots(fs)[f] # None
    BY <1>2, <1>3, NoneAssumption
  <1> HIDE DEF new
  <1>8. \A f \in Files : Snapshots(fs)[f] # None =>
            Snapshots(fs)[f].id \in 1..(snaps + Len(Missing(fs)))
    BY <1>2, <1>3, <1>4
  <1> QED
    BY <1>1, <1>5, <1>6, <1>7, <1>8

-----------------------------------------------------------------------------
(* Types, and where a call may be.                                            *)

Indexing == {"read-index", "write-index", "fill-index", "clean", "clean-index", "fill-clean"}

ApplySound(k) ==
    /\ k.p \in Proposals
    /\ k.at \in {"read", "change", "patch", "restore"} \cup Indexing
    /\ k.at \in {"change", "patch", "restore"} => k.i > 0
    /\ k.i <= Len(Changes[k.p]) + 1
    /\ k.i > 0 /\ k.at \notin {"change", "restore"} => k.i <= Len(Changes[k.p])
    /\ k.i > 0 \/ k.at # "read" => k.point > 0

SaveSound(k) ==
    /\ k.f \in Files /\ k.content \in Content
    /\ k.at \in {"read", "put", "replace"} \cup Indexing

CallSound(k) ==
    /\ k.op = "apply" => ApplySound(k)
    /\ k.op # "apply" => k.p = None /\ k.i = 0
    /\ k.op = "save" => SaveSound(k)
    /\ k.op = "point" => k.f \in Files /\ k.at \in {"read"} \cup Indexing
    /\ k.op = "rollback" => k.at = "restore"
    /\ k.op \in {"delete", "list", "rebuild"} => k.at \in {"write-index", "fill-index"}
    /\ k.op = "cleanup" => k.at \in {"clean", "clean-index", "fill-clean"}
    /\ k.op \notin {"apply", "save", "point"} => k.point = 0
    /\ k.at = "read" /\ k.i = 0 => k.point = 0
    /\ k.at = "read-index" => Len(k.ids) = 1

(* A call when n restore points were made.                                    *)
CallGood(k, n) ==
    k \in CallType /\ k.point \in 0..n /\ k.ids \in Seq(1..n) /\ CallSound(k)

CallsGood ==
    /\ call \in [Calls -> CallType \cup {None}]
    /\ \A c \in Calls : call[c] # None => CallGood(call[c], begun.points)

DiskTyped ==
    /\ file \in [Files -> Content]
    /\ DOMAIN points \subseteq PointIds /\ \A r \in DOMAIN points : points[r] \in FileMaps
    /\ index \in Seq(PointIds)

CountsTyped ==
    /\ begun \in [calls: 0..limit.calls, points: Nat]
    /\ faults \in 0..limit.faults /\ calm \in BOOLEAN /\ cut \in BOOLEAN
    /\ limit \in Limits

ProposalsTyped == proposal \in [Proposals -> ProposalType \cup {None}]

Typed == DiskTyped /\ SnapshotsTyped /\ ProposalsTyped /\ CountsTyped /\ CallsGood

(* An apply whose proposal was not previewed again works on what was approved. *)
HeldApproved ==
    \A c \in Calls :
        call[c] # None /\ call[c].op = "apply" /\ call[c].held => ApplyMay(call[c].p)

LEMMA TypedIsTypeOK == Typed => TypeOK
  <1> SUFFICES ASSUME Typed PROVE TypeOK
    OBVIOUS
  <1>1. \A c \in Active : call[c].point \in PointIds \cup {0} /\ call[c].ids \in Seq(PointIds)
    <2> TAKE c \in Active
    <2>1. CallGood(call[c], begun.points) /\ begun.points \in Nat
      BY DEF Typed, CallsGood, Active, CountsTyped
    <2>2. \A n \in Nat : \A x \in 0..n : x \in (1..n) \cup {0}
      OBVIOUS
    <2> QED
      BY <2>1, <2>2 DEF CallGood, PointIds
  <1> QED
    BY <1>1 DEF Typed, TypeOK, DiskTyped, SnapshotsTyped, ProposalsTyped, CountsTyped, CallsGood

LEMMA FilesOfProposal ==
    ASSUME NEW p \in Proposals
    PROVE  /\ Len(Changes[p]) \in Nat /\ DOMAIN Changes[p] = 1..Len(Changes[p])
           /\ \A i \in DOMAIN Changes[p] :
                 Changes[p][i].file \in Files /\ Changes[p][i].content \in Content
           /\ FilesOf(p) \subseteq Files
           /\ Len(Changes[p]) < KeptPoints
  <1> DEFINE Item == [file: Files, type: {"create", "modify", "delete"}, content: Content]
  <1>1. Changes[p] \in Seq(Item)
    BY ChangesAssumption
  <1> HIDE DEF Item
  <1>2. Len(Changes[p]) < KeptPoints
    BY <1>1, KeptPointsAssumption
  <1>3. /\ Len(Changes[p]) \in Nat /\ DOMAIN Changes[p] = 1..Len(Changes[p])
        /\ \A i \in DOMAIN Changes[p] : Changes[p][i] \in Item
    BY <1>1
  <1>4. \A i \in DOMAIN Changes[p] :
            Changes[p][i].file \in Files /\ Changes[p][i].content \in Content
    BY <1>3 DEF Item
  <1>5. FilesOf(p) \subseteq Files
    BY <1>4 DEF FilesOf
  <1> QED
    BY <1>2, <1>3, <1>4, <1>5

LEMMA FileMapsAre ==
    /\ \A m \in FileMaps : DOMAIN m \subseteq Files /\ \A f \in DOMAIN m : m[f] \in Content
    /\ \A fs \in SUBSET Files : [fs -> Content] \subseteq FileMaps
    /\ \A m \in FileMaps : \A fs \in SUBSET DOMAIN m : [f \in fs |-> m[f]] \in FileMaps
  <1>1. \A m : m \in FileMaps <=> \E fs \in SUBSET Files : m \in [fs -> Content]
    BY DEF FileMaps
  <1>2. ASSUME NEW m \in FileMaps, NEW fs \in SUBSET DOMAIN m
        PROVE  [f \in fs |-> m[f]] \in FileMaps
    <2>1. PICK gs \in SUBSET Files : m \in [gs -> Content]
      BY <1>1
    <2>2. fs \in SUBSET Files /\ [f \in fs |-> m[f]] \in [fs -> Content]
      BY <2>1
    <2> QED
      BY <1>1, <2>2
  <1> QED
    BY <1>1, <1>2

LEMMA SeqWider == ASSUME NEW S, NEW T, S \subseteq T PROVE Seq(S) \subseteq Seq(T)
  <1> SUFFICES ASSUME NEW s \in Seq(S) PROVE s \in Seq(T)
    OBVIOUS
  <1>1. Len(s) \in Nat /\ s \in [1..Len(s) -> T]
    OBVIOUS
  <1> QED
    BY <1>1

(* Nothing but the calls of c changes, and the ids grow.                      *)
LEMMA CallsStayGood ==
    ASSUME CallsGood, CountsTyped, NEW c \in Calls, NEW k, Becomes(c, k),
           begun'.points \in Nat, begun.points <= begun'.points,
           k # None => CallGood(k, begun'.points)
    PROVE  CallsGood'
  <1>1. begun.points \in Nat
    BY DEF CountsTyped
  <1>2. call' \in [Calls -> CallType \cup {None}]
    BY DEF CallsGood, Becomes, CallGood
  <1>3. ASSUME NEW d \in Calls, call'[d] # None PROVE CallGood(call'[d], begun'.points)
    <2>1. CASE d = c
      BY <1>3, <2>1 DEF Becomes, CallsGood
    <2>2. CASE d # c
      <3>1. call'[d] = call[d] /\ CallGood(call[d], begun.points)
        BY <1>3, <2>2 DEF Becomes, CallsGood
      <3>2. 0..begun.points \subseteq 0..begun'.points /\ 1..begun.points \subseteq 1..begun'.points
        BY <1>1
      <3>3. Seq(1..begun.points) \subseteq Seq(1..begun'.points)
        BY <3>2, SeqWider
      <3> DEFINE old == call[d]
      <3>4. /\ old \in CallType /\ old.point \in 0..begun.points
            /\ old.ids \in Seq(1..begun.points) /\ CallSound(old)
        BY <3>1 DEF CallGood
      <3> HIDE DEF old
      <3>5. CallGood(old, begun'.points)
        BY <3>2, <3>3, <3>4 DEF CallGood
      <3> QED
        BY <3>1, <3>5 DEF old
    <2> QED
      BY <2>1, <2>2
  <1> QED
    BY <1>2, <1>3 DEF CallsGood

LEMMA NewCallIs ==
    ASSUME NEW op \in Ops, NEW at \in Places, file \in [Files -> Content]
    PROVE  /\ NewCall(op, at) \in CallType
           /\ NewCall(op, at).op = op /\ NewCall(op, at).at = at
           /\ NewCall(op, at).p = None /\ NewCall(op, at).i = 0 /\ NewCall(op, at).point = 0
           /\ NewCall(op, at).ids = <<>> /\ NewCall(op, at).before = file
           /\ NewCall(op, at).f = None /\ NewCall(op, at).content = None
           /\ NewCall(op, at).held
           /\ NewCall(op, at).saved = [f \in {} |-> Absent]
  <1>1. [f \in {} |-> Absent] \in FileMaps
    <2>1. [f \in {} |-> Absent] \in [{} -> Content] /\ {} \in SUBSET Files
      OBVIOUS
    <2> QED
      BY <2>1 DEF FileMaps
  <1>2. <<>> \in Seq(Nat) /\ 0 \in Nat /\ TRUE \in BOOLEAN
    OBVIOUS
  <1> DEFINE none == [f \in {} |-> Absent]
  <1> HIDE DEF none
  <1>3. NewCall(op, at) =
            [op |-> op, at |-> at, p |-> None, held |-> TRUE, i |-> 0, point |-> 0, ids |-> <<>>,
             saved |-> none, f |-> None, content |-> None, before |-> file]
    BY DEF NewCall, none
  <1>4. none \in FileMaps
    BY <1>1 DEF none
  <1>5. NewCall(op, at) \in CallType
    BY <1>2, <1>3, <1>4 DEF CallType
  <1> QED
    BY <1>3, <1>5 DEF none

LEMMA BeginKeeps ==
    ASSUME Typed, limit' = limit, NEW c \in Calls, NEW k, Begin(c, k),
           CallGood(k, begun.points), UNCHANGED <<faults, cut>>
    PROVE  CallsGood' /\ CountsTyped' /\ begun'.points = begun.points
  <1>1. /\ begun' = [begun EXCEPT !.calls = @ + 1] /\ begun.calls < limit.calls
        /\ begun \in [calls: 0..limit.calls, points: Nat] /\ limit.calls \in Nat
    BY PatchBoundsAssumption DEF Typed, CountsTyped, Begin, LimitType
  <1>2. begun' \in [calls: 0..limit.calls, points: Nat] /\ begun'.points = begun.points
    BY <1>1
  <1>3. calm' \in BOOLEAN
    BY DEF Typed, CountsTyped, Begin
  <1>4. CountsTyped'
    BY <1>2, <1>3 DEF Typed, CountsTyped
  <1>5. CallsGood'
    <2>1. begun'.points \in Nat /\ begun.points <= begun'.points
      BY <1>1, <1>2
    <2> QED
      BY <1>2, <2>1, CallsStayGood DEF Typed, Begin
  <1> QED
    BY <1>2, <1>4, <1>5

LEMMA MoveKeeps ==
    ASSUME Typed, limit' = limit, NEW c \in Calls, NEW k, Becomes(c, k),
           k # None => CallGood(k, begun.points),
           UNCHANGED <<begun, cut>>, calm' = calm, faults' = faults \/ FaultHits
    PROVE  CallsGood' /\ CountsTyped'
  <1>1. begun.points \in Nat /\ begun.points <= begun.points
    BY DEF Typed, CountsTyped
  <1>2. faults' \in 0..limit.faults
    <2>1. faults \in 0..limit.faults /\ limit.faults \in Nat
      BY PatchBoundsAssumption DEF Typed, CountsTyped, LimitType
    <2> QED
      BY <2>1 DEF FaultHits
  <1>3. CountsTyped'
    BY <1>2 DEF Typed, CountsTyped
  <1> QED
    BY <1>1, <1>3, CallsStayGood DEF Typed

LEMMA DiskStays ==
    ASSUME DiskTyped, UNCHANGED <<points, index>>, file' \in [Files -> Content],
           begun.points \in Nat, begun'.points \in Nat, begun.points <= begun'.points
    PROVE  DiskTyped'
  <1>1. 1..begun.points \subseteq 1..begun'.points
    OBVIOUS
  <1> QED
    BY <1>1, SeqWider DEF DiskTyped, PointIds

-----------------------------------------------------------------------------

(* The proposal that a preview stores.                                        *)
LEMMA PreviewIs ==
    ASSUME Typed, NEW p \in Proposals, Preview(p)
    PROVE  \E new \in ProposalType :
              /\ proposal' = [proposal EXCEPT ![p] = new]
              /\ new.state = "WAITING_FOR_APPROVAL" /\ new.approved = None
  <1>1. SnapshotsTyped /\ file \in [Files -> Content] /\ FilesOf(p) \subseteq Files
    BY FilesOfProposal DEF Typed, DiskTyped
  <1> DEFINE fs == FilesOf(p)
             version == [f \in fs |-> Snapshots(fs)[f].id]
  <1>2. version \in Versions
    <2>1. \A f \in fs : Snapshots(fs)[f].id \in 1..(snaps + Len(Missing(fs)))
      BY <1>1, SnapshotsKeep
    <2>2. snaps + Len(Missing(fs)) <= MaxSnaps /\ snaps + Len(Missing(fs)) \in Nat
      BY <1>1, SnapshotsKeep DEF Preview
    <2>3. \A f \in fs : Snapshots(fs)[f].id \in 1..MaxSnaps
      BY <2>1, <2>2, PatchBoundsAssumption
    <2>4. version \in [fs -> 1..MaxSnaps] /\ fs \in SUBSET Files
      BY <1>1, <2>3
    <2> QED
      BY <2>4 DEF Versions
  <1> HIDE DEF version, fs
  <1> DEFINE new == [state |-> "WAITING_FOR_APPROVAL", version |-> version, approved |-> None]
  <1>3. proposal' = [proposal EXCEPT ![p] = new]
    BY DEF Preview, version, fs
  <1>4. new \in ProposalType
    BY <1>2 DEF ProposalType, States
  <1>5. new.state = "WAITING_FOR_APPROVAL" /\ new.approved = None
    OBVIOUS
  <1> HIDE DEF new
  <1> QED
    BY <1>3, <1>4, <1>5

LEMMA TypedPreview == ASSUME Typed, limit' = limit, NEW p \in Proposals, Preview(p) PROVE Typed'
  <1>1. SnapshotsTyped /\ file \in [Files -> Content] /\ FilesOf(p) \subseteq Files
    BY FilesOfProposal DEF Typed, DiskTyped
  <1>2. SnapshotsTyped'
    BY <1>1, SnapshotsKeep DEF SnapshotsTyped, Preview
  <1>3. ProposalsTyped'
    BY PreviewIs DEF Typed, ProposalsTyped
  <1>4. DiskTyped' /\ CountsTyped'
    BY DEF Typed, DiskTyped, CountsTyped, PointIds, Preview, disk
  <1>5. CallsGood'
    <2>1. \A d \in Calls : call[d] # None =>
              /\ [call[d] EXCEPT !.held = FALSE] \in CallType
              /\ [call[d] EXCEPT !.held = FALSE] # None
              /\ CallGood([call[d] EXCEPT !.held = FALSE], begun.points)
      <3> SUFFICES ASSUME NEW k, CallGood(k, begun.points)
                   PROVE  CallGood([k EXCEPT !.held = FALSE], begun.points)
        BY NoneAssumption DEF Typed, CallsGood, CallGood
      <3> DEFINE new == [k EXCEPT !.held = FALSE]
      <3>1. k \in CallType
        BY DEF CallGood
      <3>2. new \in CallType
        BY <3>1 DEF CallType
      <3>3. /\ new.op = k.op /\ new.at = k.at /\ new.p = k.p /\ new.i = k.i
            /\ new.point = k.point /\ new.ids = k.ids /\ new.f = k.f /\ new.content = k.content
        BY <3>1 DEF CallType
      <3> HIDE DEF new
      <3>4. CallSound(new)
        BY <3>3 DEF CallGood, CallSound, ApplySound, SaveSound
      <3>5. CallGood(new, begun.points)
        BY <3>2, <3>3, <3>4 DEF CallGood
      <3> QED
        BY <3>5 DEF new
    <2>2. /\ call' = [d \in Calls |-> IF d \in Active /\ call[d].p = p
                                      THEN [call[d] EXCEPT !.held = FALSE] ELSE call[d]]
          /\ begun' = begun
      BY DEF Preview
    <2> QED
      BY <2>1, <2>2 DEF Typed, CallsGood, Active
  <1> QED
    BY <1>2, <1>3, <1>4, <1>5 DEF Typed

LEMMA SetStateTyped ==
    ASSUME Typed, HeldApproved, NEW c \in Calls, call[c] # None, call[c].op = "apply",
           NEW s \in States, SetState(c, s)
    PROVE  ProposalsTyped'
  <1>1. CASE ~call[c].held
    BY <1>1 DEF SetState, Typed, ProposalsTyped
  <1>2. CASE call[c].held
    <2> DEFINE p == call[c].p
    <2>1. p \in Proposals /\ proposal[p] \in ProposalType
      BY <1>2 DEF Typed, ProposalsTyped, CallsGood, CallGood, CallSound, ApplySound,
                  HeldApproved, ApplyMay
    <2> HIDE DEF p
    <2>2. [proposal[p] EXCEPT !.state = s] \in ProposalType
      BY <2>1 DEF ProposalType
    <2>3. proposal' = [proposal EXCEPT ![p] = [proposal[p] EXCEPT !.state = s]]
      BY <1>2, <2>1 DEF SetState, Typed, ProposalsTyped, p
    <2> QED
      BY <2>1, <2>2, <2>3 DEF Typed, ProposalsTyped
  <1> QED
    BY <1>1, <1>2

LEMMA TypedApprove ==
    ASSUME Typed, limit' = limit, NEW p \in Proposals, NEW v, Approve(p, v) PROVE Typed'
  <1>1. proposal[p] \in ProposalType /\ proposal[p].version = v
    BY DEF Typed, ProposalsTyped, Approve
  <1> DEFINE new == [proposal[p] EXCEPT !.approved = v, !.state = "APPROVED"]
  <1>2. new \in ProposalType
    BY <1>1 DEF ProposalType, States
  <1>3. proposal' = [proposal EXCEPT ![p] = new]
    BY DEF Approve, Typed, ProposalsTyped
  <1> HIDE DEF new
  <1>4. ProposalsTyped'
    BY <1>2, <1>3 DEF Typed, ProposalsTyped
  <1> QED
    BY <1>4 DEF Typed, DiskTyped, SnapshotsTyped, CountsTyped, CallsGood, PointIds, Approve, disk

LEMMA TypedReject ==
    ASSUME Typed, limit' = limit, NEW p \in Proposals, Reject(p) PROVE Typed'
  <1>1. proposal[p] \in ProposalType
    BY DEF Typed, ProposalsTyped, Reject
  <1> DEFINE new == [proposal[p] EXCEPT !.state = "REJECTED"]
  <1>2. new \in ProposalType
    BY <1>1 DEF ProposalType, States
  <1>3. proposal' = [proposal EXCEPT ![p] = new]
    BY DEF Reject, Typed, ProposalsTyped
  <1> HIDE DEF new
  <1>4. ProposalsTyped'
    BY <1>2, <1>3 DEF Typed, ProposalsTyped
  <1> QED
    BY <1>4 DEF Typed, DiskTyped, SnapshotsTyped, CountsTyped, CallsGood, PointIds, Reject, disk

LEMMA TypedUndo == ASSUME Typed, limit' = limit, NEW f \in Files, Undo(f) PROVE Typed'
  <1>1. snapshot[f].content \in Content
    BY DEF Typed, SnapshotsTyped, SnapshotType, Undo
  <1>2. file' \in [Files -> Content]
    BY <1>1 DEF Typed, DiskTyped, Undo
  <1>3. SnapshotsTyped'
    BY DEF Typed, SnapshotsTyped, Undo
  <1>4. /\ begun' = [begun EXCEPT !.calls = @ + 1] /\ begun.calls < limit.calls
        /\ begun \in [calls: 0..limit.calls, points: Nat] /\ limit.calls \in Nat
    BY PatchBoundsAssumption DEF Typed, CountsTyped, Undo, LimitType
  <1>5. begun' \in [calls: 0..limit.calls, points: Nat] /\ begun'.points = begun.points
    BY <1>4
  <1>6. CountsTyped'
    BY <1>5 DEF Typed, CountsTyped, Undo
  <1>7. DiskTyped'
    BY <1>2, <1>5 DEF Typed, DiskTyped, PointIds, Undo
  <1> QED
    BY <1>3, <1>5, <1>6, <1>7 DEF Typed, ProposalsTyped, CallsGood, Undo

LEMMA CallIs ==
    ASSUME Typed, NEW c \in Calls, call[c] # None
    PROVE  /\ call[c] \in CallType /\ CallGood(call[c], begun.points) /\ CallSound(call[c])
           /\ begun.points \in Nat /\ call[c].op \in Ops /\ call[c].ids \in Seq(PointIds)
           /\ call[c].point \in Nat /\ call[c].i \in Nat
           /\ call[c].op = "apply" => call[c].p \in Proposals
  <1>1. call[c] \in CallType /\ CallGood(call[c], begun.points) /\ CallSound(call[c])
    BY DEF Typed, CallsGood, CallGood
  <1> DEFINE k == call[c]
  <1> HIDE DEF k
  <1>2. k \in CallType
    BY <1>1 DEF k
  <1>3. k.op \in Ops /\ k.point \in Nat /\ k.i \in Nat
    BY <1>2 DEF CallType
  <1>4. begun.points \in Nat
    BY DEF Typed, CountsTyped
  <1>5. call[c].ids \in Seq(PointIds) /\ (call[c].op = "apply" => call[c].p \in Proposals)
    BY <1>1 DEF CallGood, CallSound, ApplySound, PointIds
  <1> QED
    BY <1>1, <1>3, <1>4, <1>5 DEF k

(* Where the files of a restore point come from.                              *)
LEMMA WantedFiles ==
    ASSUME Typed, NEW c \in Calls, At(c, "read") PROVE Wanted(c) \subseteq Files
  <1>1. CallSound(call[c]) /\ call[c].op \in Ops /\ call[c].i \in Nat
    BY CallIs DEF At
  <1>2. CASE call[c].op = "apply"
    <2>1. call[c].p \in Proposals /\ (call[c].i > 0 => call[c].i <= Len(Changes[call[c].p]))
      BY <1>1, <1>2 DEF CallSound, ApplySound, At
    <2>2. /\ FilesOf(call[c].p) \subseteq Files
          /\ call[c].i # 0 => Changes[call[c].p][call[c].i].file \in Files
      BY <1>1, <2>1, FilesOfProposal
    <2> QED
      BY <1>2, <2>2 DEF Wanted
  <1>3. CASE call[c].op # "apply"
    <2>1. call[c].f \in Files
      BY <1>1, <1>3 DEF CallSound, SaveSound, Ops, At, Indexing
    <2> QED
      BY <1>3, <2>1 DEF Wanted
  <1> QED
    BY <1>2, <1>3

LEMMA TypedMakePoint ==
    ASSUME Typed, limit' = limit, NEW c \in Calls, MakePoint(c) PROVE Typed'
  <1> DEFINE n == begun.points + 1
             k == call[c]
             new == [k EXCEPT !.at = "read-index",
                              !.point = IF k.i = 0 THEN n ELSE @,
                              !.ids = <<n>>]
  <1>1. /\ k \in CallType /\ CallGood(k, begun.points) /\ k.at = "read" /\ CallSound(k)
        /\ begun.points \in Nat /\ k.op \in Ops /\ k.i \in Nat
    BY CallIs DEF MakePoint, At
  <1>2. /\ begun' = [begun EXCEPT !.points = @ + 1]
        /\ begun \in [calls: 0..limit.calls, points: Nat]
    BY DEF Typed, CountsTyped, MakePoint
  <1>3. begun'.points = n /\ n \in Nat /\ begun' \in [calls: 0..limit.calls, points: Nat]
    BY <1>2
  <1>4. Wanted(c) \subseteq Files /\ file \in [Files -> Content]
    BY WantedFiles DEF MakePoint, Typed, DiskTyped
  <1>5. ContentsOf(Wanted(c)) \in FileMaps
    <2>1. ContentsOf(Wanted(c)) \in [Wanted(c) -> Content]
      BY <1>4 DEF ContentsOf
    <2> QED
      BY <1>4, <2>1 DEF FileMaps
  <1>6. DiskTyped'
    <2>1. points' = [r \in DOMAIN points \cup {n} |->
                        IF r = n THEN ContentsOf(Wanted(c)) ELSE points[r]]
      BY <1>3 DEF MakePoint
    <2>2. 1..begun.points \subseteq 1..n /\ n \in 1..n
      BY <1>1, <1>3
    <2> HIDE DEF n
    <2>3. /\ DOMAIN points' \subseteq 1..n
          /\ \A r \in DOMAIN points' : points'[r] \in FileMaps
      BY <1>5, <2>1, <2>2 DEF Typed, DiskTyped, PointIds
    <2> QED
      BY <1>3, <2>2, <2>3, SeqWider DEF Typed, DiskTyped, PointIds, MakePoint
  <1>7. SnapshotsTyped'
    BY <1>4, SnapshotsKeep DEF Typed, SnapshotsTyped, MakePoint
  <1>8. new \in CallType /\ CallGood(new, n)
    <2>1. n \in 1..n /\ <<n>> \in Seq(1..n) /\ <<n>> \in Seq(Nat) /\ Len(<<n>>) = 1
      <3>1. n \in 1..n
        BY <1>1, <1>3
      <3> HIDE DEF n
      <3> QED
        BY <1>3, <3>1
    <2>2. k.point \in 0..n
      BY <1>1, <1>3 DEF CallGood
    <2> HIDE DEF k, n
    <2>3. /\ new \in CallType /\ new.at = "read-index" /\ new.ids = <<n>>
          /\ new.point = IF k.i = 0 THEN n ELSE k.point
          /\ new.op = k.op /\ new.p = k.p /\ new.i = k.i /\ new.f = k.f /\ new.content = k.content
      BY <1>1, <1>3, <2>1 DEF CallType, Places
    <2> HIDE DEF new
    <2>4. ApplySound(k) => ApplySound(new)
      <3>1. n > 0
        BY <1>1, <1>3, <2>1
      <3> QED
        BY <1>1, <2>3, <3>1 DEF ApplySound, Indexing
    <2>5. SaveSound(k) => SaveSound(new)
      BY <1>1, <2>3 DEF SaveSound, Indexing
    <2>6. CallSound(new)
      BY <1>1, <2>1, <2>3, <2>4, <2>5 DEF CallSound, Indexing, Ops
    <2> QED
      BY <2>1, <2>2, <2>3, <2>6, <1>3 DEF CallGood
  <1>9. Becomes(c, new)
    BY <1>3 DEF MakePoint
  <1> HIDE DEF n, new, k
  <1>10. CallsGood'
    BY <1>1, <1>3, <1>8, <1>9, CallsStayGood DEF Typed, n
  <1> QED
    BY <1>3, <1>6, <1>7, <1>10 DEF Typed, CountsTyped, ProposalsTyped, MakePoint

(* A call that goes to another place, with another index in memory.           *)
LEMMA MovesOn ==
    ASSUME NEW k, NEW n \in Nat, CallGood(k, n), NEW at \in Places, NEW ids \in Seq(1..n),
           k.at \in Indexing, at \in Indexing, at # "read-index",
           k.op \in {"delete", "list", "rebuild"} => at = "fill-index",
           k.op = "cleanup" => at \in {"clean", "clean-index", "fill-clean"}
    PROVE  CallGood([k EXCEPT !.at = at, !.ids = ids], n)
  <1> DEFINE new == [k EXCEPT !.at = at, !.ids = ids]
  <1>1. k \in CallType /\ CallSound(k) /\ k.point \in 0..n
    BY DEF CallGood
  <1>2. ids \in Seq(Nat)
    BY SeqWider
  <1>3. /\ new \in CallType /\ new.at = at /\ new.ids = ids /\ new.point = k.point
        /\ new.op = k.op /\ new.p = k.p /\ new.i = k.i /\ new.f = k.f /\ new.content = k.content
    BY <1>1, <1>2 DEF CallType
  <1> HIDE DEF new
  <1>4. ApplySound(k) => ApplySound(new)
    BY <1>1, <1>3 DEF ApplySound, Indexing
  <1>5. SaveSound(k) => SaveSound(new)
    BY <1>1, <1>3 DEF SaveSound
  <1>6. CallSound(new)
    BY <1>1, <1>3, <1>4, <1>5 DEF CallSound, Indexing
  <1>7. CallGood(new, n)
    BY <1>1, <1>3, <1>6 DEF CallGood
  <1> QED
    BY <1>7 DEF new

LEMMA TypedReadIndex ==
    ASSUME Typed, limit' = limit, NEW c \in Calls, ReadIndex(c) PROVE Typed'
  <1> DEFINE k == call[c]
             ids == WithEntry(Head(k.ids), index)
  <1>1. /\ CallGood(k, begun.points) /\ k.at = "read-index" /\ CallSound(k)
        /\ begun.points \in Nat /\ k.ids \in Seq(PointIds)
    BY CallIs DEF ReadIndex, At
  <1>2. ids \in Seq(PointIds)
    <2>1. Head(k.ids) \in PointIds
      BY <1>1 DEF CallSound
    <2> QED
      BY <2>1, EntryInFront DEF Typed, DiskTyped
  <1> HIDE DEF k, ids
  <1>3. CallGood([k EXCEPT !.at = "write-index", !.ids = ids], begun.points)
    BY <1>1, <1>2, MovesOn DEF PointIds, Indexing, Places, CallSound
  <1>4. Becomes(c, [k EXCEPT !.at = "write-index", !.ids = ids])
    BY DEF ReadIndex, k, ids
  <1>5. CallsGood' /\ CountsTyped'
    BY <1>3, <1>4, MoveKeeps DEF ReadIndex
  <1> QED
    BY <1>5 DEF Typed, DiskTyped, SnapshotsTyped, ProposalsTyped, PointIds,
                ReadIndex, disk, memory

LEMMA TypedEmptyIndex ==
    ASSUME Typed, limit' = limit, NEW c \in Calls, EmptyIndex(c) PROVE Typed'
  <1> DEFINE k == call[c]
             new(at) == [k EXCEPT !.at = at]
  <1>1. /\ CallGood(k, begun.points) /\ CallSound(k) /\ begun.points \in Nat
        /\ k \in CallType
    BY CallIs DEF EmptyIndex, At
  <1>2. <<>> \in Seq(PointIds) /\ begun' = begun
    BY DEF EmptyIndex
  <1>3. DiskTyped' /\ SnapshotsTyped' /\ ProposalsTyped'
    BY <1>2 DEF Typed, DiskTyped, SnapshotsTyped, ProposalsTyped, PointIds, EmptyIndex, memory
  <1>4. ASSUME NEW at \in {"fill-index", "fill-clean"}, Goto(c, at),
               k.at = IF at = "fill-index" THEN "write-index" ELSE "clean-index"
        PROVE  CallsGood' /\ CountsTyped'
    <2> HIDE DEF k
    <2>1. /\ new(at) \in CallType /\ new(at).at = at /\ new(at).ids = k.ids
          /\ new(at).op = k.op /\ new(at).p = k.p /\ new(at).i = k.i /\ new(at).f = k.f
          /\ new(at).content = k.content /\ new(at).point = k.point
      BY <1>1 DEF CallType, Places
    <2> HIDE DEF new
    <2>2. ApplySound(k) => ApplySound(new(at))
      BY <1>4, <2>1 DEF ApplySound, Indexing
    <2>3. SaveSound(k) => SaveSound(new(at))
      BY <1>4, <2>1 DEF SaveSound, Indexing
    <2>4. CallSound(new(at))
      BY <1>1, <1>4, <2>1, <2>2, <2>3 DEF CallSound, Indexing
    <2>5. CallGood(new(at), begun.points)
      BY <1>1, <2>1, <2>4 DEF CallGood
    <2>6. Becomes(c, new(at))
      BY <1>4 DEF Goto, new, k
    <2> QED
      BY <2>5, <2>6, MoveKeeps DEF EmptyIndex
  <1>5. CallsGood' /\ CountsTyped'
    BY <1>4 DEF EmptyIndex, At
  <1> QED
    BY <1>3, <1>5 DEF Typed

LEMMA EndKeeps ==
    ASSUME Typed, limit' = limit, NEW c \in Calls, End(c),
           UNCHANGED <<begun, cut>>, calm' = calm, faults' = faults \/ FaultHits
    PROVE  CallsGood' /\ CountsTyped'
  BY MoveKeeps DEF End

LEMMA TypedFillIndex ==
    ASSUME Typed, limit' = limit, NEW c \in Calls, FillIndex(c) PROVE Typed'
  <1> DEFINE k == call[c]
  <1>1. /\ CallGood(k, begun.points) /\ k.at = "fill-index" /\ CallSound(k)
        /\ begun.points \in Nat /\ k.ids \in Seq(PointIds)
    BY CallIs DEF FillIndex, At
  <1>2. DiskTyped' /\ SnapshotsTyped' /\ ProposalsTyped'
    BY <1>1 DEF Typed, DiskTyped, SnapshotsTyped, ProposalsTyped, PointIds, FillIndex, memory
  <1>3. CASE MakesPoint(c)
    <2>1. k.op \in {"apply", "save", "point"}
      BY <1>3 DEF MakesPoint
    <2>2. Becomes(c, [k EXCEPT !.at = "clean", !.ids = <<>>])
      BY <1>3 DEF FillIndex
    <2> HIDE DEF k
    <2>3. <<>> \in Seq(1..begun.points)
      OBVIOUS
    <2>4. CallGood([k EXCEPT !.at = "clean", !.ids = <<>>], begun.points)
      BY <1>1, <2>1, <2>3, MovesOn DEF Indexing, Places
    <2>5. CallsGood' /\ CountsTyped'
      BY <2>2, <2>4, MoveKeeps DEF FillIndex
    <2> QED
      BY <1>2, <2>5 DEF Typed
  <1>4. CASE ~MakesPoint(c)
    BY <1>2, <1>4, EndKeeps DEF Typed, FillIndex
  <1> QED
    BY <1>3, <1>4

LEMMA PointMadeKeeps ==
    ASSUME Typed, limit' = limit, NEW c \in Calls, At(c, "clean") \/ At(c, "fill-clean"),
           PointMade(c), UNCHANGED <<begun, cut, calm, faults>>
    PROVE  CallsGood' /\ CountsTyped'
  <1> DEFINE k == call[c]
  <1>1. /\ CallGood(k, begun.points) /\ k.at \in {"clean", "fill-clean"} /\ CallSound(k)
        /\ begun.points \in Nat /\ k \in CallType /\ k.i \in Nat /\ k.op \in Ops
        /\ k.point \in Nat
    BY CallIs DEF At
  <1>2. <<>> \in Seq(1..begun.points) /\ <<>> \in Seq(Nat)
    OBVIOUS
  <1>3. CASE k.op = "apply" /\ k.i = 0
    <2> DEFINE new == [k EXCEPT !.at = "change", !.i = 1, !.ids = <<>>]
    <2>1. Becomes(c, new)
      BY <1>3 DEF PointMade
    <2> HIDE DEF k
    <2>2. /\ new \in CallType /\ new.at = "change" /\ new.ids = <<>> /\ new.point = k.point
          /\ new.op = k.op /\ new.p = k.p /\ new.i = 1 /\ new.f = k.f /\ new.content = k.content
      BY <1>1, <1>2 DEF CallType, Places
    <2> HIDE DEF new
    <2>3. k.p \in Proposals /\ k.point > 0 /\ Len(Changes[k.p]) \in Nat
      BY <1>1, <1>3, FilesOfProposal DEF CallSound, ApplySound
    <2>4. ApplySound(new)
      BY <2>2, <2>3 DEF ApplySound
    <2>5. CallGood(new, begun.points)
      BY <1>1, <1>2, <1>3, <2>2, <2>4 DEF CallGood, CallSound
    <2> QED
      BY <2>1, <2>5, MoveKeeps
  <1>4. CASE k.op = "apply" /\ k.i > 0
    <2> DEFINE new == [k EXCEPT !.at = "patch", !.ids = <<>>]
    <2>1. Becomes(c, new)
      BY <1>4 DEF PointMade
    <2> HIDE DEF k
    <2>2. /\ new \in CallType /\ new.at = "patch" /\ new.ids = <<>> /\ new.point = k.point
          /\ new.op = k.op /\ new.p = k.p /\ new.i = k.i
      BY <1>1, <1>2 DEF CallType, Places
    <2> HIDE DEF new
    <2>3. ApplySound(new)
      BY <1>1, <1>4, <2>2 DEF ApplySound, CallSound
    <2>4. CallGood(new, begun.points)
      BY <1>1, <1>2, <1>4, <2>2, <2>3 DEF CallGood, CallSound
    <2> QED
      BY <2>1, <2>4, MoveKeeps
  <1>5. CASE k.op = "save"
    <2> DEFINE new == [k EXCEPT !.at = "put", !.ids = <<>>]
    <2>1. Becomes(c, new)
      BY <1>5 DEF PointMade
    <2> HIDE DEF k
    <2>2. /\ new \in CallType /\ new.at = "put" /\ new.ids = <<>> /\ new.point = k.point
          /\ new.op = k.op /\ new.p = k.p /\ new.i = k.i /\ new.f = k.f /\ new.content = k.content
      BY <1>1, <1>2 DEF CallType, Places
    <2> HIDE DEF new
    <2>3. SaveSound(new)
      BY <1>1, <1>5, <2>2 DEF SaveSound, CallSound
    <2>4. CallGood(new, begun.points)
      BY <1>1, <1>2, <1>5, <2>2, <2>3 DEF CallGood, CallSound
    <2> QED
      BY <2>1, <2>4, MoveKeeps
  <1>6. CASE k.op \notin {"apply", "save"}
    <2>1. End(c)
      BY <1>6 DEF PointMade
    <2> QED
      BY <2>1, EndKeeps
  <1> QED
    BY <1>1, <1>3, <1>4, <1>5, <1>6

LEMMA TypedClean == ASSUME Typed, limit' = limit, NEW c \in Calls, Clean(c) PROVE Typed'
  <1> DEFINE k == call[c]
  <1>1. /\ CallGood(k, begun.points) /\ k.at = "clean" /\ CallSound(k)
        /\ begun.points \in Nat
    BY CallIs DEF Clean, At
  <1>2. SnapshotsTyped' /\ ProposalsTyped'
    BY DEF Typed, SnapshotsTyped, ProposalsTyped, Clean, memory
  <1>3. CASE TooMany(index)
    <2>1. DiskTyped'
      BY <1>3 DEF Typed, DiskTyped, PointIds, Clean
    <2>2. Kept(index) \in Seq(1..begun.points)
      BY <1>3, KeptAndSurplus DEF Typed, DiskTyped, PointIds
    <2>3. Becomes(c, [k EXCEPT !.at = "clean-index", !.ids = Kept(index)])
      BY <1>3 DEF Clean
    <2> HIDE DEF k
    <2>4. CallGood([k EXCEPT !.at = "clean-index", !.ids = Kept(index)], begun.points)
      BY <1>1, <2>2, MovesOn DEF Indexing, Places, CallSound
    <2>5. CallsGood' /\ CountsTyped'
      BY <2>3, <2>4, MoveKeeps DEF Clean
    <2> QED
      BY <1>2, <2>1, <2>5 DEF Typed
  <1>4. CASE ~TooMany(index)
    <2>1. DiskTyped'
      BY <1>4 DEF Typed, DiskTyped, PointIds, Clean
    <2>2. CallsGood' /\ CountsTyped'
      BY <1>4, PointMadeKeeps DEF Clean
    <2> QED
      BY <1>2, <2>1, <2>2 DEF Typed
  <1> QED
    BY <1>3, <1>4

LEMMA TypedFillCleaned ==
    ASSUME Typed, limit' = limit, NEW c \in Calls, FillCleaned(c) PROVE Typed'
  <1>1. call[c].ids \in Seq(PointIds) /\ begun' = begun
    BY CallIs DEF FillCleaned, At
  <1>2. DiskTyped' /\ SnapshotsTyped' /\ ProposalsTyped'
    BY <1>1 DEF Typed, DiskTyped, SnapshotsTyped, ProposalsTyped, PointIds, FillCleaned, memory
  <1>3. CallsGood' /\ CountsTyped'
    BY PointMadeKeeps DEF FillCleaned
  <1> QED
    BY <1>2, <1>3 DEF Typed

(* The other calls begin in the same way: nothing but the calls changes.      *)
LEMMA TypedBegin ==
    ASSUME Typed, limit' = limit, NEW c \in Calls, NEW k, Begin(c, k),
           CallGood(k, begun.points), UNCHANGED <<disk, memory, faults, cut>>
    PROVE  Typed'
  <1>1. CallsGood' /\ CountsTyped' /\ begun'.points = begun.points
    BY BeginKeeps
  <1> QED
    BY <1>1 DEF Typed, DiskTyped, SnapshotsTyped, ProposalsTyped, PointIds, disk, memory

LEMMA NewCallGood ==
    ASSUME Typed, NEW op \in Ops, NEW at \in Places, op # "apply",
           op = "rollback" => at = "restore",
           op \in {"delete", "list", "rebuild"} => at \in {"write-index", "fill-index"},
           op = "cleanup" => at \in {"clean", "clean-index", "fill-clean"},
           at # "read-index",
           NEW k \in CallType, k.op = op, k.at = at, k.p = None, k.i = 0, k.point = 0,
           k.ids \in Seq(PointIds),
           op = "save" => SaveSound(k),
           op = "point" => k.f \in Files /\ at \in {"read"} \cup Indexing
    PROVE  CallGood(k, begun.points)
  <1>1. begun.points \in Nat /\ 0 \in 0..begun.points
    BY DEF Typed, CountsTyped
  <1>2. CallSound(k)
    BY DEF CallSound
  <1> QED
    BY <1>1, <1>2 DEF CallGood, PointIds

LEMMA TypedBeginPoint ==
    ASSUME Typed, limit' = limit, NEW c \in Calls, NEW f \in Files, BeginPoint(c, f)
    PROVE  Typed'
  <1> DEFINE new == NewCall("point", "read")
             k == [new EXCEPT !.f = f]
  <1>1. "point" \in Ops /\ "read" \in Places /\ file \in [Files -> Content]
    BY DEF Ops, Places, Typed, DiskTyped
  <1>2. /\ new \in CallType /\ new.op = "point" /\ new.at = "read" /\ new.p = None
        /\ new.i = 0 /\ new.point = 0 /\ new.ids = <<>>
    BY <1>1, NewCallIs
  <1>3. Begin(c, k) /\ UNCHANGED <<disk, memory, faults, cut>>
    BY DEF BeginPoint
  <1> HIDE DEF new
  <1>4. /\ k \in CallType /\ k.op = "point" /\ k.at = "read" /\ k.p = None /\ k.i = 0
        /\ k.point = 0 /\ k.ids = <<>> /\ k.f = f
    BY <1>2 DEF CallType
  <1> HIDE DEF k
  <1>5. <<>> \in Seq(PointIds)
    OBVIOUS
  <1>6. CallGood(k, begun.points)
    BY <1>1, <1>4, <1>5, NewCallGood
  <1> QED
    BY <1>3, <1>6, TypedBegin

LEMMA TypedBeginSave ==
    ASSUME Typed, limit' = limit, NEW c \in Calls, NEW f \in Files, NEW content \in Contents,
           BeginSave(c, f, content)
    PROVE  Typed'
  <1> DEFINE at == IF file[f] = Absent THEN "put" ELSE "read"
             new == NewCall("save", at)
             k == [new EXCEPT !.f = f, !.content = content]
  <1>1. "save" \in Ops /\ at \in Places /\ file \in [Files -> Content] /\ at \in {"read", "put"}
    BY DEF Ops, Places, Typed, DiskTyped
  <1>2. Begin(c, k) /\ UNCHANGED <<disk, memory, faults, cut>>
    BY DEF BeginSave
  <1> HIDE DEF at
  <1>3. /\ new \in CallType /\ new.op = "save" /\ new.at = at /\ new.p = None
        /\ new.i = 0 /\ new.point = 0 /\ new.ids = <<>>
    BY <1>1, NewCallIs
  <1> HIDE DEF new
  <1>4. content \in Content
    BY DEF Content
  <1>5. /\ k \in CallType /\ k.op = "save" /\ k.at = at /\ k.p = None /\ k.i = 0
        /\ k.point = 0 /\ k.ids = <<>> /\ k.f = f /\ k.content = content
    BY <1>3, <1>4 DEF CallType
  <1> HIDE DEF k
  <1>6. <<>> \in Seq(PointIds) /\ SaveSound(k)
    BY <1>1, <1>4, <1>5 DEF SaveSound
  <1>7. CallGood(k, begun.points)
    BY <1>1, <1>5, <1>6, NewCallGood
  <1> QED
    BY <1>2, <1>7, TypedBegin

LEMMA TypedBeginCleanup ==
    ASSUME Typed, limit' = limit, NEW c \in Calls, BeginCleanup(c) PROVE Typed'
  <1> DEFINE k == NewCall("cleanup", "clean")
  <1>1. "cleanup" \in Ops /\ "clean" \in Places /\ file \in [Files -> Content]
    BY DEF Ops, Places, Typed, DiskTyped
  <1>2. /\ k \in CallType /\ k.op = "cleanup" /\ k.at = "clean" /\ k.p = None
        /\ k.i = 0 /\ k.point = 0 /\ k.ids = <<>>
    BY <1>1, NewCallIs
  <1>3. Begin(c, k) /\ UNCHANGED <<disk, memory, faults, cut>>
    BY DEF BeginCleanup
  <1> HIDE DEF k
  <1>4. <<>> \in Seq(PointIds)
    OBVIOUS
  <1>5. CallGood(k, begun.points)
    BY <1>1, <1>2, <1>4, NewCallGood
  <1> QED
    BY <1>3, <1>5, TypedBegin

(* A deletion and the two repairs begin with the index they will write.       *)
LEMMA NewIndexCall ==
    ASSUME Typed, NEW op \in {"delete", "list", "rebuild"}, NEW ids \in Seq(PointIds)
    PROVE  LET k == [NewCall(op, "write-index") EXCEPT !.ids = ids] IN
           CallGood(k, begun.points) /\ k.op = op /\ k.at = "write-index" /\ k.ids = ids
  <1> DEFINE new == NewCall(op, "write-index")
             k == [new EXCEPT !.ids = ids]
  <1>1. op \in Ops /\ "write-index" \in Places /\ file \in [Files -> Content]
    BY DEF Ops, Places, Typed, DiskTyped
  <1>2. /\ new \in CallType /\ new.op = op /\ new.at = "write-index" /\ new.p = None
        /\ new.i = 0 /\ new.point = 0
    BY <1>1, NewCallIs
  <1>3. ids \in Seq(Nat)
    <2>1. PointIds \subseteq Nat
      BY DEF Typed, CountsTyped, PointIds
    <2> QED
      BY <2>1, SeqWider
  <1> HIDE DEF new
  <1>4. /\ k \in CallType /\ k.op = op /\ k.at = "write-index" /\ k.p = None /\ k.i = 0
        /\ k.point = 0 /\ k.ids = ids
    BY <1>2, <1>3 DEF CallType
  <1> HIDE DEF k
  <1>5. CallGood(k, begun.points)
    BY <1>1, <1>4, NewCallGood
  <1> QED
    BY <1>4, <1>5 DEF k, new

LEMMA TypedBeginDelete ==
    ASSUME Typed, limit' = limit, NEW c \in Calls, NEW r, BeginDelete(c, r) PROVE Typed'
  <1> DEFINE ids == Only(index, Nat \ {r})
             k == [NewCall("delete", "write-index") EXCEPT !.ids = ids]
  <1>1. ids \in Seq(PointIds)
    BY OnlyKeeps DEF Typed, DiskTyped
  <1>2. CallGood(k, begun.points)
    <2> HIDE DEF ids
    <2> QED
      BY <1>1, NewIndexCall
  <1>3. Begin(c, k) /\ UNCHANGED <<faults, cut>>
    BY DEF BeginDelete
  <1> HIDE DEF k
  <1>4. CallsGood' /\ CountsTyped' /\ begun'.points = begun.points
    BY <1>2, <1>3, BeginKeeps
  <1> QED
    BY <1>4 DEF Typed, DiskTyped, SnapshotsTyped, ProposalsTyped, PointIds, BeginDelete, memory

LEMMA TypedBeginList ==
    ASSUME Typed, limit' = limit, NEW c \in Calls, BeginList(c) PROVE Typed'
  <1> DEFINE ids == Only(index, DOMAIN points)
             k == [NewCall("list", "write-index") EXCEPT !.ids = ids]
  <1>1. ids \in Seq(PointIds)
    BY OnlyKeeps DEF Typed, DiskTyped
  <1>2. CallGood(k, begun.points)
    <2> HIDE DEF ids
    <2> QED
      BY <1>1, NewIndexCall
  <1>3. Begin(c, k) /\ UNCHANGED <<disk, memory, faults, cut>>
    BY DEF BeginList
  <1> HIDE DEF k
  <1> QED
    BY <1>2, <1>3, TypedBegin

LEMMA TypedBeginRebuild ==
    ASSUME Typed, limit' = limit, NEW c \in Calls, BeginRebuild(c) PROVE Typed'
  <1> DEFINE all == Reverse([r \in PointIds |-> r])
             ids == Only(all, DOMAIN points)
             k == [NewCall("rebuild", "write-index") EXCEPT !.ids = ids]
  <1>1. ids \in Seq(PointIds)
    <2>1. all \in Seq(PointIds)
      BY Countdown DEF Typed, CountsTyped, PointIds
    <2> HIDE DEF all
    <2> QED
      BY <2>1, OnlyKeeps
  <1>2. CallGood(k, begun.points)
    <2> HIDE DEF ids
    <2> QED
      BY <1>1, NewIndexCall
  <1>3. Begin(c, k) /\ UNCHANGED <<disk, memory, faults, cut>>
    BY DEF BeginRebuild
  <1> HIDE DEF k
  <1> QED
    BY <1>2, <1>3, TypedBegin

LEMMA TypedBeginApply ==
    ASSUME Typed, limit' = limit, NEW c \in Calls, NEW p \in Proposals, BeginApply(c, p)
    PROVE  Typed'
  <1> DEFINE new == NewCall("apply", "read")
             k == [new EXCEPT !.p = p]
  <1>1. "apply" \in Ops /\ "read" \in Places /\ file \in [Files -> Content]
    BY DEF Ops, Places, Typed, DiskTyped
  <1>2. /\ new \in CallType /\ new.op = "apply" /\ new.at = "read" /\ new.i = 0
        /\ new.point = 0 /\ new.ids = <<>>
    BY <1>1, NewCallIs
  <1>3. Begin(c, k) /\ UNCHANGED <<faults, cut>>
    BY DEF BeginApply
  <1> HIDE DEF new
  <1>4. /\ k \in CallType /\ k.op = "apply" /\ k.at = "read" /\ k.p = p /\ k.i = 0
        /\ k.point = 0 /\ k.ids = <<>>
    BY <1>2 DEF CallType
  <1> HIDE DEF k
  <1>5. ApplySound(k)
    BY <1>4, FilesOfProposal DEF ApplySound
  <1>6. begun.points \in Nat /\ 0 \in 0..begun.points /\ <<>> \in Seq(1..begun.points)
    BY DEF Typed, CountsTyped
  <1>7. CallGood(k, begun.points)
    BY <1>4, <1>5, <1>6 DEF CallGood, CallSound
  <1>8. CallsGood' /\ CountsTyped' /\ begun'.points = begun.points
    BY <1>3, <1>7, BeginKeeps
  <1>9. ProposalsTyped'
    <2>1. proposal[p] \in ProposalType
      BY DEF Typed, ProposalsTyped, BeginApply, ApplyMay
    <2> DEFINE applying == [proposal[p] EXCEPT !.state = "APPLYING"]
    <2>2. applying \in ProposalType
      BY <2>1 DEF ProposalType, States
    <2>3. proposal' = [proposal EXCEPT ![p] = applying]
      BY DEF BeginApply, Typed, ProposalsTyped
    <2> HIDE DEF applying
    <2> QED
      BY <2>2, <2>3 DEF Typed, ProposalsTyped
  <1> QED
    BY <1>8, <1>9 DEF Typed, DiskTyped, SnapshotsTyped, PointIds, BeginApply, disk

LEMMA TypedBeginRollback ==
    ASSUME Typed, limit' = limit, NEW c \in Calls, NEW r, BeginRollback(c, r) PROVE Typed'
  <1> DEFINE new == NewCall("rollback", "restore")
             k == [new EXCEPT !.saved = points[r]]
  <1>1. "rollback" \in Ops /\ "restore" \in Places /\ file \in [Files -> Content]
    BY DEF Ops, Places, Typed, DiskTyped
  <1>2. /\ new \in CallType /\ new.op = "rollback" /\ new.at = "restore" /\ new.p = None
        /\ new.i = 0 /\ new.point = 0 /\ new.ids = <<>>
    BY <1>1, NewCallIs
  <1>3. Begin(c, k) /\ UNCHANGED <<disk, memory, faults, cut>>
    BY DEF BeginRollback
  <1>4. points[r] \in FileMaps
    BY DEF BeginRollback, Typed, DiskTyped
  <1> HIDE DEF new
  <1>5. /\ k \in CallType /\ k.op = "rollback" /\ k.at = "restore" /\ k.p = None
        /\ k.i = 0 /\ k.point = 0 /\ k.ids = <<>>
    BY <1>2, <1>4 DEF CallType
  <1> HIDE DEF k
  <1>6. <<>> \in Seq(PointIds)
    OBVIOUS
  <1>7. CallGood(k, begun.points)
    BY <1>1, <1>5, <1>6, NewCallGood
  <1> QED
    BY <1>3, <1>7, TypedBegin

LEMMA NextChangeGood ==
    ASSUME NEW k, NEW n \in Nat, CallGood(k, n), k.op = "apply", k.i > 0,
           k.at \in {"change", "patch"}, k.i <= Len(Changes[k.p]),
           NEW new, new \in {[k EXCEPT !.i = @ + 1], [k EXCEPT !.at = "change", !.i = @ + 1]},
           new.at = "change"
    PROVE  CallGood(new, n)
  <1>1. k \in CallType /\ ApplySound(k) /\ k.point \in 0..n /\ k.i \in Nat
    BY DEF CallGood, CallSound, CallType
  <1>2. k.p \in Proposals /\ Len(Changes[k.p]) \in Nat
    BY <1>1, FilesOfProposal DEF ApplySound
  <1>3. /\ new \in CallType /\ new.op = "apply" /\ new.at = "change" /\ new.p = k.p
        /\ new.i = k.i + 1 /\ new.point = k.point /\ new.ids = k.ids
    <2>1. k.i + 1 \in Nat
      BY <1>1
    <2>2. CASE new = [k EXCEPT !.i = @ + 1]
      BY <1>1, <2>1, <2>2 DEF CallType
    <2>3. CASE new = [k EXCEPT !.at = "change", !.i = @ + 1]
      BY <1>1, <2>1, <2>3 DEF CallType, Places
    <2> QED
      BY <2>2, <2>3
  <1>4. ApplySound(new)
    BY <1>1, <1>2, <1>3 DEF ApplySound
  <1> QED
    BY <1>1, <1>3, <1>4 DEF CallGood, CallSound

LEMMA AtPatch ==
    ASSUME Typed, NEW c \in Calls, At(c, "change") \/ At(c, "patch")
    PROVE  LET k == call[c] IN
           /\ k \in CallType /\ CallGood(k, begun.points) /\ k.op = "apply" /\ k.i \in Nat
           /\ k.p \in Proposals /\ k.i > 0 /\ ApplySound(k) /\ begun.points \in Nat
           /\ Len(Changes[k.p]) \in Nat
           /\ k.at = "patch" => k.i <= Len(Changes[k.p])
           /\ k.i <= Len(Changes[k.p]) =>
                 /\ k.i \in DOMAIN Changes[k.p]
                 /\ Changes[k.p][k.i].file \in Files /\ Changes[k.p][k.i].content \in Content
  <1> DEFINE k == call[c]
  <1>1. /\ k \in CallType /\ CallGood(k, begun.points) /\ CallSound(k) /\ k.op \in Ops
        /\ k.i \in Nat /\ begun.points \in Nat /\ k.at \in {"change", "patch"}
    BY CallIs DEF At
  <1> HIDE DEF k
  <1>2. k.op = "apply" /\ ApplySound(k)
    BY <1>1 DEF CallSound, SaveSound, Indexing, Ops
  <1>3. k.p \in Proposals /\ k.i > 0 /\ (k.at = "patch" => k.i <= Len(Changes[k.p]))
    BY <1>1, <1>2 DEF ApplySound
  <1>4. Len(Changes[k.p]) \in Nat /\ DOMAIN Changes[k.p] = 1..Len(Changes[k.p])
    BY <1>3, FilesOfProposal
  <1>5. k.i <= Len(Changes[k.p]) =>
            /\ k.i \in DOMAIN Changes[k.p]
            /\ Changes[k.p][k.i].file \in Files /\ Changes[k.p][k.i].content \in Content
    BY <1>1, <1>3, <1>4, FilesOfProposal
  <1> QED
    BY <1>1, <1>2, <1>3, <1>4, <1>5 DEF k

LEMMA TypedChange ==
    ASSUME Typed, HeldApproved, limit' = limit, NEW c \in Calls, Change(c) PROVE Typed'
  <1> DEFINE k == call[c]
  <1>1. /\ k \in CallType /\ CallGood(k, begun.points) /\ k.op = "apply" /\ k.i \in Nat
        /\ k.p \in Proposals /\ k.i > 0 /\ ApplySound(k) /\ begun.points \in Nat
        /\ Len(Changes[k.p]) \in Nat /\ k.at = "change" /\ call[c] # None
        /\ k.i <= Len(Changes[k.p]) => Changes[k.p][k.i].file \in Files
    BY AtPatch DEF Change, At
  <1>2. SnapshotsTyped' /\ Absent \in Content
    BY DEF Typed, SnapshotsTyped, Change, Content
  <1>3. /\ UNCHANGED <<points, index, snapshot, snaps, begun, faults, calm, cut>>
        /\ file \in [Files -> Content]
    BY DEF Change, Typed, DiskTyped
  <1>4. CASE k.i > Len(Changes[k.p])
    <2>1. End(c) /\ SetState(c, "APPLIED") /\ UNCHANGED file
      BY <1>4 DEF Change
    <2>2. ProposalsTyped'
      BY <1>1, <2>1, SetStateTyped DEF States
    <2>3. CallsGood' /\ CountsTyped' /\ DiskTyped'
      BY <1>3, <2>1, EndKeeps DEF Typed, DiskTyped, PointIds
    <2> QED
      BY <1>2, <2>2, <2>3 DEF Typed
  <1>5. CASE k.i <= Len(Changes[k.p]) /\ Changes[k.p][k.i].type = "delete"
    <2>1. /\ file' = [file EXCEPT ![Changes[k.p][k.i].file] = Absent]
          /\ Becomes(c, [k EXCEPT !.i = @ + 1]) /\ UNCHANGED proposal
      BY <1>1, <1>5 DEF Change
    <2> HIDE DEF k
    <2>2. CallGood([k EXCEPT !.i = @ + 1], begun.points)
      <3>1. [k EXCEPT !.i = @ + 1].at = "change"
        BY <1>1 DEF CallType
      <3> QED
        BY <1>1, <1>5, <3>1, NextChangeGood
    <2>3. DiskTyped'
      BY <1>1, <1>2, <1>3, <1>5, <2>1 DEF Typed, DiskTyped, PointIds
    <2>4. CallsGood' /\ CountsTyped'
      BY <1>3, <2>1, <2>2, MoveKeeps
    <2> QED
      BY <1>2, <2>1, <2>3, <2>4 DEF Typed, ProposalsTyped
  <1>6. CASE k.i <= Len(Changes[k.p]) /\ Changes[k.p][k.i].type # "delete"
    <2> DEFINE new == [k EXCEPT !.at = "read"]
    <2>1. Becomes(c, new) /\ UNCHANGED <<file, proposal>>
      BY <1>1, <1>6 DEF Change, Goto
    <2> HIDE DEF k
    <2>2. /\ new \in CallType /\ new.at = "read" /\ new.op = k.op /\ new.p = k.p
          /\ new.i = k.i /\ new.point = k.point /\ new.ids = k.ids
      BY <1>1 DEF CallType, Places
    <2> HIDE DEF new
    <2>3. ApplySound(new)
      BY <1>1, <1>6, <2>2 DEF ApplySound
    <2>4. CallGood(new, begun.points)
      BY <1>1, <2>2, <2>3 DEF CallGood, CallSound
    <2>5. CallsGood' /\ CountsTyped'
      BY <1>3, <2>1, <2>4, MoveKeeps
    <2> QED
      BY <1>2, <1>3, <2>1, <2>5 DEF Typed, DiskTyped, PointIds, ProposalsTyped
  <1> QED
    BY <1>1, <1>4, <1>5, <1>6

LEMMA TypedPatch == ASSUME Typed, limit' = limit, NEW c \in Calls, Patch(c) PROVE Typed'
  <1> DEFINE k == call[c]
             new == [k EXCEPT !.at = "change", !.i = @ + 1]
  <1>1. /\ k \in CallType /\ CallGood(k, begun.points) /\ k.op = "apply" /\ k.i \in Nat
        /\ k.p \in Proposals /\ k.i > 0 /\ begun.points \in Nat /\ k.at = "patch"
        /\ k.i <= Len(Changes[k.p])
        /\ Changes[k.p][k.i].file \in Files /\ Changes[k.p][k.i].content \in Content
    BY AtPatch DEF Patch, At
  <1>2. /\ file' = [file EXCEPT ![Changes[k.p][k.i].file] = Changes[k.p][k.i].content]
        /\ Becomes(c, new)
        /\ UNCHANGED <<points, index, memory, begun, faults, calm, cut>>
    BY DEF Patch
  <1> HIDE DEF k
  <1>3. CallGood(new, begun.points)
    <2>1. k.i + 1 \in Nat
      BY <1>1
    <2>2. new.at = "change"
      BY <1>1, <2>1 DEF CallType
    <2> QED
      BY <1>1, <2>2, NextChangeGood
  <1>4. CallsGood' /\ CountsTyped'
    BY <1>2, <1>3, MoveKeeps
  <1>5. DiskTyped'
    BY <1>1, <1>2 DEF Typed, DiskTyped, PointIds
  <1> QED
    BY <1>2, <1>4, <1>5 DEF Typed, SnapshotsTyped, ProposalsTyped, memory

LEMMA TypedRefused ==
    ASSUME Typed, HeldApproved, limit' = limit, NEW c \in Calls, Refused(c) PROVE Typed'
  <1>1. ProposalsTyped'
    BY SetStateTyped DEF Refused, States
  <1>2. CallsGood' /\ CountsTyped'
    BY EndKeeps DEF Refused
  <1> QED
    BY <1>1, <1>2 DEF Typed, DiskTyped, SnapshotsTyped, PointIds, Refused, disk

LEMMA TypedApplyFails ==
    ASSUME Typed, limit' = limit, NEW c \in Calls, ApplyFails(c) PROVE Typed'
  <1> DEFINE k == call[c]
             new == [k EXCEPT !.at = "restore", !.ids = <<>>, !.saved = points[k.point]]
  <1>1. /\ k \in CallType /\ CallGood(k, begun.points) /\ CallSound(k) /\ k.op = "apply"
        /\ k.i > 0 /\ begun.points \in Nat
    BY CallIs DEF ApplyFails
  <1>2. CASE k.point \in DOMAIN points
    <2>1. Becomes(c, new)
      BY <1>2 DEF ApplyFails
    <2>2. points[k.point] \in FileMaps /\ <<>> \in Seq(Nat) /\ <<>> \in Seq(1..begun.points)
      BY <1>2 DEF Typed, DiskTyped
    <2> HIDE DEF k
    <2>3. /\ new \in CallType /\ new.at = "restore" /\ new.op = k.op /\ new.p = k.p
          /\ new.i = k.i /\ new.point = k.point /\ new.ids = <<>>
      BY <1>1, <2>2 DEF CallType, Places
    <2> HIDE DEF new
    <2>4. ApplySound(new)
      BY <1>1, <2>3 DEF ApplySound, CallSound
    <2>5. CallGood(new, begun.points)
      BY <1>1, <2>2, <2>3, <2>4 DEF CallGood, CallSound
    <2>6. CallsGood' /\ CountsTyped'
      BY <2>1, <2>5, MoveKeeps DEF ApplyFails
    <2> QED
      BY <2>6 DEF Typed, DiskTyped, SnapshotsTyped, ProposalsTyped, PointIds, ApplyFails,
                  disk, memory
  <1>3. CASE k.point \notin DOMAIN points
    <2>1. CallsGood' /\ CountsTyped'
      BY <1>3, EndKeeps DEF ApplyFails
    <2> QED
      BY <2>1 DEF Typed, DiskTyped, SnapshotsTyped, ProposalsTyped, PointIds, ApplyFails,
                  disk, memory
  <1> QED
    BY <1>2, <1>3

LEMMA RestoredTyped ==
    ASSUME Typed, HeldApproved, limit' = limit, NEW c \in Calls, NEW f, At(c, "restore"),
           Restored(c, f), f \in DOMAIN call[c].saved, UNCHANGED <<begun, calm>>
    PROVE  /\ CallsGood' /\ ProposalsTyped'
           /\ f \in Files /\ call[c].saved[f] \in Content
  <1> DEFINE k == call[c]
             left == DOMAIN k.saved \ {f}
             new == [k EXCEPT !.saved = [g \in left |-> k.saved[g]]]
  <1>1. /\ k \in CallType /\ CallGood(k, begun.points) /\ CallSound(k) /\ begun.points \in Nat
        /\ call[c] # None
    BY CallIs DEF At
  <1>2. k.saved \in FileMaps
    <2> HIDE DEF k
    <2> QED
      BY <1>1 DEF CallType
  <1>3. f \in Files /\ k.saved[f] \in Content
    BY <1>2, FileMapsAre
  <1>4. CASE left = {}
    <2>1. End(c) /\ (IF k.op = "apply" THEN SetState(c, "ROLLED_BACK") ELSE UNCHANGED proposal)
      BY <1>4 DEF Restored
    <2>2. ProposalsTyped'
      BY <1>1, <2>1, SetStateTyped DEF States, Typed, ProposalsTyped
    <2>3. CallsGood'
      BY <1>1, <2>1, CallsStayGood DEF Typed, End
    <2> QED
      BY <1>3, <2>2, <2>3
  <1>5. CASE left # {}
    <2>1. Becomes(c, new) /\ UNCHANGED proposal
      BY <1>5 DEF Restored
    <2>2. [g \in left |-> k.saved[g]] \in FileMaps
      BY <1>2, FileMapsAre
    <2> HIDE DEF left, k
    <2>3. /\ new \in CallType /\ new.at = k.at /\ new.op = k.op /\ new.p = k.p /\ new.i = k.i
          /\ new.point = k.point /\ new.ids = k.ids /\ new.f = k.f /\ new.content = k.content
      BY <1>1, <2>2 DEF CallType
    <2> HIDE DEF new
    <2>4. CallGood(new, begun.points)
      BY <1>1, <2>3 DEF CallGood, CallSound, ApplySound, SaveSound
    <2>5. CallsGood'
      BY <1>1, <2>1, <2>4, CallsStayGood DEF Typed
    <2> QED
      BY <1>3, <2>1, <2>5 DEF Typed, ProposalsTyped, k
  <1> QED
    BY <1>4, <1>5

LEMMA TypedRestoreFile ==
    ASSUME Typed, HeldApproved, limit' = limit, NEW c \in Calls, NEW f, RestoreFile(c, f)
    PROVE  Typed'
  <1>1. CallsGood' /\ ProposalsTyped' /\ f \in Files /\ call[c].saved[f] \in Content
    BY RestoredTyped DEF RestoreFile
  <1> QED
    BY <1>1 DEF Typed, DiskTyped, SnapshotsTyped, CountsTyped, PointIds, RestoreFile

LEMMA TypedRestoreFails ==
    ASSUME Typed, HeldApproved, limit' = limit, NEW c \in Calls, NEW f, RestoreFails(c, f)
    PROVE  Typed'
  <1>1. CallsGood' /\ ProposalsTyped'
    BY RestoredTyped DEF RestoreFails
  <1>2. faults' \in 0..limit.faults
    <2>1. faults \in 0..limit.faults /\ limit.faults \in Nat
      BY PatchBoundsAssumption DEF Typed, CountsTyped, LimitType
    <2> QED
      BY <2>1 DEF RestoreFails, FaultHits
  <1> QED
    BY <1>1, <1>2 DEF Typed, DiskTyped, SnapshotsTyped, CountsTyped, PointIds, RestoreFails, disk

LEMMA AtPut ==
    ASSUME Typed, NEW c \in Calls, At(c, "put") \/ At(c, "replace")
    PROVE  /\ call[c] \in CallType /\ call[c].op = "save" /\ SaveSound(call[c])
           /\ CallGood(call[c], begun.points) /\ begun.points \in Nat /\ call[c].i = 0
  <1> DEFINE k == call[c]
  <1>1. /\ k \in CallType /\ CallGood(k, begun.points) /\ CallSound(k) /\ k.op \in Ops
        /\ begun.points \in Nat /\ k.at \in {"put", "replace"}
    BY CallIs DEF At
  <1> HIDE DEF k
  <1>2. k.op = "save" /\ SaveSound(k) /\ k.i = 0
    BY <1>1 DEF CallSound, ApplySound, Indexing, Ops
  <1> QED
    BY <1>1, <1>2 DEF k

LEMMA TypedPut == ASSUME Typed, limit' = limit, NEW c \in Calls, Put(c) PROVE Typed'
  <1>1. call[c].f \in Files /\ call[c].content \in Content
    BY AtPut DEF Put, SaveSound
  <1>2. CallsGood' /\ CountsTyped'
    BY EndKeeps DEF Put
  <1> QED
    BY <1>1, <1>2 DEF Typed, DiskTyped, SnapshotsTyped, ProposalsTyped, PointIds, Put, memory

LEMMA TypedRemoveTarget ==
    ASSUME Typed, limit' = limit, NEW c \in Calls, RemoveTarget(c) PROVE Typed'
  <1> DEFINE k == call[c]
             new == [k EXCEPT !.at = "replace"]
  <1>1. /\ k \in CallType /\ k.op = "save" /\ SaveSound(k) /\ CallGood(k, begun.points)
        /\ begun.points \in Nat /\ k.i = 0
    BY AtPut DEF RemoveTarget
  <1>2. Becomes(c, new)
    BY DEF RemoveTarget, Goto
  <1>3. DiskTyped'
    BY <1>1 DEF Typed, DiskTyped, PointIds, RemoveTarget, SaveSound, Content
  <1> HIDE DEF k
  <1>4. /\ new \in CallType /\ new.at = "replace" /\ new.op = k.op /\ new.p = k.p /\ new.i = k.i
        /\ new.point = k.point /\ new.ids = k.ids /\ new.f = k.f /\ new.content = k.content
    BY <1>1 DEF CallType, Places
  <1> HIDE DEF new
  <1>5. CallGood(new, begun.points)
    BY <1>1, <1>4 DEF CallGood, CallSound, SaveSound
  <1>6. CallsGood' /\ CountsTyped'
    BY <1>2, <1>5, MoveKeeps DEF RemoveTarget
  <1> QED
    BY <1>3, <1>6 DEF Typed, SnapshotsTyped, ProposalsTyped, RemoveTarget, memory

LEMMA TypedCallFails == ASSUME Typed, limit' = limit, NEW c \in Calls, CallFails(c) PROVE Typed'
  <1>1. CallsGood' /\ CountsTyped'
    BY EndKeeps DEF CallFails
  <1> QED
    BY <1>1 DEF Typed, DiskTyped, SnapshotsTyped, ProposalsTyped, PointIds, CallFails,
                disk, memory

LEMMA TypedCrash == ASSUME Typed, limit' = limit, Crash PROVE Typed'
  <1>1. faults' \in 0..limit.faults
    <2>1. faults \in 0..limit.faults /\ limit.faults \in Nat
      BY PatchBoundsAssumption DEF Typed, CountsTyped, LimitType
    <2> QED
      BY <2>1 DEF Crash, FaultHits
  <1>2. (cut \/ Active # {}) \in BOOLEAN
    OBVIOUS
  <1>3. CountsTyped'
    BY <1>1, <1>2 DEF Typed, CountsTyped, Crash
  <1> QED
    BY <1>3 DEF Typed, DiskTyped, SnapshotsTyped, ProposalsTyped, CallsGood, PointIds,
                Crash, disk

LEMMA TypedInit == Init => Typed
  <1> SUFFICES ASSUME Init PROVE Typed
    OBVIOUS
  <1> DEFINE n == Len(StartPoints)
  <1>1. n \in Nat /\ StartPoints \in Seq(FileMaps) /\ DOMAIN StartPoints = 1..n
    BY PatchBoundsAssumption
  <1>2. begun = [calls |-> 0, points |-> n] /\ PointIds = 1..n
    BY DEF Init, PointIds
  <1>3. index \in Seq(PointIds)
    <2> HIDE DEF n
    <2> QED
      BY <1>1, <1>2, Countdown DEF Init
  <1>4. DiskTyped
    BY <1>1, <1>2, <1>3, PatchBoundsAssumption DEF DiskTyped, Init
  <1>5. limit \in Limits /\ limit.calls \in Nat /\ limit.faults \in Nat
    BY PatchBoundsAssumption DEF Init, LimitType
  <1>6. CountsTyped
    <2>1. 0 \in 0..limit.calls /\ 0 \in 0..limit.faults
      BY <1>5
    <2> HIDE DEF n
    <2>2. begun \in [calls: 0..limit.calls, points: Nat]
      BY <1>1, <1>2, <2>1
    <2>3. faults = 0 /\ calm \in BOOLEAN /\ cut \in BOOLEAN
      BY DEF Init
    <2> QED
      BY <1>5, <2>1, <2>2, <2>3 DEF CountsTyped
  <1>7. SnapshotsTyped /\ ProposalsTyped /\ CallsGood
    BY DEF SnapshotsTyped, ProposalsTyped, CallsGood, Init
  <1> QED
    BY <1>4, <1>6, <1>7 DEF Typed

LEMMA TypedStep == ASSUME Typed, HeldApproved, Next PROVE Typed'
  <1>1. limit' = limit
    BY DEF Next
  <1>2. ASSUME NEW p \in Proposals,
               Preview(p) \/ (\E v \in [FilesOf(p) -> 1..snaps] : Approve(p, v)) \/ Reject(p)
        PROVE  Typed'
    BY <1>1, <1>2, TypedPreview, TypedApprove, TypedReject
  <1>3. ASSUME NEW c \in Calls, Request(c) PROVE Typed'
    BY <1>1, <1>3, TypedBeginApply, TypedBeginPoint, TypedBeginSave, TypedBeginRollback,
       TypedBeginDelete, TypedBeginCleanup, TypedBeginList, TypedBeginRebuild DEF Request
  <1>4. ASSUME NEW c \in Calls, Goes(c) PROVE Typed'
    BY <1>1, <1>4, TypedMakePoint, TypedReadIndex, TypedEmptyIndex, TypedFillIndex, TypedClean,
       TypedFillCleaned, TypedChange, TypedPatch, TypedPut, TypedRestoreFile DEF Goes
  <1>5. ASSUME NEW c \in Calls, Fault(c) PROVE Typed'
    BY <1>1, <1>5, TypedRefused, TypedApplyFails, TypedRemoveTarget, TypedCallFails,
       TypedRestoreFails DEF Fault
  <1> QED
    BY <1>1, <1>2, <1>3, <1>4, <1>5, TypedUndo, TypedCrash DEF Next, Step

-----------------------------------------------------------------------------
(* Approvals                                                                  *)

(* A call works on what it began with.                                        *)
SameFields(k, old) ==
    /\ k.op = old.op /\ k.p = old.p /\ k.held = old.held
    /\ k.f = old.f /\ k.content = old.content /\ k.before = old.before

SameWork(c) == call'[c] # None => call[c] # None /\ SameFields(call'[c], call[c])

OthersStay(c) == \A d \in Calls \ {c} : call'[d] = call[d]

LEMMA BecomesIs ==
    ASSUME Typed, NEW c \in Calls, NEW k, Becomes(c, k)
    PROVE  call'[c] = k /\ OthersStay(c)
  BY DEF Typed, CallsGood, Becomes, OthersStay

LEMMA EndIs == ASSUME Typed, NEW c \in Calls, End(c) PROVE SameWork(c) /\ OthersStay(c)
  BY BecomesIs DEF End, SameWork

LEMMA FieldsStay ==
    ASSUME NEW old \in CallType, NEW at, NEW point, NEW i, NEW ids, NEW saved
    PROVE  /\ SameFields([old EXCEPT !.at = at, !.ids = ids], old)
           /\ SameFields([old EXCEPT !.at = at, !.point = point, !.ids = ids], old)
           /\ SameFields([old EXCEPT !.at = at], old)
           /\ SameFields([old EXCEPT !.i = i], old)
           /\ SameFields([old EXCEPT !.at = at, !.i = i], old)
           /\ SameFields([old EXCEPT !.at = at, !.i = i, !.ids = ids], old)
           /\ SameFields([old EXCEPT !.at = at, !.ids = ids, !.saved = saved], old)
           /\ SameFields([old EXCEPT !.saved = saved], old)
  BY DEF SameFields, CallType

LEMMA WorkIs ==
    ASSUME Typed, NEW c \in Calls, call[c] # None, NEW k, Becomes(c, k), SameFields(k, call[c])
    PROVE  SameWork(c) /\ OthersStay(c)
  BY BecomesIs, Zenon DEF SameWork

LEMMA WorkStays ==
    ASSUME Typed, NEW c \in Calls, call[c] # None, NEW at, NEW point, NEW i, NEW ids, NEW saved,
           \/ Becomes(c, [call[c] EXCEPT !.at = at, !.ids = ids])
           \/ Becomes(c, [call[c] EXCEPT !.at = at, !.point = point, !.ids = ids])
           \/ Becomes(c, [call[c] EXCEPT !.at = at])
           \/ Becomes(c, [call[c] EXCEPT !.i = i])
           \/ Becomes(c, [call[c] EXCEPT !.at = at, !.i = i])
           \/ Becomes(c, [call[c] EXCEPT !.at = at, !.i = i, !.ids = ids])
           \/ Becomes(c, [call[c] EXCEPT !.at = at, !.ids = ids, !.saved = saved])
           \/ Becomes(c, [call[c] EXCEPT !.saved = saved])
    PROVE  SameWork(c) /\ OthersStay(c)
  <1>1. call[c] \in CallType
    BY CallIs
  <1> QED
    BY <1>1, FieldsStay, WorkIs, Zenon

LEMMA PointMadeIs ==
    ASSUME Typed, NEW c \in Calls, call[c] # None, PointMade(c)
    PROVE  SameWork(c) /\ OthersStay(c)
  <1>1. CASE call[c].op = "apply" /\ call[c].i = 0
    BY <1>1, WorkStays DEF PointMade
  <1>2. CASE call[c].op = "apply" /\ call[c].i > 0
    BY <1>2, WorkStays DEF PointMade
  <1>3. CASE call[c].op = "save"
    BY <1>3, WorkStays DEF PointMade
  <1>4. CASE call[c].op \notin {"apply", "save"}
    BY <1>4, EndIs DEF PointMade
  <1> QED
    BY <1>1, <1>2, <1>3, <1>4, CallIs

LEMMA GoingOn ==
    ASSUME Typed, NEW c \in Calls, Goes(c) \/ Fault(c)
    PROVE  SameWork(c) /\ OthersStay(c)
  <1>1. CASE MakePoint(c)
    BY <1>1, WorkStays DEF MakePoint, At
  <1>2. CASE ReadIndex(c)
    BY <1>2, WorkStays DEF ReadIndex, At
  <1>3. CASE EmptyIndex(c)
    BY <1>3, WorkStays DEF EmptyIndex, At, Goto
  <1>4. CASE FillIndex(c)
    BY <1>4, WorkStays, EndIs DEF FillIndex, At
  <1>5. CASE Clean(c)
    BY <1>5, WorkStays, PointMadeIs DEF Clean, At
  <1>6. CASE FillCleaned(c)
    BY <1>6, PointMadeIs DEF FillCleaned, At
  <1>7. CASE Change(c)
    BY <1>7, WorkStays, EndIs DEF Change, At, Goto
  <1>8. CASE Patch(c)
    BY <1>8, WorkStays DEF Patch, At
  <1>9. CASE Put(c) \/ Refused(c) \/ CallFails(c)
    BY <1>9, EndIs DEF Put, Refused, CallFails
  <1>10. ASSUME NEW f \in Files, RestoreFile(c, f) \/ RestoreFails(c, f)
         PROVE  SameWork(c) /\ OthersStay(c)
    BY <1>10, WorkStays, EndIs DEF RestoreFile, RestoreFails, Restored, At
  <1>11. CASE ApplyFails(c)
    BY <1>11, WorkStays, EndIs DEF ApplyFails
  <1>12. CASE RemoveTarget(c)
    BY <1>12, WorkStays DEF RemoveTarget, At, Goto
  <1> QED
    BY <1>1, <1>2, <1>3, <1>4, <1>5, <1>6, <1>7, <1>8, <1>9, <1>10, <1>11, <1>12
    DEF Goes, Fault

(* What a request begins with.                                                *)
Fresh(k, op, at) ==
    /\ k \in CallType
    /\ k.op = op /\ k.at = at /\ k.held /\ k.i = 0 /\ k.point = 0 /\ k.before = file

(* The new content of the index, if the call will write one.                  *)
Ordered(k) == Decreasing(index) => Decreasing(k.ids)

LEMMA OrderedIds ==
    ASSUME Typed
    PROVE  /\ Decreasing(<<>>)
           /\ \A S : Decreasing(index) => Decreasing(Only(index, S))
           /\ \A S : Decreasing(Only(Reverse([r \in PointIds |-> r]), S))
           /\ \A S : /\ Only(index, S) \in Seq(Nat)
                    /\ Only(Reverse([r \in PointIds |-> r]), S) \in Seq(Nat)
  <1>1. index \in Seq(PointIds) /\ PointIds \subseteq Nat /\ begun.points \in Nat
    BY DEF Typed, DiskTyped, CountsTyped, PointIds
  <1>2. \A S : Decreasing(index) => Decreasing(Only(index, S))
    BY <1>1, OnlyKeeps
  <1>3. /\ Reverse([r \in PointIds |-> r]) \in Seq(PointIds)
        /\ Decreasing(Reverse([r \in PointIds |-> r]))
    BY <1>1, Countdown DEF PointIds
  <1>4. \A S : Decreasing(Only(Reverse([r \in PointIds |-> r]), S))
    BY <1>1, <1>3, OnlyKeeps
  <1>5. Decreasing(<<>>)
    BY DEF Decreasing
  <1>6. \A S : /\ Only(index, S) \in Seq(PointIds)
              /\ Only(Reverse([r \in PointIds |-> r]), S) \in Seq(PointIds)
    BY <1>1, <1>3, OnlyKeeps
  <1>7. \A S : /\ Only(index, S) \in Seq(Nat)
              /\ Only(Reverse([r \in PointIds |-> r]), S) \in Seq(Nat)
    BY <1>1, <1>6, SeqWider
  <1> QED
    BY <1>2, <1>4, <1>5, <1>7

(* When an operation is asked for, and where its call begins.                 *)
Asked(op, at, k) ==
    /\ op \in {"apply", "point"} => at = "read"
    /\ op = "save" => at \in {"put", "read"}
    /\ op = "rollback" => at = "restore"
    /\ op = "delete" => /\ at = "write-index"
                        /\ \E r : /\ k.ids = Only(index, Nat \ {r})
                                  /\ DOMAIN points' = DOMAIN points \ {r}
    /\ op = "cleanup" => at = "clean" /\ TooMany(index)
    /\ op = "list" => at = "write-index" /\ ~ ToSet(index) \subseteq DOMAIN points
    /\ op = "rebuild" => at = "write-index" /\ DOMAIN points # ToSet(index)
    /\ op # "delete" => points' = points

(* A request that is not an apply leaves files, index and proposals alone.    *)
OnlyBegins(c, k) == Begin(c, k) /\ Ordered(k) /\ UNCHANGED <<file, index, proposal>>

LEMMA RequestIs ==
    ASSUME Typed, NEW c \in Calls, Request(c)
    PROVE  \E op \in Ops, at \in Places \ {"read-index"} : \E k :
              /\ Fresh(k, op, at) /\ Begin(c, k) /\ call'[c] = k /\ OthersStay(c)
              /\ Ordered(k) /\ UNCHANGED <<file, index>> /\ Asked(op, at, k)
              /\ op = "apply" => /\ at = "read" /\ BeginApply(c, k.p) /\ k.p \in Proposals
              /\ op # "apply" => proposal' = proposal
  <1>1. file \in [Files -> Content]
    BY DEF Typed, DiskTyped
  <1>2. ASSUME NEW k, Begin(c, k) PROVE call'[c] = k /\ OthersStay(c)
    BY <1>2, BecomesIs DEF Begin
  <1>3. \A at \in {"read", "put", "restore", "write-index", "clean"} :
            at \in Places \ {"read-index"}
    BY DEF Places
  <1>4. \A op \in {"apply", "save", "point", "rollback", "delete", "list", "cleanup",
                   "rebuild"} : op \in Ops
    BY DEF Ops
  <1>5. ASSUME NEW p \in Proposals, BeginApply(c, p)
        PROVE  \E k : /\ Fresh(k, "apply", "read") /\ Begin(c, k) /\ k.p = p
                      /\ Ordered(k) /\ UNCHANGED <<file, index>> /\ Asked("apply", "read", k)
    <2> DEFINE k == [NewCall("apply", "read") EXCEPT !.p = p]
    <2>1. Fresh(k, "apply", "read") /\ k.p = p /\ k.ids = <<>>
      <3> DEFINE new == NewCall("apply", "read")
      <3>1. "apply" \in Ops /\ "read" \in Places
        BY <1>3, <1>4
      <3>2. new \in CallType /\ Fresh(new, "apply", "read") /\ new.ids = <<>>
        BY <1>1, <3>1, NewCallIs DEF Fresh
      <3> HIDE DEF new
      <3> QED
        BY <3>2 DEF CallType, Fresh, new
    <2>2. Begin(c, k) /\ UNCHANGED <<file, index>> /\ points' = points
      BY <1>5 DEF BeginApply, disk
    <2> HIDE DEF k
    <2>3. Ordered(k)
      BY <2>1, OrderedIds DEF Ordered
    <2> QED
      BY <2>1, <2>2, <2>3 DEF Asked
  <1>6. ASSUME NEW f \in Files, BeginPoint(c, f)
        PROVE  \E k :
                  /\ Fresh(k, "point", "read") /\ OnlyBegins(c, k)
                  /\ Asked("point", "read", k)
    <2> DEFINE new == NewCall("point", "read")
               k == [new EXCEPT !.f = f]
    <2>1. "point" \in Ops /\ "read" \in Places
      BY <1>3, <1>4
    <2>2. new \in CallType /\ Fresh(new, "point", "read") /\ new.ids = <<>>
      BY <1>1, <2>1, NewCallIs DEF Fresh
    <2>3. Begin(c, k) /\ UNCHANGED <<file, index, proposal>>
          /\ points' = points
      BY <1>6 DEF BeginPoint, memory, disk
    <2> HIDE DEF new
    <2>4. Fresh(k, "point", "read") /\ k.ids = <<>>
      BY <2>2 DEF CallType, Fresh
    <2> HIDE DEF k
    <2>5. Ordered(k)
      BY <2>4, OrderedIds DEF Ordered
    <2> QED
      BY <2>3, <2>4, <2>5 DEF OnlyBegins, Asked
  <1>7. ASSUME NEW f \in Files, NEW content \in Contents, BeginSave(c, f, content)
        PROVE  \E at \in Places \ {"read-index"} : \E k :
                  Fresh(k, "save", at) /\ OnlyBegins(c, k) /\ Asked("save", at, k)
    <2> DEFINE at == IF file[f] = Absent THEN "put" ELSE "read"
               new == NewCall("save", at)
               k == [new EXCEPT !.f = f, !.content = content]
    <2>1. "save" \in Ops /\ at \in Places \ {"read-index"} /\ at \in {"put", "read"}
      BY <1>3, <1>4
    <2>2. Begin(c, k) /\ UNCHANGED <<file, index, proposal>>
          /\ points' = points
      BY <1>7 DEF BeginSave, memory, disk
    <2> HIDE DEF at
    <2>3. new \in CallType /\ Fresh(new, "save", at) /\ new.ids = <<>>
      BY <1>1, <2>1, NewCallIs DEF Fresh
    <2> HIDE DEF new
    <2>4. Fresh(k, "save", at) /\ k.ids = <<>>
      BY <2>3 DEF CallType, Fresh, Content
    <2> HIDE DEF k
    <2>5. Ordered(k)
      BY <2>4, OrderedIds DEF Ordered
    <2> QED
      BY <2>1, <2>2, <2>4, <2>5 DEF OnlyBegins, Asked
  <1>8. ASSUME NEW r, BeginRollback(c, r)
        PROVE  \E k :
                  /\ Fresh(k, "rollback", "restore") /\ OnlyBegins(c, k)
                  /\ Asked("rollback", "restore", k)
    <2> DEFINE new == NewCall("rollback", "restore")
               k == [new EXCEPT !.saved = points[r]]
    <2>1. "rollback" \in Ops /\ "restore" \in Places
      BY <1>3, <1>4
    <2>2. new \in CallType /\ Fresh(new, "rollback", "restore") /\ new.ids = <<>>
      BY <1>1, <2>1, NewCallIs DEF Fresh
    <2>3. Begin(c, k) /\ UNCHANGED <<file, index, proposal>>
          /\ points' = points
      BY <1>8 DEF BeginRollback, memory, disk
    <2> HIDE DEF new
    <2>4. points[r] \in FileMaps
      BY <1>8 DEF BeginRollback, Typed, DiskTyped
    <2>5. Fresh(k, "rollback", "restore") /\ k.ids = <<>>
      BY <2>2, <2>4 DEF CallType, Fresh
    <2> HIDE DEF k
    <2>6. Ordered(k)
      BY <2>5, OrderedIds DEF Ordered
    <2> QED
      BY <2>3, <2>5, <2>6 DEF OnlyBegins, Asked
  <1>9. ASSUME NEW r, BeginDelete(c, r)
        PROVE  \E k :
                  /\ Fresh(k, "delete", "write-index") /\ OnlyBegins(c, k)
                  /\ Asked("delete", "write-index", k)
    <2> DEFINE new == NewCall("delete", "write-index")
               k == [new EXCEPT !.ids = Only(index, Nat \ {r})]
    <2>1. "delete" \in Ops /\ "write-index" \in Places
      BY <1>3, <1>4
    <2>2. new \in CallType /\ Fresh(new, "delete", "write-index") /\ new.ids = <<>>
      BY <1>1, <2>1, NewCallIs DEF Fresh
    <2>3. Begin(c, k) /\ UNCHANGED <<file, index, proposal>>
          /\ DOMAIN points' = DOMAIN points \ {r}
      BY <1>9 DEF BeginDelete, memory
    <2> HIDE DEF new
    <2>4. Fresh(k, "delete", "write-index") /\ k.ids = Only(index, Nat \ {r})
      BY <2>2, OrderedIds DEF CallType, Fresh
    <2> HIDE DEF k
    <2>5. Ordered(k)
      BY <2>4, OrderedIds DEF Ordered
    <2> QED
      BY <2>3, <2>4, <2>5 DEF OnlyBegins, Asked
  <1>10. ASSUME BeginCleanup(c)
         PROVE  \E k :
                   /\ Fresh(k, "cleanup", "clean") /\ OnlyBegins(c, k)
                   /\ Asked("cleanup", "clean", k)
    <2> DEFINE new == NewCall("cleanup", "clean")
               k == new
    <2>1. "cleanup" \in Ops /\ "clean" \in Places
      BY <1>3, <1>4
    <2>2. new \in CallType /\ Fresh(new, "cleanup", "clean") /\ new.ids = <<>>
      BY <1>1, <2>1, NewCallIs DEF Fresh
    <2>3. Begin(c, k) /\ UNCHANGED <<file, index, proposal>>
          /\ points' = points /\ TooMany(index)
      BY <1>10 DEF BeginCleanup, memory, disk
    <2> HIDE DEF new
    <2>4. Fresh(k, "cleanup", "clean") /\ k.ids = <<>>
      BY <2>2 DEF CallType, Fresh
    <2> HIDE DEF k
    <2>5. Ordered(k)
      BY <2>4, OrderedIds DEF Ordered
    <2> QED
      BY <2>3, <2>4, <2>5 DEF OnlyBegins, Asked
  <1>11. ASSUME BeginList(c)
         PROVE  \E k :
                   /\ Fresh(k, "list", "write-index") /\ OnlyBegins(c, k)
                   /\ Asked("list", "write-index", k)
    <2> DEFINE new == NewCall("list", "write-index")
               k == [new EXCEPT !.ids = Only(index, DOMAIN points)]
    <2>1. "list" \in Ops /\ "write-index" \in Places
      BY <1>3, <1>4
    <2>2. new \in CallType /\ Fresh(new, "list", "write-index") /\ new.ids = <<>>
      BY <1>1, <2>1, NewCallIs DEF Fresh
    <2>3. Begin(c, k) /\ UNCHANGED <<file, index, proposal>>
          /\ points' = points /\ ~ ToSet(index) \subseteq DOMAIN points
      BY <1>11 DEF BeginList, memory, disk
    <2> HIDE DEF new
    <2>4. Fresh(k, "list", "write-index") /\ k.ids = Only(index, DOMAIN points)
      BY <2>2, OrderedIds DEF CallType, Fresh
    <2> HIDE DEF k
    <2>5. Ordered(k)
      BY <2>4, OrderedIds DEF Ordered
    <2> QED
      BY <2>3, <2>4, <2>5 DEF OnlyBegins, Asked
  <1>12. ASSUME BeginRebuild(c)
         PROVE  \E k :
                   /\ Fresh(k, "rebuild", "write-index") /\ OnlyBegins(c, k)
                   /\ Asked("rebuild", "write-index", k)
    <2> DEFINE new == NewCall("rebuild", "write-index")
               k == [new EXCEPT !.ids = Only(Reverse([r \in PointIds |-> r]), DOMAIN points)]
    <2>1. "rebuild" \in Ops /\ "write-index" \in Places
      BY <1>3, <1>4
    <2>2. new \in CallType /\ Fresh(new, "rebuild", "write-index") /\ new.ids = <<>>
      BY <1>1, <2>1, NewCallIs DEF Fresh
    <2>3. Begin(c, k) /\ UNCHANGED <<file, index, proposal>>
          /\ points' = points /\ DOMAIN points # ToSet(index)
      BY <1>12 DEF BeginRebuild, memory, disk
    <2> HIDE DEF new
    <2>4. /\ Fresh(k, "rebuild", "write-index")
          /\ k.ids = Only(Reverse([r \in PointIds |-> r]), DOMAIN points)
      BY <2>2, OrderedIds DEF CallType, Fresh
    <2> HIDE DEF k
    <2>5. Ordered(k)
      BY <2>4, OrderedIds DEF Ordered
    <2> QED
      BY <2>3, <2>4, <2>5 DEF OnlyBegins, Asked
  <1> DEFINE Goal == \E op \in Ops, at \in Places \ {"read-index"} : \E k :
              /\ Fresh(k, op, at) /\ Begin(c, k) /\ call'[c] = k /\ OthersStay(c)
              /\ Ordered(k) /\ UNCHANGED <<file, index>> /\ Asked(op, at, k)
              /\ op = "apply" => /\ at = "read" /\ BeginApply(c, k.p) /\ k.p \in Proposals
              /\ op # "apply" => proposal' = proposal
  <1>13. ASSUME NEW op \in Ops, op # "apply", NEW at \in Places \ {"read-index"}, NEW k,
                Fresh(k, op, at), OnlyBegins(c, k), Asked(op, at, k)
         PROVE  Goal
    BY <1>2, <1>13 DEF OnlyBegins
  <1>14. CASE \E p \in Proposals : BeginApply(c, p)
    BY <1>2, <1>3, <1>4, <1>5, <1>14
  <1> HIDE DEF Goal
  <1>15. CASE \E f \in Files : BeginPoint(c, f)
    BY <1>3, <1>4, <1>6, <1>13, <1>15 DEF Goal
  <1>16. CASE \E f \in Files, content \in Contents : BeginSave(c, f, content)
    BY <1>4, <1>7, <1>13, <1>16 DEF Goal
  <1>17. CASE \E r \in DOMAIN points : BeginRollback(c, r) \/ BeginDelete(c, r)
    BY <1>3, <1>4, <1>8, <1>9, <1>13, <1>17 DEF Goal
  <1>18. CASE BeginCleanup(c) \/ BeginList(c) \/ BeginRebuild(c)
    BY <1>3, <1>4, <1>10, <1>11, <1>12, <1>13, <1>18 DEF Goal
  <1> QED
    BY <1>14, <1>15, <1>16, <1>17, <1>18 DEF Request

(* Whether the proposal may be applied after the step.                        *)
MayThen(p) == proposal'[p] # None /\ proposal'[p].approved = proposal'[p].version

Approvals == Typed /\ HeldApproved /\ ApprovalIsCurrent

LEMMA HeldStays ==
    ASSUME Typed, HeldApproved, \A c \in Calls : SameWork(c),
           \A p \in Proposals : ApplyMay(p) => MayThen(p)
    PROVE  HeldApproved'
  <1> SUFFICES ASSUME NEW c \in Calls, call'[c] # None, call'[c].op = "apply", call'[c].held
               PROVE  MayThen(call'[c].p)
    BY DEF HeldApproved, ApplyMay, MayThen
  <1>1. call[c] # None /\ call[c].op = "apply" /\ call[c].held /\ call'[c].p = call[c].p
    BY DEF SameWork, SameFields
  <1>2. ApplyMay(call[c].p) /\ call[c].p \in Proposals
    BY <1>1, CallIs DEF HeldApproved
  <1>3. \A p \in Proposals : ApplyMay(p) => MayThen(p)
    OBVIOUS
  <1> QED
    BY <1>1, <1>2, <1>3 DEF ApplyMay, MayThen

LEMMA SameWorkOfAll ==
    ASSUME NEW c \in Calls, SameWork(c), OthersStay(c) PROVE \A d \in Calls : SameWork(d)
  BY DEF SameWork, OthersStay, SameFields

(* Only the state of an approved proposal is set.                             *)
LEMMA StateOnly ==
    ASSUME Typed, ApprovalIsCurrent, NEW p \in Proposals, ApplyMay(p), NEW s \in States,
           proposal' = [proposal EXCEPT ![p].state = s]
    PROVE  ApprovalIsCurrent' /\ \A q \in Proposals : ApplyMay(q) => MayThen(q)
  <1>1. proposal[p] \in ProposalType
    BY DEF Typed, ProposalsTyped, ApplyMay, MayThen
  <1> DEFINE new == [proposal[p] EXCEPT !.state = s]
  <1>2. new \in ProposalType /\ new.version = proposal[p].version
        /\ new.approved = proposal[p].approved
    BY <1>1 DEF ProposalType
  <1>3. proposal'[p] = new /\ \A q \in Proposals \ {p} : proposal'[q] = proposal[q]
    BY DEF Typed, ProposalsTyped
  <1> HIDE DEF new
  <1>4. new # None /\ new.approved = new.version
    BY <1>2, NoneAssumption DEF ApplyMay, MayThen
  <1> QED
    BY <1>3, <1>4 DEF ApprovalIsCurrent, ApplyMay, MayThen

LEMMA SetStateKeeps ==
    ASSUME Approvals, NEW c \in Calls, call[c] # None, call[c].op = "apply",
           NEW s \in States, SetState(c, s)
    PROVE  ApprovalIsCurrent' /\ \A q \in Proposals : ApplyMay(q) => MayThen(q)
  <1>1. CASE ~call[c].held
    BY <1>1 DEF SetState, ApprovalIsCurrent, ApplyMay, MayThen, Approvals
  <1>2. CASE call[c].held
    BY <1>2, StateOnly, CallIs DEF SetState, HeldApproved, Approvals
  <1> QED
    BY <1>1, <1>2

LEMMA ProposalsStay ==
    ASSUME Approvals, proposal' = proposal
    PROVE  ApprovalIsCurrent' /\ \A q \in Proposals : ApplyMay(q) => MayThen(q)
  BY DEF Approvals, ApprovalIsCurrent, ApplyMay, MayThen

LEMMA ApprovalsPreview ==
    ASSUME Approvals, NEW p \in Proposals, Preview(p) PROVE HeldApproved' /\ ApprovalIsCurrent'
  <1> DEFINE new == [state |-> "WAITING_FOR_APPROVAL",
                     version |-> [f \in FilesOf(p) |-> Snapshots(FilesOf(p))[f].id],
                     approved |-> None]
  <1>1. proposal' = [proposal EXCEPT ![p] = new] /\ new.state = "WAITING_FOR_APPROVAL"
    BY DEF Preview
  <1> HIDE DEF new
  <1>2. proposal'[p] = new /\ \A q \in Proposals \ {p} : proposal'[q] = proposal[q]
    BY <1>1 DEF Approvals, Typed, ProposalsTyped
  <1>3. ApprovalIsCurrent'
    BY <1>1, <1>2 DEF ApprovalIsCurrent, Approvals
  <1>4. ASSUME NEW c \in Calls, call'[c] # None, call'[c].op = "apply", call'[c].held
        PROVE  MayThen(call'[c].p)
    <2>1. /\ call[c] # None
          /\ call'[c] = IF call[c].p = p THEN [call[c] EXCEPT !.held = FALSE] ELSE call[c]
      BY <1>4 DEF Preview, Active
    <2>2. call[c] \in CallType
      BY <2>1, CallIs DEF Approvals
    <2>3. call[c].p # p
      <3> SUFFICES ASSUME call[c].p = p PROVE FALSE
        OBVIOUS
      <3> DEFINE old == call[c]
      <3> HIDE DEF old
      <3>1. old \in CallType /\ call'[c] = [old EXCEPT !.held = FALSE]
        BY <2>1, <2>2 DEF old
      <3>2. [old EXCEPT !.held = FALSE].held = FALSE
        BY <3>1 DEF CallType
      <3> QED
        BY <1>4, <3>1, <3>2
    <2>4. call'[c] = call[c] /\ call[c].p \in Proposals /\ ApplyMay(call[c].p)
      BY <1>4, <2>1, <2>3, CallIs DEF Approvals, HeldApproved
    <2>5. proposal'[call[c].p] = proposal[call[c].p]
      BY <1>2, <2>3, <2>4
    <2> QED
      BY <2>4, <2>5 DEF ApplyMay, MayThen
  <1> QED
    BY <1>3, <1>4 DEF HeldApproved, ApplyMay, MayThen

LEMMA ApprovalsUser ==
    ASSUME Approvals, NEW p \in Proposals,
           (\E v : Approve(p, v)) \/ Reject(p)
    PROVE  HeldApproved' /\ ApprovalIsCurrent'
  <1>1. call' = call /\ \A c \in Calls : SameWork(c)
    BY DEF Approve, Reject, SameWork, SameFields
  <1>2. CASE \E v : Approve(p, v)
    <2>1. PICK v : Approve(p, v)
      BY <1>2
    <2>2. proposal[p] \in ProposalType /\ proposal[p].version = v
      BY <2>1 DEF Approve, Approvals, Typed, ProposalsTyped
    <2> DEFINE new == [proposal[p] EXCEPT !.approved = v, !.state = "APPROVED"]
    <2>3. new.state = "APPROVED" /\ new.approved = v /\ new.version = v /\ new \in ProposalType
      BY <2>2 DEF ProposalType, States
    <2>4. proposal'[p] = new /\ \A q \in Proposals \ {p} : proposal'[q] = proposal[q]
      BY <2>1 DEF Approve, Approvals, Typed, ProposalsTyped
    <2> HIDE DEF new
    <2>5. ApprovalIsCurrent' /\ \A q \in Proposals : ApplyMay(q) => MayThen(q)
      BY <2>3, <2>4, NoneAssumption DEF ApprovalIsCurrent, ApplyMay, MayThen, Approvals
    <2> QED
      BY <1>1, <2>5, HeldStays DEF Approvals
  <1>3. CASE Reject(p)
    <2>1. proposal[p] \in ProposalType
      BY <1>3 DEF Reject, Approvals, Typed, ProposalsTyped
    <2> DEFINE new == [proposal[p] EXCEPT !.state = "REJECTED"]
    <2>2. /\ new.state = "REJECTED" /\ new.approved = proposal[p].approved
          /\ new.version = proposal[p].version /\ new \in ProposalType
      BY <2>1 DEF ProposalType, States
    <2>3. proposal'[p] = new /\ \A q \in Proposals \ {p} : proposal'[q] = proposal[q]
      BY <1>3 DEF Reject, Approvals, Typed, ProposalsTyped
    <2> HIDE DEF new
    <2>4. ApprovalIsCurrent' /\ \A q \in Proposals : ApplyMay(q) => MayThen(q)
      BY <2>2, <2>3, NoneAssumption DEF ApprovalIsCurrent, ApplyMay, MayThen, Approvals
    <2> QED
      BY <1>1, <2>4, HeldStays DEF Approvals
  <1> QED
    BY <1>2, <1>3

LEMMA ApprovalsRequest ==
    ASSUME Approvals, NEW c \in Calls, Request(c) PROVE HeldApproved' /\ ApprovalIsCurrent'
  <1>1. PICK op \in Ops, at \in Places : \E k :
              /\ Fresh(k, op, at) /\ Begin(c, k) /\ call'[c] = k /\ OthersStay(c)
              /\ op = "apply" => /\ at = "read" /\ BeginApply(c, k.p) /\ k.p \in Proposals
              /\ op # "apply" => proposal' = proposal
    BY RequestIs DEF Approvals
  <1>2. PICK k :
              /\ Fresh(k, op, at) /\ Begin(c, k) /\ call'[c] = k /\ OthersStay(c)
              /\ op = "apply" => /\ at = "read" /\ BeginApply(c, k.p) /\ k.p \in Proposals
              /\ op # "apply" => proposal' = proposal
    BY <1>1
  <1>3. /\ ApprovalIsCurrent' /\ \A q \in Proposals : ApplyMay(q) => MayThen(q)
        /\ op = "apply" => MayThen(k.p)
    <2>1. CASE op = "apply"
      <3>1. /\ ApplyMay(k.p) /\ proposal' = [proposal EXCEPT ![k.p].state = "APPLYING"]
            /\ k.p \in Proposals /\ "APPLYING" \in States
        BY <1>2, <2>1 DEF BeginApply, States
      <3>2. ApprovalIsCurrent' /\ \A q \in Proposals : ApplyMay(q) => MayThen(q)
        BY <3>1, StateOnly DEF Approvals
      <3> QED
        BY <3>1, <3>2 DEF ApplyMay, MayThen
    <2>2. CASE op # "apply"
      BY <1>2, <2>2, ProposalsStay
    <2> QED
      BY <2>1, <2>2
  <1>4. ASSUME NEW d \in Calls, call'[d] # None, call'[d].op = "apply", call'[d].held
        PROVE  MayThen(call'[d].p)
    <2>1. CASE d = c
      BY <1>2, <1>3, <1>4, <2>1 DEF Fresh, ApplyMay, MayThen
    <2>2. CASE d # c
      <3>1. call'[d] = call[d]
        BY <1>2, <2>2 DEF OthersStay
      <3>2. ApplyMay(call[d].p) /\ call[d].p \in Proposals
        BY <1>4, <3>1, CallIs DEF Approvals, HeldApproved
      <3> QED
        BY <1>3, <3>1, <3>2 DEF ApplyMay, MayThen
    <2> QED
      BY <2>1, <2>2
  <1> QED
    BY <1>3, <1>4 DEF HeldApproved, ApplyMay, MayThen

LEMMA ApprovalsGoOn ==
    ASSUME Approvals, NEW c \in Calls, Goes(c) \/ Fault(c)
    PROVE  HeldApproved' /\ ApprovalIsCurrent'
  <1>1. \A d \in Calls : SameWork(d)
    BY GoingOn, SameWorkOfAll DEF Approvals
  <1>2. \/ proposal' = proposal
        \/ /\ call[c] # None /\ call[c].op = "apply"
           /\ \E s \in States : SetState(c, s)
    <2>1. \A s \in {"APPLIED", "FAILED", "ROLLED_BACK"} : s \in States
      BY DEF States
    <2>2. CASE Change(c)
      BY <2>1, <2>2, AtPatch DEF Change, At, Approvals
    <2>3. CASE Refused(c)
      BY <2>1, <2>3 DEF Refused
    <2>4. ASSUME NEW f \in Files, RestoreFile(c, f) \/ RestoreFails(c, f)
          PROVE  \/ proposal' = proposal
                 \/ /\ call[c] # None /\ call[c].op = "apply"
                    /\ \E s \in States : SetState(c, s)
      BY <2>1, <2>4 DEF RestoreFile, RestoreFails, Restored, At
    <2>5. CASE \/ MakePoint(c) \/ ReadIndex(c) \/ EmptyIndex(c) \/ FillIndex(c)
               \/ Clean(c) \/ FillCleaned(c) \/ Patch(c) \/ Put(c)
               \/ ApplyFails(c) \/ RemoveTarget(c) \/ CallFails(c)
      BY <2>5 DEF MakePoint, ReadIndex, EmptyIndex, FillIndex, Clean, FillCleaned, Patch, Put,
                  ApplyFails, RemoveTarget, CallFails, memory
    <2> QED
      BY <2>2, <2>3, <2>4, <2>5 DEF Goes, Fault
  <1>3. ApprovalIsCurrent' /\ \A q \in Proposals : ApplyMay(q) => MayThen(q)
    BY <1>2, ProposalsStay, SetStateKeeps
  <1> QED
    BY <1>1, <1>3, HeldStays DEF Approvals

LEMMA ApprovalsCrash == ASSUME Crash PROVE HeldApproved' /\ ApprovalIsCurrent'
  BY DEF Crash, HeldApproved, ApprovalIsCurrent

LEMMA ApprovalsStep == ASSUME Approvals, [Next]_vars PROVE Approvals'
  <1>1. CASE Next
    <2>1. Typed'
      BY <1>1, TypedStep DEF Approvals
    <2>2. ASSUME NEW p \in Proposals,
                 (\E v \in [FilesOf(p) -> 1..snaps] : Approve(p, v)) \/ Reject(p)
          PROVE  HeldApproved' /\ ApprovalIsCurrent'
      BY <1>1, <2>2, ApprovalsUser
    <2>3. ASSUME NEW f \in Files, Undo(f) PROVE HeldApproved' /\ ApprovalIsCurrent'
      <3>1. call' = call /\ \A c \in Calls : SameWork(c)
        BY <2>3 DEF Undo, SameWork, SameFields
      <3>2. proposal' = proposal
        BY <2>3 DEF Undo
      <3>3. ApprovalIsCurrent' /\ \A q \in Proposals : ApplyMay(q) => MayThen(q)
        BY <3>2, ProposalsStay DEF Approvals
      <3>4. HeldApproved'
        BY <3>1, <3>3, HeldStays DEF Approvals
      <3> QED
        BY <3>3, <3>4
    <2>4. ASSUME NEW c \in Calls, Request(c) \/ Goes(c) \/ Fault(c)
          PROVE  HeldApproved' /\ ApprovalIsCurrent'
      BY <1>1, <2>4, ApprovalsRequest, ApprovalsGoOn
    <2>5. ASSUME NEW p \in Proposals, Preview(p)
          PROVE  HeldApproved' /\ ApprovalIsCurrent'
      BY <1>1, <2>5, ApprovalsPreview
    <2>6. HeldApproved' /\ ApprovalIsCurrent'
      BY <1>1, <2>2, <2>3, <2>4, <2>5, ApprovalsCrash DEF Next, Step
    <2> QED
      BY <2>1, <2>6 DEF Approvals
  <1>2. CASE UNCHANGED vars
    BY <1>2 DEF vars, disk, memory, Approvals, Typed, DiskTyped, SnapshotsTyped, ProposalsTyped,
                CountsTyped, CallsGood, PointIds, HeldApproved, ApprovalIsCurrent, ApplyMay
  <1> QED
    BY <1>1, <1>2

LEMMA ApprovalsInit == Init => Approvals
  BY TypedInit DEF Approvals, Init, HeldApproved, ApprovalIsCurrent

(* The inductive invariant holds: every call that holds its proposal has one  *)
(* whose current preview is approved, through previews, ends of the process   *)
(* and whatever the calls do to each other.                                   *)
THEOREM ApprovalsHold == Spec => []Approvals
  <1> QED
    BY ApprovalsInit, ApprovalsStep, PTL DEF Spec

(* Every variable, and every call in flight, has its type.                    *)
THEOREM TypeCorrect == Spec => []TypeOK
  <1>1. Approvals => TypeOK
    BY TypedIsTypeOK DEF Approvals
  <1> QED
    BY <1>1, ApprovalsHold, PTL

(* A proposal is only said to be applied, or being applied, if the preview    *)
(* stored with it is the one that was approved, however calls overlap.        *)
THEOREM ApprovalCurrent == Spec => []ApprovalIsCurrent
  <1>1. Approvals => ApprovalIsCurrent
    BY DEF Approvals
  <1> QED
    BY <1>1, ApprovalsHold, PTL
=============================================================================
