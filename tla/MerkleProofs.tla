---------------------------- MODULE MerkleProofs ----------------------------
(***************************************************************************)
(* Proofs about module Merkle, for any data and any number of them: the    *)
(* inclusion proofs verify, they bind a position to its datum, and the     *)
(* root binds the data.  All of it goes by induction over the levels.      *)
(***************************************************************************)
EXTENDS Merkle, NaturalsInduction, WellFoundedInduction, TLAPS

-----------------------------------------------------------------------------
(* Induction over the naturals, for a set of them instead of a predicate.  *)
LEMMA NatSetInduction ==
  ASSUME NEW S, 0 \in S, \A n \in Nat : n \in S => n + 1 \in S
  PROVE  Nat \subseteq S
<1> SUFFICES ASSUME NEW T, T = Nat \ S, T # {} PROVE FALSE
  OBVIOUS
<1>1. PICK m \in T : \A k \in T : ~ (<<k, m>> \in OpToRel(<, Nat))
  BY WFMin, NatLessThanWellFounded
<1>2. m \in Nat /\ m # 0 /\ m - 1 \in Nat
  OBVIOUS
<1>3. \A k \in T : ~ (k < m)
  BY <1>1 DEF OpToRel
<1>4. m - 1 \in S
  BY <1>2, <1>3
<1> QED
  BY <1>2, <1>4

-----------------------------------------------------------------------------
(* One level and the next.                                                 *)
LEMMA PaddedSeq ==
  ASSUME NEW S, NEW level \in Seq(S)
  PROVE  /\ Padded(level) \in Seq(S)
         /\ Len(Padded(level)) \in {Len(level), Len(level) + 1}
         /\ Len(level) \in {0, 1} => Len(Padded(level)) = Len(level)
         /\ Len(Padded(level)) # 1 => Len(Padded(level)) % 2 = 0
         /\ \A i \in 1 .. Len(level) : Padded(level)[i] = level[i]
         /\ Len(Padded(level)) = Len(level) + 1 =>
              Padded(level)[Len(level) + 1] = level[Len(level)]
<1>1. Len(level) \in Nat
  OBVIOUS
<1>2. CASE Len(level) # 1 /\ Len(level) % 2 # 0
  <2>0. PICK size \in Nat : size = Len(level) /\ size # 1 /\ size % 2 # 0
    BY <1>1, <1>2
  <2>1. size > 1 /\ level # <<>>
    BY <2>0
  <2>2. Last(level) = level[Len(level)] /\ Last(level) \in S
    BY <2>1 DEF Last
  <2>3. Padded(level) = Append(level, Last(level))
    BY <1>2 DEF Padded
  <2>4. Len(Padded(level)) = Len(level) + 1 /\ (Len(level) + 1) % 2 = 0
    BY <1>1, <1>2, <2>0, <2>2, <2>3
  <2> QED
    BY <1>2, <2>0, <2>1, <2>2, <2>3, <2>4
<1>3. CASE Len(level) = 1 \/ Len(level) % 2 = 0
  BY <1>1, <1>3 DEF Padded
<1> QED
  BY <1>1, <1>2, <1>3

LEMMA LevelAboveSeq ==
  ASSUME NEW S, NEW level \in Seq(S)
  PROVE  /\ LevelAbove(level) \in Seq(S \X S)
         /\ Len(LevelAbove(level)) = Len(level) \div 2
         /\ \A i \in 1 .. Len(level) \div 2 :
              LevelAbove(level)[i] = Combined(level[2 * i - 1], level[2 * i])
<1>1. Len(level) \in Nat /\ Len(level) \div 2 \in Nat
  OBVIOUS
<1>2. \A i \in 1 .. Len(level) \div 2 :
        Combined(level[2 * i - 1], level[2 * i]) \in S \X S
  BY <1>1 DEF Combined
<1> QED
  BY <1>1, <1>2 DEF LevelAbove

-----------------------------------------------------------------------------
(* The recursive functions of the model exist: each is built up one place  *)
(* at a time.                                                              *)
IsLevels(level, d, m) ==
  level = [k \in 0 .. m |-> Padded(IF k = 0 THEN d ELSE LevelAbove(level[k - 1]))]

LEMMA LevelsExist == ASSUME NEW d PROVE \A m \in Nat : \E level : IsLevels(level, d, m)
<1> DEFINE N == {m \in Nat : \E level : IsLevels(level, d, m)}
<1>1. 0 \in N
  <2>1. IsLevels([k \in 0 .. 0 |-> Padded(d)], d, 0)
    BY DEF IsLevels
  <2> QED
    BY <2>1
<1>2. ASSUME NEW m \in Nat, m \in N PROVE m + 1 \in N
  <2>1. PICK level : IsLevels(level, d, m)
    BY <1>2
  <2> DEFINE more == [k \in 0 .. m + 1 |->
                        IF k = m + 1 THEN Padded(LevelAbove(level[m])) ELSE level[k]]
  <2>2. ASSUME NEW k \in 0 .. m + 1
        PROVE  more[k] = Padded(IF k = 0 THEN d ELSE LevelAbove(more[k - 1]))
    <3>1. CASE k = m + 1
      BY <3>1
    <3>2. CASE k \in 0 .. m
      BY <2>1, <3>2 DEF IsLevels
    <3> QED
      BY <3>1, <3>2
  <2>3. IsLevels(more, d, m + 1)
    BY <2>2 DEF IsLevels
  <2> QED
    BY <2>3
<1> HIDE DEF N
<1>3. Nat \subseteq N
  BY <1>1, <1>2, NatSetInduction
<1> QED
  BY <1>3 DEF N

IsHalved(i, index, m) ==
  i = [k \in 0 .. m |-> IF k = 0 THEN index ELSE i[k - 1] \div 2]

LEMMA HalvedExist == ASSUME NEW index PROVE \A m \in Nat : \E i : IsHalved(i, index, m)
<1> DEFINE N == {m \in Nat : \E i : IsHalved(i, index, m)}
<1>1. 0 \in N
  <2>1. IsHalved([k \in 0 .. 0 |-> index], index, 0)
    BY DEF IsHalved
  <2> QED
    BY <2>1
<1>2. ASSUME NEW m \in Nat, m \in N PROVE m + 1 \in N
  <2>1. PICK i : IsHalved(i, index, m)
    BY <1>2
  <2> DEFINE more == [k \in 0 .. m + 1 |-> IF k = m + 1 THEN i[m] \div 2 ELSE i[k]]
  <2>2. ASSUME NEW k \in 0 .. m + 1
        PROVE  more[k] = IF k = 0 THEN index ELSE more[k - 1] \div 2
    <3>1. CASE k = m + 1
      BY <3>1
    <3>2. CASE k \in 0 .. m
      BY <2>1, <3>2 DEF IsHalved
    <3> QED
      BY <3>1, <3>2
  <2>3. IsHalved(more, index, m + 1)
    BY <2>2 DEF IsHalved
  <2> QED
    BY <2>3
<1> HIDE DEF N
<1>3. Nat \subseteq N
  BY <1>1, <1>2, NatSetInduction
<1> QED
  BY <1>3 DEF N

IsClimb(at, datum, index, proof, m) ==
  at = [k \in 0 .. m |-> IF k = 0 THEN [hash |-> datum, index |-> index]
                         ELSE HashUp(at[k - 1], proof[k])]

LEMMA ClimbExists ==
  ASSUME NEW datum, NEW index, NEW proof
  PROVE  \A m \in Nat : \E at : IsClimb(at, datum, index, proof, m)
<1> DEFINE N == {m \in Nat : \E at : IsClimb(at, datum, index, proof, m)}
<1>1. 0 \in N
  <2>1. IsClimb([k \in 0 .. 0 |-> [hash |-> datum, index |-> index]],
                datum, index, proof, 0)
    BY DEF IsClimb
  <2> QED
    BY <2>1
<1>2. ASSUME NEW m \in Nat, m \in N PROVE m + 1 \in N
  <2>1. PICK at : IsClimb(at, datum, index, proof, m)
    BY <1>2
  <2> DEFINE more == [k \in 0 .. m + 1 |->
                        IF k = m + 1 THEN HashUp(at[m], proof[m + 1]) ELSE at[k]]
  <2>2. ASSUME NEW k \in 0 .. m + 1
        PROVE  more[k] = IF k = 0 THEN [hash |-> datum, index |-> index]
                         ELSE HashUp(more[k - 1], proof[k])
    <3>1. CASE k = m + 1
      BY <3>1
    <3>2. CASE k \in 0 .. m
      BY <2>1, <3>2 DEF IsClimb
    <3> QED
      BY <3>1, <3>2
  <2>3. IsClimb(more, datum, index, proof, m + 1)
    BY <2>2 DEF IsClimb
  <2> QED
    BY <2>3
<1> HIDE DEF N
<1>3. Nat \subseteq N
  BY <1>1, <1>2, NatSetInduction
<1> QED
  BY <1>3 DEF N

-----------------------------------------------------------------------------
(* The tree of MerkleTree::new: levels of even length, each half as long   *)
(* as the one below, padding aside, up to one of a single hash.            *)
IsRow(row) == \E S : row \in Seq(S)

Stacked(level, top) ==
  /\ top \in Nat
  /\ \A k \in 0 .. top : IsRow(level[k])
  /\ Len(level[top]) = 1
  /\ \A k \in 0 .. top - 1 :
       /\ Len(level[k]) > 1
       /\ Len(level[k]) % 2 = 0
       /\ level[k + 1] = Padded(LevelAbove(level[k]))

(* The lengths of a level and of the one above it.                         *)
Halves(upper, lower) ==
  /\ upper \in Nat /\ lower \in Nat
  /\ upper \in {lower \div 2, (lower \div 2) + 1}
  /\ lower \div 2 \in {0, 1} => upper = lower \div 2
  /\ upper # 1 => upper % 2 = 0

LEMMA HalvesShrink ==
  ASSUME NEW upper, NEW lower, Halves(upper, lower)
  PROVE  /\ lower > 1 => upper > 0 /\ upper < lower
         /\ lower <= 1 => upper = 0
BY DEF Halves

LEMMA RowAbove ==
  ASSUME NEW row, IsRow(row)
  PROVE  /\ IsRow(Padded(LevelAbove(row)))
         /\ Halves(Len(Padded(LevelAbove(row))), Len(row))
         /\ \A i \in 1 .. Len(row) \div 2 :
              Padded(LevelAbove(row))[i] = Combined(row[2 * i - 1], row[2 * i])
         /\ Len(Padded(LevelAbove(row))) = (Len(row) \div 2) + 1 =>
              Padded(LevelAbove(row))[(Len(row) \div 2) + 1] =
                Padded(LevelAbove(row))[Len(row) \div 2]
<1>1. PICK S : row \in Seq(S)
  BY DEF IsRow
<1>2. PICK above : above = LevelAbove(row)
  OBVIOUS
<1>3. /\ above \in Seq(S \X S) /\ Len(above) = Len(row) \div 2
      /\ \A i \in 1 .. Len(row) \div 2 : above[i] = Combined(row[2 * i - 1], row[2 * i])
  <2> HIDE <1>2
  <2>1. /\ LevelAbove(row) \in Seq(S \X S)
        /\ Len(LevelAbove(row)) = Len(row) \div 2
        /\ \A i \in 1 .. Len(row) \div 2 :
             LevelAbove(row)[i] = Combined(row[2 * i - 1], row[2 * i])
    BY <1>1, LevelAboveSeq
  <2> QED
    BY <1>2, <2>1
<1>4. PICK padded : padded = Padded(above)
  OBVIOUS
<1>5. /\ padded \in Seq(S \X S)
      /\ Len(padded) \in {Len(above), Len(above) + 1}
      /\ Len(above) \in {0, 1} => Len(padded) = Len(above)
      /\ Len(padded) # 1 => Len(padded) % 2 = 0
      /\ \A i \in 1 .. Len(above) : padded[i] = above[i]
      /\ Len(padded) = Len(above) + 1 => padded[Len(above) + 1] = above[Len(above)]
  BY <1>3, <1>4, PaddedSeq
<1>6. Halves(Len(padded), Len(row))
  BY <1>1, <1>3, <1>5 DEF Halves
<1>7. Len(padded) = Len(above) + 1 => padded[Len(above) + 1] = padded[Len(above)]
  <2>1. PICK size \in Nat : size = Len(above)
    BY <1>3
  <2> SUFFICES ASSUME Len(padded) = size + 1 PROVE padded[size + 1] = padded[size]
    BY <2>1
  <2>2. size \in 1 .. size
    BY <1>5, <2>1
  <2> QED
    BY <1>5, <2>1, <2>2
<1> QED
  BY <1>2, <1>3, <1>4, <1>5, <1>6, <1>7 DEF IsRow

LEMMA LevelsAre ==
  ASSUME NEW S, NEW d \in Seq(S)
  PROVE  /\ Levels(d)[0] = Padded(d)
         /\ \A k \in 1 .. Len(d) : Levels(d)[k] = Padded(LevelAbove(Levels(d)[k - 1]))
         /\ \A k \in 0 .. Len(d) : IsRow(Levels(d)[k])
<1> DEFINE level == CHOOSE level : IsLevels(level, d, Len(d))
<1>0. Len(d) \in Nat
  OBVIOUS
<1>1. IsLevels(level, d, Len(d))
  BY <1>0, LevelsExist
<1>2. Levels(d) = level
  BY DEF Levels, IsLevels
<1> HIDE DEF level
<1>3. /\ level[0] = Padded(d)
      /\ \A k \in 1 .. Len(d) : level[k] = Padded(LevelAbove(level[k - 1]))
  BY <1>0, <1>1 DEF IsLevels
<1> DEFINE N == {k \in Nat : k <= Len(d) => IsRow(level[k])}
<1>4. 0 \in N
  BY <1>3, PaddedSeq DEF IsRow
<1>5. ASSUME NEW k \in Nat, k \in N PROVE k + 1 \in N
  <2> SUFFICES ASSUME k + 1 <= Len(d) PROVE IsRow(level[k + 1])
    OBVIOUS
  <2>1. k + 1 \in 1 .. Len(d) /\ (k + 1) - 1 = k /\ IsRow(level[k])
    BY <1>0, <1>5
  <2>2. level[k + 1] = Padded(LevelAbove(level[k]))
    BY <1>3, <2>1
  <2> QED
    BY <2>1, <2>2, RowAbove
<1>6. Nat \subseteq N
  <2> HIDE DEF N
  <2> QED
    BY <1>4, <1>5, NatSetInduction
<1> QED
  BY <1>0, <1>2, <1>3, <1>6

(* Each level is shorter than the one below it as long as that has more    *)
(* than one hash, so the loop of new() ends.                               *)
LEMMA LengthsReachOne ==
  ASSUME NEW size \in Nat \ {0}, NEW len,
         len[0] \in {size, size + 1},
         \A k \in 1 .. size : Halves(len[k], len[k - 1])
  PROVE  \E k \in 0 .. size : len[k] = 1
<1> SUFFICES ASSUME \A k \in 0 .. size : len[k] # 1 PROVE FALSE
  OBVIOUS
<1> DEFINE N == {k \in Nat : k <= size => len[k] \in 2 .. size + 1 - k}
<1>1. 0 \in N
  OBVIOUS
<1>2. ASSUME NEW k \in Nat, k \in N PROVE k + 1 \in N
  <2> SUFFICES ASSUME k + 1 <= size PROVE len[k + 1] \in 2 .. size + 1 - (k + 1)
    OBVIOUS
  <2>1. k + 1 \in 1 .. size /\ (k + 1) - 1 = k /\ len[k] \in 2 .. size + 1 - k
    BY <1>2
  <2>2. Halves(len[k + 1], len[k]) /\ len[k + 1] # 1
    BY <2>1
  <2>3. len[k + 1] > 0 /\ len[k + 1] < len[k] /\ len[k + 1] \in Nat
    BY <2>1, <2>2, HalvesShrink DEF Halves
  <2> QED
    BY <2>1, <2>2, <2>3
<1> HIDE DEF N
<1>3. Nat \subseteq N
  BY <1>1, <1>2, NatSetInduction
<1> QED
  BY <1>3 DEF N

LEMMA TopExists ==
  ASSUME NEW S, NEW d \in Seq(S), d # <<>>
  PROVE  Top(d) \in 0 .. Len(d) /\ Len(Levels(d)[Top(d)]) = 1
<1>1. PICK size \in Nat \ {0} : size = Len(d)
  OBVIOUS
<1>2. PICK level : level = Levels(d)
  OBVIOUS
<1>3. /\ level[0] = Padded(d)
      /\ \A k \in 1 .. size : level[k] = Padded(LevelAbove(level[k - 1]))
      /\ \A k \in 0 .. size : IsRow(level[k])
  BY <1>1, <1>2, LevelsAre
<1>4. PICK len : len = [k \in 0 .. size |-> Len(level[k])]
  OBVIOUS
<1>5. len[0] \in {size, size + 1}
  BY <1>1, <1>3, <1>4, PaddedSeq
<1>6. \A k \in 1 .. size : Halves(len[k], len[k - 1])
  <2> TAKE k \in 1 .. size
  <2>1. k \in 0 .. size /\ k - 1 \in 0 .. size
    OBVIOUS
  <2>2. Halves(Len(level[k]), Len(level[k - 1]))
    BY <1>3, <2>1, RowAbove
  <2> QED
    BY <1>4, <2>1, <2>2
<1>7. \E k \in 0 .. size : Len(level[k]) = 1
  <2>1. PICK k \in 0 .. size : len[k] = 1
    BY <1>5, <1>6, LengthsReachOne
  <2> QED
    BY <1>4, <2>1
<1> QED
  BY <1>1, <1>2, <1>7 DEF Top

(* And no level below the top is of one hash or of none.                   *)
LEMMA LengthsBelowTop ==
  ASSUME NEW top \in Nat, NEW len, len[top] = 1,
         \A k \in 1 .. top : Halves(len[k], len[k - 1])
  PROVE  \A k \in 0 .. top - 1 : len[k] > 1
<1> DEFINE N == {k \in Nat : k <= top => len[top - k] > 0}
<1>1. 0 \in N
  OBVIOUS
<1>2. ASSUME NEW k \in Nat, k \in N PROVE k + 1 \in N
  <2> SUFFICES ASSUME k + 1 <= top PROVE len[top - (k + 1)] > 0
    OBVIOUS
  <2>1. PICK j \in 1 .. top : j = top - k /\ j - 1 = top - (k + 1)
    OBVIOUS
  <2>2. len[j] > 0 /\ Halves(len[j], len[j - 1])
    BY <1>2, <2>1
  <2>3. len[j - 1] \in Nat /\ len[j - 1] > 1
    BY <2>2, HalvesShrink DEF Halves
  <2> QED
    BY <2>1, <2>3
<1> HIDE DEF N
<1>3. Nat \subseteq N
  BY <1>1, <1>2, NatSetInduction
<1>4. ASSUME NEW k \in 0 .. top - 1 PROVE len[k] > 1
  <2>1. PICK j \in 1 .. top : j = k + 1 /\ j - 1 = k
    OBVIOUS
  <2>2. PICK i \in Nat : i <= top /\ top - i = j
    OBVIOUS
  <2>3. len[j] > 0 /\ Halves(len[j], len[k])
    BY <1>3, <2>1, <2>2 DEF N
  <2> QED
    BY <2>3, HalvesShrink DEF Halves
<1> QED
  BY <1>4

LEMMA TreeIsStacked ==
  ASSUME NEW S, NEW d \in Seq(S), d # <<>>
  PROVE  /\ Stacked(Levels(d), Top(d))
         /\ Levels(d)[0] = Padded(d)
         /\ TreeList(d) = [k \in 1 .. Top(d) + 1 |-> Levels(d)[k - 1]]
         /\ Len(TreeList(d)) = Top(d) + 1
         /\ Root(d) = Levels(d)[Top(d)][1]
<1>1. PICK size \in Nat : size = Len(d)
  OBVIOUS
<1>2. PICK level, top : level = Levels(d) /\ top = Top(d)
  OBVIOUS
<1>3. /\ top \in 0 .. size /\ Len(level[top]) = 1
      /\ level[0] = Padded(d)
      /\ \A k \in 1 .. size : level[k] = Padded(LevelAbove(level[k - 1]))
      /\ \A k \in 0 .. size : IsRow(level[k])
  BY <1>1, <1>2, LevelsAre, TopExists
<1>4. /\ TreeList(d) = [k \in 1 .. top + 1 |-> level[k - 1]]
      /\ Len(TreeList(d)) = top + 1
      /\ Root(d) = level[top][1]
  <2>1. TreeList(d) = [k \in 1 .. top + 1 |-> level[k - 1]]
    BY <1>2 DEF TreeList
  <2>2. Len(TreeList(d)) = top + 1
    BY <1>3, <2>1
  <2>3. Last(TreeList(d)) = level[top]
    BY <1>3, <2>1, <2>2 DEF Last
  <2> QED
    BY <2>1, <2>2, <2>3 DEF Root
<1>5. \A k \in 1 .. top : Halves(Len(level[k]), Len(level[k - 1]))
  <2> TAKE k \in 1 .. top
  <2>1. k \in 1 .. size /\ k - 1 \in 0 .. size
    BY <1>3
  <2> QED
    BY <1>3, <2>1, RowAbove
<1>6. \A k \in 0 .. top - 1 : Len(level[k]) > 1
  <2>1. PICK len : len = [k \in 0 .. top |-> Len(level[k])]
    OBVIOUS
  <2>2. \A k \in 1 .. top : Halves(len[k], len[k - 1])
    BY <1>3, <1>5, <2>1
  <2>3. len[top] = 1 /\ top \in Nat
    BY <1>3, <2>1
  <2>4. \A k \in 0 .. top - 1 : len[k] > 1
    BY <2>2, <2>3, LengthsBelowTop
  <2> TAKE k \in 0 .. top - 1
  <2>5. k \in 0 .. top
    BY <2>3
  <2>6. len[k] = Len(level[k])
    BY <2>1, <2>5
  <2> QED
    BY <2>4, <2>6
<1>7. ASSUME NEW k \in 0 .. top - 1 PROVE Len(level[k]) % 2 = 0
  <2>1. Len(level[k]) # 1
    <3>1. Len(level[k]) > 1
      BY <1>6
    <3>2. k \in 0 .. size
      BY <1>3
    <3>3. PICK l \in Nat : l = Len(level[k])
      BY <1>3, <3>2 DEF IsRow
    <3>4. l > 1
      BY <3>1, <3>3, Zenon
    <3>5. l # 1
      BY <3>4
    <3> QED
      BY <3>3, <3>5, Zenon
  <2>2. CASE k = 0
    <3>1. Len(Padded(d)) # 1 => Len(Padded(d)) % 2 = 0
      BY PaddedSeq
    <3> QED
      BY <1>3, <2>1, <2>2, <3>1
  <2>3. CASE k # 0
    <3>1. k \in 1 .. top
      BY <1>3, <2>3
    <3> QED
      BY <1>5, <2>1, <3>1 DEF Halves
  <2> QED
    BY <2>2, <2>3
<1>8. \A k \in 0 .. top - 1 : level[k + 1] = Padded(LevelAbove(level[k]))
  <2> TAKE k \in 0 .. top - 1
  <2>1. PICK j \in 1 .. size : j = k + 1 /\ j - 1 = k
    BY <1>3
  <2> QED
    BY <1>3, <2>1
<1>9. \A k \in 0 .. top : IsRow(level[k])
  BY <1>3
<1>10. Stacked(level, top)
  <2>1. top \in Nat /\ Len(level[top]) = 1
    BY <1>3
  <2> HIDE <1>3
  <2> QED
    BY <1>6, <1>7, <1>8, <1>9, <2>1, Zenon DEF Stacked
<1> QED
  BY <1>2, <1>3, <1>4, <1>10

-----------------------------------------------------------------------------
(* The indices on the way up.                                              *)
LEMMA HalvedAgree ==
  ASSUME NEW index, NEW m \in Nat, NEW n \in Nat, NEW i, NEW j,
         IsHalved(i, index, m), IsHalved(j, index, n)
  PROVE  \A k \in Nat : k <= m /\ k <= n => i[k] = j[k]
<1> DEFINE N == {k \in Nat : k <= m /\ k <= n => i[k] = j[k]}
<1>1. 0 \in N
  BY DEF IsHalved
<1>2. ASSUME NEW k \in Nat, k \in N PROVE k + 1 \in N
  <2> SUFFICES ASSUME k + 1 <= m, k + 1 <= n PROVE i[k + 1] = j[k + 1]
    OBVIOUS
  <2>1. i[k] = j[k] /\ k + 1 \in 0 .. m /\ k + 1 \in 0 .. n /\ k + 1 # 0 /\ (k + 1) - 1 = k
    BY <1>2
  <2>2. i[k + 1] = i[k] \div 2
    BY <2>1 DEF IsHalved
  <2>3. j[k + 1] = j[k] \div 2
    BY <2>1 DEF IsHalved
  <2> QED
    BY <2>1, <2>2, <2>3
<1> HIDE DEF N
<1>3. Nat \subseteq N
  BY <1>1, <1>2, NatSetInduction
<1> QED
  BY <1>3 DEF N

LEMMA HalvedIs ==
  ASSUME NEW index \in Nat
  PROVE  /\ Halved(index, 0) = index
         /\ \A k \in Nat : /\ Halved(index, k) \in Nat
                           /\ Halved(index, k + 1) = Halved(index, k) \div 2
<1>1. ASSUME NEW k \in Nat
      PROVE  \E i : IsHalved(i, index, k) /\ Halved(index, k) = i[k]
  <2> DEFINE i == CHOOSE i : IsHalved(i, index, k)
  <2>1. IsHalved(i, index, k)
    BY HalvedExist
  <2>2. Halved(index, k) = i[k]
    BY DEF Halved, IsHalved
  <2> QED
    BY <2>1, <2>2
<1>2. Halved(index, 0) = index
  BY <1>1 DEF IsHalved
<1>3. ASSUME NEW k \in Nat PROVE Halved(index, k + 1) = Halved(index, k) \div 2
  <2>1. PICK i : IsHalved(i, index, k) /\ Halved(index, k) = i[k]
    BY <1>1
  <2>2. PICK j : IsHalved(j, index, k + 1) /\ Halved(index, k + 1) = j[k + 1]
    BY <1>1
  <2>3. i[k] = j[k]
    BY <2>1, <2>2, HalvedAgree
  <2>4. j[k + 1] = j[k] \div 2
    BY <2>2 DEF IsHalved
  <2> QED
    BY <2>1, <2>2, <2>3, <2>4
<1> DEFINE N == {k \in Nat : Halved(index, k) \in Nat}
<1>4. 0 \in N
  BY <1>2
<1>5. ASSUME NEW k \in Nat, k \in N PROVE k + 1 \in N
  <2>1. PICK i \in Nat : i = Halved(index, k)
    BY <1>5
  <2>2. i \div 2 \in Nat
    OBVIOUS
  <2> QED
    BY <1>3, <2>1, <2>2
<1>6. Nat \subseteq N
  <2> HIDE DEF N
  <2> QED
    BY <1>4, <1>5, NatSetInduction
<1> QED
  BY <1>2, <1>3, <1>6

LEMMA PositionInRow ==
  ASSUME NEW level, NEW top, Stacked(level, top),
         NEW index \in Nat, index < Len(level[0])
  PROVE  \A k \in 0 .. top : Halved(index, k) < Len(level[k])
<1> DEFINE N == {k \in Nat : k <= top => Halved(index, k) < Len(level[k])}
<1>0. top \in Nat
  BY DEF Stacked
<1>1. 0 \in N
  BY HalvedIs
<1>2. ASSUME NEW k \in Nat, k \in N PROVE k + 1 \in N
  <2> SUFFICES ASSUME k + 1 <= top PROVE Halved(index, k + 1) < Len(level[k + 1])
    OBVIOUS
  <2>1. k \in 0 .. top - 1 /\ k \in 0 .. top /\ k <= top
    BY <1>0
  <2>2. IsRow(level[k]) /\ level[k + 1] = Padded(LevelAbove(level[k])) /\ Len(level[k]) % 2 = 0
    BY <2>1 DEF Stacked
  <2>3. Halves(Len(level[k + 1]), Len(level[k]))
    BY <2>2, RowAbove
  <2>4. PICK lower, upper : lower = Len(level[k]) /\ upper = Len(level[k + 1])
    OBVIOUS
  <2>5. PICK i \in Nat : i = Halved(index, k) /\ Halved(index, k + 1) = i \div 2
    BY HalvedIs
  <2>6. Halved(index, k) < Len(level[k])
    BY <1>2, <2>1
  <2>7. Halves(upper, lower) /\ lower % 2 = 0
    BY <2>2, <2>3, <2>4
  <2>8. i < lower
    BY <2>4, <2>5, <2>6
  <2>9. i \div 2 < upper
    BY <2>7, <2>8 DEF Halves
  <2> QED
    BY <2>4, <2>5, <2>9
<1> HIDE DEF N
<1>3. Nat \subseteq N
  BY <1>1, <1>2, NatSetInduction
<1> QED
  BY <1>0, <1>3 DEF N

(* The hash over a position is made of the hash there and its sibling.     *)
LEMMA OverPosition ==
  ASSUME NEW row, IsRow(row), Len(row) % 2 = 0, NEW i \in Nat, i < Len(row)
  PROVE  Padded(LevelAbove(row))[(i \div 2) + 1] =
           IF i % 2 = 0 THEN Combined(row[i + 1], Sibling(row, i))
           ELSE Combined(Sibling(row, i), row[i + 1])
<1>1. PICK size \in Nat : size = Len(row)
  BY DEF IsRow
<1>2. size % 2 = 0 /\ i < size
  BY <1>1
<1>3. PICK p : p = (i \div 2) + 1
  OBVIOUS
<1>4. p \in 1 .. size \div 2
  BY <1>2, <1>3
<1>5. Padded(LevelAbove(row))[p] = Combined(row[2 * p - 1], row[2 * p])
  BY <1>1, <1>4, RowAbove
<1>6. CASE i % 2 = 0
  <2>1. 2 * p - 1 = i + 1 /\ 2 * p = i + 2
    BY <1>3, <1>6
  <2> QED
    BY <1>3, <1>5, <1>6, <2>1 DEF Sibling
<1>7. CASE i % 2 # 0
  <2>1. 2 * p - 1 = i /\ 2 * p = i + 1
    BY <1>3, <1>7
  <2> QED
    BY <1>3, <1>5, <1>7, <2>1 DEF Sibling
<1> QED
  BY <1>6, <1>7

-----------------------------------------------------------------------------
(* The loop of verify, one sibling at a time.                              *)
Climbs(at, datum, index, proof, top) ==
  /\ at[0] = [hash |-> datum, index |-> index]
  /\ \A k \in 1 .. top : at[k] = HashUp(at[k - 1], proof[k])

LEMMA ClimbIs ==
  ASSUME NEW datum, NEW index, NEW proof, NEW top \in Nat, Len(proof) = top
  PROVE  \E at : /\ Climbs(at, datum, index, proof, top)
                 /\ HashedUp(datum, index, proof) = at[top].hash
<1> DEFINE at == CHOOSE at : IsClimb(at, datum, index, proof, top)
<1>1. IsClimb(at, datum, index, proof, top)
  BY ClimbExists
<1>2. HashedUp(datum, index, proof) = at[top].hash
  BY DEF HashedUp, IsClimb
<1> HIDE DEF at
<1>3. Climbs(at, datum, index, proof, top)
  BY <1>1 DEF IsClimb, Climbs
<1> QED
  BY <1>2, <1>3

LEMMA ClimbIndex ==
  ASSUME NEW at, NEW datum, NEW index \in Nat, NEW proof, NEW top \in Nat,
         Climbs(at, datum, index, proof, top)
  PROVE  \A k \in 0 .. top : at[k].index = Halved(index, k)
<1> DEFINE N == {k \in Nat : k <= top => at[k].index = Halved(index, k)}
<1>1. 0 \in N
  <2>1. at[0].index = index
    BY DEF Climbs
  <2>2. Halved(index, 0) = index
    BY HalvedIs
  <2> QED
    BY <2>1, <2>2
<1>2. ASSUME NEW k \in Nat, k \in N PROVE k + 1 \in N
  <2> SUFFICES ASSUME k + 1 <= top PROVE at[k + 1].index = Halved(index, k + 1)
    OBVIOUS
  <2>1. k + 1 \in 1 .. top /\ (k + 1) - 1 = k /\ at[k].index = Halved(index, k)
    BY <1>2
  <2>2. at[k + 1] = HashUp(at[k], proof[k + 1])
    BY <2>1 DEF Climbs
  <2>3. at[k + 1].index = at[k].index \div 2
    BY <2>2 DEF HashUp
  <2> QED
    BY <2>1, <2>3, HalvedIs
<1> HIDE DEF N
<1>3. Nat \subseteq N
  BY <1>1, <1>2, NatSetInduction
<1> QED
  BY <1>3 DEF N

(* With the siblings of its position the climb is at the hash of the tree  *)
(* over the position on every level.                                       *)
LEMMA ClimbWithSiblings ==
  ASSUME NEW level, NEW top, Stacked(level, top),
         NEW index \in Nat, index < Len(level[0]), NEW proof, NEW at,
         \A k \in 1 .. top : proof[k] = Sibling(level[k - 1], Halved(index, k - 1)),
         Climbs(at, level[0][index + 1], index, proof, top)
  PROVE  at[top].hash = level[top][1]
<1>0. top \in Nat
  BY DEF Stacked
<1> DEFINE N == {k \in Nat : k <= top => at[k].hash = level[k][Halved(index, k) + 1]}
<1>1. 0 \in N
  <2>1. at[0].hash = level[0][index + 1]
    BY DEF Climbs
  <2>2. Halved(index, 0) = index
    BY HalvedIs
  <2> QED
    BY <2>1, <2>2
<1>2. ASSUME NEW k \in Nat, k \in N PROVE k + 1 \in N
  <2> SUFFICES ASSUME k + 1 <= top PROVE at[k + 1].hash = level[k + 1][Halved(index, k + 1) + 1]
    OBVIOUS
  <2>1. k + 1 \in 1 .. top /\ (k + 1) - 1 = k /\ k \in 0 .. top - 1 /\ k \in 0 .. top
    BY <1>0
  <2>2. PICK row, i : row = level[k] /\ i = Halved(index, k)
    OBVIOUS
  <2>3. i \in Nat /\ Halved(index, k + 1) = i \div 2
    BY <2>2, HalvedIs
  <2>4. i < Len(row)
    BY <2>1, <2>2, PositionInRow
  <2>5. IsRow(row) /\ Len(row) % 2 = 0 /\ level[k + 1] = Padded(LevelAbove(row))
    BY <2>1, <2>2 DEF Stacked
  <2>6. at[k].hash = row[i + 1]
    BY <1>2, <2>1, <2>2
  <2>7. at[k].index = i
    BY <1>0, <2>1, <2>2, ClimbIndex
  <2>8. at[k + 1] = HashUp(at[k], Sibling(row, i))
    BY <2>1, <2>2 DEF Climbs
  <2>9. at[k + 1].hash = IF i % 2 = 0 THEN Combined(row[i + 1], Sibling(row, i))
                         ELSE Combined(Sibling(row, i), row[i + 1])
    BY <2>6, <2>7, <2>8 DEF HashUp
  <2>10. level[k + 1][(i \div 2) + 1] =
           IF i % 2 = 0 THEN Combined(row[i + 1], Sibling(row, i))
           ELSE Combined(Sibling(row, i), row[i + 1])
    BY <2>3, <2>4, <2>5, OverPosition
  <2> QED
    BY <2>3, <2>9, <2>10
<1>3. Nat \subseteq N
  <2> HIDE DEF N
  <2> QED
    BY <1>1, <1>2, NatSetInduction
<1>4. at[top].hash = level[top][Halved(index, top) + 1]
  BY <1>0, <1>3
<1>5. Halved(index, top) = 0
  <2>a. top \in 0 .. top /\ Halved(index, top) \in Nat
    BY <1>0, HalvedIs
  <2>1. Halved(index, top) < Len(level[top]) /\ Halved(index, top) \in Nat
    BY <2>a, PositionInRow
  <2> QED
    BY <2>1 DEF Stacked
<1> QED
  BY <1>4, <1>5

(* And a climb that ends at the root has been at the hash of the tree over *)
(* its position on every level, down to the leaves, whatever the siblings. *)
LEMMA ClimbToRoot ==
  ASSUME NEW level, NEW top, Stacked(level, top),
         NEW index \in Nat, index < Len(level[0]), NEW datum, NEW proof, NEW at,
         Climbs(at, datum, index, proof, top), at[top].hash = level[top][1]
  PROVE  datum = level[0][index + 1]
<1>0. top \in Nat
  BY DEF Stacked
<1> DEFINE N == {n \in Nat : n <= top =>
                   at[top - n].hash = level[top - n][Halved(index, top - n) + 1]}
<1>1. 0 \in N
  <2>a. top \in 0 .. top /\ Halved(index, top) \in Nat
    BY <1>0, HalvedIs
  <2>1. Halved(index, top) < Len(level[top]) /\ Halved(index, top) \in Nat
    BY <2>a, PositionInRow
  <2>2. Halved(index, top) = 0
    BY <2>1 DEF Stacked
  <2> QED
    BY <1>0, <2>2
<1>2. ASSUME NEW n \in Nat, n \in N PROVE n + 1 \in N
  <2> SUFFICES ASSUME n + 1 <= top
               PROVE  at[top - (n + 1)].hash =
                        level[top - (n + 1)][Halved(index, top - (n + 1)) + 1]
    OBVIOUS
  <2>1. PICK k \in 0 .. top - 1 : k = top - (n + 1) /\ k + 1 = top - n
    BY <1>0
  <2>2. k + 1 \in 1 .. top /\ (k + 1) - 1 = k /\ k \in 0 .. top /\ k \in Nat
    BY <1>0
  <2>3. PICK row, i : row = level[k] /\ i = Halved(index, k)
    OBVIOUS
  <2>4. i \in Nat /\ Halved(index, k + 1) = i \div 2
    BY <2>2, <2>3, HalvedIs
  <2>5. i < Len(row)
    BY <2>2, <2>3, PositionInRow
  <2>6. IsRow(row) /\ Len(row) % 2 = 0 /\ level[k + 1] = Padded(LevelAbove(row))
    BY <2>2, <2>3 DEF Stacked
  <2>7. at[k + 1].hash = level[k + 1][(i \div 2) + 1]
    BY <1>2, <2>1, <2>4, <1>0
  <2>8. at[k].index = i
    BY <1>0, <2>2, <2>3, ClimbIndex
  <2>9. at[k + 1] = HashUp(at[k], proof[k + 1])
    BY <2>2 DEF Climbs
  <2>10. level[k + 1][(i \div 2) + 1] =
           IF i % 2 = 0 THEN Combined(row[i + 1], Sibling(row, i))
           ELSE Combined(Sibling(row, i), row[i + 1])
    BY <2>4, <2>5, <2>6, OverPosition
  <2>11. at[k].hash = row[i + 1]
    BY <2>7, <2>8, <2>9, <2>10 DEF HashUp, Combined
  <2> QED
    BY <2>1, <2>3, <2>11
<1>3. Nat \subseteq N
  <2> HIDE DEF N
  <2> QED
    BY <1>1, <1>2, NatSetInduction
<1>4. at[0].hash = level[0][Halved(index, 0) + 1]
  <2>1. top \in N /\ top - top = 0
    BY <1>0, <1>3
  <2> QED
    BY <2>1
<1>5. Halved(index, 0) = index
  BY HalvedIs
<1>6. at[0].hash = datum
  BY DEF Climbs
<1> QED
  BY <1>4, <1>5, <1>6

-----------------------------------------------------------------------------
(* proof() and verify().                                                   *)
LEMMA LeavesAre ==
  ASSUME NEW S, NEW d \in Seq(S), d # <<>>, NEW index \in 0 .. Len(d) - 1
  PROVE  /\ index < Len(Levels(d)[0])
         /\ Levels(d)[0][index + 1] = d[index + 1]
<1>1. PICK size \in Nat : size = Len(d)
  OBVIOUS
<1>2. PICK leaves : leaves = Levels(d)[0]
  OBVIOUS
<1>3. /\ Len(leaves) \in {size, size + 1}
      /\ \A i \in 1 .. size : leaves[i] = d[i]
  BY <1>1, <1>2, LevelsAre, PaddedSeq
<1>4. index < Len(leaves) /\ index + 1 \in 1 .. size
  BY <1>1, <1>3
<1> QED
  BY <1>2, <1>3, <1>4

LEMMA ProofIs ==
  ASSUME NEW S, NEW d \in Seq(S), d # <<>>, NEW index \in 0 .. Len(d) - 1
  PROVE  Proof(d, index) = [k \in 1 .. Top(d) |->
                              Sibling(Levels(d)[k - 1], Halved(index, k - 1))]
<1>1. PICK level, top : level = Levels(d) /\ top = Top(d)
  OBVIOUS
<1>2. PICK tree : tree = TreeList(d)
  OBVIOUS
<1>3. /\ top \in Nat /\ Len(tree) = top + 1
      /\ tree = [k \in 1 .. top + 1 |-> level[k - 1]]
  BY <1>1, <1>2, TreeIsStacked DEF Stacked
<1>4. ~ (index >= Len(tree[1]))
  <2>1. tree[1] = level[0]
    BY <1>3
  <2>2. PICK size \in Nat : size = Len(level[0])
    <3>1. IsRow(level[0])
      BY <1>1, LevelsAre
    <3> QED
      BY <3>1 DEF IsRow
  <2>3. index < size
    BY <1>1, <2>2, LeavesAre
  <2>4. ~ (index >= size)
    BY <2>3
  <2> QED
    BY <2>1, <2>2, <2>4
<1>5. Len(tree) - 1 = top
  BY <1>3
<1>6. Proof(d, index) = [k \in 1 .. top |-> Sibling(tree[k], Halved(index, k - 1))]
  BY <1>2, <1>4, <1>5 DEF Proof
<1>7. \A k \in 1 .. top : tree[k] = level[k - 1]
  BY <1>3
<1> QED
  BY <1>1, <1>6, <1>7

(* What proof() answers for a position leads verify() to the root.         *)
LEMMA ProofVerifies ==
  ASSUME NEW S, NEW d \in Seq(S), NEW index \in 0 .. Len(d) - 1
  PROVE  Verify(Root(d), d[index + 1], Proof(d, index), index, Len(d))
<1>0. d # <<>> /\ index \in Nat /\ index < Len(d)
  OBVIOUS
<1>1. PICK level, top : level = Levels(d) /\ top = Top(d)
  OBVIOUS
<1>2. Stacked(level, top) /\ top \in Nat /\ Root(d) = level[top][1]
  <2>1. Stacked(level, top) /\ Root(d) = level[top][1]
    BY <1>0, <1>1, TreeIsStacked
  <2>2. top \in Nat
    BY <2>1 DEF Stacked
  <2> QED
    BY <2>1, <2>2
<1>3. PICK proof : proof = Proof(d, index)
  OBVIOUS
<1>4. proof = [k \in 1 .. top |-> Sibling(level[k - 1], Halved(index, k - 1))]
  BY <1>0, <1>1, <1>3, ProofIs
<1>5. Len(proof) = top
  BY <1>2, <1>4
<1>6. index < Len(level[0]) /\ level[0][index + 1] = d[index + 1]
  BY <1>0, <1>1, LeavesAre
<1>7. PICK at : /\ Climbs(at, level[0][index + 1], index, proof, top)
                /\ HashedUp(level[0][index + 1], index, proof) = at[top].hash
  BY <1>2, <1>5, ClimbIs
<1>8. at[top].hash = level[top][1]
  BY <1>0, <1>2, <1>4, <1>6, <1>7, ClimbWithSiblings
<1> QED
  BY <1>0, <1>2, <1>3, <1>6, <1>7, <1>8 DEF Verify

(* With as many siblings as the tree has levels below its top, verify()    *)
(* accepts at a position the datum that is there and no other: whatever    *)
(* the siblings are, not only those that proof() answers.                  *)
LEMMA VerifyBinds ==
  ASSUME NEW S, NEW d \in Seq(S), NEW index \in 0 .. Len(d) - 1, NEW datum, NEW proof,
         Len(proof) = Top(d), Verify(Root(d), datum, proof, index, Len(d))
  PROVE  datum = d[index + 1]
<1>0. d # <<>> /\ index \in Nat
  OBVIOUS
<1>1. PICK level, top : level = Levels(d) /\ top = Top(d)
  OBVIOUS
<1>2. Stacked(level, top) /\ top \in Nat /\ Root(d) = level[top][1]
  <2>1. Stacked(level, top) /\ Root(d) = level[top][1]
    BY <1>0, <1>1, TreeIsStacked
  <2>2. top \in Nat
    BY <2>1 DEF Stacked
  <2> QED
    BY <2>1, <2>2
<1>3. index < Len(level[0]) /\ level[0][index + 1] = d[index + 1]
  BY <1>0, <1>1, LeavesAre
<1>4. PICK at : /\ Climbs(at, datum, index, proof, top)
                /\ HashedUp(datum, index, proof) = at[top].hash
  BY <1>1, <1>2, ClimbIs
<1>5. at[top].hash = level[top][1]
  BY <1>2, <1>4 DEF Verify
<1> QED
  BY <1>0, <1>2, <1>3, <1>4, <1>5, ClimbToRoot

-----------------------------------------------------------------------------
(* The root and the data.  Trees of as many data have the same shape.      *)
SameShape(level, other, top) ==
  \A k \in 0 .. top : Len(level[k]) = Len(other[k])

LEMMA HalvesOnce ==
  ASSUME NEW upper, NEW other, NEW lower, Halves(upper, lower), Halves(other, lower)
  PROVE  upper = other
BY DEF Halves

LEMMA ShapeOfLength ==
  ASSUME NEW S, NEW d \in Seq(S), NEW e \in Seq(S), Len(d) = Len(e)
  PROVE  SameShape(Levels(d), Levels(e), Len(d))
<1>1. PICK size \in Nat : size = Len(d) /\ size = Len(e)
  OBVIOUS
<1>2. PICK level, other : level = Levels(d) /\ other = Levels(e)
  OBVIOUS
<1>3. /\ level[0] = Padded(d) /\ other[0] = Padded(e)
      /\ \A k \in 1 .. size : /\ level[k] = Padded(LevelAbove(level[k - 1]))
                             /\ other[k] = Padded(LevelAbove(other[k - 1]))
      /\ \A k \in 0 .. size : IsRow(level[k]) /\ IsRow(other[k])
  BY <1>1, <1>2, LevelsAre
<1> DEFINE N == {k \in Nat : k <= size => Len(level[k]) = Len(other[k])}
<1>4. 0 \in N
  <2>1. PICK m \in Nat, n \in Nat : m = Len(Padded(d)) /\ n = Len(Padded(e))
    BY PaddedSeq
  <2>2. m \in {size, size + 1} /\ (size \in {0, 1} => m = size) /\ (m # 1 => m % 2 = 0)
    BY <1>1, <2>1, PaddedSeq
  <2>3. n \in {size, size + 1} /\ (size \in {0, 1} => n = size) /\ (n # 1 => n % 2 = 0)
    BY <1>1, <2>1, PaddedSeq
  <2>4. m = n
    BY <2>2, <2>3
  <2> QED
    BY <1>3, <2>1, <2>4
<1>5. ASSUME NEW k \in Nat, k \in N PROVE k + 1 \in N
  <2> SUFFICES ASSUME k + 1 <= size PROVE Len(level[k + 1]) = Len(other[k + 1])
    OBVIOUS
  <2>1. k + 1 \in 1 .. size /\ (k + 1) - 1 = k /\ k \in 0 .. size
    OBVIOUS
  <2>2. Halves(Len(level[k + 1]), Len(level[k])) /\ Halves(Len(other[k + 1]), Len(other[k]))
    BY <1>3, <2>1, RowAbove
  <2>3. Len(level[k]) = Len(other[k])
    BY <1>5, <2>1
  <2>4. PICK lower : lower = Len(level[k]) /\ lower = Len(other[k])
    BY <2>3
  <2>5. Halves(Len(level[k + 1]), lower) /\ Halves(Len(other[k + 1]), lower)
    BY <2>2, <2>4
  <2> QED
    BY <2>5, HalvesOnce
<1> HIDE DEF N
<1>6. Nat \subseteq N
  BY <1>4, <1>5, NatSetInduction
<1> QED
  BY <1>1, <1>2, <1>6 DEF N, SameShape

LEMMA SeqEqualRows ==
  ASSUME NEW row, NEW other, IsRow(row), IsRow(other), Len(row) = Len(other),
         \A k \in 1 .. Len(row) : row[k] = other[k]
  PROVE  row = other
<1>1. PICK S, T : row \in Seq(S) /\ other \in Seq(T)
  BY DEF IsRow
<1>2. /\ row = [k \in 1 .. Len(row) |-> row[k]]
      /\ other = [k \in 1 .. Len(row) |-> other[k]]
  BY <1>1
<1> QED
  BY <1>2

LEMMA TopsAgree ==
  ASSUME NEW level, NEW other, NEW top, NEW second,
         Stacked(level, top), Stacked(other, second), top <= second,
         \A k \in 0 .. second : Len(level[k]) = Len(other[k])
  PROVE  top = second
<1>1. top \in Nat /\ second \in Nat /\ Len(level[top]) = 1
  BY DEF Stacked
<1> SUFFICES ASSUME top < second PROVE FALSE
  BY <1>1
<1>2. top \in 0 .. second - 1 /\ top \in 0 .. second
  BY <1>1
<1>3. Len(other[top]) > 1
  BY <1>2 DEF Stacked
<1>4. Len(other[top]) = 1
  BY <1>1, <1>2
<1> QED
  BY <1>3, <1>4

(* Rows of even length whose levels above agree are the same.              *)
LEMMA RowsBelow ==
  ASSUME NEW row, NEW other, IsRow(row), IsRow(other),
         Len(row) = Len(other), Len(row) % 2 = 0,
         Padded(LevelAbove(row)) = Padded(LevelAbove(other))
  PROVE  row = other
<1>1. PICK size \in Nat : size = Len(row) /\ size = Len(other) /\ size % 2 = 0
  BY DEF IsRow
<1>2. /\ \A i \in 1 .. size \div 2 :
           Padded(LevelAbove(row))[i] = Combined(row[2 * i - 1], row[2 * i])
      /\ \A i \in 1 .. size \div 2 :
           Padded(LevelAbove(other))[i] = Combined(other[2 * i - 1], other[2 * i])
  BY <1>1, RowAbove
<1>3. ASSUME NEW i \in 1 .. size \div 2
      PROVE  row[2 * i - 1] = other[2 * i - 1] /\ row[2 * i] = other[2 * i]
  <2>1. Combined(row[2 * i - 1], row[2 * i]) = Combined(other[2 * i - 1], other[2 * i])
    BY <1>2, Zenon
  <2> QED
    BY <2>1 DEF Combined
<1>4. ASSUME NEW k \in 1 .. size PROVE row[k] = other[k]
  <2>1. PICK i \in 1 .. size \div 2 : k = 2 * i - 1 \/ k = 2 * i
    <3>1. (k + 1) \div 2 \in 1 .. size \div 2
      BY <1>1
    <3>2. k = 2 * ((k + 1) \div 2) - 1 \/ k = 2 * ((k + 1) \div 2)
      OBVIOUS
    <3> QED
      BY <3>1, <3>2
  <2> QED
    BY <1>3, <2>1
<1> QED
  BY <1>1, <1>4, SeqEqualRows

LEMMA RootBindsData ==
  ASSUME NEW S, NEW d \in Seq(S), NEW e \in Seq(S), Len(d) = Len(e), Root(d) = Root(e)
  PROVE  d = e
<1>1. CASE d = <<>>
  <2>1. Len(e) = 0
    BY <1>1
  <2> QED
    BY <1>1, <2>1
<1>2. CASE d # <<>>
  <2>0. e # <<>>
    BY <1>2
  <2>1. PICK size \in Nat : size = Len(d) /\ size = Len(e)
    OBVIOUS
  <2>2. PICK level, other, top :
          level = Levels(d) /\ other = Levels(e) /\ top = Top(d)
    OBVIOUS
  <2>3. /\ Stacked(level, top) /\ Stacked(other, Top(e))
        /\ level[0] = Padded(d) /\ other[0] = Padded(e)
        /\ Root(d) = level[top][1] /\ Root(e) = other[Top(e)][1]
    BY <1>2, <2>0, <2>2, TreeIsStacked
  <2>4. \A k \in 0 .. size : Len(level[k]) = Len(other[k])
    BY <2>1, <2>2, ShapeOfLength DEF SameShape
  <2>5. Top(e) = top
    <3>1. top \in 0 .. size /\ Top(e) \in 0 .. size
      BY <1>2, <2>0, <2>1, <2>2, TopExists
    <3>2. CASE top <= Top(e)
      <4>1. \A k \in 0 .. Top(e) : Len(level[k]) = Len(other[k])
        BY <2>4, <3>1
      <4> QED
        BY <2>3, <3>2, <4>1, TopsAgree
    <3>3. CASE Top(e) <= top
      <4>1. \A k \in 0 .. top : Len(other[k]) = Len(level[k])
        BY <2>4, <3>1
      <4> QED
        BY <2>3, <3>3, <4>1, TopsAgree
    <3> QED
      BY <3>1, <3>2, <3>3
  <2>6. /\ top \in Nat /\ \A k \in 0 .. top : Len(level[k]) = Len(other[k])
    BY <1>2, <2>1, <2>2, <2>4, TopExists
  <2> DEFINE N == {n \in Nat : n <= top => level[top - n] = other[top - n]}
  <2>7. 0 \in N
    <3>1. /\ IsRow(level[top]) /\ IsRow(other[top])
          /\ Len(level[top]) = 1 /\ Len(other[top]) = 1
      BY <2>3, <2>5, <2>6 DEF Stacked
    <3>a. level[top][1] = other[top][1]
      BY <2>3, <2>5
    <3>2. \A k \in 1 .. 1 : level[top][k] = other[top][k]
      BY <3>a
    <3>3. level[top] = other[top]
      BY <3>1, <3>2, SeqEqualRows
    <3> QED
      BY <2>6, <3>3
  <2>8. ASSUME NEW n \in Nat, n \in N PROVE n + 1 \in N
    <3> SUFFICES ASSUME n + 1 <= top PROVE level[top - (n + 1)] = other[top - (n + 1)]
      OBVIOUS
    <3>1. PICK k \in 0 .. top - 1 : k = top - (n + 1) /\ k + 1 = top - n
      BY <2>6
    <3>2. k \in 0 .. top /\ level[k + 1] = other[k + 1]
      BY <2>6, <2>8, <3>1
    <3>3. /\ IsRow(level[k]) /\ Len(level[k]) % 2 = 0
          /\ level[k + 1] = Padded(LevelAbove(level[k]))
      BY <2>3, <3>2 DEF Stacked
    <3>4. IsRow(other[k]) /\ other[k + 1] = Padded(LevelAbove(other[k]))
      BY <2>3, <2>5, <3>2 DEF Stacked
    <3>5. Len(level[k]) = Len(other[k])
      BY <2>6, <3>2
    <3> QED
      BY <3>1, <3>2, <3>3, <3>4, <3>5, RowsBelow
  <2>9. Nat \subseteq N
    <3> HIDE DEF N
    <3> QED
      BY <2>7, <2>8, NatSetInduction
  <2>10. level[0] = other[0]
    <3>1. top \in N
      BY <2>6, <2>9, Zenon
    <3>2. level[top - top] = other[top - top] /\ top - top = 0
      BY <2>6, <3>1
    <3> QED
      BY <3>2
  <2>11. \A k \in 1 .. size : d[k] = e[k]
    <3>1. \A k \in 1 .. size : Padded(d)[k] = d[k]
      BY <2>1, PaddedSeq
    <3>2. \A k \in 1 .. size : Padded(e)[k] = e[k]
      BY <2>1, PaddedSeq
    <3> QED
      BY <2>3, <2>10, <3>1, <3>2
  <2> QED
    BY <2>1, <2>11
<1> QED
  BY <1>1, <1>2

-----------------------------------------------------------------------------
(* The reference.  Its powers of two and its recursion exist.              *)
IsPowers(power, m) == power = [k \in 0 .. m |-> IF k = 0 THEN 1 ELSE 2 * power[k - 1]]

LEMMA PowersExist == \A m \in Nat : \E power : IsPowers(power, m)
<1> DEFINE N == {m \in Nat : \E power : IsPowers(power, m)}
<1>1. 0 \in N
  <2>1. IsPowers([k \in 0 .. 0 |-> 1], 0)
    BY DEF IsPowers
  <2> QED
    BY <2>1
<1>2. ASSUME NEW m \in Nat, m \in N PROVE m + 1 \in N
  <2>1. PICK power : IsPowers(power, m)
    BY <1>2
  <2> DEFINE more == [k \in 0 .. m + 1 |-> IF k = m + 1 THEN 2 * power[m] ELSE power[k]]
  <2>2. ASSUME NEW k \in 0 .. m + 1
        PROVE  more[k] = IF k = 0 THEN 1 ELSE 2 * more[k - 1]
    <3>1. CASE k = m + 1
      BY <3>1
    <3>2. CASE k \in 0 .. m
      BY <2>1, <3>2 DEF IsPowers
    <3> QED
      BY <3>1, <3>2
  <2>3. IsPowers(more, m + 1)
    BY <2>2 DEF IsPowers
  <2> QED
    BY <2>3
<1> HIDE DEF N
<1>3. Nat \subseteq N
  BY <1>1, <1>2, NatSetInduction
<1> QED
  BY <1>3 DEF N

LEMMA PowersAgree ==
  ASSUME NEW m \in Nat, NEW n \in Nat, NEW i, NEW j, IsPowers(i, m), IsPowers(j, n)
  PROVE  \A k \in Nat : k <= m /\ k <= n => i[k] = j[k]
<1> DEFINE N == {k \in Nat : k <= m /\ k <= n => i[k] = j[k]}
<1>1. 0 \in N
  BY DEF IsPowers
<1>2. ASSUME NEW k \in Nat, k \in N PROVE k + 1 \in N
  <2> SUFFICES ASSUME k + 1 <= m, k + 1 <= n PROVE i[k + 1] = j[k + 1]
    OBVIOUS
  <2>1. i[k] = j[k] /\ k + 1 \in 0 .. m /\ k + 1 \in 0 .. n /\ k + 1 # 0 /\ (k + 1) - 1 = k
    BY <1>2
  <2>2. i[k + 1] = 2 * i[k]
    BY <2>1 DEF IsPowers
  <2>3. j[k + 1] = 2 * j[k]
    BY <2>1 DEF IsPowers
  <2> QED
    BY <2>1, <2>2, <2>3
<1> HIDE DEF N
<1>3. Nat \subseteq N
  BY <1>1, <1>2, NatSetInduction
<1> QED
  BY <1>3 DEF N

LEMMA TwoToIs ==
  /\ TwoTo(0) = 1
  /\ \A k \in Nat : TwoTo(k) \in Nat \ {0} /\ TwoTo(k + 1) = 2 * TwoTo(k)
<1>1. ASSUME NEW k \in Nat
      PROVE  \E power : IsPowers(power, k) /\ TwoTo(k) = power[k]
  <2> DEFINE power == CHOOSE power : IsPowers(power, k)
  <2>1. IsPowers(power, k)
    BY PowersExist
  <2>2. TwoTo(k) = power[k]
    BY DEF TwoTo, IsPowers
  <2> QED
    BY <2>1, <2>2
<1>2. TwoTo(0) = 1
  BY <1>1 DEF IsPowers
<1>3. ASSUME NEW k \in Nat PROVE TwoTo(k + 1) = 2 * TwoTo(k)
  <2>1. PICK i : IsPowers(i, k) /\ TwoTo(k) = i[k]
    BY <1>1
  <2>2. PICK j : IsPowers(j, k + 1) /\ TwoTo(k + 1) = j[k + 1]
    BY <1>1
  <2>3. i[k] = j[k]
    BY <2>1, <2>2, PowersAgree
  <2>4. j[k + 1] = 2 * j[k]
    BY <2>2 DEF IsPowers
  <2> QED
    BY <2>1, <2>2, <2>3, <2>4
<1> DEFINE N == {k \in Nat : TwoTo(k) \in Nat \ {0}}
<1>4. 0 \in N
  BY <1>2
<1>5. ASSUME NEW k \in Nat, k \in N PROVE k + 1 \in N
  <2>1. PICK q \in Nat \ {0} : q = TwoTo(k)
    BY <1>5
  <2>2. 2 * q \in Nat \ {0}
    OBVIOUS
  <2> QED
    BY <1>3, <2>1, <2>2
<1>6. Nat \subseteq N
  <2> HIDE DEF N
  <2> QED
    BY <1>4, <1>5, NatSetInduction
<1> QED
  BY <1>2, <1>3, <1>6

LEMMA TwoToGrows ==
  ASSUME NEW j \in Nat, NEW k \in Nat, j <= k
  PROVE  TwoTo(j) <= TwoTo(k)
<1> DEFINE N == {n \in Nat : TwoTo(j) <= TwoTo(j + n)}
<1>1. 0 \in N
  <2>1. j + 0 = j /\ TwoTo(j) \in Nat
    BY TwoToIs
  <2> QED
    BY <2>1
<1>2. ASSUME NEW n \in Nat, n \in N PROVE n + 1 \in N
  <2>1. PICK i \in Nat : i = j + n /\ i + 1 = j + (n + 1)
    OBVIOUS
  <2>2. PICK p \in Nat, q \in Nat : p = TwoTo(j) /\ q = TwoTo(i)
    BY TwoToIs
  <2>3. TwoTo(i + 1) = 2 * q /\ p <= q
    BY <1>2, <2>1, <2>2, TwoToIs
  <2>4. p <= 2 * q
    BY <2>3
  <2> QED
    BY <2>1, <2>2, <2>3, <2>4
<1> HIDE DEF N
<1>3. Nat \subseteq N
  BY <1>1, <1>2, NatSetInduction
<1>4. PICK n \in Nat : k = j + n
  <2>1. k - j \in Nat /\ k = j + (k - j)
    OBVIOUS
  <2> QED
    BY <2>1
<1> QED
  BY <1>3, <1>4 DEF N

(* The heights a tree may have: there is one for each number of data.      *)
IsHeight(h, size) == size <= TwoTo(h) /\ (h = 0 \/ TwoTo(h - 1) < size)

LEMMA HeightOnce ==
  ASSUME NEW size \in Nat, NEW h \in Nat, NEW g \in Nat, IsHeight(h, size), IsHeight(g, size)
  PROVE  ~ (h < g)
<1> SUFFICES ASSUME h < g PROVE FALSE
  OBVIOUS
<1>1. PICK f \in Nat : f = g - 1 /\ h <= f
  OBVIOUS
<1>2. PICK p \in Nat, q \in Nat : p = TwoTo(h) /\ q = TwoTo(f)
  BY TwoToIs
<1>3. p <= q
  BY <1>1, <1>2, TwoToGrows
<1>4. size <= p /\ q < size
  BY <1>1, <1>2 DEF IsHeight
<1> QED
  BY <1>3, <1>4

LEMMA HeightIs ==
  ASSUME NEW size \in Nat, NEW h \in 0 .. size, IsHeight(h, size)
  PROVE  HeightFor(size) = h
<1>1. HeightFor(size) = CHOOSE g \in 0 .. size : IsHeight(g, size)
  BY DEF HeightFor, IsHeight
<1>2. \A g \in 0 .. size : IsHeight(g, size) => g = h
  <2> SUFFICES ASSUME NEW g \in 0 .. size, IsHeight(g, size) PROVE g = h
    OBVIOUS
  <2>1. ~ (g < h) /\ ~ (h < g)
    BY HeightOnce
  <2> QED
    BY <2>1
<1> QED
  BY <1>1, <1>2

(* A node of the reference over the nodes one height below.                *)
NodeOver(below, half, s) ==
  IF Len(s) <= half
  THEN Combined(below[s], below[s])
  ELSE Combined(below[SubSeq(s, 1, half)], below[SubSeq(s, half + 1, Len(s))])

IsReference(root, m) ==
  root = [h \in 0 .. m |->
            [s \in Seq(Leaf) |->
               IF h = 0 THEN s[1]
               ELSE LET half == TwoTo(h - 1)
                    IN  IF Len(s) <= half
                        THEN Combined(root[h - 1][s], root[h - 1][s])
                        ELSE Combined(root[h - 1][SubSeq(s, 1, half)],
                                      root[h - 1][SubSeq(s, half + 1, Len(s))])]]

IsReferenceOver(root, m) ==
  root = [h \in 0 .. m |->
            [s \in Seq(Leaf) |-> IF h = 0 THEN s[1] ELSE NodeOver(root[h - 1], TwoTo(h - 1), s)]]

LEMMA SameReference ==
  ASSUME NEW root, NEW m \in Nat
  PROVE  IsReference(root, m) <=> IsReferenceOver(root, m)
BY DEF IsReference, IsReferenceOver, NodeOver

LEMMA ReferenceExists == \A m \in Nat : \E root : IsReferenceOver(root, m)
<1> DEFINE N == {m \in Nat : \E root : IsReferenceOver(root, m)}
<1>1. 0 \in N
  <2>1. IsReferenceOver([h \in 0 .. 0 |-> [s \in Seq(Leaf) |-> s[1]]], 0)
    BY DEF IsReferenceOver
  <2> QED
    BY <2>1
<1>2. ASSUME NEW m \in Nat, m \in N PROVE m + 1 \in N
  <2>1. PICK root : IsReferenceOver(root, m)
    BY <1>2
  <2> DEFINE next == [s \in Seq(Leaf) |-> NodeOver(root[m], TwoTo(m), s)]
             more == [h \in 0 .. m + 1 |-> IF h = m + 1 THEN next ELSE root[h]]
  <2>2. ASSUME NEW h \in 0 .. m + 1
        PROVE  more[h] = [s \in Seq(Leaf) |->
                            IF h = 0 THEN s[1] ELSE NodeOver(more[h - 1], TwoTo(h - 1), s)]
    <3>1. CASE h = m + 1
      <4>1. more[h] = next /\ h # 0 /\ h - 1 = m /\ more[h - 1] = root[m]
        BY <3>1
      <4> QED
        BY <4>1
    <3>2. CASE h \in 0 .. m
      <4>1. more[h] = root[h] /\ (h # 0 => more[h - 1] = root[h - 1])
        BY <3>2
      <4>2. root[h] = [s \in Seq(Leaf) |->
                         IF h = 0 THEN s[1] ELSE NodeOver(root[h - 1], TwoTo(h - 1), s)]
        BY <2>1, <3>2 DEF IsReferenceOver
      <4> QED
        BY <4>1, <4>2
    <3> QED
      BY <3>1, <3>2
  <2>3. IsReferenceOver(more, m + 1)
    <3> HIDE DEF more
    <3>1. more = [h \in 0 .. m + 1 |-> more[h]]
      BY DEF more
    <3> QED
      BY <2>2, <3>1 DEF IsReferenceOver
  <2> QED
    BY <2>3
<1> HIDE DEF N
<1>3. Nat \subseteq N
  BY <1>1, <1>2, NatSetInduction
<1> QED
  BY <1>3 DEF N

LEMMA ReferenceIs ==
  ASSUME NEW height \in Nat
  PROVE  \E root : IsReferenceOver(root, height)
                    /\ \A d : RootOfHeight(d, height) = root[height][d]
<1> DEFINE root == CHOOSE root : IsReference(root, height)
<1>1. \E r : IsReference(r, height)
  BY ReferenceExists, SameReference
<1>2. IsReference(root, height)
  BY <1>1
<1>3. \A d : RootOfHeight(d, height) = root[height][d]
  BY DEF RootOfHeight, IsReference
<1> HIDE DEF root
<1> QED
  BY <1>2, <1>3, SameReference

(* The data under a position of a level, when each hash of it is over q of *)
(* them, and what the level holds: the reference's nodes over them, and a  *)
(* copy of the last one if it is padded.                                   *)
Block(d, q, p) == SubSeq(d, (p - 1) * q + 1, IF p * q <= Len(d) THEN p * q ELSE Len(d))

Covers(row, d, nodes, q, size) ==
  /\ size \in Nat \ {0}
  /\ (size - 1) * q < Len(d) /\ Len(d) <= size * q
  /\ Len(row) \in {size, size + 1}
  /\ size = 1 => Len(row) = 1
  /\ Len(row) = size + 1 => row[size + 1] = row[size]
  /\ \A p \in 1 .. size : row[p] = nodes[Block(d, q, p)]

LEMMA SubSeqOfSubSeq ==
  ASSUME NEW S, NEW d \in Seq(S), NEW a \in 1 .. Len(d), NEW b \in a .. Len(d)
  PROVE  /\ SubSeq(d, a, b) \in Seq(S)
         /\ Len(SubSeq(d, a, b)) = b - a + 1
         /\ \A i \in 1 .. b - a + 1 : \A j \in i .. b - a + 1 :
              SubSeq(SubSeq(d, a, b), i, j) = SubSeq(d, a + i - 1, a + j - 1)
<1>1. SubSeq(d, a, b) \in Seq(S) /\ Len(SubSeq(d, a, b)) = b - a + 1
  OBVIOUS
<1>2. ASSUME NEW i \in 1 .. b - a + 1, NEW j \in i .. b - a + 1
      PROVE  SubSeq(SubSeq(d, a, b), i, j) = SubSeq(d, a + i - 1, a + j - 1)
  OBVIOUS
<1> QED
  BY <1>1, <1>2

(* A block of two halves.                                                  *)
LEMMA BlockOfTwo ==
  ASSUME NEW d \in Seq(Leaf), NEW q \in Nat \ {0}, NEW p \in Nat \ {0},
         (2 * p - 1) * q < Len(d), NEW nodes
  PROVE  /\ Block(d, 2 * q, p) \in Seq(Leaf)
         /\ NodeOver(nodes, q, Block(d, 2 * q, p)) =
              Combined(nodes[Block(d, q, 2 * p - 1)], nodes[Block(d, q, 2 * p)])
<1>1. PICK size \in Nat : size = Len(d)
  OBVIOUS
<1>2. PICK x \in Nat : x = (2 * p - 2) * q
  OBVIOUS
<1>3. /\ (p - 1) * (2 * q) = x /\ ((2 * p - 1) - 1) * q = x
      /\ (2 * p - 1) * q = x + q /\ (2 * p) * q = x + 2 * q /\ p * (2 * q) = x + 2 * q
  BY <1>2
<1>4. x + q < size
  BY <1>1, <1>3
<1>5. PICK b \in Nat : b = IF x + 2 * q <= size THEN x + 2 * q ELSE size
  OBVIOUS
<1>6. Block(d, 2 * q, p) = SubSeq(d, x + 1, b)
  BY <1>1, <1>3, <1>5 DEF Block
<1>7. Block(d, q, 2 * p - 1) = SubSeq(d, x + 1, x + q)
  <2>1. PICK end, y : /\ end = x + q /\ y = x + q
                      /\ end = IF y <= Len(d) THEN y ELSE Len(d)
    BY <1>1, <1>4
  <2>2. PICK m : m = 2 * p - 1
    OBVIOUS
  <2>3. (m - 1) * q = x /\ m * q = y
    BY <1>3, <2>1, <2>2
  <2>4. Block(d, q, m) =
          SubSeq(d, (m - 1) * q + 1, IF m * q <= Len(d) THEN m * q ELSE Len(d))
    BY DEF Block
  <2>5. (m - 1) * q + 1 = x + 1 /\ (IF m * q <= Len(d) THEN m * q ELSE Len(d)) = end
    BY <2>1, <2>3
  <2>6. Block(d, q, m) = SubSeq(d, x + 1, end)
    BY <2>4, <2>5, Zenon
  <2> QED
    BY <2>1, <2>2, <2>6
<1>8. Block(d, q, 2 * p) = SubSeq(d, x + q + 1, b)
  <2>1. (2 * p - 1) * q + 1 = x + q + 1
    BY <1>3
  <2> QED
    BY <1>1, <1>3, <1>5, <2>1 DEF Block
<1>9. PICK s : s = SubSeq(d, x + 1, b)
  OBVIOUS
<1>10. /\ s \in Seq(Leaf) /\ Len(s) = b - x /\ b - x > q
       /\ SubSeq(s, 1, q) = SubSeq(d, x + 1, x + q)
       /\ SubSeq(s, q + 1, Len(s)) = SubSeq(d, x + q + 1, b)
  <2>1. PICK a \in 1 .. size : a = x + 1 /\ b \in a .. size
    BY <1>4, <1>5
  <2>2. b - a + 1 = b - x /\ b - x > q
    BY <1>4, <1>5, <2>1
  <2>3. /\ 1 \in 1 .. b - a + 1 /\ q \in 1 .. b - a + 1
        /\ q + 1 \in 1 .. b - a + 1 /\ b - x \in q + 1 .. b - a + 1
    BY <2>2
  <2>4. s \in Seq(Leaf) /\ Len(s) = b - x
    BY <1>1, <1>9, <2>1, <2>2, SubSeqOfSubSeq
  <2>5. SubSeq(s, 1, q) = SubSeq(d, a + 1 - 1, a + q - 1)
    BY <1>1, <1>9, <2>1, <2>3, SubSeqOfSubSeq
  <2>6. SubSeq(s, q + 1, b - x) = SubSeq(d, a + (q + 1) - 1, a + (b - x) - 1)
    BY <1>1, <1>9, <2>1, <2>3, SubSeqOfSubSeq
  <2>7. /\ a + 1 - 1 = x + 1 /\ a + q - 1 = x + q /\ a + (q + 1) - 1 = x + q + 1
        /\ a + (b - x) - 1 = b
    BY <2>1
  <2> QED
    BY <2>2, <2>4, <2>5, <2>6, <2>7
<1>11. ~ (Len(s) <= q)
  BY <1>10
<1> QED
  BY <1>6, <1>7, <1>8, <1>9, <1>10, <1>11 DEF NodeOver

(* A block without a right half.                                           *)
LEMMA BlockOfOne ==
  ASSUME NEW d \in Seq(Leaf), NEW q \in Nat \ {0}, NEW p \in Nat \ {0},
         (2 * p - 2) * q < Len(d), Len(d) <= (2 * p - 1) * q, NEW nodes
  PROVE  /\ Block(d, 2 * q, p) \in Seq(Leaf)
         /\ NodeOver(nodes, q, Block(d, 2 * q, p)) =
              Combined(nodes[Block(d, q, 2 * p - 1)], nodes[Block(d, q, 2 * p - 1)])
<1>1. PICK size \in Nat : size = Len(d)
  OBVIOUS
<1>2. PICK x \in Nat : x = (2 * p - 2) * q
  OBVIOUS
<1>3. /\ (p - 1) * (2 * q) = x /\ ((2 * p - 1) - 1) * q = x
      /\ (2 * p - 1) * q = x + q /\ p * (2 * q) = x + 2 * q
  BY <1>2
<1>4. x < size /\ size <= x + q
  BY <1>1, <1>2, <1>3
<1>5. Block(d, 2 * q, p) = SubSeq(d, x + 1, size)
  <2>1. PICK end, y : /\ end = size /\ y = x + 2 * q
                      /\ end = IF y <= Len(d) THEN y ELSE Len(d)
    BY <1>1, <1>4
  <2>2. PICK r : r = 2 * q
    OBVIOUS
  <2>3. (p - 1) * r = x /\ p * r = y
    BY <1>3, <2>1, <2>2
  <2>4. Block(d, r, p) =
          SubSeq(d, (p - 1) * r + 1, IF p * r <= Len(d) THEN p * r ELSE Len(d))
    BY DEF Block
  <2>5. (p - 1) * r + 1 = x + 1 /\ (IF p * r <= Len(d) THEN p * r ELSE Len(d)) = end
    BY <2>1, <2>3
  <2>6. Block(d, r, p) = SubSeq(d, x + 1, end)
    BY <2>4, <2>5, Zenon
  <2> QED
    BY <2>1, <2>2, <2>6
<1>6. Block(d, q, 2 * p - 1) = SubSeq(d, x + 1, size)
  <2>1. PICK end, y : /\ end = size /\ y = x + q
                      /\ end = IF y <= Len(d) THEN y ELSE Len(d)
    BY <1>1, <1>4
  <2>2. PICK m : m = 2 * p - 1
    OBVIOUS
  <2>3. (m - 1) * q = x /\ m * q = y
    BY <1>3, <2>1, <2>2
  <2>4. Block(d, q, m) =
          SubSeq(d, (m - 1) * q + 1, IF m * q <= Len(d) THEN m * q ELSE Len(d))
    BY DEF Block
  <2>5. (m - 1) * q + 1 = x + 1 /\ (IF m * q <= Len(d) THEN m * q ELSE Len(d)) = end
    BY <2>1, <2>3
  <2>6. Block(d, q, m) = SubSeq(d, x + 1, end)
    BY <2>4, <2>5, Zenon
  <2> QED
    BY <2>1, <2>2, <2>6
<1>7. PICK s : s = SubSeq(d, x + 1, size)
  OBVIOUS
<1>8. s \in Seq(Leaf) /\ Len(s) <= q
  <2>1. PICK a \in 1 .. size : a = x + 1 /\ size \in a .. size
    BY <1>4
  <2>2. s \in Seq(Leaf) /\ Len(s) = size - a + 1
    BY <1>1, <1>7, <2>1, SubSeqOfSubSeq
  <2> QED
    BY <1>4, <2>1, <2>2
<1> QED
  BY <1>5, <1>6, <1>7, <1>8 DEF NodeOver

(* The level above covers the data twice as far.                           *)
LEMMA SizeAbove ==
  ASSUME NEW size \in Nat \ {0}, NEW q \in Nat \ {0}, NEW n \in Nat,
         NEW length \in {size, size + 1}, length % 2 = 0,
         (size - 1) * q < n, n <= size * q
  PROVE  /\ length \div 2 \in Nat \ {0}
         /\ (length \div 2 - 1) * (2 * q) < n
         /\ n <= (length \div 2) * (2 * q)
OBVIOUS

LEMMA CoversAbove ==
  ASSUME NEW d \in Seq(Leaf), NEW q \in Nat \ {0}, NEW row, IsRow(row), Len(row) % 2 = 0,
         NEW below, NEW nodes, NEW size, Covers(row, d, below, q, size),
         \A s \in Seq(Leaf) : nodes[s] = NodeOver(below, q, s)
  PROVE  Covers(Padded(LevelAbove(row)), d, nodes, 2 * q, Len(row) \div 2)
<1>1. PICK length \in Nat, n \in Nat : length = Len(row) /\ n = Len(d) /\ length % 2 = 0
  BY DEF IsRow
<1>2. /\ size \in Nat \ {0} /\ (size - 1) * q < n /\ n <= size * q
      /\ length \in {size, size + 1} /\ (length = size + 1 => row[size + 1] = row[size])
      /\ \A p \in 1 .. size : row[p] = below[Block(d, q, p)]
  BY <1>1 DEF Covers
<1>3. PICK half \in Nat \ {0} : /\ half = length \div 2
                               /\ (half - 1) * (2 * q) < n /\ n <= half * (2 * q)
  BY <1>1, <1>2, SizeAbove
<1>4. PICK above : above = Padded(LevelAbove(row))
  OBVIOUS
<1>5. /\ Halves(Len(above), length)
      /\ \A p \in 1 .. half : above[p] = Combined(row[2 * p - 1], row[2 * p])
      /\ Len(above) = half + 1 => above[half + 1] = above[half]
  BY <1>1, <1>3, <1>4, RowAbove
<1>6. Len(above) \in {half, half + 1} /\ (half = 1 => Len(above) = 1)
  BY <1>3, <1>5 DEF Halves
<1>7. ASSUME NEW p \in 1 .. half PROVE above[p] = nodes[Block(d, 2 * q, p)]
  <2>1. p \in Nat \ {0} /\ 2 * p <= length /\ 2 * p - 1 \in 1 .. size
    BY <1>1, <1>2, <1>3
  <2>2. above[p] = Combined(row[2 * p - 1], row[2 * p])
    BY <1>5
  <2>3. row[2 * p - 1] = below[Block(d, q, 2 * p - 1)]
    BY <1>2, <2>1
  <2>4. CASE 2 * p <= size
    <3>1. (2 * p - 1) * q < Len(d)
      <4>1. (2 * p - 1) * q <= (size - 1) * q
        BY <1>2, <2>1, <2>4
      <4>2. (2 * p - 1) * q \in Nat /\ (size - 1) * q \in Nat
        BY <1>2, <2>1
      <4> QED
        BY <1>1, <1>2, <4>1, <4>2
    <3>2. row[2 * p] = below[Block(d, q, 2 * p)]
      BY <1>2, <2>1, <2>4
    <3>3. /\ Block(d, 2 * q, p) \in Seq(Leaf)
          /\ NodeOver(below, q, Block(d, 2 * q, p)) =
               Combined(below[Block(d, q, 2 * p - 1)], below[Block(d, q, 2 * p)])
      BY <2>1, <3>1, BlockOfTwo
    <3> QED
      BY <2>2, <2>3, <3>2, <3>3
  <2>5. CASE 2 * p = size + 1
    <3>1. length = size + 1 /\ row[2 * p] = row[2 * p - 1]
      BY <1>2, <2>1, <2>5
    <3>2. (2 * p - 2) * q < Len(d) /\ Len(d) <= (2 * p - 1) * q
      <4>1. 2 * p - 2 = size - 1 /\ 2 * p - 1 = size
        BY <1>2, <2>1, <2>5
      <4> QED
        BY <1>1, <1>2, <4>1
    <3>3. /\ Block(d, 2 * q, p) \in Seq(Leaf)
          /\ NodeOver(below, q, Block(d, 2 * q, p)) =
               Combined(below[Block(d, q, 2 * p - 1)], below[Block(d, q, 2 * p - 1)])
      BY <2>1, <3>2, BlockOfOne
    <3> QED
      BY <2>2, <2>3, <3>1, <3>3
  <2>6. 2 * p <= size \/ 2 * p = size + 1
    BY <1>2, <2>1
  <2> QED
    BY <2>4, <2>5, <2>6
<1>8. Covers(above, d, nodes, 2 * q, half)
  BY <1>1, <1>3, <1>5, <1>6, <1>7 DEF Covers
<1> QED
  BY <1>1, <1>3, <1>4, <1>8

LEMMA CoversLeaves ==
  ASSUME NEW d \in Seq(Leaf), d # <<>>, NEW nodes, \A s \in Seq(Leaf) : nodes[s] = s[1]
  PROVE  Covers(Padded(d), d, nodes, 1, Len(d))
<1>1. PICK size \in Nat \ {0} : size = Len(d)
  OBVIOUS
<1>2. ASSUME NEW p \in 1 .. size PROVE Padded(d)[p] = nodes[Block(d, 1, p)]
  <2>1. Padded(d)[p] = d[p]
    BY <1>1, PaddedSeq
  <2>2. (p - 1) * 1 + 1 = p /\ p * 1 = p /\ p <= Len(d)
    BY <1>1
  <2>3. Block(d, 1, p) = SubSeq(d, p, p)
    BY <2>2 DEF Block
  <2>4. SubSeq(d, p, p) \in Seq(Leaf) /\ SubSeq(d, p, p)[1] = d[p]
    BY <1>1
  <2> QED
    BY <2>1, <2>3, <2>4
<1>3. PICK row : row = Padded(d)
  OBVIOUS
<1>4. /\ Len(row) \in {size, size + 1} /\ (size = 1 => Len(row) = 1)
      /\ Len(row) = size + 1 => row[size + 1] = row[size]
  <2>1. /\ Len(row) \in {size, size + 1} /\ (size \in {0, 1} => Len(row) = size)
        /\ Len(row) = size + 1 => row[size + 1] = d[size]
        /\ \A p \in 1 .. size : row[p] = d[p]
    BY <1>1, <1>3, PaddedSeq
  <2>2. row[size] = d[size]
    BY <2>1
  <2> QED
    BY <2>1, <2>2
<1>5. (size - 1) * 1 < size /\ size <= size * 1
  OBVIOUS
<1> QED
  BY <1>1, <1>2, <1>3, <1>4, <1>5 DEF Covers

LEMMA TreeIsReference ==
  ASSUME NEW d \in Seq(Leaf), d # <<>>
  PROVE  Root(d) = RootOfHeight(d, HeightFor(Len(d)))
<1>1. PICK n \in Nat \ {0} : n = Len(d)
  OBVIOUS
<1>2. PICK level, top : level = Levels(d) /\ top = Top(d)
  OBVIOUS
<1>3. /\ Stacked(level, top) /\ level[0] = Padded(d) /\ Root(d) = level[top][1]
      /\ top \in 0 .. n
  BY <1>1, <1>2, TreeIsStacked, TopExists
<1>4. PICK root : /\ IsReferenceOver(root, top)
                  /\ \A e : RootOfHeight(e, top) = root[top][e]
  BY <1>3, ReferenceIs
<1>5. /\ \A s \in Seq(Leaf) : root[0][s] = s[1]
      /\ \A h \in 1 .. top : \A s \in Seq(Leaf) :
           root[h][s] = NodeOver(root[h - 1], TwoTo(h - 1), s)
  <2>1. \A h \in 0 .. top :
          root[h] = [s \in Seq(Leaf) |->
                       IF h = 0 THEN s[1] ELSE NodeOver(root[h - 1], TwoTo(h - 1), s)]
    BY <1>4 DEF IsReferenceOver
  <2>2. root[0] = [s \in Seq(Leaf) |-> s[1]]
    BY <1>3, <2>1
  <2>3. ASSUME NEW h \in 1 .. top
        PROVE  root[h] = [s \in Seq(Leaf) |-> NodeOver(root[h - 1], TwoTo(h - 1), s)]
    <3>1. h \in 0 .. top /\ h # 0
      BY <1>3
    <3> QED
      BY <2>1, <3>1
  <2>4. ASSUME NEW h \in 1 .. top, NEW s \in Seq(Leaf)
        PROVE  root[h][s] = NodeOver(root[h - 1], TwoTo(h - 1), s)
    BY <2>3
  <2> QED
    BY <2>2, <2>4
<1> DEFINE Covered(k) == \E size : Covers(level[k], d, root[k], TwoTo(k), size)
           N == {k \in Nat : k <= top => Covered(k)}
<1>6. 0 \in N
  <2>1. Covers(level[0], d, root[0], TwoTo(0), n)
    BY <1>1, <1>3, <1>5, CoversLeaves, TwoToIs
  <2> QED
    BY <2>1
<1>7. ASSUME NEW k \in Nat, k \in N PROVE k + 1 \in N
  <2> SUFFICES ASSUME k + 1 <= top PROVE Covered(k + 1)
    OBVIOUS
  <2>1. k + 1 \in 1 .. top /\ (k + 1) - 1 = k /\ k \in 0 .. top - 1 /\ k \in 0 .. top
    BY <1>3
  <2>2. PICK size : Covers(level[k], d, root[k], TwoTo(k), size)
    BY <1>7, <2>1
  <2>3. /\ IsRow(level[k]) /\ Len(level[k]) % 2 = 0
        /\ level[k + 1] = Padded(LevelAbove(level[k]))
    BY <1>3, <2>1 DEF Stacked
  <2>4. \A s \in Seq(Leaf) : root[k + 1][s] = NodeOver(root[k], TwoTo(k), s)
    BY <1>5, <2>1
  <2>5. TwoTo(k) \in Nat \ {0} /\ TwoTo(k + 1) = 2 * TwoTo(k)
    BY TwoToIs
  <2>6. Covers(level[k + 1], d, root[k + 1], TwoTo(k + 1), Len(level[k]) \div 2)
    BY <2>2, <2>3, <2>4, <2>5, CoversAbove
  <2> QED
    BY <2>6
<1>8. Nat \subseteq N
  <2> HIDE DEF N
  <2> QED
    BY <1>6, <1>7, NatSetInduction
<1>9. \A k \in 0 .. top : Covered(k)
  BY <1>3, <1>8
<1> HIDE DEF N, Covered
<1>10. top \in 0 .. top /\ Len(level[top]) = 1
  BY <1>3 DEF Stacked
<1>11. Covers(level[top], d, root[top], TwoTo(top), 1)
  <2>1. PICK size : Covers(level[top], d, root[top], TwoTo(top), size)
    BY <1>9, <1>10 DEF Covered
  <2>2. size \in Nat \ {0} /\ Len(level[top]) \in {size, size + 1}
    BY <2>1 DEF Covers
  <2>3. size = 1
    BY <1>10, <2>2
  <2> QED
    BY <2>1, <2>3
<1>12. PICK q \in Nat \ {0} : q = TwoTo(top)
  <2>1. top \in Nat
    BY <1>3
  <2>2. TwoTo(top) \in Nat \ {0}
    BY <2>1, TwoToIs
  <2> QED
    BY <2>2
<1>13. n <= q /\ level[top][1] = root[top][Block(d, q, 1)]
  <2>1. Len(d) <= 1 * q /\ \A p \in 1 .. 1 : level[top][p] = root[top][Block(d, q, p)]
    BY <1>11, <1>12 DEF Covers
  <2> QED
    BY <1>1, <2>1
<1>14. Block(d, q, 1) = d
  <2>1. (1 - 1) * q + 1 = 1 /\ (IF 1 * q <= Len(d) THEN 1 * q ELSE Len(d)) = n
    BY <1>1, <1>13
  <2>2. Block(d, q, 1) = SubSeq(d, 1, n)
    BY <2>1 DEF Block
  <2> QED
    BY <1>1, <2>2
<1>15. IsHeight(top, n)
  <2> SUFFICES ASSUME top # 0 PROVE TwoTo(top - 1) < n
    BY <1>12, <1>13 DEF IsHeight
  <2>1. PICK k \in 0 .. top - 1 : k = top - 1
    BY <1>3
  <2>2. k \in 0 .. top /\ k \in Nat
    BY <1>3
  <2>3. PICK size : Covers(level[k], d, root[k], TwoTo(k), size)
    BY <1>9, <2>2 DEF Covered
  <2>4. PICK r \in Nat \ {0} : r = TwoTo(k)
    BY <2>2, TwoToIs
  <2>5. /\ size \in Nat \ {0} /\ (size - 1) * r < n /\ (size = 1 => Len(level[k]) = 1)
    BY <1>1, <2>3, <2>4 DEF Covers
  <2>6. Len(level[k]) # 1
    <3>1. IsRow(level[k]) /\ Len(level[k]) > 1
      BY <1>3, <2>2 DEF Stacked
    <3>2. PICK l \in Nat : l = Len(level[k])
      BY <3>1 DEF IsRow
    <3>3. l > 1
      BY <3>1, <3>2, Zenon
    <3>4. l # 1
      BY <3>3
    <3> QED
      BY <3>2, <3>4, Zenon
  <2>7. PICK m \in Nat \ {0} : m = size - 1
    BY <2>5, <2>6
  <2>8. r <= m * r
    <3> m - 1 \in Nat /\ m = (m - 1) + 1
      OBVIOUS
    <3>1. PICK more \in Nat : m = more + 1
      OBVIOUS
    <3>2. m * r = more * r + r /\ more * r \in Nat
      BY <3>1
    <3> QED
      BY <3>2
  <2>9. m * r < n
    BY <2>5, <2>7, Zenon
  <2>10. r < n
    <3>1. PICK x \in Nat : x = m * r
      OBVIOUS
    <3> QED
      BY <2>8, <2>9, <3>1
  <2> QED
    BY <2>1, <2>4, <2>10
<1>16. HeightFor(n) = top
  BY <1>3, <1>15, HeightIs
<1> QED
  BY <1>1, <1>3, <1>4, <1>13, <1>14, <1>16

-----------------------------------------------------------------------------
(* What is pushed is data.                                                 *)
AllLeaves == data \in Seq(Leaf)

LEMMA PushesAreLeaves == Spec => []AllLeaves
<1>1. Init => AllLeaves
  BY DEF Init, AllLeaves
<1>2. AllLeaves /\ [Next]_data => AllLeaves'
  BY DEF Next, Push, AllLeaves
<1> QED
  BY <1>1, <1>2, PTL DEF Spec

(* For any number of data, the levels of new() with their padding compute  *)
(* the root that the recursive definition gives.                           *)
THEOREM LevelsComputeReference == Spec => []RootIsReference
<1>1. AllLeaves => RootIsReference
  BY TreeIsReference DEF RootIsReference, AllLeaves
<1> QED
  BY <1>1, PushesAreLeaves, PTL

(* For any number of data, what proof() answers for an index makes         *)
(* verify() accept the datum there against root(), the padded last one of  *)
(* an odd number included.                                                 *)
THEOREM EveryProofVerifies == Spec => []ProofsVerify
<1>1. AllLeaves => ProofsVerify
  BY ProofVerifies DEF ProofsVerify, AllLeaves
<1> QED
  BY <1>1, PushesAreLeaves, PTL

(* For any number of data and any injective hash, verify() accepts at an   *)
(* index only the datum that is there, whichever position the proof was    *)
(* made for.                                                               *)
THEOREM PositionsAreBound == Spec => []ProofsBind
<1>1. AllLeaves => ProofsBind
  <2> SUFFICES ASSUME data \in Seq(Leaf), NEW i \in 0 .. Len(data) - 1,
                      NEW j \in 0 .. Len(data) - 1, NEW x \in Leaf,
                      Verify(Root(data), x, Proof(data, i), j, Len(data))
               PROVE  x = data[j + 1]
    BY DEF ProofsBind, AllLeaves
  <2>1. data # <<>>
    OBVIOUS
  <2>2. Top(data) \in Nat
    BY <2>1, TopExists
  <2>3. Len(Proof(data, i)) = Top(data)
    BY <2>1, <2>2, ProofIs
  <2> QED
    BY <2>3, VerifyBinds
<1> QED
  BY <1>1, PushesAreLeaves, PTL

(* For any number of data, no other vector of as many has the same root.   *)
THEOREM DataAreBound == Spec => []RootBinds
<1>1. AllLeaves => RootBinds
  <2> SUFFICES ASSUME data \in Seq(Leaf), NEW other \in [DOMAIN data -> Leaf],
                      Root(other) = Root(data)
               PROVE  other = data
    BY DEF RootBinds, AllLeaves
  <2>1. other \in Seq(Leaf) /\ Len(other) = Len(data)
    OBVIOUS
  <2> QED
    BY <2>1, RootBindsData
<1> QED
  BY <1>1, PushesAreLeaves, PTL
=============================================================================
