---------------------------- MODULE LedgerProofs ----------------------------
(***************************************************************************)
(* Lemmas about module Ledger: what the folds of check_tx_state compute,   *)
(* by induction over the transactions of a block, and what a transaction   *)
(* that passes does to the coins of a state.                               *)
(***************************************************************************)
EXTENDS Ledger, FiniteSetTheorems, WellFoundedInduction, TLAPS

-----------------------------------------------------------------------------
(* Induction over the naturals, for a set of them instead of a predicate.  *)
LEMMA NatMin ==
  ASSUME NEW T, T \subseteq Nat, T # {}
  PROVE  \E m \in T : \A k \in T : m <= k
<1>1. PICK m \in T : \A k \in T : ~ (<<k, m>> \in OpToRel(<, Nat))
  BY WFMin, NatLessThanWellFounded
<1>2. \A k \in T : ~ (k < m)
  BY <1>1 DEF OpToRel
<1> QED
  BY <1>2

LEMMA NatSetInduction ==
  ASSUME NEW S, 0 \in S, \A n \in Nat : n \in S => n + 1 \in S
  PROVE  Nat \subseteq S
<1> SUFFICES ASSUME NEW T, T = Nat \ S, T # {} PROVE FALSE
  OBVIOUS
<1>1. PICK m \in T : \A k \in T : m <= k
  BY NatMin
<1>2. m # 0 /\ m - 1 \in Nat
  OBVIOUS
<1>3. m - 1 \in S
  BY <1>1, <1>2
<1> QED
  BY <1>2, <1>3

-----------------------------------------------------------------------------
(* Sums over finite sets.  The fold takes the elements in an order that    *)
(* CHOOSE fixes; the sum does not depend on it.                            *)
Some(s) == CHOOSE x \in s : TRUE

IsSumOf(sum, f, D) ==
  sum = [s \in D |-> IF s = {} THEN 0 ELSE f[Some(s)] + sum[s \ {Some(s)}]]

UpTo(S, n) == {s \in SUBSET S : Cardinality(s) <= n}

LEMMA SomeIn ==
  ASSUME NEW S, IsFiniteSet(S), NEW s \in SUBSET S, s # {}
  PROVE  /\ Some(s) \in s
         /\ s \ {Some(s)} \in SUBSET S
         /\ Cardinality(s) \in Nat \ {0}
         /\ Cardinality(s \ {Some(s)}) = Cardinality(s) - 1
<1>1. Some(s) \in s
  BY DEF Some
<1>2. IsFiniteSet(s)
  BY FS_Subset
<1>3. Cardinality(s) \in Nat /\ Cardinality(s) # 0
  BY <1>2, FS_CardinalityType, FS_EmptySet
<1>4. Cardinality(s \ {Some(s)}) = Cardinality(s) - 1
  BY <1>1, <1>2, FS_RemoveElement
<1> QED
  BY <1>1, <1>3, <1>4

LEMMA OneLess ==
  ASSUME NEW S, IsFiniteSet(S), NEW n \in Nat, NEW s \in SUBSET S, Cardinality(s) = n + 1
  PROVE  /\ s # {} /\ Some(s) \in s
         /\ \A x \in s : s \ {x} \in SUBSET S /\ Cardinality(s \ {x}) = n
<1>1. IsFiniteSet(s)
  BY FS_Subset
<1>2. s # {}
  BY FS_EmptySet
<1>3. ASSUME NEW x \in s PROVE Cardinality(s \ {x}) = n
  <2>1. Cardinality(s \ {x}) = Cardinality(s) - 1
    BY <1>1, FS_RemoveElement
  <2> QED
    BY <2>1
<1> QED
  BY <1>2, <1>3 DEF Some

LEMMA NothingLeft ==
  ASSUME NEW S, IsFiniteSet(S), NEW s \in SUBSET S, Cardinality(s) = 0
  PROVE  s = {}
BY FS_Subset, FS_EmptySet

LEMMA SumExists ==
  ASSUME NEW f, NEW S, IsFiniteSet(S)
  PROVE  \E sum : IsSumOf(sum, f, SUBSET S)
<1> DEFINE N == {n \in Nat : \E sum : IsSumOf(sum, f, UpTo(S, n))}
<1>1. 0 \in N
  <2>1. \A s \in UpTo(S, 0) : s = {}
    <3> SUFFICES ASSUME NEW s \in UpTo(S, 0), s # {} PROVE FALSE
      OBVIOUS
    <3>1. Cardinality(s) \in Nat \ {0} /\ Cardinality(s) <= 0
      BY SomeIn DEF UpTo
    <3> QED
      BY <3>1
  <2>2. IsSumOf([s \in UpTo(S, 0) |-> 0], f, UpTo(S, 0))
    BY <2>1 DEF IsSumOf
  <2> QED
    BY <2>2
<1>2. ASSUME NEW n \in Nat, n \in N PROVE n + 1 \in N
  <2>1. PICK sum : IsSumOf(sum, f, UpTo(S, n))
    BY <1>2
  <2> DEFINE more == [s \in UpTo(S, n + 1) |->
                        IF s \in UpTo(S, n) THEN sum[s]
                        ELSE f[Some(s)] + sum[s \ {Some(s)}]]
  <2>2. ASSUME NEW s \in UpTo(S, n + 1)
        PROVE  more[s] = IF s = {} THEN 0 ELSE f[Some(s)] + more[s \ {Some(s)}]
    <3>1. CASE s = {}
      <4>1. s \in UpTo(S, n)
        BY <3>1, FS_EmptySet DEF UpTo
      <4> QED
        BY <3>1, <4>1, <2>1 DEF IsSumOf
    <3>2. CASE s # {}
      <4>1. s \in SUBSET S /\ Cardinality(s) <= n + 1
        BY DEF UpTo
      <4>2. /\ s \ {Some(s)} \in SUBSET S
            /\ Cardinality(s) \in Nat
            /\ Cardinality(s \ {Some(s)}) = Cardinality(s) - 1
        BY <3>2, <4>1, SomeIn
      <4>3. s \ {Some(s)} \in UpTo(S, n) /\ s \ {Some(s)} \in UpTo(S, n + 1)
        BY <4>1, <4>2 DEF UpTo
      <4>4. more[s \ {Some(s)}] = sum[s \ {Some(s)}]
        BY <4>3
      <4>5. s \in UpTo(S, n) => sum[s] = f[Some(s)] + sum[s \ {Some(s)}]
        BY <3>2, <2>1 DEF IsSumOf
      <4> QED
        BY <3>2, <4>4, <4>5
    <3> QED
      BY <3>1, <3>2
  <2>3. IsSumOf(more, f, UpTo(S, n + 1))
    BY <2>2 DEF IsSumOf
  <2> QED
    BY <2>3
<1>3. Nat \subseteq N
  <2> HIDE DEF N
  <2> QED
    BY <1>1, <1>2, NatSetInduction
<1>4. SUBSET S = UpTo(S, Cardinality(S)) /\ Cardinality(S) \in Nat
  BY FS_Subset, FS_CardinalityType DEF UpTo
<1> QED
  BY <1>3, <1>4

LEMMA SumIsNat ==
  ASSUME NEW f, NEW S, IsFiniteSet(S), \A x \in S : f[x] \in Nat,
         NEW sum, IsSumOf(sum, f, SUBSET S)
  PROVE  \A s \in SUBSET S : sum[s] \in Nat
<1> DEFINE N == {n \in Nat : \A s \in SUBSET S : Cardinality(s) = n => sum[s] \in Nat}
<1>0. ASSUME NEW s \in SUBSET S
      PROVE  /\ s = {} => sum[s] = 0
             /\ s # {} => sum[s] = f[Some(s)] + sum[s \ {Some(s)}]
  BY DEF IsSumOf
<1>1. 0 \in N
  <2>1. ASSUME NEW s \in SUBSET S, Cardinality(s) = 0 PROVE s = {}
    BY <2>1, NothingLeft
  <2>2. sum[{}] = 0
    BY <1>0
  <2> QED
    BY <2>1, <2>2
<1>2. ASSUME NEW n \in Nat, n \in N PROVE n + 1 \in N
  <2> SUFFICES ASSUME NEW s \in SUBSET S, Cardinality(s) = n + 1 PROVE sum[s] \in Nat
    OBVIOUS
  <2>1. s # {} /\ Some(s) \in s /\ s \ {Some(s)} \in SUBSET S /\ Cardinality(s \ {Some(s)}) = n
    BY OneLess
  <2>2. sum[s \ {Some(s)}] \in Nat /\ f[Some(s)] \in Nat
    BY <1>2, <2>1
  <2>3. sum[s] = f[Some(s)] + sum[s \ {Some(s)}]
    BY <1>0, <2>1
  <2> QED
    BY <2>2, <2>3
<1>3. Nat \subseteq N
  <2> HIDE DEF N
  <2> QED
    BY <1>1, <1>2, NatSetInduction
<1> SUFFICES ASSUME NEW s \in SUBSET S PROVE sum[s] \in Nat
  OBVIOUS
<1>4. Cardinality(s) \in Nat
  BY FS_Subset, FS_CardinalityType
<1> QED
  BY <1>3, <1>4

LEMMA SumTakesOut ==
  ASSUME NEW f, NEW S, IsFiniteSet(S), \A x \in S : f[x] \in Nat,
         NEW sum, IsSumOf(sum, f, SUBSET S)
  PROVE  \A s \in SUBSET S : \A x \in s : sum[s] = f[x] + sum[s \ {x}]
<1> DEFINE Good(s) == \A x \in s : sum[s] = f[x] + sum[s \ {x}]
           N == {n \in Nat : \A s \in SUBSET S : Cardinality(s) = n => Good(s)}
<1>0. ASSUME NEW s \in SUBSET S, s # {}
      PROVE  sum[s] = f[Some(s)] + sum[s \ {Some(s)}]
  BY <1>0 DEF IsSumOf
<1>1. 0 \in N
  BY NothingLeft
<1>2. ASSUME NEW n \in Nat, n \in N PROVE n + 1 \in N
  <2> SUFFICES ASSUME NEW s \in SUBSET S, Cardinality(s) = n + 1, NEW x \in s
               PROVE  sum[s] = f[x] + sum[s \ {x}]
    OBVIOUS
  <2>1. s # {} /\ Some(s) \in s
    BY OneLess
  <2>2. /\ s \ {Some(s)} \in SUBSET S /\ Cardinality(s \ {Some(s)}) = n
        /\ s \ {x} \in SUBSET S /\ Cardinality(s \ {x}) = n
    BY <2>1, OneLess
  <2>3. sum[s] = f[Some(s)] + sum[s \ {Some(s)}]
    BY <1>0, <2>1
  <2>4. CASE x = Some(s)
    BY <2>3, <2>4
  <2>5. CASE x # Some(s)
    <3> DEFINE rest == (s \ {x}) \ {Some(s)}
    <3>1. Good(s \ {x}) /\ Good(s \ {Some(s)})
      BY <1>2, <2>2
    <3>2. sum[s \ {x}] = f[Some(s)] + sum[rest]
      BY <2>1, <2>5, <3>1
    <3>3. (s \ {Some(s)}) \ {x} = rest
      OBVIOUS
    <3>4. sum[s \ {Some(s)}] = f[x] + sum[rest]
      BY <2>5, <3>1, <3>3
    <3>5. sum[rest] \in Nat
      BY <2>2, SumIsNat
    <3>6. f[x] \in Nat /\ f[Some(s)] \in Nat
      BY <2>1
    <3> HIDE DEF rest, Good
    <3> QED
      BY <2>3, <3>2, <3>4, <3>5, <3>6
  <2> QED
    BY <2>4, <2>5
<1>3. Nat \subseteq N
  <2> HIDE DEF N
  <2> QED
    BY <1>1, <1>2, NatSetInduction
<1> SUFFICES ASSUME NEW s \in SUBSET S PROVE Good(s)
  OBVIOUS
<1>4. Cardinality(s) \in Nat
  BY FS_Subset, FS_CardinalityType
<1> QED
  BY <1>3, <1>4

(* What the rest of the module uses of sums.                               *)
LEMMA SumOf ==
  ASSUME NEW f, NEW S, IsFiniteSet(S)
  PROVE  \E sum : IsSumOf(sum, f, SUBSET S) /\ SumFunctionOnSet(f, S) = sum[S]
<1> DEFINE sum == CHOOSE sum : IsSumOf(sum, f, SUBSET S)
<1>1. IsSumOf(sum, f, SUBSET S)
  BY SumExists
<1>2. SumFunctionOnSet(f, S) = sum[S]
  BY DEF SumFunctionOnSet, FoldFunctionOnSet, MapThenFoldSet, IsSumOf, Some
<1> HIDE DEF sum
<1> QED
  BY <1>1, <1>2

LEMMA SumAgrees ==
  ASSUME NEW f, NEW S, IsFiniteSet(S), NEW sum, IsSumOf(sum, f, SUBSET S),
         NEW g, NEW s, s \subseteq S, \A x \in s : f[x] = g[x]
  PROVE  SumFunctionOnSet(g, s) = sum[s]
<1>0. IsFiniteSet(s)
  BY FS_Subset
<1>o. PICK other : IsSumOf(other, g, SUBSET s) /\ SumFunctionOnSet(g, s) = other[s]
  BY <1>0, SumOf
<1> DEFINE N == {n \in Nat : \A r \in SUBSET s : Cardinality(r) = n => sum[r] = other[r]}
<1>1. 0 \in N
  <2>1. ASSUME NEW r \in SUBSET s, Cardinality(r) = 0 PROVE r = {}
    BY <2>1, <1>0, NothingLeft
  <2>2. sum[{}] = 0 /\ other[{}] = 0
    BY <1>o DEF IsSumOf
  <2> QED
    BY <2>1, <2>2
<1>2. ASSUME NEW n \in Nat, n \in N PROVE n + 1 \in N
  <2> SUFFICES ASSUME NEW r \in SUBSET s, Cardinality(r) = n + 1
               PROVE  sum[r] = other[r]
    OBVIOUS
  <2>1. r # {} /\ Some(r) \in r
    BY <1>0, OneLess
  <2>2. r \ {Some(r)} \in SUBSET s /\ Cardinality(r \ {Some(r)}) = n
    BY <1>0, <2>1, OneLess
  <2>3. sum[r \ {Some(r)}] = other[r \ {Some(r)}]
    BY <1>2, <2>2
  <2>4. sum[r] = f[Some(r)] + sum[r \ {Some(r)}]
    BY <1>o, <2>1 DEF IsSumOf
  <2>5. other[r] = g[Some(r)] + other[r \ {Some(r)}]
    BY <1>o, <2>1 DEF IsSumOf
  <2> QED
    BY <2>1, <2>3, <2>4, <2>5
<1>3. Nat \subseteq N
  <2> HIDE DEF N
  <2> QED
    BY <1>1, <1>2, NatSetInduction
<1>4. Cardinality(s) \in Nat
  BY <1>0, FS_CardinalityType
<1> QED
  BY <1>o, <1>3, <1>4

LEMMA SumOfNothing ==
  ASSUME NEW f
  PROVE  SumFunctionOnSet(f, {}) = 0
<1>1. PICK sum : IsSumOf(sum, f, SUBSET {}) /\ SumFunctionOnSet(f, {}) = sum[{}]
  BY SumOf, FS_EmptySet
<1> QED
  BY <1>1 DEF IsSumOf

LEMMA SumSame ==
  ASSUME NEW f, NEW g, NEW S, IsFiniteSet(S), \A x \in S : f[x] = g[x]
  PROVE  SumFunctionOnSet(f, S) = SumFunctionOnSet(g, S)
<1>1. PICK sum : IsSumOf(sum, f, SUBSET S) /\ SumFunctionOnSet(f, S) = sum[S]
  BY SumOf
<1> QED
  BY <1>1, SumAgrees

LEMMA SumSplits ==
  ASSUME NEW f, NEW S, IsFiniteSet(S), \A x \in S : f[x] \in Nat
  PROVE  /\ SumFunctionOnSet(f, S) \in Nat
         /\ \A x \in S : SumFunctionOnSet(f, S) = f[x] + SumFunctionOnSet(f, S \ {x})
<1>1. PICK sum : IsSumOf(sum, f, SUBSET S) /\ SumFunctionOnSet(f, S) = sum[S]
  BY SumOf
<1>2. ASSUME NEW x \in S
      PROVE  SumFunctionOnSet(f, S) = f[x] + SumFunctionOnSet(f, S \ {x})
  <2>1. SumFunctionOnSet(f, S \ {x}) = sum[S \ {x}]
    BY <1>1, SumAgrees
  <2>2. sum[S] = f[x] + sum[S \ {x}]
    BY <1>1, SumTakesOut
  <2> QED
    BY <1>1, <2>1, <2>2
<1> QED
  BY <1>1, <1>2, SumIsNat

LEMMA SumUnion ==
  ASSUME NEW f, NEW S, IsFiniteSet(S), NEW T, IsFiniteSet(T), S \cap T = {},
         \A x \in S \cup T : f[x] \in Nat
  PROVE  SumFunctionOnSet(f, S \cup T) = SumFunctionOnSet(f, S) + SumFunctionOnSet(f, T)
<1> DEFINE N == {n \in Nat : \A r \in SUBSET T : Cardinality(r) = n =>
                   SumFunctionOnSet(f, S \cup r) = SumFunctionOnSet(f, S) + SumFunctionOnSet(f, r)}
<1>0. \A r \in SUBSET T : /\ IsFiniteSet(r) /\ IsFiniteSet(S \cup r)
                         /\ SumFunctionOnSet(f, r) \in Nat
                         /\ SumFunctionOnSet(f, S \cup r) \in Nat
  <2> SUFFICES ASSUME NEW r \in SUBSET T
               PROVE  /\ IsFiniteSet(r) /\ IsFiniteSet(S \cup r)
                      /\ SumFunctionOnSet(f, r) \in Nat
                      /\ SumFunctionOnSet(f, S \cup r) \in Nat
    OBVIOUS
  <2>1. IsFiniteSet(r)
    BY FS_Subset
  <2>2. IsFiniteSet(S \cup r)
    BY <2>1, FS_Union
  <2> QED
    BY <2>1, <2>2, SumSplits
<1>s. SumFunctionOnSet(f, S) \in Nat
  BY SumSplits
<1>1. 0 \in N
  <2>1. ASSUME NEW r \in SUBSET T, Cardinality(r) = 0 PROVE r = {}
    BY <2>1, NothingLeft
  <2>2. SumFunctionOnSet(f, S \cup {}) = SumFunctionOnSet(f, S) + SumFunctionOnSet(f, {})
    <3>1. S \cup {} = S
      OBVIOUS
    <3> QED
      BY <3>1, <1>s, SumOfNothing
  <2> QED
    BY <2>1, <2>2
<1>2. ASSUME NEW n \in Nat, n \in N PROVE n + 1 \in N
  <2> SUFFICES ASSUME NEW r \in SUBSET T, Cardinality(r) = n + 1
               PROVE  SumFunctionOnSet(f, S \cup r) = SumFunctionOnSet(f, S) + SumFunctionOnSet(f, r)
    OBVIOUS
  <2>1. PICK x \in r : TRUE
    BY OneLess
  <2> DEFINE q == r \ {x}
  <2>2. q \in SUBSET T /\ Cardinality(q) = n
    BY OneLess
  <2>3. SumFunctionOnSet(f, S \cup q) = SumFunctionOnSet(f, S) + SumFunctionOnSet(f, q)
    BY <1>2, <2>2
  <2>4. SumFunctionOnSet(f, r) = f[x] + SumFunctionOnSet(f, q)
    <3>1. IsFiniteSet(r) /\ \A y \in r : f[y] \in Nat
      BY <1>0
    <3> QED
      BY <3>1, SumSplits
  <2>5. (S \cup r) \ {x} = S \cup q
    OBVIOUS
  <2>6. SumFunctionOnSet(f, S \cup r) = f[x] + SumFunctionOnSet(f, S \cup q)
    <3>1. IsFiniteSet(S \cup r) /\ x \in S \cup r /\ \A y \in S \cup r : f[y] \in Nat
      BY <1>0
    <3>2. SumFunctionOnSet(f, S \cup r) = f[x] + SumFunctionOnSet(f, (S \cup r) \ {x})
      BY <3>1, SumSplits
    <3> QED
      BY <2>5, <3>2
  <2>7. f[x] \in Nat /\ SumFunctionOnSet(f, q) \in Nat
    BY <1>0, <2>2
  <2> HIDE DEF q, N
  <2> QED
    BY <1>s, <2>3, <2>4, <2>6, <2>7
<1>3. Nat \subseteq N
  <2> HIDE DEF N
  <2> QED
    BY <1>1, <1>2, NatSetInduction
<1>4. Cardinality(T) \in Nat
  BY FS_CardinalityType
<1> QED
  BY <1>3, <1>4

LEMMA SumOfPart ==
  ASSUME NEW f, NEW S, IsFiniteSet(S), \A x \in S : f[x] \in Nat, NEW R, R \subseteq S
  PROVE  /\ SumFunctionOnSet(f, S) = SumFunctionOnSet(f, R) + SumFunctionOnSet(f, S \ R)
         /\ SumFunctionOnSet(f, R) <= SumFunctionOnSet(f, S)
<1>1. IsFiniteSet(R) /\ IsFiniteSet(S \ R) /\ R \cup (S \ R) = S
  BY FS_Subset
<1>2. SumFunctionOnSet(f, R \cup (S \ R)) = SumFunctionOnSet(f, R) + SumFunctionOnSet(f, S \ R)
  BY <1>1, SumUnion
<1>3. SumFunctionOnSet(f, R) \in Nat /\ SumFunctionOnSet(f, S \ R) \in Nat
  BY <1>1, SumSplits
<1>4. SumFunctionOnSet(f, S) = SumFunctionOnSet(f, R) + SumFunctionOnSet(f, S \ R)
  BY <1>1, <1>2
<1> QED
  BY <1>3, <1>4

LEMMA SumOfImage ==
  ASSUME NEW f, NEW S, IsFiniteSet(S), \A x \in S : f[x] \in Nat,
         NEW h, \A x, y \in S : h[x] = h[y] => x = y,
         NEW g, \A x \in S : f[x] = g[h[x]]
  PROVE  /\ IsFiniteSet({h[x] : x \in S})
         /\ SumFunctionOnSet(f, S) = SumFunctionOnSet(g, {h[x] : x \in S})
<1> DEFINE Image(s) == {h[x] : x \in s}
           N == {n \in Nat : \A s \in SUBSET S : Cardinality(s) = n =>
                   /\ IsFiniteSet(Image(s))
                   /\ SumFunctionOnSet(f, s) = SumFunctionOnSet(g, Image(s))}
<1>1. 0 \in N
  <2>1. ASSUME NEW s \in SUBSET S, Cardinality(s) = 0 PROVE s = {}
    BY <2>1, NothingLeft
  <2>2. Image({}) = {}
    OBVIOUS
  <2>3. IsFiniteSet({}) /\ SumFunctionOnSet(f, {}) = SumFunctionOnSet(g, {})
    BY SumOfNothing, FS_EmptySet
  <2> HIDE DEF Image
  <2> QED
    BY <2>1, <2>2, <2>3
<1>2. ASSUME NEW n \in Nat, n \in N PROVE n + 1 \in N
  <2> SUFFICES ASSUME NEW s \in SUBSET S, Cardinality(s) = n + 1
               PROVE  /\ IsFiniteSet(Image(s))
                      /\ SumFunctionOnSet(f, s) = SumFunctionOnSet(g, Image(s))
    OBVIOUS
  <2>1. PICK x \in s : TRUE
    BY OneLess
  <2>2. PICK r : r = s \ {x}
    OBVIOUS
  <2>3. r \in SUBSET S /\ Cardinality(r) = n
    BY <2>2, OneLess
  <2>4. IsFiniteSet(Image(r)) /\ SumFunctionOnSet(f, r) = SumFunctionOnSet(g, Image(r))
    BY <1>2, <2>3
  <2>5. Image(s) = Image(r) \cup {h[x]} /\ Image(s) \ {h[x]} = Image(r) /\ h[x] \in Image(s)
    BY <2>1, <2>2
  <2>6. \A y \in Image(s) : g[y] \in Nat
    OBVIOUS
  <2>7. IsFiniteSet(s)
    BY FS_Subset
  <2>8. f[x] = g[h[x]]
    BY <2>1
  <2> HIDE DEF Image, N
  <2>9. IsFiniteSet(Image(s))
    BY <2>4, <2>5, FS_AddElement
  <2>10. SumFunctionOnSet(f, s) = f[x] + SumFunctionOnSet(f, r)
    BY <2>1, <2>2, <2>7, SumSplits
  <2>11. SumFunctionOnSet(g, Image(s)) = g[h[x]] + SumFunctionOnSet(g, Image(r))
    BY <2>5, <2>6, <2>9, SumSplits
  <2> QED
    BY <2>4, <2>8, <2>9, <2>10, <2>11
<1>3. Nat \subseteq N
  <2> HIDE DEF N
  <2> QED
    BY <1>1, <1>2, NatSetInduction
<1>4. Cardinality(S) \in Nat
  BY FS_CardinalityType
<1> QED
  BY <1>3, <1>4

(* h names the elements of S one to one, T is the set of their names, and g *)
(* has under a name what f has for the element.                            *)
Renamed(f, S, h, g, T) ==
  /\ \A x \in S : f[x] \in Nat /\ f[x] = g[h[x]]
  /\ \A x, y \in S : h[x] = h[y] => x = y
  /\ T = {h[x] : x \in S}

LEMMA SumRenamed ==
  ASSUME NEW f, NEW S, NEW h, NEW g, NEW T, IsFiniteSet(S), Renamed(f, S, h, g, T)
  PROVE  IsFiniteSet(T) /\ SumFunctionOnSet(f, S) = SumFunctionOnSet(g, T)
<1>1. /\ \A x \in S : f[x] \in Nat
      /\ \A x \in S : f[x] = g[h[x]]
      /\ \A x, y \in S : h[x] = h[y] => x = y
      /\ T = {h[x] : x \in S}
  BY DEF Renamed
<1> QED
  BY <1>1, SumOfImage

-----------------------------------------------------------------------------
(* The loop of check_tx_state: Replay is the last of the values that it    *)
(* goes through, one per transaction.                                      *)
ReplayStart(utxo) == [ok |-> TRUE, states |-> utxo]

IsReplayOf(fold, utxo, txs, k) ==
  fold = [s \in SUBSET (1 .. k) |->
            IF s = {} THEN ReplayStart(utxo)
            ELSE CheckOne(fold[s \ {Max(s)}], txs[Max(s)])]

LEMMA MaxOfPart ==
  ASSUME NEW k \in Nat, NEW s \in SUBSET (1 .. k + 1)
  PROVE  /\ k + 1 \in s => Max(s) = k + 1 /\ s \ {k + 1} \in SUBSET (1 .. k)
         /\ k + 1 \notin s => s \in SUBSET (1 .. k)
<1>1. ASSUME k + 1 \in s PROVE Max(s) = k + 1
  <2>1. \A x \in s : (\A y \in s : x >= y) <=> x = k + 1
    BY <1>1
  <2>2. Max(s) = CHOOSE x \in s : \A y \in s : x >= y
    BY DEF Max
  <2> QED
    BY <1>1, <2>1, <2>2
<1>2. s \ {k + 1} \in SUBSET (1 .. k)
  OBVIOUS
<1>3. k + 1 \notin s => s \in SUBSET (1 .. k)
  OBVIOUS
<1> QED
  BY <1>1, <1>2, <1>3

LEMMA ReplayExists ==
  ASSUME NEW utxo, NEW txs
  PROVE  \A k \in Nat : \E fold : IsReplayOf(fold, utxo, txs, k)
<1> DEFINE N == {k \in Nat : \E fold : IsReplayOf(fold, utxo, txs, k)}
<1>1. 0 \in N
  <2>1. IsReplayOf([s \in SUBSET (1 .. 0) |-> ReplayStart(utxo)], utxo, txs, 0)
    BY DEF IsReplayOf
  <2> QED
    BY <2>1
<1>2. ASSUME NEW k \in Nat, k \in N PROVE k + 1 \in N
  <2>1. PICK fold : IsReplayOf(fold, utxo, txs, k)
    BY <1>2
  <2> DEFINE more == [s \in SUBSET (1 .. k + 1) |->
                        IF k + 1 \in s THEN CheckOne(fold[s \ {k + 1}], txs[k + 1])
                        ELSE fold[s]]
  <2>2. ASSUME NEW s \in SUBSET (1 .. k + 1)
        PROVE  more[s] = IF s = {} THEN ReplayStart(utxo)
                         ELSE CheckOne(more[s \ {Max(s)}], txs[Max(s)])
    <3>1. CASE k + 1 \in s
      <4>1. Max(s) = k + 1 /\ s \ {k + 1} \in SUBSET (1 .. k)
        BY <3>1, MaxOfPart
      <4>2. more[s \ {k + 1}] = fold[s \ {k + 1}]
        OBVIOUS
      <4>3. more[s] = CheckOne(fold[s \ {k + 1}], txs[k + 1])
        BY <3>1
      <4> QED
        BY <3>1, <4>1, <4>2, <4>3
    <3>2. CASE k + 1 \notin s
      <4>1. s \in SUBSET (1 .. k)
        BY <3>2, MaxOfPart
      <4>2. more[s] = fold[s] /\ more[s \ {Max(s)}] = fold[s \ {Max(s)}]
        BY <3>2
      <4>3. fold[s] = IF s = {} THEN ReplayStart(utxo)
                      ELSE CheckOne(fold[s \ {Max(s)}], txs[Max(s)])
        BY <4>1, <2>1 DEF IsReplayOf
      <4> QED
        BY <4>2, <4>3
    <3> QED
      BY <3>1, <3>2
  <2>3. IsReplayOf(more, utxo, txs, k + 1)
    BY <2>2 DEF IsReplayOf
  <2> QED
    BY <2>3
<1>3. Nat \subseteq N
  <2> HIDE DEF N
  <2> QED
    BY <1>1, <1>2, NatSetInduction
<1> QED
  BY <1>3

IsRun(run, utxo, txs) ==
  /\ run[0] = ReplayStart(utxo)
  /\ \A k \in 1 .. Len(txs) : run[k] = CheckOne(run[k - 1], txs[k])

LEMMA ReplayRuns ==
  ASSUME NEW utxo, NEW S, NEW txs \in Seq(S)
  PROVE  \E run : IsRun(run, utxo, txs) /\ Replay(utxo, txs) = run[Len(txs)]
<1> DEFINE size == Len(txs)
           fold == CHOOSE fold : IsReplayOf(fold, utxo, txs, size)
           run  == [k \in 0 .. size |-> fold[1 .. k]]
<1>0. size \in Nat /\ DOMAIN txs = 1 .. size
  OBVIOUS
<1>1. IsReplayOf(fold, utxo, txs, size)
  BY <1>0, ReplayExists
<1>2. Replay(utxo, txs) = fold[1 .. size]
  BY <1>0 DEF Replay, FoldLeft, MapThenFoldSet, IsReplayOf, ReplayStart
<1> HIDE DEF fold
<1>3. run[0] = ReplayStart(utxo)
  <2>1. 1 .. 0 = {} /\ 1 .. 0 \in SUBSET (1 .. size)
    OBVIOUS
  <2> QED
    BY <1>0, <1>1, <2>1 DEF IsReplayOf
<1>4. ASSUME NEW k \in 1 .. size PROVE run[k] = CheckOne(run[k - 1], txs[k])
  <2>1. 1 .. k \in SUBSET (1 .. size) /\ k \in 1 .. k /\ k - 1 \in Nat
    BY <1>0
  <2>2. Max(1 .. k) = k
    BY <2>1, MaxOfPart, k = (k - 1) + 1
  <2>3. (1 .. k) \ {k} = 1 .. k - 1
    BY <2>1
  <2>4. fold[1 .. k] = CheckOne(fold[1 .. k - 1], txs[k])
    BY <1>1, <2>1, <2>2, <2>3 DEF IsReplayOf
  <2> QED
    BY <1>0, <2>4
<1>5. Replay(utxo, txs) = run[size]
  BY <1>0, <1>2
<1> HIDE DEF run
<1> QED
  BY <1>3, <1>4, <1>5 DEF IsRun

-----------------------------------------------------------------------------
(* What a transaction does to a state.                                     *)
IsState(utxo) ==
  /\ IsFiniteSet(DOMAIN utxo)
  /\ \A o \in DOMAIN utxo : utxo[o].value \in Nat

Made(st) == {<<st, k - 1>> : k \in DOMAIN st.output}

IsApplied(after, utxo, st) ==
  /\ DOMAIN after = Made(st) \cup (DOMAIN utxo \ ToSet(st.input))
  /\ \A k \in DOMAIN st.output :
       after[<<st, k - 1>>] = [value     |-> st.output[k].value,
                               recipient |-> st.output[k].recipient_addr]
  /\ \A o \in (DOMAIN utxo \ ToSet(st.input)) \ Made(st) : after[o] = utxo[o]

LEMMA AppliedAt ==
  ASSUME NEW utxo, NEW st, st.output \in Seq(ToSet(st.output))
  PROVE  IsApplied(TxApplied(utxo, st), utxo, st)
<1>1. /\ DOMAIN SpendInputs(utxo, st) = DOMAIN utxo \ ToSet(st.input)
      /\ \A o \in DOMAIN utxo \ ToSet(st.input) : SpendInputs(utxo, st)[o] = utxo[o]
  BY DEF SpendInputs, Restrict
<1>2. TxApplied(utxo, st) =
        [o \in Made(st) \cup DOMAIN SpendInputs(utxo, st) |->
           IF o \in Made(st)
           THEN [value     |-> st.output[o[2] + 1].value,
                 recipient |-> st.output[o[2] + 1].recipient_addr]
           ELSE SpendInputs(utxo, st)[o]]
  BY DEF TxApplied, Made
<1>3. ASSUME NEW k \in DOMAIN st.output
      PROVE  <<st, k - 1>> \in Made(st) /\ <<st, k - 1>>[2] + 1 = k
  <2>1. k \in 1 .. Len(st.output)
    OBVIOUS
  <2> QED
    BY <2>1 DEF Made
<1> QED
  BY <1>1, <1>2, <1>3 DEF IsApplied

LEMMA PlainSeqs ==
  ASSUME NEW st, PlainTx(st)
  PROVE  st.output \in Seq(ToSet(st.output)) /\ st.input \in Seq(ToSet(st.input))
<1>1. st.output \in Seq(ToSet(st.output))
  BY DEF PlainTx, TypedTx
<1>2. st.input \in Seq(ToSet(st.input))
  BY DEF PlainTx, TypedTx
<1> QED
  BY <1>1, <1>2

LEMMA CoinsKept ==
  ASSUME NEW utxo, IsState(utxo), NEW st, PlainTx(st), TxPasses(utxo, st)
  PROVE  /\ IsState(TxApplied(utxo, st))
         /\ Coins(TxApplied(utxo, st)) <= Coins(utxo)
<1>a. PICK after : after = TxApplied(utxo, st)
  OBVIOUS
<1> DEFINE spent == ToSet(st.input)
           made  == Made(st)
           was   == [o \in DOMAIN utxo |-> utxo[o].value]
           is    == [o \in DOMAIN after |-> after[o].value]
           paid  == [k \in DOMAIN st.output |-> st.output[k].value]
           taken == [k \in DOMAIN st.input |-> utxo[st.input[k]].value]
           kept  == DOMAIN utxo \ spent
           Sum(f, S) == SumFunctionOnSet(f, S)
<1>1. /\ DOMAIN st.output = 1 .. Len(st.output) /\ Len(st.output) \in Nat
      /\ DOMAIN st.input = 1 .. Len(st.input) /\ Len(st.input) \in Nat
      /\ IsFiniteSet(DOMAIN st.output) /\ IsFiniteSet(DOMAIN st.input)
  <2>1. st.output \in Seq(ToSet(st.output)) /\ st.input \in Seq(ToSet(st.input))
    BY PlainSeqs
  <2>2. /\ DOMAIN st.output = 1 .. Len(st.output) /\ Len(st.output) \in Nat
        /\ DOMAIN st.input = 1 .. Len(st.input) /\ Len(st.input) \in Nat
    BY ONLY <2>1
  <2>3. \A m \in Nat : IsFiniteSet(1 .. m)
    BY ONLY FS_Interval
  <2> QED
    BY ONLY <2>2, <2>3
<1>2. /\ DOMAIN after = made \cup kept
      /\ \A k \in DOMAIN st.output : after[<<st, k - 1>>].value = st.output[k].value
      /\ \A o \in kept \ made : after[o] = utxo[o]
  <2>1. st.output \in Seq(ToSet(st.output))
    BY ONLY PlainTx(st), PlainSeqs
  <2>2. IsApplied(after, utxo, st)
    BY ONLY <1>a, <2>1, AppliedAt
  <2>3. DOMAIN after = made \cup kept
    BY <2>2 DEF IsApplied
  <2>4. \A o \in kept \ made : after[o] = utxo[o]
    BY <2>2 DEF IsApplied
  <2>5. \A k \in DOMAIN st.output : after[<<st, k - 1>>].value = st.output[k].value
    <3> TAKE k \in DOMAIN st.output
    <3>1. after[<<st, k - 1>>] = [value     |-> st.output[k].value,
                                  recipient |-> st.output[k].recipient_addr]
      BY <2>2 DEF IsApplied
    <3> QED
      BY <3>1
  <2> QED
    BY <2>3, <2>4, <2>5
<1>3. spent \subseteq DOMAIN utxo
  BY DEF TxPasses, InputsUnspent, ToSet
<1>4. \A k \in DOMAIN st.output : st.output[k].value \in Nat
  BY DEF PlainTx, TypedTx
<1>5. \A o \in DOMAIN after : after[o].value \in Nat
  BY <1>2, <1>4 DEF Made, IsState
<1>6. IsFiniteSet(DOMAIN utxo) /\ IsFiniteSet(spent) /\ IsFiniteSet(kept)
  BY <1>3, FS_Subset DEF IsState
<1>7. IsFiniteSet(made) /\ Sum(paid, DOMAIN st.output) = Sum(is, made)
  <2> DEFINE name == [k \in DOMAIN st.output |-> <<st, k - 1>>]
  <2>1. \A j, k \in DOMAIN st.output : name[j] = name[k] => j = k
    BY <1>1
  <2>2. \A k \in DOMAIN st.output : paid[k] \in Nat /\ paid[k] = is[name[k]]
    BY <1>2, <1>4 DEF Made
  <2>3. Made(st) = {name[k] : k \in DOMAIN st.output}
    BY DEF Made
  <2> HIDE DEF name, is, paid
  <2>4. Renamed(paid, DOMAIN st.output, name, is, Made(st))
    BY <2>1, <2>2, <2>3 DEF Renamed
  <2> QED
    BY <1>1, <2>4, SumRenamed
<1>8. Sum(taken, DOMAIN st.input) = Sum(was, spent)
  <2> DEFINE name == [k \in DOMAIN st.input |-> st.input[k]]
  <2>1. \A j, k \in DOMAIN st.input : name[j] = name[k] => j = k
    BY DEF PlainTx, TypedTx
  <2>2. \A k \in DOMAIN st.input : taken[k] \in Nat /\ taken[k] = was[name[k]]
    BY <1>3 DEF ToSet, IsState
  <2>3. spent = {name[k] : k \in DOMAIN st.input}
    BY DEF ToSet
  <2> HIDE DEF name, taken, was, spent
  <2>4. Renamed(taken, DOMAIN st.input, name, was, spent)
    BY <2>1, <2>2, <2>3 DEF Renamed
  <2> QED
    BY <1>1, <2>4, SumRenamed
<1>9. \A o \in DOMAIN utxo : was[o] \in Nat
  BY DEF IsState
<1>10. \A o \in DOMAIN after : is[o] \in Nat
  BY <1>5
<1>11. IsFiniteSet(DOMAIN after)
  BY <1>2, <1>6, <1>7, FS_Union
<1>12. Coins(utxo) = Sum(was, DOMAIN utxo) /\ Coins(after) = Sum(is, DOMAIN after)
  BY DEF Coins, SumFunction
<1>13. \A o \in kept \ made : is[o] = was[o]
  BY <1>2
<1>14. Sum(paid, DOMAIN st.output) <= Sum(taken, DOMAIN st.input)
  <2>1. /\ Sum(paid, DOMAIN st.output) < U32Bound
        /\ Sum(taken, DOMAIN st.input) % U32Bound >= Sum(paid, DOMAIN st.output) % U32Bound
    BY DEF PlainTx, TypedTx, TxPasses, InputsCoverOutputs, SumU32, SumFunction
  <2>2. /\ \A k \in DOMAIN st.output : paid[k] \in Nat
        /\ \A k \in DOMAIN st.input : taken[k] \in Nat
    BY <1>3, <1>4 DEF ToSet, IsState
  <2> HIDE DEF paid, taken
  <2>3. Sum(paid, DOMAIN st.output) \in Nat /\ Sum(taken, DOMAIN st.input) \in Nat
    BY <1>1, <2>2, SumSplits
  <2>4. \A m \in Nat : m < U32Bound => m % U32Bound = m
    BY LedgerAssumption
  <2>5. \A m \in Nat : U32Bound > 0 => m % U32Bound <= m
    BY LedgerAssumption
  <2> HIDE DEF Sum
  <2>6. U32Bound \in Nat /\ U32Bound > 0
    BY <2>1, <2>3, LedgerAssumption
  <2>7. Sum(taken, DOMAIN st.input) % U32Bound <= Sum(taken, DOMAIN st.input)
    BY <2>3, <2>5, <2>6
  <2>8. Sum(taken, DOMAIN st.input) % U32Bound \in Nat
    BY <2>3, <2>6
  <2> QED
    BY <2>1, <2>3, <2>4, <2>7, <2>8
<1> HIDE DEF was, is, paid, taken, spent, made
<1>15. Sum(was, DOMAIN utxo) = Sum(was, spent) + Sum(was, kept)
  BY <1>3, <1>6, <1>9, SumOfPart
<1>16. Sum(is, DOMAIN after) = Sum(is, made) + Sum(is, kept \ made)
  <2>1. DOMAIN after \ made = kept \ made /\ made \subseteq DOMAIN after
    BY <1>2
  <2> QED
    BY <1>10, <1>11, <2>1, SumOfPart
<1>17. Sum(is, kept \ made) = Sum(was, kept \ made)
  <2>1. IsFiniteSet(kept \ made)
    BY <1>6, FS_Difference
  <2> QED
    BY <1>13, <2>1, SumSame
<1>18. Sum(was, kept \ made) <= Sum(was, kept)
  BY <1>6, <1>9, SumOfPart
<1>19. /\ Sum(was, spent) \in Nat /\ Sum(was, kept) \in Nat
       /\ Sum(is, made) \in Nat /\ Sum(was, kept \ made) \in Nat
  <2>1. IsFiniteSet(kept \ made) /\ made \subseteq DOMAIN after
    BY <1>2, <1>6, FS_Difference
  <2> QED
    BY <1>3, <1>6, <1>7, <1>9, <1>10, <2>1, SumSplits
<1> HIDE DEF kept, Sum
<1>20. Coins(after) <= Coins(utxo)
  BY <1>7, <1>8, <1>12, <1>14, <1>15, <1>16, <1>17, <1>18, <1>19
<1> QED
  BY <1>a, <1>5, <1>11, <1>20 DEF IsState

(* A sequence of transactions that check_tx_state lets through mints       *)
(* nothing.                                                                *)
Backed(utxo, most) == IsState(utxo) /\ Coins(utxo) \in Nat /\ Coins(utxo) <= most

LEMMA StateHasCoins ==
  ASSUME NEW utxo, IsState(utxo)
  PROVE  Coins(utxo) \in Nat
<1> DEFINE was == [o \in DOMAIN utxo |-> utxo[o].value]
<1>1. IsFiniteSet(DOMAIN utxo) /\ \A o \in DOMAIN utxo : was[o] \in Nat
  BY DEF IsState
<1>2. Coins(utxo) = SumFunctionOnSet(was, DOMAIN utxo)
  BY DEF Coins, SumFunction
<1> HIDE DEF was
<1> QED
  BY <1>1, <1>2, SumSplits

LEMMA StepBacked ==
  ASSUME NEW most \in Nat, NEW acc, Backed(acc.states, most), NEW st, PlainTx(st)
  PROVE  Backed(CheckOne(acc, st).states, most)
<1>1. CASE acc.ok /\ TxPasses(acc.states, st)
  <2>1. CheckOne(acc, st).states = TxApplied(acc.states, st)
    BY <1>1 DEF CheckOne
  <2>2. PICK before, after : before = acc.states /\ after = TxApplied(before, st)
    OBVIOUS
  <2>3. IsState(before) /\ Coins(before) \in Nat /\ Coins(before) <= most
    BY <2>2 DEF Backed
  <2>4. TxPasses(before, st)
    BY <1>1, <2>2
  <2>5. IsState(after) /\ Coins(after) <= Coins(before)
    BY <2>2, <2>3, <2>4, CoinsKept
  <2>6. Coins(after) \in Nat
    BY <2>5, StateHasCoins
  <2> QED
    BY <2>1, <2>2, <2>3, <2>5, <2>6 DEF Backed
<1>2. CASE ~ (acc.ok /\ TxPasses(acc.states, st))
  BY <1>2 DEF CheckOne
<1> QED
  BY <1>1, <1>2

(* However far check_tx_state comes with a block of plain transactions,    *)
(* the state it works on is backed by the coins there were: no sum that    *)
(* wraps lets a transaction pay out more than it takes in.                 *)
THEOREM ReplayMintsNothing ==
  ASSUME NEW most \in Nat, NEW utxo, Backed(utxo, most), NEW txs, AllPlain(txs)
  PROVE  Backed(Replay(utxo, txs).states, most)
<1>1. txs \in Seq(ToSet(txs)) /\ \A k \in 1 .. Len(txs) : PlainTx(txs[k])
  BY DEF AllPlain
<1>2. PICK run : IsRun(run, utxo, txs) /\ Replay(utxo, txs) = run[Len(txs)]
  BY <1>1, ReplayRuns
<1>3. /\ run[0] = ReplayStart(utxo)
      /\ \A k \in 1 .. Len(txs) : run[k] = CheckOne(run[k - 1], txs[k])
  BY <1>2 DEF IsRun
<1>4. Len(txs) \in Nat
  BY <1>1
<1> DEFINE N == {k \in Nat : k <= Len(txs) => Backed(run[k].states, most)}
<1>5. 0 \in N
  BY <1>3 DEF ReplayStart
<1>6. ASSUME NEW k \in Nat, k \in N PROVE k + 1 \in N
  <2> SUFFICES ASSUME k + 1 <= Len(txs) PROVE Backed(run[k + 1].states, most)
    OBVIOUS
  <2>1. k + 1 \in 1 .. Len(txs) /\ (k + 1) - 1 = k
    BY <1>4
  <2>2. Backed(run[k].states, most)
    BY <1>4, <1>6
  <2>3. PICK acc : acc = run[k]
    OBVIOUS
  <2>4. run[k + 1] = CheckOne(acc, txs[k + 1])
    BY <1>3, <2>1, <2>3
  <2>5. PlainTx(txs[k + 1])
    BY <1>1, <2>1
  <2> QED
    BY <2>2, <2>3, <2>4, <2>5, StepBacked
<1>7. Nat \subseteq N
  <2> HIDE DEF N
  <2> QED
    BY <1>5, <1>6, NatSetInduction
<1> QED
  BY <1>2, <1>4, <1>7

LEMMA InitialStateBacked == Backed(InitialState, IcoValue)
<1> DEFINE was == [o \in DOMAIN InitialState |-> InitialState[o].value]
           ico == <<IcoHash, 0>>
<1>1. DOMAIN InitialState = {ico} /\ InitialState[ico].value = IcoValue
  BY DEF InitialState
<1>2. IcoValue \in Nat
  BY LedgerAssumption
<1>3. IsFiniteSet({ico}) /\ {ico} \ {ico} = {}
  BY FS_Singleton
<1>4. \A o \in {ico} : was[o] = IcoValue
  BY <1>1
<1>5. Coins(InitialState) = SumFunctionOnSet(was, {ico})
  BY <1>1 DEF Coins, SumFunction
<1>6. IsState(InitialState)
  BY <1>1, <1>2, <1>3 DEF IsState
<1> HIDE DEF was, ico
<1>7. SumFunctionOnSet(was, {ico}) = IcoValue + SumFunctionOnSet(was, {})
  BY <1>2, <1>3, <1>4, SumSplits
<1>8. SumFunctionOnSet(was, {}) = 0
  BY SumOfNothing
<1> QED
  BY <1>2, <1>5, <1>6, <1>7, <1>8 DEF Backed

-----------------------------------------------------------------------------
(* The transactions a branch has taken so far and its state: what they     *)
(* spent is gone for good, because an outpoint is named after the one      *)
(* transaction that makes it, and that one cannot pass again.              *)
MadeBy(o, seen) == o = <<IcoHash, 0>> \/ \E s \in seen, k \in Int : o = <<s, k>>

SpentOnce(seen, utxo) ==
  /\ \A s \in seen : \A k \in DOMAIN s.input :
       s.input[k] \notin DOMAIN utxo /\ MadeBy(s.input[k], seen)
  /\ \A o \in DOMAIN utxo : MadeBy(o, seen)

LEMMA NothingSpentYet == SpentOnce({}, InitialState)
BY DEF SpentOnce, InitialState, MadeBy

LEMMA AppliedOnce ==
  ASSUME NEW seen, NEW utxo, SpentOnce(seen, utxo),
         NEW st, PlainTx(st), TxPasses(utxo, st)
  PROVE  SpentOnce(seen \cup {st}, TxApplied(utxo, st))
<1>a. PICK after, more : after = TxApplied(utxo, st) /\ more = seen \cup {st}
  OBVIOUS
<1>0. /\ st # IcoHash
      /\ st.input \in Seq(ToSet(st.input)) /\ st.input # <<>>
      /\ st.output \in Seq(ToSet(st.output))
  BY DEF PlainTx, TypedTx
<1>1. IsApplied(after, utxo, st)
  BY <1>a, <1>0, AppliedAt
<1>2. DOMAIN after = Made(st) \cup (DOMAIN utxo \ ToSet(st.input))
  BY <1>1 DEF IsApplied
<1>3. \A k \in DOMAIN st.input : st.input[k] \in DOMAIN utxo
  BY DEF TxPasses, InputsUnspent
<1>4. \A o : MadeBy(o, seen) => MadeBy(o, more)
  BY <1>a DEF MadeBy
<1>5. \A o \in Made(st) : MadeBy(o, more)
  <2>1. DOMAIN st.output = 1 .. Len(st.output) /\ Len(st.output) \in Nat
    BY <1>0
  <2>2. \A k \in DOMAIN st.output : k - 1 \in Int
    BY <2>1
  <2> QED
    BY <1>a, <2>2 DEF MadeBy, Made
<1>6. st \notin seen
  <2>1. 1 \in DOMAIN st.input
    BY <1>0
  <2> QED
    BY <1>3, <2>1 DEF SpentOnce
<1>7. \A o \in Made(st) : ~ MadeBy(o, seen)
  BY <1>0, <1>6 DEF MadeBy, Made
<1>8. \A o \in DOMAIN after : MadeBy(o, more)
  BY <1>2, <1>4, <1>5 DEF SpentOnce
<1>9. ASSUME NEW s \in more, NEW k \in DOMAIN s.input
      PROVE  s.input[k] \notin DOMAIN after /\ MadeBy(s.input[k], more)
  <2>1. CASE s \in seen
    <3>1. s.input[k] \notin DOMAIN utxo /\ MadeBy(s.input[k], seen)
      BY <2>1, <1>9 DEF SpentOnce
    <3> QED
      BY <3>1, <1>2, <1>4, <1>7
  <2>2. CASE s = st
    <3>1. s.input[k] \in DOMAIN utxo /\ s.input[k] \in ToSet(st.input)
      BY <2>2, <1>3 DEF ToSet
    <3>2. MadeBy(s.input[k], seen)
      BY <3>1 DEF SpentOnce
    <3> QED
      BY <3>1, <3>2, <1>2, <1>4, <1>7
  <2> QED
    BY <1>a, <2>1, <2>2
<1> QED
  BY <1>a, <1>8, <1>9 DEF SpentOnce

(* The transactions before the k-th one.                                   *)
Earlier(txs, k) == {txs[i] : i \in 1 .. k - 1}

(* Every transaction of a block that passes does so on a state from which  *)
(* nothing that was spent before it can be spent.                          *)
THEOREM ReplaySpendsOnce ==
  ASSUME NEW seen, NEW utxo, SpentOnce(seen, utxo), NEW txs, AllPlain(txs),
         Replay(utxo, txs).ok
  PROVE  /\ SpentOnce(seen \cup ToSet(txs), Replay(utxo, txs).states)
         /\ \A k \in 1 .. Len(txs) : \E before :
              SpentOnce(seen \cup Earlier(txs, k), before) /\ TxPasses(before, txs[k])
<1>1. txs \in Seq(ToSet(txs)) /\ \A k \in 1 .. Len(txs) : PlainTx(txs[k])
  BY DEF AllPlain
<1>2. PICK run : IsRun(run, utxo, txs) /\ Replay(utxo, txs) = run[Len(txs)]
  BY <1>1, ReplayRuns
<1>3. /\ run[0] = ReplayStart(utxo)
      /\ \A k \in 1 .. Len(txs) : run[k] = CheckOne(run[k - 1], txs[k])
  BY <1>2 DEF IsRun
<1>4. Len(txs) \in Nat /\ ToSet(txs) = Earlier(txs, Len(txs) + 1)
  BY <1>1 DEF ToSet, Earlier
<1>5. ASSUME NEW k \in 1 .. Len(txs), run[k].ok
      PROVE  /\ run[k - 1].ok /\ TxPasses(run[k - 1].states, txs[k])
             /\ run[k].states = TxApplied(run[k - 1].states, txs[k])
  <2>1. PICK acc : acc = run[k - 1]
    OBVIOUS
  <2>2. run[k] = CheckOne(acc, txs[k])
    BY <1>3, <2>1
  <2>3. acc.ok /\ TxPasses(acc.states, txs[k])
    BY <1>5, <2>2 DEF CheckOne
  <2> QED
    BY <2>1, <2>2, <2>3 DEF CheckOne
<1> DEFINE D == {d \in Nat : d <= Len(txs) => run[Len(txs) - d].ok}
<1>6. Nat \subseteq D
  <2>1. 0 \in D
    BY <1>2, <1>4
  <2>2. ASSUME NEW d \in Nat, d \in D PROVE d + 1 \in D
    <3> SUFFICES ASSUME d + 1 <= Len(txs) PROVE run[Len(txs) - (d + 1)].ok
      OBVIOUS
    <3>1. run[Len(txs) - d].ok /\ Len(txs) - d \in 1 .. Len(txs)
      BY <1>4, <2>2
    <3>2. (Len(txs) - d) - 1 = Len(txs) - (d + 1)
      BY <1>4
    <3> QED
      BY <1>5, <3>1, <3>2
  <2> HIDE DEF D
  <2> QED
    BY <2>1, <2>2, NatSetInduction
<1>7. \A k \in 0 .. Len(txs) : run[k].ok
  <2> TAKE k \in 0 .. Len(txs)
  <2>1. Len(txs) - k \in D /\ Len(txs) - k <= Len(txs) /\ Len(txs) - (Len(txs) - k) = k
    BY <1>4, <1>6
  <2> QED
    BY <2>1
<1> HIDE DEF D
<1> DEFINE N == {k \in Nat : k <= Len(txs) => SpentOnce(seen \cup Earlier(txs, k + 1), run[k].states)}
<1>8. 0 \in N
  <2>1. seen \cup Earlier(txs, 0 + 1) = seen
    BY DEF Earlier
  <2>2. run[0].states = utxo
    BY <1>3 DEF ReplayStart
  <2>3. SpentOnce(seen \cup Earlier(txs, 0 + 1), run[0].states)
    BY <2>1, <2>2
  <2> QED
    BY <2>3
<1>9. ASSUME NEW k \in Nat, k \in N PROVE k + 1 \in N
  <2> SUFFICES ASSUME k + 1 <= Len(txs)
               PROVE  SpentOnce(seen \cup Earlier(txs, (k + 1) + 1), run[k + 1].states)
    OBVIOUS
  <2>1. k + 1 \in 1 .. Len(txs) /\ (k + 1) - 1 = k /\ k + 1 \in 0 .. Len(txs)
    BY <1>4
  <2>2. SpentOnce(seen \cup Earlier(txs, k + 1), run[k].states)
    BY <1>4, <1>9
  <2>3. TxPasses(run[k].states, txs[k + 1]) /\ run[k + 1].states = TxApplied(run[k].states, txs[k + 1])
    BY <1>5, <1>7, <2>1
  <2>4. PlainTx(txs[k + 1])
    BY <1>1, <2>1
  <2>5. seen \cup Earlier(txs, (k + 1) + 1) = (seen \cup Earlier(txs, k + 1)) \cup {txs[k + 1]}
    BY DEF Earlier
  <2> QED
    BY <2>2, <2>3, <2>4, <2>5, AppliedOnce
<1>10. Nat \subseteq N
  <2> HIDE DEF N
  <2> QED
    BY <1>8, <1>9, NatSetInduction
<1>11. SpentOnce(seen \cup ToSet(txs), Replay(utxo, txs).states)
  <2>1. Len(txs) \in N
    BY <1>4, <1>10
  <2>2. SpentOnce(seen \cup Earlier(txs, Len(txs) + 1), run[Len(txs)].states)
    BY <1>4, <2>1
  <2> QED
    BY <1>2, <1>4, <2>2
<1>12. ASSUME NEW k \in 1 .. Len(txs)
       PROVE  SpentOnce(seen \cup Earlier(txs, k), run[k - 1].states) /\ TxPasses(run[k - 1].states, txs[k])
  <2>1. k - 1 \in Nat /\ k - 1 <= Len(txs) /\ (k - 1) + 1 = k /\ k \in 0 .. Len(txs)
    BY <1>4
  <2>2. k - 1 \in N
    BY <1>10, <2>1
  <2>3. SpentOnce(seen \cup Earlier(txs, (k - 1) + 1), run[k - 1].states)
    BY <2>1, <2>2
  <2> HIDE DEF N
  <2> QED
    BY <1>5, <1>7, <2>1, <2>3
<1> QED
  BY <1>11, <1>12

-----------------------------------------------------------------------------
(* One transaction more is one step more of the loop.                      *)
LEMMA ReplayNothing ==
  ASSUME NEW utxo
  PROVE  Replay(utxo, <<>>) = ReplayStart(utxo)
<1>1. <<>> \in Seq({}) /\ Len(<<>>) = 0
  OBVIOUS
<1>2. PICK run : IsRun(run, utxo, <<>>) /\ Replay(utxo, <<>>) = run[Len(<<>>)]
  BY <1>1, ReplayRuns
<1> QED
  BY <1>1, <1>2 DEF IsRun

LEMMA ReplayAppend ==
  ASSUME NEW utxo, NEW txs, txs \in Seq(ToSet(txs)), NEW st
  PROVE  Replay(utxo, Append(txs, st)) = CheckOne(Replay(utxo, txs), st)
<1>1. PICK longer : longer = Append(txs, st)
  OBVIOUS
<1>2. /\ longer \in Seq(ToSet(txs) \cup {st}) /\ Len(txs) \in Nat
      /\ Len(longer) = Len(txs) + 1 /\ longer[Len(txs) + 1] = st
      /\ \A k \in 1 .. Len(txs) : longer[k] = txs[k]
  BY <1>1
<1>3. PICK run : IsRun(run, utxo, txs) /\ Replay(utxo, txs) = run[Len(txs)]
  BY ReplayRuns
<1>4. PICK more : IsRun(more, utxo, longer) /\ Replay(utxo, longer) = more[Len(longer)]
  BY <1>2, ReplayRuns
<1>5. /\ run[0] = ReplayStart(utxo)
      /\ \A k \in 1 .. Len(txs) : run[k] = CheckOne(run[k - 1], txs[k])
  BY <1>3 DEF IsRun
<1>6. /\ more[0] = ReplayStart(utxo)
      /\ \A k \in 1 .. Len(longer) : more[k] = CheckOne(more[k - 1], longer[k])
  BY <1>4 DEF IsRun
<1> DEFINE N == {k \in Nat : k <= Len(txs) => more[k] = run[k]}
<1>7. 0 \in N
  BY <1>5, <1>6
<1>8. ASSUME NEW k \in Nat, k \in N PROVE k + 1 \in N
  <2> SUFFICES ASSUME k + 1 <= Len(txs) PROVE more[k + 1] = run[k + 1]
    OBVIOUS
  <2>1. k + 1 \in 1 .. Len(txs) /\ k + 1 \in 1 .. Len(longer) /\ (k + 1) - 1 = k
    BY <1>2
  <2>2. more[k] = run[k] /\ longer[k + 1] = txs[k + 1]
    BY <1>2, <1>8, <2>1
  <2> QED
    BY <1>5, <1>6, <2>1, <2>2
<1>9. Nat \subseteq N
  <2> HIDE DEF N
  <2> QED
    BY <1>7, <1>8, NatSetInduction
<1>10. more[Len(txs)] = run[Len(txs)]
  BY <1>2, <1>9
<1>11. Len(longer) \in 1 .. Len(longer) /\ Len(longer) - 1 = Len(txs)
  BY <1>2
<1>12. more[Len(longer)] = CheckOne(more[Len(txs)], st)
  BY <1>2, <1>6, <1>11
<1> QED
  BY <1>1, <1>3, <1>4, <1>10, <1>12

-----------------------------------------------------------------------------
(* Every entry of a state is the ICO's or what its name says: an output of *)
(* the transaction it is named after.                                      *)
IsOutput(utxo, o) ==
  \E st : \E k \in DOMAIN st.output :
    o = <<st, k - 1>> /\ utxo[o].recipient = st.output[k].recipient_addr

Matching(utxo) ==
  \A o \in DOMAIN utxo :
    utxo[o].value \in Nat /\ (o = <<IcoHash, 0>> \/ IsOutput(utxo, o))

LEMMA InitialMatches == Matching(InitialState)
BY LedgerAssumption DEF Matching, InitialState

LEMMA AppliedMatches ==
  ASSUME NEW utxo, Matching(utxo), NEW st, TypedTx(st)
  PROVE  Matching(TxApplied(utxo, st))
<1>a. PICK after : after = TxApplied(utxo, st)
  OBVIOUS
<1>1. st.output \in Seq(ToSet(st.output))
  BY DEF TypedTx
<1>2. IsApplied(after, utxo, st)
  BY <1>a, <1>1, AppliedAt
<1>3. ASSUME NEW o \in Made(st)
      PROVE  after[o].value \in Nat /\ IsOutput(after, o)
  <2>1. PICK k \in DOMAIN st.output : o = <<st, k - 1>>
    BY DEF Made
  <2>2. after[o] = [value |-> st.output[k].value, recipient |-> st.output[k].recipient_addr]
    BY <1>2, <2>1 DEF IsApplied
  <2>3. after[o].value = st.output[k].value /\ after[o].recipient = st.output[k].recipient_addr
    BY <2>2
  <2>4. st.output[k].value \in Nat
    BY DEF TypedTx
  <2> QED
    BY <2>1, <2>3, <2>4 DEF IsOutput
<1>4. ASSUME NEW o \in DOMAIN utxo, after[o] = utxo[o]
      PROVE  after[o].value \in Nat /\ (o = <<IcoHash, 0>> \/ IsOutput(after, o))
  BY <1>4 DEF Matching, IsOutput
<1>5. \A o \in DOMAIN after : o \in Made(st) \/ (o \in DOMAIN utxo /\ after[o] = utxo[o])
  BY <1>2 DEF IsApplied
<1> QED
  BY <1>a, <1>3, <1>4, <1>5 DEF Matching

LEMMA ReplayMatches ==
  ASSUME NEW utxo, Matching(utxo), NEW txs, AllTyped(txs)
  PROVE  Matching(Replay(utxo, txs).states)
<1>1. txs \in Seq(ToSet(txs)) /\ \A k \in 1 .. Len(txs) : TypedTx(txs[k])
  BY DEF AllTyped
<1>2. PICK run : IsRun(run, utxo, txs) /\ Replay(utxo, txs) = run[Len(txs)]
  BY <1>1, ReplayRuns
<1>3. /\ run[0] = ReplayStart(utxo)
      /\ \A k \in 1 .. Len(txs) : run[k] = CheckOne(run[k - 1], txs[k])
  BY <1>2 DEF IsRun
<1>4. Len(txs) \in Nat
  BY <1>1
<1> DEFINE N == {k \in Nat : k <= Len(txs) => Matching(run[k].states)}
<1>5. 0 \in N
  BY <1>3 DEF ReplayStart
<1>6. ASSUME NEW k \in Nat, k \in N PROVE k + 1 \in N
  <2> SUFFICES ASSUME k + 1 <= Len(txs) PROVE Matching(run[k + 1].states)
    OBVIOUS
  <2>1. k + 1 \in 1 .. Len(txs) /\ (k + 1) - 1 = k
    BY <1>4
  <2>2. Matching(run[k].states)
    BY <1>4, <1>6
  <2>3. PICK acc, st : acc = run[k] /\ st = txs[k + 1]
    OBVIOUS
  <2>4. run[k + 1] = CheckOne(acc, st) /\ TypedTx(st)
    BY <1>1, <1>3, <2>1, <2>3
  <2>5. CASE acc.ok /\ TxPasses(acc.states, st)
    <3>1. run[k + 1].states = TxApplied(acc.states, st)
      BY <2>4, <2>5 DEF CheckOne
    <3>2. PICK before : before = acc.states
      OBVIOUS
    <3> QED
      BY <2>2, <2>3, <2>4, <3>1, <3>2, AppliedMatches
  <2>6. CASE ~ (acc.ok /\ TxPasses(acc.states, st))
    <3>1. run[k + 1].states = acc.states
      BY <2>4, <2>6 DEF CheckOne
    <3> QED
      BY <2>2, <2>3, <3>1
  <2> QED
    BY <2>5, <2>6
<1>7. Nat \subseteq N
  <2> HIDE DEF N
  <2> QED
    BY <1>5, <1>6, NatSetInduction
<1> QED
  BY <1>2, <1>4, <1>7

-----------------------------------------------------------------------------
(* The generator's payments.  A balance is cut without a remainder, so the *)
(* payment of an own coin passes whatever the sums wrap to.                *)
LEMMA SumOfOne ==
  ASSUME NEW f, NEW x, f[x] \in Nat
  PROVE  SumFunctionOnSet(f, {x}) = f[x]
<1>1. IsFiniteSet({x}) /\ {x} \ {x} = {} /\ \A y \in {x} : f[y] \in Nat
  BY FS_Singleton
<1>2. SumFunctionOnSet(f, {x}) = f[x] + SumFunctionOnSet(f, {x} \ {x})
  BY <1>1, SumSplits
<1>3. SumFunctionOnSet(f, {}) = 0
  BY SumOfNothing
<1> QED
  BY <1>1, <1>2, <1>3

LEMMA SumOfThree ==
  ASSUME NEW f, f[1] \in Nat, f[2] \in Nat, f[3] \in Nat
  PROVE  SumFunctionOnSet(f, 1 .. 3) = f[1] + f[2] + f[3]
<1>0. 1 .. 3 = {1, 2, 3}
  OBVIOUS
<1>1. IsFiniteSet({1, 2, 3}) /\ {1, 2, 3} \ {1} = {2, 3} /\ {2, 3} \ {2} = {3}
      /\ IsFiniteSet({2, 3})
  <2>1. IsFiniteSet({3}) /\ {2, 3} = {3} \cup {2} /\ {1, 2, 3} = {2, 3} \cup {1}
    BY FS_Singleton
  <2>2. IsFiniteSet({2, 3})
    BY <2>1, FS_AddElement
  <2>3. IsFiniteSet({1, 2, 3})
    BY <2>1, <2>2, FS_AddElement
  <2> QED
    BY <2>2, <2>3
<1>2. (\A x \in {1, 2, 3} : f[x] \in Nat) /\ (\A x \in {2, 3} : f[x] \in Nat)
  OBVIOUS
<1>3. SumFunctionOnSet(f, {1, 2, 3}) = f[1] + SumFunctionOnSet(f, {2, 3})
  <2>1. \A x \in {1, 2, 3} :
          SumFunctionOnSet(f, {1, 2, 3}) = f[x] + SumFunctionOnSet(f, {1, 2, 3} \ {x})
    BY <1>1, <1>2, SumSplits
  <2> QED
    BY <1>1, <2>1
<1>4. SumFunctionOnSet(f, {2, 3}) = f[2] + SumFunctionOnSet(f, {3})
  <2>1. \A x \in {2, 3} : SumFunctionOnSet(f, {2, 3}) = f[x] + SumFunctionOnSet(f, {2, 3} \ {x})
    BY <1>1, <1>2, SumSplits
  <2> QED
    BY <1>1, <2>1
<1>5. SumFunctionOnSet(f, {3}) = f[3]
  BY SumOfOne
<1> QED
  BY <1>0, <1>3, <1>4, <1>5

LEMMA PassCheckSums ==
  ASSUME NEW balance \in Nat, NEW peers, NEW out, out = PassCheckOutputs(balance, peers)
  PROVE  /\ out \in Seq(ToSet(out))
         /\ \A k \in DOMAIN out : /\ out[k].value \in Nat
                                   /\ out[k].recipient_addr \in {peers[1], peers[2]}
         /\ SumFunction([k \in DOMAIN out |-> out[k].value]) = balance
<1> DEFINE shares == Shares(balance)
           v1 == balance \div 3
           v2 == (balance - v1) \div 2
           v3 == balance - v1 - v2
           paid == [k \in DOMAIN out |-> out[k].value]
<1>1. v1 \in Nat /\ v2 \in Nat /\ v3 \in Nat /\ v1 + v2 + v3 = balance
  OBVIOUS
<1>2. shares = <<balance>> \/ shares = <<v1, v2, v3>>
  BY DEF Shares
<1>3. shares \in Seq(Nat)
  <2> HIDE DEF shares, v1, v2, v3
  <2>1. <<balance>> \in Seq(Nat)
    OBVIOUS
  <2>2. <<v1, v2, v3>> \in Seq(Nat)
    BY <1>1
  <2> QED
    BY <1>2, <2>1, <2>2
<1>4. out = [k \in 1 .. Len(shares) |->
               [recipient_addr |-> peers[IF k = 1 THEN 1 ELSE 2], value |-> shares[k]]]
  BY DEF PassCheckOutputs
<1> HIDE DEF shares
<1>5. DOMAIN out = 1 .. Len(shares) /\ Len(shares) \in Nat
  BY <1>3, <1>4
<1>6. ASSUME NEW k \in DOMAIN out
      PROVE  /\ out[k].value = shares[k] /\ out[k].value \in Nat
             /\ out[k].recipient_addr \in {peers[1], peers[2]}
  BY <1>3, <1>4, <1>5
<1>7. out \in Seq(ToSet(out))
  <2>1. out \in [1 .. Len(shares) -> ToSet(out)]
    BY <1>4, <1>5 DEF ToSet
  <2> QED
    BY <1>5, <2>1
<1>8. SumFunction(paid) = SumFunctionOnSet(paid, 1 .. Len(shares))
  BY <1>5 DEF SumFunction
<1>9. \A k \in DOMAIN out : paid[k] = shares[k]
  BY <1>6
<1> HIDE DEF paid, v1, v2, v3
<1>10. CASE shares = <<balance>>
  <2>1. 1 .. Len(shares) = {1} /\ shares[1] = balance
    BY <1>10
  <2>2. paid[1] = balance
    BY <1>5, <1>9, <2>1
  <2>3. SumFunctionOnSet(paid, {1}) = balance
    BY <2>2, SumOfOne
  <2>4. SumFunction(paid) = balance
    BY <1>8, <2>1, <2>3
  <2> QED
    BY <1>6, <1>7, <2>4 DEF paid
<1>11. CASE shares = <<v1, v2, v3>>
  <2>1. 1 .. Len(shares) = 1 .. 3 /\ shares[1] = v1 /\ shares[2] = v2 /\ shares[3] = v3
    BY <1>11
  <2>2. 1 \in DOMAIN out /\ 2 \in DOMAIN out /\ 3 \in DOMAIN out
    BY <1>5, <2>1
  <2>3. paid[1] = v1 /\ paid[2] = v2 /\ paid[3] = v3
    BY <1>9, <2>1, <2>2
  <2>4. SumFunctionOnSet(paid, 1 .. 3) = v1 + v2 + v3
    BY <1>1, <2>3, SumOfThree
  <2>5. SumFunction(paid) = balance
    BY <1>1, <1>8, <2>1, <2>4
  <2> QED
    BY <1>6, <1>7, <2>5 DEF paid
<1> QED
  BY <1>2, <1>10, <1>11

LEMMA PaymentPasses ==
  ASSUME NEW utxo, NEW o \in DOMAIN utxo, utxo[o].value \in Nat, NEW peers,
         NEW st, st = SignedPayment(utxo[o].recipient, <<o>>, utxo[o].value, peers)
  PROVE  TxPasses(utxo, st) /\ TypedTx(st)
<1> DEFINE out   == PassCheckOutputs(utxo[o].value, peers)
           taken == [k \in DOMAIN st.input |-> utxo[st.input[k]].value]
<1>1. /\ st.input = <<o>> /\ st.output = out
      /\ st.signer = utxo[o].recipient /\ st.verified = TRUE
  BY DEF SignedPayment
<1>2. /\ out \in Seq(ToSet(out))
      /\ \A k \in DOMAIN out : out[k].value \in Nat
      /\ SumFunction([k \in DOMAIN out |-> out[k].value]) = utxo[o].value
  BY PassCheckSums
<1>3. DOMAIN st.input = {1} /\ st.input[1] = o
  BY <1>1
<1>4. SumFunction(taken) = utxo[o].value
  <2>1. taken[1] = utxo[o].value /\ DOMAIN taken = {1}
    BY <1>3
  <2> HIDE DEF taken
  <2> QED
    BY <2>1, SumOfOne DEF SumFunction
<1> HIDE DEF out
<1>5. InputsCoverOutputs(utxo, st)
  <2>1. SumU32(taken) = SumU32([k \in DOMAIN st.output |-> st.output[k].value])
    BY <1>1, <1>2, <1>4 DEF SumU32
  <2>2. SumU32(taken) \in Int
    <3>1. U32Bound \in Nat /\ U32Bound > 0
      BY LedgerAssumption
    <3> HIDE DEF taken
    <3> QED
      BY <1>4, <3>1 DEF SumU32
  <2> QED
    BY <2>1, <2>2 DEF InputsCoverOutputs
<1>6. InputsUnspent(utxo, st)
  BY <1>1, <1>3 DEF InputsUnspent
<1>7. TypedTx(st)
  BY <1>1, <1>2 DEF TypedTx
<1> QED
  BY <1>1, <1>5, <1>6, <1>7 DEF TxPasses
=============================================================================
