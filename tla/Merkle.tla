------------------------------- MODULE Merkle -------------------------------
(***************************************************************************)
(* The Merkle tree of types/merkle.rs: construction, root, inclusion       *)
(* proofs and their verification.  SHA-256 is injective: the hash of a     *)
(* datum is a member of Leaf, and the hash of two concatenated hashes is   *)
(* their pair.                                                             *)
(***************************************************************************)
EXTENDS Integers, SequencesExt

CONSTANTS
  Leaf,         \* the hashes of the data
  ZeroHash,     \* the root of no data
  MaxLeaves     \* bound of the model: data in one tree

ASSUME MerkleAssumption == ZeroHash \notin Leaf /\ MaxLeaves \in Nat

Combined(left, right) == <<left, right>>

-----------------------------------------------------------------------------
(* MerkleTree::new.  A level of odd length is padded with its last hash,   *)
(* the top level, of length one, is not.                                   *)
PaddedWithFirst(level) ==                      \* mutant of the next
  IF Len(level) # 1 /\ Len(level) % 2 # 0
  THEN Append(level, Head(level)) ELSE level

Unpadded(level) == level                       \* mutant of the next

Padded(level) ==
  IF Len(level) # 1 /\ Len(level) % 2 # 0
  THEN Append(level, Last(level)) ELSE level

LevelAbove(level) ==
  [k \in 1 .. Len(level) \div 2 |-> Combined(level[2 * k - 1], level[2 * k])]

(* The levels above the leaves, and the first of one hash, where the loop  *)
(* ends.                                                                   *)
Levels(data) ==
  LET level[k \in 0 .. Len(data)] ==
        Padded(IF k = 0 THEN data ELSE LevelAbove(level[k - 1]))
  IN  level

Top(data) == CHOOSE k \in 0 .. Len(data) : Len(Levels(data)[k]) = 1

TreeList(data) ==
  IF data = <<>> THEN <<>>
  ELSE LET level == Levels(data)
       IN  [k \in 1 .. Top(data) + 1 |-> level[k - 1]]

Root(data) == IF data = <<>> THEN ZeroHash ELSE Last(TreeList(data))[1]

-----------------------------------------------------------------------------
(* MerkleTree::proof: the sibling at every level below the top.  Indices   *)
(* count from 0 as in the code.                                            *)
SiblingRight(level, i) ==                      \* mutant of the next
  level[IF i + 2 <= Len(level) THEN i + 2 ELSE i]

Sibling(level, i) == level[IF i % 2 = 0 THEN i + 2 ELSE i]

Halved(index, times) ==
  LET i[k \in 0 .. times] == IF k = 0 THEN index ELSE i[k - 1] \div 2 IN i[times]

Proof(data, index) ==
  LET tree == TreeList(data)
  IN  IF index >= Len(tree[1]) THEN <<>>
      ELSE [k \in 1 .. Len(tree) - 1 |-> Sibling(tree[k], Halved(index, k - 1))]

(* verify: hash the datum with each sibling, on the side the index says.   *)
HashUpLeft(at, sibling) ==                     \* mutant of the next
  [hash |-> Combined(at.hash, sibling), index |-> at.index \div 2]

HashUp(at, sibling) ==
  [hash  |-> IF at.index % 2 = 0 THEN Combined(at.hash, sibling)
             ELSE Combined(sibling, at.hash),
   index |-> at.index \div 2]

HashedUp(datum, index, proof) ==
  LET at[k \in 0 .. Len(proof)] ==
        IF k = 0 THEN [hash |-> datum, index |-> index] ELSE HashUp(at[k - 1], proof[k])
  IN  at[Len(proof)].hash

Verify(root, datum, proof, index, leaf_size) ==
  /\ index < leaf_size
  /\ root = HashedUp(datum, index, proof)

-----------------------------------------------------------------------------
(* The inputs: a vector of data that grows, as the miner's `transaction`.  *)
VARIABLE data

Init == data = <<>>

Push(leaf) ==
  /\ Len(data) < MaxLeaves
  /\ data' = Append(data, leaf)

Next == \E leaf \in Leaf : Push(leaf)

Spec == Init /\ [][Next]_data

-----------------------------------------------------------------------------
(* The reference: split the data at the greatest power of two below their  *)
(* number; what has no right half is its own right half.                   *)
TwoTo(n) ==
  LET power[k \in 0 .. n] == IF k = 0 THEN 1 ELSE 2 * power[k - 1] IN power[n]

RootOfHeight(d, height) ==
  LET root[h \in 0 .. height] ==
        [s \in Seq(Leaf) |->
           IF h = 0 THEN s[1]
           ELSE LET half == TwoTo(h - 1)
                IN  IF Len(s) <= half
                    THEN Combined(root[h - 1][s], root[h - 1][s])
                    ELSE Combined(root[h - 1][SubSeq(s, 1, half)],
                                  root[h - 1][SubSeq(s, half + 1, Len(s))])]
  IN  root[height][d]

HeightFor(size) ==
  CHOOSE h \in 0 .. size : size <= TwoTo(h) /\ (h = 0 \/ TwoTo(h - 1) < size)

(* The level-by-level padding builds the tree of the recursive definition: *)
(* the root a header carries is the one any other implementation of the    *)
(* scheme would compute.                                                   *)
RootIsReference ==
  data # <<>> => Root(data) = RootOfHeight(data, HeightFor(Len(data)))

(* proof() and verify() agree, for every position, also the last of an odd *)
(* number of data.                                                         *)
ProofsVerify ==
  \A i \in 0 .. Len(data) - 1 :
    Verify(Root(data), data[i + 1], Proof(data, i), i, Len(data))

(* And nothing else is accepted: with a proof of the tree, whichever the   *)
(* position it was made for, verify() accepts at index j only the datum    *)
(* that is there.                                                          *)
ProofsBind ==
  \A i, j \in 0 .. Len(data) - 1 : \A x \in Leaf :
    Verify(Root(data), x, Proof(data, i), j, Len(data)) => x = data[j + 1]

(* Data of one number are told apart by their root, order included.  (Not  *)
(* data of different numbers: <<x, y, y>> has the root of                  *)
(* <<x, y, y, y>>.)                                                        *)
RootBinds ==
  \A other \in [DOMAIN data -> Leaf] : Root(other) = Root(data) => other = data
=============================================================================
