----------------------------- MODULE Blockchain -----------------------------
(***************************************************************************)
(* Blocks (types/block.rs) and struct Blockchain (blockchain/mod.rs).      *)
(*                                                                         *)
(* A block is known by its hash, which covers the header and, through the  *)
(* Merkle root, the transactions: what a hash stands for never changes, so *)
(* it is the constant function BlockOf.  struct Blockchain is then two     *)
(* values: the map `blocks` from the hashes it holds to their heights, and *)
(* `tip`.                                                                  *)
(***************************************************************************)
EXTENDS Integers, SequencesExt

CONSTANTS
  Hash,              \* the hashes of the blocks other than the genesis
  Genesis,           \* the hash of the genesis block
  BlockOf,           \* [Hash -> [parent, difficulty, meets, st]]
  MiningDifficulty   \* the literal shared by Blockchain::new and the miner

(* meets is the proof-of-work check `block.hash() <= head.difficulty`.     *)
ASSUME BlockAssumption ==
  /\ Genesis \notin Hash
  /\ \A h \in Hash : BlockOf[h].meets \in BOOLEAN

Parent(h)     == BlockOf[h].parent
Txs(h)        == BlockOf[h].st
MeetsPow(h)   == BlockOf[h].meets
Difficulty(h) == IF h = Genesis THEN MiningDifficulty ELSE BlockOf[h].difficulty

-----------------------------------------------------------------------------
(* Blockchain::new: the map of the genesis alone, which is the tip.        *)
NewBlocks == [h \in {Genesis} |-> 0]

(* Blockchain::insert, its two effects on the pair (blocks, tip).          *)
BlocksWithParentsHeight(blocks, b) ==          \* mutant of the next
  [h \in DOMAIN blocks \cup {b} |->
     IF h = b THEN blocks[Parent(b)] ELSE blocks[h]]

BlocksWith(blocks, b) ==
  [h \in DOMAIN blocks \cup {b} |->
     IF h = b THEN blocks[Parent(b)] + 1 ELSE blocks[h]]

TipOnTie(blocks, tip, b) ==                    \* mutant of the next
  IF blocks[Parent(b)] + 1 >= blocks[tip] THEN b ELSE tip

TipOneLate(blocks, tip, b) ==                  \* mutant of the next
  IF blocks[Parent(b)] > blocks[tip] THEN b ELSE tip

TipWith(blocks, tip, b) ==
  IF blocks[Parent(b)] + 1 > blocks[tip] THEN b ELSE tip

(* Blockchain::all_blocks_in_longest_chain, and the same walk from any     *)
(* block: follow the parents as many times as the height says.             *)
PathTo(blocks, b) ==
  LET walk[k \in 0 .. blocks[b]] ==
        IF k = 0 THEN <<b>> ELSE <<Parent(Head(walk[k - 1]))>> \o walk[k - 1]
  IN  walk[blocks[b]]

AllBlocksInLongestChain(blocks, tip) == PathTo(blocks, tip)
=============================================================================
