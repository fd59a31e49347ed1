---------------------------- MODULE LongestChain ----------------------------
(***************************************************************************)
(* What a node's block store promises, with no threads: a tree of valid    *)
(* blocks grows by one whole block at a time, every block arrives together *)
(* with the ledger state it leads to, and the tip moves only to a strictly *)
(* longer branch (the first block seen at a height keeps the tip).         *)
(***************************************************************************)
EXTENDS Integers

CONSTANTS
  Hash,            \* the blocks that may arrive
  Genesis,         \* the block everything starts from
  InitialState,    \* the ledger state after it
  Parent(_),       \* the fields of a block that the rules speak of
  Difficulty(_),
  MeetsPow(_),
  Txs(_),
  Replay(_, _)     \* transactions on a state: [ok, states]

VARIABLES
  blocks,   \* the tree: a function from block hashes to heights
  tip,      \* the last block of the longest branch
  ledger    \* the state after each block of the tree

vars == <<blocks, tip, ledger>>

Init ==
  /\ blocks = [h \in {Genesis} |-> 0]
  /\ tip = Genesis
  /\ ledger = [h \in {Genesis} |-> InitialState]

(* The rules a block must pass: proof of work, the parent's difficulty and *)
(* transactions that replay on the parent's state.                         *)
Acceptable(b) ==
  /\ Parent(b) \in DOMAIN blocks
  /\ MeetsPow(b)
  /\ Difficulty(b) = Difficulty(Parent(b))
  /\ Replay(ledger[Parent(b)], Txs(b)).ok

With(f, b, value) == [h \in DOMAIN f \cup {b} |-> IF h = b THEN value ELSE f[h]]

AddBlock(b) ==
  LET height == blocks[Parent(b)] + 1 IN
  /\ b \notin DOMAIN blocks
  /\ Acceptable(b)
  /\ blocks' = With(blocks, b, height)
  /\ tip' = IF height > blocks[tip] THEN b ELSE tip
  /\ ledger' = With(ledger, b, Replay(ledger[Parent(b)], Txs(b)).states)

Next == \E b \in Hash : AddBlock(b)

Spec == Init /\ [][Next]_vars
=============================================================================
