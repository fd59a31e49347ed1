------------------------------ MODULE Mempool ------------------------------
(***************************************************************************)
(* What the mempool of a node promises its miner and its generator: it is  *)
(* a set of transactions, and finding a block moves the block's at most    *)
(* BlockSize transactions from it to the miner worker, all at once.        *)
(*                                                                         *)
(* TxFlow implements this with a miner that copies the transactions long   *)
(* before the block is found and removes them one lock at a time after.    *)
(***************************************************************************)
EXTENDS Naturals, FiniteSets

CONSTANT BlockSize

VARIABLES pending, mined   \* the transactions waiting; in blocks found so far

Init == pending = {} /\ mined = {}

(* One transaction arrives, from the generator or a peer; one that has     *)
(* been mined may come again.                                              *)
Submit ==
  /\ pending \subseteq pending'
  /\ Cardinality(pending' \ pending) = 1
  /\ UNCHANGED mined

FindBlock ==
  \E st \in SUBSET pending :
    /\ Cardinality(st) <= BlockSize
    /\ pending' = pending \ st
    /\ mined' = mined \cup st

Next == Submit \/ FindBlock

Spec == Init /\ [][Next]_<<pending, mined>>
=============================================================================
