------------------------------- MODULE MCNode -------------------------------
(***************************************************************************)
(* A small block universe for Node.                                        *)
(*                                                                         *)
(*   genesis -- a (own, pays tx1) -- d (own, pays tx1 again: stale)        *)
(*          |-- b (peer) -- c (peer, pays tx1) -- g (peer, pays tx2, which *)
(*          |            |                           spends from tx1)      *)
(*          |            |- e (peer, pays out more than it has)            *)
(*          |            |- f (peer, of another difficulty)                *)
(*          |- h (peer, its hash above the difficulty)                     *)
(*                                                                         *)
(* The peers' branch b, c, g overtakes the own one; d is what a miner      *)
(* builds whose transactions are already on the chain.                     *)
(***************************************************************************)
EXTENDS Node

CONSTANTS a, b, c, d, e, f, g, h   \* block hashes
CONSTANTS addr1, addr2, addr3      \* addresses
CONSTANTS Easy, Std                \* difficulties

tx1 == SignedPayment(addr1, <<<<IcoHash, 0>>>>, IcoValue, <<addr2, addr3>>)
tx2 == SignedPayment(addr2, <<<<tx1, 0>>>>, tx1.output[1].value, <<addr1, addr3>>)
txOver == SignedPayment(addr1, <<<<IcoHash, 0>>>>, IcoValue + 1, <<addr2, addr3>>)

Child(parent, st) ==
  [parent |-> parent, difficulty |-> Std, meets |-> TRUE, st |-> st]

MCHash == {a, b, c, d, e, f, g, h}

MCBlockOf ==
  (a :> Child(Genesis, <<tx1>>)) @@
  (b :> Child(Genesis, <<>>)) @@
  (c :> Child(b, <<tx1>>)) @@
  (d :> Child(a, <<tx1>>)) @@
  (e :> Child(b, <<txOver>>)) @@
  (f :> [Child(b, <<>>) EXCEPT !.difficulty = Easy]) @@
  (g :> Child(c, <<tx2>>)) @@
  (h :> [Child(Genesis, <<>>) EXCEPT !.meets = FALSE])

(* One block, a child before its parent in one message, children alone.    *)
MCDeliveries == {<<b>>, <<c, b>>, <<g>>, <<f>>}

MCDeliveriesPlain == {<<b>>, <<c>>}

(* These blocks meet the hypothesis of the theorems on coins and spends.   *)
ASSUME MCPlainBlocks == PlainBlocks

(* The workers run the same code.                                          *)
MCSymmetry == Permutations(Worker)
=============================================================================
