----------------------------- MODULE MCReaders -----------------------------
(***************************************************************************)
(* A small block universe for Readers:                                     *)
(*                                                                         *)
(*   genesis -- a (own, pays tx1)                                          *)
(*          |-- b (peer) -- c (peer, pays tx1) -- g (peer, pays tx2, which *)
(*                                                 spends from tx1)        *)
(*                                                                         *)
(* The tip moves to the other branch, and on along it, while a request     *)
(* walks back.                                                             *)
(***************************************************************************)
EXTENDS Readers

CONSTANTS a, b, c, g
CONSTANTS addr1, addr2, addr3

tx1 == SignedPayment(addr1, <<<<IcoHash, 0>>>>, IcoValue, <<addr2, addr3>>)
tx2 == SignedPayment(addr2, <<<<tx1, 0>>>>, tx1.output[1].value, <<addr1, addr3>>)

Child(parent, st) ==
  [parent |-> parent, difficulty |-> MiningDifficulty, meets |-> TRUE, st |-> st]

MCHash == {a, b, c, g}

MCBlockOf ==
  (a :> Child(Genesis, <<tx1>>)) @@ (b :> Child(Genesis, <<>>)) @@
  (c :> Child(b, <<tx1>>)) @@ (g :> Child(c, <<tx2>>))

MCDeliveries == {<<b>>, <<c>>, <<g>>}

(* The genesis, a block below the tip, the tip and beyond.                 *)
MCBlockIndex == {0, 1, 4}
=============================================================================
