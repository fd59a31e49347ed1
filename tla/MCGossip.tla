------------------------------ MODULE MCGossip ------------------------------
(***************************************************************************)
(* Small networks for Gossip: every shape of three blocks that two miners  *)
(* can build.                                                              *)
(***************************************************************************)
EXTENDS Gossip

CONSTANTS n1, n2, n3
CONSTANTS a, b, c, d, e

Child(parent) == [parent |-> parent, difficulty |-> MiningDifficulty,
                  meets |-> TRUE, st |-> <<>>]

(* n1 finds a, then b on it and c on that; n2 finds d on the genesis or e  *)
(* on a.                                                                   *)
MCHash == {a, b, c, d, e}

MCBlockOf ==
  (a :> Child(Genesis)) @@ (b :> Child(a)) @@ (c :> Child(b)) @@
  (d :> Child(Genesis)) @@ (e :> Child(a))

MCMinedBy == (a :> n1) @@ (b :> n1) @@ (c :> n1) @@ (d :> n2) @@ (e :> n2)

(* As the nodes are started: the second with -c to the first, a third with *)
(* -c to the second.                                                       *)
Pair == (n1 :> <<>>) @@ (n2 :> <<n1>>)
Line == (n1 :> <<>>) @@ (n2 :> <<n1>>) @@ (n3 :> <<n2>>)

(* The workers run the same code.                                          *)
MCSymmetry == Permutations(Worker)
=============================================================================
