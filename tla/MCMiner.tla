------------------------------ MODULE MCMiner ------------------------------
(***************************************************************************)
(* The block universe of MCNode for Miner, and one more own block, i, on   *)
(* the genesis: the miner may find two blocks on the same tip.             *)
(***************************************************************************)
EXTENDS MCNode, Miner

CONSTANT i

MCMinerHash == MCHash \cup {i}

MCMinerBlockOf == (i :> Child(Genesis, <<>>)) @@ MCBlockOf

(* The own block a comes back from a peer, and orphans wait three deep.    *)
MCMinerDeliveries == {<<a>>, <<c>>, <<e, f>>, <<g, c, b>>, <<h>>}
=============================================================================
