------------------------------ MODULE MCTxFlow ------------------------------
(***************************************************************************)
(* A small instance of TxFlow: this node is the third of the three, which  *)
(* a payment of the first makes the owner of two coins.                    *)
(***************************************************************************)
EXTENDS TxFlow

CONSTANTS addr1, addr2, addr3

MCPeerAddrs == <<addr1, addr2>>

ico == SignedPayment(addr1, <<<<IcoHash, 0>>>>, IcoValue, <<addr2, addr3>>)

MCPeerContents == {<<>>, <<ico>>}

(* What the second node does with its coin, and the same badly signed.     *)
other  == SignedPayment(addr2, <<<<ico, 0>>>>, ico.output[1].value, <<addr1, addr3>>)
forged == [other EXCEPT !.verified = FALSE]

MCPeerTxs == {other, forged}
=============================================================================
