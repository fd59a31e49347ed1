------------------------------ MODULE MCServer ------------------------------
(***************************************************************************)
(* Small instances of Server: one connection out, one in.                  *)
(***************************************************************************)
EXTENDS Server

CONSTANTS c1, c2
CONSTANTS a1, a2

(* The second connection has an address of its own, or takes over the one  *)
(* of the first.                                                           *)
MCAddresses == {(c1 :> a1) @@ (c2 :> a) : a \in {a1, a2}}
=============================================================================
