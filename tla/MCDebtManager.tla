---------------------------- MODULE MCDebtManager ----------------------------
(***************************************************************************)
(* A small instance of DebtManager: p sends q three blocks, the smallest   *)
(* of which does not reach the threshold alone, so that requests are for   *)
(* one block or for two and one may still be under way at the next.        *)
(***************************************************************************)
EXTENDS DebtManager, TLC

CONSTANTS p, q, b1, b2, b3

MCPeers == {p, q}
MCBlocks == {b1, b2, b3}
MCSenderOf == (b1 :> p) @@ (b2 :> p) @@ (b3 :> p)
MCReceiverOf == (b1 :> q) @@ (b2 :> q) @@ (b3 :> q)
MCSizeOf == (b1 :> 2) @@ (b2 :> 3) @@ (b3 :> 3)

=============================================================================
