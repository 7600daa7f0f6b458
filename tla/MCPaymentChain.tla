---------------------------- MODULE MCPaymentChain ----------------------------
(***************************************************************************)
(* A small instance of PaymentChain: two payments at the same time over    *)
(* three hops, the third is more than the payer has.  The amounts of a and *)
(* b together wrap around on every hop.                                    *)
(***************************************************************************)
EXTENDS PaymentChain, TLC

CONSTANTS a, b, c

MCPayments == {a, b, c}
MCPrice == (a :> 4) @@ (b :> 5) @@ (c :> 6)

\* Every node but the service (NewProxyNode(..., 10) and (..., 0)) takes a fee.
MCFee == <<2, 1, 0>>

=============================================================================
