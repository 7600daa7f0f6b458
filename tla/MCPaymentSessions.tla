-------------------------- MODULE MCPaymentSessions --------------------------
(***************************************************************************)
(* A small instance of PaymentSessions: one session requested twice, at    *)
(* the same time or one after the other, once with a route and once over   *)
(* Tor, whose answer may be empty or run through this node itself; one     *)
(* command.                                                                *)
(***************************************************************************)
EXTENDS PaymentSessions, TLC

CONSTANTS r1, r2, s1, c1, here, hop, there

MCRequests == {r1, r2}
MCSessions == {s1}
MCSessionOf == [r \in MCRequests |-> s1]
MCDestination == [r \in MCRequests |-> there]
MCRoute == (r1 :> <<hop>>) @@ (r2 :> NoRoute)
MCTorRoutes == {<<>>, <<hop>>, <<here>>}
MCWatched == {r1, r2}
MCCommands == {c1}

=============================================================================
