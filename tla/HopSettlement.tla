---------------------------- MODULE HopSettlement ----------------------------
(***************************************************************************)
(* What a payment over a chain of gateways promises, whatever fails on the *)
(* way: the hops are settled from the service back to the payer.  The      *)
(* payer's own hop is the last, so nobody has taken the payer's money      *)
(* before the service, and every node behind, has its own; a payment is    *)
(* reported paid only with all hops settled.  A payment given up midway    *)
(* leaves one node at most that has paid its hop and is not paid itself.   *)
(***************************************************************************)
EXTENDS Integers

CONSTANTS
  Payments,
  Length       \* hops of the route; hop h is paid by node h - 1 to node h

Hops == 1 .. Length

VARIABLES
  settled,     \* hops of a payment whose receiver holds the payer's commitment
  outcome      \* what the payer's gateway says of the payment

vars == <<settled, outcome>>

Init ==
  /\ settled = [p \in Payments |-> {}]
  /\ outcome = [p \in Payments |-> "open"]

\* The hop next to the settled ones is settled; the answer may get lost.
Settle(p) ==
  /\ outcome[p] = "open"
  /\ \E h \in Hops \ settled[p] :
       /\ \A j \in Hops : j > h => j \in settled[p]
       /\ settled' = [settled EXCEPT ![p] = @ \cup {h}]
       /\ \/ UNCHANGED outcome
          \/ outcome' = [outcome EXCEPT ![p] = "failed"]
          \/ h = 1 /\ outcome' = [outcome EXCEPT ![p] = "paid"]

GiveUp(p) ==
  /\ outcome[p] = "open"
  /\ outcome' = [outcome EXCEPT ![p] = "failed"]
  /\ UNCHANGED settled

Next == \E p \in Payments : Settle(p) \/ GiveUp(p)

Spec == Init /\ [][Next]_vars

=============================================================================
