------------------------------ MODULE Commodity ------------------------------
(***************************************************************************)
(* Prices (commodity/commodityManager.go).  The table has one unit price   *)
(* per service and commodity: 0.00000002 for ipfs, 0.1 for tor and http,   *)
(* that is UnitsPer units of the commodity for one unit of the price.  For *)
(* 32-bit arguments the conversions uint32(UnitPrice * float64(amount))    *)
(* and uint32(float64(price) / UnitPrice) are the ones below.              *)
(***************************************************************************)
EXTENDS Integers

CONSTANTS
  UnitsPer,  \* 50 000 000 bytes of ipfs, 10 of tor or http
  Word       \* 2^32: amounts, prices and byte counts are uint32

ASSUME PriceAssumption == UnitsPer \in Nat \ {0} /\ Word \in Nat \ {0}

CalculateUp(quantity) == (quantity + UnitsPer - 1) \div UnitsPer

\* The price of a quantity: what is left of a unit is free.
Calculate(quantity) == quantity \div UnitsPer

\* The quantity a price is for, cut to 32 bits.
ReverseCalculate(price) == (price * UnitsPer) % Word

=============================================================================
