--------------------------- MODULE MCBookDatabase ---------------------------
(***************************************************************************)
(* A small instance of BookDatabase: two inserts and two requests for the  *)
(* history of one step of two seconds, one in the steps of the epoch and   *)
(* one between them, with clocks that are set back at the end.  One row    *)
(* counts for the first second of a window, the other slips.               *)
(***************************************************************************)
EXTENDS BookDatabase, TLC

CONSTANTS i1, i2, h1, h2

MCInserts == {i1, i2}
MCAmount == (i1 :> 1) @@ (i2 :> 2)
MCHistories == {h1, h2}
MCOffset == (h1 :> 0) @@ (h2 :> 1)
MCEdge == {i1}
MCSlips == {i2}

=============================================================================
