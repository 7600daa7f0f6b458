--------------------------- MODULE MCCommandClient ---------------------------
(***************************************************************************)
(* A small instance of CommandClient: commands answered four times and     *)
(* once by callback and one without a callback.  Each POST may fail, or    *)
(* bring a body that is not the answer.                                    *)
(***************************************************************************)
EXTENDS CommandClient, TLC

CONSTANTS c1, c2, c3, a1, a2, a3, a4, a5

MCCommands == {c1, c2, c3}
MCAnswers == {a1, a2, a3, a4, a5}
MCCommandOf == (a1 :> c1) @@ (a2 :> c1) @@ (a3 :> c1) @@ (a4 :> c1) @@ (a5 :> c2)
MCCallback == {c1, c2}
MCUnreachable == MCCommands

=============================================================================
