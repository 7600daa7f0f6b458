----------------------------- MODULE MCLocalNode -----------------------------
(***************************************************************************)
(* Small instances of LocalNode: two neighbours, of which p1 pays twice,   *)
(* and two flushes at a time.                                              *)
(***************************************************************************)
EXTENDS LocalNode, TLC

CONSTANTS p1, p2, s1, s2, s3, f1, f2

MCSessions == {s1, s2, s3}
MCPayers == {p1, p2}
MCFlushers == {f1, f2}
OneFlusher == {f1}

\* s1 is a payment for a service of this node, the others are forwarded.
OneService == {s1}

\* The transaction of s2 may outlive its validity.
OneExpirable == {s2}

\* s1 and s3 are paid by p1, s2 by p2.
MCPayerOf == (s1 :> p1) @@ (s2 :> p2) @@ (s3 :> p1)

\* Different amounts, so that no sum of some sessions is the sum of others.
MCTotalOut == (s1 :> 1) @@ (s2 :> 2) @@ (s3 :> 4)
MCTotalIn == (s1 :> 1) @@ (s2 :> 3) @@ (s3 :> 5)

=============================================================================
