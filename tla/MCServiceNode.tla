--------------------------- MODULE MCServiceNode ---------------------------
(***************************************************************************)
(* A small instance of ServiceNode: two set-ups of one name, one of them   *)
(* with a port, and one without a name; a lookup of the name and one with  *)
(* the port.                                                               *)
(***************************************************************************)
EXTENDS ServiceNode, TLC

CONSTANTS s1, s2, s3, l1, l2, host, hostPort

MCSetups == {s1, s2, s3}
MCLookups == {l1, l2}
MCNames == {host, hostPort, NoName}
MCTrimmed == (host :> host) @@ (hostPort :> host) @@ (NoName :> NoName)
MCKeyOf == (s1 :> host) @@ (s2 :> hostPort) @@ (s3 :> NoName)
           @@ (l1 :> host) @@ (l2 :> hostPort)

=============================================================================
