------------------------------ MODULE MCTunnel ------------------------------
(***************************************************************************)
(* Small instances of the server with its clients for TLC.                  *)
(***************************************************************************)
EXTENDS Tunnel, TLC

CONSTANTS i1, i2

\* One process takes any port, the other asks for the port the first gets.
AnyAndFirst == (i1 :> 0) @@ (i2 :> 1)

\* One process, which asks for port 1.
FirstOnly == (i1 :> 1)

\* Users of a port are alike.
Users == Permutations(Conn)

=============================================================================
