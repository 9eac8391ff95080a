----------------------------- MODULE MCTcpServer -----------------------------
(* Three connections to one port; no symmetry, for the liveness properties. *)
EXTENDS TcpServer

=============================================================================
