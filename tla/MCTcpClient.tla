----------------------------- MODULE MCTcpClient -----------------------------
(* One connection, its greeting and the answers to a few requests.          *)
EXTENDS TcpClient

=============================================================================
