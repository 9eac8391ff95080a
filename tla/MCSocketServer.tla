--------------------------- MODULE MCSocketServer ---------------------------
(* Three clients of the SMTP process, whose loop looks at IsFinished();     *)
(* what the POP3 process does is a part of it.                              *)
EXTENDS SocketServer

=============================================================================
