---------------------------- MODULE MCMQServer ----------------------------
(* The server with a few requests and threads. *)
EXTENDS MQServer

=============================================================================
