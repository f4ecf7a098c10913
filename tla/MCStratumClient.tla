-------------------------- MODULE MCStratumClient ---------------------------
(* One redirection, and so two sockets at most.                               *)
EXTENDS StratumClient
=============================================================================
