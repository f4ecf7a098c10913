------------------------------ MODULE MCPools -------------------------------
(* Two pools of the user's, one donation pool and the proxy.                  *)
EXTENDS Pools
=============================================================================
