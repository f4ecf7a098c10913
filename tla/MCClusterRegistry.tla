------------------------- MODULE MCClusterRegistry --------------------------
(* Three heartbeats at once, of two nodes.                                    *)
EXTENDS ClusterRegistry
=============================================================================
