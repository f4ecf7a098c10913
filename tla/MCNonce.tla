------------------------------ MODULE MCNonce ------------------------------
(* Nonce for TLC.                                                            *)
EXTENDS Nonce, TLC

Symmetric == Permutations(Threads)
============================================================================
