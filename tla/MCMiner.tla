------------------------------ MODULE MCMiner ------------------------------
(* Miner for TLC: two RandomX algorithms and CryptoNight, which shares the   *)
(* scratchpad size of the first.                                             *)
EXTENDS Miner

CONSTANTS s1, s2, rx0, rxw, cn, p1, p2

MCJobs == {[algo |-> rx0, seed |-> s1], [algo |-> rx0, seed |-> s2],
           [algo |-> rxw, seed |-> s1], [algo |-> cn, seed |-> NoSeed]}

FewJobs == {[algo |-> rx0, seed |-> s1], [algo |-> rxw, seed |-> s2]}

MCL3 == [a \in {rx0, rxw, cn} |-> IF a = rxw THEN 1 ELSE 2]
============================================================================
