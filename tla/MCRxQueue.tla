----------------------------- MODULE MCRxQueue -----------------------------
(* RxQueue for TLC: safety, the refinement of DatasetService and liveness.   *)
EXTENDS RxQueue
============================================================================
