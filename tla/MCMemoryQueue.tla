--------------------------- MODULE MCMemoryQueue ---------------------------
(* Model-checking instance of MemoryQueue.  Callers and workers are model  *)
(* values but not symmetric, since liveness is checked as well.            *)
EXTENDS MemoryQueue

MCDelays == 0..2
=============================================================================
