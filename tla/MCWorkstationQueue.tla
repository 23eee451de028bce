------------------------- MODULE MCWorkstationQueue -------------------------
(* Two tasks: every hazard of the queue is between a holder and one waiter.   *)
EXTENDS WorkstationQueue
=============================================================================
