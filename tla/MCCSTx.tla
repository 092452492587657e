------------------------------- MODULE MCCSTx --------------------------------
(* CSTx for TLC.  The capacities keep the source's proportions: the skip   *)
(* queue is half a transmit queue, a datagram is smaller than both.        *)
EXTENDS CSTx

NormalAndHigh == {1, 2}
=============================================================================
