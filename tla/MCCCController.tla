--------------------------- MODULE MCCCController ----------------------------
(* CCController for TLC: a counter that wraps within the packets received. *)
EXTENDS CCController

=============================================================================
