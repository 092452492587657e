------------------------------ MODULE MCSAQueue ------------------------------
(* SAQueue for TLC: a capacity that divides the word, distinct contents.   *)
EXTENDS SAQueue

=============================================================================
