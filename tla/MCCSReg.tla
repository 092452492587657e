------------------------------- MODULE MCCSReg -------------------------------
(* CSReg for TLC: two waiters, a reader and more frames than the queue.    *)
EXTENDS CSReg, TLC

Symmetry == Permutations(Waiters)
=============================================================================
