------------------------------ MODULE MCRMM3508 ------------------------------
(* RMM3508 for TLC.  The powers lie inside and outside the limits of every *)
(* kind of motor and command; the number 9 is no motor's.                  *)
EXTENDS RMM3508

SomePowers == {-32768, -150, 7, 22001}
=============================================================================
