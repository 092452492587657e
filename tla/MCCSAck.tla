------------------------------- MODULE MCCSAck -------------------------------
(* CSAck for TLC: two objects of one device on the same register, so that  *)
(* one may meet the acks of the other; three values, two of which have the *)
(* same hash.                                                              *)
EXTENDS CSAck

CONSTANTS o1, o2, v1, v2, v3

TwoObjs   == {o1, o2}
TwoRegs   == {1, 2}
OneReg    == [o \in TwoObjs |-> 1]
ThreeValues == {v1, v2, v3}
HashOf3   == [v \in ThreeValues |-> IF v = v1 THEN 1 ELSE 2]
=============================================================================
