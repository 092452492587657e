---------------------------- MODULE CSCallbackList ----------------------------
(***************************************************************************)
(* The callback lists of pkg/can_smbus/src/core/io/cs_rx.c: adding         *)
(* appends, closing removes.                                               *)
(***************************************************************************)
EXTENDS Naturals, Sequences

callbackListAdd(list, k) == Append(list, k)

(* callbackListClose: the callbacks behind the one found move up.  A client *)
(* is in a list once, so the element that the outer loop steps over after a *)
(* removal is never one it should remove.                                  *)
callbackListClose(list, k) ==
    LET i == CHOOSE j \in 1 .. Len(list) : list[j] = k IN
    IF \A j \in 1 .. Len(list) : list[j] # k THEN list
    ELSE [j \in 1 .. Len(list) - 1 |-> IF j < i THEN list[j] ELSE list[j + 1]]
=============================================================================
