---------------------------- MODULE BoundedDeque -----------------------------
(***************************************************************************)
(* Insertion into a queue of bounded capacity, as SAQueue does it: a full  *)
(* queue first gives up its front element, whichever end is inserted at.   *)
(* SAQueue's ring buffer is shown to implement these operators (SADeque);  *)
(* the modules of SAQueue's users are written with them.                   *)
(***************************************************************************)
EXTENDS Naturals, Sequences

(* Room for one more: a full queue first loses its front element.          *)
MakeRoom(q, cap) == IF Len(q) = cap THEN Tail(q) ELSE q

PushBack(q, d, cap) == Append(MakeRoom(q, cap), d)

PushFront(q, d, cap) == <<d>> \o MakeRoom(q, cap)

(* What the insertion discards.                                            *)
Discarded(q, cap) == IF Len(q) = cap THEN {Head(q)} ELSE {}

Elements(q) == {q[i] : i \in 1 .. Len(q)}
=============================================================================
