------------------------------- MODULE SADeque -------------------------------
(***************************************************************************)
(* What std_api's SAQueue promises: a double-ended queue of at most        *)
(* MaxCount elements in which an insertion into a full queue, at either    *)
(* end, discards the element at the front.  SAQueue's ring buffer is shown  *)
(* to implement this state machine.                                        *)
(*                                                                         *)
(* `reply' is what the last call handed to its caller: the return value    *)
(* and, for a read, the element.                                           *)
(***************************************************************************)
EXTENDS BoundedDeque

CONSTANTS
    Data,       \* what an element can hold
    MaxCount,   \* capacity, the max_count of SAQueue_init
    None        \* "nothing was handed out" (a return of 0 or NULL)

VARIABLES
    deque,      \* the elements, front first
    reply       \* the element handed out by the last call, or None

dvars == <<deque, reply>>

-----------------------------------------------------------------------------
DInit == deque = <<>> /\ reply = None

InsertBack == \E d \in Data : deque' = PushBack(deque, d, MaxCount) /\ reply' = None

InsertFront == \E d \in Data : deque' = PushFront(deque, d, MaxCount) /\ reply' = None

(* The caller fills the element it has just reserved at one of the ends.   *)
FillEnd ==
    /\ deque # <<>>
    /\ \E d \in Data, i \in {1, Len(deque)} : deque' = [deque EXCEPT ![i] = d]
    /\ reply' = None

Peek == deque # <<>> /\ reply' = Head(deque) /\ UNCHANGED deque

Remove == deque # <<>> /\ reply' = Head(deque) /\ deque' = Tail(deque)

Refuse == reply' = None /\ UNCHANGED deque

Empty == deque' = <<>> /\ reply' = None

DNext == InsertBack \/ InsertFront \/ FillEnd \/ Peek \/ Remove \/ Refuse \/ Empty

DSpec == DInit /\ [][DNext]_dvars
=============================================================================
