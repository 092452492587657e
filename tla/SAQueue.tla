------------------------------- MODULE SAQueue -------------------------------
(***************************************************************************)
(* lib/std_api/src/sa_queue.c: the ring buffer behind every queue of the   *)
(* program (the transmit and skip queues of CSTx, the signal queue of      *)
(* CSRegSignal).  One action per exported function; the caller's store     *)
(* through the pointer of an addRaw is an action of its own, because the   *)
(* slot is already counted before it is filled.                            *)
(*                                                                         *)
(* size_t arithmetic is modulo WordMod (2^64 in the build).                *)
(***************************************************************************)
EXTENDS Integers, Sequences

CONSTANTS Data, Zero, None, MaxCount, WordMod

(* SAQueue_addFront computes (next_read - 1) % max_count in size_t, so the *)
(* capacity has to divide the word: the program uses 8, 16 and 32.         *)
ASSUME CapacityAssumption ==
    /\ MaxCount \in Nat \ {0}
    /\ WordMod \in Nat /\ 2 * MaxCount < WordMod
    /\ (WordMod - 1) % MaxCount = MaxCount - 1

ASSUME DataAssumption == Zero \in Data /\ None \notin Data

VARIABLES
    next_write, next_read, count,   \* the fields of SAQueue_t
    ring_buffer,                    \* slot -> contents
    raw,        \* slot the last addRaw/addFrontRaw reserved, still unfilled, or None
    reply       \* element copied out (or pointed to) by the last call, or None

vars == <<next_write, next_read, count, ring_buffer, raw, reply>>

Slots == 0 .. MaxCount - 1

Inc(i) == ((i + 1) % WordMod) % MaxCount
Dec(i) == ((i - 1) % WordMod) % MaxCount

isFill == count = MaxCount

Cleared == [s \in Slots |-> Zero]

-----------------------------------------------------------------------------
Init ==
    /\ next_write = 0 /\ next_read = 0 /\ count = 0
    /\ ring_buffer = Cleared
    /\ raw = None /\ reply = None

clear ==
    /\ next_write' = 0 /\ next_read' = 0 /\ count' = 0
    /\ ring_buffer' = Cleared
    /\ raw' = None /\ reply' = None

(* Mutant: the read cursor is forgotten.                                   *)
ReadLeftBehind == next_read

(* The opening of every insertion: a full queue gives up its front slot.   *)
ReadAfterRoom  == IF isFill THEN Inc(next_read) ELSE next_read
CountAfterRoom == IF isFill THEN count - 1 ELSE count

add(d) ==
    /\ ring_buffer' = [ring_buffer EXCEPT ![next_write] = d]
    /\ next_read' = ReadAfterRoom
    /\ count' = CountAfterRoom + 1
    /\ next_write' = Inc(next_write)
    /\ raw' = None /\ reply' = None

(* Mutant: the slot is written before the cursor moves back.               *)
addFrontEarly(d) ==
    /\ next_read' = Dec(ReadAfterRoom)
    /\ ring_buffer' = [ring_buffer EXCEPT ![ReadAfterRoom] = d]
    /\ count' = CountAfterRoom + 1
    /\ raw' = None /\ reply' = None
    /\ UNCHANGED next_write

addFront(d) ==
    /\ next_read' = Dec(ReadAfterRoom)
    /\ ring_buffer' = [ring_buffer EXCEPT ![next_read'] = d]
    /\ count' = CountAfterRoom + 1
    /\ raw' = None /\ reply' = None
    /\ UNCHANGED next_write

addRaw ==
    /\ next_read' = ReadAfterRoom
    /\ count' = CountAfterRoom + 1
    /\ next_write' = Inc(next_write)
    /\ raw' = next_write /\ reply' = None
    /\ UNCHANGED ring_buffer

addFrontRaw ==
    /\ next_read' = Dec(ReadAfterRoom)
    /\ count' = CountAfterRoom + 1
    /\ raw' = next_read' /\ reply' = None
    /\ UNCHANGED <<next_write, ring_buffer>>

(* The caller of addRaw/addFrontRaw fills the slot it was given.           *)
fill(d) ==
    /\ raw # None
    /\ ring_buffer' = [ring_buffer EXCEPT ![raw] = d]
    /\ raw' = None /\ reply' = None
    /\ UNCHANGED <<next_write, next_read, count>>

(* The position computed from the index is not used: the front is copied.  *)
readonly(index) ==
    /\ reply' = IF count <= index THEN None ELSE ring_buffer[next_read]
    /\ raw' = None
    /\ UNCHANGED <<next_write, next_read, count, ring_buffer>>

get ==
    /\ IF count = 0
         THEN reply' = None /\ UNCHANGED <<next_read, count>>
         ELSE /\ reply' = ring_buffer[next_read]
              /\ count' = count - 1
              /\ next_read' = Inc(next_read)
    /\ raw' = None
    /\ UNCHANGED <<next_write, ring_buffer>>

(* As get, but the element stays in its slot and is read there: reply is   *)
(* what the caller finds through the pointer.                              *)
getRaw ==
    /\ IF count = 0
         THEN reply' = None /\ UNCHANGED <<next_read, count>>
         ELSE /\ reply' = ring_buffer[next_read]
              /\ count' = count - 1
              /\ next_read' = Inc(next_read)
    /\ raw' = None
    /\ UNCHANGED <<next_write, ring_buffer>>

Next ==
    \/ \E d \in Data : add(d) \/ addFront(d) \/ fill(d)
    \/ \E i \in Slots : readonly(i)
    \/ addRaw \/ addFrontRaw \/ get \/ getRaw \/ clear

Spec == Init /\ [][Next]_vars

-----------------------------------------------------------------------------
(* The element `i' places behind the front, 0 being the front.             *)
Slot(i) == (next_read + i) % MaxCount

Contents == [i \in 1 .. count |-> ring_buffer[Slot(i - 1)]]

(* The fields of SAQueue_t stay in range: the two cursors index the ring,  *)
(* count never exceeds the capacity.                                       *)
TypeOK ==
    /\ next_write \in Slots /\ next_read \in Slots
    /\ count \in 0 .. MaxCount
    /\ ring_buffer \in [Slots -> Data]
    /\ raw \in Slots \cup {None}
    /\ reply \in Data \cup {None}

(* The write cursor always stands `count' slots ahead of the read cursor,  *)
(* although add, addFront, addRaw, addFrontRaw, get and getRaw each move    *)
(* only some of the three fields.                                          *)
CursorsAgree == next_write = (next_read + count) % MaxCount

(* A slot handed out by addRaw or addFrontRaw is the last or the first     *)
(* element of the queue when the caller fills it.                          *)
ReservedIsAnEnd ==
    raw # None => /\ count > 0
                  /\ raw \in {next_read, Slot(count - 1)}

(* After any sequence of calls the ring is consistent: the fields are in   *)
(* range, the cursors agree with count, a reserved slot is an end.         *)
RingInv == TypeOK /\ CursorsAgree /\ ReservedIsAnEnd

(* The ring buffer behaves as the bounded deque: what a read returns is    *)
(* the oldest element inserted at the back, or the newest inserted at the  *)
(* front, and only an insertion into a full queue loses one.               *)
Deque == INSTANCE SADeque WITH deque <- Contents

ImplementsDeque == Deque!DSpec
=============================================================================
