-------------------------------- MODULE CSReg --------------------------------
(***************************************************************************)
(* pkg/can_smbus/src/core/cs_reg_share.c and cs_reg_signal.c: the two ways *)
(* to read a device's register.  Both objects are bound to one register in *)
(* CSRx, the share first, so for every frame the receive thread runs       *)
(* CSRegShare_callback and then CSRegSignal_callback.                      *)
(*                                                                         *)
(*  - A share is a double buffer without a lock: the callback fills the    *)
(*    unused half and flips; CSRegShare_get copies the whole structure     *)
(*    with memcpy, whose order of loads the language leaves open.          *)
(*  - A signal is a queue with a mutex and a condition; CSRegSignal_wait   *)
(*    waits once, with a timeout, and takes what is there.                 *)
(*                                                                         *)
(* A frame is its number: its length and its bytes carry the same number,  *)
(* 0 is the empty register.  Binding and closing are CSRx's.               *)
(***************************************************************************)
EXTENDS BoundedDeque, FiniteSets

CONSTANTS
    Waiters,    \* threads that call CSRegSignal_wait
    QueueMax,   \* capacity of the queue (8)
    MaxFrames   \* bound: frames received

ASSUME RegAssumption ==
    /\ QueueMax \in Nat \ {0} /\ MaxFrames \in Nat /\ IsFiniteSet(Waiters)

Halves == {0, 1}
Flag   == <<"is_revers", 0>>
Fields == {Flag} \cup ({"len", "buff"} \X Halves)
Number == 0 .. MaxFrames

VARIABLES
    is_revers, len, buff,   \* CSRegShare_callbackArg_t; len and buff by half
    rpc,        \* receive thread: "idle", "len", "buff", "flip", "signal"
    made,       \* number of the newest frame
    todo,       \* fields CSRegShare_get has yet to copy
    copy,       \* field -> its copy
    order,      \* history: "flag" if is_revers was copied first
    busy,       \* history: newest frame whose share callback was over when
                \* get began
    queue,      \* CSRegSignal_callbackArg_t
    wpc,        \* waiter -> "idle", "waiting", "awake"
    taken,      \* history: frames taken from the queue, in order
    lost        \* history: frames discarded by the full queue

shareVars  == <<is_revers, len, buff>>
getVars    == <<todo, copy, order, busy>>
signalVars == <<queue, wpc, taken, lost>>
vars       == <<shareVars, rpc, made, getVars, signalVars>>

-----------------------------------------------------------------------------
Init ==
    /\ is_revers = 0 /\ len = [h \in Halves |-> 0] /\ buff = [h \in Halves |-> 0]
    /\ rpc = "idle" /\ made = 0
    /\ todo = {} /\ copy = [f \in Fields |-> 0] /\ order = "none" /\ busy = 0
    /\ queue = <<>> /\ wpc = [w \in Waiters |-> "idle"]
    /\ taken = <<>> /\ lost = {}

(* The receive thread has a frame of the register.                         *)
receive ==
    /\ rpc = "idle" /\ made < MaxFrames
    /\ made' = made + 1 /\ rpc' = "len"
    /\ UNCHANGED <<shareVars, getVars, signalVars>>

(* Mutant: the half that readers use is filled.                            *)
usedHalf == is_revers

next_revers == 1 - is_revers

(* CSRegShare_callback: len, buff, is_revers.                              *)
shareLen ==
    /\ rpc = "len" /\ rpc' = "buff"
    /\ len' = [len EXCEPT ![next_revers] = made]
    /\ UNCHANGED <<is_revers, buff, made, getVars, signalVars>>

shareBuff ==
    /\ rpc = "buff" /\ rpc' = "flip"
    /\ buff' = [buff EXCEPT ![next_revers] = made]
    /\ UNCHANGED <<is_revers, len, made, getVars, signalVars>>

shareFlip ==
    /\ rpc = "flip" /\ rpc' = "signal"
    /\ is_revers' = 1 - is_revers
    /\ UNCHANGED <<len, buff, made, getVars, signalVars>>

(* Mutant: only a frame that finds the queue empty is signalled.           *)
WokenWhenEmpty == IF queue = <<>> THEN {w \in Waiters : wpc[w] = "waiting"} ELSE {}

Woken == {w \in Waiters : wpc[w] = "waiting"}

(* CSRegSignal_callback; the signal wakes one waiting thread, if any.      *)
signalCallback ==
    /\ rpc = "signal" /\ rpc' = "idle"
    /\ queue' = PushBack(queue, made, QueueMax)
    /\ lost' = lost \cup Discarded(queue, QueueMax)
    /\ IF Woken = {} THEN wpc' = wpc
                     ELSE \E w \in Woken : wpc' = [wpc EXCEPT ![w] = "awake"]
    /\ UNCHANGED <<shareVars, made, getVars, taken>>

-----------------------------------------------------------------------------
(* CSRegShare_get, one loaded field at a time.                             *)
getBegin ==
    /\ todo = {}
    /\ todo' = Fields /\ order' = "none"
    /\ busy' = IF rpc \in {"idle", "signal"} THEN made ELSE made - 1
    /\ UNCHANGED <<shareVars, rpc, made, copy, signalVars>>

getField(f) ==
    /\ f \in todo
    /\ todo' = todo \ {f}
    /\ copy' = [copy EXCEPT ![f] = CASE f = Flag      -> is_revers
                                     [] f[1] = "len"  -> len[f[2]]
                                     [] f[1] = "buff" -> buff[f[2]]]
    /\ order' = IF order # "none" THEN order ELSE IF f = Flag THEN "flag" ELSE "other"
    /\ UNCHANGED <<shareVars, rpc, made, busy, signalVars>>

(* CSRegSignal_wait up to its condition: with data it takes the oldest,    *)
(* without it waits.                                                       *)
waitCall(w) ==
    /\ wpc[w] = "idle"
    /\ IF queue = <<>>
         THEN wpc' = [wpc EXCEPT ![w] = "waiting"] /\ UNCHANGED <<queue, taken>>
         ELSE /\ taken' = Append(taken, Head(queue))
              /\ queue' = Tail(queue)
              /\ UNCHANGED wpc
    /\ UNCHANGED <<shareVars, rpc, made, getVars, lost>>

(* The timeout passes, or pthread_cond_timedwait returns spuriously.       *)
waitTimeout(w) ==
    /\ wpc[w] = "waiting"
    /\ wpc' = [wpc EXCEPT ![w] = "awake"]
    /\ UNCHANGED <<shareVars, rpc, made, getVars, queue, taken, lost>>

(* Mutant: the frame stays in the queue.                                   *)
waitPeek(w) ==
    /\ wpc[w] = "awake"
    /\ wpc' = [wpc EXCEPT ![w] = "idle"]
    /\ taken' = IF queue = <<>> THEN taken ELSE Append(taken, Head(queue))
    /\ UNCHANGED <<shareVars, rpc, made, getVars, queue, lost>>

(* The wait is not repeated: an empty queue returns no data.               *)
waitReturn(w) ==
    /\ wpc[w] = "awake"
    /\ wpc' = [wpc EXCEPT ![w] = "idle"]
    /\ IF queue = <<>>
         THEN UNCHANGED <<queue, taken>>
         ELSE /\ taken' = Append(taken, Head(queue))
              /\ queue' = Tail(queue)
    /\ UNCHANGED <<shareVars, rpc, made, getVars, lost>>

Next ==
    \/ receive \/ shareLen \/ shareBuff \/ shareFlip \/ signalCallback
    \/ getBegin \/ \E f \in Fields : getField(f)
    \/ \E w \in Waiters : waitCall(w) \/ waitTimeout(w) \/ waitReturn(w)

Spec == Init /\ [][Next]_vars

-----------------------------------------------------------------------------
TypeOK ==
    /\ is_revers \in Halves /\ len \in [Halves -> Number] /\ buff \in [Halves -> Number]
    /\ rpc \in {"idle", "len", "buff", "flip", "signal"} /\ made \in Number
    /\ todo \subseteq Fields /\ copy \in [Fields -> Number]
    /\ order \in {"none", "flag", "other"} /\ busy \in Number
    /\ queue \in Seq(Number) /\ Len(queue) <= QueueMax
    /\ wpc \in [Waiters -> {"idle", "waiting", "awake"}]
    /\ taken \in Seq(Number) /\ lost \subseteq Number

(* The half of the double buffer that readers are pointed at always holds  *)
(* one frame, the newest whose callback is over.                           *)
PublishedWhole ==
    LET newest == IF rpc \in {"idle", "signal"} THEN made ELSE made - 1 IN
    len[is_revers] = newest /\ buff[is_revers] = newest

(* No sleeping on data: while some thread sleeps in CSRegSignal_wait, each *)
(* queued frame has an awake thread to take it, although a wakeup can be   *)
(* overtaken by a thread that calls wait later.                            *)
NoSleepOnData ==
    (\E w \in Waiters : wpc[w] = "waiting")
        => Len(queue) <= Cardinality({w \in Waiters : wpc[w] = "awake"})

(* The three together: what every step preserves.                          *)
RegInv == TypeOK /\ PublishedWhole /\ NoSleepOnData

(* What CSRegShare_get returns is one frame, not older than the newest     *)
(* complete one when it began, if no callback ran meanwhile, or if         *)
(* is_revers was loaded first and at most one frame began meanwhile.       *)
GetNotTorn ==
    LET l == copy[<<"len", copy[Flag]>>]
        b == copy[<<"buff", copy[Flag]>>]
    IN  todo = {} /\ order # "none" /\ (made = busy \/ (order = "flag" /\ made <= busy + 1))
        => l = b /\ l >= busy

(* Every frame of the register is taken by exactly one call of wait, in    *)
(* the order of arrival, unless the full queue discarded it.               *)
EachTakenOnce ==
    LET seen == taken \o queue
        done == IF rpc = "idle" THEN made ELSE made - 1
    IN  /\ \A i, j \in 1 .. Len(seen) : i < j => seen[i] < seen[j]
        /\ Elements(seen) \cup lost = 1 .. done
        /\ Elements(seen) \cap lost = {}
=============================================================================
