-------------------------------- MODULE CSTx ---------------------------------
(***************************************************************************)
(* pkg/can_smbus/src/core/io/cs_tx.c for one gateway: the threads that     *)
(* queue frames (CSTx_sendBrc, sendReg, sendRegAck, sendReq, sendReqAck,   *)
(* all ending in CSTx_sendFrame) and the gateway's CSTx_sendThread, which  *)
(* packs up to PackMax frames of different ids into one datagram.          *)
(*                                                                         *)
(* The gateway's mutex is held by the send thread in the control states    *)
(* "pack" and "restore"; a producer's critical section is one insertion    *)
(* and is one step.  Its pthread_cond_signal comes after the unlock and is *)
(* a step of its own.                                                      *)
(*                                                                         *)
(* A frame carries its number in the order of insertion; the program has   *)
(* no such field, it tells frames apart for the properties.                *)
(***************************************************************************)
EXTENDS BoundedDeque, FiniteSets

CONSTANTS
    Producers,  \* threads that send
    Ids,        \* CAN ids they send to (0x001 is the broadcast id)
    Used,       \* the priorities they pass: High (2) and Normal (1)
    QueueMax,   \* capacity of a transmit queue (32)
    SkipMax,    \* capacity of the skip queue (16)
    PackMax,    \* frames in a datagram (4)
    MaxFrames   \* bound: frames inserted in a behaviour

Priorities == 0 .. 2        \* CSTx_priority_t: Low, Normal, High

ASSUME TxAssumption ==
    /\ QueueMax \in Nat \ {0} /\ SkipMax \in Nat \ {0} /\ PackMax \in Nat \ {0}
    /\ MaxFrames \in Nat
    /\ Used \subseteq Priorities

VARIABLES
    queue,      \* priority -> queued frames, front first
    skip,       \* frames put aside in this round: their id is in the pack
    pack,       \* send_pack.data[0 .. send_counter - 1]
    priority,   \* loop variable of the send thread
    pc,         \* control state of the send thread
    ppc,        \* control state of each producer: "idle" or "signal"
    made,       \* history: number of frames inserted so far
    sent,       \* history: frames handed to CSIo_send, in order
    lost,       \* history: frames discarded by a full queue
    turned      \* history: pairs of frames put aside together an odd number of times

vars == <<queue, skip, pack, priority, pc, ppc, made, sent, lost, turned>>

Frame == [id : Ids, prio : Priorities, num : 1 .. MaxFrames]

(* Mutant: the duplicate search stops one frame short.                     *)
PackedIdsButLast == {pack[i].id : i \in 1 .. Len(pack) - 1}

PackedIds == {pack[i].id : i \in 1 .. Len(pack)}

(* The frame with each of those of its id that were put aside before it.   *)
Together(frame) == {{frame, f} : f \in {g \in Elements(skip) : g.id = frame.id}}

-----------------------------------------------------------------------------
Init ==
    /\ queue = [p \in Priorities |-> <<>>]
    /\ skip = <<>> /\ pack = <<>> /\ priority = 2
    /\ pc = "lock"
    /\ ppc = [p \in Producers |-> "idle"]
    /\ made = 0 /\ sent = <<>> /\ lost = {} /\ turned = {}

(* Mutant: sendFrame does not take the mutex.                              *)
LockIgnored == TRUE

LockFree == pc \notin {"pack", "restore"}

(* CSTx_sendFrame up to the unlock, for the frame built by its caller.     *)
sendFrame(t, id, p) ==
    LET frame == [id |-> id, prio |-> p, num |-> made + 1] IN
    /\ ppc[t] = "idle" /\ LockFree
    /\ made < MaxFrames
    /\ made' = made + 1
    /\ queue' = [queue EXCEPT ![p] = PushBack(queue[p], frame, QueueMax)]
    /\ lost' = lost \cup Discarded(queue[p], QueueMax)
    /\ ppc' = [ppc EXCEPT ![t] = "signal"]
    /\ UNCHANGED <<skip, pack, priority, pc, sent, turned>>

(* Mutant: the send thread is not signalled.                               *)
signalForgotten(t) ==
    /\ ppc[t] = "signal"
    /\ ppc' = [ppc EXCEPT ![t] = "idle"]
    /\ UNCHANGED <<queue, skip, pack, priority, pc, made, sent, lost, turned>>

(* SACOND_SIGNAL: wakes the send thread if it is waiting, else is lost.    *)
signal(t) ==
    /\ ppc[t] = "signal"
    /\ ppc' = [ppc EXCEPT ![t] = "idle"]
    /\ pc' = IF pc = "waiting" THEN "woken" ELSE pc
    /\ UNCHANGED <<queue, skip, pack, priority, made, sent, lost, turned>>

-----------------------------------------------------------------------------
(* Mutants: the wait is not conditional; the loop starts at Normal.        *)
sendThreadAlwaysWaits ==
    /\ pc = "lock" /\ pc' = "waiting" /\ priority' = 2
    /\ UNCHANGED <<queue, skip, pack, ppc, made, sent, lost, turned>>
sendThreadNormalFirst ==
    /\ pc = "lock"
    /\ pc' = IF \A p \in Priorities : queue[p] = <<>> THEN "waiting" ELSE "pack"
    /\ priority' = 1
    /\ UNCHANGED <<queue, skip, pack, ppc, made, sent, lost, turned>>

(* The send thread locks and waits if nothing at all is queued.            *)
sendThreadLock ==
    /\ pc = "lock"
    /\ pc' = IF \A p \in Priorities : queue[p] = <<>> THEN "waiting" ELSE "pack"
    /\ priority' = 2
    /\ UNCHANGED <<queue, skip, pack, ppc, made, sent, lost, turned>>

(* pthread_cond_wait may return without a signal.                          *)
spuriousWakeup ==
    /\ pc = "waiting" /\ pc' = "woken"
    /\ UNCHANGED <<queue, skip, pack, priority, ppc, made, sent, lost, turned>>

(* The wait returns with the mutex held; the wait is not in a loop.        *)
sendThreadWake ==
    /\ pc = "woken" /\ pc' = "pack"
    /\ UNCHANGED <<queue, skip, pack, priority, ppc, made, sent, lost, turned>>

MoreToPack == queue[priority] # <<>> /\ Len(pack) < PackMax

(* Mutant: a frame whose id is already packed is not put aside.            *)
packFrameDropping ==
    LET frame == Head(queue[priority]) IN
    /\ pc = "pack" /\ MoreToPack
    /\ queue' = [queue EXCEPT ![priority] = Tail(queue[priority])]
    /\ pack' = IF frame.id \in PackedIds THEN pack ELSE Append(pack, frame)
    /\ UNCHANGED <<skip, priority, pc, ppc, made, sent, lost, turned>>

(* One frame of the current priority: packed, or put aside when its id is  *)
(* already in the pack.                                                    *)
packFrame ==
    LET frame == Head(queue[priority]) IN
    /\ pc = "pack" /\ MoreToPack
    /\ queue' = [queue EXCEPT ![priority] = Tail(queue[priority])]
    /\ IF frame.id \in PackedIds
         THEN /\ skip' = PushBack(skip, frame, SkipMax)
              /\ lost' = lost \cup Discarded(skip, SkipMax)
              /\ turned' = (turned \ Together(frame)) \cup (Together(frame) \ turned)
              /\ UNCHANGED pack
         ELSE /\ pack' = Append(pack, frame)
              /\ UNCHANGED <<skip, lost, turned>>
    /\ UNCHANGED <<priority, pc, ppc, made, sent>>

packDone ==
    /\ pc = "pack" /\ ~MoreToPack /\ pc' = "restore"
    /\ UNCHANGED <<queue, skip, pack, priority, ppc, made, sent, lost, turned>>

(* Mutant: the frame goes back to the end of the queue.                    *)
restoreToBack ==
    /\ pc = "restore" /\ skip # <<>>
    /\ queue' = [queue EXCEPT ![priority] =
                    PushBack(queue[priority], Head(skip), QueueMax)]
    /\ lost' = lost \cup Discarded(queue[priority], QueueMax)
    /\ skip' = Tail(skip)
    /\ UNCHANGED <<pack, priority, pc, ppc, made, sent, turned>>

(* The frames put aside go back one by one, each to the front.             *)
restoreFrame ==
    /\ pc = "restore" /\ skip # <<>>
    /\ queue' = [queue EXCEPT ![priority] =
                    PushFront(queue[priority], Head(skip), QueueMax)]
    /\ lost' = lost \cup Discarded(queue[priority], QueueMax)
    /\ skip' = Tail(skip)
    /\ UNCHANGED <<pack, priority, pc, ppc, made, sent, turned>>

(* The loop runs for priorities 2 and 1; then the mutex is released.       *)
nextPriority ==
    /\ pc = "restore" /\ skip = <<>>
    /\ IF priority > 1 THEN priority' = priority - 1 /\ pc' = "pack"
                       ELSE priority' = priority /\ pc' = "send"
    /\ UNCHANGED <<queue, skip, pack, ppc, made, sent, lost, turned>>

(* CSIo_send, also of an empty pack, then the 1 ms delay.                  *)
sendPack ==
    /\ pc = "send" /\ pc' = "lock"
    /\ sent' = sent \o pack /\ pack' = <<>>
    /\ UNCHANGED <<queue, skip, priority, ppc, made, lost, turned>>

sendThread ==
    \/ sendThreadLock \/ sendThreadWake \/ packFrame \/ packDone
    \/ restoreFrame \/ nextPriority \/ sendPack

Next ==
    \/ \E t \in Producers, id \in Ids, p \in Used : sendFrame(t, id, p)
    \/ \E t \in Producers : signal(t)
    \/ sendThread
    \/ spuriousWakeup

Spec == Init /\ [][Next]_vars

(* The send thread and a producer that has queued a frame are ordinary     *)
(* threads that keep running; nothing obliges a caller to send, nor the    *)
(* wait to return spuriously.                                              *)
Fairness == WF_vars(sendThread) /\ \A t \in Producers : WF_vars(signal(t))

FairSpec == Spec /\ Fairness

-----------------------------------------------------------------------------
TypeOK ==
    /\ queue \in [Priorities -> Seq(Frame)]
    /\ \A p \in Priorities : Len(queue[p]) <= QueueMax
    /\ skip \in Seq(Frame) /\ Len(skip) <= SkipMax
    /\ pack \in Seq(Frame) /\ Len(pack) <= PackMax
    /\ priority \in {1, 2}
    /\ pc \in {"lock", "waiting", "woken", "pack", "restore", "send"}
    /\ ppc \in [Producers -> {"idle", "signal"}]
    /\ made \in 0 .. MaxFrames
    /\ sent \in Seq(Frame) /\ lost \subseteq Frame /\ turned \subseteq SUBSET Frame

(* No lost wakeup: although the signal is sent after the unlock and the    *)
(* wait is not in a loop, the send thread never sleeps on a queued frame   *)
(* unless some producer is still about to signal it.                       *)
NoLostWakeup ==
    pc = "waiting" /\ (\E p \in Priorities : queue[p] # <<>>)
        => \E t \in Producers : ppc[t] = "signal"

(* A datagram never carries two frames of one CAN id, across both          *)
(* priorities and whatever was skipped and restored.                       *)
PackIdsDistinct ==
    \A i, j \in 1 .. Len(pack) : pack[i].id = pack[j].id => i = j

(* Putting the skipped frames back never overflows the queue they came     *)
(* from: no producer can insert while the send thread holds the mutex.     *)
RestoreFits ==
    pc \in {"pack", "restore"} => Len(queue[priority]) + Len(skip) <= QueueMax

(* Between rounds nothing is put aside and, once the datagram is sent,     *)
(* nothing is packed: every round starts afresh.                           *)
BetweenRounds ==
    /\ pc \notin {"pack", "restore"} => skip = <<>>
    /\ pc \in {"lock", "waiting", "woken"} => pack = <<>>

(* Queues within their capacities, rounds that start afresh, room for what *)
(* a round puts aside, and one frame per id in a datagram.                 *)
RoundInv == TypeOK /\ BetweenRounds /\ RestoreFits /\ PackIdsDistinct

(* Every frame accepted from a caller is in exactly one place: queued, put *)
(* aside, packed, sent, or discarded by a full queue.                      *)
FramesConserved ==
    LET places == queue[0] \o queue[1] \o queue[2] \o skip \o pack \o sent
        nums   == {f.num : f \in Elements(places) \cup lost}
    IN  /\ nums = 1 .. made
        /\ Len(places) + Cardinality(lost) = made

(* Frames to one id leave in the order they were queued, two of them in    *)
(* the reverse order exactly if an odd number of rounds put both aside:    *)
(* restoring one by one to the front turns them around each time.  Nothing *)
(* else that happens to them, or to others between them, changes it.       *)
SentInOrder ==
    \A i, j \in 1 .. Len(sent) :
        i < j /\ sent[i].id = sent[j].id /\ sent[i].prio = sent[j].prio =>
            IF {sent[i], sent[j]} \in turned THEN sent[j].num < sent[i].num
            ELSE sent[i].num < sent[j].num

(* The accepted frames that have not left yet.                             *)
Pending == Elements(skip) \cup Elements(pack)
           \cup UNION {Elements(queue[p]) : p \in Priorities}

Service == INSTANCE FrameService WITH pending <- Pending

(* The queues, the skip queue and the rounds of the send thread keep what  *)
(* a caller is promised: no frame is lost without a crowd, a datagram has  *)
(* one frame per id, High ones first, and of each id the first in line.    *)
ImplementsService == Service!SSpec

(* A Normal frame is packed only when each High frame left behind shares   *)
(* its id with a packed one or found the pack full, and a round that finds *)
(* a High or Normal frame never sends an empty pack.                       *)
HighBeforeNormal ==
    /\ pc \in {"pack", "restore"} /\ priority = 1
        => \/ Len(pack) = PackMax
           \/ \A f \in Elements(queue[2]) : f.id \in PackedIds
    /\ pc = "restore" /\ pack = <<>> => queue[priority] = <<>>

(* Once the callers pause, the send thread empties the High and Normal     *)
(* queues: every frame is sent or has been discarded by a full queue.      *)
EveryFrameServed == Pending # {} ~> Pending = {}
=============================================================================
