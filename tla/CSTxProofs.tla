----------------------------- MODULE CSTxProofs ------------------------------
(***************************************************************************)
(* Proofs about CSTx for every number of producers, ids and capacities:    *)
(* the types and bounds of the queues, no lost wakeup, distinct ids in a   *)
(* datagram, room for the frames put aside, High frames before Normal      *)
(* ones, no frame lost or doubled, the order in which frames leave, and    *)
(* that all of this implements FrameService.                               *)
(***************************************************************************)
EXTENDS CSTx, SequenceTheorems, FiniteSetTheorems, TLAPS

(* What insertion into a bounded queue yields.                             *)
LEMMA MakeRoomProps ==
    ASSUME NEW S, NEW q \in Seq(S), NEW cap \in Nat \ {0}, Len(q) <= cap
    PROVE  /\ MakeRoom(q, cap) \in Seq(S)
           /\ Len(MakeRoom(q, cap)) = IF Len(q) = cap THEN cap - 1 ELSE Len(q)
<1>1. CASE Len(q) = cap
  <2>1. q # <<>>
    BY <1>1
  <2>2. Tail(q) \in Seq(S) /\ Len(Tail(q)) = Len(q) - 1
    BY <2>1, HeadTailProperties
  <2> QED BY <1>1, <2>2 DEF MakeRoom
<1>2. CASE Len(q) # cap
  BY <1>2 DEF MakeRoom
<1> QED BY <1>1, <1>2

(* Insertion at the back: the result is a queue within its capacity.       *)
LEMMA PushBackProps ==
    ASSUME NEW S, NEW q \in Seq(S), NEW d \in S, NEW cap \in Nat \ {0}, Len(q) <= cap
    PROVE  /\ PushBack(q, d, cap) \in Seq(S)
           /\ Len(PushBack(q, d, cap)) = IF Len(q) = cap THEN cap ELSE Len(q) + 1
<1> DEFINE r == MakeRoom(q, cap)
<1>1. r \in Seq(S) /\ Len(r) = IF Len(q) = cap THEN cap - 1 ELSE Len(q)
  BY MakeRoomProps
<1> HIDE DEF r
<1>2. Append(r, d) \in Seq(S) /\ Len(Append(r, d)) = Len(r) + 1
  BY <1>1, AppendProperties
<1>3. Len(q) \in Nat
  OBVIOUS
<1> QED BY <1>1, <1>2, <1>3 DEF PushBack, r

(* Insertion at the front, likewise.                                       *)
LEMMA PushFrontProps ==
    ASSUME NEW S, NEW q \in Seq(S), NEW d \in S, NEW cap \in Nat \ {0}, Len(q) <= cap
    PROVE  /\ PushFront(q, d, cap) \in Seq(S)
           /\ Len(PushFront(q, d, cap)) = IF Len(q) = cap THEN cap ELSE Len(q) + 1
<1> DEFINE r == MakeRoom(q, cap)
<1>1. r \in Seq(S) /\ Len(r) = IF Len(q) = cap THEN cap - 1 ELSE Len(q)
  BY MakeRoomProps
<1> HIDE DEF r
<1>2. <<d>> \in Seq(S) /\ Len(<<d>>) = 1
  OBVIOUS
<1>3. <<d>> \o r \in Seq(S) /\ Len(<<d>> \o r) = 1 + Len(r)
  BY <1>1, <1>2, ConcatProperties
<1>4. Len(q) \in Nat
  OBVIOUS
<1> QED BY <1>1, <1>3, <1>4 DEF PushFront, r

(* What an insertion discards is an element of the queue.                  *)
LEMMA DiscardedType ==
    ASSUME NEW S, NEW q \in Seq(S), NEW cap \in Nat \ {0}
    PROVE  Discarded(q, cap) \subseteq S
<1>1. CASE Len(q) = cap
  <2>1. q # <<>>
    BY <1>1
  <2>2. Head(q) \in S
    BY <2>1, HeadTailProperties
  <2> QED BY <1>1, <2>2 DEF Discarded
<1>2. CASE Len(q) # cap
  BY <1>2 DEF Discarded
<1> QED BY <1>1, <1>2

-----------------------------------------------------------------------------
(* The pairs of D once f is put aside.                                     *)
Toggled(D, f) == (D \ Together(f)) \cup (Together(f) \ D)

(* The inductive invariant.                                                *)
TxInv == RoundInv /\ NoLostWakeup

(* The initial state of the transmit side satisfies the invariant.         *)
LEMMA InitTxInv == Init => TxInv
<1> SUFFICES ASSUME Init PROVE TxInv
  OBVIOUS
<1> USE TxAssumption DEF Init
<1>1. TypeOK
  BY DEF TypeOK, Priorities
<1>2. BetweenRounds /\ NoLostWakeup /\ PackIdsDistinct /\ RestoreFits
  BY DEF BetweenRounds, NoLostWakeup, PackIdsDistinct, RestoreFits
<1> QED BY <1>1, <1>2 DEF TxInv, RoundInv

(* A producer's insertion: the send thread is outside its round, and the   *)
(* producer still has its signal to send.                                  *)
LEMMA SendFrameStep ==
    ASSUME TxInv, NEW t \in Producers, NEW id \in Ids, NEW p \in Used, sendFrame(t, id, p)
    PROVE  TxInv'
<1> DEFINE frame == [id |-> id, prio |-> p, num |-> made + 1]
<1>p. p \in Priorities
  BY TxAssumption
<1>f. frame \in Frame
  BY <1>p, TxAssumption DEF Frame, sendFrame, TxInv, RoundInv, TypeOK
<1> HIDE DEF frame
<1>q. queue[p] \in Seq(Frame) /\ Len(queue[p]) <= QueueMax
  BY <1>p DEF TxInv, RoundInv, TypeOK
<1>b. /\ PushBack(queue[p], frame, QueueMax) \in Seq(Frame)
      /\ Len(PushBack(queue[p], frame, QueueMax)) <= QueueMax
  BY <1>f, <1>q, PushBackProps, TxAssumption
<1>d. Discarded(queue[p], QueueMax) \subseteq Frame
  BY <1>q, DiscardedType, TxAssumption
<1>s. /\ queue' = [queue EXCEPT ![p] = PushBack(queue[p], frame, QueueMax)]
      /\ lost' = lost \cup Discarded(queue[p], QueueMax)
  BY DEF sendFrame, frame
<1>1. TypeOK'
  <2>1. queue' \in [Priorities -> Seq(Frame)] /\ \A r \in Priorities : Len(queue'[r]) <= QueueMax
    BY <1>p, <1>b, <1>s DEF TxInv, RoundInv, TypeOK
  <2>2. lost' \subseteq Frame
    BY <1>d, <1>s DEF TxInv, RoundInv, TypeOK
  <2>3. made' \in 0 .. MaxFrames /\ ppc' \in [Producers -> {"idle", "signal"}]
    BY TxAssumption DEF TxInv, RoundInv, TypeOK, sendFrame
  <2> QED BY <2>1, <2>2, <2>3 DEF TxInv, RoundInv, TypeOK, sendFrame
<1>2. ppc'[t] = "signal"
  BY DEF TxInv, RoundInv, TypeOK, sendFrame
<1>3. NoLostWakeup'
  BY <1>2 DEF NoLostWakeup
<1>4. pc' \notin {"pack", "restore"} /\ UNCHANGED <<pc, skip, pack>>
  BY DEF sendFrame, LockFree
<1>5. BetweenRounds' /\ PackIdsDistinct' /\ RestoreFits'
  BY <1>4 DEF TxInv, RoundInv, BetweenRounds, PackIdsDistinct, RestoreFits
<1> QED BY <1>1, <1>3, <1>5 DEF TxInv, RoundInv

(* A signal wakes a waiting send thread, so it may be spent.               *)
LEMMA SignalStep ==
    ASSUME TxInv, NEW t \in Producers, signal(t)
    PROVE  TxInv'
<1>1. TypeOK'
  BY DEF TxInv, RoundInv, TypeOK, signal
<1>2. pc' # "waiting"
  BY DEF signal
<1>3. NoLostWakeup'
  BY <1>2 DEF NoLostWakeup
<1>4. BetweenRounds' /\ PackIdsDistinct' /\ RestoreFits'
  BY DEF TxInv, RoundInv, TypeOK, signal, BetweenRounds, PackIdsDistinct, RestoreFits
<1> QED BY <1>1, <1>3, <1>4 DEF TxInv, RoundInv

(* The steps of the send thread that move no frame.                        *)
LEMMA ControlStep ==
    ASSUME TxInv, sendThreadLock \/ sendThreadWake \/ spuriousWakeup \/ packDone \/ nextPriority
    PROVE  TxInv'
<1> USE DEF TxInv, RoundInv, TypeOK
<1>1. CASE sendThreadLock
  <2>1. TypeOK'
    BY <1>1 DEF sendThreadLock
  <2>2. NoLostWakeup'
    BY <1>1 DEF sendThreadLock, NoLostWakeup
  <2>3. skip = <<>> /\ Len(skip) = 0
    BY <1>1 DEF sendThreadLock, BetweenRounds
  <2>4. RestoreFits'
    BY <1>1, <2>3 DEF sendThreadLock, RestoreFits, Priorities
  <2>5. BetweenRounds' /\ PackIdsDistinct'
    BY <1>1 DEF sendThreadLock, BetweenRounds, PackIdsDistinct
  <2> QED BY <2>1, <2>2, <2>4, <2>5
<1>2. CASE sendThreadWake
  <2>1. skip = <<>> /\ Len(skip) = 0
    BY <1>2 DEF sendThreadWake, BetweenRounds
  <2>2. RestoreFits'
    BY <1>2, <2>1 DEF sendThreadWake, RestoreFits, Priorities
  <2> QED BY <1>2, <2>2 DEF sendThreadWake, BetweenRounds, NoLostWakeup, PackIdsDistinct
<1>3. CASE spuriousWakeup
  BY <1>3 DEF spuriousWakeup, BetweenRounds, NoLostWakeup, PackIdsDistinct, RestoreFits
<1>4. CASE packDone
  BY <1>4 DEF packDone, BetweenRounds, NoLostWakeup, PackIdsDistinct, RestoreFits
<1>5. CASE nextPriority
  <2>1. TypeOK' /\ priority' \in Priorities
    BY <1>5 DEF nextPriority, Priorities
  <2>2. skip' = <<>> /\ Len(skip') = 0
    BY <1>5 DEF nextPriority
  <2>3. RestoreFits'
    BY <2>1, <2>2 DEF RestoreFits
  <2> QED BY <1>5, <2>1, <2>2, <2>3 DEF nextPriority, BetweenRounds, NoLostWakeup, PackIdsDistinct
<1> QED BY <1>1, <1>2, <1>3, <1>4, <1>5

(* Packing or putting aside the front frame.                               *)
LEMMA PackFrameStep ==
    ASSUME TxInv, packFrame
    PROVE  TxInv'
<1> DEFINE frame == Head(queue[priority])
<1>p. priority \in Priorities
  BY DEF TxInv, RoundInv, TypeOK, Priorities
<1>q. queue[priority] \in Seq(Frame) /\ queue[priority] # <<>>
  BY <1>p DEF TxInv, RoundInv, TypeOK, packFrame, MoreToPack
<1>h. /\ frame \in Frame /\ Tail(queue[priority]) \in Seq(Frame)
      /\ Len(Tail(queue[priority])) = Len(queue[priority]) - 1
  BY <1>q, HeadTailProperties
<1>a. /\ pc = "pack" /\ pc' = "pack" /\ Len(pack) < PackMax
      /\ queue' = [queue EXCEPT ![priority] = Tail(queue[priority])]
      /\ UNCHANGED <<priority, ppc, made, sent>>
  BY DEF packFrame, MoreToPack
<1> DEFINE aside == frame.id \in PackedIds
<1>s. /\ aside => /\ skip' = PushBack(skip, frame, SkipMax)
                  /\ lost' = lost \cup Discarded(skip, SkipMax)
                  /\ turned' = Toggled(turned, frame)
                  /\ pack' = pack
      /\ ~aside => pack' = Append(pack, frame) /\ UNCHANGED <<skip, lost, turned>>
  BY DEF packFrame, Toggled
<1>n. ~aside => \A i \in 1 .. Len(pack) : pack[i].id # frame.id
  BY DEF PackedIds
<1> HIDE DEF frame, aside
<1>1. /\ queue' \in [Priorities -> Seq(Frame)]
      /\ \A r \in Priorities : Len(queue'[r]) <= QueueMax
      /\ Len(queue'[priority]) = Len(queue[priority]) - 1
  BY <1>p, <1>h, <1>a, TxAssumption DEF TxInv, RoundInv, TypeOK
<1>2. /\ skip' \in Seq(Frame) /\ Len(skip') <= SkipMax /\ Len(skip') <= Len(skip) + 1
      /\ pack' \in Seq(Frame) /\ Len(pack') <= PackMax
      /\ lost' \subseteq Frame /\ turned' \subseteq SUBSET Frame
  <2>1. CASE aside
    <3>1. skip' \in Seq(Frame) /\ Len(skip') <= SkipMax /\ Len(skip') <= Len(skip) + 1
      <4>1. /\ skip \in Seq(Frame) /\ Len(skip) <= SkipMax /\ SkipMax \in Nat \ {0}
            /\ frame \in Frame /\ skip' = PushBack(skip, frame, SkipMax) /\ Len(skip) \in Nat
        BY <2>1, <1>s, <1>h, TxAssumption DEF TxInv, RoundInv, TypeOK
      <4> QED BY <4>1, PushBackProps
    <3>2. lost' \subseteq Frame
      <4>1. skip \in Seq(Frame) /\ SkipMax \in Nat \ {0} /\ lost \subseteq Frame
        BY TxAssumption DEF TxInv, RoundInv, TypeOK
      <4>2. Discarded(skip, SkipMax) \subseteq Frame
        BY <4>1, DiscardedType
      <4>3. lost' = lost \cup Discarded(skip, SkipMax)
        BY <2>1, <1>s
      <4> QED BY <4>1, <4>2, <4>3
    <3>3. turned' \subseteq SUBSET Frame
      <4>1. frame \in Frame /\ Elements(skip) \subseteq Frame
        BY <1>h DEF TxInv, RoundInv, TypeOK, Elements
      <4>2. Together(frame) \subseteq SUBSET Frame
        BY <4>1 DEF Together
      <4>3. turned' = Toggled(turned, frame) /\ turned \subseteq SUBSET Frame
        BY <2>1, <1>s DEF TxInv, RoundInv, TypeOK
      <4> QED BY <4>2, <4>3 DEF Toggled
    <3> QED BY <2>1, <3>1, <3>2, <3>3, <1>s DEF TxInv, RoundInv, TypeOK
  <2>2. CASE ~aside
    <3>0. pack \in Seq(Frame) /\ pack' = Append(pack, frame) /\ frame \in Frame
      BY <2>2, <1>s, <1>h DEF TxInv, RoundInv, TypeOK
    <3>1. pack' \in Seq(Frame) /\ Len(pack') = Len(pack) + 1
      BY <3>0, AppendProperties
    <3> QED BY <2>2, <3>1, <1>s, <1>a, TxAssumption DEF TxInv, RoundInv, TypeOK
  <2> QED BY <2>1, <2>2
<1>3. TypeOK'
  BY <1>1, <1>2, <1>a DEF TxInv, RoundInv, TypeOK
<1>4. BetweenRounds' /\ NoLostWakeup'
  BY <1>a DEF BetweenRounds, NoLostWakeup
<1>5. PackIdsDistinct'
  <2>1. CASE aside
    BY <2>1, <1>s DEF TxInv, RoundInv, PackIdsDistinct
  <2>2. CASE ~aside
    <3>1. pack \in Seq(Frame) /\ Len(pack) \in Nat
      BY DEF TxInv, RoundInv, TypeOK
    <3>2. /\ Len(pack') = Len(pack) + 1
          /\ \A i \in 1 .. Len(pack) : pack'[i] = pack[i]
          /\ pack'[Len(pack) + 1] = frame
      BY <2>2, <1>s, <1>h, <3>1, AppendProperties
    <3>3. \A i \in 1 .. Len(pack) : pack[i].id # frame.id
      BY <2>2, <1>n
    <3>4. \A i, j \in 1 .. Len(pack) : pack[i].id = pack[j].id => i = j
      BY DEF TxInv, RoundInv, PackIdsDistinct
    <3> QED BY <3>1, <3>2, <3>3, <3>4 DEF PackIdsDistinct
  <2> QED BY <2>1, <2>2
<1>6. RestoreFits'
  <2>1. Len(queue[priority]) + Len(skip) <= QueueMax
    BY <1>a DEF TxInv, RoundInv, RestoreFits
  <2>2. Len(queue[priority]) \in Nat /\ Len(skip) \in Nat /\ Len(skip') \in Nat
    BY <1>q, <1>2 DEF TxInv, RoundInv, TypeOK
  <2>3. Len(queue'[priority]) + Len(skip') <= QueueMax
    BY <2>1, <2>2, <1>1, <1>2, TxAssumption
  <2> QED BY <2>3, <1>a DEF RestoreFits
<1> QED BY <1>3, <1>4, <1>5, <1>6 DEF TxInv, RoundInv

(* Putting one frame back: there is room, so nothing is discarded.         *)
LEMMA RestoreFrameStep ==
    ASSUME TxInv, restoreFrame
    PROVE  TxInv'
<1>p. priority \in Priorities
  BY DEF TxInv, RoundInv, TypeOK, Priorities
<1>q. queue[priority] \in Seq(Frame) /\ Len(queue[priority]) <= QueueMax
  BY <1>p DEF TxInv, RoundInv, TypeOK
<1>k. skip \in Seq(Frame) /\ skip # <<>>
  BY DEF TxInv, RoundInv, TypeOK, restoreFrame
<1>h. /\ Head(skip) \in Frame /\ Tail(skip) \in Seq(Frame)
      /\ Len(Tail(skip)) = Len(skip) - 1
  BY <1>k, HeadTailProperties
<1>a. /\ pc = "restore" /\ pc' = "restore"
      /\ queue' = [queue EXCEPT ![priority] =
                      PushFront(queue[priority], Head(skip), QueueMax)]
      /\ lost' = lost \cup Discarded(queue[priority], QueueMax)
      /\ skip' = Tail(skip)
      /\ UNCHANGED <<pack, priority, ppc, made, sent, turned>>
  BY DEF restoreFrame
<1>b. Len(queue[priority]) + Len(skip) <= QueueMax
  BY <1>a DEF TxInv, RoundInv, RestoreFits
<1>c. /\ PushFront(queue[priority], Head(skip), QueueMax) \in Seq(Frame)
      /\ Len(PushFront(queue[priority], Head(skip), QueueMax)) =
            IF Len(queue[priority]) = QueueMax THEN QueueMax ELSE Len(queue[priority]) + 1
  BY <1>q, <1>h, PushFrontProps, TxAssumption
<1>d. Discarded(queue[priority], QueueMax) \subseteq Frame
  BY <1>q, DiscardedType, TxAssumption
<1>l. Len(queue[priority]) \in Nat /\ Len(skip) \in Nat
  BY <1>q, <1>k
<1>1. /\ queue' \in [Priorities -> Seq(Frame)]
      /\ \A r \in Priorities : Len(queue'[r]) <= QueueMax
      /\ Len(queue'[priority]) <= Len(queue[priority]) + 1
  BY <1>p, <1>a, <1>c, <1>q, <1>l, TxAssumption DEF TxInv, RoundInv, TypeOK
<1>2. TypeOK'
  BY <1>1, <1>a, <1>d, <1>h, <1>l, TxAssumption DEF TxInv, RoundInv, TypeOK
<1>3. BetweenRounds' /\ NoLostWakeup' /\ PackIdsDistinct'
  BY <1>a DEF TxInv, RoundInv, BetweenRounds, NoLostWakeup, PackIdsDistinct
<1>4. RestoreFits'
  <2>1. Len(queue'[priority]) \in Nat
    BY <1>1, <1>p
  <2>2. Len(queue'[priority]) + Len(skip') <= QueueMax
    BY <2>1, <1>1, <1>a, <1>b, <1>h, <1>l, TxAssumption
  <2> QED BY <2>2, <1>a DEF RestoreFits
<1> QED BY <1>2, <1>3, <1>4 DEF TxInv, RoundInv

(* Handing the pack to CSIo_send.                                          *)
LEMMA SendPackStep ==
    ASSUME TxInv, sendPack
    PROVE  TxInv'
<1>1. sent \o pack \in Seq(Frame)
  BY ConcatProperties DEF TxInv, RoundInv, TypeOK
<1>2. TypeOK'
  BY <1>1, TxAssumption DEF TxInv, RoundInv, TypeOK, sendPack
<1>3. BetweenRounds' /\ NoLostWakeup' /\ PackIdsDistinct' /\ RestoreFits'
  BY DEF TxInv, RoundInv, TypeOK, sendPack, BetweenRounds, NoLostWakeup, PackIdsDistinct, RestoreFits
<1> QED BY <1>2, <1>3 DEF TxInv, RoundInv

(* Every step of the producers and of the send thread keeps the invariant. *)
LEMMA NextTxInv == TxInv /\ [Next]_vars => TxInv'
<1> SUFFICES ASSUME TxInv, [Next]_vars PROVE TxInv'
  OBVIOUS
<1>1. CASE UNCHANGED vars
  BY <1>1 DEF vars, TxInv, RoundInv, TypeOK, BetweenRounds, NoLostWakeup, PackIdsDistinct, RestoreFits
<1>2. CASE Next
  BY <1>2, SendFrameStep, SignalStep, ControlStep, PackFrameStep, RestoreFrameStep,
     SendPackStep DEF Next, sendThread
<1> QED BY <1>1, <1>2

(* The invariant of CSTx holds in every reachable state.                   *)
THEOREM TxInvariant == Spec => []TxInv
<1> QED BY InitTxInv, NextTxInv, PTL DEF Spec

(* The queues of cs_tx.c never exceed their capacities, the datagram never *)
(* more than PackMax frames, every round starts afresh, and the frames put *)
(* aside always fit back into their queue.                                 *)
THEOREM TxRoundInv == Spec => []RoundInv
<1>1. TxInv => RoundInv
  BY DEF TxInv
<1> QED BY <1>1, TxInvariant, PTL

(* CSTx_sendThread never sleeps on a queued frame with no signal to come.  *)
THEOREM TxNoLostWakeup == Spec => []NoLostWakeup
<1>1. TxInv => NoLostWakeup
  BY DEF TxInv, RoundInv
<1> QED BY <1>1, TxInvariant, PTL

(* No datagram carries two frames of one CAN id.                           *)
THEOREM TxPackIdsDistinct == Spec => []PackIdsDistinct
<1>1. TxInv => PackIdsDistinct
  BY DEF TxInv, RoundInv
<1> QED BY <1>1, TxInvariant, PTL

-----------------------------------------------------------------------------
(* What the order of priorities rests on: a frame is put aside only when   *)
(* its id is packed, and a queue the send thread has finished with holds   *)
(* only such frames unless the pack is full.                               *)
AsidePacked == \A f \in Elements(skip) : f.id \in PackedIds

ServedQueue ==
    pc = "restore" /\ Len(pack) < PackMax
        => \A f \in Elements(queue[priority]) : f.id \in PackedIds

HighServed ==
    pc \in {"pack", "restore"} /\ priority = 1 /\ Len(pack) < PackMax
        => \A f \in Elements(queue[2]) : f.id \in PackedIds

WaitsAtTop == pc \in {"waiting", "woken"} => priority = 2

OrderInv == AsidePacked /\ ServedQueue /\ HighServed /\ WaitsAtTop

(* Appending a frame to the pack keeps every id that is packed.            *)
LEMMA PackedGrow ==
    ASSUME TxInv, packFrame
    PROVE  PackedIds \subseteq PackedIds' /\ Len(pack) <= Len(pack')
<1>1. CASE pack' = pack
  <2>1. Len(pack) \in Nat
    BY DEF TxInv, RoundInv, TypeOK
  <2> QED BY <1>1, <2>1 DEF PackedIds
<1>2. CASE pack' # pack
  <2>0. queue[priority] \in Seq(Frame) /\ queue[priority] # <<>>
    BY DEF TxInv, RoundInv, TypeOK, packFrame, MoreToPack, Priorities
  <2>1. Head(queue[priority]) \in Frame
    BY <2>0, HeadTailProperties
  <2>2. pack \in Seq(Frame) /\ pack' = Append(pack, Head(queue[priority]))
    BY <1>2 DEF TxInv, RoundInv, TypeOK, packFrame
  <2>3. /\ Len(pack) \in Nat /\ Len(pack') = Len(pack) + 1
        /\ \A i \in 1 .. Len(pack) : pack'[i] = pack[i]
    BY <2>1, <2>2, AppendProperties
  <2> QED BY <2>3 DEF PackedIds
<1> QED BY <1>1, <1>2

(* The elements of the queues after an insertion or a removal.             *)
LEMMA TailElements ==
    ASSUME NEW S, NEW q \in Seq(S), q # <<>>
    PROVE  Elements(Tail(q)) \subseteq Elements(q)
<1>1. /\ Len(q) \in Nat /\ Len(Tail(q)) = Len(q) - 1
      /\ \A i \in 1 .. Len(q) - 1 : Tail(q)[i] = q[i + 1]
  BY HeadTailProperties
<1>2. \A i \in 1 .. Len(Tail(q)) : i + 1 \in 1 .. Len(q) /\ Tail(q)[i] = q[i + 1]
  BY <1>1
<1> QED BY <1>2 DEF Elements

(* Making room only removes elements.                                      *)
LEMMA RoomElements ==
    ASSUME NEW S, NEW q \in Seq(S), NEW cap \in Nat \ {0}
    PROVE  Elements(MakeRoom(q, cap)) \subseteq Elements(q)
<1>1. CASE Len(q) = cap
  <2>1. q # <<>>
    BY <1>1
  <2> QED BY <1>1, <2>1, TailElements DEF MakeRoom
<1>2. CASE Len(q) # cap
  BY <1>2 DEF MakeRoom
<1> QED BY <1>1, <1>2

(* After an insertion at the back: old elements and the new one.           *)
LEMMA PushBackElements ==
    ASSUME NEW S, NEW q \in Seq(S), NEW d \in S, NEW cap \in Nat \ {0}, Len(q) <= cap
    PROVE  Elements(PushBack(q, d, cap)) \subseteq Elements(q) \cup {d}
<1> DEFINE r == MakeRoom(q, cap)
<1>1. r \in Seq(S) /\ Elements(r) \subseteq Elements(q)
  BY MakeRoomProps, RoomElements
<1> HIDE DEF r
<1>2. /\ Len(r) \in Nat /\ Len(Append(r, d)) = Len(r) + 1
      /\ \A i \in 1 .. Len(r) : Append(r, d)[i] = r[i]
      /\ Append(r, d)[Len(r) + 1] = d
  BY <1>1, AppendProperties
<1>3. \A i \in 1 .. Len(Append(r, d)) : i \in 1 .. Len(r) \/ i = Len(r) + 1
  BY <1>2
<1>4. Elements(Append(r, d)) \subseteq Elements(r) \cup {d}
  BY <1>2, <1>3 DEF Elements
<1> QED BY <1>1, <1>4 DEF PushBack, r

(* After an insertion at the front: old elements and the new one.          *)
LEMMA PushFrontElements ==
    ASSUME NEW S, NEW q \in Seq(S), NEW d \in S, NEW cap \in Nat \ {0}, Len(q) <= cap
    PROVE  Elements(PushFront(q, d, cap)) \subseteq Elements(q) \cup {d}
<1> DEFINE r == MakeRoom(q, cap)
<1>1. r \in Seq(S) /\ Elements(r) \subseteq Elements(q)
  BY MakeRoomProps, RoomElements
<1> HIDE DEF r
<1>2. <<d>> \in Seq(S) /\ Len(<<d>>) = 1 /\ <<d>>[1] = d
  OBVIOUS
<1>3. /\ Len(r) \in Nat /\ Len(<<d>> \o r) = 1 + Len(r)
      /\ \A i \in 1 .. 1 + Len(r) :
            (<<d>> \o r)[i] = IF i <= 1 THEN <<d>>[i] ELSE r[i - 1]
  BY <1>1, <1>2, ConcatProperties
<1>4. \A i \in 1 .. 1 + Len(r) : i = 1 \/ i - 1 \in 1 .. Len(r)
  BY <1>3
<1>5. \A i \in 1 .. 1 + Len(r) : (<<d>> \o r)[i] \in Elements(r) \cup {d}
  BY <1>2, <1>3, <1>4 DEF Elements
<1>6. Elements(<<d>> \o r) \subseteq Elements(r) \cup {d}
  BY <1>3, <1>5 DEF Elements
<1> QED BY <1>1, <1>6 DEF PushFront, r

(* The frame handled by packFrame: its id is packed afterwards, or it is   *)
(* in the pack itself.                                                     *)
LEMMA PackFrameOrder ==
    ASSUME TxInv, OrderInv, packFrame
    PROVE  OrderInv'
<1> DEFINE frame == Head(queue[priority])
<1>0. priority \in {1, 2} /\ priority \in Priorities /\ priority' = priority
  BY DEF TxInv, RoundInv, TypeOK, Priorities, packFrame
<1>1. queue[priority] \in Seq(Frame) /\ queue[priority] # <<>>
  BY <1>0 DEF TxInv, RoundInv, TypeOK, packFrame, MoreToPack
<1>2. frame \in Frame
  BY <1>1, HeadTailProperties
<1> HIDE DEF frame
<1>3. PackedIds \subseteq PackedIds' /\ Len(pack) <= Len(pack')
  BY PackedGrow
<1>4. AsidePacked'
  <2>1. CASE skip' = skip
    BY <2>1, <1>3 DEF OrderInv, AsidePacked, Elements
  <2>2. CASE skip' # skip
    <3>1. frame.id \in PackedIds /\ skip' = PushBack(skip, frame, SkipMax)
      BY <2>2 DEF packFrame, frame
    <3>2. skip \in Seq(Frame) /\ Len(skip) <= SkipMax /\ SkipMax \in Nat \ {0}
      BY TxAssumption DEF TxInv, RoundInv, TypeOK
    <3>3. Elements(skip') \subseteq Elements(skip) \cup {frame}
      BY <3>1, <3>2, <1>2, PushBackElements
    <3>4. Elements(skip)' = Elements(skip')
      BY DEF Elements
    <3> QED BY <3>1, <3>3, <3>4, <1>3 DEF OrderInv, AsidePacked
  <2> QED BY <2>1, <2>2
<1>5. ServedQueue'
  BY DEF ServedQueue, packFrame
<1>6. HighServed'
  <2> SUFFICES ASSUME priority = 1, Len(pack') < PackMax
               PROVE  \A f \in Elements(queue[2])' : f.id \in PackedIds'
    BY <1>0 DEF HighServed
  <2>1. Len(pack) < PackMax
    BY <1>3, TxAssumption DEF TxInv, RoundInv, TypeOK, packFrame, MoreToPack
  <2>2. queue'[2] = queue[2]
    BY <1>0 DEF TxInv, RoundInv, TypeOK, packFrame, Priorities
  <2>3. \A f \in Elements(queue[2]) : f.id \in PackedIds
    BY <2>1 DEF OrderInv, HighServed, packFrame
  <2>4. Elements(queue[2])' = Elements(queue[2])
    BY <2>2 DEF Elements
  <2> QED BY <2>3, <2>4, <1>3
<1>7. WaitsAtTop'
  BY DEF WaitsAtTop, packFrame
<1> QED BY <1>4, <1>5, <1>6, <1>7 DEF OrderInv

(* Putting a skipped frame back keeps the order facts: its id is packed.   *)
LEMMA RestoreFrameOrder ==
    ASSUME TxInv, OrderInv, restoreFrame
    PROVE  OrderInv'
<1>0. priority \in {1, 2} /\ priority \in Priorities /\ priority' = priority
  BY DEF TxInv, RoundInv, TypeOK, Priorities, restoreFrame
<1>1. /\ queue[priority] \in Seq(Frame) /\ Len(queue[priority]) <= QueueMax
      /\ skip \in Seq(Frame) /\ skip # <<>> /\ QueueMax \in Nat \ {0}
  BY <1>0, TxAssumption DEF TxInv, RoundInv, TypeOK, restoreFrame
<1>2. Head(skip) \in Frame /\ Head(skip) = skip[1] /\ Len(skip) \in Nat /\ Len(skip) # 0
  BY <1>1, HeadTailProperties
<1>3. Head(skip) \in Elements(skip)
  BY <1>2 DEF Elements
<1>4. Head(skip).id \in PackedIds
  BY <1>3 DEF OrderInv, AsidePacked
<1>5. PackedIds' = PackedIds /\ pack' = pack /\ pc' = pc /\ pc = "restore"
  BY DEF PackedIds, restoreFrame
<1>6. AsidePacked'
  <2>1. Elements(skip') \subseteq Elements(skip)
    BY <1>1, TailElements DEF restoreFrame
  <2>2. Elements(skip)' = Elements(skip')
    BY DEF Elements
  <2> QED BY <2>1, <2>2, <1>5 DEF OrderInv, AsidePacked
<1>7. queue'[priority] = PushFront(queue[priority], Head(skip), QueueMax)
  BY <1>0 DEF TxInv, RoundInv, TypeOK, restoreFrame
<1>8. Elements(queue'[priority]) \subseteq Elements(queue[priority]) \cup {Head(skip)}
  BY <1>1, <1>2, <1>7, PushFrontElements
<1>9. ServedQueue'
  <2>1. Elements(queue[priority])' = Elements(queue'[priority])
    BY <1>0 DEF Elements
  <2> QED BY <2>1, <1>4, <1>5, <1>8 DEF OrderInv, ServedQueue
<1>10. HighServed'
  <2> SUFFICES ASSUME priority = 1, Len(pack) < PackMax
               PROVE  \A f \in Elements(queue[2])' : f.id \in PackedIds
    BY <1>0, <1>5 DEF HighServed
  <2>1. queue'[2] = queue[2]
    BY <1>0 DEF TxInv, RoundInv, TypeOK, restoreFrame, Priorities
  <2>2. Elements(queue[2])' = Elements(queue[2])
    BY <2>1 DEF Elements
  <2> QED BY <2>2, <1>5 DEF OrderInv, HighServed
<1>11. WaitsAtTop'
  BY DEF WaitsAtTop, restoreFrame
<1> QED BY <1>6, <1>9, <1>10, <1>11 DEF OrderInv

(* The other steps leave the queues alone while a round lasts.             *)
LEMMA OtherOrder ==
    ASSUME TxInv, OrderInv,
           \/ \E t \in Producers, id \in Ids, p \in Used : sendFrame(t, id, p)
           \/ \E t \in Producers : signal(t)
           \/ sendThreadLock \/ sendThreadWake \/ spuriousWakeup \/ packDone
           \/ nextPriority \/ sendPack \/ UNCHANGED vars
    PROVE  OrderInv'
<1> USE DEF OrderInv, AsidePacked, ServedQueue, HighServed, WaitsAtTop, PackedIds, Elements
<1>0. priority \in {1, 2} /\ Len(skip) \in Nat /\ Len(pack) \in Nat /\ Len(pack) <= PackMax
  BY DEF TxInv, RoundInv, TypeOK
<1>1. ASSUME NEW t \in Producers, NEW id \in Ids, NEW p \in Used, sendFrame(t, id, p)
      PROVE  OrderInv'
  BY <1>1 DEF sendFrame, LockFree
<1>2. ASSUME NEW t \in Producers, signal(t) PROVE OrderInv'
  BY <1>2 DEF signal
<1>3. CASE sendThreadLock
  BY <1>3 DEF sendThreadLock
<1>4. CASE sendThreadWake
  <2>1. priority = 2
    BY <1>4 DEF sendThreadWake
  <2> QED BY <1>4 DEF sendThreadWake
<1>5. CASE spuriousWakeup
  BY <1>5 DEF spuriousWakeup
<1>6. CASE packDone
  <2>1. UNCHANGED <<queue, skip, pack, priority, turned>> /\ pc = "pack" /\ pc' = "restore"
    BY <1>6 DEF packDone
  <2>2. AsidePacked' /\ WaitsAtTop' /\ HighServed'
    BY <2>1
  <2>3. ServedQueue'
    <3>1. CASE queue[priority] = <<>>
      BY <2>1, <3>1
    <3>2. CASE ~(Len(pack) < PackMax)
      BY <2>1, <3>2
    <3> QED BY <1>6, <3>1, <3>2 DEF packDone, MoreToPack
  <2> QED BY <2>2, <2>3
<1>7. CASE nextPriority
  BY <1>7, <1>0 DEF nextPriority
<1>8. CASE sendPack
  <2>1. skip' = <<>>
    BY <1>8 DEF sendPack, TxInv, RoundInv, BetweenRounds
  <2> QED BY <1>8, <2>1 DEF sendPack
<1>9. CASE UNCHANGED vars
  BY <1>9 DEF vars
<1> QED BY <1>1, <1>2, <1>3, <1>4, <1>5, <1>6, <1>7, <1>8, <1>9

(* Nothing is queued or put aside initially.                               *)
LEMMA InitOrder == Init => OrderInv
BY DEF Init, OrderInv, AsidePacked, ServedQueue, HighServed, WaitsAtTop, Elements

(* The inductive step.                                                     *)
LEMMA NextOrder == TxInv /\ OrderInv /\ [Next]_vars => OrderInv'
BY PackFrameOrder, RestoreFrameOrder, OtherOrder DEF Next, sendThread

(* CSTx_sendThread serves High frames before Normal ones, and never sends  *)
(* an empty datagram in a round that finds one of them.                    *)
THEOREM TxHighBeforeNormal == Spec => []HighBeforeNormal
<1>1. TxInv /\ OrderInv => HighBeforeNormal
  <2> SUFFICES ASSUME TxInv, OrderInv PROVE HighBeforeNormal
    OBVIOUS
  <2>1. Len(pack) \in Nat /\ Len(pack) <= PackMax
    BY DEF TxInv, RoundInv, TypeOK
  <2>2. pc = "restore" /\ pack = <<>> => queue[priority] = <<>>
    <3> SUFFICES ASSUME pc = "restore", pack = <<>> PROVE queue[priority] = <<>>
      OBVIOUS
    <3>1. PackedIds = {} /\ Len(pack) < PackMax
      BY TxAssumption DEF PackedIds
    <3>2. Elements(queue[priority]) = {}
      BY <3>1 DEF OrderInv, ServedQueue
    <3>3. queue[priority] \in Seq(Frame)
      BY DEF TxInv, RoundInv, TypeOK, Priorities
    <3>4. Len(queue[priority]) = 0
      <4>1. Len(queue[priority]) \in Nat
        BY <3>3
      <4>2. \A i \in 1 .. Len(queue[priority]) : queue[priority][i] \in Elements(queue[priority])
        BY DEF Elements
      <4>3. 1 \notin 1 .. Len(queue[priority])
        BY <3>2, <4>2
      <4> QED BY <4>1, <4>3
    <3> QED BY <3>3, <3>4
  <2>3. pc \in {"pack", "restore"} /\ priority = 1
        => Len(pack) = PackMax \/ \A f \in Elements(queue[2]) : f.id \in PackedIds
    BY <2>1, TxAssumption DEF OrderInv, HighServed
  <2> QED BY <2>2, <2>3 DEF HighBeforeNormal
<1> QED BY <1>1, InitOrder, NextOrder, TxInvariant, PTL DEF Spec

-----------------------------------------------------------------------------
(* Where a frame can be: the transmit queues 0 .. 2, the skip queue, the   *)
(* pack, and what was sent.  Of two frames the one at the higher place is  *)
(* ahead.                                                                  *)
Places == 0 .. 5
At == [x \in Places |-> IF x = 3 THEN skip ELSE IF x = 4 THEN pack
                        ELSE IF x = 5 THEN sent ELSE queue[x]]

Filled(A) == A \in [Places -> Seq(Frame)]
Pos(A, x) == 1 .. Len(A[x])
Count(A) == Len(A[0]) + Len(A[1]) + Len(A[2]) + Len(A[3]) + Len(A[4]) + Len(A[5])

(* The frames at the places A and the discarded ones L have the numbers N, *)
(* each once, and are k altogether.                                        *)
Conserved(A, L, N, k) ==
    /\ Filled(A) /\ IsFiniteSet(L) /\ L \subseteq Frame
    /\ \A x \in Places : \A i \in Pos(A, x) : A[x][i].num \in N
    /\ \A f \in L : f.num \in N
    /\ \A n \in N : \/ \E x \in Places : \E i \in Pos(A, x) : A[x][i].num = n
                    \/ \E f \in L : f.num = n
    /\ \A x, y \in Places : \A i \in Pos(A, x), j \in Pos(A, y) :
          A[x][i].num = A[y][j].num => x = y /\ i = j
    /\ \A x \in Places : \A i \in Pos(A, x) : \A f \in L : A[x][i].num # f.num
    /\ Count(A) + Cardinality(L) = k

(* Changing one place changes the count by the change of its length.       *)
LEMMA CountOne ==
    ASSUME NEW A, Filled(A), NEW x \in Places, NEW s \in Seq(Frame)
    PROVE  /\ Filled([A EXCEPT ![x] = s])
           /\ Count(A) \in Nat
           /\ Count([A EXCEPT ![x] = s]) = Count(A) + Len(s) - Len(A[x])
<1> DEFINE B == [A EXCEPT ![x] = s]
<1>1. Filled(B) /\ B[x] = s /\ \A y \in Places : y # x => B[y] = A[y]
  BY DEF Filled
<1>2. \A y \in Places : Len(A[y]) \in Nat /\ Len(B[y]) \in Nat
  BY <1>1 DEF Filled
<1>3. Len(B[x]) = Len(s)
  BY <1>1
<1> HIDE DEF B
<1>4. \A y \in Places : y # x => Len(B[y]) = Len(A[y])
  BY <1>1
<1>5. 0 \in Places /\ 1 \in Places /\ 2 \in Places /\ 3 \in Places /\ 4 \in Places /\ 5 \in Places
  BY DEF Places
<1>6. x = 0 \/ x = 1 \/ x = 2 \/ x = 3 \/ x = 4 \/ x = 5
  BY DEF Places
<1>7. Count(B) = Count(A) + Len(s) - Len(A[x]) /\ Count(A) \in Nat
  <2>1. PICK a0 \in Nat, a1 \in Nat, a2 \in Nat, a3 \in Nat, a4 \in Nat, a5 \in Nat :
          /\ a0 = Len(A[0]) /\ a1 = Len(A[1]) /\ a2 = Len(A[2])
          /\ a3 = Len(A[3]) /\ a4 = Len(A[4]) /\ a5 = Len(A[5])
    BY <1>2, <1>5
  <2>2. PICK n \in Nat : n = Len(s)
    OBVIOUS
  <2>3. Count(A) = a0 + a1 + a2 + a3 + a4 + a5
    BY <2>1 DEF Count
  <2>4. CASE x = 0
    <3>1. /\ Len(B[0]) = n /\ Len(B[1]) = a1 /\ Len(B[2]) = a2
          /\ Len(B[3]) = a3 /\ Len(B[4]) = a4 /\ Len(B[5]) = a5
      BY <1>3, <1>4, <1>5, <2>1, <2>2, <2>4
    <3>2. Count(B) = n + a1 + a2 + a3 + a4 + a5 /\ Len(A[x]) = a0
      BY <2>1, <2>4, <3>1 DEF Count
    <3> QED BY <2>2, <2>3, <3>2
  <2>5. CASE x = 1
    <3>1. /\ Len(B[0]) = a0 /\ Len(B[1]) = n /\ Len(B[2]) = a2
          /\ Len(B[3]) = a3 /\ Len(B[4]) = a4 /\ Len(B[5]) = a5
      BY <1>3, <1>4, <1>5, <2>1, <2>2, <2>5
    <3>2. Count(B) = a0 + n + a2 + a3 + a4 + a5 /\ Len(A[x]) = a1
      BY <2>1, <2>5, <3>1 DEF Count
    <3> QED BY <2>2, <2>3, <3>2
  <2>6. CASE x = 2
    <3>1. /\ Len(B[0]) = a0 /\ Len(B[1]) = a1 /\ Len(B[2]) = n
          /\ Len(B[3]) = a3 /\ Len(B[4]) = a4 /\ Len(B[5]) = a5
      BY <1>3, <1>4, <1>5, <2>1, <2>2, <2>6
    <3>2. Count(B) = a0 + a1 + n + a3 + a4 + a5 /\ Len(A[x]) = a2
      BY <2>1, <2>6, <3>1 DEF Count
    <3> QED BY <2>2, <2>3, <3>2
  <2>7. CASE x = 3
    <3>1. /\ Len(B[0]) = a0 /\ Len(B[1]) = a1 /\ Len(B[2]) = a2
          /\ Len(B[3]) = n /\ Len(B[4]) = a4 /\ Len(B[5]) = a5
      BY <1>3, <1>4, <1>5, <2>1, <2>2, <2>7
    <3>2. Count(B) = a0 + a1 + a2 + n + a4 + a5 /\ Len(A[x]) = a3
      BY <2>1, <2>7, <3>1 DEF Count
    <3> QED BY <2>2, <2>3, <3>2
  <2>8. CASE x = 4
    <3>1. /\ Len(B[0]) = a0 /\ Len(B[1]) = a1 /\ Len(B[2]) = a2
          /\ Len(B[3]) = a3 /\ Len(B[4]) = n /\ Len(B[5]) = a5
      BY <1>3, <1>4, <1>5, <2>1, <2>2, <2>8
    <3>2. Count(B) = a0 + a1 + a2 + a3 + n + a5 /\ Len(A[x]) = a4
      BY <2>1, <2>8, <3>1 DEF Count
    <3> QED BY <2>2, <2>3, <3>2
  <2>9. CASE x = 5
    <3>1. /\ Len(B[0]) = a0 /\ Len(B[1]) = a1 /\ Len(B[2]) = a2
          /\ Len(B[3]) = a3 /\ Len(B[4]) = a4 /\ Len(B[5]) = n
      BY <1>3, <1>4, <1>5, <2>1, <2>2, <2>9
    <3>2. Count(B) = a0 + a1 + a2 + a3 + a4 + n /\ Len(A[x]) = a5
      BY <2>1, <2>9, <3>1 DEF Count
    <3> QED BY <2>2, <2>3, <3>2
  <2> QED BY <1>6, <2>4, <2>5, <2>6, <2>7, <2>8, <2>9
<1> QED BY <1>1, <1>7 DEF B

(* The front frame of a place is taken away.                               *)
LEMMA TakeFront ==
    ASSUME NEW A, NEW L, NEW N, NEW k \in Int, Conserved(A, L, N, k),
           NEW x \in Places, A[x] # <<>>
    PROVE  /\ Head(A[x]) \in Frame /\ Head(A[x]).num \in N
           /\ Conserved([A EXCEPT ![x] = Tail(A[x])], L, N \ {Head(A[x]).num}, k - 1)
<1> DEFINE q == A[x]
           h == Head(q)
           t == Tail(q)
           B == [A EXCEPT ![x] = t]
<1>1. q \in Seq(Frame) /\ q # <<>>
  BY DEF Conserved, Filled
<1>2. /\ h \in Frame /\ t \in Seq(Frame) /\ Len(t) = Len(q) - 1 /\ h = q[1]
      /\ Len(q) \in Nat \ {0}
      /\ \A i \in 1 .. Len(t) : t[i] = q[i + 1] /\ i + 1 \in 1 .. Len(q)
  BY <1>1, HeadTailProperties
<1>3. 1 \in 1 .. Len(q)
  BY <1>2
<1>i. \A i \in 1 .. Len(q) : i = 1 \/ (i - 1 \in 1 .. Len(t) /\ t[i - 1] = q[i])
  BY <1>2
<1>f. Filled(A)
  BY DEF Conserved
<1>k. Filled(B) /\ Count(A) \in Nat /\ Count(B) = Count(A) + Len(t) - Len(A[x])
  BY <1>2, <1>f, CountOne
<1>4. /\ Filled(B) /\ B[x] = t /\ \A y \in Places : y # x => B[y] = A[y]
      /\ Count(B) = Count(A) - 1 /\ Count(A) \in Nat
  <2>1. B[x] = t /\ \A y \in Places : y # x => B[y] = A[y]
    BY <1>f DEF Filled
  <2>2. Len(t) - Len(A[x]) = -1
    BY <1>2
  <2> QED BY <1>k, <2>1, <2>2
<1>5. h.num \in N
  BY <1>2, <1>3 DEF Conserved, Pos
<1>m. /\ \A i \in Pos(B, x) : i + 1 \in Pos(A, x) /\ B[x][i] = A[x][i + 1] /\ i \in Nat
      /\ \A i \in Pos(A, x) : i = 1 \/ (i - 1 \in Pos(B, x) /\ B[x][i - 1] = A[x][i])
      /\ 1 \in Pos(A, x) /\ A[x][1] = h
      /\ \A y \in Places : y # x => Pos(B, y) = Pos(A, y) /\ B[y] = A[y]
  <2>q. A[x] = q
    OBVIOUS
  <2> HIDE DEF q, h, t, B
  <2>1. \A i \in Pos(B, x) : i + 1 \in Pos(A, x) /\ B[x][i] = A[x][i + 1] /\ i \in Nat
    BY <1>2, <1>4, <2>q DEF Pos
  <2>2. \A i \in Pos(A, x) : i = 1 \/ (i - 1 \in Pos(B, x) /\ B[x][i - 1] = A[x][i])
    BY <1>i, <1>4, <2>q DEF Pos
  <2>3. 1 \in Pos(A, x) /\ A[x][1] = h
    BY <1>2, <1>3, <2>q DEF Pos
  <2>4. \A y \in Places : y # x => Pos(B, y) = Pos(A, y) /\ B[y] = A[y]
    BY <1>4 DEF Pos
  <2> QED BY <2>1, <2>2, <2>3, <2>4
<1> HIDE DEF q, h, t, B
<1>c. /\ \A y \in Places : \A i \in Pos(A, y) : A[y][i].num \in N
      /\ \A f \in L : f.num \in N
      /\ \A n \in N : \/ \E y \in Places : \E i \in Pos(A, y) : A[y][i].num = n
                      \/ \E f \in L : f.num = n
      /\ \A y, z \in Places : \A i \in Pos(A, y), j \in Pos(A, z) :
            A[y][i].num = A[z][j].num => y = z /\ i = j
      /\ \A y \in Places : \A i \in Pos(A, y) : \A f \in L : A[y][i].num # f.num
  BY DEF Conserved
(* Every position of B is one of A other than the front of x.              *)
<1>b. ASSUME NEW y \in Places, NEW i \in Pos(B, y)
      PROVE  \E j \in Pos(A, y) : /\ B[y][i] = A[y][j] /\ (y = x => j # 1)
                                  /\ j = IF y = x THEN i + 1 ELSE i
  <2>1. CASE y = x
    <3>1. i + 1 \in Pos(A, y) /\ B[y][i] = A[y][i + 1] /\ i + 1 # 1
      BY <2>1, <1>m DEF Pos
    <3> QED BY <2>1, <3>1
  <2>2. CASE y # x
    BY <2>2, <1>m
  <2> QED BY <2>1, <2>2
<1>6. ASSUME NEW y \in Places, NEW i \in Pos(B, y)
      PROVE  B[y][i].num \in N \ {h.num} /\ \A f \in L : B[y][i].num # f.num
  BY <1>b, <1>c, <1>m
<1>7. \A f \in L : f.num \in N \ {h.num}
  BY <1>c, <1>m
<1>8. ASSUME NEW n \in N \ {h.num}
      PROVE  \/ \E y \in Places : \E i \in Pos(B, y) : B[y][i].num = n
             \/ \E f \in L : f.num = n
  BY <1>c, <1>m
<1>9. ASSUME NEW y \in Places, NEW z \in Places, NEW i \in Pos(B, y), NEW j \in Pos(B, z),
             B[y][i].num = B[z][j].num
      PROVE  y = z /\ i = j
  <2>1. PICK u \in Pos(A, y) : B[y][i] = A[y][u] /\ u = IF y = x THEN i + 1 ELSE i
    BY <1>b
  <2>2. PICK v \in Pos(A, z) : B[z][j] = A[z][v] /\ v = IF z = x THEN j + 1 ELSE j
    BY <1>b
  <2>3. y = z /\ u = v
    BY <1>9, <1>c, <2>1, <2>2
  <2>4. i \in Int /\ j \in Int
    BY DEF Pos
  <2> QED BY <2>1, <2>2, <2>3, <2>4
<1>10. Count(B) + Cardinality(L) = k - 1
  <2>1. Cardinality(L) \in Nat /\ Count(A) + Cardinality(L) = k
    BY FS_CardinalityType DEF Conserved
  <2> QED BY <1>4, <2>1
<1>11. Conserved(B, L, N \ {h.num}, k - 1)
  BY <1>4, <1>6, <1>7, <1>8, <1>9, <1>10 DEF Conserved
<1> QED BY <1>2, <1>5, <1>11 DEF B, h, t, q

(* A frame with a new number is put at the front (d = 1) or at the back (d *)
(* = 0).                                                                   *)
LEMMA PutFrame ==
    ASSUME NEW A, NEW L, NEW N, NEW k \in Int, Conserved(A, L, N, k), NEW x \in Places,
           NEW f \in Frame, f.num \notin N,
           NEW s \in Seq(Frame), Len(s) = Len(A[x]) + 1, NEW d \in {0, 1},
           \A i \in 1 .. Len(A[x]) : s[i + d] = A[x][i],
           s[IF d = 1 THEN 1 ELSE Len(s)] = f
    PROVE  Conserved([A EXCEPT ![x] = s], L, N \cup {f.num}, k + 1)
<1> DEFINE B == [A EXCEPT ![x] = s]
           p == IF d = 1 THEN 1 ELSE Len(s)
<1>f. Filled(A) /\ A[x] \in Seq(Frame) /\ Len(A[x]) \in Nat
  BY DEF Conserved, Filled
<1>k. Filled(B) /\ Count(A) \in Nat /\ Count(B) = Count(A) + Len(s) - Len(A[x])
  BY <1>f, CountOne
<1>e. B[x] = s /\ \A y \in Places : y # x => B[y] = A[y]
  BY <1>f DEF Filled
<1> HIDE DEF B, p
<1>m. /\ \A i \in Pos(A, x) : /\ i + d \in Pos(B, x) /\ i + d # p
                              /\ B[x][i + d] = A[x][i]
      /\ \A i \in Pos(B, x) : i = p \/ (i - d \in Pos(A, x) /\ B[x][i] = A[x][i - d])
      /\ p \in Pos(B, x) /\ B[x][p] = f
      /\ \A y \in Places : y # x => Pos(B, y) = Pos(A, y) /\ B[y] = A[y]
  <2>1. \A i \in Pos(A, x) : i + d \in Pos(B, x) /\ i + d # p /\ B[x][i + d] = A[x][i]
    BY <1>f, <1>e DEF Pos, p
  <2>2. ASSUME NEW i \in Pos(B, x), i # p
        PROVE  i - d \in Pos(A, x) /\ B[x][i] = A[x][i - d]
    <3>1. i - d \in Pos(A, x) /\ (i - d) + d = i
      BY <1>f, <1>e, <2>2 DEF Pos, p
    <3> QED BY <1>e, <3>1 DEF Pos
  <2>3. p \in Pos(B, x) /\ B[x][p] = f
    BY <1>f, <1>e DEF Pos, p
  <2>4. \A y \in Places : y # x => Pos(B, y) = Pos(A, y) /\ B[y] = A[y]
    BY <1>e DEF Pos
  <2> QED BY <2>1, <2>2, <2>3, <2>4
<1>c. /\ \A y \in Places : \A i \in Pos(A, y) : A[y][i].num \in N
      /\ \A g \in L : g.num \in N
      /\ \A n \in N : \/ \E y \in Places : \E i \in Pos(A, y) : A[y][i].num = n
                      \/ \E g \in L : g.num = n
      /\ \A y, z \in Places : \A i \in Pos(A, y), j \in Pos(A, z) :
            A[y][i].num = A[z][j].num => y = z /\ i = j
      /\ \A y \in Places : \A i \in Pos(A, y) : \A g \in L : A[y][i].num # g.num
  BY DEF Conserved
(* Every position of B is that of f or one of A.                           *)
<1>b. ASSUME NEW y \in Places, NEW i \in Pos(B, y)
      PROVE  \/ y = x /\ i = p /\ B[y][i] = f
             \/ \E j \in Pos(A, y) : B[y][i] = A[y][j] /\ j = IF y = x THEN i - d ELSE i
  <2>1. CASE y = x
    BY <2>1, <1>m
  <2>2. CASE y # x
    BY <2>2, <1>m
  <2> QED BY <2>1, <2>2
<1>6. ASSUME NEW y \in Places, NEW i \in Pos(B, y)
      PROVE  B[y][i].num \in N \cup {f.num} /\ \A g \in L : B[y][i].num # g.num
  BY <1>b, <1>c
<1>8. ASSUME NEW n \in N \cup {f.num}
      PROVE  \/ \E y \in Places : \E i \in Pos(B, y) : B[y][i].num = n
             \/ \E g \in L : g.num = n
  <2>1. CASE n = f.num
    BY <2>1, <1>m
  <2>2. ASSUME NEW y \in Places, NEW i \in Pos(A, y), A[y][i].num = n
        PROVE  \E z \in Places : \E j \in Pos(B, z) : B[z][j].num = n
    <3>1. CASE y = x
      <4>1. i + d \in Pos(B, x) /\ B[x][i + d].num = n
        BY <1>m, <2>2, <3>1
      <4> QED BY <4>1
    <3>2. CASE y # x
      BY <1>m, <2>2, <3>2
    <3> QED BY <3>1, <3>2
  <2> QED BY <1>8, <1>c, <2>1, <2>2
<1>9. ASSUME NEW y \in Places, NEW z \in Places, NEW i \in Pos(B, y), NEW j \in Pos(B, z),
             B[y][i].num = B[z][j].num
      PROVE  y = z /\ i = j
  <2>0. i \in Int /\ j \in Int
    BY DEF Pos
  <2>1. CASE y = x /\ i = p /\ B[y][i] = f
    BY <1>9, <1>b, <1>c, <2>1
  <2>2. CASE z = x /\ j = p /\ B[z][j] = f
    BY <1>9, <1>b, <1>c, <2>2
  <2>3. ASSUME NEW u \in Pos(A, y), B[y][i] = A[y][u], u = IF y = x THEN i - d ELSE i,
               NEW v \in Pos(A, z), B[z][j] = A[z][v], v = IF z = x THEN j - d ELSE j
        PROVE  y = z /\ i = j
    <3>0. A[y][u].num = A[z][v].num
      BY <1>9, <2>3
    <3>c. \A a, c \in Places : \A l \in Pos(A, a), m \in Pos(A, c) :
             A[a][l].num = A[c][m].num => a = c /\ l = m
      BY <1>c
    <3>1. y = z /\ u = v
      BY <3>0, <3>c
    <3> QED BY <2>0, <2>3, <3>1
  <2> QED BY <1>b, <2>1, <2>2, <2>3
<1>10. Count(B) + Cardinality(L) = k + 1
  <2>1. Cardinality(L) \in Nat /\ Count(A) + Cardinality(L) = k
    BY FS_CardinalityType DEF Conserved
  <2> QED BY <1>f, <1>k, <2>1
<1>7. \A g \in L : g.num \in N \cup {f.num}
  BY <1>c
<1>11. Conserved(B, L, N \cup {f.num}, k + 1)
  <2>1. Filled(B) /\ IsFiniteSet(L) /\ L \subseteq Frame
    BY <1>f, <1>k DEF Conserved
  <2>2. \A y \in Places : \A i \in Pos(B, y) : B[y][i].num \in N \cup {f.num}
    BY <1>6
  <2>3. \A y \in Places : \A i \in Pos(B, y) : \A g \in L : B[y][i].num # g.num
    BY <1>6
  <2>4. \A n \in N \cup {f.num} : \/ \E y \in Places : \E i \in Pos(B, y) : B[y][i].num = n
                                  \/ \E g \in L : g.num = n
    BY <1>8
  <2>5. \A y, z \in Places : \A i \in Pos(B, y), j \in Pos(B, z) :
           B[y][i].num = B[z][j].num => y = z /\ i = j
    BY <1>9
  <2> QED BY <1>7, <1>10, <2>1, <2>2, <2>3, <2>4, <2>5 DEF Conserved
<1> QED BY <1>11 DEF B

(* Likewise with Append.                                                   *)
LEMMA AppendConserves ==
    ASSUME NEW A, NEW L, NEW N, NEW k \in Int, Conserved(A, L, N, k), NEW x \in Places,
           NEW f \in Frame, f.num \notin N
    PROVE  Conserved([A EXCEPT ![x] = Append(A[x], f)], L, N \cup {f.num}, k + 1)
<1> DEFINE r == A[x]
           s == Append(r, f)
<1>1. r \in Seq(Frame)
  BY DEF Conserved, Filled
<1>2. /\ s \in Seq(Frame) /\ Len(s) = Len(r) + 1 /\ s[Len(r) + 1] = f /\ Len(r) \in Nat
      /\ \A i \in 1 .. Len(r) : s[i] = r[i]
  BY <1>1, AppendProperties
<1> HIDE DEF s
<1>3. /\ 0 \in {0, 1} /\ s[IF 0 = 1 THEN 1 ELSE Len(s)] = f /\ Len(s) = Len(A[x]) + 1
      /\ \A i \in 1 .. Len(A[x]) : s[i + 0] = A[x][i]
  BY <1>2
<1>4. Conserved([A EXCEPT ![x] = s], L, N \cup {f.num}, k + 1)
  BY <1>2, <1>3, PutFrame
<1> QED BY <1>4 DEF s

(* A frame is discarded.                                                   *)
LEMMA LoseFrame ==
    ASSUME NEW A, NEW L, NEW N, NEW k \in Int, Conserved(A, L, N, k),
           NEW f \in Frame, f.num \notin N
    PROVE  Conserved(A, L \cup {f}, N \cup {f.num}, k + 1)
<1>c. /\ \A y \in Places : \A i \in Pos(A, y) : A[y][i].num \in N
      /\ \A g \in L : g.num \in N
      /\ \A n \in N : \/ \E y \in Places : \E i \in Pos(A, y) : A[y][i].num = n
                      \/ \E g \in L : g.num = n
      /\ \A y \in Places : \A i \in Pos(A, y) : \A g \in L : A[y][i].num # g.num
  BY DEF Conserved
<1>1. f \notin L
  BY <1>c
<1>2. IsFiniteSet(L \cup {f}) /\ Cardinality(L \cup {f}) = Cardinality(L) + 1
  BY <1>1, FS_AddElement DEF Conserved
<1>3. /\ Filled(A) /\ Cardinality(L) \in Nat /\ Count(A) + Cardinality(L) = k /\ L \subseteq Frame
      /\ \A y, z \in Places : \A i \in Pos(A, y), j \in Pos(A, z) :
            A[y][i].num = A[z][j].num => y = z /\ i = j
  BY FS_CardinalityType DEF Conserved
<1>4. Count(A) \in Nat
  <2>1. 0 \in Places /\ A[0] \in Seq(Frame)
    BY <1>3 DEF Places, Filled
  <2> QED BY <1>3, <2>1, CountOne
<1>5. Count(A) + Cardinality(L \cup {f}) = k + 1
  BY <1>2, <1>3, <1>4
<1>6. /\ \A y \in Places : \A i \in Pos(A, y) : A[y][i].num \in N \cup {f.num}
      /\ \A g \in L \cup {f} : g.num \in N \cup {f.num}
      /\ \A y \in Places : \A i \in Pos(A, y) : \A g \in L \cup {f} : A[y][i].num # g.num
  BY <1>c
<1>7. \A n \in N \cup {f.num} : \/ \E y \in Places : \E i \in Pos(A, y) : A[y][i].num = n
                                \/ \E g \in L \cup {f} : g.num = n
  BY <1>c
<1> QED BY <1>2, <1>3, <1>5, <1>6, <1>7 DEF Conserved

(* A full queue makes room: its front frame moves to the discarded ones.   *)
LEMMA RoomConserves ==
    ASSUME NEW A, NEW L, NEW N, NEW k \in Int, Conserved(A, L, N, k),
           NEW x \in Places, NEW cap \in Nat \ {0}
    PROVE  Conserved([A EXCEPT ![x] = MakeRoom(A[x], cap)], L \cup Discarded(A[x], cap), N, k)
<1>f. A \in [Places -> Seq(Frame)] /\ A[x] \in Seq(Frame)
  BY DEF Conserved, Filled
<1>1. CASE Len(A[x]) = cap
  <2> DEFINE h == Head(A[x])
             B == [A EXCEPT ![x] = Tail(A[x])]
  <2>1. A[x] # <<>>
    BY <1>1
  <2>2. h \in Frame /\ h.num \in N /\ Conserved(B, L, N \ {h.num}, k - 1)
    BY <2>1, TakeFront
  <2> HIDE DEF h, B
  <2>3. k - 1 \in Int /\ h.num \notin N \ {h.num}
    OBVIOUS
  <2>4. Conserved(B, L \cup {h}, (N \ {h.num}) \cup {h.num}, (k - 1) + 1)
    BY <2>2, <2>3, LoseFrame
  <2>5. (N \ {h.num}) \cup {h.num} = N /\ (k - 1) + 1 = k
    BY <2>2
  <2>6. Conserved(B, L \cup {h}, N, k)
    BY <2>4, <2>5
  <2> QED BY <1>1, <2>6 DEF B, h, MakeRoom, Discarded
<1>2. CASE Len(A[x]) # cap
  <2>1. [A EXCEPT ![x] = A[x]] = A /\ L \cup {} = L
    BY <1>f
  <2> QED BY <1>2, <2>1 DEF MakeRoom, Discarded
<1> QED BY <1>1, <1>2

(* Insertion into a bounded queue, at either end, conserves the frames.    *)
LEMMA PushConserves ==
    ASSUME NEW A, NEW L, NEW N, NEW k \in Int, Conserved(A, L, N, k), NEW x \in Places,
           NEW cap \in Nat \ {0}, NEW f \in Frame, f.num \notin N
    PROVE  /\ Conserved([A EXCEPT ![x] = PushBack(A[x], f, cap)],
                        L \cup Discarded(A[x], cap), N \cup {f.num}, k + 1)
           /\ Conserved([A EXCEPT ![x] = PushFront(A[x], f, cap)],
                        L \cup Discarded(A[x], cap), N \cup {f.num}, k + 1)
<1> DEFINE r == MakeRoom(A[x], cap)
           B == [A EXCEPT ![x] = r]
           M == L \cup Discarded(A[x], cap)
           s == Append(r, f)
           t == <<f>> \o r
<1>1. Conserved(B, M, N, k)
  BY RoomConserves
<1>2. A \in [Places -> Seq(Frame)] /\ B \in [Places -> Seq(Frame)]
  BY <1>1 DEF Conserved, Filled
<1>3. B[x] = r /\ r \in Seq(Frame) /\ [B EXCEPT ![x] = s] = [A EXCEPT ![x] = s]
      /\ [B EXCEPT ![x] = t] = [A EXCEPT ![x] = t]
  BY <1>2
<1>p. PushBack(A[x], f, cap) = s /\ PushFront(A[x], f, cap) = t
  BY DEF PushBack, PushFront
<1>5. /\ t \in Seq(Frame) /\ Len(t) = Len(r) + 1 /\ t[1] = f
      /\ \A i \in 1 .. Len(r) : t[i + 1] = r[i]
  <2> HIDE DEF r
  <2>1. <<f>> \in Seq(Frame) /\ Len(<<f>>) = 1 /\ <<f>>[1] = f /\ Len(r) \in Nat
    BY <1>3
  <2>2. /\ t \in Seq(Frame) /\ Len(t) = 1 + Len(r)
        /\ \A i \in 1 .. 1 + Len(r) : t[i] = IF i <= 1 THEN <<f>>[i] ELSE r[i - 1]
    BY <1>3, <2>1, ConcatProperties
  <2> HIDE DEF t
  <2>3. t[1] = f /\ Len(t) = Len(r) + 1
    BY <2>1, <2>2
  <2>4. ASSUME NEW i \in 1 .. Len(r) PROVE t[i + 1] = r[i]
    <3>1. i + 1 \in 1 .. 1 + Len(r) /\ ~(i + 1 <= 1) /\ (i + 1) - 1 = i
      BY <2>1
    <3> QED BY <2>2, <3>1
  <2> QED BY <2>2, <2>3, <2>4
<1> HIDE DEF r, B, M, s, t
<1>6. Conserved([B EXCEPT ![x] = s], M, N \cup {f.num}, k + 1)
  <2>1. Conserved([B EXCEPT ![x] = Append(B[x], f)], M, N \cup {f.num}, k + 1)
    BY <1>1, AppendConserves
  <2> QED BY <1>3, <2>1 DEF s
<1>7. Conserved([B EXCEPT ![x] = t], M, N \cup {f.num}, k + 1)
  <2>1. 1 \in {0, 1} /\ t[IF 1 = 1 THEN 1 ELSE Len(t)] = f /\ Len(t) = Len(B[x]) + 1
        /\ \A i \in 1 .. Len(B[x]) : t[i + 1] = B[x][i]
    BY <1>3, <1>5
  <2> QED BY <1>1, <1>5, <2>1, PutFrame
<1> QED BY <1>3, <1>6, <1>7, <1>p DEF M

(* What a concatenation holds.                                             *)
LEMMA ConcatHolds ==
    ASSUME NEW S, NEW a \in Seq(S), NEW b \in Seq(S)
    PROVE  /\ a \o b \in Seq(S) /\ Len(a \o b) = Len(a) + Len(b)
           /\ Len(a) \in Nat /\ Len(b) \in Nat
           /\ \A i \in 1 .. Len(a) : (a \o b)[i] = a[i]
           /\ \A i \in 1 .. Len(b) : (a \o b)[i + Len(a)] = b[i]
           /\ Elements(a \o b) = Elements(a) \cup Elements(b)
<1> DEFINE c == a \o b
           m == Len(a)
           n == Len(b)
<1>1. /\ c \in Seq(S) /\ Len(c) = m + n /\ m \in Nat /\ n \in Nat
      /\ \A i \in 1 .. m + n : c[i] = IF i <= m THEN a[i] ELSE b[i - m]
  BY ConcatProperties
<1> HIDE DEF c
<1>m. m = Len(a) /\ n = Len(b)
  OBVIOUS
<1> HIDE DEF m, n
<1>2. \A i \in 1 .. m : i \in 1 .. m + n /\ c[i] = a[i]
  BY <1>1
<1>3. ASSUME NEW i \in 1 .. n PROVE i + m \in 1 .. m + n /\ c[i + m] = b[i]
  <2>1. i + m \in 1 .. m + n /\ ~(i + m <= m) /\ (i + m) - m = i
    BY <1>1
  <2> QED BY <1>1, <2>1
<1>4. Elements(c) \subseteq Elements(a) \cup Elements(b)
  <2> SUFFICES ASSUME NEW i \in 1 .. Len(c) PROVE c[i] \in Elements(a) \cup Elements(b)
    BY DEF Elements
  <2>1. i \in 1 .. m \/ i - m \in 1 .. n
    BY <1>1
  <2>2. i \in 1 .. m + n /\ c[i] = IF i <= m THEN a[i] ELSE b[i - m]
    BY <1>1
  <2>3. i \in 1 .. m => c[i] = a[i]
    BY <1>2
  <2>4. i - m \in 1 .. n => c[i] = b[i - m]
    BY <1>1, <2>2
  <2> QED BY <1>m, <2>1, <2>3, <2>4 DEF Elements
<1>5. Elements(a) \subseteq Elements(c)
  BY <1>1, <1>2, <1>m DEF Elements
<1>6. Elements(b) \subseteq Elements(c)
  BY <1>1, <1>3, <1>m DEF Elements
<1>7. Elements(c) = Elements(a) \cup Elements(b)
  BY <1>4, <1>5, <1>6
<1> QED BY <1>1, <1>2, <1>3, <1>7, <1>m DEF c

(* The part of it that adds up.                                            *)
LEMMA ConcatSum ==
    ASSUME NEW S, NEW a \in Seq(S), NEW b \in Seq(S)
    PROVE  /\ a \o b \in Seq(S) /\ Len(a \o b) = Len(a) + Len(b)
           /\ Elements(a \o b) = Elements(a) \cup Elements(b)
BY ConcatHolds

(* Likewise for all places together.                                       *)
AddsUp(a, b, c, d, e, f) ==
    LET g == a \o b \o c \o d \o e \o f
    IN  /\ Len(g) = Len(a) + Len(b) + Len(c) + Len(d) + Len(e) + Len(f)
        /\ Elements(g) = Elements(a) \cup Elements(b) \cup Elements(c)
                         \cup Elements(d) \cup Elements(e) \cup Elements(f)

(* The lengths and the elements of all places add up.                      *)
LEMMA ConcatAll ==
    ASSUME NEW S, NEW a \in Seq(S), NEW b \in Seq(S), NEW c \in Seq(S),
           NEW d \in Seq(S), NEW e \in Seq(S), NEW f \in Seq(S)
    PROVE  AddsUp(a, b, c, d, e, f)
<1> DEFINE s == a \o b
           t == s \o c
           u == t \o d
           v == u \o e
           w == v \o f
<1>1. s \in Seq(S) /\ Len(s) = Len(a) + Len(b) /\ Elements(s) = Elements(a) \cup Elements(b)
  BY ConcatSum
<1>1t. s \in Seq(S)
  BY <1>1
<1> HIDE DEF s
<1>2. t \in Seq(S) /\ Len(t) = Len(s) + Len(c) /\ Elements(t) = Elements(s) \cup Elements(c)
  BY <1>1t, ConcatSum
<1>2t. t \in Seq(S)
  BY <1>2
<1> HIDE DEF t
<1>3. u \in Seq(S) /\ Len(u) = Len(t) + Len(d) /\ Elements(u) = Elements(t) \cup Elements(d)
  BY <1>2t, ConcatSum
<1>3t. u \in Seq(S)
  BY <1>3
<1> HIDE DEF u
<1>4. v \in Seq(S) /\ Len(v) = Len(u) + Len(e) /\ Elements(v) = Elements(u) \cup Elements(e)
  BY <1>3t, ConcatSum
<1>4t. v \in Seq(S)
  BY <1>4
<1> HIDE DEF v
<1>5. w \in Seq(S) /\ Len(w) = Len(v) + Len(f) /\ Elements(w) = Elements(v) \cup Elements(f)
  BY <1>4t, ConcatSum
<1>5t. w \in Seq(S)
  BY <1>5
<1> HIDE DEF w
<1>6. Len(w) = Len(a) + Len(b) + Len(c) + Len(d) + Len(e) + Len(f)
  BY <1>1, <1>2, <1>3, <1>4, <1>5
<1>7. Elements(w) = Elements(a) \cup Elements(b) \cup Elements(c)
                    \cup Elements(d) \cup Elements(e) \cup Elements(f)
  BY <1>1, <1>2, <1>3, <1>4, <1>5
<1> QED BY <1>6, <1>7 DEF s, t, u, v, w, AddsUp

(* CSIo_send moves the whole pack behind what was sent.                    *)
LEMMA SendConserves ==
    ASSUME NEW A, NEW L, NEW N, NEW k \in Int, Conserved(A, L, N, k)
    PROVE  Conserved([A EXCEPT ![5] = A[5] \o A[4], ![4] = <<>>], L, N, k)
<1> DEFINE s == A[5]
           p == A[4]
           c == s \o p
           B == [[A EXCEPT ![5] = c] EXCEPT ![4] = <<>>]
           m == Len(s)
<1>0. 4 \in Places /\ 5 \in Places
  BY DEF Places
<1>f. Filled(A) /\ s \in Seq(Frame) /\ p \in Seq(Frame)
  BY <1>0 DEF Conserved, Filled
<1>1. /\ c \in Seq(Frame) /\ Len(c) = m + Len(p) /\ m \in Nat /\ Len(p) \in Nat
      /\ \A i \in 1 .. m : c[i] = s[i]
      /\ \A i \in 1 .. Len(p) : c[i + m] = p[i]
  <2> HIDE DEF s, p
  <2> QED BY <1>f, ConcatHolds
<1>e. /\ B = [A EXCEPT ![5] = c, ![4] = <<>>]
      /\ B[5] = c /\ B[4] = <<>> /\ \A y \in Places : y # 4 /\ y # 5 => B[y] = A[y]
  BY <1>0, <1>f DEF Filled
<1>k. Filled(B) /\ Count(A) \in Nat /\ Count(B) = Count(A)
  <2> DEFINE D == [A EXCEPT ![5] = c]
  <2>1. Filled(D) /\ Count(A) \in Nat /\ Count(D) = Count(A) + Len(c) - Len(A[5])
    BY <1>0, <1>1, <1>f, CountOne
  <2>2. D[4] = p
    BY <1>0, <1>f DEF Filled
  <2>3. <<>> \in Seq(Frame) /\ Len(<<>>) = 0
    OBVIOUS
  <2> HIDE DEF D
  <2>4. Filled([D EXCEPT ![4] = <<>>]) /\ Count(D) \in Nat
        /\ Count([D EXCEPT ![4] = <<>>]) = Count(D) + Len(<<>>) - Len(D[4])
    BY <1>0, <2>1, <2>3, CountOne
  <2>5. B = [D EXCEPT ![4] = <<>>]
    BY DEF D
  <2>6. Count(B) = Count(A)
    BY <1>1, <2>1, <2>2, <2>3, <2>4, <2>5
  <2> QED BY <2>1, <2>4, <2>5, <2>6
<1>s. A[5] = s /\ A[4] = p /\ m = Len(s)
  OBVIOUS
<1> HIDE DEF s, p, c, B, m
<1>m. /\ Pos(B, 4) = {}
      /\ \A i \in Pos(A, 5) : i \in Pos(B, 5) /\ B[5][i] = A[5][i]
      /\ \A i \in Pos(A, 4) : i + m \in Pos(B, 5) /\ B[5][i + m] = A[4][i]
      /\ \A i \in Pos(B, 5) : \/ i \in Pos(A, 5) /\ B[5][i] = A[5][i]
                              \/ i - m \in Pos(A, 4) /\ B[5][i] = A[4][i - m]
      /\ \A y \in Places : y # 4 /\ y # 5 => Pos(B, y) = Pos(A, y) /\ B[y] = A[y]
  <2>1. Pos(B, 4) = {}
    BY <1>e DEF Pos
  <2>2. \A i \in Pos(A, 5) : i \in Pos(B, 5) /\ B[5][i] = A[5][i]
    BY <1>1, <1>e, <1>s DEF Pos
  <2>3. \A i \in Pos(A, 4) : i + m \in Pos(B, 5) /\ B[5][i + m] = A[4][i]
    BY <1>1, <1>e, <1>s DEF Pos
  <2>4. ASSUME NEW i \in Pos(B, 5), i \notin Pos(A, 5)
        PROVE  i - m \in Pos(A, 4) /\ B[5][i] = A[4][i - m]
    <3>1. i - m \in 1 .. Len(p) /\ (i - m) + m = i
      BY <1>1, <1>e, <1>s, <2>4 DEF Pos
    <3> QED BY <1>1, <1>e, <1>s, <3>1 DEF Pos
  <2>5. \A y \in Places : y # 4 /\ y # 5 => Pos(B, y) = Pos(A, y) /\ B[y] = A[y]
    BY <1>e DEF Pos
  <2> QED BY <2>1, <2>2, <2>3, <2>4, <2>5
<1>c. /\ \A y \in Places : \A i \in Pos(A, y) : A[y][i].num \in N
      /\ \A g \in L : g.num \in N
      /\ \A n \in N : \/ \E y \in Places : \E i \in Pos(A, y) : A[y][i].num = n
                      \/ \E g \in L : g.num = n
      /\ \A y, z \in Places : \A i \in Pos(A, y), j \in Pos(A, z) :
            A[y][i].num = A[z][j].num => y = z /\ i = j
      /\ \A y \in Places : \A i \in Pos(A, y) : \A g \in L : A[y][i].num # g.num
  BY DEF Conserved
(* Where a frame of B was in A.                                            *)
<1>b. ASSUME NEW y \in Places, NEW i \in Pos(B, y)
      PROVE  \E z \in Places : \E j \in Pos(A, z) :
               /\ B[y][i] = A[z][j] /\ y = (IF z = 4 THEN 5 ELSE z)
               /\ i = IF z = 4 THEN j + m ELSE j
  <2>1. CASE y = 5 /\ i \in Pos(A, 5)
    BY <1>0, <1>m, <2>1
  <2>2. CASE y = 5 /\ i \notin Pos(A, 5)
    <3>1. i - m \in Pos(A, 4) /\ B[5][i] = A[4][i - m]
      BY <1>m, <2>2
    <3>2. i = (i - m) + m
      BY <1>1 DEF Pos
    <3> QED BY <1>0, <2>2, <3>1, <3>2
  <2>3. CASE y # 5
    BY <1>m, <2>3
  <2> QED BY <2>1, <2>2, <2>3
<1>6. ASSUME NEW y \in Places, NEW i \in Pos(B, y)
      PROVE  B[y][i].num \in N /\ \A g \in L : B[y][i].num # g.num
  BY <1>b, <1>c
<1>8. ASSUME NEW n \in N
      PROVE  \/ \E y \in Places : \E i \in Pos(B, y) : B[y][i].num = n
             \/ \E g \in L : g.num = n
  <2>1. ASSUME NEW y \in Places, NEW i \in Pos(A, y), A[y][i].num = n
        PROVE  \E z \in Places : \E j \in Pos(B, z) : B[z][j].num = n
    <3>1. CASE y = 4
      <4>1. i + m \in Pos(B, 5) /\ B[5][i + m].num = n
        BY <1>m, <2>1, <3>1
      <4> QED BY <1>0, <4>1
    <3>2. CASE y = 5
      BY <1>0, <1>m, <2>1, <3>2
    <3>3. CASE y # 4 /\ y # 5
      BY <1>m, <2>1, <3>3
    <3> QED BY <3>1, <3>2, <3>3
  <2> QED BY <1>c, <2>1
<1>9. ASSUME NEW y \in Places, NEW z \in Places, NEW i \in Pos(B, y), NEW j \in Pos(B, z),
             B[y][i].num = B[z][j].num
      PROVE  y = z /\ i = j
  <2>1. PICK u \in Places : \E w \in Pos(A, u) :
               /\ B[y][i] = A[u][w] /\ y = (IF u = 4 THEN 5 ELSE u)
               /\ i = IF u = 4 THEN w + m ELSE w
    BY <1>b
  <2>2. PICK v \in Places : \E w \in Pos(A, v) :
               /\ B[z][j] = A[v][w] /\ z = (IF v = 4 THEN 5 ELSE v)
               /\ j = IF v = 4 THEN w + m ELSE w
    BY <1>b
  <2>3. PICK w1 \in Pos(A, u) :
               /\ B[y][i] = A[u][w1] /\ y = (IF u = 4 THEN 5 ELSE u)
               /\ i = IF u = 4 THEN w1 + m ELSE w1
    BY <2>1
  <2>4. PICK w2 \in Pos(A, v) :
               /\ B[z][j] = A[v][w2] /\ z = (IF v = 4 THEN 5 ELSE v)
               /\ j = IF v = 4 THEN w2 + m ELSE w2
    BY <2>2
  <2>5. A[u][w1].num = A[v][w2].num
    BY <1>9, <2>3, <2>4
  <2>6. u = v /\ w1 = w2
    BY <1>c, <2>5
  <2> QED BY <2>3, <2>4, <2>6
<1>10. Count(B) + Cardinality(L) = k
  BY <1>k DEF Conserved
<1>11. Conserved(B, L, N, k)
  BY <1>c, <1>k, <1>6, <1>8, <1>9, <1>10 DEF Conserved
<1> QED BY <1>e, <1>11 DEF s, p, c

-----------------------------------------------------------------------------
(* The inductive invariant: every frame accepted is at one place, once.    *)
Conservation == Conserved(At, lost, 1 .. made, made)

(* The places of the state.                                                *)
LEMMA AtPlaces ==
    ASSUME TypeOK
    PROVE  /\ Filled(At) /\ At[3] = skip /\ At[4] = pack /\ At[5] = sent
           /\ \A p \in Priorities : p \in Places /\ At[p] = queue[p]
           /\ 3 \in Places /\ 4 \in Places /\ 5 \in Places /\ made \in Nat
           /\ \A x \in Places : x \in Priorities \/ x = 3 \/ x = 4 \/ x = 5
<1>1. /\ \A x \in Places : x \in Priorities \/ x = 3 \/ x = 4 \/ x = 5
      /\ \A p \in Priorities : p \in Places /\ p # 3 /\ p # 4 /\ p # 5
      /\ 3 \in Places /\ 4 \in Places /\ 5 \in Places
  BY DEF Places, Priorities
<1>2. /\ skip \in Seq(Frame) /\ pack \in Seq(Frame) /\ sent \in Seq(Frame) /\ made \in Nat
      /\ \A p \in Priorities : queue[p] \in Seq(Frame)
  BY TxAssumption DEF TypeOK
<1>3. \A x \in Places : At[x] = IF x = 3 THEN skip ELSE IF x = 4 THEN pack
                                ELSE IF x = 5 THEN sent ELSE queue[x]
  BY DEF At
<1>4. \A x \in Places : At[x] \in Seq(Frame)
  BY <1>1, <1>2, <1>3
<1>5. Filled(At)
  BY <1>4 DEF At, Filled
<1>6. At[3] = skip /\ At[4] = pack /\ At[5] = sent
  BY <1>1, <1>3
<1>7. \A p \in Priorities : At[p] = queue[p]
  BY <1>1, <1>3
<1> QED BY <1>1, <1>2, <1>5, <1>6, <1>7

(* One place is replaced.                                                  *)
LEMMA PutPlace ==
    ASSUME NEW B, NEW S, B \in [Places -> S], NEW x \in Places, NEW s
    PROVE  LET C == [B EXCEPT ![x] = s]
           IN  C \in [Places -> S \cup {s}] /\ C[x] = s /\ \A y \in Places : y # x => C[y] = B[y]
OBVIOUS

(* The places of the next state.                                           *)
LEMMA AtNext ==
    ASSUME NEW B, NEW S, B \in [Places -> S], B[3] = skip', B[4] = pack', B[5] = sent',
           \A p \in Priorities : B[p] = queue'[p]
    PROVE  At' = B
<1>1. At' = [x \in Places |-> IF x = 3 THEN skip' ELSE IF x = 4 THEN pack'
                               ELSE IF x = 5 THEN sent' ELSE queue'[x]]
  BY DEF At
<1>2. \A x \in Places : x \in Priorities \/ x = 3 \/ x = 4 \/ x = 5
  BY DEF Places, Priorities
<1>3. \A x \in Places : At'[x] = B[x]
  BY <1>1, <1>2 DEF Priorities
<1>4. At' = [x \in Places |-> At'[x]]
  BY <1>1
<1> QED BY <1>3, <1>4

(* A producer's insertion, as a change of the places.                      *)
LEMMA SendFrameAt ==
    ASSUME TxInv, NEW t \in Producers, NEW id \in Ids, NEW p \in Used, sendFrame(t, id, p),
           NEW f, f = [id |-> id, prio |-> p, num |-> made + 1]
    PROVE  /\ p \in Priorities /\ p \in Places /\ f \in Frame /\ made \in Nat /\ made' = made + 1
           /\ At' = [At EXCEPT ![p] = PushBack(At[p], f, QueueMax)]
           /\ lost' = lost \cup Discarded(At[p], QueueMax)
           /\ skip' = skip /\ UNCHANGED <<priority, turned>>
<1>0. TypeOK /\ p \in Priorities
  BY TxAssumption DEF TxInv, RoundInv
<1>1. f \in Frame
  BY <1>0, TxAssumption DEF Frame, sendFrame, TypeOK
<1>2. /\ p \in Places /\ made \in Nat /\ 3 # p /\ 4 # p /\ 5 # p
      /\ At[3] = skip /\ At[4] = pack /\ At[5] = sent /\ At \in [Places -> Seq(Frame)]
      /\ \A r \in Priorities : r \in Places /\ At[r] = queue[r]
      /\ 3 \in Places /\ 4 \in Places /\ 5 \in Places
  BY <1>0, AtPlaces DEF Priorities, Filled
<1>s. /\ queue' = [queue EXCEPT ![p] = PushBack(queue[p], f, QueueMax)]
      /\ lost' = lost \cup Discarded(queue[p], QueueMax) /\ made' = made + 1
      /\ UNCHANGED <<skip, pack, sent, priority, turned>>
  BY DEF sendFrame
<1> DEFINE s == PushBack(At[p], f, QueueMax)
           C == [At EXCEPT ![p] = s]
<1>3. C \in [Places -> Seq(Frame) \cup {s}] /\ C[p] = s /\ \A y \in Places : y # p => C[y] = At[y]
  BY <1>2, PutPlace
<1>q. \A r \in Priorities : queue'[r] = IF r = p THEN s ELSE queue[r]
  BY <1>0, <1>2, <1>s DEF TypeOK
<1> HIDE DEF C, s
<1>4. /\ C[3] = skip' /\ C[4] = pack' /\ C[5] = sent'
      /\ \A r \in Priorities : C[r] = queue'[r]
  BY <1>2, <1>3, <1>s, <1>q
<1>5. At' = C
  BY <1>3, <1>4, AtNext
<1> QED BY <1>0, <1>1, <1>2, <1>5, <1>s DEF C, s

(* The send thread takes the front frame of its queue and packs it or puts *)
(* it aside.                                                               *)
LEMMA PackFrameAt ==
    ASSUME TxInv, packFrame
    PROVE  LET p == priority
               f == Head(At[p])
               B == [At EXCEPT ![p] = Tail(At[p])]
           IN  /\ p \in Priorities /\ p \in Places /\ At[p] # <<>> /\ made \in Nat /\ made' = made
               /\ B[3] = skip /\ B[4] = pack /\ priority' = p
               /\ \/ /\ f.id \in PackedIds
                     /\ At' = [B EXCEPT ![3] = PushBack(B[3], f, SkipMax)]
                     /\ skip' = PushBack(skip, f, SkipMax) /\ pack' = pack
                     /\ lost' = lost \cup Discarded(B[3], SkipMax)
                     /\ turned' = Toggled(turned, f)
                  \/ /\ f.id \notin PackedIds
                     /\ At' = [B EXCEPT ![4] = Append(B[4], f)]
                     /\ pack' = Append(pack, f) /\ UNCHANGED <<skip, lost, turned>>
<1>p. PICK p : p = priority
  OBVIOUS
<1>0. TypeOK /\ p \in Priorities
  BY <1>p DEF TxInv, RoundInv, TypeOK, Priorities
<1>2. /\ p \in Places /\ made \in Nat /\ 3 # p /\ 4 # p /\ 5 # p
      /\ At[3] = skip /\ At[4] = pack /\ At[5] = sent /\ At \in [Places -> Seq(Frame)]
      /\ \A r \in Priorities : r \in Places /\ At[r] = queue[r] /\ r # 3 /\ r # 4
      /\ 3 \in Places /\ 4 \in Places /\ 5 \in Places
  BY <1>0, AtPlaces DEF Priorities, Filled
<1> DEFINE f == Head(At[p])
           t == Tail(At[p])
           B == [At EXCEPT ![p] = t]
           u == PushBack(B[3], f, SkipMax)
           v == Append(B[4], f)
           U == [B EXCEPT ![3] = u]
           V == [B EXCEPT ![4] = v]
<1>b. B \in [Places -> Seq(Frame) \cup {t}] /\ B[p] = t /\ \A y \in Places : y # p => B[y] = At[y]
  BY <1>2, PutPlace
<1>s. /\ queue' = [queue EXCEPT ![p] = t] /\ At[p] # <<>>
      /\ \/ /\ f.id \in PackedIds /\ skip' = PushBack(skip, f, SkipMax)
            /\ lost' = lost \cup Discarded(skip, SkipMax) /\ pack' = pack
            /\ turned' = Toggled(turned, f)
         \/ f.id \notin PackedIds /\ pack' = Append(pack, f) /\ UNCHANGED <<skip, lost, turned>>
      /\ UNCHANGED <<sent, made, priority>>
  BY <1>0, <1>2, <1>p DEF packFrame, MoreToPack, Toggled
<1>q. \A r \in Priorities : queue'[r] = IF r = p THEN t ELSE queue[r]
  BY <1>0, <1>s DEF TypeOK
<1> HIDE DEF B, t, f
<1>c. B[3] = skip /\ B[4] = pack /\ B[5] = sent /\ \A r \in Priorities : B[r] = queue'[r]
  BY <1>2, <1>b, <1>q
<1>u. /\ U \in [Places -> (Seq(Frame) \cup {t}) \cup {u}] /\ U[3] = u
      /\ \A y \in Places : y # 3 => U[y] = B[y]
  BY <1>2, <1>b, PutPlace
<1>v. /\ V \in [Places -> (Seq(Frame) \cup {t}) \cup {v}] /\ V[4] = v
      /\ \A y \in Places : y # 4 => V[y] = B[y]
  BY <1>2, <1>b, PutPlace
<1> HIDE DEF U, V
<1>6. ASSUME skip' = PushBack(skip, f, SkipMax), pack' = pack PROVE At' = U
  <2>1. u = skip'
    BY <1>6, <1>c
  <2> HIDE DEF u
  <2>2. U[3] = skip' /\ U[4] = pack' /\ U[5] = sent'
    BY <1>2, <1>6, <1>c, <1>s, <1>u, <2>1
  <2>3. \A r \in Priorities : U[r] = queue'[r]
    BY <1>2, <1>c, <1>u
  <2> QED BY <1>u, <2>2, <2>3, AtNext
<1>7. ASSUME pack' = Append(pack, f), skip' = skip PROVE At' = V
  <2>1. v = pack'
    BY <1>7, <1>c
  <2> HIDE DEF v
  <2>2. V[3] = skip' /\ V[4] = pack' /\ V[5] = sent'
    BY <1>2, <1>7, <1>c, <1>s, <1>v, <2>1
  <2>3. \A r \in Priorities : V[r] = queue'[r]
    BY <1>2, <1>c, <1>v
  <2> QED BY <1>v, <2>2, <2>3, AtNext
<1>8. \/ /\ f.id \in PackedIds /\ At' = U
         /\ skip' = PushBack(skip, f, SkipMax) /\ pack' = pack
         /\ lost' = lost \cup Discarded(B[3], SkipMax)
         /\ turned' = Toggled(turned, f)
      \/ /\ f.id \notin PackedIds /\ At' = V
         /\ pack' = Append(pack, f) /\ UNCHANGED <<skip, lost, turned>>
  BY <1>6, <1>7, <1>c, <1>s
<1>9. /\ p \in Priorities /\ p \in Places /\ At[p] # <<>> /\ made \in Nat /\ made' = made
      /\ B[3] = skip /\ B[4] = pack /\ priority' = p
  BY <1>0, <1>2, <1>c, <1>p, <1>s
<1> QED BY <1>8, <1>9, <1>p DEF B, U, V, t, f

(* A frame that was put aside returns to its queue.                        *)
LEMMA RestoreFrameAt ==
    ASSUME TxInv, restoreFrame
    PROVE  LET p == priority
               f == Head(At[3])
               B == [At EXCEPT ![3] = Tail(At[3])]
           IN  /\ p \in Priorities /\ p \in Places /\ 3 \in Places /\ At[3] # <<>>
               /\ At[3] = skip /\ made \in Nat /\ made' = made /\ B[p] = queue[p]
               /\ At' = [B EXCEPT ![p] = PushFront(B[p], f, QueueMax)]
               /\ lost' = lost \cup Discarded(B[p], QueueMax)
               /\ skip' = Tail(skip) /\ UNCHANGED <<priority, pack, turned>>
<1>p. PICK p : p = priority
  OBVIOUS
<1>0. TypeOK /\ p \in Priorities
  BY <1>p DEF TxInv, RoundInv, TypeOK, Priorities
<1>2. /\ p \in Places /\ made \in Nat /\ 3 # p /\ 4 # p /\ 5 # p
      /\ At[3] = skip /\ At[4] = pack /\ At[5] = sent /\ At \in [Places -> Seq(Frame)]
      /\ \A r \in Priorities : r \in Places /\ At[r] = queue[r] /\ r # 3
      /\ 3 \in Places /\ 4 \in Places /\ 5 \in Places
  BY <1>0, AtPlaces DEF Priorities, Filled
<1> DEFINE f == Head(At[3])
           t == Tail(At[3])
           B == [At EXCEPT ![3] = t]
           u == PushFront(B[p], f, QueueMax)
           U == [B EXCEPT ![p] = u]
<1>b. B \in [Places -> Seq(Frame) \cup {t}] /\ B[3] = t /\ \A y \in Places : y # 3 => B[y] = At[y]
  BY <1>2, PutPlace
<1>s. /\ queue' = [queue EXCEPT ![p] = PushFront(queue[p], f, QueueMax)] /\ skip # <<>>
      /\ lost' = lost \cup Discarded(queue[p], QueueMax) /\ skip' = t /\ t = Tail(skip)
      /\ UNCHANGED <<pack, sent, made, priority, turned>>
  BY <1>2, <1>p DEF restoreFrame
<1>q. \A r \in Priorities : queue'[r] = IF r = p THEN PushFront(queue[p], f, QueueMax)
                                        ELSE queue[r]
  BY <1>0, <1>s DEF TypeOK
<1> HIDE DEF B, t, f
<1>c. B[3] = t /\ B[4] = pack /\ B[5] = sent /\ \A r \in Priorities : B[r] = queue[r]
  BY <1>2, <1>b
<1>u. /\ U \in [Places -> (Seq(Frame) \cup {t}) \cup {u}] /\ U[p] = u
      /\ \A y \in Places : y # p => U[y] = B[y]
  BY <1>2, <1>b, PutPlace
<1> HIDE DEF U
<1>5. At' = U
  <2>1. \A r \in Priorities : queue'[r] = IF r = p THEN u ELSE queue[r]
    BY <1>0, <1>c, <1>q
  <2> HIDE DEF u
  <2>2. U[3] = skip' /\ U[4] = pack' /\ U[5] = sent'
    BY <1>2, <1>c, <1>s, <1>u
  <2>3. \A r \in Priorities : U[r] = queue'[r]
    BY <1>2, <1>c, <1>u, <2>1
  <2> QED BY <1>u, <2>2, <2>3, AtNext
<1>6. B[p] = queue[p]
  BY <1>0, <1>c
<1>7. /\ p \in Priorities /\ p \in Places /\ 3 \in Places /\ skip # <<>> /\ made \in Nat
      /\ At[3] = skip
  BY <1>0, <1>2, <1>s
<1> QED BY <1>5, <1>6, <1>7, <1>p, <1>s DEF B, U, t, f

(* The pack is sent.                                                       *)
LEMMA SendPackAt ==
    ASSUME TxInv, sendPack
    PROVE  At' = [At EXCEPT ![5] = At[5] \o At[4], ![4] = <<>>]
<1>2. /\ At[3] = skip /\ At[4] = pack /\ At[5] = sent /\ At \in [Places -> Seq(Frame)]
      /\ \A r \in Priorities : r \in Places /\ At[r] = queue[r] /\ r # 4 /\ r # 5
      /\ 3 \in Places /\ 4 \in Places /\ 5 \in Places
  BY AtPlaces DEF Priorities, Filled, TxInv, RoundInv
<1>s. sent' = sent \o pack /\ pack' = <<>> /\ UNCHANGED <<queue, skip>>
  BY DEF sendPack
<1> DEFINE u == At[5] \o At[4]
           D == [At EXCEPT ![5] = u]
           C == [D EXCEPT ![4] = <<>>]
<1>3. D \in [Places -> Seq(Frame) \cup {u}] /\ D[5] = u /\ \A y \in Places : y # 5 => D[y] = At[y]
  BY <1>2, PutPlace
<1> HIDE DEF D
<1>4. /\ C \in [Places -> (Seq(Frame) \cup {u}) \cup {<<>>}] /\ C[4] = <<>>
      /\ \A y \in Places : y # 4 => C[y] = D[y]
  BY <1>2, <1>3, PutPlace
<1> HIDE DEF C
<1>u. u = sent'
  BY <1>2, <1>s
<1> HIDE DEF u
<1>5. C[3] = skip' /\ C[4] = pack' /\ C[5] = sent'
  BY <1>2, <1>3, <1>4, <1>s, <1>u
<1>6. \A r \in Priorities : C[r] = queue'[r]
  BY <1>2, <1>3, <1>4, <1>s
<1>7. At' = C
  BY <1>4, <1>5, <1>6, AtNext
<1> QED BY <1>7 DEF C, D, u

(* Initially there is no frame.                                            *)
LEMMA InitConserved == Init => Conservation
<1> SUFFICES ASSUME Init PROVE Conservation
  OBVIOUS
<1>1. TypeOK /\ Filled(At)
  BY InitTxInv, AtPlaces DEF TxInv, RoundInv
<1>2. \A x \in Places : At[x] = <<>>
  BY <1>1, AtPlaces DEF Init
<1>3. /\ lost = {} /\ made = 0 /\ 1 .. 0 = {} /\ Len(<<>>) = 0
      /\ IsFiniteSet({}) /\ Cardinality({}) = 0
  BY FS_EmptySet DEF Init
<1>4. \A x \in Places : Pos(At, x) = {} /\ Len(At[x]) = 0
  BY <1>2, <1>3 DEF Pos
<1>5. Count(At) = 0
  <2>1. 0 \in Places /\ 1 \in Places /\ 2 \in Places /\ 3 \in Places /\ 4 \in Places /\ 5 \in Places
    BY DEF Places
  <2>2. \A x \in Places : Len(At[x]) = 0
    BY <1>4
  <2>3. /\ Len(At[0]) = 0 /\ Len(At[1]) = 0 /\ Len(At[2]) = 0
        /\ Len(At[3]) = 0 /\ Len(At[4]) = 0 /\ Len(At[5]) = 0
    BY <2>1, <2>2
  <2> QED BY <2>3 DEF Count
<1> QED BY <1>1, <1>3, <1>4, <1>5 DEF Conservation, Conserved

(* A producer's insertion brings the frame with the next number.           *)
LEMMA SendFrameConserves ==
    ASSUME TxInv, Conservation, NEW t \in Producers, NEW id \in Ids, NEW p \in Used,
           sendFrame(t, id, p)
    PROVE  Conservation'
<1>0. PICK f : f = [id |-> id, prio |-> p, num |-> made + 1]
  OBVIOUS
<1>1. /\ p \in Places /\ f \in Frame /\ made \in Nat /\ made' = made + 1 /\ f.num = made + 1
      /\ At' = [At EXCEPT ![p] = PushBack(At[p], f, QueueMax)]
      /\ lost' = lost \cup Discarded(At[p], QueueMax) /\ QueueMax \in Nat \ {0}
  BY <1>0, SendFrameAt, TxAssumption
<1>2. f.num \notin 1 .. made /\ (1 .. made) \cup {f.num} = 1 .. made' /\ made \in Int
  BY <1>1
<1>3. Conserved([At EXCEPT ![p] = PushBack(At[p], f, QueueMax)],
                lost \cup Discarded(At[p], QueueMax), (1 .. made) \cup {f.num}, made + 1)
  BY <1>1, <1>2, PushConserves DEF Conservation
<1> QED BY <1>1, <1>2, <1>3 DEF Conservation

(* The send thread moves a frame from its queue to the pack, or puts it    *)
(* aside.                                                                  *)
LEMMA PackFrameConserves ==
    ASSUME TxInv, Conservation, packFrame
    PROVE  Conservation'
<1>p. PICK p : p = priority
  OBVIOUS
<1>f. PICK f : f = Head(At[p])
  OBVIOUS
<1>b. PICK B : B = [At EXCEPT ![p] = Tail(At[p])]
  OBVIOUS
<1> DEFINE n == (1 .. made) \ {f.num}
<1>1. /\ p \in Places /\ At[p] # <<>> /\ made \in Int /\ made' = made
      /\ \/ /\ At' = [B EXCEPT ![3] = PushBack(B[3], f, SkipMax)]
            /\ lost' = lost \cup Discarded(B[3], SkipMax)
         \/ At' = [B EXCEPT ![4] = Append(B[4], f)] /\ lost' = lost
  BY <1>p, <1>f, <1>b, PackFrameAt
<1>2. f \in Frame /\ f.num \in 1 .. made /\ Conserved(B, lost, n, made - 1)
  BY <1>1, <1>f, <1>b, TakeFront DEF Conservation
<1>3. n \cup {f.num} = 1 .. made /\ f.num \notin n /\ made - 1 \in Int /\ (made - 1) + 1 = made
  BY <1>1, <1>2
<1>4. 3 \in Places /\ 4 \in Places /\ SkipMax \in Nat \ {0}
  BY TxAssumption DEF Places
<1> HIDE DEF n
<1>5. Conserved([B EXCEPT ![3] = PushBack(B[3], f, SkipMax)],
                lost \cup Discarded(B[3], SkipMax), n \cup {f.num}, (made - 1) + 1)
  BY <1>2, <1>3, <1>4, PushConserves
<1>6. Conserved([B EXCEPT ![4] = Append(B[4], f)], lost, n \cup {f.num}, (made - 1) + 1)
  BY <1>2, <1>3, <1>4, AppendConserves
<1> QED BY <1>1, <1>3, <1>5, <1>6 DEF Conservation

(* A frame that was put aside returns to its queue.                        *)
LEMMA RestoreFrameConserves ==
    ASSUME TxInv, Conservation, restoreFrame
    PROVE  Conservation'
<1>p. PICK p : p = priority
  OBVIOUS
<1>f. PICK f : f = Head(At[3])
  OBVIOUS
<1>b. PICK B : B = [At EXCEPT ![3] = Tail(At[3])]
  OBVIOUS
<1> DEFINE n == (1 .. made) \ {f.num}
<1>1. /\ p \in Places /\ 3 \in Places /\ At[3] # <<>> /\ made \in Int /\ made' = made
      /\ At' = [B EXCEPT ![p] = PushFront(B[p], f, QueueMax)]
      /\ lost' = lost \cup Discarded(B[p], QueueMax) /\ QueueMax \in Nat \ {0}
  BY <1>p, <1>f, <1>b, RestoreFrameAt, TxAssumption
<1>2. f \in Frame /\ f.num \in 1 .. made /\ Conserved(B, lost, n, made - 1)
  BY <1>1, <1>f, <1>b, TakeFront DEF Conservation
<1>3. n \cup {f.num} = 1 .. made /\ f.num \notin n /\ made - 1 \in Int /\ (made - 1) + 1 = made
  BY <1>1, <1>2
<1> HIDE DEF n
<1>5. Conserved([B EXCEPT ![p] = PushFront(B[p], f, QueueMax)],
                lost \cup Discarded(B[p], QueueMax), n \cup {f.num}, (made - 1) + 1)
  BY <1>1, <1>2, <1>3, PushConserves
<1> QED BY <1>1, <1>3, <1>5 DEF Conservation

(* The inductive step.                                                     *)
LEMMA NextConserves == TxInv /\ Conservation /\ [Next]_vars => Conservation'
<1> SUFFICES ASSUME TxInv, Conservation, [Next]_vars PROVE Conservation'
  OBVIOUS
<1>0. TypeOK /\ made \in Int
  BY AtPlaces DEF TxInv, RoundInv
<1>1. CASE sendPack
  <2>1. At' = [At EXCEPT ![5] = At[5] \o At[4], ![4] = <<>>]
    BY <1>1, SendPackAt
  <2>2. Conserved([At EXCEPT ![5] = At[5] \o At[4], ![4] = <<>>], lost, 1 .. made, made)
    BY <1>0, SendConserves DEF Conservation
  <2>3. UNCHANGED <<lost, made>>
    BY <1>1 DEF sendPack
  <2> QED BY <2>1, <2>2, <2>3 DEF Conservation
<1>2. CASE UNCHANGED <<queue, skip, pack, sent, lost, made>>
  BY <1>2 DEF Conservation, At
<1>3. CASE \/ \E t \in Producers : signal(t)
           \/ sendThreadLock \/ sendThreadWake \/ spuriousWakeup \/ packDone
           \/ nextPriority \/ UNCHANGED vars
  BY <1>2, <1>3 DEF signal, sendThreadLock, sendThreadWake, spuriousWakeup, packDone,
                    nextPriority, vars
<1> QED BY <1>1, <1>3, SendFrameConserves, PackFrameConserves, RestoreFrameConserves
        DEF Next, sendThread

(* Every frame CSTx_sendFrame accepted is queued, put aside, packed, sent  *)
(* or was discarded by a full queue: one of these, once, for all           *)
(* capacities.                                                             *)
THEOREM TxFramesConserved == Spec => []FramesConserved
<1>1. TxInv /\ Conservation => FramesConserved
  <2> SUFFICES ASSUME TxInv, Conservation PROVE FramesConserved
    OBVIOUS
  <2> DEFINE a == queue[0]
             g == a \o queue[1] \o queue[2] \o skip \o pack \o sent
             nums == {f.num : f \in Elements(g) \cup lost}
  <2>0. TypeOK /\ 0 \in Priorities /\ 1 \in Priorities /\ 2 \in Priorities
    BY DEF TxInv, RoundInv, Priorities
  <2>1. /\ a \in Seq(Frame) /\ queue[1] \in Seq(Frame) /\ queue[2] \in Seq(Frame)
        /\ skip \in Seq(Frame) /\ pack \in Seq(Frame) /\ sent \in Seq(Frame)
    BY <2>0 DEF TypeOK
  <2>2. /\ Len(g) = Len(a) + Len(queue[1]) + Len(queue[2]) + Len(skip) + Len(pack) + Len(sent)
        /\ Elements(g) = Elements(a) \cup Elements(queue[1]) \cup Elements(queue[2])
                         \cup Elements(skip) \cup Elements(pack) \cup Elements(sent)
    <3>1. AddsUp(a, queue[1], queue[2], skip, pack, sent)
      BY <2>1, ConcatAll
    <3> QED BY <3>1 DEF AddsUp
  <2>p. /\ At[0] = a /\ At[1] = queue[1] /\ At[2] = queue[2] /\ At[3] = skip
        /\ At[4] = pack /\ At[5] = sent
        /\ 0 \in Places /\ 1 \in Places /\ 2 \in Places /\ 3 \in Places /\ 4 \in Places /\ 5 \in Places
    BY <2>0, AtPlaces
  <2>x. \A x \in Places : x = 0 \/ x = 1 \/ x = 2 \/ x = 3 \/ x = 4 \/ x = 5
    BY DEF Places
  <2>f. FramesConserved <=> nums = 1 .. made /\ Len(g) + Cardinality(lost) = made
    BY DEF FramesConserved
  <2> HIDE DEF a, g
  <2>7. Len(g) = Count(At)
    BY <2>2, <2>p DEF Count
  <2>9. \A x \in Places : Elements(At[x]) \subseteq Elements(g)
    BY <2>2, <2>p, <2>x
  <2>10. \A h \in Elements(g) : \E x \in Places : h \in Elements(At[x])
    BY <2>2, <2>p
  <2>11. nums \subseteq 1 .. made
    <3>1. ASSUME NEW h \in Elements(g) PROVE h.num \in 1 .. made
      BY <2>10 DEF Conservation, Conserved, Elements, Pos
    <3>2. \A h \in lost : h.num \in 1 .. made
      BY DEF Conservation, Conserved
    <3> QED BY <3>1, <3>2
  <2>12. 1 .. made \subseteq nums
    <3> SUFFICES ASSUME NEW n \in 1 .. made PROVE \E h \in Elements(g) \cup lost : h.num = n
      OBVIOUS
    <3>1. \/ \E x \in Places : \E i \in Pos(At, x) : At[x][i].num = n
          \/ \E f \in lost : f.num = n
      BY DEF Conservation, Conserved
    <3>2. ASSUME NEW x \in Places, NEW i \in Pos(At, x) PROVE At[x][i] \in Elements(g)
      BY <2>9 DEF Elements, Pos
    <3> QED BY <3>1, <3>2
  <2>13. Len(g) + Cardinality(lost) = made
    BY <2>7 DEF Conservation, Conserved
  <2> QED BY <2>11, <2>12, <2>13, <2>f
<1> QED BY <1>1, InitConserved, NextConserves, TxInvariant, PTL DEF Spec

-----------------------------------------------------------------------------
(* No frame is at two positions of the places.                             *)
Apart(A) ==
    /\ Filled(A)
    /\ \A x, y \in Places : \A i \in Pos(A, x), j \in Pos(A, y) :
          A[x][i].num = A[y][j].num => x = y /\ i = j

LEMMA ConservedApart ==
    ASSUME NEW A, NEW L, NEW N, NEW k, Conserved(A, L, N, k)
    PROVE  Apart(A)
BY DEF Conserved, Apart

(* Position i of place x is ahead of position j of place y.  The skip      *)
(* queue is emptied from its front into the front of a queue: its back is  *)
(* what comes out first.                                                   *)
Ahead(x, i, y, j) == x > y \/ (x = y /\ IF x = 3 THEN j < i ELSE i < j)

(* Two frames whose order matters.                                         *)
Same(f, g) == f.id = g.id /\ f.prio = g.prio

(* f leaves before g: the older first, unless D has them change places.    *)
Before(f, g, D) == IF {f, g} \in D THEN g.num < f.num ELSE f.num < g.num

(* At the places A such frames are in the order in which they leave.       *)
Ordered(A, D) ==
    \A x, y \in Places : \A i \in Pos(A, x), j \in Pos(A, y) :
        Ahead(x, i, y, j) /\ Same(A[x][i], A[y][j]) => Before(A[x][i], A[y][j], D)

(* The front (d = 1) or the back (d = 0) of the place x is its end.        *)
Ends(x, d) == IF x = 3 THEN d = 1 ELSE d = 0

(* At that side of x there is room for f.                                  *)
Fits(A, D, x, d, f) ==
    \A y \in Places : \A g \in Elements(A[y]) : Same(g, f) =>
        /\ y > x \/ (y = x /\ Ends(x, d)) => Before(g, f, D)
        /\ y < x \/ (y = x /\ ~Ends(x, d)) => Before(f, g, D)

(* Taking frames away from the front of one place keeps the order.         *)
LEMMA CutOrdered ==
    ASSUME NEW A, Filled(A), NEW D, Ordered(A, D), NEW x \in Places, A[x] # <<>>
    PROVE  Ordered([A EXCEPT ![x] = Tail(A[x])], D)
<1> DEFINE B == [A EXCEPT ![x] = Tail(A[x])]
<1>1. A[x] \in Seq(Frame)
  BY DEF Filled
<1>2. /\ Len(Tail(A[x])) = Len(A[x]) - 1 /\ Len(A[x]) \in Nat
      /\ \A i \in 1 .. Len(A[x]) - 1 : Tail(A[x])[i] = A[x][i + 1]
  BY <1>1, HeadTailProperties
<1>3. B[x] = Tail(A[x]) /\ \A y \in Places : y # x => B[y] = A[y]
  BY DEF Filled
<1> HIDE DEF B
<1>4. ASSUME NEW y \in Places, NEW i \in Pos(B, y)
      PROVE  \E u \in Pos(A, y) : B[y][i] = A[y][u] /\ u = IF y = x THEN i + 1 ELSE i
  <2>1. CASE y = x
    <3>1. i \in 1 .. Len(A[x]) - 1
      BY <1>2, <1>3, <2>1 DEF Pos
    <3>2. i + 1 \in 1 .. Len(A[x])
      BY <1>2, <3>1
    <3> QED BY <1>2, <1>3, <2>1, <3>1, <3>2 DEF Pos
  <2>2. CASE y # x
    BY <1>3, <2>2 DEF Pos
  <2> QED BY <2>1, <2>2
<1>5. ASSUME NEW y \in Places, NEW z \in Places, NEW i \in Pos(B, y), NEW j \in Pos(B, z),
             Ahead(y, i, z, j), Same(B[y][i], B[z][j])
      PROVE  Before(B[y][i], B[z][j], D)
  <2>1. PICK u \in Pos(A, y) : B[y][i] = A[y][u] /\ u = IF y = x THEN i + 1 ELSE i
    BY <1>4
  <2>2. PICK v \in Pos(A, z) : B[z][j] = A[z][v] /\ v = IF z = x THEN j + 1 ELSE j
    BY <1>4
  <2>3. Ahead(y, u, z, v)
    <3>1. i \in Int /\ j \in Int
      BY DEF Pos
    <3> QED BY <1>5, <2>1, <2>2, <3>1 DEF Ahead
  <2> QED BY <1>5, <2>1, <2>2, <2>3 DEF Ordered
<1>6. Ordered(B, D)
  BY <1>5 DEF Ordered
<1> QED BY <1>6 DEF B

(* So does making room in a full queue.                                    *)
LEMMA RoomOrdered ==
    ASSUME NEW A, Filled(A), NEW D, Ordered(A, D), NEW x \in Places, NEW cap \in Nat \ {0}
    PROVE  /\ Ordered([A EXCEPT ![x] = MakeRoom(A[x], cap)], D)
           /\ MakeRoom(A[x], cap) \in Seq(Frame)
           /\ Elements(MakeRoom(A[x], cap)) \subseteq Elements(A[x])
<1>1. A[x] \in Seq(Frame)
  BY DEF Filled
<1>2. Elements(MakeRoom(A[x], cap)) \subseteq Elements(A[x])
  BY <1>1, RoomElements
<1>3. CASE Len(A[x]) = cap
  <2>1. A[x] # <<>>
    BY <1>3
  <2>2. Ordered([A EXCEPT ![x] = Tail(A[x])], D)
    BY <2>1, CutOrdered
  <2>3. Tail(A[x]) \in Seq(Frame)
    BY <1>1, <2>1, HeadTailProperties
  <2> QED BY <1>2, <1>3, <2>2, <2>3 DEF MakeRoom
<1>4. CASE Len(A[x]) # cap
  <2>1. [A EXCEPT ![x] = A[x]] = A
    BY DEF Filled
  <2> QED BY <1>1, <1>2, <1>4, <2>1 DEF MakeRoom
<1> QED BY <1>3, <1>4

(* A frame is put at the front or at the back of a place, where it fits.   *)
LEMMA PutOrdered ==
    ASSUME NEW A, Filled(A), NEW D, Ordered(A, D), NEW x \in Places, NEW f,
           NEW s \in Seq(Frame), Len(s) = Len(A[x]) + 1, NEW d \in {0, 1},
           \A i \in 1 .. Len(A[x]) : s[i + d] = A[x][i],
           s[IF d = 1 THEN 1 ELSE Len(s)] = f,
           Fits(A, D, x, d, f)
    PROVE  Ordered([A EXCEPT ![x] = s], D)
<1> DEFINE B == [A EXCEPT ![x] = s]
           p == IF d = 1 THEN 1 ELSE Len(s)
<1>f. A[x] \in Seq(Frame) /\ Len(A[x]) \in Nat
  BY DEF Filled
<1>e. B[x] = s /\ \A y \in Places : y # x => B[y] = A[y]
  BY DEF Filled
<1> HIDE DEF B, p
<1>b. ASSUME NEW y \in Places, NEW i \in Pos(B, y)
      PROVE  \/ y = x /\ i = p /\ B[y][i] = f
             \/ \E j \in Pos(A, y) : B[y][i] = A[y][j] /\ j = IF y = x THEN i - d ELSE i
  <2>1. CASE y = x /\ i = p
    BY <1>e, <2>1 DEF p
  <2>2. CASE y = x /\ i # p
    <3>1. i - d \in Pos(A, x) /\ (i - d) + d = i
      BY <1>f, <1>e, <2>2 DEF Pos, p
    <3>2. B[x][i] = A[x][i - d]
      BY <1>e, <3>1 DEF Pos
    <3> QED BY <2>2, <3>1, <3>2
  <2>3. CASE y # x
    BY <1>e, <2>3 DEF Pos
  <2> QED BY <2>1, <2>2, <2>3
<1>g. ASSUME NEW y \in Places, NEW j \in Pos(A, y), Same(A[y][j], f)
      PROVE  /\ y > x \/ (y = x /\ Ends(x, d)) => Before(A[y][j], f, D)
             /\ y < x \/ (y = x /\ ~Ends(x, d)) => Before(f, A[y][j], D)
  <2>1. A[y][j] \in Elements(A[y])
    BY DEF Pos, Elements
  <2> QED BY <1>g, <2>1 DEF Fits
<1>5. ASSUME NEW y \in Places, NEW z \in Places, NEW i \in Pos(B, y), NEW j \in Pos(B, z),
             Ahead(y, i, z, j), Same(B[y][i], B[z][j])
      PROVE  Before(B[y][i], B[z][j], D)
  <2>0. i \in Int /\ j \in Int /\ x \in Int /\ y \in Int /\ z \in Int
    BY DEF Pos, Places
  <2>1. CASE y = x /\ i = p /\ B[y][i] = f
    <3>1. ~(z = x /\ j = p)
      BY <1>5, <2>0, <2>1 DEF Ahead
    <3>2. PICK v \in Pos(A, z) : B[z][j] = A[z][v] /\ v = IF z = x THEN j - d ELSE j
      BY <1>b, <3>1
    <3>3. z < x \/ (z = x /\ ~Ends(x, d))
      BY <1>5, <1>e, <1>f, <2>0, <2>1 DEF Ahead, p, Pos, Ends
    <3>4. Same(A[z][v], f)
      BY <1>5, <2>1, <3>2 DEF Same
    <3> QED BY <1>g, <2>1, <3>2, <3>3, <3>4
  <2>2. CASE z = x /\ j = p /\ B[z][j] = f
    <3>1. ~(y = x /\ i = p)
      BY <1>5, <2>0, <2>2 DEF Ahead
    <3>2. PICK v \in Pos(A, y) : B[y][i] = A[y][v] /\ v = IF y = x THEN i - d ELSE i
      BY <1>b, <3>1
    <3>3. y > x \/ (y = x /\ Ends(x, d))
      BY <1>5, <1>e, <1>f, <2>0, <2>2 DEF Ahead, p, Pos, Ends
    <3>4. Same(A[y][v], f)
      BY <1>5, <2>2, <3>2 DEF Same
    <3> QED BY <1>g, <2>2, <3>2, <3>3, <3>4
  <2>3. ASSUME NEW u \in Pos(A, y), B[y][i] = A[y][u], u = IF y = x THEN i - d ELSE i,
               NEW v \in Pos(A, z), B[z][j] = A[z][v], v = IF z = x THEN j - d ELSE j
        PROVE  Before(B[y][i], B[z][j], D)
    <3>1. Ahead(y, u, z, v)
      BY <1>5, <2>0, <2>3 DEF Ahead
    <3> QED BY <1>5, <2>3, <3>1 DEF Ordered
  <2> QED BY <1>b, <2>1, <2>2, <2>3
<1>6. Ordered(B, D)
  BY <1>5 DEF Ordered
<1> QED BY <1>6 DEF B

(* A frame joins the back of a place.                                      *)
LEMMA AppendOrdered ==
    ASSUME NEW A, Filled(A), NEW D, Ordered(A, D), NEW x \in Places, NEW f \in Frame,
           Fits(A, D, x, 0, f)
    PROVE  Ordered([A EXCEPT ![x] = Append(A[x], f)], D)
<1> DEFINE r == A[x]
           s == Append(r, f)
<1>1. r \in Seq(Frame)
  BY DEF Filled
<1>2. /\ s \in Seq(Frame) /\ Len(s) = Len(r) + 1 /\ s[Len(r) + 1] = f /\ Len(r) \in Nat
      /\ \A i \in 1 .. Len(r) : s[i] = r[i]
  BY <1>1, AppendProperties
<1> HIDE DEF s
<1>3. /\ 0 \in {0, 1} /\ s[IF 0 = 1 THEN 1 ELSE Len(s)] = f /\ Len(s) = Len(A[x]) + 1
      /\ \A i \in 1 .. Len(A[x]) : s[i + 0] = A[x][i]
  BY <1>2
<1>5. s \in Seq(Frame)
  BY <1>2
<1>6. Ordered([A EXCEPT ![x] = s], D)
  BY <1>3, <1>5, PutOrdered
<1> QED BY <1>6 DEF s

(* Insertion into a bounded queue at the back.                             *)
LEMMA PushBackOrdered ==
    ASSUME NEW A, Filled(A), NEW D, Ordered(A, D), NEW x \in Places, NEW cap \in Nat \ {0},
           NEW f \in Frame,
           Fits(A, D, x, 0, f)
    PROVE  Ordered([A EXCEPT ![x] = PushBack(A[x], f, cap)], D)
<1> DEFINE r == MakeRoom(A[x], cap)
           B == [A EXCEPT ![x] = r]
<1>1. Ordered(B, D) /\ r \in Seq(Frame) /\ Elements(r) \subseteq Elements(A[x])
  BY RoomOrdered
<1>2. Filled(B) /\ B[x] = r /\ \A y \in Places : y # x => B[y] = A[y]
  BY <1>1 DEF Filled
<1>3. [B EXCEPT ![x] = Append(r, f)] = [A EXCEPT ![x] = Append(r, f)]
  BY DEF Filled
<1> HIDE DEF B, r
<1>4. \A y \in Places : Elements(B[y]) \subseteq Elements(A[y])
  BY <1>1, <1>2
<1>5. Fits(B, D, x, 0, f)
  BY <1>4 DEF Fits
<1>6. Filled(B) /\ Ordered(B, D)
  BY <1>1, <1>2
<1>7. Ordered([B EXCEPT ![x] = Append(B[x], f)], D)
  BY <1>5, <1>6, AppendOrdered
<1> QED BY <1>2, <1>3, <1>7 DEF r, PushBack

(* Insertion at the front.                                                 *)
LEMMA PushFrontOrdered ==
    ASSUME NEW A, Filled(A), NEW D, Ordered(A, D), NEW x \in Places, NEW cap \in Nat \ {0},
           NEW f \in Frame, Fits(A, D, x, 1, f)
    PROVE  Ordered([A EXCEPT ![x] = PushFront(A[x], f, cap)], D)
<1> DEFINE r == MakeRoom(A[x], cap)
           B == [A EXCEPT ![x] = r]
           t == <<f>> \o r
<1>1. Ordered(B, D) /\ r \in Seq(Frame) /\ Elements(r) \subseteq Elements(A[x])
  BY RoomOrdered
<1>2. Filled(B) /\ B[x] = r /\ \A y \in Places : y # x => B[y] = A[y]
  BY <1>1 DEF Filled
<1>3. [B EXCEPT ![x] = t] = [A EXCEPT ![x] = t] /\ PushFront(A[x], f, cap) = t
  BY DEF Filled, PushFront
<1>s. <<f>> \in Seq(Frame) /\ Len(<<f>>) = 1 /\ <<f>>[1] = f /\ r \in Seq(Frame)
  BY <1>1
<1>t. <<f>> \in Seq(Frame) /\ r \in Seq(Frame)
  BY <1>s
<1> HIDE DEF B, r
<1>4. /\ t \in Seq(Frame) /\ Len(t) = Len(<<f>>) + Len(r) /\ Len(r) \in Nat
      /\ \A i \in 1 .. Len(<<f>>) : t[i] = <<f>>[i]
      /\ \A i \in 1 .. Len(r) : t[i + Len(<<f>>)] = r[i]
  BY <1>t, ConcatHolds
<1>5. /\ t \in Seq(Frame) /\ Len(t) = Len(r) + 1 /\ t[1] = f
      /\ \A i \in 1 .. Len(r) : t[i + 1] = r[i]
  BY <1>4, <1>s
<1> HIDE DEF t
<1>6. \A y \in Places : Elements(B[y]) \subseteq Elements(A[y])
  BY <1>1, <1>2
<1>7. Fits(B, D, x, 1, f)
  BY <1>6 DEF Fits
<1>8. /\ 1 \in {0, 1} /\ t[IF 1 = 1 THEN 1 ELSE Len(t)] = f /\ Len(t) = Len(B[x]) + 1
      /\ \A i \in 1 .. Len(B[x]) : t[i + 1] = B[x][i]
  BY <1>2, <1>5
<1>9. Filled(B) /\ Ordered(B, D) /\ t \in Seq(Frame)
  BY <1>1, <1>2, <1>5
<1>10. Ordered([B EXCEPT ![x] = t], D)
  BY <1>7, <1>8, <1>9, PutOrdered
<1> QED BY <1>3, <1>10

(* CSIo_send appends the pack to what was sent.                            *)
LEMMA SendOrdered ==
    ASSUME NEW A, Filled(A), NEW D, Ordered(A, D)
    PROVE  Ordered([A EXCEPT ![5] = A[5] \o A[4], ![4] = <<>>], D)
<1> DEFINE s == A[5]
           p == A[4]
           c == s \o p
           m == Len(s)
           B == [A EXCEPT ![5] = c, ![4] = <<>>]
<1>0. 4 \in Places /\ 5 \in Places
  BY DEF Places
<1>f. s \in Seq(Frame) /\ p \in Seq(Frame)
  BY <1>0 DEF Filled
<1>1. /\ c \in Seq(Frame) /\ Len(c) = m + Len(p) /\ m \in Nat /\ Len(p) \in Nat
      /\ \A i \in 1 .. m : c[i] = s[i]
      /\ \A i \in 1 .. Len(p) : c[i + m] = p[i]
  <2> HIDE DEF s, p
  <2> QED BY <1>f, ConcatHolds
<1>e. B[5] = c /\ B[4] = <<>> /\ \A y \in Places : y # 4 /\ y # 5 => B[y] = A[y]
  BY <1>0 DEF Filled
<1>s. A[5] = s /\ A[4] = p /\ m = Len(s) /\ Len(<<>>) = 0
  OBVIOUS
<1> HIDE DEF s, p, c, B, m
<1>b. ASSUME NEW y \in Places, NEW i \in Pos(B, y)
      PROVE  \E z \in Places : \E j \in Pos(A, z) :
               /\ B[y][i] = A[z][j] /\ y = (IF z = 4 THEN 5 ELSE z)
               /\ i = IF z = 4 THEN j + m ELSE j
  <2>1. CASE y = 5 /\ i \in Pos(A, 5)
    BY <1>0, <1>1, <1>e, <1>s, <2>1 DEF Pos
  <2>2. CASE y = 5 /\ i \notin Pos(A, 5)
    <3>1. i - m \in 1 .. Len(p) /\ (i - m) + m = i
      BY <1>1, <1>e, <1>s, <2>2 DEF Pos
    <3>2. i - m \in Pos(A, 4) /\ B[5][i] = A[4][i - m]
      BY <1>1, <1>e, <1>s, <3>1 DEF Pos
    <3> QED BY <1>0, <2>2, <3>1, <3>2
  <2>3. CASE y # 5
    <3>1. y # 4
      BY <1>e, <1>s DEF Pos
    <3> QED BY <1>e, <2>3, <3>1 DEF Pos
  <2> QED BY <2>1, <2>2, <2>3
<1>5. ASSUME NEW y \in Places, NEW z \in Places, NEW i \in Pos(B, y), NEW j \in Pos(B, z),
             Ahead(y, i, z, j), Same(B[y][i], B[z][j])
      PROVE  Before(B[y][i], B[z][j], D)
  <2>1. PICK u \in Places : \E w \in Pos(A, u) :
               /\ B[y][i] = A[u][w] /\ y = (IF u = 4 THEN 5 ELSE u)
               /\ i = IF u = 4 THEN w + m ELSE w
    BY <1>b
  <2>2. PICK v \in Places : \E w \in Pos(A, v) :
               /\ B[z][j] = A[v][w] /\ z = (IF v = 4 THEN 5 ELSE v)
               /\ j = IF v = 4 THEN w + m ELSE w
    BY <1>b
  <2>3. PICK w1 \in Pos(A, u) :
               /\ B[y][i] = A[u][w1] /\ y = (IF u = 4 THEN 5 ELSE u)
               /\ i = IF u = 4 THEN w1 + m ELSE w1
    BY <2>1
  <2>4. PICK w2 \in Pos(A, v) :
               /\ B[z][j] = A[v][w2] /\ z = (IF v = 4 THEN 5 ELSE v)
               /\ j = IF v = 4 THEN w2 + m ELSE w2
    BY <2>2
  <2>5. u \in Int /\ v \in Int /\ w1 \in Int /\ w2 \in Int /\ m \in Nat /\ w1 >= 1 /\ w2 >= 1
    BY <1>1 DEF Pos, Places
  <2>6. u = 5 => w1 <= m
    BY <1>s, <2>5 DEF Pos
  <2>7. v = 5 => w2 <= m
    BY <1>s, <2>5 DEF Pos
  <2>8. Ahead(u, w1, v, w2)
    <3>1. u <= 5 /\ v <= 5
      BY DEF Places
    <3>2. CASE u = 4 /\ v = 4
      BY <1>5, <2>3, <2>4, <2>5, <3>2 DEF Ahead
    <3>3. CASE u = 4 /\ v # 4
      <4>1. y = 5 /\ z = v /\ i = w1 + m /\ j = w2
        BY <2>3, <2>4, <3>3
      <4>2. 5 > v \/ (v = 5 /\ w1 + m < w2)
        BY <1>5, <4>1 DEF Ahead
      <4>3. 4 > v
        BY <2>5, <2>7, <3>3, <4>2
      <4> QED BY <3>3, <4>3 DEF Ahead
    <3>4. CASE u # 4 /\ v = 4
      BY <1>5, <2>3, <2>4, <2>5, <3>1, <3>4 DEF Ahead
    <3>5. CASE u # 4 /\ v # 4
      BY <1>5, <2>3, <2>4, <3>5 DEF Ahead
    <3> QED BY <3>2, <3>3, <3>4, <3>5
  <2> QED BY <1>5, <2>3, <2>4, <2>8 DEF Ordered
<1>6. Ordered(B, D)
  BY <1>5 DEF Ordered
<1> QED BY <1>6 DEF B, c, s, p

(* The front frame of place x against the others, once it has been taken.  *)
LEMMA FrontOrder ==
    ASSUME NEW A, Filled(A), NEW D, Ordered(A, D), NEW x \in Places, A[x] # <<>>
    PROVE  LET f == Head(A[x])
               B == [A EXCEPT ![x] = Tail(A[x])]
           IN  /\ Filled(B) /\ Ordered(B, D) /\ f \in Frame /\ f \in Elements(A[x])
               /\ \A y \in Places : Elements(B[y]) \subseteq Elements(A[y])
               /\ Fits(B, D, x, 1, f)
<1> DEFINE f == Head(A[x])
           q == Tail(A[x])
           B == [A EXCEPT ![x] = q]
<1>1. A[x] \in Seq(Frame)
  BY DEF Filled
<1>2. /\ f \in Frame /\ f = A[x][1] /\ q \in Seq(Frame)
      /\ Len(q) = Len(A[x]) - 1 /\ Len(A[x]) \in Nat \ {0}
      /\ \A i \in 1 .. Len(A[x]) - 1 : q[i] = A[x][i + 1]
  BY <1>1, HeadTailProperties
<1>3. Filled(B) /\ B[x] = q /\ \A y \in Places : y # x => B[y] = A[y]
  BY <1>2 DEF Filled
<1>4. Ordered(B, D)
  BY CutOrdered
<1>5. Elements(q) \subseteq Elements(A[x])
  BY <1>1, TailElements
<1>6. 1 \in Pos(A, x) /\ f \in Elements(A[x])
  BY <1>2 DEF Pos, Elements
<1> HIDE DEF f, q, B
<1>7. \A y \in Places : Elements(B[y]) \subseteq Elements(A[y])
  BY <1>3, <1>5
<1>8. ASSUME NEW y \in Places, NEW g \in Elements(B[y])
      PROVE  \E u \in Pos(A, y) : g = A[y][u] /\ (y = x => u > 1)
  <2>1. PICK i \in 1 .. Len(B[y]) : g = B[y][i]
    BY DEF Elements
  <2>2. CASE y = x
    <3>1. i \in 1 .. Len(A[x]) - 1
      BY <1>2, <1>3, <2>2
    <3>2. i + 1 \in 1 .. Len(A[x]) /\ i + 1 > 1
      BY <1>2, <3>1
    <3> QED BY <1>2, <1>3, <2>1, <2>2, <3>1, <3>2 DEF Pos
  <2>3. CASE y # x
    BY <1>3, <2>1, <2>3 DEF Pos
  <2> QED BY <2>2, <2>3
<1>9. ASSUME NEW y \in Places, NEW g \in Elements(B[y]), Same(g, f)
      PROVE  /\ y > x \/ (y = x /\ Ends(x, 1)) => Before(g, f, D)
             /\ y < x \/ (y = x /\ ~Ends(x, 1)) => Before(f, g, D)
  <2>1. PICK u \in Pos(A, y) : g = A[y][u] /\ (y = x => u > 1)
    BY <1>8
  <2>2. y > x \/ (y = x /\ Ends(x, 1)) => Ahead(y, u, x, 1)
    BY <2>1 DEF Ahead, Ends
  <2>3. y < x \/ (y = x /\ ~Ends(x, 1)) => Ahead(x, 1, y, u)
    BY <2>1 DEF Ahead, Ends, Places
  <2>4. Same(A[y][u], A[x][1]) /\ Same(A[x][1], A[y][u])
    BY <1>2, <1>9, <2>1 DEF Same
  <2> QED BY <1>2, <1>6, <2>1, <2>2, <2>3, <2>4 DEF Ordered
<1>10. Fits(B, D, x, 1, f)
  BY <1>9 DEF Fits
<1> QED BY <1>2, <1>3, <1>4, <1>6, <1>7, <1>10 DEF f, q, B

(* A frame that is put aside changes places with those of its id that were *)
(* put aside before it, and with no other.                                 *)
LEMMA ToggleBefore ==
    ASSUME NEW D, NEW f, NEW E, E = Toggled(D, f)
    PROVE  /\ \A u, v : u # f /\ v # f => Before(u, v, E) = Before(u, v, D)
           /\ \A g : g # f /\ g \notin Elements(skip) =>
                 Before(f, g, E) = Before(f, g, D) /\ Before(g, f, E) = Before(g, f, D)
           /\ \A g \in Elements(skip) : g.id = f.id => Before(f, g, E) = Before(g, f, D)
<1> DEFINE X == Together(f)
<1>1. \A d : d \in E <=> (d \in D /\ d \notin X) \/ (d \in X /\ d \notin D)
  BY DEF Toggled
<1>2. \A d : d \in X <=> \E g \in Elements(skip) : g.id = f.id /\ d = {f, g}
  BY DEF Together
<1> HIDE DEF X
<1>3. \A u, v : u # f /\ v # f => {u, v} \notin X
  <2> SUFFICES ASSUME NEW u, NEW v, u # f, v # f, NEW g, {u, v} = {f, g} PROVE FALSE
    BY <1>2
  <2>1. f \in {u, v}
    OBVIOUS
  <2> QED BY <2>1
<1>4. \A g : g # f /\ g \notin Elements(skip) => {f, g} \notin X
  <2> SUFFICES ASSUME NEW g, g # f, NEW h \in Elements(skip), g \notin Elements(skip),
                      {f, g} = {f, h}
               PROVE  FALSE
    BY <1>2
  <2>1. g \in {f, h}
    OBVIOUS
  <2> QED BY <2>1
<1>5. \A g \in Elements(skip) : g.id = f.id => {f, g} \in X
  BY <1>2
<1>6. \A g : {f, g} = {g, f}
  OBVIOUS
<1>7. ASSUME NEW u, NEW v, u # f, v # f PROVE Before(u, v, E) = Before(u, v, D)
  <2>1. {u, v} \in E <=> {u, v} \in D
    BY <1>1, <1>3, <1>7
  <2> QED BY <2>1 DEF Before
<1>8. ASSUME NEW g, g # f, g \notin Elements(skip)
      PROVE  Before(f, g, E) = Before(f, g, D) /\ Before(g, f, E) = Before(g, f, D)
  <2>1. {f, g} \in E <=> {f, g} \in D
    BY <1>1, <1>4, <1>8
  <2>2. {g, f} \in E <=> {g, f} \in D
    BY <1>6, <2>1
  <2> QED BY <2>1, <2>2 DEF Before
<1>9. ASSUME NEW g \in Elements(skip), g.id = f.id PROVE Before(f, g, E) = Before(g, f, D)
  <2>1. {f, g} \in E <=> {f, g} \notin D
    BY <1>1, <1>5, <1>9
  <2>2. {f, g} \in E <=> {g, f} \notin D
    BY <1>6, <2>1
  <2> QED BY <2>2 DEF Before
<1> QED BY <1>7, <1>8, <1>9

-----------------------------------------------------------------------------
(* The inductive invariant behind SentInOrder: the order holds at every    *)
(* place; a transmit queue holds its own priority; what a round puts aside *)
(* has the round's priority; no frame changed places before it was queued. *)
OwnQueue == \A p \in Priorities : \A f \in Elements(queue[p]) : f.prio = p
AsideOwn == \A f \in Elements(skip) : f.prio = priority
TurnedMade == \A d \in turned : \A f \in d : f.num <= made
SentInv == Ordered(At, turned) /\ OwnQueue /\ AsideOwn /\ TurnedMade

(* A producer's frame is the newest; the other queues hold other           *)
(* priorities.                                                             *)
LEMMA SendFrameSent ==
    ASSUME TxInv, Conservation, SentInv,
           NEW t \in Producers, NEW id \in Ids, NEW p \in Used, sendFrame(t, id, p)
    PROVE  SentInv'
<1>0. PICK f : f = [id |-> id, prio |-> p, num |-> made + 1]
  OBVIOUS
<1>1. /\ p \in Priorities /\ p \in Places /\ f \in Frame /\ made \in Nat
      /\ At' = [At EXCEPT ![p] = PushBack(At[p], f, QueueMax)]
      /\ skip' = skip /\ UNCHANGED <<priority, turned>> /\ QueueMax \in Nat \ {0}
      /\ f.prio = p /\ f.num = made + 1
  BY <1>0, SendFrameAt, TxAssumption
<1>2. TypeOK /\ Filled(At) /\ (\A r \in Priorities : At[r] = queue[r])
  BY AtPlaces DEF TxInv, RoundInv
<1>3. ASSUME NEW y \in Places, NEW g \in Elements(At[y]), Same(g, f)
      PROVE  Before(g, f, turned) /\ ~(y < p) /\ (y = p => Ends(p, 0))
  <2>1. g.num \in 1 .. made
    BY DEF Conservation, Conserved, Elements, Pos
  <2>2. Before(g, f, turned)
    <3>1. ~(f.num <= made) /\ g.num < f.num
      BY <1>1, <2>1
    <3>2. {g, f} \notin turned
      BY <3>1 DEF SentInv, TurnedMade
    <3> QED BY <3>1, <3>2 DEF Before
  <2>3. ASSUME y < p PROVE FALSE
    <3>1. y \in Priorities /\ y # p
      BY <1>1, <2>3 DEF Priorities, Places
    <3>2. g.prio = y
      BY <1>2, <3>1 DEF SentInv, OwnQueue
    <3> QED BY <1>1, <1>3, <3>1, <3>2 DEF Same
  <2>4. Ends(p, 0)
    BY <1>1 DEF Ends, Priorities
  <2> QED BY <2>2, <2>3, <2>4
<1>4. Ordered([At EXCEPT ![p] = PushBack(At[p], f, QueueMax)], turned)
  <2>1. /\ p \in Places /\ f \in Frame /\ QueueMax \in Nat \ {0}
        /\ Filled(At) /\ Ordered(At, turned)
    BY <1>1, <1>2 DEF SentInv
  <2>2. Fits(At, turned, p, 0, f)
    BY <1>3 DEF Fits
  <2> QED BY <2>1, <2>2, PushBackOrdered
<1>5. Ordered(At, turned)'
  BY <1>1, <1>4 DEF Ordered, Pos
<1>6. OwnQueue'
  <2>1. queue[p] \in Seq(Frame) /\ Len(queue[p]) <= QueueMax
    BY <1>1, <1>2 DEF TypeOK
  <2>2. Elements(PushBack(queue[p], f, QueueMax)) \subseteq Elements(queue[p]) \cup {f}
    BY <1>1, <2>1, PushBackElements
  <2>3. queue' = [queue EXCEPT ![p] = PushBack(queue[p], f, QueueMax)]
    BY <1>0 DEF sendFrame
  <2>4. /\ queue'[p] = PushBack(queue[p], f, QueueMax)
        /\ \A r \in Priorities : r # p => queue'[r] = queue[r]
    BY <1>1, <1>2, <2>3 DEF TypeOK
  <2>5. \A r \in Priorities : \A g \in Elements(queue'[r]) : g.prio = r
    BY <1>1, <2>2, <2>4 DEF SentInv, OwnQueue
  <2> QED BY <2>5 DEF OwnQueue, Elements
<1>7. AsideOwn'
  BY <1>1 DEF SentInv, AsideOwn, Elements
<1>8. TurnedMade'
  <2>1. turned' = turned /\ made' = made + 1 /\ made \in Int
    BY <1>0, <1>1, SendFrameAt
  <2>2. \A d \in turned : \A g \in d : g.num \in Int /\ g.num <= made
    BY <1>2 DEF TypeOK, Frame, SentInv, TurnedMade
  <2> QED BY <2>1, <2>2 DEF TurnedMade
<1> QED BY <1>5, <1>6, <1>7, <1>8 DEF SentInv

(* The frame at the front of the queue is older than the rest of the queue *)
(* and newer than what was put aside, packed or sent; it is packed only    *)
(* when no frame of its id is put aside.                                   *)
LEMMA PackFrameSent ==
    ASSUME TxInv, OrderInv, Conservation, SentInv, packFrame
    PROVE  SentInv'
<1>p. PICK p : p = priority
  OBVIOUS
<1>f. PICK f : f = Head(At[p])
  OBVIOUS
<1>b. PICK B : B = [At EXCEPT ![p] = Tail(At[p])]
  OBVIOUS
<1>1. /\ p \in Priorities /\ p \in Places /\ At[p] # <<>> /\ B[3] = skip /\ B[4] = pack
      /\ priority' = p
      /\ \/ /\ f.id \in PackedIds
            /\ At' = [B EXCEPT ![3] = PushBack(B[3], f, SkipMax)]
            /\ skip' = PushBack(skip, f, SkipMax)
            /\ turned' = Toggled(turned, f)
         \/ /\ f.id \notin PackedIds
            /\ At' = [B EXCEPT ![4] = Append(B[4], f)]
            /\ UNCHANGED <<skip, turned>>
  BY <1>p, <1>f, <1>b, PackFrameAt
<1>2. /\ TypeOK /\ Filled(At) /\ (\A r \in Priorities : At[r] = queue[r])
      /\ 3 \in Places /\ 4 \in Places
  BY AtPlaces DEF TxInv, RoundInv
<1>3. /\ Filled(B) /\ Ordered(B, turned) /\ f \in Frame /\ f \in Elements(At[p])
      /\ \A y \in Places : Elements(B[y]) \subseteq Elements(At[y])
      /\ Fits(B, turned, p, 1, f)
  <2>1. p \in Places /\ At[p] # <<>> /\ Filled(At) /\ Ordered(At, turned)
    BY <1>1, <1>2 DEF SentInv
  <2> QED BY <1>f, <1>b, <2>1, FrontOrder
<1>4. f.prio = p
  BY <1>1, <1>2, <1>3 DEF SentInv, OwnQueue
(* A queued frame of f's priority is in f's own queue.                     *)
<1>5. ASSUME NEW y \in Places, y < 3, NEW g \in Elements(B[y]), g.prio = f.prio
      PROVE  y = p
  <2>1. y \in Priorities
    BY <1>5 DEF Priorities, Places
  <2> QED BY <1>2, <1>3, <1>4, <1>5, <2>1 DEF SentInv, OwnQueue
<1>6. /\ made' = made /\ f.num \in 1 .. made
      /\ \A y \in Places : \A g \in Elements(B[y]) : g.num \in (1 .. made) \ {f.num}
  <2>1. /\ p \in Places /\ At[p] # <<>> /\ made \in Int /\ made' = made
        /\ Conserved(At, lost, 1 .. made, made)
    BY <1>1, <1>p, PackFrameAt DEF Conservation
  <2>2. f.num \in 1 .. made /\ Conserved(B, lost, (1 .. made) \ {f.num}, made - 1)
    BY <1>f, <1>b, <2>1, TakeFront
  <2> QED BY <2>1, <2>2 DEF Conserved, Elements, Pos
<1>7. ASSUME NEW y \in Places, NEW g \in Elements(B[y]), Same(g, f)
      PROVE  /\ y > p => Before(g, f, turned)
             /\ y <= p => Before(f, g, turned)
             /\ g # f
  <2>1. ~Ends(p, 1)
    BY <1>1 DEF Ends, Priorities
  <2>2. y <= p => y < p \/ y = p
    BY <1>1 DEF Places
  <2> QED BY <1>3, <1>6, <1>7, <2>1, <2>2 DEF Fits
<1>8. OwnQueue'
  <2>1. queue' = [queue EXCEPT ![p] = Tail(queue[p])]
    BY <1>p DEF packFrame
  <2>2. queue[p] \in Seq(Frame) /\ queue[p] # <<>>
    BY <1>1, <1>2 DEF TypeOK
  <2>3. Elements(Tail(queue[p])) \subseteq Elements(queue[p])
    BY <2>2, TailElements
  <2>4. /\ queue'[p] = Tail(queue[p])
        /\ \A r \in Priorities : r # p => queue'[r] = queue[r]
    BY <1>1, <1>2, <2>1 DEF TypeOK
  <2>5. \A r \in Priorities : \A g \in Elements(queue'[r]) : g.prio = r
    BY <2>3, <2>4 DEF SentInv, OwnQueue
  <2> QED BY <2>5 DEF OwnQueue, Elements
<1>9. CASE f.id \in PackedIds
  <2>1. /\ At' = [B EXCEPT ![3] = PushBack(B[3], f, SkipMax)]
        /\ skip' = PushBack(skip, f, SkipMax)
        /\ turned' = Toggled(turned, f)
    BY <1>1, <1>9
  <2>t. PICK E : E = turned'
    OBVIOUS
  <2>e. /\ \A u, v : u # f /\ v # f => Before(u, v, E) = Before(u, v, turned)
        /\ \A g : g # f /\ g \notin Elements(skip) =>
              Before(f, g, E) = Before(f, g, turned) /\ Before(g, f, E) = Before(g, f, turned)
        /\ \A g \in Elements(skip) : g.id = f.id => Before(f, g, E) = Before(g, f, turned)
    BY <2>1, <2>t, ToggleBefore
  <2>a. Apart(B)
    <3>1. /\ p \in Places /\ At[p] # <<>> /\ made \in Int
          /\ Conserved(At, lost, 1 .. made, made)
      BY <1>1, <1>2 DEF Conservation, TypeOK
    <3>2. Conserved(B, lost, (1 .. made) \ {f.num}, made - 1)
      BY <1>f, <1>b, <3>1, TakeFront
    <3> QED BY <3>2, ConservedApart
  <2>n. ASSUME NEW y \in Places, NEW g \in Elements(B[y]), y # 3 PROVE g \notin Elements(skip)
    <3> SUFFICES ASSUME g \in Elements(B[3]) PROVE FALSE
      BY <1>1
    <3>1. PICK i \in Pos(B, y) : g = B[y][i]
      BY DEF Elements, Pos
    <3>2. PICK j \in Pos(B, 3) : g = B[3][j]
      BY DEF Elements, Pos
    <3>3. B[y][i].num = B[3][j].num
      BY <3>1, <3>2
    <3> QED BY <1>2, <2>a, <2>n, <3>3 DEF Apart
  <2>2. ASSUME NEW y \in Places, NEW g \in Elements(B[y]), Same(g, f)
        PROVE  /\ y > 3 \/ (y = 3 /\ Ends(3, 0)) => Before(g, f, E)
               /\ y < 3 \/ (y = 3 /\ ~Ends(3, 0)) => Before(f, g, E)
    <3>0. ~Ends(3, 0)
      BY DEF Ends
    <3>1. g # f /\ g.id = f.id /\ g.prio = f.prio
      BY <1>7, <2>2 DEF Same
    <3>2. y >= 3 => y > p
      BY <1>1 DEF Priorities, Places
    <3>3. y < 3 => y <= p /\ y # 3
      BY <1>1, <1>5, <3>1 DEF Priorities
    <3>4. CASE y = 3
      <4>1. g \in Elements(skip)
        BY <1>1, <3>4
      <4>2. Before(g, f, turned)
        BY <1>7, <2>2, <3>2, <3>4
      <4> QED BY <2>e, <3>0, <3>1, <3>4, <4>1, <4>2
    <3>5. CASE y # 3
      <4>1. g \notin Elements(skip)
        BY <2>n, <3>5
      <4>2. y > 3 => Before(g, f, turned)
        BY <1>7, <2>2, <3>2 DEF Places
      <4>3. y < 3 => Before(f, g, turned)
        BY <1>7, <2>2, <3>3
      <4> QED BY <2>e, <3>1, <3>5, <4>1, <4>2, <4>3
    <3> QED BY <3>4, <3>5
  <2>o. Ordered(B, E)
    <3>1. \A y \in Places : \A i \in Pos(B, y) : B[y][i] # f
      BY <1>6 DEF Elements, Pos
    <3>2. \A y, z \in Places : \A i \in Pos(B, y), j \in Pos(B, z) :
             Before(B[y][i], B[z][j], E) = Before(B[y][i], B[z][j], turned)
      BY <2>e, <3>1
    <3> QED BY <1>3, <3>2 DEF Ordered
  <2>3. Ordered([B EXCEPT ![3] = PushBack(B[3], f, SkipMax)], E)
    <3>1. /\ 3 \in Places /\ Filled(B) /\ Ordered(B, E) /\ f \in Frame
          /\ SkipMax \in Nat \ {0}
      BY <1>2, <1>3, <2>o, TxAssumption
    <3>2. Fits(B, E, 3, 0, f)
      BY <2>2 DEF Fits
    <3> QED BY <3>1, <3>2, PushBackOrdered
  <2>4. Ordered(At, turned)'
    BY <2>1, <2>3, <2>t DEF Ordered, Pos
  <2>5. skip \in Seq(Frame) /\ Len(skip) <= SkipMax /\ SkipMax \in Nat \ {0} /\ f \in Frame
    BY <1>2, <1>3, TxAssumption DEF TypeOK
  <2>6. Elements(skip') \subseteq Elements(skip) \cup {f}
    BY <2>1, <2>5, PushBackElements
  <2>7. Elements(skip)' = Elements(skip')
    BY DEF Elements
  <2>8. AsideOwn'
    BY <1>1, <1>4, <1>p, <2>6, <2>7 DEF SentInv, AsideOwn
  <2>9. TurnedMade'
    <3>1. \A g \in Elements(skip) : g.num \in 1 .. made
      BY <1>1, <1>2, <1>6
    <3>2. \A d \in Together(f) : \A g \in d : g = f \/ g \in Elements(skip)
      BY DEF Together
    <3>3. \A d \in turned' : d \in turned \/ d \in Together(f)
      BY <2>1 DEF Toggled
    <3>4. \A g : g.num \in 1 .. made => g.num <= made
      OBVIOUS
    <3>5. \A d \in turned' : \A g \in d : g.num <= made
      BY <1>6, <3>1, <3>2, <3>3, <3>4 DEF SentInv, TurnedMade
    <3> QED BY <1>6, <3>5 DEF TurnedMade
  <2> QED BY <1>8, <2>4, <2>8, <2>9 DEF SentInv
<1>10. CASE f.id \notin PackedIds
  <2>1. At' = [B EXCEPT ![4] = Append(B[4], f)] /\ UNCHANGED <<skip, turned>>
    BY <1>1, <1>10
  <2>2. ASSUME NEW y \in Places, NEW g \in Elements(B[y]), Same(g, f)
        PROVE  (y >= 4 => Before(g, f, turned)) /\ (y < 4 => Before(f, g, turned))
    <3>1. g.prio = f.prio /\ g.id = f.id
      BY <2>2 DEF Same
    <3>2. y >= 4 => y > p
      BY <1>1 DEF Priorities, Places
    <3>3. y # 3
      BY <1>1, <1>10, <3>1 DEF OrderInv, AsidePacked
    <3>4. y < 4 => y = p
      BY <1>5, <3>1, <3>3 DEF Places
    <3>5. y < 4 => y <= p
      BY <1>1, <3>4 DEF Priorities
    <3> QED BY <1>7, <2>2, <3>2, <3>5
  <2>3. Ordered([B EXCEPT ![4] = Append(B[4], f)], turned)
    <3>1. 4 \in Places /\ Filled(B) /\ Ordered(B, turned) /\ f \in Frame
      BY <1>2, <1>3
    <3>2. Fits(B, turned, 4, 0, f)
      BY <2>2 DEF Fits, Ends, Places
    <3> QED BY <3>1, <3>2, AppendOrdered
  <2>4. Ordered(At, turned)'
    BY <2>1, <2>3 DEF Ordered, Pos
  <2>5. AsideOwn' /\ TurnedMade'
    BY <1>1, <1>6, <1>p, <2>1 DEF SentInv, AsideOwn, TurnedMade, Elements
  <2> QED BY <1>8, <2>4, <2>5 DEF SentInv
<1> QED BY <1>9, <1>10

(* A frame that returns from the skip queue stands before its whole queue  *)
(* and behind what is still put aside.                                     *)
LEMMA RestoreFrameSent ==
    ASSUME TxInv, Conservation, SentInv, restoreFrame
    PROVE  SentInv'
<1>p. PICK p : p = priority
  OBVIOUS
<1>f. PICK f : f = Head(At[3])
  OBVIOUS
<1>b. PICK B : B = [At EXCEPT ![3] = Tail(At[3])]
  OBVIOUS
<1>1. /\ p \in Priorities /\ p \in Places /\ 3 \in Places /\ At[3] # <<>> /\ At[3] = skip
      /\ made \in Nat
      /\ At' = [B EXCEPT ![p] = PushFront(B[p], f, QueueMax)]
      /\ skip' = Tail(skip) /\ UNCHANGED <<priority, turned>>
  BY <1>p, <1>f, <1>b, RestoreFrameAt
<1>2. TypeOK /\ Filled(At) /\ (\A r \in Priorities : At[r] = queue[r])
  BY AtPlaces DEF TxInv, RoundInv
<1>3. /\ Filled(B) /\ Ordered(B, turned) /\ f \in Frame /\ f \in Elements(At[3])
      /\ \A y \in Places : Elements(B[y]) \subseteq Elements(At[y])
      /\ Fits(B, turned, 3, 1, f)
  <2>1. 3 \in Places /\ At[3] # <<>> /\ Filled(At) /\ Ordered(At, turned)
    BY <1>1, <1>2 DEF SentInv
  <2> QED BY <1>f, <1>b, <2>1, FrontOrder
<1>4. f.prio = p
  BY <1>1, <1>3, <1>p DEF SentInv, AsideOwn
<1>5. ASSUME NEW y \in Places, y < 3, NEW g \in Elements(B[y]), g.prio = f.prio
      PROVE  y = p
  <2>1. y \in Priorities
    BY <1>5 DEF Priorities, Places
  <2> QED BY <1>2, <1>3, <1>4, <1>5, <2>1 DEF SentInv, OwnQueue
<1>7. ASSUME NEW y \in Places, NEW g \in Elements(B[y]), Same(g, f)
      PROVE  (y > p => Before(g, f, turned)) /\ (y <= p => Before(f, g, turned))
  <2>1. y < 3 => y = p
    BY <1>5, <1>7 DEF Same
  <2>2. (y > p => y >= 3) /\ (y <= p => y < 3)
    BY <1>1, <2>1 DEF Priorities, Places
  <2>3. Ends(3, 1) /\ (y >= 3 => y > 3 \/ y = 3)
    BY DEF Ends, Places
  <2> QED BY <1>3, <1>7, <2>2, <2>3 DEF Fits
<1>8. Ordered([B EXCEPT ![p] = PushFront(B[p], f, QueueMax)], turned)
  <2>1. /\ p \in Places /\ Filled(B) /\ Ordered(B, turned) /\ f \in Frame
        /\ QueueMax \in Nat \ {0}
    BY <1>1, <1>3, TxAssumption
  <2>2. Fits(B, turned, p, 1, f)
    <3>1. ~Ends(p, 1)
      BY <1>1 DEF Ends, Priorities
    <3>2. \A y \in Places : y < p \/ y = p => y <= p
      BY <1>1 DEF Places
    <3> QED BY <1>7, <3>1, <3>2 DEF Fits
  <2> QED BY <2>1, <2>2, PushFrontOrdered
<1>9. Ordered(At, turned)'
  <2>1. PICK C : C = [B EXCEPT ![p] = PushFront(B[p], f, QueueMax)]
    OBVIOUS
  <2>2. At' = C /\ turned' = turned /\ Ordered(C, turned)
    BY <1>1, <1>8, <2>1
  <2> QED BY <2>2 DEF Ordered, Pos
<1>10. OwnQueue'
  <2>1. queue' = [queue EXCEPT ![p] = PushFront(queue[p], f, QueueMax)]
    BY <1>1, <1>f, <1>p DEF restoreFrame
  <2>2. /\ queue[p] \in Seq(Frame) /\ Len(queue[p]) <= QueueMax /\ f \in Frame
        /\ QueueMax \in Nat \ {0}
    BY <1>1, <1>2, <1>3, TxAssumption DEF TypeOK
  <2>3. Elements(PushFront(queue[p], f, QueueMax)) \subseteq Elements(queue[p]) \cup {f}
    BY <2>2, PushFrontElements
  <2>4. /\ queue'[p] = PushFront(queue[p], f, QueueMax)
        /\ \A r \in Priorities : r # p => queue'[r] = queue[r]
    BY <1>1, <1>2, <2>1 DEF TypeOK
  <2>5. \A r \in Priorities : \A g \in Elements(queue'[r]) : g.prio = r
    BY <1>4, <2>3, <2>4 DEF SentInv, OwnQueue
  <2> QED BY <2>5 DEF OwnQueue, Elements
<1>11. AsideOwn'
  <2>1. skip \in Seq(Frame) /\ skip # <<>>
    BY <1>1, <1>2 DEF TypeOK
  <2>2. Elements(skip') \subseteq Elements(skip)
    BY <1>1, <2>1, TailElements
  <2>3. Elements(skip)' = Elements(skip')
    BY DEF Elements
  <2> QED BY <1>1, <2>2, <2>3 DEF SentInv, AsideOwn
<1>12. TurnedMade'
  BY <1>1 DEF SentInv, TurnedMade, restoreFrame
<1> QED BY <1>9, <1>10, <1>11, <1>12 DEF SentInv

(* The steps that move no frame change the priority only between two       *)
(* rounds.                                                                 *)
LEMMA ControlSent ==
    ASSUME TxInv, SentInv,
           \/ \E t \in Producers : signal(t)
           \/ sendThreadLock \/ sendThreadWake \/ spuriousWakeup \/ packDone
           \/ nextPriority \/ UNCHANGED vars
    PROVE  SentInv'
<1>1. UNCHANGED <<queue, skip, pack, made, sent, turned>>
  BY DEF signal, sendThreadLock, sendThreadWake, spuriousWakeup, packDone, nextPriority, vars
<1>2. skip = <<>> \/ priority' = priority
  BY DEF signal, sendThreadLock, sendThreadWake, spuriousWakeup, packDone, nextPriority, vars,
         TxInv, RoundInv, BetweenRounds
<1>3. At' = At
  BY <1>1 DEF At
<1>4. Ordered(At, turned)'
  BY <1>1, <1>3 DEF SentInv, Ordered, Pos
<1>5. OwnQueue' /\ TurnedMade'
  BY <1>1 DEF SentInv, OwnQueue, TurnedMade, Elements
<1>6. AsideOwn'
  <2>1. CASE skip = <<>>
    BY <1>1, <2>1 DEF AsideOwn, Elements
  <2>2. CASE priority' = priority
    BY <1>1, <2>2 DEF SentInv, AsideOwn, Elements
  <2> QED BY <1>2, <2>1, <2>2
<1> QED BY <1>4, <1>5, <1>6 DEF SentInv

(* The pack goes behind what was sent.                                     *)
LEMMA SendPackSent ==
    ASSUME TxInv, SentInv, sendPack
    PROVE  SentInv'
<1>1. Filled(At)
  BY AtPlaces DEF TxInv, RoundInv
<1>2. At' = [At EXCEPT ![5] = At[5] \o At[4], ![4] = <<>>]
  BY SendPackAt
<1>3. Ordered([At EXCEPT ![5] = At[5] \o At[4], ![4] = <<>>], turned)
  BY <1>1, SendOrdered DEF SentInv
<1>4. UNCHANGED <<queue, skip, priority, made, turned>>
  BY DEF sendPack
<1>5. Ordered(At, turned)'
  BY <1>2, <1>3, <1>4 DEF Ordered, Pos
<1>6. OwnQueue' /\ AsideOwn' /\ TurnedMade'
  BY <1>4 DEF SentInv, OwnQueue, AsideOwn, TurnedMade, Elements
<1> QED BY <1>5, <1>6 DEF SentInv

(* Initially there is no frame out of order.                               *)
LEMMA InitSent == Init => SentInv
<1> SUFFICES ASSUME Init PROVE SentInv
  OBVIOUS
<1>1. TypeOK
  BY InitTxInv DEF TxInv, RoundInv
<1>2. \A x \in Places : At[x] = <<>>
  BY <1>1, AtPlaces DEF Init
<1>3. \A x \in Places : Pos(At, x) = {}
  BY <1>2 DEF Pos
<1> QED BY <1>3 DEF SentInv, Ordered, Init, OwnQueue, AsideOwn, TurnedMade, Elements

(* The inductive step.                                                     *)
LEMMA NextSent == TxInv /\ OrderInv /\ Conservation /\ SentInv /\ [Next]_vars => SentInv'
BY SendFrameSent, PackFrameSent, RestoreFrameSent, ControlSent, SendPackSent
   DEF Next, sendThread

(* Frames of one id and priority leave in the order in which               *)
(* CSTx_sendFrame queued them, two of them in the reverse order exactly if *)
(* an odd number of rounds put both aside, for all capacities.             *)
THEOREM TxSentInOrder == Spec => []SentInOrder
<1>1. TxInv /\ SentInv => SentInOrder
  <2> SUFFICES ASSUME TxInv, SentInv PROVE SentInOrder
    OBVIOUS
  <2>1. At[5] = sent /\ 5 \in Places
    BY AtPlaces DEF TxInv, RoundInv
  <2>2. \A i, j \in 1 .. Len(sent) : i < j => Ahead(5, i, 5, j)
    BY DEF Ahead
  <2> QED BY <2>1, <2>2 DEF SentInv, Ordered, Same, Before, Pos, SentInOrder
<1> QED BY <1>1, InitSent, NextSent, InitTxInv, NextTxInv, InitOrder, NextOrder,
        InitConserved, NextConserves, PTL DEF Spec

-----------------------------------------------------------------------------
(* CSTx implements FrameService.  The pending frames are those at the      *)
(* places 0 .. 4.                                                          *)
Inside == 0 .. 4
PendingOf(A) == UNION {Elements(A[x]) : x \in Inside}

(* The pending frames of the state.                                        *)
LEMMA PendingIs == TypeOK => Pending = PendingOf(At)
<1> SUFFICES ASSUME TypeOK PROVE Pending = PendingOf(At)
  OBVIOUS
<1>1. /\ At[3] = skip /\ At[4] = pack /\ \A p \in Priorities : At[p] = queue[p]
  BY AtPlaces
<1>2. (\A x \in Inside : x \in Priorities \/ x = 3 \/ x = 4)
      /\ 3 \in Inside /\ 4 \in Inside /\ \A p \in Priorities : p \in Inside
  BY DEF Priorities, Inside
<1> HIDE DEF Priorities
<1>0. \A f : f \in Pending <=> \/ f \in Elements(skip) \/ f \in Elements(pack)
                              \/ \E p \in Priorities : f \in Elements(queue[p])
  <2>1. \A f : f \in UNION {Elements(queue[p]) : p \in Priorities}
               <=> \E p \in Priorities : f \in Elements(queue[p])
    OBVIOUS
  <2>2. \A f : f \in Pending <=> \/ f \in UNION {Elements(queue[p]) : p \in Priorities}
                                \/ f \in Elements(skip) \/ f \in Elements(pack)
    BY DEF Pending
  <2> QED BY <2>1, <2>2, Zenon
<1>3. ASSUME NEW f \in Pending PROVE f \in PendingOf(At)
  <2>1. CASE f \in Elements(skip)
    BY <1>1, <1>2, <2>1 DEF PendingOf
  <2>2. CASE f \in Elements(pack)
    BY <1>1, <1>2, <2>2 DEF PendingOf
  <2>3. CASE \E p \in Priorities : f \in Elements(queue[p])
    BY <1>1, <1>2, <2>3 DEF PendingOf
  <2> QED BY <1>0, <2>1, <2>2, <2>3
<1>4. ASSUME NEW f \in PendingOf(At) PROVE f \in Pending
  <2>1. PICK x \in Inside : f \in Elements(At[x])
    BY DEF PendingOf
  <2>2. x \in Priorities \/ x = 3 \/ x = 4
    BY <1>2
  <2>3. f \in Elements(skip) \/ f \in Elements(pack)
        \/ \E p \in Priorities : f \in Elements(queue[p])
    BY <1>1, <2>1, <2>2
  <2> QED BY <1>0, <2>3
<1> QED BY <1>3, <1>4

(* A frame is pending where it is at one of the places.                    *)
LEMMA InPlace ==
    ASSUME NEW A, NEW x \in Inside, NEW i \in Pos(A, x)
    PROVE  A[x][i] \in PendingOf(A)
<1>1. A[x][i] \in Elements(A[x])
  BY DEF Elements, Pos
<1> QED BY <1>1 DEF PendingOf

LEMMA PlaceOf ==
    ASSUME NEW A, NEW f \in PendingOf(A)
    PROVE  \E x \in Inside : \E i \in Pos(A, x) : f = A[x][i]
<1>1. PICK x \in Inside : f \in Elements(A[x])
  BY DEF PendingOf
<1> QED BY <1>1 DEF Elements, Pos

(* The places with another sequence at one of them.                        *)
Put(A, x, s) == [A EXCEPT ![x] = s]

(* The front frame of a place is taken away: it is not pending any more.   *)
LEMMA TakePending ==
    ASSUME NEW A, Apart(A), NEW x \in Inside, A[x] # <<>>
    PROVE  /\ PendingOf(Put(A, x, Tail(A[x]))) = PendingOf(A) \ {Head(A[x])}
           /\ Head(A[x]) \in PendingOf(A) /\ Head(A[x]) \in Frame
           /\ Filled(Put(A, x, Tail(A[x])))
<1> DEFINE f == Head(A[x])
           q == Tail(A[x])
           B == [A EXCEPT ![x] = q]
<1>1. A \in [Places -> Seq(Frame)] /\ x \in Places /\ A[x] \in Seq(Frame)
      /\ \A y \in Inside : y \in Places
  BY DEF Apart, Filled, Places, Inside
<1>2. /\ f = A[x][1] /\ f \in Frame /\ q \in Seq(Frame) /\ Len(A[x]) \in Nat \ {0}
      /\ Len(q) = Len(A[x]) - 1 /\ \A i \in 1 .. Len(A[x]) - 1 : q[i] = A[x][i + 1]
  BY <1>1, HeadTailProperties
<1>3. B[x] = q /\ (\A y \in Places : y # x => B[y] = A[y]) /\ Filled(B)
  BY <1>1, <1>2 DEF Filled
<1>4. 1 \in Pos(A, x)
  BY <1>2 DEF Pos
<1>5. f \in PendingOf(A)
  BY <1>2, <1>4, InPlace
<1> HIDE DEF f, q, B
<1>6. ASSUME NEW g \in PendingOf(B) PROVE g \in PendingOf(A) /\ g # f
  <2>1. PICK y \in Inside : \E i \in Pos(B, y) : g = B[y][i]
    BY PlaceOf
  <2>2. PICK i \in Pos(B, y) : g = B[y][i]
    BY <2>1
  <2>3. \E j \in Pos(A, y) : g = A[y][j] /\ (y = x => j # 1)
    <3>1. CASE y = x
      <4>1. i \in 1 .. Len(A[x]) - 1
        BY <1>2, <1>3, <2>2, <3>1 DEF Pos
      <4>2. i + 1 \in 1 .. Len(A[x]) /\ i + 1 # 1 /\ g = A[x][i + 1]
        BY <1>2, <1>3, <2>2, <3>1, <4>1
      <4> QED BY <3>1, <4>2 DEF Pos
    <3>2. CASE y # x
      BY <1>1, <1>3, <2>2, <3>2 DEF Pos
    <3> QED BY <3>1, <3>2
  <2>4. PICK j \in Pos(A, y) : g = A[y][j] /\ (y = x => j # 1)
    BY <2>3
  <2>5. g \in PendingOf(A)
    BY <2>4, InPlace
  <2>6. ASSUME g = f PROVE FALSE
    <3>1. A[y][j].num = A[x][1].num
      BY <1>2, <2>4, <2>6
    <3>2. y = x /\ j = 1
      BY <1>1, <1>4, <3>1 DEF Apart
    <3> QED BY <2>4, <3>2
  <2> QED BY <2>5, <2>6
<1>7. ASSUME NEW g \in PendingOf(A), g # f PROVE g \in PendingOf(B)
  <2>1. PICK y \in Inside : \E i \in Pos(A, y) : g = A[y][i]
    BY PlaceOf
  <2>2. PICK i \in Pos(A, y) : g = A[y][i]
    BY <2>1
  <2>3. CASE y = x
    <3>1. i \in 1 .. Len(A[x]) /\ i # 1
      BY <1>2, <1>7, <2>2, <2>3 DEF Pos
    <3>2. i - 1 \in 1 .. Len(A[x]) - 1 /\ (i - 1) + 1 = i
      BY <1>2, <3>1
    <3>3. i - 1 \in Pos(B, x) /\ B[x][i - 1] = g
      BY <1>2, <1>3, <2>2, <2>3, <3>2 DEF Pos
    <3> QED BY <3>3, InPlace
  <2>4. CASE y # x
    <3>1. i \in Pos(B, y) /\ B[y][i] = g
      BY <1>1, <1>3, <2>2, <2>4 DEF Pos
    <3> QED BY <3>1, InPlace
  <2> QED BY <2>3, <2>4
<1>8. PendingOf(B) = PendingOf(A) \ {f}
  BY <1>6, <1>7
<1> QED BY <1>2, <1>3, <1>5, <1>8 DEF f, q, B, Put

(* One more frame at a place is one more frame pending.                    *)
OneMore(A, x, f, B) ==
    \E s : B = [A EXCEPT ![x] = s] /\ Elements(s) = Elements(A[x]) \cup {f}

LEMMA PutPending ==
    ASSUME NEW A, Filled(A), NEW x \in Inside, NEW f, NEW B, OneMore(A, x, f, B)
    PROVE  PendingOf(B) = PendingOf(A) \cup {f}
<1>0. PICK s : B = [A EXCEPT ![x] = s] /\ Elements(s) = Elements(A[x]) \cup {f}
  BY DEF OneMore
<1>1. x \in Places /\ \A y \in Inside : y \in Places
  BY DEF Places, Inside
<1>2. B[x] = s /\ \A y \in Places : y # x => B[y] = A[y]
  BY <1>0, <1>1 DEF Filled
<1>3. /\ Elements(B[x]) = Elements(A[x]) \cup {f}
      /\ \A y \in Inside : y # x => Elements(B[y]) = Elements(A[y])
  BY <1>0, <1>1, <1>2, Zenon
<1>4. PendingOf(B) \subseteq PendingOf(A) \cup {f}
  BY <1>3 DEF PendingOf
<1>5. PendingOf(A) \cup {f} \subseteq PendingOf(B)
  BY <1>3 DEF PendingOf
<1> QED BY <1>4, <1>5

(* What a sequence holds with one more element at an end.                  *)
LEMMA BackElements ==
    ASSUME NEW S, NEW q \in Seq(S), NEW d \in S
    PROVE  Elements(Append(q, d)) = Elements(q) \cup {d}
<1>1. /\ Len(q) \in Nat /\ Len(Append(q, d)) = Len(q) + 1
      /\ \A i \in 1 .. Len(q) : Append(q, d)[i] = q[i]
      /\ Append(q, d)[Len(q) + 1] = d
  BY AppendProperties
<1>2. \A i : i \in 1 .. Len(q) + 1 <=> i \in 1 .. Len(q) \/ i = Len(q) + 1
  BY <1>1
<1>3. Elements(Append(q, d)) \subseteq Elements(q) \cup {d}
  BY <1>1, <1>2 DEF Elements
<1>4. Elements(q) \cup {d} \subseteq Elements(Append(q, d))
  BY <1>1, <1>2 DEF Elements
<1> QED BY <1>3, <1>4

LEMMA FrontElements ==
    ASSUME NEW S, NEW q \in Seq(S), NEW d \in S
    PROVE  Elements(<<d>> \o q) = Elements(q) \cup {d}
<1>1. Len(q) \in Nat
  OBVIOUS
<1>4. <<d>> \in Seq(S) /\ Len(<<d>>) = 1 /\ <<d>>[1] = d
  OBVIOUS
<1>5. /\ Len(<<d>> \o q) = 1 + Len(q)
      /\ \A i \in 1 .. 1 + Len(q) : (<<d>> \o q)[i] = IF i <= 1 THEN <<d>>[i] ELSE q[i - 1]
  BY <1>1, <1>4, ConcatProperties
<1>6. \A i \in 1 .. 1 + Len(q) : i = 1 \/ (~(i <= 1) /\ i - 1 \in 1 .. Len(q))
  BY <1>1
<1>7. \A i \in 1 .. Len(q) : i + 1 \in 1 .. 1 + Len(q) /\ ~(i + 1 <= 1) /\ (i + 1) - 1 = i
  BY <1>1
<1>8. 1 \in 1 .. 1 + Len(q) /\ (<<d>> \o q)[1] = d
  BY <1>1, <1>4, <1>5
<1>9. Elements(<<d>> \o q) \subseteq Elements(q) \cup {d}
  BY <1>4, <1>5, <1>6 DEF Elements
<1>10. \A i \in 1 .. Len(q) : (<<d>> \o q)[i + 1] = q[i]
  BY <1>5, <1>7
<1>11. Elements(q) \cup {d} \subseteq Elements(<<d>> \o q)
  <2>1. d \in Elements(<<d>> \o q)
    BY <1>5, <1>8 DEF Elements
  <2>2. ASSUME NEW i \in 1 .. Len(q) PROVE q[i] \in Elements(<<d>> \o q)
    <3>1. i + 1 \in 1 .. Len(<<d>> \o q)
      BY <1>5, <1>7
    <3> QED BY <1>10, <3>1 DEF Elements
  <2> QED BY <2>1, <2>2 DEF Elements
<1> QED BY <1>9, <1>11

(* A bounded insertion at either end: the frame is pending, the discarded  *)
(* one is not.                                                             *)
LEMMA PushPending ==
    ASSUME NEW A, Apart(A), NEW x \in Inside, NEW f \in Frame, NEW cap \in Nat \ {0}
    PROVE  /\ PendingOf(Put(A, x, PushBack(A[x], f, cap)))
                 = (PendingOf(A) \ Discarded(A[x], cap)) \cup {f}
           /\ PendingOf(Put(A, x, PushFront(A[x], f, cap)))
                 = (PendingOf(A) \ Discarded(A[x], cap)) \cup {f}
<1> DEFINE r == MakeRoom(A[x], cap)
           B == [A EXCEPT ![x] = r]
           M == PendingOf(A) \ Discarded(A[x], cap)
           u == Append(r, f)
           v == <<f>> \o r
<1>1. A \in [Places -> Seq(Frame)] /\ x \in Places /\ A[x] \in Seq(Frame)
  BY DEF Apart, Filled, Places, Inside
<1>2. PendingOf(B) = M /\ Filled(B)
  <2>1. CASE Len(A[x]) = cap
    <3>1. A[x] # <<>>
      BY <2>1
    <3> QED BY <2>1, <3>1, TakePending DEF MakeRoom, Discarded, Put
  <2>2. CASE Len(A[x]) # cap
    <3>1. [A EXCEPT ![x] = A[x]] = A
      BY <1>1
    <3> QED BY <1>1, <2>2, <3>1 DEF MakeRoom, Discarded, Filled
  <2> QED BY <2>1, <2>2
<1>3. /\ B[x] = r /\ r \in Seq(Frame)
      /\ [B EXCEPT ![x] = u] = [A EXCEPT ![x] = u]
      /\ [B EXCEPT ![x] = v] = [A EXCEPT ![x] = v]
  BY <1>1, <1>2 DEF Filled
<1>p. PushBack(A[x], f, cap) = u /\ PushFront(A[x], f, cap) = v
  BY DEF PushBack, PushFront
<1> HIDE DEF r, B, M
<1>4. Elements(u) = Elements(B[x]) \cup {f} /\ Elements(v) = Elements(B[x]) \cup {f}
  BY <1>3, BackElements, FrontElements
<1> HIDE DEF u, v
<1>5. PendingOf([B EXCEPT ![x] = u]) = M \cup {f}
  <2>1. Filled(B)
    BY <1>2
  <2>2. PICK C : C = [B EXCEPT ![x] = u]
    OBVIOUS
  <2>3. OneMore(B, x, f, C)
    BY <1>4, <2>2 DEF OneMore
  <2>4. PendingOf(C) = PendingOf(B) \cup {f}
    BY <2>1, <2>3, PutPending
  <2> QED BY <1>2, <2>2, <2>4
<1>6. PendingOf([B EXCEPT ![x] = v]) = M \cup {f}
  <2>1. Filled(B)
    BY <1>2
  <2>2. PICK C : C = [B EXCEPT ![x] = v]
    OBVIOUS
  <2>3. OneMore(B, x, f, C)
    BY <1>4, <2>2 DEF OneMore
  <2>4. PendingOf(C) = PendingOf(B) \cup {f}
    BY <2>1, <2>3, PutPending
  <2> QED BY <1>2, <2>2, <2>4
<1> QED BY <1>3, <1>5, <1>6, <1>p DEF M, Put

(* A sequence has finitely many elements, as many as its length if no two  *)
(* are equal.                                                              *)
LEMMA ElementsCount ==
    ASSUME NEW S, NEW q \in Seq(S)
    PROVE  /\ IsFiniteSet(Elements(q))
           /\ (\A i, j \in 1 .. Len(q) : q[i] = q[j] => i = j) => Cardinality(Elements(q)) = Len(q)
<1> DEFINE n == 1 .. Len(q)
           T == Elements(q)
           g == [i \in n |-> q[i]]
<1>1. Len(q) \in Nat /\ IsFiniteSet(n) /\ Cardinality(n) = Len(q)
  <2>1. Len(q) \in Nat
    OBVIOUS
  <2>2. IsFiniteSet(n) /\ Cardinality(n) = IF 1 > Len(q) THEN 0 ELSE Len(q) - 1 + 1
    BY <2>1, FS_Interval
  <2> QED BY <2>1, <2>2
<1>2. \A i \in n : g[i] \in T
  BY DEF Elements
<1>3. \A e \in T : \E i \in n : g[i] = e
  BY DEF Elements
<1>4. g \in Surjection(n, T)
  <2>1. g \in [n -> T]
    BY <1>2
  <2> HIDE DEF g, n, T
  <2> QED BY <1>3, <2>1 DEF Surjection
<1>5. (\A i, j \in n : q[i] = q[j] => i = j) => g \in Injection(n, T)
  <2> SUFFICES ASSUME \A i, j \in n : q[i] = q[j] => i = j PROVE g \in Injection(n, T)
    OBVIOUS
  <2>1. g \in [n -> T]
    BY <1>2
  <2>2. \A i, j \in n : g[i] = g[j] => i = j
    OBVIOUS
  <2> HIDE DEF g, n, T
  <2> QED BY <2>1, <2>2 DEF Injection, IsInjective
<1> HIDE DEF g, n, T
<1>6. IsFiniteSet(T) /\ (Cardinality(T) = Cardinality(n) <=> g \in Injection(n, T))
  BY <1>1, <1>4, FS_Surjection
<1> QED BY <1>1, <1>5, <1>6 DEF n, T

(* Finitely many frames are pending, and those at one place are as many as *)
(* its length.                                                             *)
LEMMA PendingCount ==
    ASSUME NEW A, Apart(A)
    PROVE  /\ IsFiniteSet(PendingOf(A))
           /\ \A x \in Inside : /\ IsFiniteSet(Elements(A[x]))
                               /\ Cardinality(Elements(A[x])) = Len(A[x])
                               /\ Elements(A[x]) \subseteq PendingOf(A)
<1>1. ASSUME NEW x \in Inside
      PROVE  IsFiniteSet(Elements(A[x])) /\ Cardinality(Elements(A[x])) = Len(A[x])
  <2>1. A[x] \in Seq(Frame) /\ x \in Places
    BY DEF Apart, Filled, Places, Inside
  <2>2. \A i, j \in 1 .. Len(A[x]) : A[x][i] = A[x][j] => i = j
    BY <2>1 DEF Apart, Pos
  <2> QED BY <2>1, <2>2, ElementsCount
<1>2. \A x \in Inside : Elements(A[x]) \subseteq PendingOf(A)
  BY DEF PendingOf
<1>3. PendingOf(A) = ((((Elements(A[0]) \cup Elements(A[1])) \cup Elements(A[2]))
                        \cup Elements(A[3])) \cup Elements(A[4]))
  <2>1. Inside = {0, 1, 2, 3, 4}
    BY DEF Inside
  <2> QED BY <2>1 DEF PendingOf
<1>4. /\ IsFiniteSet(Elements(A[0])) /\ IsFiniteSet(Elements(A[1])) /\ IsFiniteSet(Elements(A[2]))
      /\ IsFiniteSet(Elements(A[3])) /\ IsFiniteSet(Elements(A[4]))
  BY <1>1 DEF Inside
<1>5. IsFiniteSet(Elements(A[0]) \cup Elements(A[1]))
  BY <1>4, FS_Union
<1>6. IsFiniteSet((Elements(A[0]) \cup Elements(A[1])) \cup Elements(A[2]))
  BY <1>4, <1>5, FS_Union
<1>7. IsFiniteSet(((Elements(A[0]) \cup Elements(A[1])) \cup Elements(A[2])) \cup Elements(A[3]))
  BY <1>4, <1>6, FS_Union
<1>8. IsFiniteSet(PendingOf(A))
  BY <1>3, <1>4, <1>7, FS_Union
<1> QED BY <1>1, <1>2, <1>8

-----------------------------------------------------------------------------
(* The datagram under construction: High frames first, none of a priority  *)
(* whose turn has not come.                                                *)
PackSorted ==
    /\ \A f \in Elements(pack) : priority <= f.prio
    /\ \A i, j \in 1 .. Len(pack) : i < j => pack[j].prio <= pack[i].prio

(* The frame that is packed has the priority of the round; a round begins  *)
(* with an empty pack and goes on with a lower priority.                   *)
LEMMA NextSorted == TxInv /\ SentInv /\ PackSorted /\ [Next]_vars => PackSorted'
<1> SUFFICES ASSUME TxInv, SentInv, PackSorted, [Next]_vars PROVE PackSorted'
  OBVIOUS
<1>0. /\ pack \in Seq(Frame) /\ priority \in Int /\ \A f \in Frame : f.prio \in Int
      /\ TypeOK
  BY DEF TxInv, RoundInv, TypeOK, Frame, Priorities
<1>e. pack' = <<>> => PackSorted'
  BY DEF PackSorted, Elements
<1>1. CASE sendPack
  BY <1>1, <1>e DEF sendPack
<1>2. CASE sendThreadLock
  <2>1. pack = <<>> /\ pack' = pack
    BY <1>2 DEF sendThreadLock, TxInv, RoundInv, BetweenRounds
  <2> QED BY <2>1, <1>e
<1>3. CASE pack' = pack /\ priority' \in Int /\ priority' <= priority
  <2>1. \A f \in Elements(pack) : f.prio \in Int
    BY <1>0 DEF Elements
  <2>2. Elements(pack)' = Elements(pack)
    BY <1>3 DEF Elements
  <2>3. \A f \in Elements(pack) : priority' <= f.prio
    BY <1>0, <1>3, <2>1 DEF PackSorted
  <2> QED BY <1>3, <2>2, <2>3 DEF PackSorted
<1>4. CASE packFrame
  <2>p. PICK p : p = priority
    OBVIOUS
  <2>f. PICK f : f = Head(At[p])
    OBVIOUS
  <2>1. /\ p \in Priorities /\ At[p] # <<>> /\ priority' = p
        /\ pack' = pack \/ pack' = Append(pack, f)
    BY <1>4, <2>p, <2>f, PackFrameAt
  <2>2. At[p] = queue[p] /\ queue[p] \in Seq(Frame)
    BY <1>0, <2>1, AtPlaces DEF TypeOK
  <2>3. f \in Frame /\ f = queue[p][1] /\ 1 \in 1 .. Len(queue[p])
    BY <2>1, <2>2, <2>f, HeadTailProperties
  <2>4. f.prio = p
    BY <2>1, <2>3 DEF SentInv, OwnQueue, Elements
  <2>5. CASE pack' = pack
    BY <1>0, <1>3, <2>1, <2>5, <2>p
  <2>6. CASE pack' = Append(pack, f)
    <3>1. /\ Len(pack) \in Nat /\ Len(pack') = Len(pack) + 1
          /\ \A i \in 1 .. Len(pack) : pack'[i] = pack[i]
          /\ pack'[Len(pack) + 1] = f
      BY <1>0, <2>3, <2>6, AppendProperties
    <3>2. \A i \in 1 .. Len(pack') : i \in 1 .. Len(pack) \/ i = Len(pack) + 1
      BY <3>1
    <3>3. \A i \in 1 .. Len(pack) : p <= pack[i].prio
      BY <2>p DEF PackSorted, Elements
    <3>4. \A i \in 1 .. Len(pack') : p <= pack'[i].prio
      BY <1>0, <2>4, <2>p, <3>1, <3>2, <3>3
    <3>5. ASSUME NEW i \in 1 .. Len(pack'), NEW j \in 1 .. Len(pack'), i < j
          PROVE  pack'[j].prio <= pack'[i].prio
      <4>1. i \in 1 .. Len(pack)
        BY <3>1, <3>5
      <4>2. CASE j \in 1 .. Len(pack)
        BY <3>1, <3>5, <4>1, <4>2 DEF PackSorted
      <4>3. CASE j = Len(pack) + 1
        BY <2>4, <3>1, <3>3, <4>1, <4>3
      <4> QED BY <3>2, <4>2, <4>3
    <3> QED BY <2>1, <3>4, <3>5 DEF PackSorted, Elements
  <2> QED BY <2>1, <2>5, <2>6
<1>5. CASE UNCHANGED <<pack, priority>>
  BY <1>0, <1>3, <1>5
<1>6. CASE nextPriority
  <2>1. pack' = pack /\ (priority' = priority \/ priority' = priority - 1)
    BY <1>6 DEF nextPriority
  <2> QED BY <1>0, <1>3, <2>1
<1>7. CASE \/ \E t \in Producers, id \in Ids, p \in Used : sendFrame(t, id, p)
           \/ \E t \in Producers : signal(t)
           \/ sendThreadWake \/ spuriousWakeup \/ packDone \/ restoreFrame \/ UNCHANGED vars
  BY <1>5, <1>7 DEF sendFrame, signal, sendThreadWake, spuriousWakeup, packDone, restoreFrame, vars
<1> QED BY <1>1, <1>2, <1>4, <1>6, <1>7 DEF Next, sendThread

(* The pending frames of the next state.                                   *)
LEMMA PendingNext == TypeOK' => (Pending = PendingOf(At))'
BY PendingIs, PTL

(* The instance counts as this module does.                                *)
LEMMA SameCount == \A S : Service!Cardinality(S) = Cardinality(S)
BY DEF Service!Cardinality, Cardinality, Service!IsFiniteSet, IsFiniteSet

(* A frame of a crowd may be lost.                                         *)
LEMMA CrowdVictim ==
    ASSUME TypeOK, Apart(At), NEW p, NEW T \in SUBSET Pending, \A f \in T : f.prio = p,
           NEW k \in Nat, IsFiniteSet(T), k <= Cardinality(T), NEW v \in T
    PROVE  {v} \in Service!Victims(p, k)
<1> DEFINE C == Service!Crowd(p)
<1>1. IsFiniteSet(Pending)
  BY PendingIs, PendingCount
<1>2. T \subseteq C /\ C \subseteq Pending
  BY DEF Service!Crowd
<1> HIDE DEF C
<1>3. IsFiniteSet(C)
  BY <1>1, <1>2, FS_Subset
<1>4. Cardinality(T) <= Cardinality(C)
  BY <1>2, <1>3, FS_Subset
<1>5. Cardinality(T) \in Nat /\ Cardinality(C) \in Nat
  BY <1>3, FS_CardinalityType
<1>6. k <= Cardinality(C)
  BY <1>4, <1>5
<1>7. v \in {f \in C : Cardinality(C) >= k}
  BY <1>2, <1>5, <1>6
<1>8. {v} \in {{w} : w \in {f \in C : Cardinality(C) >= k}}
  BY <1>7
<1>9. Service!Victims(p, k) = {{}} \cup {{w} : w \in {f \in C : Cardinality(C) >= k}}
  BY SameCount DEF Service!Victims, C
<1> QED BY <1>8, <1>9

(* No frame is lost: that is always allowed.                               *)
LEMMA NoVictim == \A p, k : {} \in Service!Victims(p, k)
BY DEF Service!Victims

(* A caller's frame is queued, and displaces one only of a full queue.     *)
LEMMA SendFrameRefines ==
    ASSUME TxInv, Conservation, SentInv, TypeOK',
           NEW t \in Producers, NEW id \in Ids, NEW p \in Used, sendFrame(t, id, p)
    PROVE  \E frame \in Frame : Service!Accept(frame)
<1>0. PICK f : f = [id |-> id, prio |-> p, num |-> made + 1]
  OBVIOUS
<1>1. /\ p \in Priorities /\ f \in Frame /\ made' = made + 1
      /\ At' = [At EXCEPT ![p] = PushBack(At[p], f, QueueMax)]
      /\ lost' = lost \cup Discarded(At[p], QueueMax)
      /\ f.prio = p /\ f.num = made + 1 /\ UNCHANGED <<sent, turned>>
  <2>1. sent' = sent
    BY DEF sendFrame
  <2> QED BY <1>0, <2>1, SendFrameAt
<1>2. /\ TypeOK /\ Apart(At) /\ p \in Inside /\ At[p] = queue[p]
      /\ queue[p] \in Seq(Frame) /\ QueueMax \in Nat \ {0}
  <2>1. TypeOK /\ p \in Inside /\ QueueMax \in Nat \ {0}
    BY <1>1, TxAssumption DEF TxInv, RoundInv, Priorities, Inside
  <2>2. Apart(At)
    BY ConservedApart DEF Conservation
  <2>3. At[p] = queue[p] /\ queue[p] \in Seq(Frame)
    BY <1>1, <2>1, AtPlaces DEF TypeOK
  <2> QED BY <2>1, <2>2, <2>3
<1> DEFINE V == Discarded(At[p], QueueMax)
           T == Elements(At[p])
<1>3. V \in Service!Victims(p, QueueMax)
  <2>1. CASE Len(At[p]) = QueueMax
    <3>1. Head(At[p]) \in T /\ V = {Head(At[p])}
      BY <1>2, <2>1 DEF Discarded, Elements
    <3>2. IsFiniteSet(T) /\ Cardinality(T) = QueueMax /\ T \subseteq Pending
      BY <1>2, <2>1, PendingIs, PendingCount
    <3>3. \A g \in T : g.prio = p
      BY <1>1, <1>2 DEF SentInv, OwnQueue
    <3>4. QueueMax <= Cardinality(T) /\ QueueMax \in Nat
      BY <1>2, <3>2
    <3> HIDE DEF T, V
    <3> QED BY <1>2, <3>1, <3>2, <3>3, <3>4, CrowdVictim
  <2>2. CASE Len(At[p]) # QueueMax
    BY <2>2, NoVictim DEF Discarded
  <2> QED BY <2>1, <2>2
<1>4. Pending' = (Pending \ V) \cup {f}
  <2>1. Pending' = PendingOf(At)'
    BY PendingNext
  <2>2. PICK C : C = Put(At, p, PushBack(At[p], f, QueueMax))
    OBVIOUS
  <2>3. At' = C
    BY <1>1, <2>2 DEF Put
  <2>4. PendingOf(At)' = PendingOf(C)
    BY <2>3 DEF PendingOf
  <2>5. PendingOf(C) = (PendingOf(At) \ V) \cup {f}
    <3>1. /\ Apart(At) /\ p \in Inside /\ f \in Frame /\ QueueMax \in Nat \ {0}
      BY <1>1, <1>2
    <3> QED BY <2>2, <3>1, PushPending
  <2> QED BY <1>2, <2>1, <2>4, <2>5, PendingIs
<1>5. lost' = lost \cup V
  BY <1>1
<1> HIDE DEF V
<1>6. Service!Accept(f)
  BY <1>1, <1>3, <1>4, <1>5 DEF Service!Accept
<1> QED BY <1>1, <1>6

(* The frame taken from its queue is packed, which the caller does not     *)
(* notice, or put aside, which displaces one only of a full skip queue:    *)
(* with the frame itself that is a crowd of SkipMax + 1.                   *)
LEMMA PackFrameRefines ==
    ASSUME TxInv, Conservation, SentInv, TypeOK', packFrame
    PROVE  (\E frame \in Pending : Service!PutAside(frame)) \/ UNCHANGED Service!svars
<1>p. PICK p : p = priority
  OBVIOUS
<1>f. PICK f : f = Head(At[p])
  OBVIOUS
<1>b. PICK B : B = Put(At, p, Tail(At[p]))
  OBVIOUS
<1>1. /\ p \in Priorities /\ p \in Places /\ At[p] # <<>> /\ made' = made
      /\ B[3] = skip /\ B[4] = pack
      /\ \/ /\ f.id \in PackedIds
            /\ At' = [B EXCEPT ![3] = PushBack(B[3], f, SkipMax)]
            /\ lost' = lost \cup Discarded(B[3], SkipMax)
            /\ turned' = Toggled(turned, f)
         \/ /\ f.id \notin PackedIds
            /\ At' = [B EXCEPT ![4] = Append(B[4], f)]
            /\ UNCHANGED <<lost, turned>>
  BY <1>p, <1>f, <1>b, PackFrameAt DEF Put
<1>s. sent' = sent
  BY DEF packFrame
<1>2. /\ TypeOK /\ Apart(At) /\ p \in Inside /\ 3 \in Inside /\ 4 \in Inside
      /\ At[p] = queue[p] /\ At[3] = skip /\ SkipMax \in Nat \ {0}
  <2>1. TypeOK /\ p \in Inside /\ 3 \in Inside /\ 4 \in Inside /\ SkipMax \in Nat \ {0}
    BY <1>1, TxAssumption DEF TxInv, RoundInv, Priorities, Inside
  <2>2. Apart(At)
    BY ConservedApart DEF Conservation
  <2>3. At[p] = queue[p] /\ At[3] = skip
    BY <1>1, <2>1, AtPlaces
  <2> QED BY <2>1, <2>2, <2>3
<1>3. /\ PendingOf(B) = PendingOf(At) \ {f} /\ f \in PendingOf(At) /\ f \in Frame
      /\ Filled(B)
  BY <1>1, <1>2, <1>b, <1>f, TakePending
<1>4. Apart(B)
  <2>1. Conserved(At, lost, 1 .. made, made) /\ made \in Int
    BY <1>2 DEF Conservation, TypeOK
  <2>2. Conserved([At EXCEPT ![p] = Tail(At[p])], lost, (1 .. made) \ {Head(At[p]).num}, made - 1)
    BY <1>1, <2>1, TakeFront
  <2>3. Conserved(B, lost, (1 .. made) \ {f.num}, made - 1)
    BY <1>b, <1>f, <2>2 DEF Put
  <2> QED BY <2>3, ConservedApart
<1>5. Pending = PendingOf(At) /\ Pending' = PendingOf(At)'
  BY <1>2, PendingIs, PendingNext
<1>6. CASE f.id \notin PackedIds /\ At' = [B EXCEPT ![4] = Append(B[4], f)]
           /\ UNCHANGED <<lost, turned>>
  <2>1. PICK C : C = [B EXCEPT ![4] = Append(B[4], f)]
    OBVIOUS
  <2>2. B[4] \in Seq(Frame)
    BY <1>1, <1>2 DEF TypeOK
  <2>3. OneMore(B, 4, f, C)
    <3>1. PICK r : r = B[4]
      OBVIOUS
    <3>2. PICK q : q = Append(r, f)
      OBVIOUS
    <3>3. Elements(q) = Elements(r) \cup {f}
      <4>1. r \in Seq(Frame) /\ f \in Frame
        BY <1>3, <2>2, <3>1
      <4>2. Elements(Append(r, f)) = Elements(r) \cup {f}
        BY <4>1, BackElements
      <4> QED BY <3>2, <4>2, Zenon
    <3>4. C = [B EXCEPT ![4] = q]
      BY <2>1, <3>1, <3>2
    <3>5. Elements(q) = Elements(B[4]) \cup {f}
      BY <3>1, <3>3
    <3> QED BY <3>4, <3>5 DEF OneMore
  <2>4. PendingOf(C) = PendingOf(B) \cup {f}
    BY <1>2, <1>3, <2>3, PutPending
  <2>5. PendingOf(At)' = PendingOf(C)
    BY <1>6, <2>1 DEF PendingOf
  <2>6. Pending' = Pending
    BY <1>3, <1>5, <2>4, <2>5
  <2> QED BY <1>1, <1>6, <1>s, <2>6 DEF Service!svars
<1>7. CASE /\ f.id \in PackedIds
           /\ At' = [B EXCEPT ![3] = PushBack(B[3], f, SkipMax)]
           /\ lost' = lost \cup Discarded(B[3], SkipMax)
           /\ turned' = Toggled(turned, f)
  <2> DEFINE V == Discarded(B[3], SkipMax)
             T == Elements(B[3])
             U == T \cup {f}
  <2>1. /\ T \subseteq PendingOf(B) /\ IsFiniteSet(T) /\ Cardinality(T) = Len(B[3])
        /\ f \notin T /\ T \subseteq Pending /\ f \in Pending
    BY <1>2, <1>3, <1>4, <1>5, PendingCount
  <2>2. V \subseteq T /\ (V # {} => Len(B[3]) = SkipMax /\ V = {Head(B[3])})
    <3>1. B[3] \in Seq(Frame)
      BY <1>1, <1>2 DEF TypeOK
    <3> QED BY <1>2, <3>1 DEF Discarded, Elements
  <2>3. f.prio = p /\ \A g \in T : g.prio = p
    <3>1. f \in Elements(At[p])
      BY <1>1, <1>2, <1>f DEF Elements, TypeOK
    <3> QED BY <1>1, <1>2, <1>p, <3>1 DEF SentInv, OwnQueue, AsideOwn
  <2>4. V \in Service!Victims(f.prio, SkipMax + 1)
    <3>1. CASE V = {}
      BY <3>1, NoVictim
    <3>2. CASE V # {}
      <4>1. PICK v : V = {v} /\ v \in T
        BY <2>2, <3>2
      <4>2. IsFiniteSet(U) /\ Cardinality(U) = SkipMax + 1
        <5>1. IsFiniteSet(T) /\ f \notin T /\ Cardinality(T) = SkipMax
          BY <2>1, <2>2, <3>2
        <5> HIDE DEF T
        <5> QED BY <5>1, FS_AddElement
      <4>3. U \subseteq Pending /\ (\A g \in U : g.prio = f.prio) /\ v \in U
        BY <2>1, <2>3, <4>1
      <4>4. SkipMax + 1 \in Nat /\ SkipMax + 1 <= Cardinality(U)
        BY <1>2, <4>2
      <4> HIDE DEF U, T, V
      <4> QED BY <1>2, <4>1, <4>2, <4>3, <4>4, CrowdVictim
    <3> QED BY <3>1, <3>2
  <2>5. Pending' = Pending \ V
    <3>1. PICK C : C = Put(B, 3, PushBack(B[3], f, SkipMax))
      OBVIOUS
    <3>2. PendingOf(At)' = PendingOf(C)
      BY <1>7, <3>1 DEF Put, PendingOf
    <3>3. PendingOf(C) = (PendingOf(B) \ V) \cup {f}
      <4>1. \A k \in Inside : PendingOf(Put(B, k, PushBack(B[k], f, SkipMax)))
                               = (PendingOf(B) \ Discarded(B[k], SkipMax)) \cup {f}
        BY <1>2, <1>3, <1>4, PushPending
      <4> QED BY <1>2, <3>1, <4>1
    <3> QED BY <1>3, <1>5, <2>1, <2>2, <3>2, <3>3
  <2> DEFINE others == {g \in T : g.id = f.id}
  <2>6. /\ others \in SUBSET Service!Peers(f)
        /\ Service!Rivals(f) \ others # {}
        /\ turned' = (turned \ {{f, g} : g \in others}) \cup ({{f, g} : g \in others} \ turned)
    <3>1. others \in SUBSET Service!Peers(f)
      BY <2>1, <2>3 DEF Service!Peers, Service!Rivals
    <3>2. PICK j \in Pos(B, 4) : B[4][j].id = f.id
      BY <1>1, <1>7 DEF PackedIds, Pos
    <3>3. PICK h : h = B[4][j]
      OBVIOUS
    <3>4. h \in Pending /\ h # f /\ h.id = f.id
      BY <1>2, <1>3, <1>5, <3>2, <3>3, InPlace
    <3>5. h \notin T
      <4> SUFFICES ASSUME h \in T PROVE FALSE
        OBVIOUS
      <4>1. PICK i \in Pos(B, 3) : h = B[3][i]
        BY DEF Elements, Pos
      <4>2. 3 \in Places /\ 4 \in Places
        BY DEF Places
      <4>3. B[4][j].num = B[3][i].num
        BY <3>3, <4>1
      <4> QED BY <1>4, <4>2, <4>3 DEF Apart
    <3>6. Service!Rivals(f) \ others # {}
      BY <3>4, <3>5 DEF Service!Rivals
    <3>7. turned' = (turned \ {{f, g} : g \in others}) \cup ({{f, g} : g \in others} \ turned)
      BY <1>1, <1>7 DEF Toggled, Together
    <3> QED BY <3>1, <3>6, <3>7
  <2>7. f \notin V /\ lost' = lost \cup V
    BY <1>7, <2>1, <2>2
  <2> HIDE DEF V, others
  <2>8. Service!PutAside(f)
    BY <1>1, <1>s, <2>4, <2>5, <2>6, <2>7 DEF Service!PutAside
  <2> QED BY <2>1, <2>8
<1> QED BY <1>1, <1>6, <1>7

(* A frame that was put aside fits into its queue: the caller does not     *)
(* notice.                                                                 *)
LEMMA RestoreFrameRefines ==
    ASSUME TxInv, Conservation, TypeOK', restoreFrame
    PROVE  UNCHANGED Service!svars
<1>p. PICK p : p = priority
  OBVIOUS
<1>f. PICK f : f = Head(At[3])
  OBVIOUS
<1>b. PICK B : B = Put(At, 3, Tail(At[3]))
  OBVIOUS
<1>1. /\ p \in Priorities /\ p \in Places /\ 3 \in Places /\ At[3] # <<>> /\ made' = made
      /\ At[3] = skip /\ B[p] = queue[p]
      /\ At' = [B EXCEPT ![p] = PushFront(B[p], f, QueueMax)]
      /\ lost' = lost \cup Discarded(B[p], QueueMax) /\ turned' = turned
  BY <1>p, <1>f, <1>b, RestoreFrameAt DEF Put
<1>s. sent' = sent /\ pc = "restore"
  BY DEF restoreFrame
<1>2. TypeOK /\ Apart(At) /\ p \in Inside /\ 3 \in Inside /\ QueueMax \in Nat \ {0}
  <2>1. TypeOK /\ p \in Inside /\ 3 \in Inside /\ QueueMax \in Nat \ {0}
    BY <1>1, TxAssumption DEF TxInv, RoundInv, Priorities, Inside
  <2>2. Apart(At)
    BY ConservedApart DEF Conservation
  <2> QED BY <2>1, <2>2
<1>3. /\ PendingOf(B) = PendingOf(At) \ {f} /\ f \in PendingOf(At) /\ f \in Frame
  <2>1. \A k \in Inside : At[k] # <<>> =>
           /\ PendingOf(Put(At, k, Tail(At[k]))) = PendingOf(At) \ {Head(At[k])}
           /\ Head(At[k]) \in PendingOf(At) /\ Head(At[k]) \in Frame
    BY <1>2, TakePending
  <2> QED BY <1>1, <1>2, <1>b, <1>f, <2>1
<1>4. Apart(B)
  <2>1. Conserved(At, lost, 1 .. made, made) /\ made \in Int
    BY <1>2 DEF Conservation, TypeOK
  <2>2. \A k \in Places : At[k] # <<>> =>
           Conserved([At EXCEPT ![k] = Tail(At[k])], lost, (1 .. made) \ {Head(At[k]).num}, made - 1)
    BY <2>1, TakeFront
  <2>3. Conserved(B, lost, (1 .. made) \ {f.num}, made - 1)
    BY <1>1, <1>b, <1>f, <2>2 DEF Put
  <2> QED BY <2>3, ConservedApart
<1>5. Discarded(B[p], QueueMax) = {}
  <2>1. Len(queue[p]) + Len(skip) <= QueueMax
    BY <1>p, <1>s DEF TxInv, RoundInv, RestoreFits
  <2>2. Len(skip) \in Nat \ {0} /\ Len(queue[p]) \in Nat
    BY <1>1, <1>2 DEF TypeOK
  <2>3. Len(B[p]) # QueueMax
    BY <1>1, <1>2, <2>1, <2>2
  <2> QED BY <2>3 DEF Discarded
<1>6. Pending' = Pending
  <2>1. PICK C : C = Put(B, p, PushFront(B[p], f, QueueMax))
    OBVIOUS
  <2>2. PendingOf(At)' = PendingOf(C)
    BY <1>1, <2>1 DEF Put, PendingOf
  <2>3. PendingOf(C) = (PendingOf(B) \ Discarded(B[p], QueueMax)) \cup {f}
    BY <1>2, <1>3, <1>4, <2>1, PushPending
  <2>4. Pending = PendingOf(At) /\ Pending' = PendingOf(At)'
    BY <1>2, PendingIs, PendingNext
  <2> QED BY <1>3, <1>5, <2>2, <2>3, <2>4
<1> QED BY <1>1, <1>5, <1>6, <1>s DEF Service!svars

(* The pack is sent: ids are distinct and High frames come first; any      *)
(* other pending frame of a packed one's id and priority is in the skip    *)
(* queue or in its transmit queue, behind it.                              *)
LEMMA SendPackRefines ==
    ASSUME TxInv, Conservation, SentInv, PackSorted, sendPack
    PROVE  \E datagram \in Service!Datagrams : Service!Transmit(datagram)
<1>1. /\ TypeOK /\ Apart(At) /\ At[4] = pack /\ pack \in Seq(Frame) /\ 4 \in Inside
      /\ \A x \in Inside : x \in Places
  <2>1. TypeOK /\ 4 \in Inside /\ \A x \in Inside : x \in Places
    BY DEF TxInv, RoundInv, Inside, Places
  <2>2. Apart(At)
    BY ConservedApart DEF Conservation
  <2> QED BY <2>1, <2>2, AtPlaces DEF TypeOK
<1>2. /\ sent' = sent \o pack /\ pack' = <<>> /\ UNCHANGED <<queue, skip, made, lost, turned>>
  BY DEF sendPack
<1>3. Pending = PendingOf(At)
  BY <1>1, PendingIs
<1>4. /\ Len(pack) \in 0 .. PackMax /\ DOMAIN pack = 1 .. Len(pack)
      /\ \A i \in 1 .. Len(pack) : pack[i] \in Frame /\ pack[i] \in Pending
  <2>1. Len(pack) \in 0 .. PackMax /\ DOMAIN pack = 1 .. Len(pack)
    BY <1>1, TxAssumption DEF TypeOK
  <2>2. \A i \in 1 .. Len(pack) : pack[i] \in Frame
    BY <1>1
  <2>3. Elements(pack) \subseteq Pending
    BY DEF Pending
  <2>4. \A i \in 1 .. Len(pack) : pack[i] \in Pending
    BY <2>3 DEF Elements
  <2> QED BY <2>1, <2>2, <2>4
<1>5. pack \in Service!Datagrams
  <2>1. PICK n \in Nat : pack \in [1 .. n -> Frame]
    BY <1>1, SeqDef
  <2>2. n = Len(pack)
    <3>0. Len(pack) \in Nat
      BY <1>1
    <3>1. 1 .. n = 1 .. Len(pack)
      <4>1. DOMAIN pack = 1 .. n
        BY <2>1
      <4>2. DOMAIN pack = 1 .. Len(pack)
        BY <1>4
      <4> QED BY <4>1, <4>2, Zenon
    <3>2. n \in 1 .. n => n <= Len(pack)
      BY <3>0, <3>1
    <3>3. Len(pack) \in 1 .. Len(pack) => Len(pack) <= n
      BY <3>0, <3>1
    <3> QED BY <3>0, <3>2, <3>3
  <2>3. pack \in [1 .. n -> Pending]
    BY <1>4, <2>1, <2>2
  <2>4. n \in 0 .. PackMax
    BY <1>4, <2>2
  <2> QED BY <2>3, <2>4 DEF Service!Datagrams
<1>6. Service!OnePerId(pack)
  <2> SUFFICES ASSUME NEW i \in 1 .. Len(pack), NEW j \in 1 .. Len(pack), i < j
               PROVE  pack[i].id # pack[j].id /\ pack[j].prio <= pack[i].prio
    BY <1>4 DEF Service!OnePerId
  <2>1. i # j
    BY <1>4
  <2> QED BY <2>1 DEF TxInv, RoundInv, PackIdsDistinct, PackSorted
<1>7. Service!FirstInLine(pack)
  <2> SUFFICES ASSUME NEW i \in 1 .. Len(pack), NEW f \in Pending,
                      f.id = pack[i].id, f.prio = pack[i].prio, f # pack[i]
               PROVE  Before(pack[i], f, turned)
    BY <1>4 DEF Service!FirstInLine, Before
  <2>1. PICK y \in Inside : \E j \in Pos(At, y) : f = At[y][j]
    BY <1>3, PlaceOf
  <2>2. PICK j \in Pos(At, y) : f = At[y][j]
    BY <2>1
  <2>3. ASSUME y = 4 PROVE FALSE
    <3>1. j \in 1 .. Len(pack) /\ f = pack[j]
      BY <1>1, <2>2, <2>3 DEF Pos
    <3> QED BY <3>1 DEF TxInv, RoundInv, PackIdsDistinct
  <2>4. Ahead(4, i, y, j)
    BY <2>3 DEF Ahead, Inside
  <2>5. Same(At[4][i], At[y][j])
    BY <1>1, <2>2 DEF Same
  <2>6. i \in Pos(At, 4) /\ 4 \in Places /\ y \in Places
    BY <1>1 DEF Pos
  <2>7. Before(At[4][i], At[y][j], turned)
    BY <2>4, <2>5, <2>6 DEF SentInv, Ordered
  <2> QED BY <1>1, <2>2, <2>7
<1>8. Pending' = Pending \ Elements(pack)
  <2>1. ASSUME NEW y \in Inside, y # 4, NEW f \in Elements(At[y]) PROVE f \notin Elements(pack)
    <3> SUFFICES ASSUME f \in Elements(pack) PROVE FALSE
      OBVIOUS
    <3>1. PICK i \in Pos(At, y) : f = At[y][i]
      BY DEF Elements, Pos
    <3>2. PICK j \in Pos(At, 4) : f = At[4][j]
      BY <1>1 DEF Elements, Pos
    <3>3. At[y][i].num = At[4][j].num
      BY <3>1, <3>2
    <3> QED BY <1>1, <2>1, <3>3 DEF Apart
  <2>2. Elements(skip) \cap Elements(pack) = {}
    <3>1. 3 \in Inside /\ 3 # 4 /\ At[3] = skip
      BY <1>1, AtPlaces DEF Inside
    <3> QED BY <2>1, <3>1
  <2>3. Elements(pack) \cap (UNION {Elements(queue[p]) : p \in Priorities}) = {}
    <3>1. \A p \in Priorities : p \in Inside /\ p # 4 /\ At[p] = queue[p]
      BY <1>1, AtPlaces DEF Inside, Priorities
    <3> QED BY <2>1, <3>1
  <2>4. Elements(skip)' = Elements(skip) /\ Elements(pack)' = {}
        /\ (UNION {Elements(queue[p]) : p \in Priorities})'
              = UNION {Elements(queue[p]) : p \in Priorities}
    BY <1>2 DEF Elements
  <2> QED BY <2>2, <2>3, <2>4 DEF Pending
<1>9. Pending' = Pending \ {pack[i] : i \in DOMAIN pack}
  BY <1>4, <1>8 DEF Elements
<1>10. Service!Transmit(pack)
  BY <1>2, <1>6, <1>7, <1>9 DEF Service!Transmit
<1> QED BY <1>5, <1>10

(* The steps that move no frame.                                           *)
LEMMA ControlRefines ==
    ASSUME \/ \E t \in Producers : signal(t)
           \/ sendThreadLock \/ sendThreadWake \/ packDone \/ nextPriority \/ spuriousWakeup
           \/ UNCHANGED vars
    PROVE  UNCHANGED Service!svars
<1>1. UNCHANGED <<queue, skip, pack, made, sent, lost, turned>>
  BY DEF signal, sendThreadLock, sendThreadWake, packDone, nextPriority, spuriousWakeup, vars
<1>2. Pending' = Pending
  BY <1>1 DEF Pending, Elements
<1> QED BY <1>1, <1>2 DEF Service!svars

LEMMA NextRefines ==
    TxInv /\ TypeOK' /\ Conservation /\ SentInv /\ PackSorted /\ [Next]_vars
       => [Service!SNext]_(Service!svars)
<1> SUFFICES ASSUME TxInv, TypeOK', Conservation, SentInv, PackSorted, [Next]_vars
             PROVE  [Service!SNext]_(Service!svars)
  OBVIOUS
<1>1. CASE \E t \in Producers, id \in Ids, p \in Used : sendFrame(t, id, p)
  BY <1>1, SendFrameRefines DEF Service!SNext
<1>2. CASE packFrame
  BY <1>2, PackFrameRefines DEF Service!SNext
<1>3. CASE restoreFrame
  BY <1>3, RestoreFrameRefines
<1>4. CASE sendPack
  BY <1>4, SendPackRefines DEF Service!SNext
<1>5. CASE \/ \E t \in Producers : signal(t)
           \/ sendThreadLock \/ sendThreadWake \/ packDone \/ nextPriority \/ spuriousWakeup
           \/ UNCHANGED vars
  BY <1>5, ControlRefines
<1> QED BY <1>1, <1>2, <1>3, <1>4, <1>5 DEF Next, sendThread

LEMMA InitRefines == Init => Service!SInit /\ PackSorted
<1> SUFFICES ASSUME Init PROVE Service!SInit /\ PackSorted
  OBVIOUS
<1>1. /\ skip = <<>> /\ pack = <<>> /\ \A p \in Priorities : queue[p] = <<>>
      /\ made = 0 /\ sent = <<>> /\ lost = {} /\ turned = {}
  BY DEF Init
<1>2. Elements(<<>>) = {} /\ Len(<<>>) = 0
  BY DEF Elements
<1>3. Pending = {}
  BY <1>1, <1>2 DEF Pending
<1>4. PackSorted
  BY <1>1, <1>2 DEF PackSorted
<1> QED BY <1>1, <1>3, <1>4 DEF Service!SInit

(* Whatever the queues, the skip queue and the send thread do, a caller    *)
(* sees the service of FrameService: accepted frames stay pending until    *)
(* they are sent or lost in a crowd, datagrams carry one frame per id,     *)
(* High frames first, the first in line of each id, for all capacities.    *)
THEOREM TxImplementsService == Spec => ImplementsService
<1>1. TxInv' => TypeOK'
  BY DEF TxInv, RoundInv
<1> QED BY <1>1, InitTxInv, NextTxInv, InitOrder, NextOrder, InitConserved, NextConserves,
        InitSent, NextSent, NextSorted, InitRefines, NextRefines, PTL
        DEF Spec, ImplementsService, Service!SSpec

=============================================================================
