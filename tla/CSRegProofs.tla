------------------------------ MODULE CSRegProofs -----------------------------
(***************************************************************************)
(* CSReg for every set of waiters, every capacity and any number of        *)
(* frames: the double buffer publishes whole frames and nobody sleeps on   *)
(* data (RegInv), a copy made under the stated conditions is not torn      *)
(* (GetNotTorn), and each frame is taken once (EachTakenOnce).             *)
(***************************************************************************)
EXTENDS CSReg, FiniteSetTheorems, SequenceTheorems, TLAPS

\* The newest frame whose share callback is over, and whose signal callback is.
Newest == IF rpc \in {"idle", "signal"} THEN made ELSE made - 1
Queued == IF rpc = "idle" THEN made ELSE made - 1

\* What the receive thread has filled of the unused half.
WriterOk ==
    /\ rpc # "idle" \/ is_revers # 0 => made # 0
    /\ rpc \in {"buff", "flip"} => len[1 - is_revers] = made
    /\ rpc = "flip" => buff[1 - is_revers] = made

\* The shared value of a field.
Field(f) == CASE f = Flag      -> is_revers
              [] f[1] = "len"  -> len[f[2]]
              [] f[1] = "buff" -> buff[f[2]]

\* What CSRegShare_get has copied so far: without a new frame, the shared values;
\* the flag, as long as no new frame was published; and from the half it was
\* pointed at first, one frame, as long as at most one has begun.
ReaderOk ==
    /\ busy <= Newest
    /\ made = busy => \A f \in Fields \ todo : copy[f] = Field(f)
    /\ Newest = busy /\ Flag \notin todo => copy[Flag] = is_revers
    /\ order = "none" => todo = Fields \/ todo = {}
    /\ order = "flag" => Flag \notin todo /\ copy[Flag] \in Halves

FlagFirst(h) ==
    /\ len[h] = buff[h] /\ len[h] >= busy
    /\ <<"len", h>> \notin todo => copy[<<"len", h>>] = len[h]
    /\ <<"buff", h>> \notin todo => copy[<<"buff", h>>] = buff[h]

Increasing(s) == \A i, j \in 1 .. Len(s) : i < j => s[i] < s[j]

\* Taken before queued before still to come, and the discarded apart from them.
TakenOk ==
    /\ Increasing(taken) /\ Increasing(queue)
    /\ \A i \in 1 .. Len(taken), j \in 1 .. Len(queue) : taken[i] < queue[j]
    /\ Elements(taken) \cup Elements(queue) \cup lost = 1 .. Queued
    /\ Elements(taken) \cap lost = {} /\ Elements(queue) \cap lost = {}

\* The inductive invariant.
RegStrong ==
    /\ RegInv /\ WriterOk /\ ReaderOk
    /\ order = "flag" /\ made <= busy + 1 => FlagFirst(copy[Flag])
    /\ TakenOk

-----------------------------------------------------------------------------
\* Facts about the constants that the steps need.
LEMMA Constants ==
    /\ QueueMax \in Nat \ {0} /\ MaxFrames \in Nat /\ IsFiniteSet(Waiters)
    /\ Number \subseteq Nat /\ 0 \in Number
BY RegAssumption DEF Number

\* The fields of the structure and their names.
LEMMA FieldNames ==
    /\ Flag \in Fields
    /\ \A h \in Halves : <<"len", h>> \in Fields /\ <<"buff", h>> \in Fields
    /\ \A h \in Halves : /\ <<"len", h>> # Flag /\ <<"buff", h>> # Flag
                         /\ Field(<<"len", h>>) = len[h] /\ Field(<<"buff", h>>) = buff[h]
    /\ Field(Flag) = is_revers
    /\ \A f \in Fields : f = Flag \/ \E h \in Halves : f = <<"len", h>> \/ f = <<"buff", h>>
BY DEF Flag, Fields, Field

\* Room for one more frame: the queue moved up by s places, s = 1 if it was full.
LEMMA Room ==
    ASSUME NEW q \in Seq(Number), Len(q) <= QueueMax
    PROVE  \E s \in {0, 1} :
             /\ MakeRoom(q, QueueMax) \in Seq(Number)
             /\ Len(MakeRoom(q, QueueMax)) = Len(q) - s /\ Len(q) - s \in Nat
             /\ Len(q) - s < QueueMax
             /\ \A i \in 1 .. Len(q) - s : i + s \in 1 .. Len(q)
                                            /\ MakeRoom(q, QueueMax)[i] = q[i + s]
             /\ s = 0 => Discarded(q, QueueMax) = {}
             /\ s = 1 => Len(q) # 0 /\ Discarded(q, QueueMax) = {q[1]}
<1> DEFINE P(s) ==
             /\ MakeRoom(q, QueueMax) \in Seq(Number)
             /\ Len(MakeRoom(q, QueueMax)) = Len(q) - s /\ Len(q) - s \in Nat
             /\ Len(q) - s < QueueMax
             /\ \A i \in 1 .. Len(q) - s : i + s \in 1 .. Len(q)
                                            /\ MakeRoom(q, QueueMax)[i] = q[i + s]
             /\ s = 0 => Discarded(q, QueueMax) = {}
             /\ s = 1 => Len(q) # 0 /\ Discarded(q, QueueMax) = {q[1]}
<1>c. QueueMax \in Nat \ {0} /\ Len(q) \in Nat
  BY Constants
<1>1. CASE Len(q) # QueueMax
  <2>1. MakeRoom(q, QueueMax) = q /\ Discarded(q, QueueMax) = {}
    BY <1>1 DEF MakeRoom, Discarded
  <2>2. /\ Len(q) - 0 = Len(q) /\ Len(q) < QueueMax
        /\ \A i \in 1 .. Len(q) : i + 0 = i
    BY <1>c, <1>1
  <2>3. P(0)
    BY <1>c, <2>1, <2>2
  <2> QED BY <2>3
<1>2. CASE Len(q) = QueueMax
  <2>1. MakeRoom(q, QueueMax) = Tail(q) /\ Discarded(q, QueueMax) = {Head(q)}
    BY <1>2 DEF MakeRoom, Discarded
  <2>2. q # <<>> /\ Len(q) # 0
    BY <1>c, <1>2
  <2>3. /\ Tail(q) \in Seq(Number) /\ Len(Tail(q)) = Len(q) - 1 /\ Head(q) = q[1]
        /\ \A i \in 1 .. Len(Tail(q)) : Tail(q)[i] = q[i + 1]
    BY <2>2, HeadTailProperties
  <2>4. /\ Len(q) - 1 \in Nat /\ Len(q) - 1 < QueueMax
        /\ \A i \in 1 .. Len(q) - 1 : i + 1 \in 1 .. Len(q)
    BY <1>c, <1>2, <2>2
  <2>5. P(1)
    BY <2>1, <2>2, <2>3, <2>4
  <2> QED BY <2>5
<1> QED BY <1>1, <1>2

\* PushBack puts the frame behind what was moved up.
LEMMA Pushed ==
    ASSUME NEW q \in Seq(Number), Len(q) <= QueueMax, NEW d \in Number
    PROVE  \E s \in {0, 1}, n \in Nat :
             /\ n = Len(q) - s /\ n < QueueMax
             /\ PushBack(q, d, QueueMax) \in Seq(Number)
             /\ Len(PushBack(q, d, QueueMax)) = n + 1
             /\ \A i \in 1 .. n : i + s \in 1 .. Len(q) /\ PushBack(q, d, QueueMax)[i] = q[i + s]
             /\ PushBack(q, d, QueueMax)[n + 1] = d
             /\ s = 0 => Discarded(q, QueueMax) = {}
             /\ s = 1 => Len(q) # 0 /\ Discarded(q, QueueMax) = {q[1]}
<1> DEFINE r == MakeRoom(q, QueueMax)
<1>1. PICK s \in {0, 1} :
             /\ r \in Seq(Number)
             /\ Len(r) = Len(q) - s /\ Len(q) - s \in Nat
             /\ Len(q) - s < QueueMax
             /\ \A i \in 1 .. Len(q) - s : i + s \in 1 .. Len(q) /\ r[i] = q[i + s]
             /\ s = 0 => Discarded(q, QueueMax) = {}
             /\ s = 1 => Len(q) # 0 /\ Discarded(q, QueueMax) = {q[1]}
  BY Room
<1> HIDE DEF r
<1>2. /\ Append(r, d) \in Seq(Number) /\ Len(Append(r, d)) = Len(r) + 1
      /\ \A i \in 1 .. Len(r) : Append(r, d)[i] = r[i]
      /\ Append(r, d)[Len(r) + 1] = d
  BY <1>1, AppendProperties
<1>3. PushBack(q, d, QueueMax) = Append(r, d)
  BY DEF PushBack, r
<1> QED BY <1>1, <1>2, <1>3

-----------------------------------------------------------------------------
\* Types.
LEMMA TypeInit == Init => TypeOK
<1>1. <<>> \in Seq(Number) /\ Len(<<>>) = 0
  OBVIOUS
<1>2. 0 \in Halves /\ Flag \in Fields
  BY DEF Halves, Fields
<1> QED BY <1>1, <1>2, Constants DEF Init, TypeOK

\* Taking the front of the queue.
LEMMA Taking ==
    ASSUME TypeOK, queue # <<>>,
           taken' = Append(taken, Head(queue)), queue' = Tail(queue)
    PROVE  /\ Len(queue) \in Nat \ {0} /\ Len(taken) \in Nat
           /\ taken' \in Seq(Number) /\ Len(taken') = Len(taken) + 1
           /\ \A i \in 1 .. Len(taken) : taken'[i] = taken[i]
           /\ taken'[Len(taken) + 1] = queue[1]
           /\ queue' \in Seq(Number) /\ Len(queue') = Len(queue) - 1
           /\ \A i \in 1 .. Len(queue) - 1 : i + 1 \in 1 .. Len(queue) /\ queue'[i] = queue[i + 1]
<1>1. queue \in Seq(Number) /\ taken \in Seq(Number)
  BY DEF TypeOK
<1>2. Len(queue) \in Nat \ {0} /\ Len(taken) \in Nat
  BY <1>1, EmptySeq
<1>3. /\ queue' \in Seq(Number) /\ Len(queue') = Len(queue) - 1 /\ Head(queue) = queue[1]
      /\ Head(queue) \in Number
      /\ \A i \in 1 .. Len(queue') : queue'[i] = queue[i + 1]
  BY <1>1, HeadTailProperties
<1>4. /\ taken' \in Seq(Number) /\ Len(taken') = Len(taken) + 1
      /\ \A i \in 1 .. Len(taken) : taken'[i] = taken[i]
      /\ taken'[Len(taken) + 1] = queue[1]
  BY <1>1, <1>3, AppendProperties
<1>5. \A i \in 1 .. Len(queue) - 1 : i + 1 \in 1 .. Len(queue)
  BY <1>2
<1> QED BY <1>2, <1>3, <1>4, <1>5

\* Every step of the writer and the readers keeps the types.
LEMMA TypeNext == TypeOK /\ WriterOk /\ [Next]_vars => TypeOK'
<1> SUFFICES ASSUME TypeOK, WriterOk, [Next]_vars PROVE TypeOK'
  OBVIOUS
<1>c. MaxFrames \in Nat /\ QueueMax \in Nat /\ made \in Nat
  BY Constants DEF TypeOK
<1>h. 1 - is_revers \in Halves
  BY DEF TypeOK, Halves
<1>1. CASE receive
  <2>1. made + 1 \in Number
    BY <1>c, <1>1 DEF receive, Number
  <2> QED BY <1>1, <2>1 DEF receive, TypeOK, shareVars, getVars, signalVars
<1>2. CASE shareLen
  BY <1>2, <1>h DEF shareLen, next_revers, TypeOK, getVars, signalVars
<1>3. CASE shareBuff
  BY <1>3, <1>h DEF shareBuff, next_revers, TypeOK, getVars, signalVars
<1>4. CASE shareFlip
  BY <1>4, <1>h DEF shareFlip, TypeOK, getVars, signalVars
<1>5. CASE signalCallback
  <2>1. PICK s \in {0, 1}, n \in Nat :
             /\ n < QueueMax
             /\ PushBack(queue, made, QueueMax) \in Seq(Number)
             /\ Len(PushBack(queue, made, QueueMax)) = n + 1
             /\ s = 0 => Discarded(queue, QueueMax) = {}
             /\ s = 1 => Len(queue) # 0 /\ Discarded(queue, QueueMax) = {queue[1]}
    BY Pushed DEF TypeOK
  <2>2. Discarded(queue, QueueMax) \subseteq Number
    <3>1. queue \in Seq(Number) /\ Len(queue) \in Nat
      BY DEF TypeOK
    <3>2. Len(queue) # 0 => 1 \in 1 .. Len(queue)
      BY <3>1
    <3> QED BY <2>1, <3>1, <3>2, ElementOfSeq
  <2>3. wpc' \in [Waiters -> {"idle", "waiting", "awake"}]
    BY <1>5 DEF signalCallback, Woken, TypeOK
  <2>4. queue' \in Seq(Number) /\ Len(queue') <= QueueMax
    BY <1>c, <1>5, <2>1 DEF signalCallback
  <2> QED BY <1>5, <2>2, <2>3, <2>4 DEF signalCallback, TypeOK, shareVars, getVars
<1>6. CASE getBegin
  <2>1. busy' \in Number
    BY <1>c, <1>6 DEF getBegin, TypeOK, WriterOk, Number
  <2> QED BY <1>6, <2>1 DEF getBegin, TypeOK, shareVars, signalVars
<1>7. ASSUME NEW f \in Fields, getField(f) PROVE TypeOK'
  <2>1. Field(f) \in Number
    <3>1. is_revers \in Number
      BY <1>c DEF TypeOK, WriterOk, Number, Halves
    <3>2. ASSUME NEW h \in Halves PROVE len[h] \in Number /\ buff[h] \in Number
      BY DEF TypeOK
    <3> QED BY <3>1, <3>2, FieldNames
  <2> QED BY <1>7, <2>1 DEF getField, Field, TypeOK, shareVars, signalVars
<1>8. ASSUME NEW w \in Waiters, waitCall(w) \/ waitReturn(w) PROVE TypeOK'
  <2>1. wpc' \in [Waiters -> {"idle", "waiting", "awake"}]
    BY <1>8 DEF waitCall, waitReturn, TypeOK
  <2>2. /\ queue' \in Seq(Number) /\ Len(queue') <= QueueMax /\ taken' \in Seq(Number)
        /\ UNCHANGED <<shareVars, rpc, made, getVars, lost>>
    <3>1. CASE queue = <<>>
      BY <1>8, <3>1 DEF waitCall, waitReturn, TypeOK
    <3>2. CASE queue # <<>>
      <4>1. taken' = Append(taken, Head(queue)) /\ queue' = Tail(queue)
        BY <1>8, <3>2 DEF waitCall, waitReturn
      <4>2. queue' \in Seq(Number) /\ taken' \in Seq(Number) /\ Len(queue') = Len(queue) - 1
            /\ Len(queue) \in Nat
        BY <3>2, <4>1, Taking
      <4>3. Len(queue') <= QueueMax
        BY <1>c, <4>2 DEF TypeOK
      <4> QED BY <1>8, <4>2, <4>3 DEF waitCall, waitReturn
    <3> QED BY <3>1, <3>2
  <2> QED BY <2>1, <2>2 DEF TypeOK, shareVars, getVars
<1>9. ASSUME NEW w \in Waiters, waitTimeout(w) PROVE TypeOK'
  BY <1>9 DEF waitTimeout, TypeOK, shareVars, getVars
<1>10. CASE UNCHANGED vars
  BY <1>10 DEF vars, TypeOK, shareVars, getVars, signalVars
<1> QED BY <1>1, <1>2, <1>3, <1>4, <1>5, <1>6, <1>7, <1>8, <1>9, <1>10 DEF Next

-----------------------------------------------------------------------------
\* The share: receive thread against CSRegShare_get.
ShareInv ==
    /\ PublishedWhole /\ WriterOk /\ ReaderOk
    /\ order = "flag" /\ made <= busy + 1 => FlagFirst(copy[Flag])

\* What is known of the two halves and of the lock holds initially.
LEMMA ShareInit == Init => ShareInv
<1> SUFFICES ASSUME Init PROVE ShareInv
  OBVIOUS
<1>1. /\ \A h \in Halves : len[h] = 0 /\ buff[h] = 0
      /\ is_revers = 0 /\ 0 \in Halves /\ rpc = "idle" /\ made = 0 /\ busy = 0 /\ todo = {}
      /\ order = "none" /\ \A f \in Fields : copy[f] = 0
  BY DEF Init, Halves
<1>2. \A f \in Fields : Field(f) = 0
  BY <1>1, FieldNames
<1>3. Newest = 0 /\ PublishedWhole
  BY <1>1 DEF Newest, PublishedWhole
<1> QED BY <1>1, <1>2, <1>3, FieldNames DEF ShareInv, WriterOk, ReaderOk

\* Steps that leave the share, its reader and the newest frame alone.
LEMMA ShareIdle ==
    ASSUME TypeOK, ShareInv, UNCHANGED <<shareVars, made, getVars>>,
           rpc' = rpc \/ (rpc = "signal" /\ rpc' = "idle")
    PROVE  ShareInv'
<1>1. Newest' = Newest
  BY DEF Newest
<1>2. \A f : Field(f)' = Field(f)
  BY DEF Field, shareVars
<1>3. PublishedWhole' /\ WriterOk'
  BY DEF ShareInv, PublishedWhole, WriterOk, shareVars
<1>u. /\ made' = made /\ busy' = busy /\ todo' = todo /\ copy' = copy /\ order' = order
      /\ is_revers' = is_revers
  BY DEF getVars, shareVars
<1>4. ReaderOk'
  <2>1. made = busy => \A f \in Fields \ todo : copy[f] = Field(f)'
    BY <1>2 DEF ShareInv, ReaderOk
  <2> QED BY <1>1, <1>u, <2>1 DEF ShareInv, ReaderOk
<1> QED BY <1>3, <1>4 DEF ShareInv, FlagFirst, shareVars, getVars

\* Every step of the writer and of the reader keeps what is known of the two halves.
LEMMA ShareNext == TypeOK /\ TypeOK' /\ ShareInv /\ [Next]_vars => ShareInv'
<1> SUFFICES ASSUME TypeOK, TypeOK', ShareInv, [Next]_vars PROVE ShareInv'
  OBVIOUS
<1>c. made \in Nat /\ busy \in Nat
  BY Constants DEF TypeOK
<1>h. /\ is_revers \in Halves /\ 1 - is_revers \in Halves /\ is_revers # 1 - is_revers
      /\ len \in [Halves -> Number] /\ buff \in [Halves -> Number]
  BY DEF TypeOK, Halves
<1>p. len[is_revers] = Newest /\ buff[is_revers] = Newest
  BY DEF ShareInv, PublishedWhole, Newest
<1>r. /\ busy <= Newest
      /\ made = busy => \A f \in Fields \ todo : copy[f] = Field(f)
      /\ Newest = busy /\ Flag \notin todo => copy[Flag] = is_revers
      /\ order = "none" => todo = Fields \/ todo = {}
      /\ order = "flag" => Flag \notin todo /\ copy[Flag] \in Halves
      /\ order = "flag" /\ made <= busy + 1 => FlagFirst(copy[Flag])
  BY DEF ShareInv, ReaderOk
<1>w. /\ rpc # "idle" \/ is_revers # 0 => made # 0
      /\ rpc \in {"buff", "flip"} => len[1 - is_revers] = made
      /\ rpc = "flip" => buff[1 - is_revers] = made
  BY DEF ShareInv, WriterOk
<1>1. CASE receive
  <2>1. /\ rpc = "idle" /\ rpc' = "len" /\ made' = made + 1 /\ UNCHANGED <<shareVars, getVars>>
    BY <1>1 DEF receive
  <2>2. Newest = made /\ Newest' = made
    BY <1>c, <2>1 DEF Newest
  <2>3. PublishedWhole' /\ WriterOk'
    BY <1>c, <1>p, <2>1, <2>2 DEF PublishedWhole, WriterOk, shareVars
  <2>4. made' # busy /\ (made' <= busy + 1 => made <= busy + 1)
    BY <1>c, <1>r, <2>1, <2>2
  <2>5. ReaderOk'
    BY <1>r, <2>1, <2>2, <2>4 DEF ReaderOk, shareVars, getVars
  <2> QED BY <1>r, <2>1, <2>3, <2>4, <2>5 DEF ShareInv, FlagFirst, shareVars, getVars
<1>2. CASE rpc \in {"len", "buff"} /\ (shareLen \/ shareBuff)
  <2>1. /\ Newest = made - 1 /\ Newest' = made - 1 /\ made # busy /\ made' = made
        /\ made <= busy + 1 => Newest = busy
    BY <1>c, <1>r, <1>w, <1>2 DEF Newest, shareLen, shareBuff
  <2>2. /\ UNCHANGED <<is_revers, getVars>>
        /\ len'[is_revers] = len[is_revers] /\ buff'[is_revers] = buff[is_revers]
    BY <1>h, <1>2 DEF shareLen, shareBuff, next_revers
  <2>3. PublishedWhole'
    BY <1>p, <1>2, <2>1, <2>2 DEF PublishedWhole, shareLen, shareBuff
  <2>4. WriterOk'
    BY <1>h, <1>w, <1>2 DEF WriterOk, shareLen, shareBuff, next_revers
  <2>5. ReaderOk'
    BY <1>r, <2>1, <2>2 DEF ReaderOk, getVars
  <2>6. ASSUME order = "flag", made <= busy + 1 PROVE FlagFirst(copy[Flag])'
    <3>1. copy[Flag] = is_revers /\ FlagFirst(copy[Flag])
      BY <1>r, <2>1, <2>6
    <3>2. FlagFirst(is_revers)'
      BY <2>2, <3>1 DEF FlagFirst, getVars
    <3> QED BY <2>2, <3>1, <3>2 DEF getVars
  <2> QED BY <2>1, <2>2, <2>3, <2>4, <2>5, <2>6 DEF ShareInv, getVars
<1>3. CASE shareFlip
  <2>1. /\ rpc = "flip" /\ rpc' = "signal" /\ is_revers' = 1 - is_revers
        /\ UNCHANGED <<len, buff, made, getVars>>
    BY <1>3 DEF shareFlip
  <2>2. Newest = made - 1 /\ Newest' = made /\ made # busy /\ made # 0 /\ busy <= made
    BY <1>c, <1>r, <1>w, <2>1 DEF Newest
  <2>3. PublishedWhole' /\ WriterOk'
    BY <1>w, <2>1, <2>2 DEF PublishedWhole, WriterOk
  <2>4. ReaderOk'
    BY <1>r, <2>1, <2>2 DEF ReaderOk, getVars
  <2> QED BY <1>r, <2>1, <2>3, <2>4 DEF ShareInv, FlagFirst, getVars
<1>4. CASE getBegin
  <2>1. /\ todo' = Fields /\ order' = "none" /\ busy' = Newest
        /\ UNCHANGED <<shareVars, rpc, made>>
    BY <1>4 DEF getBegin, Newest
  <2>2. Newest' = Newest /\ Newest \in Nat
    BY <1>c, <1>w, <2>1 DEF Newest
  <2>3. PublishedWhole' /\ WriterOk'
    BY <2>1 DEF ShareInv, PublishedWhole, WriterOk, shareVars
  <2>4. ReaderOk'
    BY <2>1, <2>2, FieldNames DEF ReaderOk
  <2> QED BY <2>1, <2>3, <2>4 DEF ShareInv
<1>5. ASSUME NEW f \in Fields, getField(f) PROVE ShareInv'
  <2>1. /\ f \in todo /\ todo' = todo \ {f} /\ copy' = [copy EXCEPT ![f] = Field(f)]
        /\ order' = IF order # "none" THEN order ELSE IF f = Flag THEN "flag" ELSE "other"
        /\ UNCHANGED <<shareVars, rpc, made, busy>>
    BY <1>5 DEF getField, Field
  <2>2. copy'[f] = Field(f) /\ \A x \in Fields : x # f => copy'[x] = copy[x]
    BY <2>1 DEF TypeOK
  <2>3. Newest' = Newest /\ \A x : Field(x)' = Field(x)
    BY <2>1 DEF Newest, Field, shareVars
  <2>4. PublishedWhole' /\ WriterOk'
    BY <2>1 DEF ShareInv, PublishedWhole, WriterOk, shareVars
  <2>5. /\ order' # "none" /\ (order = "none" => todo = Fields)
        /\ order' = "flag" => order = "flag" \/ (order = "none" /\ f = Flag)
    BY <1>r, <2>1
  <2>6. ReaderOk'
    <3>1. made = busy => \A x \in Fields \ todo' : copy'[x] = Field(x)
      BY <1>r, <2>1, <2>2
    <3>2. Newest = busy /\ Flag \notin todo' => copy'[Flag] = is_revers
      BY <1>r, <2>1, <2>2, FieldNames
    <3>3. order' = "flag" => Flag \notin todo' /\ copy'[Flag] \in Halves
      BY <1>h, <1>r, <2>1, <2>2, <2>5, FieldNames
    <3> QED BY <1>r, <2>1, <2>3, <2>5, <3>1, <3>2, <3>3 DEF ReaderOk, shareVars
  <2>7. ASSUME order' = "flag", made <= busy + 1 PROVE FlagFirst(copy[Flag])'
    <3>1. CASE order = "flag"
      <4>1. PICK h \in Halves : h = copy[Flag]
        BY <1>r, <3>1
      <4>2. f # Flag /\ copy'[Flag] = h
        BY <1>r, <2>1, <2>2, <3>1, <4>1, FieldNames
      <4>3. FlagFirst(h)
        BY <1>r, <2>7, <3>1, <4>1
      <4>4. FlagFirst(h)'
        BY <2>1, <2>2, <4>1, <4>3, FieldNames DEF FlagFirst, shareVars
      <4> QED BY <4>2, <4>4
    <3>2. CASE order = "none" /\ f = Flag
      <4>1. PICK h \in Halves : h = is_revers
        BY <1>h
      <4>2. copy'[Flag] = h
        BY <2>2, <3>2, <4>1, FieldNames
      <4>3. <<"len", h>> \in todo' /\ <<"buff", h>> \in todo'
        BY <2>1, <2>5, <3>2, FieldNames
      <4>4. len[h] = Newest /\ buff[h] = Newest
        BY <1>p, <4>1
      <4>5. Newest \in Nat
        BY <1>c, <1>w DEF Newest
      <4>6. len[h] >= busy
        BY <1>c, <1>r, <4>4, <4>5
      <4>7. FlagFirst(h)'
        BY <2>1, <4>3, <4>4, <4>6 DEF FlagFirst, shareVars
      <4> QED BY <4>2, <4>7
    <3> QED BY <2>5, <2>7, <3>1, <3>2
  <2> QED BY <2>1, <2>4, <2>6, <2>7 DEF ShareInv
<1>6. CASE signalCallback
  BY <1>6, ShareIdle DEF signalCallback
<1>7. ASSUME NEW w \in Waiters, waitCall(w) \/ waitTimeout(w) \/ waitReturn(w) PROVE ShareInv'
  BY <1>7, ShareIdle DEF waitCall, waitTimeout, waitReturn
<1>8. CASE UNCHANGED vars
  BY <1>8, ShareIdle DEF vars
<1>9. shareLen \/ shareBuff => rpc \in {"len", "buff"}
  BY DEF shareLen, shareBuff
<1> QED BY <1>1, <1>2, <1>3, <1>4, <1>5, <1>6, <1>7, <1>8, <1>9 DEF Next

-----------------------------------------------------------------------------
\* The signal: nobody sleeps on data.
Awake == {w \in Waiters : wpc[w] = "awake"}

\* The sets of threads are finite, and count up and down by one.
LEMMA AwakeCount ==
    ASSUME NEW S \in SUBSET Waiters, NEW w \in Waiters
    PROVE  /\ Cardinality(S) \in Nat
           /\ w \notin S => Cardinality(S \cup {w}) = Cardinality(S) + 1
           /\ w \in S => Cardinality(S \ {w}) = Cardinality(S) - 1
<1>1. IsFiniteSet(S)
  BY Constants, FS_Subset
<1> QED BY <1>1, FS_CardinalityType, FS_AddElement, FS_RemoveElement

\* A step that makes data readable leaves nobody asleep on it.
LEMMA SleepNext == TypeOK /\ NoSleepOnData /\ [Next]_vars => NoSleepOnData'
<1> SUFFICES ASSUME TypeOK, NoSleepOnData, [Next]_vars,
                    NEW z \in Waiters, wpc'[z] = "waiting"
             PROVE  Len(queue') <= Cardinality(Awake')
  BY DEF NoSleepOnData, Awake
<1>t. /\ Awake \in SUBSET Waiters /\ queue \in Seq(Number) /\ Len(queue) \in Nat
      /\ wpc \in [Waiters -> {"idle", "waiting", "awake"}]
  BY DEF TypeOK, Awake
<1>s. (\E w \in Waiters : wpc[w] = "waiting") => Len(queue) <= Cardinality(Awake)
  BY DEF NoSleepOnData, Awake
<1>a. Cardinality(Awake) \in Nat
  BY <1>t, AwakeCount
<1>1. CASE UNCHANGED <<queue, wpc>>
  BY <1>1, <1>s DEF Awake
<1>2. CASE signalCallback
  <2>1. PICK w \in Waiters : wpc[w] = "waiting" /\ wpc' = [wpc EXCEPT ![w] = "awake"]
    BY <1>2 DEF signalCallback, Woken
  <2>2. Awake' = Awake \cup {w} /\ w \notin Awake
    BY <1>t, <2>1 DEF Awake
  <2>3. Cardinality(Awake') = Cardinality(Awake) + 1
    BY <1>t, <2>2, AwakeCount
  <2>4. Len(queue') \in Nat /\ Len(queue') <= Len(queue) + 1
    <3>0. queue \in Seq(Number) /\ Len(queue) <= QueueMax /\ made \in Number
      BY DEF TypeOK
    <3>1. \E s \in {0, 1}, n \in Nat :
              n = Len(queue) - s /\ Len(PushBack(queue, made, QueueMax)) = n + 1
      BY <3>0, Pushed
    <3>2. queue' = PushBack(queue, made, QueueMax)
      BY <1>2 DEF signalCallback
    <3> QED BY <1>t, <3>1, <3>2
  <2>5. Len(queue) <= Cardinality(Awake)
    BY <1>s, <2>1
  <2> QED BY <1>t, <1>a, <2>3, <2>4, <2>5
<1>3. ASSUME NEW w \in Waiters, waitCall(w) PROVE Len(queue') <= Cardinality(Awake')
  <2>1. CASE queue = <<>>
    <3>1. Len(queue') = 0 /\ Awake' = Awake
      BY <1>t, <1>3, <2>1 DEF waitCall, Awake
    <3> QED BY <1>a, <3>1
  <2>2. CASE queue # <<>>
    <3>1. queue' = Tail(queue) /\ taken' = Append(taken, Head(queue)) /\ wpc' = wpc
      BY <1>3, <2>2 DEF waitCall
    <3>2. Len(queue') = Len(queue) - 1
      BY <2>2, <3>1, Taking
    <3>3. Len(queue) <= Cardinality(Awake) /\ Awake' = Awake
      BY <1>s, <3>1 DEF Awake
    <3> QED BY <1>t, <1>a, <3>2, <3>3
  <2> QED BY <2>1, <2>2
<1>4. ASSUME NEW w \in Waiters, waitTimeout(w) PROVE Len(queue') <= Cardinality(Awake')
  <2>1. wpc[w] = "waiting" /\ wpc' = [wpc EXCEPT ![w] = "awake"] /\ queue' = queue
    BY <1>4 DEF waitTimeout
  <2>2. Awake' = Awake \cup {w} /\ w \notin Awake
    BY <1>t, <2>1 DEF Awake
  <2>3. Cardinality(Awake') = Cardinality(Awake) + 1 /\ Len(queue) <= Cardinality(Awake)
    BY <1>t, <1>s, <2>1, <2>2, AwakeCount
  <2> QED BY <1>t, <1>a, <2>1, <2>3
<1>5. ASSUME NEW w \in Waiters, waitReturn(w) PROVE Len(queue') <= Cardinality(Awake')
  <2>1. wpc[w] = "awake" /\ wpc' = [wpc EXCEPT ![w] = "idle"]
    BY <1>5 DEF waitReturn
  <2>2. Awake' = Awake \ {w} /\ w \in Awake /\ Awake' \in SUBSET Waiters
    BY <1>t, <2>1 DEF Awake
  <2>3. /\ Cardinality(Awake') = Cardinality(Awake) - 1 /\ Cardinality(Awake') \in Nat
        /\ Len(queue) <= Cardinality(Awake)
    <3>1. wpc[z] = "waiting"
      BY <1>t, <2>1
    <3>2. Cardinality(Awake') \in Nat
      BY <2>2, AwakeCount
    <3> QED BY <1>t, <1>s, <2>2, <3>1, <3>2, AwakeCount
  <2>4. CASE queue = <<>>
    <3>1. Len(queue') = 0
      BY <1>5, <2>4 DEF waitReturn
    <3> QED BY <2>3, <3>1
  <2>5. CASE queue # <<>>
    <3>1. queue' = Tail(queue) /\ taken' = Append(taken, Head(queue))
      BY <1>5, <2>5 DEF waitReturn
    <3>2. Len(queue') = Len(queue) - 1
      BY <2>5, <3>1, Taking
    <3> QED BY <1>t, <1>a, <2>3, <3>2
  <2> QED BY <2>4, <2>5
<1>6. CASE UNCHANGED vars
  BY <1>1, <1>6 DEF vars, signalVars
<1>7. receive \/ shareLen \/ shareBuff \/ shareFlip \/ getBegin \/ (\E f \in Fields : getField(f))
      => UNCHANGED <<queue, wpc>>
  BY DEF receive, shareLen, shareBuff, shareFlip, getBegin, getField, signalVars
<1> QED BY <1>1, <1>2, <1>3, <1>4, <1>5, <1>6, <1>7 DEF Next

-----------------------------------------------------------------------------
\* The frames: taken, queued, discarded.
LEMMA TakenIdle ==
    ASSUME TakenOk, UNCHANGED <<taken, queue, lost>>, Queued' = Queued
    PROVE  TakenOk'
BY DEF TakenOk, Increasing, Elements

\* One call of wait takes the front of the queue.
LEMMA TakenTake ==
    ASSUME TypeOK, TakenOk, queue # <<>>, taken' = Append(taken, Head(queue)),
           queue' = Tail(queue), lost' = lost, Queued' = Queued
    PROVE  TakenOk'
<1> DEFINE m == Len(taken)
           n == Len(queue)
<1>1. /\ n \in Nat \ {0} /\ m \in Nat
      /\ Len(taken') = m + 1
      /\ \A i \in 1 .. m : taken'[i] = taken[i]
      /\ taken'[m + 1] = queue[1]
      /\ Len(queue') = n - 1
      /\ \A i \in 1 .. n - 1 : i + 1 \in 1 .. n /\ queue'[i] = queue[i + 1]
  BY Taking
<1>2. /\ \A i, j \in 1 .. m : i < j => taken[i] < taken[j]
      /\ \A i, j \in 1 .. n : i < j => queue[i] < queue[j]
      /\ \A i \in 1 .. m, j \in 1 .. n : taken[i] < queue[j]
  BY DEF TakenOk, Increasing
<1> HIDE DEF m, n
<1>3. /\ 1 \in 1 .. n /\ m + 1 \in 1 .. m + 1 /\ \A i \in 1 .. m : i \in 1 .. m + 1
      /\ \A i \in 1 .. m + 1 : i = m + 1 \/ i \in 1 .. m
      /\ \A i \in 1 .. n - 1 : 1 < i + 1
      /\ \A j \in 1 .. n : j = 1 \/ (j - 1 \in 1 .. n - 1 /\ (j - 1) + 1 = j)
  BY <1>1
<1>4. Increasing(taken')
  <2> SUFFICES ASSUME NEW i \in 1 .. m + 1, NEW j \in 1 .. m + 1, i < j
               PROVE  taken'[i] < taken'[j]
    BY <1>1 DEF Increasing
  <2>1. i \in 1 .. m
    BY <1>1
  <2> QED BY <1>1, <1>2, <1>3, <2>1
<1>5. Increasing(queue')
  <2> SUFFICES ASSUME NEW i \in 1 .. n - 1, NEW j \in 1 .. n - 1, i < j
               PROVE  queue'[i] < queue'[j]
    BY <1>1 DEF Increasing
  <2>1. i + 1 < j + 1 /\ i + 1 \in 1 .. n /\ j + 1 \in 1 .. n
    BY <1>1
  <2> QED BY <1>1, <1>2, <2>1
<1>6. \A i \in 1 .. Len(taken'), j \in 1 .. Len(queue') : taken'[i] < queue'[j]
  <2> SUFFICES ASSUME NEW i \in 1 .. m + 1, NEW j \in 1 .. n - 1
               PROVE  taken'[i] < queue'[j]
    BY <1>1
  <2>1. j + 1 \in 1 .. n /\ queue'[j] = queue[j + 1] /\ 1 < j + 1
    BY <1>1, <1>3
  <2> QED BY <1>1, <1>2, <1>3, <2>1
<1>7. Elements(taken') = Elements(taken) \cup {queue[1]}
  <2>1. Elements(taken') = {taken'[i] : i \in 1 .. m + 1}
    BY <1>1 DEF Elements
  <2>2. Elements(taken) = {taken[i] : i \in 1 .. m}
    BY DEF Elements, m
  <2> QED BY <1>1, <1>3, <2>1, <2>2
<1>8. Elements(queue) = Elements(queue') \cup {queue[1]}
  <2>1. Elements(queue') = {queue'[i] : i \in 1 .. n - 1}
    BY <1>1 DEF Elements
  <2>2. Elements(queue) = {queue[i] : i \in 1 .. n}
    BY DEF Elements, n
  <2>3. \A j \in 1 .. n : j # 1 => queue[j] = queue'[j - 1] /\ j - 1 \in 1 .. n - 1
    BY <1>1, <1>3
  <2>4. Elements(queue) \subseteq Elements(queue') \cup {queue[1]}
    <3> SUFFICES ASSUME NEW j \in 1 .. n, j # 1 PROVE queue[j] \in Elements(queue')
      BY <2>2
    <3>1. queue[j] = queue'[j - 1] /\ j - 1 \in 1 .. n - 1
      BY <2>3
    <3> QED BY <2>1, <3>1
  <2>5. Elements(queue') \cup {queue[1]} \subseteq Elements(queue)
    BY <1>1, <1>3, <2>1, <2>2
  <2> QED BY <2>4, <2>5
<1>9. /\ Elements(taken') \cup Elements(queue') \cup lost' = 1 .. Queued'
      /\ Elements(taken') \cap lost' = {} /\ Elements(queue') \cap lost' = {}
  BY <1>7, <1>8 DEF TakenOk
<1> QED BY <1>4, <1>5, <1>6, <1>9 DEF TakenOk

\* CSRegSignal_callback queues the frame, and may discard the oldest.
LEMMA TakenPush ==
    ASSUME TypeOK, WriterOk, TakenOk, signalCallback
    PROVE  TakenOk'
<1> DEFINE m == Len(taken)
           k == Len(queue)
<1>c. made \in Nat \ {0} /\ Queued = made - 1 /\ Queued' = made /\ m \in Nat /\ k \in Nat
  BY Constants DEF TypeOK, WriterOk, signalCallback, Queued
<1>g. /\ queue' = PushBack(queue, made, QueueMax)
      /\ lost' = lost \cup Discarded(queue, QueueMax) /\ taken' = taken
  BY DEF signalCallback
<1>0. queue \in Seq(Number) /\ Len(queue) <= QueueMax /\ made \in Number
  BY DEF TypeOK
<1>p. PICK s \in {0, 1}, n \in Nat :
             /\ n = Len(queue) - s /\ n < QueueMax
             /\ PushBack(queue, made, QueueMax) \in Seq(Number)
             /\ Len(PushBack(queue, made, QueueMax)) = n + 1
             /\ \A i \in 1 .. n : i + s \in 1 .. Len(queue)
                                 /\ PushBack(queue, made, QueueMax)[i] = queue[i + s]
             /\ PushBack(queue, made, QueueMax)[n + 1] = made
             /\ s = 0 => Discarded(queue, QueueMax) = {}
             /\ s = 1 => Len(queue) # 0 /\ Discarded(queue, QueueMax) = {queue[1]}
  BY <1>0, Pushed
<1>1. /\ n = k - s
      /\ Len(queue') = n + 1
      /\ \A i \in 1 .. n : i + s \in 1 .. k /\ queue'[i] = queue[i + s]
      /\ queue'[n + 1] = made
      /\ s = 0 => lost' = lost
      /\ s = 1 => k # 0 /\ lost' = lost \cup {queue[1]}
  BY <1>g, <1>p
<1>2. /\ \A i, j \in 1 .. k : i < j => queue[i] < queue[j]
      /\ \A i \in 1 .. m, j \in 1 .. k : taken[i] < queue[j]
      /\ \A i \in 1 .. m : taken[i] \in 1 .. made - 1
      /\ \A i \in 1 .. k : queue[i] \in 1 .. made - 1
      /\ lost \subseteq 1 .. made - 1
      /\ Elements(taken) \cup Elements(queue) \cup lost = 1 .. made - 1
      /\ Elements(taken) \cap lost = {} /\ Elements(queue) \cap lost = {}
  BY <1>c DEF TakenOk, Increasing, Elements
<1> HIDE DEF m, k
<1>3. /\ \A i \in 1 .. n + 1 : i = n + 1 \/ i \in 1 .. n
      /\ n + 1 \in 1 .. n + 1 /\ \A i \in 1 .. n : i \in 1 .. n + 1
  OBVIOUS
<1>q. \A i \in 1 .. n : queue'[i] \in 1 .. made - 1
  BY <1>1, <1>2
<1>4. Increasing(queue')
  <2> SUFFICES ASSUME NEW i \in 1 .. n + 1, NEW j \in 1 .. n + 1, i < j
               PROVE  queue'[i] < queue'[j]
    BY <1>1 DEF Increasing
  <2>1. i \in 1 .. n
    OBVIOUS
  <2>2. CASE j = n + 1
    BY <1>c, <1>1, <1>q, <2>1, <2>2
  <2>3. CASE j \in 1 .. n
    <3>1. i + s < j + s /\ i + s \in 1 .. k /\ j + s \in 1 .. k
      BY <1>1, <2>1, <2>3
    <3> QED BY <1>1, <1>2, <2>1, <2>3, <3>1
  <2> QED BY <1>3, <2>2, <2>3
<1>5. \A i \in 1 .. Len(taken'), j \in 1 .. Len(queue') : taken'[i] < queue'[j]
  <2> SUFFICES ASSUME NEW i \in 1 .. m, NEW j \in 1 .. n + 1
               PROVE  taken[i] < queue'[j]
    BY <1>g, <1>1 DEF m
  <2>1. CASE j = n + 1
    BY <1>c, <1>1, <1>2, <2>1
  <2>2. CASE j \in 1 .. n
    BY <1>1, <1>2, <2>2
  <2> QED BY <1>3, <2>1, <2>2
<1>6. Elements(queue') = {queue'[i] : i \in 1 .. n + 1} /\ Elements(queue) = {queue[i] : i \in 1 .. k}
      /\ Elements(taken) = {taken[i] : i \in 1 .. m}
  BY <1>1 DEF Elements, k, m
<1>7. CASE s = 0
  <2>1. n = k /\ \A i \in 1 .. n : queue'[i] = queue[i]
    BY <1>c, <1>1, <1>7
  <2>2. Elements(queue') = Elements(queue) \cup {made}
    BY <1>1, <1>3, <1>6, <2>1
  <2>3. made \notin 1 .. made - 1 /\ (1 .. made - 1) \cup {made} = 1 .. made
    BY <1>c
  <2>4. /\ Elements(taken') \cup Elements(queue') \cup lost' = 1 .. Queued'
        /\ Elements(taken') \cap lost' = {} /\ Elements(queue') \cap lost' = {}
    BY <1>c, <1>g, <1>1, <1>2, <1>7, <2>2, <2>3
  <2> QED BY <1>g, <1>4, <1>5, <2>4 DEF TakenOk
<1>8. CASE s = 1
  <2>1. n = k - 1 /\ 1 \in 1 .. k /\ \A i \in 1 .. n : i + 1 \in 1 .. k /\ queue'[i] = queue[i + 1]
    BY <1>c, <1>1, <1>8
  <2>2. \A j \in 1 .. k : j = 1 \/ (j - 1 \in 1 .. n /\ queue[j] = queue'[j - 1])
    <3>1. \A j \in 1 .. k : j = 1 \/ (j - 1 \in 1 .. n /\ (j - 1) + 1 = j)
      BY <1>c, <2>1
    <3> QED BY <2>1, <3>1
  <2>3. Elements(queue') \cup {queue[1]} = Elements(queue) \cup {made}
    <3>1. Elements(queue) \cup {made} \subseteq Elements(queue') \cup {queue[1]}
      BY <1>1, <1>3, <1>6, <2>2
    <3>2. Elements(queue') \cup {queue[1]} \subseteq Elements(queue) \cup {made}
      BY <1>1, <1>3, <1>6, <2>1
    <3> QED BY <3>1, <3>2
  <2>4. made \notin 1 .. made - 1 /\ (1 .. made - 1) \cup {made} = 1 .. made
    BY <1>c
  <2>5. queue[1] \notin Elements(queue')
    <3>1. \A i \in 1 .. n : queue'[i] # queue[1]
      <4>1. ASSUME NEW i \in 1 .. n PROVE queue[1] < queue[i + 1] /\ queue[1] \in Nat
        <5>1. 1 < i + 1 /\ i + 1 \in 1 .. k
          BY <2>1
        <5> QED BY <1>2, <2>1, <5>1
      <4> QED BY <2>1, <4>1
    <3>2. made # queue[1]
      BY <1>2, <2>1, <2>4
    <3> QED BY <1>1, <1>3, <1>6, <3>1, <3>2
  <2>6. queue[1] \notin Elements(taken)
    <3>1. \A i \in 1 .. m : taken[i] < queue[1] /\ taken[i] \in Nat
      BY <1>2, <2>1
    <3>2. \A i \in 1 .. m : taken[i] # queue[1]
      BY <3>1
    <3> QED BY <1>6, <3>2
  <2>7. Elements(queue') \cap lost = {} /\ queue[1] \in Elements(queue)
    BY <1>2, <1>6, <2>1, <2>3, <2>4
  <2>8. /\ Elements(taken') \cup Elements(queue') \cup lost' = 1 .. Queued'
        /\ Elements(taken') \cap lost' = {} /\ Elements(queue') \cap lost' = {}
    BY <1>c, <1>g, <1>1, <1>2, <1>8, <2>3, <2>4, <2>5, <2>6, <2>7
  <2> QED BY <1>g, <1>4, <1>5, <2>8 DEF TakenOk
<1> QED BY <1>7, <1>8

\* What is taken is taken by one reader, and once.
LEMMA TakenNext == TypeOK /\ WriterOk /\ TakenOk /\ [Next]_vars => TakenOk'
<1> SUFFICES ASSUME TypeOK, WriterOk, TakenOk, [Next]_vars PROVE TakenOk'
  OBVIOUS
<1>1. CASE UNCHANGED <<taken, queue, lost>> /\ Queued' = Queued
  BY <1>1, TakenIdle
<1>2. CASE receive
  <2>1. Queued' = Queued /\ UNCHANGED <<taken, queue, lost>>
    BY <1>2, Constants DEF receive, Queued, TypeOK, signalVars
  <2> QED BY <1>1, <2>1
<1>3. CASE shareLen \/ shareBuff \/ shareFlip
  <2>1. Queued' = Queued /\ UNCHANGED <<taken, queue, lost>>
    BY <1>3 DEF shareLen, shareBuff, shareFlip, Queued, signalVars
  <2> QED BY <1>1, <2>1
<1>4. CASE getBegin \/ \E f \in Fields : getField(f)
  <2>1. Queued' = Queued /\ UNCHANGED <<taken, queue, lost>>
    BY <1>4 DEF getBegin, getField, Queued, signalVars
  <2> QED BY <1>1, <2>1
<1>5. ASSUME NEW w \in Waiters, waitCall(w) \/ waitTimeout(w) \/ waitReturn(w) PROVE TakenOk'
  <2>1. Queued' = Queued /\ lost' = lost
    BY <1>5 DEF waitCall, waitTimeout, waitReturn, Queued
  <2>2. \/ UNCHANGED <<taken, queue>>
        \/ queue # <<>> /\ taken' = Append(taken, Head(queue)) /\ queue' = Tail(queue)
    BY <1>5 DEF waitCall, waitTimeout, waitReturn
  <2> QED BY <1>1, <2>1, <2>2, TakenTake
<1>6. CASE UNCHANGED vars
  <2>1. Queued' = Queued /\ UNCHANGED <<taken, queue, lost>>
    BY <1>6 DEF vars, Queued, signalVars
  <2> QED BY <1>1, <2>1
<1> QED BY <1>2, <1>3, <1>4, <1>5, <1>6, TakenPush DEF Next

-----------------------------------------------------------------------------
\* The inductive invariant holds initially,
LEMMA RegStrongInit == Init => RegStrong
<1> SUFFICES ASSUME Init PROVE RegStrong
  OBVIOUS
<1>1. TypeOK /\ ShareInv
  BY TypeInit, ShareInit
<1>2. Len(queue) = 0 /\ Len(taken) = 0 /\ lost = {} /\ Queued = 0
  BY DEF Init, Queued
<1>3. NoSleepOnData
  BY DEF Init, NoSleepOnData
<1>4. TakenOk
  <2>1. Elements(taken) = {} /\ Elements(queue) = {} /\ 1 .. 0 = {}
    BY <1>2 DEF Elements
  <2> QED BY <1>2, <2>1 DEF TakenOk, Increasing
<1> QED BY <1>1, <1>3, <1>4 DEF RegStrong, RegInv, ShareInv

\* every step keeps it,
LEMMA RegStrongNext == RegStrong /\ [Next]_vars => RegStrong'
<1> SUFFICES ASSUME RegStrong, [Next]_vars PROVE RegStrong'
  OBVIOUS
<1>1. TypeOK /\ NoSleepOnData /\ ShareInv /\ WriterOk /\ TakenOk
  BY DEF RegStrong, RegInv, ShareInv
<1>2. TypeOK' /\ NoSleepOnData' /\ TakenOk'
  BY <1>1, TypeNext, SleepNext, TakenNext
<1>3. ShareInv'
  BY <1>1, <1>2, ShareNext
<1> QED BY <1>2, <1>3 DEF RegStrong, RegInv, ShareInv

\* and so it holds always.
LEMMA RegStrongAlways == Spec => []RegStrong
BY RegStrongInit, RegStrongNext, PTL DEF Spec

\* Readers of a share are always pointed at a whole frame, the newest complete
\* one, and no thread sleeps in CSRegSignal_wait on a frame nobody is awake to
\* take, for any number of waiters and any capacity.
THEOREM RegCorrect == Spec => []RegInv
<1>1. RegStrong => RegInv
  BY DEF RegStrong
<1> QED BY RegStrongAlways, <1>1, PTL

\* CSRegShare_get returns one frame if no callback ran meanwhile, or if is_revers
\* was loaded first and at most one frame began meanwhile, in whatever order the
\* other fields are copied.
THEOREM ShareNotTorn == Spec => []GetNotTorn
<1>1. ASSUME RegStrong PROVE GetNotTorn
  <2> SUFFICES ASSUME todo = {}, order # "none",
                      made = busy \/ (order = "flag" /\ made <= busy + 1)
               PROVE  /\ copy[<<"len", copy[Flag]>>] = copy[<<"buff", copy[Flag]>>]
                      /\ copy[<<"len", copy[Flag]>>] >= busy
    BY DEF GetNotTorn
  <2>1. CASE order = "flag" /\ made <= busy + 1
    BY <1>1, <2>1 DEF RegStrong, FlagFirst
  <2>2. CASE made = busy
    <3>1. TypeOK /\ PublishedWhole /\ busy <= Newest /\ \A f \in Fields : copy[f] = Field(f)
      BY <1>1, <2>2 DEF RegStrong, RegInv, ReaderOk
    <3>2. PICK h \in Halves : h = is_revers
      BY <3>1 DEF TypeOK
    <3>3. copy[Flag] = h /\ copy[<<"len", h>>] = len[h] /\ copy[<<"buff", h>>] = buff[h]
      BY <3>1, <3>2, FieldNames
    <3>4. len[h] = Newest /\ buff[h] = Newest
      BY <3>1, <3>2 DEF PublishedWhole, Newest
    <3>5. Newest \in Int /\ busy \in Int
      BY <3>1, Constants DEF TypeOK, Newest
    <3> QED BY <3>1, <3>3, <3>4, <3>5
  <2> QED BY <2>1, <2>2
<1> QED BY RegStrongAlways, <1>1, PTL

\* Every frame is taken by exactly one call of wait, in the order of arrival,
\* unless the full queue discarded it.
THEOREM TakenExactlyOnce == Spec => []EachTakenOnce
<1>1. ASSUME RegStrong PROVE EachTakenOnce
  <2> DEFINE m == Len(taken)
             n == Len(queue)
             seen == taken \o queue
  <2>1. /\ m \in Nat /\ n \in Nat /\ Len(seen) = m + n
        /\ \A i \in 1 .. m + n : seen[i] = IF i <= m THEN taken[i] ELSE queue[i - m]
    BY <1>1, ConcatProperties DEF RegStrong, RegInv, TypeOK
  <2>2. /\ \A i, j \in 1 .. m : i < j => taken[i] < taken[j]
        /\ \A i, j \in 1 .. n : i < j => queue[i] < queue[j]
        /\ \A i \in 1 .. m, j \in 1 .. n : taken[i] < queue[j]
        /\ Elements(taken) = {taken[i] : i \in 1 .. m} /\ Elements(queue) = {queue[i] : i \in 1 .. n}
    BY <1>1 DEF RegStrong, TakenOk, Increasing, Elements
  <2>3. Elements(seen) = {seen[i] : i \in 1 .. m + n}
    BY <2>1 DEF Elements
  <2> HIDE DEF m, n, seen
  <2>4. ASSUME NEW i \in 1 .. m + n, NEW j \in 1 .. m + n, i < j PROVE seen[i] < seen[j]
    <3>1. CASE j <= m
      <4>1. i \in 1 .. m /\ j \in 1 .. m
        BY <2>1, <2>4, <3>1
      <4> QED BY <2>1, <2>2, <2>4, <4>1
    <3>2. CASE i <= m /\ ~(j <= m)
      <4>1. i \in 1 .. m /\ j - m \in 1 .. n
        BY <2>1, <3>2
      <4> QED BY <2>1, <2>2, <3>2, <4>1
    <3>3. CASE ~(i <= m) /\ ~(j <= m)
      <4>1. i - m \in 1 .. n /\ j - m \in 1 .. n /\ i - m < j - m
        BY <2>1, <2>4, <3>3
      <4> QED BY <2>1, <2>2, <3>3, <4>1
    <3>4. i <= m \/ ~(j <= m)
      BY <2>1, <2>4
    <3> QED BY <2>1, <2>4, <3>1, <3>2, <3>3
  <2>5. Elements(seen) = Elements(taken) \cup Elements(queue)
    <3>1. \A i \in 1 .. m : i \in 1 .. m + n /\ i <= m
      BY <2>1
    <3>2. \A i \in 1 .. n : i + m \in 1 .. m + n /\ ~(i + m <= m) /\ (i + m) - m = i
      BY <2>1
    <3>3. \A i \in 1 .. m + n : i \in 1 .. m \/ (~(i <= m) /\ i - m \in 1 .. n)
      BY <2>1
    <3>4. \A i \in 1 .. m : seen[i] = taken[i]
      BY <2>1, <3>1
    <3>5. \A i \in 1 .. n : seen[i + m] = queue[i]
      BY <2>1, <3>2
    <3>6. \A i \in 1 .. m + n : seen[i] \in Elements(taken) \cup Elements(queue)
      BY <2>1, <2>2, <3>1, <3>3
    <3> QED BY <2>2, <2>3, <3>1, <3>2, <3>4, <3>5, <3>6
  <2>6. \A i, j \in 1 .. Len(seen) : i < j => seen[i] < seen[j]
    BY <2>1, <2>4
  <2>7. Elements(seen) \cup lost = 1 .. Queued /\ Elements(seen) \cap lost = {}
    BY <1>1, <2>5 DEF RegStrong, TakenOk
  <2> QED BY <2>6, <2>7 DEF EachTakenOnce, Queued, seen
<1> QED BY RegStrongAlways, <1>1, PTL
=============================================================================
