------------------------------ MODULE CSRxProofs ------------------------------
(***************************************************************************)
(* The callbacks of the receive thread, for every set of clients, ids and  *)
(* registers.                                                              *)
(*                                                                         *)
(*  - The registry (CSRx): it holds exactly the clients that are bound     *)
(*    (RegistryInv), no callback runs for a client that has closed         *)
(*    (NoCallAfterClose), and a frame reaches the clients its sender meant *)
(*    and nobody else (BoundAreCalled).                                    *)
(*  - Acknowledged sending on top of it (CSAck): no callback on an *)
(*    object that is gone (AckInv), a reported ack was given               *)
(*    (HitMeansReceived), an ack during a call is not missed               *)
(*    (AckNeverMissed).                                                    *)
(***************************************************************************)
EXTENDS CSRx, CSAck, SequenceTheorems, TLAPS

\* The list holds each client of S once, and nobody else (C: all of its kind).
Holds(list, C, S) ==
    /\ list \in Seq(C)
    /\ \A k \in S : \E i \in 1 .. Len(list) : list[i] = k
    /\ \A i \in 1 .. Len(list) : list[i] \in S
    /\ \A i, j \in 1 .. Len(list) : list[i] = list[j] => i = j

Legal(k) == ArgsLegal(0, IdOf[k], 0)
CellOf(k) == DevIndex(IdOf[k])

\* The clients bound to a list of a device.
BoundTo(c, l) == {k \in asked : ListOf[k] = l /\ Legal(k) /\ CellOf(k) = c}

\* The lists hold the bound clients.  The id that bindBrc passes to the checker
\* of the arguments is illegal, so the lists of broadcasts stay empty.
ListsOk ==
    /\ \A c \in Cells, l \in DevLists : Holds(lists[c][l], Clients, BoundTo(c, l))
    /\ \A l \in BrcLists : brc_callbacks[l] = <<>>

\* A frame is routed to what its sender meant, or to nothing.
FrameOk ==
    frame # NoFrame =>
        \/ meant = <<>> /\ Target[1] = "none"
        \/ \E d \in LegalIds, l \in DevLists \cup BrcLists :
              /\ meant = <<d, l>> /\ Target = l
              /\ DevIndex(NUMBER_ID(frame.id)) = DevIndex(d)

\* The mutex is held from the dispatch to the last callback, and the callbacks
\* that have run are the first ones of the list.
RunOk ==
    /\ calling => /\ frame # NoFrame /\ locked = (Target[1] # "none")
                  /\ next \in 1 .. Len(Current) + 1
                  /\ Len(called) = next - 1
                  /\ \A i \in 1 .. Len(called) : called[i] = Current[i]
    /\ ~calling => ~locked /\ next = 1 /\ called = <<>>

\* The inductive invariant.
RxInv == TypeOK /\ AllocatedIffBound /\ ListsOk /\ FrameOk /\ RunOk

-----------------------------------------------------------------------------
\* bind appends a client that is not in the list.
LEMMA AddHolds ==
    ASSUME NEW C, NEW list, NEW S \in SUBSET C, Holds(list, C, S), NEW k \in C, k \notin S
    PROVE  Holds(callbackListAdd(list, k), C, S \cup {k})
<1> DEFINE a == Append(list, k)
           n == Len(list)
<1>1. /\ a \in Seq(C) /\ Len(a) = n + 1 /\ n \in Nat
      /\ \A i \in 1 .. n : a[i] = list[i]
      /\ a[n + 1] = k
  BY AppendProperties DEF Holds
<1>2. \A i \in 1 .. n + 1 : i = n + 1 \/ i \in 1 .. n
  BY <1>1
<1>3. n + 1 \in 1 .. n + 1 /\ \A i \in 1 .. n : i \in 1 .. n + 1
  BY <1>1
<1>l. /\ \A x \in S : \E i \in 1 .. n : list[i] = x
      /\ \A i \in 1 .. n : list[i] \in S
      /\ \A i, j \in 1 .. n : list[i] = list[j] => i = j
  BY DEF Holds
<1> HIDE DEF a, n
<1>4. \A x \in S \cup {k} : \E i \in 1 .. n + 1 : a[i] = x
  BY <1>1, <1>3, <1>l
<1>5. \A i \in 1 .. n + 1 : a[i] \in S \cup {k}
  BY <1>1, <1>2, <1>l
<1>6. \A i, j \in 1 .. n + 1 : a[i] = a[j] => i = j
  BY <1>1, <1>2, <1>l
<1> QED BY <1>1, <1>4, <1>5, <1>6 DEF Holds, a, callbackListAdd

\* callbackListClose removes a client that is in the list.
LEMMA CloseHolds ==
    ASSUME NEW C, NEW list, NEW S \in SUBSET C, Holds(list, C, S), NEW k \in S
    PROVE  Holds(callbackListClose(list, k), C, S \ {k}) /\ callbackListClose(list, k) # list
<1> DEFINE n == Len(list)
           p == CHOOSE j \in 1 .. n : list[j] = k
           w == callbackListClose(list, k)
<1>l. /\ list \in Seq(C) /\ n \in Nat
      /\ \A x \in S : \E i \in 1 .. n : list[i] = x
      /\ \A i \in 1 .. n : list[i] \in S
      /\ \A i, j \in 1 .. n : list[i] = list[j] => i = j
  BY DEF Holds
<1>1. p \in 1 .. n /\ list[p] = k
  BY <1>l
<1>2. w = [j \in 1 .. n - 1 |-> IF j < p THEN list[j] ELSE list[j + 1]]
  BY <1>1 DEF callbackListClose
<1> HIDE DEF p, w, n
<1>3. n - 1 \in Nat /\ n \in Nat \ {0}
  BY <1>l, <1>1
<1> DEFINE at(j) == IF j < p THEN j ELSE j + 1
<1>4. \A j \in 1 .. n - 1 : at(j) \in 1 .. n /\ at(j) # p /\ w[j] = list[at(j)]
  BY <1>l, <1>1, <1>2
<1>5. w \in Seq(C) /\ Len(w) = n - 1
  <2>1. \A j \in 1 .. n - 1 : w[j] \in C
    BY <1>l, <1>4
  <2>2. w \in [1 .. n - 1 -> C]
    BY <1>2, <2>1
  <2>3. w \in Seq(C)
    BY <1>3, <2>2, SeqDef
  <2>4. Len(w) \in Nat /\ DOMAIN w = 1 .. Len(w)
    BY <2>3, LenProperties
  <2> QED BY <1>3, <2>2, <2>3, <2>4
<1>6. \A i, j \in 1 .. n - 1 : w[i] = w[j] => i = j
  <2> SUFFICES ASSUME NEW i \in 1 .. n - 1, NEW j \in 1 .. n - 1, w[i] = w[j] PROVE i = j
    OBVIOUS
  <2>1. at(i) = at(j)
    BY <1>l, <1>4
  <2> QED BY <1>l, <1>1, <2>1
<1>7. \A j \in 1 .. n - 1 : w[j] \in S \ {k}
  BY <1>l, <1>1, <1>4
<1>8. ASSUME NEW x \in S \ {k} PROVE \E j \in 1 .. n - 1 : w[j] = x
  <2>1. PICK i \in 1 .. n : list[i] = x
    BY <1>l
  <2>2. i # p
    BY <1>1, <2>1
  <2>3. CASE i < p
    <3>1. i \in 1 .. n - 1 /\ w[i] = list[i]
      BY <1>l, <1>1, <1>2, <2>3
    <3> QED BY <2>1, <3>1
  <2>4. CASE i > p
    <3>1. i - 1 \in 1 .. n - 1 /\ ~(i - 1 < p) /\ (i - 1) + 1 = i
      BY <1>l, <1>1, <2>4
    <3>2. w[i - 1] = list[i]
      BY <1>2, <3>1
    <3> QED BY <2>1, <3>1, <3>2
  <2> QED BY <1>l, <1>1, <2>2, <2>3, <2>4
<1>9. w # list
  BY <1>3, <1>5 DEF n
<1> QED BY <1>5, <1>6, <1>7, <1>8, <1>9 DEF Holds, w

\* A list is empty exactly when nobody is bound to it.
LEMMA EmptyHolds ==
    ASSUME NEW C, NEW list, NEW S, Holds(list, C, S)
    PROVE  list # <<>> <=> \E k \in S : TRUE
<1>1. list \in Seq(C)
  BY DEF Holds
<1>2. CASE list = <<>>
  <2>1. Len(list) = 0
    BY <1>2
  <2> QED BY <1>2, <2>1 DEF Holds
<1>3. CASE list # <<>>
  <2>1. 1 \in 1 .. Len(list)
    BY <1>1, <1>3, EmptySeq
  <2> QED BY <1>3, <2>1 DEF Holds
<1> QED BY <1>2, <1>3

-----------------------------------------------------------------------------
\* Standard CAN identifiers have 11 bits.
CanIds == 0 .. 2047

\* The bytes the encoders produce.
LEMMA Bytes ==
    ASSUME NEW r \in 0 .. 15, NEW ch \in Channels
    PROVE  \E o \in {0, 16} :
             /\ o = 0 <=> ch = "SYSTEM"
             /\ sendRegByte(r, ch) = r + o /\ sendReqByte(r, ch) = r + 32 + o
             /\ sendRegAckByte(r, ch) = r + 64 + o /\ sendReqAckByte(r, ch) = r + 96 + o
             /\ ACK_REG(r) = r + 224 /\ BRC_REG(r) = r + 240
<1>w. /\ WRITE_REG(r) = r /\ REQUEST_REG(r) = r + 32
      /\ WRITEACK_REG(r) = r + 64 /\ REQUESTACK_REG(r) = r + 96
      /\ ACK_REG(r) = r + 224 /\ BRC_REG(r) = r + 240
  BY DEF WRITE_REG, REQUEST_REG, WRITEACK_REG, REQUESTACK_REG, ACK_REG, BRC_REG
<1>s. \A b \in {0, 32, 64, 96} : SYS_REG(r + b) = r + b /\ USER_REG(r + b) = r + b + 16
  BY DEF SYS_REG, USER_REG
<1>0. r + 0 = r
  OBVIOUS
<1>1. CASE ch = "SYSTEM"
  <2>1. \A b : OnChannel(b, ch) = SYS_REG(b)
    BY <1>1 DEF OnChannel
  <2>2. /\ sendRegByte(r, ch) = r + 0 /\ sendReqByte(r, ch) = r + 32 + 0
        /\ sendRegAckByte(r, ch) = r + 64 + 0 /\ sendReqAckByte(r, ch) = r + 96 + 0
    BY <1>w, <1>s, <1>0, <2>1 DEF sendRegByte, sendReqByte, sendRegAckByte, sendReqAckByte
  <2> QED BY <1>1, <1>w, <2>2
<1>2. CASE ch # "SYSTEM"
  <2>1. \A b : OnChannel(b, ch) = USER_REG(b)
    BY <1>2 DEF OnChannel
  <2>2. /\ sendRegByte(r, ch) = r + 16 /\ sendReqByte(r, ch) = r + 32 + 16
        /\ sendRegAckByte(r, ch) = r + 64 + 16 /\ sendReqAckByte(r, ch) = r + 96 + 16
    BY <1>w, <1>s, <1>0, <2>1 DEF sendRegByte, sendReqByte, sendRegAckByte, sendReqAckByte
  <2> QED BY <1>2, <1>w, <2>2
<1> QED BY <1>1, <1>2

\* What the decoder makes of them.
LEMMA Decoded ==
    ASSUME NEW r \in 0 .. 15, NEW o \in {0, 16}
    PROVE  /\ KindBits(r + o) = 0 /\ KindBits(r + 32 + o) = 32
           /\ KindBits(r + 64 + o) = 64 /\ KindBits(r + 96 + o) = 96
           /\ KindBits(r + 224) = 224 /\ KindBits(r + 240) = 224
           /\ \A b \in {0, 32, 64, 96} : IsSys(r + b + o) <=> o = 0
           /\ IsSys(r + o) <=> o = 0
           /\ NUMBER_REG(r + o) = r /\ NUMBER_REG(r + 32 + o) = r
           /\ NUMBER_REG(r + 224) = r /\ NUMBER_REG(r + 240) = r
           /\ IsAckReg(r + 224) /\ ~IsBrcReg(r + 224)
           /\ ~IsAckReg(r + 240) /\ IsBrcReg(r + 240)
           /\ ~IsAckReg(r + 32 + o) /\ ~IsBrcReg(r + 32 + o)
<1>1. /\ KindBits(r + o) = 0 /\ KindBits(r + 32 + o) = 32
      /\ KindBits(r + 64 + o) = 64 /\ KindBits(r + 96 + o) = 96
  BY DEF KindBits
<1>2. KindBits(r + 224) = 224 /\ KindBits(r + 240) = 224
  BY DEF KindBits
<1>3. /\ \A b \in {0, 32, 64, 96} : IsSys(r + b + o) <=> o = 0
      /\ IsSys(r + o) <=> o = 0
  BY DEF IsSys
<1>4. /\ NUMBER_REG(r + o) = r /\ NUMBER_REG(r + 32 + o) = r
      /\ NUMBER_REG(r + 224) = r /\ NUMBER_REG(r + 240) = r
  BY DEF NUMBER_REG
<1>5. /\ IsAckReg(r + 224) /\ ~IsBrcReg(r + 224)
      /\ ~IsAckReg(r + 240) /\ IsBrcReg(r + 240)
      /\ ~IsAckReg(r + 32 + o) /\ ~IsBrcReg(r + 32 + o)
  BY DEF IsAckReg, IsBrcReg
<1> QED BY <1>1, <1>2, <1>3, <1>4, <1>5

\* The id of a device, before and after the driver bit was set and cleared.
LEMMA Ids ==
    ASSUME NEW d \in CanIds, ArgsLegal(0, d, 0)
    PROVE  /\ IsDrivId(DRIV_ID(d)) /\ ~IsDrivId(HOST_ID(d))
           /\ NUMBER_ID(DRIV_ID(d)) = d /\ d \in 16 .. 511
<1>1. d \in 16 .. 511
  BY DEF ArgsLegal, DriverId, CanIds
<1>2. IsDrivId(DRIV_ID(d)) /\ ~IsDrivId(HOST_ID(d)) /\ NUMBER_ID(DRIV_ID(d)) = d
  BY <1>1 DEF IsDrivId, DRIV_ID, HOST_ID, NUMBER_ID
<1> QED BY <1>1, <1>2

\* The checker of the arguments lets every register of a legal id through.
LEMMA LegalReg ==
    ASSUME NEW d, ArgsLegal(0, d, 0), NEW r \in 0 .. 15
    PROVE  ArgsLegal(0, d, r)
BY DEF ArgsLegal

\* The id that bindBrc and closeBrc pass is not legal.
LEMMA BrcIllegal == ~ArgsLegal(0, BrcId, 0)
BY DEF ArgsLegal, DriverId, BrcId

\* Two legal ids never share a cell of the table.
LEMMA CellsApart ==
    ASSUME NEW d \in CanIds, NEW e \in CanIds, ArgsLegal(0, d, 0), ArgsLegal(0, e, 0),
           DevIndex(d) = DevIndex(e)
    PROVE  d = e
<1>1. DriverId(d) - 1 = DriverId(e) - 1 /\ DeviceId(d) = DeviceId(e)
  BY DEF DevIndex
<1>2. \A x \in CanIds : /\ DriverId(x) \in Nat /\ DeviceId(x) \in Nat
                            /\ x = 16 * DriverId(x) + DeviceId(x)
  BY DEF DriverId, DeviceId, CanIds
<1>3. /\ DriverId(d) \in Nat /\ d = 16 * DriverId(d) + DeviceId(d)
      /\ DriverId(e) \in Nat /\ e = 16 * DriverId(e) + DeviceId(e)
  BY <1>2
<1>4. DriverId(d) = DriverId(e)
  BY <1>1, <1>3
<1> QED BY <1>1, <1>3, <1>4

\* The shapes of the lists' names.
LEMMA ListNames ==
    /\ \A l \in DevLists :
          \/ \E ch \in Channels, r \in Regs : l = <<"regs", ch, r>> /\ l[1] = "regs"
                                              /\ l[2] = ch /\ l[3] = r
          \/ \E ch \in Channels : l = <<"reg_acks", ch>> /\ l[1] = "reg_acks" /\ l[2] = ch
          \/ \E ch \in Channels : l = <<"req_acks", ch>> /\ l[1] = "req_acks" /\ l[2] = ch
    /\ \A l \in BrcLists : \E r \in Regs : l = <<"brc_callbacks", r>> /\ l[1] = "brc_callbacks"
                                            /\ l[2] = r
    /\ DevLists \cap BrcLists = {}
<1>1. ASSUME NEW l \in DevLists
      PROVE  \/ \E ch \in Channels, r \in Regs : l = <<"regs", ch, r>> /\ l[1] = "regs"
                                              /\ l[2] = ch /\ l[3] = r
             \/ \E ch \in Channels : l = <<"reg_acks", ch>> /\ l[1] = "reg_acks" /\ l[2] = ch
             \/ \E ch \in Channels : l = <<"req_acks", ch>> /\ l[1] = "req_acks" /\ l[2] = ch
  <2>1. CASE l \in {"regs"} \X Channels \X Regs
    BY <2>1
  <2>2. CASE l \in {"reg_acks", "req_acks"} \X Channels
    BY <2>2
  <2> QED BY <2>1, <2>2 DEF DevLists
<1>2. ASSUME NEW l \in BrcLists
      PROVE  \E r \in Regs : l = <<"brc_callbacks", r>> /\ l[1] = "brc_callbacks" /\ l[2] = r
  BY DEF BrcLists
<1>3. DevLists \cap BrcLists = {}
  <2> SUFFICES ASSUME NEW l \in DevLists, l \in BrcLists PROVE FALSE
    OBVIOUS
  <2>1. l[1] = "brc_callbacks"
    BY <1>2
  <2>2. l[1] \in {"regs", "reg_acks", "req_acks"}
    BY <1>1
  <2> QED BY <2>1, <2>2
<1> QED BY <1>1, <1>2, <1>3

\* The decoder's four outcomes for a frame of a legal device.
LEMMA RouteKinds ==
    ASSUME NEW id, NEW reg, NEW len, NEW data0, NEW n,
           IsDrivId(id), NUMBER_REG(reg) = n, ArgsLegal(0, NUMBER_ID(id), n)
    PROVE  LET chan(b) == IF IsSys(b) THEN "SYSTEM" ELSE "USER" IN
           /\ KindBits(reg) = 0 => Route(id, reg, len, data0) = <<"regs", chan(reg), n>>
           /\ KindBits(reg) = 224 /\ IsAckReg(reg) /\ ~(len <= 1) =>
                /\ KindBits(data0) = 64 => Route(id, reg, len, data0) = <<"reg_acks", chan(data0)>>
                /\ KindBits(data0) = 96 => Route(id, reg, len, data0) = <<"req_acks", chan(data0)>>
           /\ KindBits(reg) = 224 /\ ~IsAckReg(reg) /\ IsBrcReg(reg) =>
                Route(id, reg, len, data0) = <<"brc_callbacks", n>>
<1> DEFINE chan(b) == IF IsSys(b) THEN "SYSTEM" ELSE "USER"
<1>0. 0 # 224 /\ 96 # 64
  OBVIOUS
<1>1. KindBits(reg) = 0 => Route(id, reg, len, data0) = <<"regs", chan(reg), n>>
  BY DEF Route
<1>2. ASSUME KindBits(reg) = 224, IsAckReg(reg), ~(len <= 1)
      PROVE  /\ KindBits(data0) = 64 => Route(id, reg, len, data0) = <<"reg_acks", chan(data0)>>
             /\ KindBits(data0) = 96 => Route(id, reg, len, data0) = <<"req_acks", chan(data0)>>
  <2>1. KindBits(reg) # 0 /\ IsDrivId(id) /\ ArgsLegal(0, NUMBER_ID(id), NUMBER_REG(reg))
    BY <1>0, <1>2
  <2>2. ASSUME KindBits(data0) = 64
        PROVE  Route(id, reg, len, data0) = <<"reg_acks", chan(data0)>>
    BY <1>2, <2>1, <2>2 DEF Route
  <2>3. ASSUME KindBits(data0) = 96
        PROVE  Route(id, reg, len, data0) = <<"req_acks", chan(data0)>>
    BY <1>0, <1>2, <2>1, <2>3 DEF Route
  <2> QED BY <2>2, <2>3
<1>3. ASSUME KindBits(reg) = 224, ~IsAckReg(reg), IsBrcReg(reg)
      PROVE  Route(id, reg, len, data0) = <<"brc_callbacks", n>>
  BY <1>0, <1>3 DEF Route
<1> QED BY <1>1, <1>2, <1>3

\* A device's frame is routed to the list it was meant for, through encoder,
\* register byte and decoder.
LEMMA RouteDevice ==
    ASSUME NEW d \in CanIds, ArgsLegal(0, d, 0), NEW l \in DevLists \cup BrcLists,
           NEW r \in Regs, l[1] = "regs" => r = l[3], l[1] = "brc_callbacks" => r = l[2]
    PROVE  LET f == DeviceFrame(d, l, r)
           IN  Route(f.id, f.reg, f.len, f.data0) = l /\ NUMBER_ID(f.id) = d
<1>r. r \in 0 .. 15
  BY RxAssumption
<1>d. IsDrivId(DRIV_ID(d)) /\ NUMBER_ID(DRIV_ID(d)) = d
  BY Ids
<1>a. ArgsLegal(0, NUMBER_ID(DRIV_ID(d)), r)
  BY <1>r, <1>d, LegalReg
<1>1. CASE l \in DevLists /\ l[1] = "regs"
  <2>1. PICK ch \in Channels : l = <<"regs", ch, r>> /\ l[2] = ch
    BY <1>1, ListNames
  <2>2. PICK o \in {0, 16} : (o = 0 <=> ch = "SYSTEM") /\ sendRegByte(r, ch) = r + o
    BY <1>r, Bytes
  <2>3. KindBits(r + o) = 0 /\ (IsSys(r + o) <=> o = 0) /\ NUMBER_REG(r + o) = r
    BY <1>r, Decoded
  <2>4. DeviceFrame(d, l, r).id = DRIV_ID(d) /\ DeviceFrame(d, l, r).reg = r + o
    BY <1>1, <2>1, <2>2 DEF DeviceFrame
  <2>5. ch = "SYSTEM" \/ ch = "USER"
    BY DEF Channels
  <2>6. Route(DRIV_ID(d), r + o, DeviceFrame(d, l, r).len, DeviceFrame(d, l, r).data0) = l
    BY <1>d, <1>a, <2>1, <2>2, <2>3, <2>5, RouteKinds
  <2> QED BY <1>d, <2>4, <2>6
<1>2. CASE l \in DevLists /\ l[1] = "reg_acks"
  <2>1. PICK ch \in Channels : l = <<"reg_acks", ch>> /\ l[2] = ch
    BY <1>2, ListNames
  <2>2. PICK o \in {0, 16} : /\ o = 0 <=> ch = "SYSTEM"
                             /\ sendRegAckByte(r, ch) = r + 64 + o /\ ACK_REG(r) = r + 224
    BY <1>r, Bytes
  <2>3. /\ KindBits(r + 64 + o) = 64 /\ (IsSys(r + 64 + o) <=> o = 0)
        /\ NUMBER_REG(r + 224) = r /\ KindBits(r + 224) = 224 /\ IsAckReg(r + 224)
    BY <1>r, Decoded
  <2>4. /\ DeviceFrame(d, l, r).id = DRIV_ID(d) /\ DeviceFrame(d, l, r).reg = r + 224
        /\ DeviceFrame(d, l, r).len = 2 /\ DeviceFrame(d, l, r).data0 = r + 64 + o
    BY <1>2, <2>1, <2>2 DEF DeviceFrame
  <2>5. ch = "SYSTEM" \/ ch = "USER"
    BY DEF Channels
  <2>6. Route(DRIV_ID(d), r + 224, 2, r + 64 + o) = l
    BY <1>d, <1>a, <2>1, <2>2, <2>3, <2>5, RouteKinds
  <2> QED BY <1>d, <2>4, <2>6
<1>3. CASE l \in DevLists /\ l[1] = "req_acks"
  <2>1. PICK ch \in Channels : l = <<"req_acks", ch>> /\ l[2] = ch
    BY <1>3, ListNames
  <2>2. PICK o \in {0, 16} : /\ o = 0 <=> ch = "SYSTEM"
                             /\ sendReqAckByte(r, ch) = r + 96 + o /\ ACK_REG(r) = r + 224
    BY <1>r, Bytes
  <2>3. /\ KindBits(r + 96 + o) = 96 /\ (IsSys(r + 96 + o) <=> o = 0)
        /\ NUMBER_REG(r + 224) = r /\ KindBits(r + 224) = 224 /\ IsAckReg(r + 224)
    BY <1>r, Decoded
  <2>4. /\ DeviceFrame(d, l, r).id = DRIV_ID(d) /\ DeviceFrame(d, l, r).reg = r + 224
        /\ DeviceFrame(d, l, r).len = 2 /\ DeviceFrame(d, l, r).data0 = r + 96 + o
    BY <1>3, <2>1, <2>2 DEF DeviceFrame
  <2>5. ch = "SYSTEM" \/ ch = "USER"
    BY DEF Channels
  <2>6. Route(DRIV_ID(d), r + 224, 2, r + 96 + o) = l
    BY <1>d, <1>a, <2>1, <2>2, <2>3, <2>5, RouteKinds
  <2> QED BY <1>d, <2>4, <2>6
<1>4. CASE l \in BrcLists
  <2>1. l = <<"brc_callbacks", r>> /\ l[1] = "brc_callbacks"
    BY <1>4, ListNames
  <2>2. "SYSTEM" \in Channels /\ 0 \in {0, 16}
    BY DEF Channels
  <2>3. BRC_REG(r) = r + 240
    BY <1>r, <2>2, Bytes
  <2>4. /\ NUMBER_REG(r + 240) = r /\ KindBits(r + 240) = 224
        /\ ~IsAckReg(r + 240) /\ IsBrcReg(r + 240)
    BY <1>r, <2>2, Decoded
  <2>5. DeviceFrame(d, l, r).id = DRIV_ID(d) /\ DeviceFrame(d, l, r).reg = r + 240
    BY <2>1, <2>3 DEF DeviceFrame
  <2>6. Route(DRIV_ID(d), r + 240, DeviceFrame(d, l, r).len, DeviceFrame(d, l, r).data0) = l
    BY <1>d, <1>a, <2>1, <2>4, RouteKinds
  <2> QED BY <1>d, <2>5, <2>6
<1> QED BY <1>1, <1>2, <1>3, <1>4, ListNames

\* Nobody else's frame is routed anywhere.
LEMMA RouteOther ==
    ASSUME NEW d \in CanIds, ArgsLegal(0, d, 0), NEW r \in Regs, NEW ch \in Channels,
           NEW f \in OtherFrames(d, r, ch)
    PROVE  Route(f.id, f.reg, f.len, f.data0)[1] = "none"
<1>r. r \in 0 .. 15
  BY RxAssumption
<1>d. /\ IsDrivId(DRIV_ID(d)) /\ ~IsDrivId(HOST_ID(d)) /\ NUMBER_ID(DRIV_ID(d)) = d
  BY Ids
<1>a. ArgsLegal(0, NUMBER_ID(DRIV_ID(d)), r)
  BY <1>r, <1>d, LegalReg
<1>1. CASE f.id = HOST_ID(d)
  BY <1>1, <1>d DEF Route
<1>b. PICK o \in {0, 16} : /\ sendRegByte(r, ch) = r + o /\ sendReqByte(r, ch) = r + 32 + o
                           /\ ACK_REG(r) = r + 224
  BY <1>r, Bytes
<1>k. /\ KindBits(r + 32 + o) = 32 /\ ~IsAckReg(r + 32 + o) /\ ~IsBrcReg(r + 32 + o)
      /\ KindBits(r + 224) = 224 /\ IsAckReg(r + 224) /\ KindBits(r + o) = 0
  BY <1>r, Decoded
<1>2. CASE f.id = DRIV_ID(d) /\ f.reg = r + 32 + o
  BY <1>2, <1>d, <1>k DEF Route
<1>3. CASE f.id = DRIV_ID(d) /\ f.len = 2 /\ f.reg = r + 224 /\ f.data0 = r + o
  BY <1>3, <1>d, <1>k DEF Route
<1>4. CASE f.id = DRIV_ID(d) /\ f.len = 1 /\ f.reg = r + 224
  BY <1>4, <1>d, <1>k DEF Route
<1>5. \/ f.id = HOST_ID(d)
      \/ f.id = DRIV_ID(d) /\ f.reg = r + 32 + o
      \/ f.id = DRIV_ID(d) /\ f.len = 2 /\ f.reg = r + 224 /\ f.data0 = r + o
      \/ f.id = DRIV_ID(d) /\ f.len = 1 /\ f.reg = r + 224
  BY <1>b DEF OtherFrames
<1> QED BY <1>1, <1>2, <1>3, <1>4, <1>5

-----------------------------------------------------------------------------
\* The ids of the legal clients, and their cells.
LEMMA LegalFacts ==
    /\ \A d \in LegalIds : d \in CanIds /\ ArgsLegal(0, d, 0) /\ DevIndex(d) \in Cells
    /\ \A k \in Clients : Legal(k) => IdOf[k] \in LegalIds /\ CellOf(k) \in Cells
    /\ \A k \in Clients : IdOf[k] \in CanIds /\ ListOf[k] \in DevLists \cup BrcLists
<1>1. \A k \in Clients : IdOf[k] \in CanIds /\ ListOf[k] \in DevLists \cup BrcLists
  BY RxAssumption DEF CanIds
<1>2. ASSUME NEW d \in LegalIds
      PROVE  d \in CanIds /\ ArgsLegal(0, d, 0) /\ DevIndex(d) \in Cells
  BY <1>1 DEF LegalIds, Cells
<1>3. ASSUME NEW k \in Clients, Legal(k)
      PROVE  IdOf[k] \in LegalIds /\ CellOf(k) \in Cells
  BY <1>3 DEF Legal, CellOf, LegalIds, Cells
<1> QED BY <1>1, <1>2, <1>3

\* The list the receive thread goes through holds the clients bound to what the
\* sender of the frame meant, and nobody when the frame is for no list.
LEMMA CurrentIs ==
    ASSUME RxInv, frame # NoFrame
    PROVE  /\ Current \in Seq(Clients)
           /\ Target[1] = "none" => Current = <<>> /\ meant = <<>>
           /\ Target[1] # "none" =>
                \E d \in LegalIds, l \in DevLists \cup BrcLists :
                   /\ meant = <<d, l>>
                   /\ l \in BrcLists => Current = <<>>
                   /\ l \in DevLists => Holds(Current, Clients, BoundTo(DevIndex(d), l))
<1>1. CASE meant = <<>> /\ Target[1] = "none"
  <2>1. Current = <<>>
    BY <1>1 DEF Current
  <2> QED BY <1>1, <2>1
<1>2. ASSUME NEW d \in LegalIds, NEW l \in DevLists \cup BrcLists,
             meant = <<d, l>>, Target = l, DevIndex(NUMBER_ID(frame.id)) = DevIndex(d)
      PROVE  /\ Current \in Seq(Clients) /\ Target[1] # "none"
             /\ l \in BrcLists => Current = <<>>
             /\ l \in DevLists => Holds(Current, Clients, BoundTo(DevIndex(d), l))
  <2>c. DevIndex(d) \in Cells
    BY LegalFacts
  <2>1. CASE l \in BrcLists
    <3>1. l[1] = "brc_callbacks" /\ l \notin DevLists
      BY <2>1, ListNames
    <3>2. Current = <<>>
      BY <1>2, <2>1, <3>1 DEF Current, RxInv, ListsOk
    <3> QED BY <1>2, <3>1, <3>2
  <2>2. CASE l \in DevLists
    <3>1. l[1] # "brc_callbacks" /\ l[1] # "none" /\ l \notin BrcLists
      BY <2>2, ListNames
    <3>2. Current = IF alloc[DevIndex(d)] THEN lists[DevIndex(d)][l] ELSE <<>>
      BY <1>2, <2>c, <3>1 DEF Current
    <3>3. Holds(lists[DevIndex(d)][l], Clients, BoundTo(DevIndex(d), l))
      BY <2>2, <2>c DEF RxInv, ListsOk
    <3>4. ~alloc[DevIndex(d)] => lists[DevIndex(d)][l] = <<>>
      <4>1. ~alloc[DevIndex(d)] => ~ \E k \in BoundTo(DevIndex(d), l) : TRUE
        BY <2>2, <2>c DEF RxInv, AllocatedIffBound, BoundTo, Legal, CellOf
      <4> QED BY <3>3, <4>1, EmptyHolds
    <3>5. Holds(Current, Clients, BoundTo(DevIndex(d), l))
      BY <3>2, <3>3, <3>4
    <3> QED BY <1>2, <3>1, <3>5 DEF Holds
  <2> QED BY <2>1, <2>2
<1> QED BY <1>1, <1>2 DEF RxInv, FrameOk

-----------------------------------------------------------------------------
\* The inductive invariant holds of an empty registry.
LEMMA RxInvInit == ASSUME Init PROVE RxInv
<1>0. <<>> \in Seq(Clients)
  OBVIOUS
<1>1. TypeOK
  <2>1. alloc \in [Cells -> BOOLEAN] /\ lists \in [Cells -> [DevLists -> Seq(Clients)]]
    BY <1>0 DEF Init
  <2>2. brc_callbacks \in [BrcLists -> Seq(Clients)] /\ called \in Seq(Clients)
    BY <1>0 DEF Init
  <2> QED BY <2>1, <2>2 DEF Init, TypeOK
<1>2. AllocatedIffBound
  BY DEF Init, AllocatedIffBound
<1>3. ListsOk
  <2>1. ASSUME NEW c \in Cells, NEW l \in DevLists PROVE Holds(lists[c][l], Clients, BoundTo(c, l))
    <3>1. lists[c][l] = <<>> /\ BoundTo(c, l) = {}
      BY DEF Init, BoundTo
    <3>2. <<>> \in Seq(Clients) /\ Len(<<>>) = 0
      OBVIOUS
    <3> QED BY <3>1, <3>2 DEF Holds
  <2> QED BY <2>1 DEF ListsOk, Init
<1> QED BY <1>1, <1>2, <1>3 DEF Init, RxInv, FrameOk, RunOk

\* bind and close wait for the mutex: what the receive thread does is not disturbed.
LEMMA RegistryStep ==
    ASSUME RxInv, ~locked, UNCHANGED thread
    PROVE  FrameOk' /\ RunOk'
<1>1. FrameOk'
  BY DEF RxInv, FrameOk, thread, Target
<1>2. Target' = Target
  BY DEF thread, Target
<1>3. ASSUME calling PROVE Current = <<>> /\ Current' = <<>>
  <2>1. Target[1] = "none"
    BY <1>3 DEF RxInv, RunOk
  <2> QED BY <1>2, <2>1 DEF Current
<1> QED BY <1>1, <1>2, <1>3 DEF RxInv, RunOk, thread

\* Binding keeps it: the deviceInfo is there and the client added to its list.
LEMMA BindKeeps == ASSUME RxInv, NEW k \in Clients, bind(k) PROVE RxInv'
<1> DEFINE c == CellOf(k)
           l == ListOf[k]
<1>0. TypeOK /\ AllocatedIffBound /\ ListsOk
  BY DEF RxInv
<1>g. /\ l \in DevLists /\ k \notin asked /\ ~locked /\ asked' = asked \cup {k}
      /\ UNCHANGED <<brc_callbacks, thread>>
  BY DEF bind
<1>1. FrameOk' /\ RunOk'
  BY <1>g, RegistryStep
<1>2. CASE ~Legal(k)
  <2>1. UNCHANGED <<alloc, lists>>
    BY <1>2 DEF bind, Legal
  <2>2. TypeOK'
    BY <1>0, <1>g, <2>1 DEF TypeOK, thread
  <2>3. AllocatedIffBound'
    BY <1>0, <1>2, <1>g, <2>1 DEF AllocatedIffBound, Legal
  <2>4. \A x \in Cells, m \in DevLists : BoundTo(x, m)' = BoundTo(x, m)
    BY <1>2, <1>g DEF BoundTo
  <2>5. ListsOk'
    BY <1>0, <1>g, <2>1, <2>4 DEF ListsOk
  <2> QED BY <1>1, <2>2, <2>3, <2>5 DEF RxInv
<1>3. CASE Legal(k)
  <2>c. c \in Cells
    BY <1>3, LegalFacts
  <2>1. /\ alloc' = [alloc EXCEPT ![c] = TRUE]
        /\ lists' = [lists EXCEPT ![c][l] = callbackListAdd(@, k)]
    BY <1>3 DEF bind, Legal, CellOf
  <2>h. Holds(lists[c][l], Clients, BoundTo(c, l))
    BY <1>0, <1>g, <2>c DEF ListsOk
  <2>a. Holds(callbackListAdd(lists[c][l], k), Clients, BoundTo(c, l) \cup {k})
    <3>1. BoundTo(c, l) \in SUBSET Clients /\ k \notin BoundTo(c, l)
      BY <1>0, <1>g DEF BoundTo, TypeOK
    <3> QED BY <2>h, <3>1, AddHolds
  <2> HIDE DEF c, l
  <2>2. TypeOK'
    <3>1. alloc' \in [Cells -> BOOLEAN]
      BY <1>0, <2>1 DEF TypeOK
    <3>2. callbackListAdd(lists[c][l], k) \in Seq(Clients)
      BY <2>a DEF Holds
    <3>3. lists' \in [Cells -> [DevLists -> Seq(Clients)]]
      BY <1>0, <1>g, <2>c, <2>1, <3>2 DEF TypeOK
    <3> QED BY <1>0, <1>g, <3>1, <3>3 DEF TypeOK, thread
  <2>3. AllocatedIffBound'
    <3> SUFFICES ASSUME NEW x \in Cells
                 PROVE  alloc'[x] <=> \E y \in asked' : /\ ListOf[y] \in DevLists
                                                        /\ Legal(y) /\ CellOf(y) = x
      BY DEF AllocatedIffBound, Legal, CellOf
    <3>1. CASE x = c
      BY <1>0, <1>3, <1>g, <2>1, <3>1 DEF c, l, TypeOK
    <3>2. CASE x # c
      <4>1. alloc'[x] = alloc[x]
        BY <1>0, <2>1, <3>2 DEF TypeOK
      <4>2. CellOf(k) # x
        BY <3>2 DEF c
      <4>3. alloc[x] <=> \E y \in asked : ListOf[y] \in DevLists /\ Legal(y) /\ CellOf(y) = x
        BY <1>0 DEF AllocatedIffBound, Legal, CellOf
      <4> QED BY <1>g, <4>1, <4>2, <4>3
    <3> QED BY <3>1, <3>2
  <2>4. ASSUME NEW x \in Cells, NEW m \in DevLists
        PROVE  Holds(lists'[x][m], Clients, BoundTo(x, m)')
    <3>1. CASE x = c /\ m = l
      <4>1. lists'[c][l] = callbackListAdd(lists[c][l], k)
        BY <1>0, <1>g, <2>c, <2>1 DEF TypeOK, l
      <4>2. BoundTo(c, l)' = BoundTo(c, l) \cup {k}
        BY <1>3, <1>g DEF BoundTo, c, l
      <4> QED BY <2>a, <3>1, <4>1, <4>2
    <3>2. CASE ~(x = c /\ m = l)
      <4>1. lists'[x][m] = lists[x][m]
        BY <1>0, <2>1, <3>2 DEF TypeOK
      <4>2. BoundTo(x, m)' = BoundTo(x, m)
        BY <1>g, <3>2 DEF BoundTo, c, l
      <4> QED BY <1>0, <4>1, <4>2 DEF ListsOk
    <3> QED BY <3>1, <3>2
  <2>5. ListsOk'
    BY <1>0, <1>g, <2>4 DEF ListsOk
  <2> QED BY <1>1, <2>2, <2>3, <2>5 DEF RxInv
<1> QED BY <1>2, <1>3

\* Broadcast clients come and go in lists of their own.
LEMMA BrcKeeps == ASSUME RxInv, NEW k \in Clients, bindBrc(k) \/ closeBrc(k) PROVE RxInv'
<1>0. TypeOK /\ AllocatedIffBound /\ ListsOk
  BY DEF RxInv
<1>g. /\ ListOf[k] \notin DevLists /\ ~locked /\ asked \ {k} = asked' \ {k} /\ asked' \subseteq Clients
      /\ UNCHANGED <<alloc, lists, brc_callbacks, thread>>
  BY <1>0, BrcIllegal, ListNames DEF bindBrc, closeBrc, TypeOK
<1>1. FrameOk' /\ RunOk'
  BY <1>g, RegistryStep
<1>2. TypeOK'
  BY <1>0, <1>g DEF TypeOK, thread
<1>k. \A x : x \in asked' /\ ListOf[x] \in DevLists <=> x \in asked /\ ListOf[x] \in DevLists
  BY <1>g
<1>3. AllocatedIffBound'
  BY <1>0, <1>g, <1>k DEF AllocatedIffBound
<1>4. \A x \in Cells, m \in DevLists : BoundTo(x, m)' = BoundTo(x, m)
  BY <1>k DEF BoundTo
<1>5. ListsOk'
  BY <1>0, <1>g, <1>4 DEF ListsOk
<1> QED BY <1>1, <1>2, <1>3, <1>5 DEF RxInv

\* Closing keeps it: the client leaves its list, an empty deviceInfo is freed.
LEMMA CloseKeeps == ASSUME RxInv, NEW k \in Clients, close(k) PROVE RxInv'
<1> DEFINE c == CellOf(k)
           l == ListOf[k]
           left == [lists[c] EXCEPT ![l] = callbackListClose(@, k)]
<1>0. TypeOK /\ AllocatedIffBound /\ ListsOk
  BY DEF RxInv
<1>g. /\ l \in DevLists /\ k \in asked /\ ~locked /\ asked' = asked \ {k}
      /\ UNCHANGED <<brc_callbacks, thread>>
  BY DEF close
<1>1. FrameOk' /\ RunOk'
  BY <1>g, RegistryStep
<1>2. CASE ~Legal(k)
  <2>1. UNCHANGED <<alloc, lists>>
    BY <1>2 DEF close, Legal
  <2>2. TypeOK'
    BY <1>0, <1>g, <2>1 DEF TypeOK, thread
  <2>3. AllocatedIffBound'
    BY <1>0, <1>2, <1>g, <2>1 DEF AllocatedIffBound, Legal
  <2>4. \A x \in Cells, m \in DevLists : BoundTo(x, m)' = BoundTo(x, m)
    BY <1>2, <1>g DEF BoundTo
  <2>5. ListsOk'
    BY <1>0, <1>g, <2>1, <2>4 DEF ListsOk
  <2> QED BY <1>1, <2>2, <2>3, <2>5 DEF RxInv
<1>3. CASE Legal(k)
  <2>c. c \in Cells
    BY <1>3, LegalFacts
  <2>h. Holds(lists[c][l], Clients, BoundTo(c, l))
    BY <1>0, <1>g, <2>c DEF ListsOk
  <2>a. /\ Holds(callbackListClose(lists[c][l], k), Clients, BoundTo(c, l) \ {k})
        /\ callbackListClose(lists[c][l], k) # lists[c][l]
    <3>1. BoundTo(c, l) \in SUBSET Clients /\ k \in BoundTo(c, l)
      BY <1>0, <1>3, <1>g DEF BoundTo, TypeOK
    <3> QED BY <2>h, <3>1, CloseHolds
  <2>b. alloc[c]
    BY <1>0, <1>3, <1>g, <2>c DEF AllocatedIffBound, Legal, CellOf
  <2>l. /\ left \in [DevLists -> Seq(Clients)]
        /\ left[l] = callbackListClose(lists[c][l], k)
        /\ \A m \in DevLists : m # l => left[m] = lists[c][m]
    <3>1. lists[c] \in [DevLists -> Seq(Clients)] /\ callbackListClose(lists[c][l], k) \in Seq(Clients)
      BY <1>0, <2>c, <2>a DEF TypeOK, Holds
    <3> HIDE DEF l, c
    <3> QED BY <1>g, <3>1
  <2>n. left # lists[c]
    BY <2>a, <2>l
  <2>1. /\ lists' = [lists EXCEPT ![c] = left]
        /\ alloc' = [alloc EXCEPT ![c] = \E m \in DevLists : left[m] # <<>>]
    BY <1>3, <2>b, <2>n DEF close, Legal, CellOf
  <2> HIDE DEF c, l, left
  <2>2. TypeOK'
    <3>1. alloc' \in [Cells -> BOOLEAN]
      BY <1>0, <2>1 DEF TypeOK
    <3>2. lists' \in [Cells -> [DevLists -> Seq(Clients)]]
      BY <1>0, <2>1, <2>l DEF TypeOK
    <3> QED BY <1>0, <1>g, <3>1, <3>2 DEF TypeOK, thread
  <2>3. ASSUME NEW x \in Cells, NEW m \in DevLists
        PROVE  Holds(lists'[x][m], Clients, BoundTo(x, m)')
    <3>1. CASE x = c /\ m = l
      <4>1. lists'[c][l] = callbackListClose(lists[c][l], k)
        BY <1>0, <2>c, <2>1, <2>l DEF TypeOK
      <4>2. BoundTo(c, l)' = BoundTo(c, l) \ {k}
        BY <1>g DEF BoundTo
      <4> QED BY <2>a, <3>1, <4>1, <4>2
    <3>2. CASE ~(x = c /\ m = l)
      <4>1. lists'[x][m] = lists[x][m]
        BY <1>0, <2>1, <2>l, <3>2 DEF TypeOK
      <4>2. BoundTo(x, m)' = BoundTo(x, m)
        BY <1>g, <3>2 DEF BoundTo, c, l
      <4> QED BY <1>0, <4>1, <4>2 DEF ListsOk
    <3> QED BY <3>1, <3>2
  <2>4. ListsOk'
    BY <1>0, <1>g, <2>3 DEF ListsOk
  <2>5. AllocatedIffBound'
    <3> SUFFICES ASSUME NEW x \in Cells
                 PROVE  alloc'[x] <=> \E y \in asked' : /\ ListOf[y] \in DevLists
                                                        /\ Legal(y) /\ CellOf(y) = x
      BY DEF AllocatedIffBound, Legal, CellOf
    <3>1. CASE x = c
      <4>1. alloc'[c] <=> \E m \in DevLists : left[m] # <<>>
        BY <1>0, <2>c, <2>1 DEF TypeOK
      <4>2. lists'[c] = left
        BY <1>0, <2>c, <2>1 DEF TypeOK
      <4>3. \A m \in DevLists : left[m] # <<>> <=> \E y \in BoundTo(c, m)' : TRUE
        BY <2>c, <2>3, <4>2, EmptyHolds
      <4>4. alloc'[c] <=> \E m \in DevLists : \E y \in BoundTo(c, m)' : TRUE
        BY <4>1, <4>3
      <4> QED BY <3>1, <4>4 DEF BoundTo
    <3>2. CASE x # c
      <4>1. alloc'[x] = alloc[x]
        BY <1>0, <2>1, <3>2 DEF TypeOK
      <4>2. CellOf(k) # x
        BY <3>2 DEF c
      <4>3. alloc[x] <=> \E y \in asked : ListOf[y] \in DevLists /\ Legal(y) /\ CellOf(y) = x
        BY <1>0 DEF AllocatedIffBound, Legal, CellOf
      <4> QED BY <1>g, <4>1, <4>2, <4>3
    <3> QED BY <3>1, <3>2
  <2> QED BY <1>1, <2>2, <2>4, <2>5 DEF RxInv
<1> QED BY <1>2, <1>3

\* A frame that arrives is only put into the hand of the receive thread.
LEMMA ReceiveKeeps ==
    ASSUME RxInv, NEW f, NEW m, receive(f, m),
           LET t == Route(f.id, f.reg, f.len, f.data0) IN
           \/ m = <<>> /\ t[1] = "none"
           \/ \E d \in LegalIds, l \in DevLists \cup BrcLists :
                 m = <<d, l>> /\ t = l /\ NUMBER_ID(f.id) = d
    PROVE  RxInv'
<1>g. /\ frame = NoFrame /\ frame' = f /\ meant' = m
      /\ UNCHANGED <<registry, locked, calling, next, called, asked>>
  BY DEF receive
<1>1. ~calling
  BY <1>g DEF RxInv, RunOk
<1>2. TypeOK'
  BY <1>g DEF RxInv, TypeOK, registry
<1>3. AllocatedIffBound' /\ ListsOk'
  BY <1>g DEF RxInv, AllocatedIffBound, ListsOk, BoundTo, registry
<1>4. FrameOk'
  <2>1. Target' = Route(f.id, f.reg, f.len, f.data0)
    BY <1>g DEF Target
  <2> QED BY <1>g, <2>1 DEF FrameOk
<1>5. RunOk'
  BY <1>g, <1>1 DEF RxInv, RunOk
<1> QED BY <1>2, <1>3, <1>4, <1>5 DEF RxInv

\* Dispatching and calling leave the registry and the frame alone.
LEMMA ThreadStep ==
    ASSUME RxInv, UNCHANGED <<registry, frame, meant, asked>>
    PROVE  /\ AllocatedIffBound' /\ ListsOk' /\ FrameOk'
           /\ Current' = Current /\ Target' = Target
BY DEF RxInv, AllocatedIffBound, ListsOk, BoundTo, FrameOk, Current, Target, registry

\* The receive thread takes the lock and stands before a list.
LEMMA DispatchKeeps == ASSUME RxInv, dispatch PROVE RxInv'
<1>g. /\ frame # NoFrame /\ ~calling /\ calling' = TRUE /\ locked' = (Target[1] # "none")
      /\ UNCHANGED <<registry, frame, next, meant, called, asked>>
  BY DEF dispatch
<1>1. AllocatedIffBound' /\ ListsOk' /\ FrameOk' /\ Current' = Current /\ Target' = Target
  BY <1>g, ThreadStep
<1>2. next = 1 /\ called = <<>> /\ Len(Current) \in Nat
  BY <1>g, CurrentIs DEF RxInv, RunOk
<1>3. RunOk'
  BY <1>g, <1>1, <1>2 DEF RunOk
<1>4. TypeOK'
  BY <1>g DEF RxInv, TypeOK, registry
<1> QED BY <1>1, <1>3, <1>4 DEF RxInv

\* It calls the client it stands at, and moves to the next one.
LEMMA CallNextKeeps == ASSUME RxInv, callNext PROVE RxInv'
<1>g. /\ calling /\ next <= Len(Current) /\ called' = Append(called, Current[next])
      /\ next' = next + 1 /\ UNCHANGED <<registry, locked, frame, calling, meant, asked>>
  BY DEF callNext
<1>r. /\ frame # NoFrame /\ locked = (Target[1] # "none") /\ next \in 1 .. Len(Current) + 1
      /\ Len(called) = next - 1 /\ \A i \in 1 .. Len(called) : called[i] = Current[i]
  BY <1>g DEF RxInv, RunOk
<1>1. AllocatedIffBound' /\ ListsOk' /\ FrameOk' /\ Current' = Current /\ Target' = Target
  BY <1>g, ThreadStep
<1>c. Current \in Seq(Clients) /\ Len(Current) \in Nat /\ called \in Seq(Clients)
  BY <1>r, CurrentIs DEF RxInv, TypeOK
<1>2. next \in 1 .. Len(Current) /\ Current[next] \in Clients
  <2>1. next \in 1 .. Len(Current)
    BY <1>g, <1>r, <1>c
  <2> QED BY <1>c, <2>1, ElementOfSeq
<1>3. /\ called' \in Seq(Clients) /\ Len(called') = next
      /\ \A i \in 1 .. Len(called) : called'[i] = called[i]
      /\ called'[next] = Current[next]
  <2>1. Len(called) + 1 = next
    BY <1>r, <1>c
  <2> QED BY <1>g, <1>c, <1>2, <2>1, AppendProperties
<1>4. \A i \in 1 .. Len(called') : called'[i] = Current[i]
  <2>1. ASSUME NEW i \in 1 .. next PROVE i = next \/ i \in 1 .. Len(called)
    BY <1>r, <1>c
  <2> QED BY <1>r, <1>3, <2>1
<1>5. RunOk'
  <2>1. next + 1 \in 1 .. Len(Current) + 1 /\ Len(called') = (next + 1) - 1
    BY <1>c, <1>2, <1>3
  <2> QED BY <1>g, <1>r, <1>1, <1>4, <2>1 DEF RunOk
<1>6. TypeOK'
  BY <1>g, <1>3 DEF RxInv, TypeOK, registry
<1> QED BY <1>1, <1>5, <1>6 DEF RxInv

\* A list gone through: the lock is given up, the frame is done with.
LEMMA CallDoneKeeps == ASSUME RxInv, callDone PROVE RxInv'
<1>g. /\ locked' = FALSE /\ frame' = NoFrame /\ calling' = FALSE /\ next' = 1
      /\ meant' = <<>> /\ called' = <<>> /\ UNCHANGED <<registry, asked>>
  BY DEF callDone
<1>1. AllocatedIffBound' /\ ListsOk'
  BY <1>g DEF RxInv, AllocatedIffBound, ListsOk, BoundTo, registry
<1>2. FrameOk' /\ RunOk'
  BY <1>g DEF FrameOk, RunOk
<1>3. TypeOK'
  <2>1. <<>> \in Seq(Clients)
    OBVIOUS
  <2> QED BY <1>g, <2>1 DEF RxInv, TypeOK, registry
<1> QED BY <1>1, <1>2, <1>3 DEF RxInv

\* Every step of the registry keeps the invariant,
LEMMA RxInvNext == ASSUME RxInv, [Next]_vars PROVE RxInv'
<1>1. ASSUME NEW k \in Clients, bind(k) \/ close(k) \/ bindBrc(k) \/ closeBrc(k) PROVE RxInv'
  BY <1>1, BindKeeps, CloseKeeps, BrcKeeps
<1>2. ASSUME NEW d \in LegalIds, NEW l \in DevLists \cup BrcLists, NEW r \in Regs,
             l[1] = "regs" => r = l[3], l[1] = "brc_callbacks" => r = l[2],
             receive(DeviceFrame(d, l, r), <<d, l>>)
      PROVE  RxInv'
  <2> DEFINE f == DeviceFrame(d, l, r)
  <2>1. Route(f.id, f.reg, f.len, f.data0) = l /\ NUMBER_ID(f.id) = d
    BY <1>2, LegalFacts, RouteDevice
  <2> HIDE DEF f
  <2> QED BY <1>2, <2>1, ReceiveKeeps DEF f
<1>3. ASSUME NEW d \in LegalIds, NEW r \in Regs, NEW ch \in Channels,
             NEW f \in OtherFrames(d, r, ch), receive(f, <<>>)
      PROVE  RxInv'
  <2>1. Route(f.id, f.reg, f.len, f.data0)[1] = "none"
    BY <1>3, LegalFacts, RouteOther
  <2> QED BY <1>3, <2>1, ReceiveKeeps
<1>4. CASE UNCHANGED vars
  <2>1. UNCHANGED <<registry, frame, meant, asked>> /\ UNCHANGED thread
    BY <1>4 DEF vars, thread
  <2>2. AllocatedIffBound' /\ ListsOk' /\ FrameOk' /\ Current' = Current /\ Target' = Target
    BY <2>1, ThreadStep
  <2> QED BY <1>4, <2>2 DEF RxInv, TypeOK, RunOk, vars, thread, registry
<1> QED BY <1>1, <1>2, <1>3, <1>4, DispatchKeeps, CallNextKeeps, CallDoneKeeps DEF Next

-----------------------------------------------------------------------------
\* and so it holds always.
LEMMA RxInvAlways == Spec => []RxInv
<1>1. Init => RxInv
  BY RxInvInit
<1>2. RxInv /\ [Next]_vars => RxInv'
  BY RxInvNext
<1> QED BY <1>1, <1>2, PTL DEF Spec

\* A device's table exists exactly while a client is bound to it, whatever the
\* order of binds and closes of any number of clients (cs_rx.c).
THEOREM RegistryCorrect == Spec => []RegistryInv
<1>1. RxInv => RegistryInv
  BY DEF RxInv, RegistryInv
<1> QED BY RxInvAlways, <1>1, PTL

\* The receive thread never calls a client that has closed itself, and never
\* runs past the end of a list.
THEOREM NeverCalledAfterClose == Spec => []NoCallAfterClose
<1>1. ASSUME RxInv PROVE NoCallAfterClose
  <2> SUFFICES ASSUME calling
               PROVE  /\ \A i \in 1 .. Len(called) : called[i] \in asked
                      /\ next <= Len(Current) + 1
    BY DEF NoCallAfterClose
  <2>r. /\ frame # NoFrame /\ next \in 1 .. Len(Current) + 1 /\ Len(called) = next - 1
        /\ \A i \in 1 .. Len(called) : called[i] = Current[i]
    BY <1>1 DEF RxInv, RunOk
  <2>c. Current \in Seq(Clients) /\ Len(Current) \in Nat
    BY <1>1, <2>r, CurrentIs
  <2>1. next <= Len(Current) + 1 /\ \A i \in 1 .. Len(called) : i \in 1 .. Len(Current)
    BY <2>r, <2>c
  <2>2. \A i \in 1 .. Len(Current) : Current[i] \in asked
    <3>1. CASE Current = <<>>
      BY <3>1
    <3>2. ASSUME NEW d, NEW l, Holds(Current, Clients, BoundTo(DevIndex(d), l))
          PROVE  \A i \in 1 .. Len(Current) : Current[i] \in asked
      BY <3>2 DEF Holds, BoundTo
    <3> QED BY <1>1, <2>r, <3>1, <3>2, CurrentIs
  <2> QED BY <2>r, <2>1, <2>2
<1> QED BY RxInvAlways, <1>1, PTL

\* A device's frame reaches exactly the clients bound to the device, kind,
\* channel and register its sender meant, once each, and no other frame
\* reaches anybody.
THEOREM FrameReachesBound == Spec => []BoundAreCalled
<1>1. ASSUME RxInv PROVE BoundAreCalled
  <2> SUFFICES ASSUME calling, next > Len(Current), meant = <<>> \/ meant[2] \in DevLists
               PROVE  /\ CalledSet = MeantFor
                      /\ \A i, j \in 1 .. Len(called) : called[i] = called[j] => i = j
    BY DEF BoundAreCalled
  <2>r. /\ frame # NoFrame /\ next \in 1 .. Len(Current) + 1 /\ Len(called) = next - 1
        /\ \A i \in 1 .. Len(called) : called[i] = Current[i]
    BY <1>1 DEF RxInv, RunOk
  <2>c. Current \in Seq(Clients) /\ Len(Current) \in Nat
    BY <1>1, <2>r, CurrentIs
  <2>n. Len(called) = Len(Current)
    BY <2>r, <2>c
  <2>s. CalledSet = {Current[i] : i \in 1 .. Len(Current)}
    BY <2>r, <2>n DEF CalledSet
  <2>1. CASE Target[1] = "none"
    <3>1. Current = <<>> /\ meant = <<>>
      BY <1>1, <2>1, <2>r, CurrentIs
    <3>2. Len(Current) = 0 /\ MeantFor = {}
      BY <3>1 DEF MeantFor
    <3> QED BY <2>n, <2>s, <3>2
  <2>2. CASE Target[1] # "none"
    <3>1. PICK d \in LegalIds, l \in DevLists \cup BrcLists :
              meant = <<d, l>> /\ (l \in DevLists => Holds(Current, Clients, BoundTo(DevIndex(d), l)))
      BY <1>1, <2>2, <2>r, CurrentIs
    <3>2. meant # <<>> /\ meant[1] = d /\ meant[2] = l
      BY <3>1
    <3>3. l \in DevLists /\ l \notin BrcLists
      BY <3>2, ListNames
    <3>4. Holds(Current, Clients, BoundTo(DevIndex(d), l))
      BY <3>1, <3>3
    <3>5. MeantFor = {k \in asked : ListOf[k] = l /\ IdOf[k] = d}
      BY <3>2, <3>3 DEF MeantFor
    <3>6. ASSUME NEW k \in asked PROVE Legal(k) /\ CellOf(k) = DevIndex(d) <=> IdOf[k] = d
      <4>1. k \in Clients /\ IdOf[k] \in CanIds /\ d \in CanIds /\ ArgsLegal(0, d, 0)
        BY <1>1, LegalFacts DEF RxInv, TypeOK
      <4> QED BY <4>1, CellsApart DEF Legal, CellOf
    <3>7. MeantFor = BoundTo(DevIndex(d), l)
      BY <3>5, <3>6 DEF BoundTo
    <3>8. /\ {Current[i] : i \in 1 .. Len(Current)} = BoundTo(DevIndex(d), l)
          /\ \A i, j \in 1 .. Len(Current) : Current[i] = Current[j] => i = j
      <4>1. PICK c, b : c = Current /\ b = BoundTo(DevIndex(d), l)
        OBVIOUS
      <4>2. Holds(c, Clients, b)
        BY <3>4, <4>1
      <4>3. {c[i] : i \in 1 .. Len(c)} = b /\ \A i, j \in 1 .. Len(c) : c[i] = c[j] => i = j
        BY <4>2 DEF Holds
      <4> QED BY <4>1, <4>3
    <3> QED BY <2>n, <2>r, <2>s, <3>7, <3>8
  <2> QED BY <2>1, <2>2
<1> QED BY RxInvAlways, <1>1, PTL

-----------------------------------------------------------------------------
(***************************************************************************)
(* Acknowledged sending, on one device's list of ack callbacks.            *)
(***************************************************************************)
\* The objects between create and close.
Live == {o \in Objs : pc[o] \notin {"none", "freed"}}

\* The device has received data with the hash the object sends, on its register.
Answered(o) == \E f \in received : f[1] = RegOf[o] /\ Hash[f[2]] = Hash[value[o]]

\* The list of ack callbacks holds the live objects.
BoundLive == Holds(bound, Objs, Live) /\ rx <= Len(bound) + 1

\* An ack that is being delivered answers something the device received.
AckOk == rx # 0 => \E f \in received : ack = <<f[1], Hash[f[2]]>>

\* In a call the callback compares with the hash of what is sent, and a wait
\* that was signalled was answered.
CallOk(o) ==
    /\ pc[o] \in {"sending", "sent", "waiting", "signalled", "timedout"} => arg[o] = Hash[value[o]]
    /\ hit[o] /\ ~spurious[o] => Answered(o)
    /\ pc[o] = "signalled" /\ ~spurious[o] => Answered(o)

\* The inductive invariant.
AckStrong == AckTypeOK /\ BoundLive /\ AckOk /\ \A o \in Objs : CallOk(o)

\* The inductive invariant of acknowledged sending holds initially.
LEMMA AckInitial == ASSUME AckInit PROVE AckStrong
<1>a. Tries \in Nat /\ MaxCalls \in Nat
  BY AckAssumption
<1>0. <<>> \in Seq(Objs) /\ Len(<<>>) = 0
  OBVIOUS
<1>1. AckTypeOK
  BY <1>a, <1>0 DEF AckInit, AckTypeOK
<1>2. BoundLive
  <2>1. Live = {} /\ bound = <<>> /\ rx = 0
    BY DEF AckInit, Live
  <2> QED BY <1>0, <2>1 DEF BoundLive, Holds
<1>3. AckOk /\ \A o \in Objs : CallOk(o)
  BY DEF AckInit, AckOk, CallOk
<1> QED BY <1>1, <1>2, <1>3 DEF AckStrong

\* What is answered stays answered.
LEMMA AnsweredGrows ==
    ASSUME NEW o \in Objs, received \subseteq received', value'[o] = value[o], Answered(o)
    PROVE  Answered(o)'
BY DEF Answered

\* A step of one object's thread that leaves the registry and the device alone.
LEMMA ThreadKeeps ==
    ASSUME AckStrong, AckTypeOK', NEW o \in Objs,
           UNCHANGED <<bound, rx, ack, received>>,
           pc[o] \notin {"none", "freed"}, pc'[o] \notin {"none", "freed"},
           \A x \in Objs \ {o} : /\ pc'[x] = pc[x] /\ arg'[x] = arg[x] /\ value'[x] = value[x]
                                    /\ hit'[x] = hit[x] /\ spurious'[x] = spurious[x],
           CallOk(o)'
    PROVE  AckStrong'
<1>1. Live' = Live
  BY DEF Live
<1>2. BoundLive' /\ AckOk'
  BY <1>1 DEF AckStrong, BoundLive, AckOk
<1>3. ASSUME NEW x \in Objs, x # o PROVE CallOk(x)'
  <2>1. Answered(x)' <=> Answered(x)
    BY <1>3 DEF Answered
  <2> QED BY <1>3, <2>1 DEF AckStrong, CallOk
<1> QED BY <1>2, <1>3 DEF AckStrong

\* Creating an object of a register keeps it.
LEMMA CreateKeeps ==
    ASSUME AckStrong, NEW o \in Objs, create(o)
    PROVE  AckStrong'
<1>g. /\ pc[o] = "none" /\ rx = 0 /\ pc' = [pc EXCEPT ![o] = "bound"]
      /\ bound' = callbackListAdd(bound, o)
      /\ UNCHANGED <<arg, value, tries, hit, calls, rx, ack, air, received, spurious>>
  BY DEF create, callbackListAdd
<1>t. AckTypeOK /\ Holds(bound, Objs, Live)
  BY DEF AckStrong, BoundLive
<1>p. pc'[o] = "bound" /\ \A x \in Objs : x # o => pc'[x] = pc[x]
  BY <1>g, <1>t DEF AckTypeOK
<1>1. Live' = Live \cup {o} /\ o \notin Live /\ Live \in SUBSET Objs
  BY <1>g, <1>p DEF Live
<1>2. Holds(bound', Objs, Live')
  BY <1>g, <1>t, <1>1, AddHolds
<1>3. BoundLive'
  <2>1. bound' \in Seq(Objs) /\ rx' = 0
    BY <1>g, <1>t, <1>2 DEF Holds, AckTypeOK
  <2>2. Len(bound') \in Nat
    BY <2>1
  <2>3. rx' <= Len(bound') + 1
    BY <2>1, <2>2
  <2> QED BY <1>2, <2>3 DEF BoundLive
<1>4. AckTypeOK'
  <2>1. bound' \in Seq(Objs)
    BY <1>2 DEF Holds
  <2> QED BY <1>g, <1>t, <2>1 DEF AckTypeOK
<1>5. AckOk' /\ \A x \in Objs : CallOk(x)'
  BY <1>g, <1>p DEF AckStrong, AckOk, CallOk, Answered
<1> QED BY <1>3, <1>4, <1>5 DEF AckStrong

\* So does closing one.
LEMMA CloseObjKeeps ==
    ASSUME AckStrong, NEW o \in Objs, closeObj(o)
    PROVE  AckStrong'
<1>g. /\ pc[o] = "bound" /\ rx = 0 /\ pc' = [pc EXCEPT ![o] = "freed"]
      /\ bound' = callbackListClose(bound, o)
      /\ UNCHANGED <<arg, value, tries, hit, calls, rx, ack, air, received, spurious>>
  BY DEF closeObj, callbackListClose
<1>t. AckTypeOK /\ Holds(bound, Objs, Live)
  BY DEF AckStrong, BoundLive
<1>p. pc'[o] = "freed" /\ \A x \in Objs : x # o => pc'[x] = pc[x]
  BY <1>g, <1>t DEF AckTypeOK
<1>1. Live' = Live \ {o} /\ o \in Live /\ Live \in SUBSET Objs
  BY <1>g, <1>p DEF Live
<1>2. Holds(bound', Objs, Live')
  BY <1>g, <1>t, <1>1, CloseHolds
<1>3. BoundLive'
  <2>1. bound' \in Seq(Objs) /\ rx' = 0
    BY <1>g, <1>t, <1>2 DEF Holds, AckTypeOK
  <2>2. Len(bound') \in Nat
    BY <2>1
  <2>3. rx' <= Len(bound') + 1
    BY <2>1, <2>2
  <2> QED BY <1>2, <2>3 DEF BoundLive
<1>4. AckTypeOK'
  <2>1. bound' \in Seq(Objs)
    BY <1>2 DEF Holds
  <2> QED BY <1>g, <1>t, <2>1 DEF AckTypeOK
<1>5. AckOk' /\ \A x \in Objs : CallOk(x)'
  BY <1>g, <1>p DEF AckStrong, AckOk, CallOk, Answered
<1> QED BY <1>3, <1>4, <1>5 DEF AckStrong

\* So does the first frame of a call.
LEMMA SendKeeps ==
    ASSUME AckStrong, NEW o \in Objs, NEW v \in Values, send(o, v)
    PROVE  AckStrong'
<1>t. AckTypeOK /\ Tries \in Nat /\ MaxCalls \in Nat
  BY AckAssumption DEF AckStrong
<1>1. AckTypeOK'
  BY <1>t DEF send, AckTypeOK, Hashes
<1>2. CallOk(o)'
  BY <1>t DEF send, AckTypeOK, CallOk
<1>3. /\ pc[o] = "bound" /\ pc'[o] = "sending" /\ UNCHANGED <<bound, rx, ack, received>>
      /\ \A x \in Objs \ {o} : /\ pc'[x] = pc[x] /\ arg'[x] = arg[x] /\ value'[x] = value[x]
                                  /\ hit'[x] = hit[x] /\ spurious'[x] = spurious[x]
  BY <1>t DEF send, AckTypeOK
<1> QED BY <1>1, <1>2, <1>3, ThreadKeeps

\* The turns of the loop: queue the frame, wait, wake up, give up.
LEMMA LoopKeeps ==
    ASSUME AckStrong, NEW o \in Objs,
           \/ queueFrame(o) \/ timedWait(o) \/ timeout(o)
           \/ spuriousWakeup(o) \/ wake(o) \/ giveUp(o)
    PROVE  AckStrong'
<1>t. AckTypeOK /\ Tries \in Nat /\ MaxCalls \in Nat /\ RegOf[o] \in AckRegs /\ value[o] \in Values
  BY AckAssumption DEF AckStrong, AckTypeOK
<1>1. AckTypeOK'
  <2>1. CASE queueFrame(o)
    <3>1. tries' \in [Objs -> 0 .. Tries] /\ air' \subseteq AckRegs \X Values
      BY <1>t, <2>1 DEF queueFrame, AckTypeOK
    <3> QED BY <1>t, <2>1, <3>1 DEF queueFrame, AckTypeOK
  <2>2. CASE wake(o)
    <3>1. hit' \in [Objs -> BOOLEAN]
      BY <1>t, <2>2 DEF wake, AckTypeOK
    <3> QED BY <1>t, <2>2, <3>1 DEF wake, AckTypeOK
  <2>3. CASE timedWait(o) \/ timeout(o) \/ spuriousWakeup(o) \/ giveUp(o)
    BY <1>t, <2>3 DEF timedWait, timeout, spuriousWakeup, giveUp, AckTypeOK
  <2> QED BY <2>1, <2>2, <2>3
<1>2. CallOk(o)'
  <2>1. Answered(o)' <=> Answered(o)
    BY DEF Answered, queueFrame, timedWait, timeout, spuriousWakeup, wake,
           giveUp
  <2>2. CASE wake(o)
    BY <1>t, <2>1, <2>2 DEF AckStrong, CallOk, wake, AckTypeOK
  <2>3. CASE ~wake(o)
    BY <1>t, <2>1, <2>3 DEF AckStrong, CallOk, AckTypeOK,
           queueFrame, timedWait, timeout, spuriousWakeup, giveUp
  <2> QED BY <2>2, <2>3
<1>3. /\ pc[o] \notin {"none", "freed"} /\ pc'[o] \notin {"none", "freed"}
      /\ UNCHANGED <<bound, rx, ack, received>>
      /\ \A x \in Objs \ {o} : /\ pc'[x] = pc[x] /\ arg'[x] = arg[x] /\ value'[x] = value[x]
                                  /\ hit'[x] = hit[x] /\ spurious'[x] = spurious[x]
  BY <1>t DEF AckTypeOK,
     queueFrame, timedWait, timeout, spuriousWakeup, wake, giveUp
<1> QED BY <1>1, <1>2, <1>3, ThreadKeeps

\* The device receives a frame; an ack arrives; its delivery is over.
LEMMA DeviceKeeps ==
    ASSUME AckStrong,
           \/ \E f \in air : deviceReceive(f)
           \/ \E f \in received : ackArrives(f)
           \/ ackDone
    PROVE  AckStrong'
<1>t. AckTypeOK /\ bound \in Seq(Objs) /\ Len(bound) \in Nat
  BY DEF AckStrong, AckTypeOK
<1>g. /\ UNCHANGED <<pc, arg, value, tries, hit, calls, bound, spurious>>
      /\ received \subseteq received'
  BY DEF deviceReceive, ackArrives, ackDone
<1>l. Live' = Live /\ Holds(bound, Objs, Live)
  BY <1>g DEF Live, AckStrong, BoundLive
<1>c. ASSUME NEW x \in Objs PROVE CallOk(x)'
  <2>1. Answered(x) => Answered(x)'
    BY <1>g, AnsweredGrows
  <2> QED BY <1>g, <2>1 DEF AckStrong, CallOk
<1>1. CASE \E f \in air : deviceReceive(f)
  <2>1. AckTypeOK' /\ UNCHANGED <<rx, ack>>
    BY <1>t, <1>1 DEF AckTypeOK, deviceReceive
  <2>2. BoundLive' /\ AckOk'
    BY <1>g, <1>l, <2>1 DEF AckStrong, BoundLive, AckOk
  <2> QED BY <1>c, <2>1, <2>2 DEF AckStrong
<1>2. CASE \E f \in received : ackArrives(f)
  <2>1. PICK f \in received : ackArrives(f)
    BY <1>2
  <2>2. /\ rx' = 1 /\ ack' = <<f[1], Hash[f[2]]>> /\ UNCHANGED <<air, received>>
        /\ f[1] \in AckRegs /\ Hash[f[2]] \in Hashes
    BY <1>t, <2>1 DEF ackArrives, AckTypeOK, Hashes
  <2>3. AckTypeOK'
    BY <1>t, <1>g, <2>2 DEF AckTypeOK
  <2>4. BoundLive'
    BY <1>t, <1>g, <1>l, <2>2 DEF BoundLive
  <2>5. AckOk'
    BY <2>2 DEF AckOk
  <2> QED BY <1>c, <2>3, <2>4, <2>5 DEF AckStrong
<1>3. CASE ackDone
  <2>1. rx' = 0 /\ ack' = <<>> /\ UNCHANGED <<air, received>>
    BY <1>3 DEF ackDone
  <2>2. AckTypeOK'
    BY <1>t, <1>g, <2>1 DEF AckTypeOK
  <2>3. BoundLive' /\ AckOk'
    BY <1>t, <1>g, <1>l, <2>1 DEF BoundLive, AckOk
  <2> QED BY <1>c, <2>2, <2>3 DEF AckStrong
<1> QED BY <1>1, <1>2, <1>3

\* The callback of the next object in the list.
LEMMA CallbackKeeps ==
    ASSUME AckStrong, callback
    PROVE  AckStrong'
<1> DEFINE o == bound[rx]
<1>t. AckTypeOK /\ bound \in Seq(Objs) /\ Len(bound) \in Nat /\ rx \in Nat
  BY DEF AckStrong, AckTypeOK
<1>g. /\ rx \in 1 .. Len(bound) /\ ArgFree(o) /\ rx' = rx + 1
      /\ pc' = IF ack = <<RegOf[o], arg[o]>> /\ pc[o] = "waiting"
                 THEN [pc EXCEPT ![o] = "signalled"] ELSE pc
      /\ UNCHANGED <<arg, value, tries, hit, calls, bound, ack, air, received, spurious>>
  BY DEF callback
<1>o. o \in Objs
  BY <1>t, <1>g, ElementOfSeq
<1> HIDE DEF o
<1>p. /\ \A x \in Objs : x # o => pc'[x] = pc[x]
      /\ pc'[o] = pc[o] \/ (pc[o] = "waiting" /\ pc'[o] = "signalled" /\ ack = <<RegOf[o], arg[o]>>)
  BY <1>t, <1>g, <1>o DEF AckTypeOK
<1>1. AckTypeOK'
  BY <1>t, <1>g, <1>o DEF AckTypeOK
<1>2. Live' = Live
  BY <1>p DEF Live
<1>3. BoundLive'
  <2>1. rx + 1 <= Len(bound) + 1
    BY <1>t, <1>g
  <2> QED BY <1>g, <1>2, <2>1 DEF AckStrong, BoundLive
<1>4. AckOk'
  <2>1. rx # 0
    BY <1>g
  <2> QED BY <1>g, <2>1 DEF AckStrong, AckOk
<1>5. ASSUME NEW x \in Objs PROVE CallOk(x)'
  <2>1. Answered(x)' <=> Answered(x)
    BY <1>g DEF Answered
  <2>2. CASE pc'[x] = pc[x]
    BY <1>g, <2>1, <2>2 DEF AckStrong, CallOk
  <2>3. CASE x = o /\ pc[o] = "waiting" /\ pc'[o] = "signalled" /\ ack = <<RegOf[o], arg[o]>>
    <3>1. arg[o] = Hash[value[o]]
      BY <1>o, <2>3 DEF AckStrong, CallOk
    <3>2. PICK f \in received : ack = <<f[1], Hash[f[2]]>>
      BY <1>g DEF AckStrong, AckOk
    <3>3. Answered(o)
      BY <2>3, <3>1, <3>2 DEF Answered
    <3> QED BY <1>g, <2>1, <2>3, <3>1, <3>3 DEF CallOk
  <2> QED BY <1>p, <2>2, <2>3
<1> QED BY <1>1, <1>3, <1>4, <1>5 DEF AckStrong

\* Every step keeps the invariant of acknowledged sending,
LEMMA AckInductive ==
    ASSUME AckStrong, [AckNext]_ackVars
    PROVE  AckStrong'
<1>1. CASE UNCHANGED ackVars
  BY <1>1 DEF ackVars, AckStrong, AckTypeOK, BoundLive, AckOk, CallOk, Live, Answered
<1>2. ASSUME NEW o \in Objs,
             \/ create(o) \/ closeObj(o) \/ Sender(o)
             \/ timeout(o) \/ spuriousWakeup(o)
             \/ \E v \in Values : send(o, v)
      PROVE  AckStrong'
  BY <1>2, CreateKeeps, CloseObjKeeps, LoopKeeps, SendKeeps DEF Sender
<1> QED BY <1>1, <1>2, DeviceKeeps, CallbackKeeps DEF AckNext, Receiver

\* and so it holds always.
LEMMA AckStrongAlways == AckSpec => []AckStrong
<1>1. AckInit => AckStrong
  BY AckInitial
<1>2. AckStrong /\ [AckNext]_ackVars => AckStrong'
  BY AckInductive
<1> QED BY <1>1, <1>2, PTL DEF AckSpec

\* For any number of objects of one device: at most Tries sends per call, and the
\* receive thread never stands at an object that is gone (cs_send_ack.c,
\* cs_request.c).
THEOREM AckCorrect == AckSpec => []AckInv
<1>1. AckStrong => AckInv
  BY DEF AckStrong, AckInv, NoCallbackOnFreed, BoundLive, Holds, Live
<1> QED BY AckStrongAlways, <1>1, PTL

\* A call that reports an ack, and did not wake up spuriously, sent data whose
\* hash the device has received on that register.
THEOREM HitIsAnswered == AckSpec => []HitMeansReceived
<1>1. AckStrong => HitMeansReceived
  BY DEF AckStrong, HitMeansReceived, CallOk, Answered
<1> QED BY AckStrongAlways, <1>1, PTL

\* The object's mutex closes the gap between send and wait: a matching ack that
\* the callback compares during a call wakes the sender.
THEOREM AckWakesSender == AckSpec => AckNeverMissed
<1> DEFINE Matched(o) ==
      /\ rx \in 1 .. Len(bound) /\ bound[rx] = o /\ rx' = rx + 1
      /\ ack = <<RegOf[o], arg[o]>>
      /\ pc[o] \in {"sending", "sent", "waiting"}
      => pc'[o] = "signalled"
<1>1. ASSUME AckStrong, [AckNext]_ackVars PROVE [\A o \in Objs : Matched(o)]_ackVars
  <2> SUFFICES ASSUME AckNext, NEW o \in Objs, rx \in 1 .. Len(bound), bound[rx] = o,
                      rx' = rx + 1, ack = <<RegOf[o], arg[o]>>,
                      pc[o] \in {"sending", "sent", "waiting"}
               PROVE  pc'[o] = "signalled"
    BY <1>1
  <2>t. rx \in Nat /\ rx # 0 /\ Len(bound) \in Nat /\ AckTypeOK
    BY <1>1 DEF AckStrong, AckTypeOK
  <2>r. rx' # rx /\ rx' # 0
    BY <2>t
  <2>1. callback
    BY <2>t, <2>r DEF AckNext, create, closeObj, Sender, timeout,
       spuriousWakeup, send, queueFrame, timedWait, wake, giveUp,
       deviceReceive, ackArrives, Receiver, ackDone
  <2> QED BY <2>t, <2>1 DEF callback, ArgFree, AckTypeOK
<1> QED BY AckStrongAlways, <1>1, PTL DEF AckSpec, AckNeverMissed
=============================================================================
