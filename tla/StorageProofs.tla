--------------------------- MODULE StorageProofs ----------------------------
(***************************************************************************)
(* Proofs about the containers of the libraries: msgpack-c's arena         *)
(* (MsgPackZone), and the table of discovered services with the growing    *)
(* arrays it is made of (PCTable, SABuffer), which also keep the tokens of *)
(* the JSON loader (OPTokens).                                             *)
(*                                                                         *)
(* ZoneInv is proved for every chunk size, every limit on doubling and     *)
(* every sequence of msgpack_zone_malloc and msgpack_zone_clear;           *)
(* ServicesInv and AnswerFaithful for every set of servers, every choice   *)
(* of their names and types, every size of the blocks and every order of   *)
(* the events; TokensLive for every size of the blocks and any number of   *)
(* loads.                                                                  *)
(***************************************************************************)
EXTENDS PCTable, MsgPackZone, OPTokens, SequenceTheorems, WellFoundedInduction, TLAPS

-----------------------------------------------------------------------------
(***************************************************************************)
(* The arena of msgpack-c                                                  *)
(***************************************************************************)
\* What a zone and its blocks are made of.
Zones == [chunks : Seq(Nat), free : Nat, ptr : Nat,
          blocks : SUBSET [chunk : Nat, from : Nat, size : Nat]]

\* The inductive invariant, of any zone: ZoneInv and the types.
ZoneOk(z) == z \in Zones /\ CursorOk(z) /\ BlocksInside(z) /\ BlocksApart(z)

-----------------------------------------------------------------------------
\* A non-empty set of natural numbers has a least element.
LEMMA LeastNat ==
    ASSUME NEW T, T \subseteq Nat, T # {}
    PROVE  \E k \in T : \A j \in T : k <= j
<1> DEFINE R == {p \in Nat \X Nat : p[1] < p[2]}
<1>1. IsWellFoundedOn(R, Nat)
  BY NatLessThanWellFounded DEF OpToRel
<1>2. PICK k \in T : \A j \in T : ~(<<j, k>> \in R)
  <2> HIDE DEF R
  <2> QED BY <1>1, WFMin, Zenon
<1>3. ASSUME NEW j \in T PROVE k <= j
  <2>1. ~(<<j, k>> \in R)
    BY <1>2
  <2>2. j \in Nat /\ k \in Nat
    OBVIOUS
  <2> QED BY <2>1, <2>2
<1> QED BY <1>2, <1>3

\* The product of two natural numbers is one.
LEMMA ProductNat ==
    ASSUME NEW a \in Nat, NEW b \in Nat
    PROVE  a * b \in Nat
OBVIOUS

\* The size msgpack_zone_malloc_expand allocates covers the request, whether the
\* doubling reaches it or the product would wrap and the request itself is used.
LEMMA DoubledCovers ==
    ASSUME NEW start \in Nat, NEW size \in Nat
    PROVE  DoubledUntil(start, size) \in Nat /\ size <= DoubledUntil(start, size)
<1>1. CASE Enough(start, size) = {}
  BY <1>1 DEF DoubledUntil
<1>2. CASE Enough(start, size) # {}
  <2> DEFINE T == Enough(start, size)
             k == CHOOSE i \in T : \A j \in T : i <= j
  <2>1. T \subseteq Nat
    BY ZoneAssumption DEF Enough
  <2>2. \E i \in T : \A j \in T : i <= j
    <3> HIDE DEF T
    <3> QED BY <2>1, <1>2, LeastNat DEF T
  <2>3. k \in T
    BY <2>2
  <2>4. k \in 0 .. Doublings /\ size <= start * 2 ^ k
    <3> HIDE DEF k
    <3> QED BY <2>3 DEF Enough
  <2>5. 2 ^ k \in Nat
    <3> HIDE DEF k
    <3> QED BY <2>4, ZoneAssumption
  <2>6. start * 2 ^ k \in Nat
    <3> HIDE DEF k
    <3> QED BY <2>5, ProductNat
  <2>7. DoubledUntil(start, size) = start * 2 ^ k
    BY <1>2 DEF DoubledUntil
  <2> QED
    <3> HIDE DEF k
    <3> QED BY <2>4, <2>6, <2>7
<1> QED BY <1>1, <1>2

\* The cursor is only ever moved up to an aligned offset.
LEMMA RoundUpCovers ==
    ASSUME NEW n \in Nat
    PROVE  RoundUp(n) \in Nat /\ n <= RoundUp(n)
BY DEF RoundUp, Align

-----------------------------------------------------------------------------
\* msgpack_zone_malloc from the head chunk: the block lies between the old and
\* the new cursor, behind every other block of the chunk.
LEMMA MallocInHead ==
    ASSUME NEW z, ZoneOk(z), NEW size \in Nat, NEW aligned \in Nat,
           z.ptr <= aligned, z.free >= size + (aligned - z.ptr)
    PROVE  ZoneOk([z EXCEPT !.free = @ - (size + (aligned - z.ptr)),
                            !.ptr = @ + (size + (aligned - z.ptr)),
                            !.blocks = @ \cup {Block(Len(z.chunks), aligned, size)}])
<1> DEFINE n == Block(Len(z.chunks), aligned, size)
           w == [z EXCEPT !.free = @ - (size + (aligned - z.ptr)),
                          !.ptr = @ + (size + (aligned - z.ptr)),
                          !.blocks = @ \cup {n}]
<1>1. /\ z.chunks \in Seq(Nat) /\ z.free \in Nat /\ z.ptr \in Nat
      /\ z.blocks \subseteq [chunk : Nat, from : Nat, size : Nat]
  BY DEF ZoneOk, Zones
<1>2. Len(z.chunks) \in Nat /\ Len(z.chunks) >= 1
  BY <1>1 DEF ZoneOk, CursorOk
<1>3. n \in [chunk : Nat, from : Nat, size : Nat]
      /\ n.chunk = Len(z.chunks) /\ n.from = aligned /\ n.size = size
  BY <1>2 DEF Block
<1> HIDE DEF n
<1>4. /\ w.chunks = z.chunks /\ w.free = z.free - (size + (aligned - z.ptr))
      /\ w.ptr = aligned + size /\ w.blocks = z.blocks \cup {n}
  BY <1>1 DEF ZoneOk, Zones
<1>5. w \in Zones
  <2>1. z.free - (size + (aligned - z.ptr)) \in Nat /\ z.ptr + (size + (aligned - z.ptr)) \in Nat
    BY <1>1
  <2>2. z.blocks \cup {n} \in SUBSET [chunk : Nat, from : Nat, size : Nat]
    BY <1>1, <1>3
  <2> QED BY <2>1, <2>2 DEF ZoneOk, Zones
<1> HIDE DEF w
<1>6. z.chunks[Len(z.chunks)] \in Nat
  BY <1>1, <1>2
<1>7. CursorOk(w)
  BY <1>1, <1>2, <1>4, <1>6 DEF ZoneOk, CursorOk
<1>8. BlocksInside(w)
  <2> SUFFICES ASSUME NEW b \in w.blocks
               PROVE  /\ b.chunk \in 1 .. Len(z.chunks)
                      /\ b.from + b.size <= z.chunks[b.chunk]
                      /\ b.chunk = Len(z.chunks) => b.from + b.size <= aligned + size
    BY <1>4 DEF BlocksInside
  <2>1. CASE b = n
    <3>1. /\ b.chunk = Len(z.chunks) /\ Len(z.chunks) \in 1 .. Len(z.chunks)
          /\ b.from = aligned /\ b.size = size
      BY <1>2, <1>3, <2>1
    <3>2. aligned + size <= z.chunks[Len(z.chunks)]
      BY <1>1, <1>2, <1>6 DEF ZoneOk, CursorOk
    <3> QED BY <3>1, <3>2
  <2>2. CASE b \in z.blocks
    <3>1. /\ b.chunk \in 1 .. Len(z.chunks)
          /\ b.from + b.size <= z.chunks[b.chunk]
          /\ b.chunk = Len(z.chunks) => b.from + b.size <= z.ptr
      BY <2>2 DEF ZoneOk, BlocksInside
    <3>2. b.from \in Nat /\ b.size \in Nat
      BY <2>2, <1>1
    <3> QED BY <3>1, <3>2, <1>1
  <2> QED BY <2>1, <2>2, <1>4
<1>9. BlocksApart(w)
  <2>1. ASSUME NEW b \in z.blocks, b.chunk = Len(z.chunks)
        PROVE  b.from + b.size <= aligned
    <3>1. b.from + b.size <= z.ptr
      BY <2>1 DEF ZoneOk, BlocksInside
    <3>2. b.from \in Nat /\ b.size \in Nat
      BY <1>1
    <3> QED BY <3>1, <3>2, <1>1
  <2> SUFFICES ASSUME NEW b \in w.blocks, NEW c \in w.blocks, b # c, b.chunk = c.chunk
               PROVE  b.from + b.size <= c.from \/ c.from + c.size <= b.from
    BY DEF BlocksApart
  <2>2. CASE b \in z.blocks /\ c \in z.blocks
    BY <2>2 DEF ZoneOk, BlocksApart
  <2>3. CASE b = n /\ c \in z.blocks
    BY <2>1, <2>3, <1>3
  <2>4. CASE c = n /\ b \in z.blocks
    BY <2>1, <2>4, <1>3
  <2> QED BY <2>2, <2>3, <2>4, <1>4
<1> QED BY <1>5, <1>7, <1>8, <1>9 DEF ZoneOk, w, n

\* msgpack_zone_malloc from a new chunk: the block is its first one.
LEMMA MallocInNewChunk ==
    ASSUME NEW z, ZoneOk(z), NEW size \in Nat
    PROVE  LET grown == malloc_expand(z, size + (Align - 1))
           IN  ZoneOk([grown EXCEPT !.blocks = @ \cup {Block(Len(grown.chunks), 0, size)}])
<1> DEFINE taken == size + (Align - 1)
           sz == DoubledUntil(ChunkSize, taken)
           grown == malloc_expand(z, taken)
           n == Block(Len(grown.chunks), 0, size)
           w == [grown EXCEPT !.blocks = @ \cup {n}]
<1>0. taken \in Nat /\ size <= taken
  BY DEF Align
<1>1. sz \in Nat /\ taken <= sz
  <2> HIDE DEF taken
  <2> QED BY <1>0, DoubledCovers, ZoneAssumption
<1>2. /\ z.chunks \in Seq(Nat) /\ z.free \in Nat /\ z.ptr \in Nat
      /\ z.blocks \subseteq [chunk : Nat, from : Nat, size : Nat]
      /\ Len(z.chunks) \in Nat /\ Len(z.chunks) >= 1
  BY DEF ZoneOk, Zones, CursorOk
<1>3. grown = [z EXCEPT !.chunks = Append(@, sz), !.free = sz - taken, !.ptr = taken]
  BY DEF malloc_expand
<1> HIDE DEF taken, sz
<1>4. /\ Append(z.chunks, sz) \in Seq(Nat)
      /\ Len(Append(z.chunks, sz)) = Len(z.chunks) + 1
      /\ \A i \in 1 .. Len(z.chunks) : Append(z.chunks, sz)[i] = z.chunks[i]
      /\ Append(z.chunks, sz)[Len(z.chunks) + 1] = sz
  BY <1>1, <1>2, AppendProperties
<1>5. /\ grown.chunks = Append(z.chunks, sz) /\ grown.free = sz - taken
      /\ grown.ptr = taken /\ grown.blocks = z.blocks /\ grown \in Zones
  <2>1. sz - taken \in Nat
    BY <1>0, <1>1
  <2> HIDE DEF grown
  <2> QED BY <1>0, <1>3, <1>4, <2>1 DEF ZoneOk, Zones
<1> HIDE DEF grown
<1>6. n \in [chunk : Nat, from : Nat, size : Nat]
      /\ n.chunk = Len(z.chunks) + 1 /\ n.from = 0 /\ n.size = size
  BY <1>2, <1>4, <1>5 DEF Block
<1> HIDE DEF n
<1>7. /\ w.chunks = Append(z.chunks, sz) /\ w.free = sz - taken
      /\ w.ptr = taken /\ w.blocks = z.blocks \cup {n} /\ w \in Zones
  <2>1. z.blocks \cup {n} \in SUBSET [chunk : Nat, from : Nat, size : Nat]
    BY <1>2, <1>6
  <2> QED BY <1>5, <2>1 DEF Zones
<1> HIDE DEF w
<1>8. CursorOk(w)
  <2>1. w.chunks[1] = ChunkSize
    BY <1>2, <1>4, <1>7 DEF ZoneOk, CursorOk
  <2> QED BY <2>1, <1>0, <1>1, <1>2, <1>4, <1>7 DEF CursorOk
<1>9. BlocksInside(w)
  <2> SUFFICES ASSUME NEW b \in w.blocks
               PROVE  /\ b.chunk \in 1 .. Len(z.chunks) + 1
                      /\ b.from + b.size <= w.chunks[b.chunk]
                      /\ b.chunk = Len(z.chunks) + 1 => b.from + b.size <= taken
    BY <1>4, <1>7 DEF BlocksInside
  <2>1. CASE b = n
    BY <2>1, <1>0, <1>1, <1>2, <1>4, <1>6, <1>7
  <2>2. CASE b \in z.blocks
    <3>1. b.chunk \in 1 .. Len(z.chunks) /\ b.from + b.size <= z.chunks[b.chunk]
      BY <2>2 DEF ZoneOk, BlocksInside
    <3> QED BY <3>1, <1>2, <1>4, <1>7
  <2> QED BY <2>1, <2>2, <1>7
<1>10. BlocksApart(w)
  <2>1. ASSUME NEW b \in z.blocks PROVE b.chunk # n.chunk
    <3>1. b.chunk \in 1 .. Len(z.chunks)
      BY DEF ZoneOk, BlocksInside
    <3> QED BY <3>1, <1>2, <1>6
  <2> SUFFICES ASSUME NEW b \in w.blocks, NEW c \in w.blocks, b # c, b.chunk = c.chunk
               PROVE  b.from + b.size <= c.from \/ c.from + c.size <= b.from
    BY DEF BlocksApart
  <2>2. CASE b \in z.blocks /\ c \in z.blocks
    BY <2>2 DEF ZoneOk, BlocksApart
  <2> QED BY <2>1, <2>2, <1>7
<1> QED BY <1>7, <1>8, <1>9, <1>10 DEF ZoneOk, w, n, grown, taken

\* Either way, what msgpack_zone_malloc leaves is a sound zone.
LEMMA MallocKeeps ==
    ASSUME NEW z, ZoneOk(z), NEW size \in Nat
    PROVE  ZoneOk(zone_malloc(z, size))
<1> DEFINE aligned == RoundUp(z.ptr)
<1>1. z.ptr \in Nat
  BY DEF ZoneOk, Zones
<1>2. aligned \in Nat /\ z.ptr <= aligned
  BY <1>1, RoundUpCovers
<1> HIDE DEF aligned
<1>3. CASE z.free >= size + (aligned - z.ptr)
  BY <1>2, <1>3, MallocInHead DEF zone_malloc, aligned
<1>4. CASE ~(z.free >= size + (aligned - z.ptr))
  BY <1>4, MallocInNewChunk DEF zone_malloc, aligned
<1> QED BY <1>3, <1>4

\* A zone as msgpack_zone_init and msgpack_zone_clear leave it is sound.
LEMMA EmptyOk == ZoneOk(zone_init)
<1>1. ChunkSize \in Nat
  BY ZoneAssumption
<1>2. <<ChunkSize>> \in Seq(Nat) /\ Len(<<ChunkSize>>) = 1 /\ <<ChunkSize>>[1] = ChunkSize
  BY <1>1
<1> QED BY <1>1, <1>2 DEF ZoneOk, Zones, zone_init, CursorOk, BlocksInside, BlocksApart

-----------------------------------------------------------------------------
\* Whatever is asked of the arena, in whatever order and with clears in between:
\* each block handed out lies inside a chunk, behind the cursor, and shares no
\* byte with another one (msgpack_zone_malloc, zone.h).
THEOREM ZoneCorrect == ZoneSpec => []ZoneInv
<1>1. ZoneInit => ZoneOk(zone)
  BY EmptyOk DEF ZoneInit
<1>2. ZoneOk(zone) /\ [ZoneNext]_zone => ZoneOk(zone)'
  <2> SUFFICES ASSUME ZoneOk(zone), [ZoneNext]_zone PROVE ZoneOk(zone')
    OBVIOUS
  <2>1. CASE Clear
    <3>1. zone_clear(zone) = zone_init
      BY DEF ZoneOk, CursorOk, zone_clear, zone_init
    <3> QED BY <2>1, <3>1, EmptyOk DEF Clear
  <2>2. ASSUME NEW size \in Sizes, Malloc(size) PROVE ZoneOk(zone')
    <3>1. size \in Nat
      BY ZoneAssumption
    <3> QED BY <2>2, <3>1, MallocKeeps DEF Malloc
  <2>3. CASE UNCHANGED zone
    BY <2>3
  <2> QED BY <2>1, <2>2, <2>3 DEF ZoneNext
<1>3. ZoneOk(zone) => ZoneInv
  BY DEF ZoneOk, ZoneInv
<1> QED BY <1>1, <1>2, <1>3, PTL DEF ZoneSpec

-----------------------------------------------------------------------------
(***************************************************************************)
(* SABuffer: what add does to a buffer of any block size                   *)
(***************************************************************************)
\* A buffer of elements of S.
Buffers(S) == [data : Seq(S), block_count : Nat \ {0}, moves : Nat]

\* The block count SABuffer_realloc chooses, for blocks of C elements.
BlocksFor(C, blocks, n) ==
    IF C * blocks < n THEN blocks + ((n - C * blocks) \div C) + 1
    ELSE IF blocks - ((C * blocks - n) \div C) <= 0 THEN 1
         ELSE blocks - ((C * blocks - n) \div C)

\* A buffer with an element added at its end.
Added(C, b, x) ==
    LET blocks == BlocksFor(C, b.block_count, Len(b.data) + 1)
    IN  [data |-> Append(b.data, x), block_count |-> blocks,
         moves |-> IF blocks = b.block_count THEN b.moves ELSE b.moves + 1]

\* The division that rounds down.
LEMMA DivBounds ==
    ASSUME NEW k \in Nat, NEW C \in Nat \ {0}
    PROVE  /\ k \div C \in Nat /\ C * (k \div C) \in Nat
           /\ C * (k \div C) <= k /\ k < C * (k \div C) + C
<1>1. k \div C \in Int /\ k = C * (k \div C) + (k % C) /\ k % C \in 0 .. C - 1
  OBVIOUS
<1>2. k \div C \in Nat
  OBVIOUS
<1>3. C * (k \div C) \in Nat
  BY <1>2, ProductNat
<1> QED BY <1>1, <1>2, <1>3

\* The blocks chosen hold n elements, and one block is kept while it suffices.
LEMMA BlocksHold ==
    ASSUME NEW C \in Nat \ {0}, NEW blocks \in Nat \ {0}, NEW n \in Nat \ {0}
    PROVE  /\ BlocksFor(C, blocks, n) \in Nat \ {0}
           /\ n <= C * BlocksFor(C, blocks, n)
           /\ blocks = 1 /\ n <= C => BlocksFor(C, blocks, n) = 1
<1> DEFINE a == C * blocks
<1>a. a \in Nat
  BY ProductNat
<1>1. CASE a < n
  <2> DEFINE d == (n - a) \div C
  <2>1. n - a \in Nat
    BY <1>1, <1>a
  <2>2. d \in Nat /\ C * d \in Nat /\ n - a < C * d + C
    BY <2>1, DivBounds
  <2>3. BlocksFor(C, blocks, n) = blocks + d + 1
    BY <1>1 DEF BlocksFor
  <2>4. C * (blocks + d + 1) = a + C * d + C
    BY <2>2
  <2>5. blocks = 1 => a = C
    OBVIOUS
  <2> HIDE DEF a, d
  <2> QED BY <1>1, <1>a, <2>2, <2>3, <2>4, <2>5
<1>2. CASE ~(a < n)
  <2> DEFINE d == (a - n) \div C
             e == blocks - d
  <2>1. a - n \in Nat
    BY <1>2, <1>a
  <2>2. d \in Nat /\ C * d \in Nat /\ C * d <= a - n /\ a - n < C * d + C
    BY <2>1, DivBounds
  <2>3. BlocksFor(C, blocks, n) = IF e <= 0 THEN 1 ELSE e
    BY <1>2 DEF BlocksFor
  <2>4. C * e = a - C * d
    BY <2>2
  <2>5. n <= C * e
    BY <1>a, <2>1, <2>2, <2>4
  <2>6. e > 0
    <3>1. ASSUME e <= 0 PROVE FALSE
      <4>1. C * (0 - e) \in Nat
        BY <2>2, <3>1, ProductNat
      <4>2. C * e = 0 - C * (0 - e)
        BY <2>2
      <4> QED BY <2>5, <4>1, <4>2
    <3> QED BY <2>2, <3>1
  <2>7. blocks = 1 /\ n <= C => e = 1
    <3> SUFFICES ASSUME blocks = 1 PROVE e = 1
      OBVIOUS
    <3>1. e <= 1 /\ e \in Int
      BY <2>2
    <3> QED BY <2>6, <3>1
  <2> QED BY <2>2, <2>3, <2>5, <2>6, <2>7
<1> QED BY <1>1, <1>2

\* What fits in one block gets one block, whatever the number of blocks before.
LEMMA OneBlock ==
    ASSUME NEW C \in Nat \ {0}, NEW blocks \in Nat \ {0}, NEW n \in 1 .. C
    PROVE  BlocksFor(C, blocks, n) = 1
<1> DEFINE a == C * blocks
           d == (a - n) \div C
           e == blocks - d
<1>1. a \in Nat /\ C * (blocks - 1) \in Nat /\ a = C * (blocks - 1) + C
  <2>1. blocks - 1 \in Nat
    OBVIOUS
  <2> QED BY <2>1, ProductNat
<1>2. a - n \in Nat
  BY <1>1
<1>3. d \in Nat /\ C * d \in Nat /\ C * d <= a - n /\ a - n < C * d + C
  BY <1>2, DivBounds
<1>4. BlocksFor(C, blocks, n) = IF e <= 0 THEN 1 ELSE e
  BY <1>1, <1>2 DEF BlocksFor
<1>5. C * e = a - C * d
  BY <1>3
<1>6. ~(2 <= e)
  <2>1. ASSUME 2 <= e PROVE FALSE
    <3>1. C * (e - 2) \in Nat
      BY <1>3, <2>1, ProductNat
    <3>2. C * e = C * (e - 2) + 2 * C
      BY <1>3
    <3>3. C * e < n + C
      BY <1>1, <1>3, <1>5
    <3> HIDE DEF a, d, e
    <3> QED BY <3>1, <3>2, <3>3
  <2> QED BY <2>1
<1>7. e \in Int
  BY <1>3
<1> HIDE DEF a, d, e
<1> QED BY <1>4, <1>6, <1>7

\* A quotient is what rounds down to it.
LEMMA DivIs ==
    ASSUME NEW C \in Nat \ {0}, NEW k \in Nat, NEW q \in Nat, C * q <= k, k < C * q + C
    PROVE  k \div C = q
<1> DEFINE d == k \div C
<1>1. d \in Nat /\ C * d <= k /\ k < C * d + C
  BY DivBounds
<1> HIDE DEF d
<1>2. ~(d < q)
  <2>1. ASSUME d < q PROVE FALSE
    <3>1. C * (q - d - 1) \in Nat
      BY <1>1, <2>1, ProductNat
    <3>2. C * q = C * (q - d - 1) + C * d + C
      BY <1>1
    <3> QED BY <1>1, <3>1, <3>2
  <2> QED BY <2>1
<1>3. ~(q < d)
  <2>1. ASSUME q < d PROVE FALSE
    <3>1. C * (d - q - 1) \in Nat
      BY <1>1, <2>1, ProductNat
    <3>2. C * d = C * (d - q - 1) + C * q + C
      BY <1>1
    <3> QED BY <1>1, <3>1, <3>2
  <2> QED BY <2>1
<1>4. d = q
  BY <1>1, <1>2, <1>3
<1> QED BY <1>4 DEF d

\* What the users of a buffer rely on when b has become c: the element is at the
\* end, in the memory allocated.
Grown(C, S, b, x, c) ==
    /\ c \in Buffers(S) /\ c.data = Append(b.data, x)
    /\ Len(Append(b.data, x)) <= C * c.block_count
    /\ b.moves <= c.moves

\* SABuffer_add gives it.
LEMMA GrownIs ==
    ASSUME NEW C \in Nat \ {0}, NEW S, NEW b \in Buffers(S), NEW x \in S,
           NEW c, c = Added(C, b, x)
    PROVE  Grown(C, S, b, x, c)
<1>1. b.data \in Seq(S) /\ b.block_count \in Nat \ {0} /\ b.moves \in Nat
  BY DEF Buffers
<1>2. Append(b.data, x) \in Seq(S) /\ Len(Append(b.data, x)) = Len(b.data) + 1
      /\ Len(b.data) + 1 \in Nat \ {0}
  BY <1>1, AppendProperties
<1> DEFINE k == BlocksFor(C, b.block_count, Len(b.data) + 1)
<1>3. k \in Nat \ {0} /\ Len(b.data) + 1 <= C * k
  BY <1>1, <1>2, BlocksHold
<1>4. c = [data |-> Append(b.data, x), block_count |-> k,
           moves |-> IF k = b.block_count THEN b.moves ELSE b.moves + 1]
  BY DEF Added
<1> HIDE DEF k
<1> QED BY <1>1, <1>2, <1>3, <1>4 DEF Buffers, Grown

\* The same of the new buffer itself.
LEMMA AddedOk ==
    ASSUME NEW C \in Nat \ {0}, NEW S, NEW b \in Buffers(S), NEW x \in S
    PROVE  /\ Added(C, b, x) \in Buffers(S)
           /\ Added(C, b, x).data = Append(b.data, x)
           /\ Len(Append(b.data, x)) <= C * Added(C, b, x).block_count
           /\ b.moves <= Added(C, b, x).moves
<1>1. Grown(C, S, b, x, Added(C, b, x))
  BY GrownIs
<1> QED BY <1>1 DEF Grown

\* k blocks of C are what n elements need, and one for none.
Tight(C, k, n) == n <= C * k /\ (k = 1 \/ C * (k - 1) < n)

\* What one more element does to the blocks: a full buffer gets one more, another
\* keeps what it has, and an empty one is cut down to one, whatever it had.
\* (Blocks of one element would grow by two.)
LEMMA NextBlocks ==
    ASSUME NEW C \in Nat \ {0, 1}, NEW blocks \in Nat \ {0}, NEW n \in Nat
    PROVE  /\ n = 0 => BlocksFor(C, blocks, n + 1) = 1
           /\ Tight(C, blocks, n) /\ n # 0 =>
                 BlocksFor(C, blocks, n + 1) =
                     IF n = C * blocks THEN blocks + 1 ELSE blocks
<1>1. ASSUME n = 0 PROVE BlocksFor(C, blocks, n + 1) = 1
  BY <1>1, OneBlock
<1>2. ASSUME Tight(C, blocks, n), n # 0
      PROVE  BlocksFor(C, blocks, n + 1) = IF n = C * blocks THEN blocks + 1 ELSE blocks
  <2> DEFINE a == C * blocks
  <2>1. a \in Nat /\ a = C * (blocks - 1) + C /\ C * (blocks - 1) \in Nat
    <3>1. blocks - 1 \in Nat
      OBVIOUS
    <3> QED BY <3>1, ProductNat
  <2>2. n <= a /\ a - C < n
    BY <1>2, <2>1 DEF Tight
  <2>3. CASE n = a
    <3>1. (n + 1) - a = 1 /\ a < n + 1
      BY <2>1, <2>3
    <3>2. 1 \div C = 0
      <4>1. C * 0 <= 1 /\ 1 < C * 0 + C
        OBVIOUS
      <4> QED BY <4>1, DivIs
    <3>3. BlocksFor(C, blocks, n + 1) = blocks + (1 \div C) + 1
      BY <3>1 DEF BlocksFor
    <3> QED BY <2>3, <3>2, <3>3
  <2>4. CASE n # a
    <3>1. a - (n + 1) \in Nat /\ a - (n + 1) < C /\ ~(a < n + 1)
      BY <2>1, <2>2, <2>4
    <3> DEFINE d == (a - (n + 1)) \div C
    <3>2. d = 0
      <4>1. C * 0 <= a - (n + 1) /\ a - (n + 1) < C * 0 + C
        BY <3>1
      <4> HIDE DEF a
      <4> QED BY <3>1, <4>1, DivIs
    <3>3. BlocksFor(C, blocks, n + 1) = IF blocks - d <= 0 THEN 1 ELSE blocks - d
      BY <3>1 DEF BlocksFor
    <3> HIDE DEF d, a
    <3>4. BlocksFor(C, blocks, n + 1) = blocks
      BY <3>2, <3>3
    <3> QED BY <2>4, <3>4 DEF a
  <2> QED BY <2>3, <2>4
<1> QED BY <1>1, <1>2

\* So the blocks stay what the elements need, also after a clear that left more.
LEMMA TightKept ==
    ASSUME NEW C \in Nat \ {0, 1}, NEW blocks \in Nat \ {0}, NEW n \in Nat,
           n # 0 => Tight(C, blocks, n)
    PROVE  Tight(C, BlocksFor(C, blocks, n + 1), n + 1)
<1> DEFINE k == BlocksFor(C, blocks, n + 1)
<1>1. /\ n = 0 => k = 1
      /\ Tight(C, blocks, n) /\ n # 0 => k = IF n = C * blocks THEN blocks + 1 ELSE blocks
  BY NextBlocks
<1>2. k \in Nat \ {0} /\ n + 1 <= C * k
  BY BlocksHold
<1> HIDE DEF k
<1>3. ASSUME n = 0 PROVE Tight(C, k, n + 1)
  BY <1>1, <1>2, <1>3 DEF Tight
<1>4. ASSUME n # 0, n = C * blocks PROVE Tight(C, k, n + 1)
  <2>1. k = blocks + 1
    BY <1>1, <1>4
  <2>2. C * (k - 1) < n + 1
    BY <1>4, <2>1
  <2> QED BY <1>2, <2>2 DEF Tight
<1>5. ASSUME n # 0, n # C * blocks PROVE Tight(C, k, n + 1)
  <2>1. k = blocks /\ (blocks = 1 \/ C * (blocks - 1) < n)
    BY <1>1, <1>5 DEF Tight
  <2>2. C * (blocks - 1) \in Nat
    <3>1. blocks - 1 \in Nat
      OBVIOUS
    <3> QED BY <3>1, ProductNat
  <2> HIDE DEF k
  <2>3. k = 1 \/ C * (k - 1) < n + 1
    BY <2>1, <2>2
  <2> QED BY <1>2, <2>3 DEF Tight
<1>6. Tight(C, k, n + 1)
  BY <1>3, <1>4, <1>5
<1> QED BY <1>6 DEF k

\* The blocks needed are one more than those before the last element's.
LEMMA TightDiv ==
    ASSUME NEW C \in Nat \ {0}, NEW k \in Nat \ {0}, NEW n \in Nat \ {0}, Tight(C, k, n)
    PROVE  (n - 1) \div C = k - 1
<1>1. k - 1 \in Nat /\ n - 1 \in Nat
  OBVIOUS
<1>2. C * (k - 1) \in Nat /\ C * k = C * (k - 1) + C
  BY <1>1, ProductNat
<1>3. k = 1 => C * (k - 1) = 0
  OBVIOUS
<1>4. C * (k - 1) <= n - 1 /\ n - 1 < C * (k - 1) + C
  BY <1>1, <1>2, <1>3 DEF Tight
<1> QED BY <1>1, <1>4, DivIs

\* Inserting behind the last element is appending.
LEMMA InsertLast ==
    ASSUME NEW S, NEW q \in Seq(S), NEW x \in S
    PROVE  SubSeq(q, 1, Len(q)) \o <<x>> \o SubSeq(q, Len(q) + 1, Len(q)) = Append(q, x)
<1>1. SubSeq(q, 1, Len(q)) = q
  OBVIOUS
<1>2. SubSeq(q, Len(q) + 1, Len(q)) = <<>>
  OBVIOUS
<1>3. q \o <<x>> = Append(q, x)
  OBVIOUS
<1>4. Append(q, x) \o <<>> = Append(q, x)
  OBVIOUS
<1> QED BY <1>1, <1>2, <1>3, <1>4

\* What realloc leaves of a buffer, given the blocks it chose.
Sized(c, k) == [c EXCEPT !.block_count = k,
                         !.moves = IF k = c.block_count THEN @ ELSE @ + 1]

\* Its fields.
LEMMA SizedIs ==
    ASSUME NEW a, NEW n, NEW m, NEW k, NEW c,
           c = [data |-> a, block_count |-> n, moves |-> m]
    PROVE  Sized(c, k) = [data |-> a, block_count |-> k,
                          moves |-> IF k = n THEN m ELSE m + 1]
<1>1. c.data = a /\ c.block_count = n /\ c.moves = m
  OBVIOUS
<1>2. PICK v : v = IF k = n THEN m ELSE m + 1
  OBVIOUS
<1>3. Sized(c, k) = [c EXCEPT !.block_count = k, !.moves = v]
  BY <1>1, <1>2 DEF Sized
<1> QED BY <1>2, <1>3

\* SABuffer_add, on the table and on the addresses of an entry.
LEMMA AddIs ==
    ASSUME NEW S, NEW b \in Buffers(S), NEW x \in S
    PROVE  /\ SB!add(b, x) = Added(ServiceBlock, b, x)
           /\ AB!add(b, x) = Added(AddrBlock, b, x)
           /\ TB!add(b, x) = Added(TokenBlock, b, x)
<1>1. b.data \in Seq(S) /\ Len(b.data) \in Nat
  BY DEF Buffers
<1> DEFINE c == [b EXCEPT !.data = SubSeq(@, 1, Len(b.data)) \o <<x>>
                                   \o SubSeq(@, Len(b.data) + 1, Len(@))]
           a == Append(b.data, x)
<1>2. a \in Seq(S) /\ Len(a) = Len(b.data) + 1
  BY <1>1, AppendProperties
<1>3. c = [data |-> a, block_count |-> b.block_count, moves |-> b.moves]
  <2> DEFINE d == SubSeq(b.data, 1, Len(b.data)) \o <<x>>
                  \o SubSeq(b.data, Len(b.data) + 1, Len(b.data))
  <2>1. d = a
    BY <1>1, InsertLast
  <2>2. c = [b EXCEPT !.data = d]
    OBVIOUS
  <2> HIDE DEF a, c, d
  <2> QED BY <2>1, <2>2 DEF Buffers
<1>4. /\ SB!add(b, x) = SB!realloc(c) /\ AB!add(b, x) = AB!realloc(c)
      /\ TB!add(b, x) = TB!realloc(c)
  BY <1>1 DEF SB!add, SB!add_stream, SB!insert_stream, AB!add, AB!add_stream, AB!insert_stream,
              TB!add, TB!add_stream, TB!insert_stream
<1> HIDE DEF a, c
<1>5. /\ SB!blocks_for(b.block_count, Len(b.data) + 1)
           = BlocksFor(ServiceBlock, b.block_count, Len(b.data) + 1)
      /\ AB!blocks_for(b.block_count, Len(b.data) + 1)
           = BlocksFor(AddrBlock, b.block_count, Len(b.data) + 1)
      /\ TB!blocks_for(b.block_count, Len(b.data) + 1)
           = BlocksFor(TokenBlock, b.block_count, Len(b.data) + 1)
  BY DEF SB!blocks_for, AB!blocks_for, TB!blocks_for, BlocksFor
<1>6. PICK k : k = BlocksFor(ServiceBlock, b.block_count, Len(b.data) + 1)
  OBVIOUS
<1>7. PICK l : l = BlocksFor(AddrBlock, b.block_count, Len(b.data) + 1)
  OBVIOUS
<1>12. PICK m : m = BlocksFor(TokenBlock, b.block_count, Len(b.data) + 1)
  OBVIOUS
<1>8. c.data = a /\ c.block_count = b.block_count /\ c.moves = b.moves
  BY <1>3
<1>9. SB!realloc(c) = Added(ServiceBlock, b, x)
  <2>1. SB!blocks_for(c.block_count, Len(c.data)) = k
    BY <1>2, <1>5, <1>6, <1>8
  <2>2. SB!realloc(c) = Sized(c, k)
    BY <2>1 DEF SB!realloc, Sized
  <2>3. Sized(c, k) = [data |-> a, block_count |-> k,
                      moves |-> IF k = b.block_count THEN b.moves ELSE b.moves + 1]
    BY <1>3, SizedIs
  <2> QED BY <2>2, <2>3, <1>6 DEF Added, a
<1>10. AB!realloc(c) = Added(AddrBlock, b, x)
  <2>1. AB!blocks_for(c.block_count, Len(c.data)) = l
    BY <1>2, <1>5, <1>7, <1>8
  <2>2. AB!realloc(c) = Sized(c, l)
    BY <2>1 DEF AB!realloc, Sized
  <2>3. Sized(c, l) = [data |-> a, block_count |-> l,
                      moves |-> IF l = b.block_count THEN b.moves ELSE b.moves + 1]
    BY <1>3, SizedIs
  <2> QED BY <2>2, <2>3, <1>7 DEF Added, a
<1>11. TB!realloc(c) = Added(TokenBlock, b, x)
  <2>1. TB!blocks_for(c.block_count, Len(c.data)) = m
    BY <1>2, <1>5, <1>12, <1>8
  <2>2. TB!realloc(c) = Sized(c, m)
    BY <2>1 DEF TB!realloc, Sized
  <2>3. Sized(c, m) = [data |-> a, block_count |-> m,
                      moves |-> IF m = b.block_count THEN b.moves ELSE b.moves + 1]
    BY <1>3, SizedIs
  <2> QED BY <2>2, <2>3, <1>12 DEF Added, a
<1> QED BY <1>4, <1>9, <1>10, <1>11

\* SABuffer_realloc leaves the elements where they are counted, with room for all.
LEMMA ReallocFits ==
    ASSUME NEW S, NEW b \in Buffers(S)
    PROVE  /\ SB!realloc(b) \in Buffers(S) /\ SB!realloc(b).data = b.data
           /\ SB!Fits(SB!realloc(b)) /\ b.moves <= SB!realloc(b).moves
<1> DEFINE n == Len(b.data)
           k == BlocksFor(ServiceBlock, b.block_count, n)
<1>0. ServiceBlock \in Nat \ {0}
  BY TableAssumption
<1>1. /\ b.data \in Seq(S) /\ b.block_count \in Nat \ {0} /\ b.moves \in Nat /\ n \in Nat
  BY DEF Buffers
<1>2. k \in Nat \ {0} /\ n <= ServiceBlock * k
  <2>1. CASE n = 0
    <3>1. /\ ServiceBlock * b.block_count \in Nat
          /\ ~(ServiceBlock * b.block_count < 0)
      BY <1>0, <1>1, ProductNat
    <3> DEFINE d == (ServiceBlock * b.block_count - n) \div ServiceBlock
               e == b.block_count - d
    <3>2. d \in Nat
      <4>1. ServiceBlock * b.block_count - n \in Nat
        BY <2>1, <3>1
      <4> HIDE DEF n
      <4> QED BY <1>0, <4>1, DivBounds
    <3>3. k = IF e <= 0 THEN 1 ELSE e
      BY <2>1, <3>1 DEF BlocksFor
    <3>4. k \in Nat \ {0}
      <4> HIDE DEF d
      <4> QED BY <1>1, <3>2, <3>3
    <3>5. ServiceBlock * k \in Nat
      <4> HIDE DEF k
      <4> QED BY <1>0, <3>4, ProductNat
    <3> HIDE DEF k
    <3> QED BY <2>1, <3>4, <3>5
  <2>2. CASE n # 0
    <3>1. n \in Nat \ {0}
      BY <1>1, <2>2
    <3> HIDE DEF n
    <3> QED BY <1>0, <1>1, <3>1, BlocksHold
  <2> QED BY <2>1, <2>2
<1>3. SB!realloc(b) = [b EXCEPT !.block_count = k,
                                !.moves = IF k = b.block_count THEN b.moves ELSE b.moves + 1]
  BY DEF SB!realloc, SB!blocks_for, BlocksFor
<1> HIDE DEF k
<1>4. SB!realloc(b) = [data |-> b.data, block_count |-> k,
                       moves |-> IF k = b.block_count THEN b.moves ELSE b.moves + 1]
  BY <1>3 DEF Buffers
<1> QED BY <1>1, <1>2, <1>4 DEF Buffers, SB!Fits, SB!allocating_count

\* Whatever is done to a buffer that fits, with any index and any count: it stays
\* a buffer of its elements and within the blocks allocated for it; what is
\* out of range changes nothing (SABuffer_insert_stream, SABuffer_remove_stream,
\* SABuffer_add, SABuffer_replace, SABuffer_clear).
THEOREM BuffersFit ==
    ASSUME NEW S, NEW b \in Buffers(S), SB!Fits(b),
           NEW s \in Seq(S), NEW x \in S, NEW index \in Nat, NEW count \in Nat
    PROVE  \A c \in {SB!insert_stream(b, index, s), SB!add_stream(b, s), SB!add(b, x),
                     SB!remove_stream(b, index, count), SB!replace(b, index, x), SB!clear(b)} :
              c \in Buffers(S) /\ SB!Fits(c) /\ b.moves <= c.moves
<1>0. ServiceBlock \in Nat \ {0}
  BY TableAssumption
<1>1. /\ b.data \in Seq(S) /\ b.block_count \in Nat \ {0} /\ b.moves \in Nat
      /\ Len(b.data) \in Nat
  BY DEF Buffers
<1>2. ASSUME NEW d \in Seq(S)
      PROVE  /\ [b EXCEPT !.data = d] \in Buffers(S) /\ [b EXCEPT !.data = d].data = d
             /\ [b EXCEPT !.data = d].moves = b.moves
             /\ [b EXCEPT !.data = d].block_count = b.block_count
  BY DEF Buffers
<1>3. ASSUME NEW d \in Seq(S)
      PROVE  LET c == SB!realloc([b EXCEPT !.data = d])
             IN  c \in Buffers(S) /\ SB!Fits(c) /\ b.moves <= c.moves
  <2> DEFINE e == [b EXCEPT !.data = d]
  <2>1. e \in Buffers(S) /\ e.moves = b.moves
    BY <1>2
  <2> HIDE DEF e
  <2>2. SB!realloc(e) \in Buffers(S) /\ SB!Fits(SB!realloc(e)) /\ e.moves <= SB!realloc(e).moves
    BY <2>1, ReallocFits
  <2> QED BY <2>1, <2>2 DEF e
<1>4. ASSUME NEW i \in Nat, NEW t \in Seq(S)
      PROVE  LET c == SB!insert_stream(b, i, t)
             IN  c \in Buffers(S) /\ SB!Fits(c) /\ b.moves <= c.moves
  <2>1. CASE Len(b.data) < i
    BY <1>1, <2>1 DEF SB!insert_stream
  <2>2. CASE ~(Len(b.data) < i)
    <3> DEFINE d == SubSeq(b.data, 1, i) \o t \o SubSeq(b.data, i + 1, Len(b.data))
    <3>1. SubSeq(b.data, 1, i) \in Seq(S) /\ SubSeq(b.data, i + 1, Len(b.data)) \in Seq(S)
      <4>1. \A j \in 1 .. i : j \in 1 .. Len(b.data)
        BY <1>1, <2>2
      <4>2. \A j \in i + 1 .. Len(b.data) : j \in 1 .. Len(b.data)
        BY <1>1, <2>2
      <4> QED BY <1>1, <4>1, <4>2
    <3>2. d \in Seq(S)
      BY <3>1
    <3>3. SB!insert_stream(b, i, t) = SB!realloc([b EXCEPT !.data = d])
      BY <2>2 DEF SB!insert_stream
    <3> HIDE DEF d
    <3> QED BY <1>3, <3>2, <3>3
  <2> QED BY <2>1, <2>2
<1>5. LET c == SB!remove_stream(b, index, count)
      IN  c \in Buffers(S) /\ SB!Fits(c) /\ b.moves <= c.moves
  <2>1. CASE Len(b.data) < index + count
    BY <1>1, <2>1 DEF SB!remove_stream
  <2>2. CASE ~(Len(b.data) < index + count)
    <3> DEFINE d == SubSeq(b.data, 1, index) \o SubSeq(b.data, index + count + 1, Len(b.data))
    <3>1. /\ SubSeq(b.data, 1, index) \in Seq(S)
          /\ SubSeq(b.data, index + count + 1, Len(b.data)) \in Seq(S)
      <4>1. \A j \in 1 .. index : j \in 1 .. Len(b.data)
        BY <1>1, <2>2
      <4>2. \A j \in index + count + 1 .. Len(b.data) : j \in 1 .. Len(b.data)
        BY <1>1, <2>2
      <4> QED BY <1>1, <4>1, <4>2
    <3>2. d \in Seq(S)
      BY <3>1
    <3>3. SB!remove_stream(b, index, count) = SB!realloc([b EXCEPT !.data = d])
      BY <2>2 DEF SB!remove_stream
    <3> HIDE DEF d
    <3> QED BY <1>3, <3>2, <3>3
  <2> QED BY <2>1, <2>2
<1>6. LET c == SB!replace(b, index, x)
      IN  c \in Buffers(S) /\ SB!Fits(c) /\ b.moves <= c.moves
  <2>1. CASE Len(b.data) < index + 1
    BY <1>1, <2>1 DEF SB!replace
  <2>2. CASE ~(Len(b.data) < index + 1)
    <3> DEFINE d == [b.data EXCEPT ![index + 1] = x]
    <3>1. d \in Seq(S) /\ Len(d) = Len(b.data)
      BY <1>1, <2>2
    <3>2. SB!replace(b, index, x) = [b EXCEPT !.data = d]
      BY <2>2 DEF SB!replace
    <3> HIDE DEF d
    <3> QED BY <1>1, <1>2, <3>1, <3>2 DEF SB!Fits, SB!allocating_count
  <2> QED BY <2>1, <2>2
<1>7. LET c == SB!clear(b)
      IN  c \in Buffers(S) /\ SB!Fits(c) /\ b.moves <= c.moves
  <2>1. <<>> \in Seq(S) /\ Len(<<>>) = 0 /\ ServiceBlock * b.block_count \in Nat
    BY <1>0, <1>1, ProductNat
  <2>2. SB!clear(b) = [b EXCEPT !.data = <<>>]
    BY DEF SB!clear
  <2>3. PICK d \in Seq(S) : d = <<>>
    BY <2>1
  <2>4. Len(d) = 0
    BY <2>1, <2>3
  <2>5. SB!clear(b) = [b EXCEPT !.data = d]
    BY <2>2, <2>3
  <2> DEFINE e == [b EXCEPT !.data = d]
  <2>6. e \in Buffers(S) /\ e.data = d /\ e.moves = b.moves /\ e.block_count = b.block_count
    BY <1>2
  <2> HIDE DEF e
  <2>7. SB!clear(b) = e
    BY <2>5 DEF e
  <2>8. /\ SB!clear(b) \in Buffers(S) /\ SB!clear(b).data = d
        /\ SB!clear(b).moves = b.moves /\ SB!clear(b).block_count = b.block_count
    BY <2>7, <2>6
  <2>9. 0 <= ServiceBlock * b.block_count
    BY <2>1
  <2> QED BY <1>1, <2>4, <2>8, <2>9 DEF SB!Fits, SB!allocating_count
<1>8. <<x>> \in Seq(S)
  OBVIOUS
<1>9. /\ SB!add_stream(b, s) = SB!insert_stream(b, Len(b.data), s)
      /\ SB!add(b, x) = SB!insert_stream(b, Len(b.data), <<x>>)
  BY DEF SB!add, SB!add_stream
<1>10. /\ SB!add_stream(b, s) \in Buffers(S) /\ SB!Fits(SB!add_stream(b, s))
       /\ b.moves <= SB!add_stream(b, s).moves
       /\ SB!add(b, x) \in Buffers(S) /\ SB!Fits(SB!add(b, x))
       /\ b.moves <= SB!add(b, x).moves
  BY <1>1, <1>4, <1>8, <1>9
<1> QED BY <1>4, <1>5, <1>6, <1>7, <1>10

-----------------------------------------------------------------------------
\* What the first element of a set of positions is.
LEMMA FirstIs ==
    ASSUME NEW T, T \subseteq Nat, T # {}
    PROVE  First(T) \in T /\ \A j \in T : First(T) <= j
BY LeastNat DEF First

\* How far a search for a character goes.
LEMMA FindIs ==
    ASSUME NEW text \in Seq(Chars), NEW c, NEW from \in 1 .. Len(text) + 1
    PROVE  /\ Find(text, c, from) \in from .. Len(text) + 1
           /\ (\E i \in from .. Len(text) : text[i] = c) => Find(text, c, from) <= Len(text)
<1> DEFINE T == {i \in from .. Len(text) + 1 : i = Len(text) + 1 \/ text[i] = c}
<1>1. Len(text) \in Nat
  OBVIOUS
<1>2. T \subseteq Nat /\ Len(text) + 1 \in T
  BY <1>1
<1>3. PICK k \in T : \A j \in T : k <= j
  BY <1>2, LeastNat
<1>4. \A j \in from .. k - 1 : text[j] # c
  BY <1>1, <1>3
<1>5. \E i \in from .. Len(text) + 1 :
         /\ i = Len(text) + 1 \/ text[i] = c
         /\ \A j \in from .. i - 1 : text[j] # c
  BY <1>3, <1>4
<1> DEFINE f == Find(text, c, from)
<1>6. /\ f \in from .. Len(text) + 1
      /\ f = Len(text) + 1 \/ text[f] = c
      /\ \A j \in from .. f - 1 : text[j] # c
  BY <1>5 DEF Find
<1> HIDE DEF f
<1>7. ASSUME NEW i \in from .. Len(text), text[i] = c PROVE f <= Len(text)
  BY <1>1, <1>6, <1>7
<1> QED BY <1>6, <1>7 DEF f

Texts == Seq(Chars)
Keys == Texts \X Texts

\* A name that went through "name(type)" is two texts again.
LEMMA KeyIs ==
    ASSUME NEW s \in Servers
    PROVE  Key(s) \in Keys
<1>1. s.name \in Texts /\ s.type \in Texts /\ "(" \in Chars /\ ")" \in Chars
  BY TableAssumption DEF Texts
<1> DEFINE h == s.name \o <<"(">>
           m == h \o s.type
           t == m \o <<")">>
<1>2. /\ h \in Texts /\ Len(h) = Len(s.name) + 1 /\ h[Len(h)] = "("
  BY <1>1 DEF Texts
<1>h. h \in Texts
  BY <1>2
<1>l. Len(s.name) \in Nat
  BY <1>1 DEF Texts
<1> HIDE DEF h
<1>3. m \in Texts /\ Len(m) = Len(h) + Len(s.type) /\ Len(h) \in Nat /\ Len(s.type) \in Nat
      /\ \A i \in 1 .. Len(h) : m[i] = h[i]
  BY <1>1, <1>h DEF Texts
<1>m. m \in Texts
  BY <1>3
<1> HIDE DEF m
<1>4. t \in Texts /\ Len(t) = Len(m) + 1 /\ \A i \in 1 .. Len(m) : t[i] = m[i]
  BY <1>1, <1>m DEF Texts
<1>5. regist_name(s) = t
  BY DEF regist_name, t, m, h
<1>t. t \in Texts /\ Len(t) \in Nat
  BY <1>4 DEF Texts
<1> HIDE DEF t
<1>6. t[Len(h)] = "(" /\ Len(h) \in 1 .. Len(t)
  <2>1. Len(h) \in 1 .. Len(h)
    BY <1>2, <1>3, <1>l
  <2>2. Len(h) \in 1 .. Len(m)
    BY <1>3, <2>1
  <2>3. t[Len(h)] = m[Len(h)]
    BY <1>4, <2>2
  <2>4. m[Len(h)] = h[Len(h)]
    BY <1>3, <2>1
  <2>5. Len(h) \in 1 .. Len(t)
    BY <1>3, <1>4, <2>1
  <2> QED BY <1>2, <2>3, <2>4, <2>5
<1> DEFINE open == Find(t, "(", 1)
           close == Find(t, ")", open + 1)
<1>7. open \in 1 .. Len(t)
  <2>1. 1 \in 1 .. Len(t) + 1 /\ t \in Seq(Chars)
    BY <1>t DEF Texts
  <2>2. open \in 1 .. Len(t) + 1 /\ open <= Len(t)
    BY <1>6, <2>1, FindIs
  <2> QED BY <1>t, <2>2
<1> HIDE DEF open
<1>8. close \in open + 1 .. Len(t) + 1
  <2>1. open + 1 \in 1 .. Len(t) + 1 /\ t \in Seq(Chars)
    BY <1>7, <1>t DEF Texts
  <2> QED BY <2>1, FindIs
<1> HIDE DEF close
<1>9. SubSeq(t, open + 1, close - 1) \in Texts
  <2>1. \A i \in open + 1 .. close - 1 : i \in 1 .. Len(t)
    BY <1>7, <1>8, <1>t
  <2> QED BY <1>7, <1>8, <1>t, <2>1 DEF Texts
<1>10. SubSeq(t, 1, open - 1) \in Texts
  <2>1. \A i \in 1 .. open - 1 : i \in 1 .. Len(t)
    BY <1>7, <1>t
  <2> QED BY <1>7, <1>t, <2>1 DEF Texts
<1> QED BY <1>5, <1>9, <1>10 DEF Key, Split, Keys, open, close

\* A text begins with itself.
LEMMA BeginsSelf ==
    ASSUME NEW a \in Texts
    PROVE  Begins(a, a)
BY DEF Begins, Texts

-----------------------------------------------------------------------------
(***************************************************************************)
(* What the table says of each address, and how one event changes it       *)
(***************************************************************************)
AddrRecs == [addr : Addrs, is_active : BOOLEAN]
EntryRecs == [service : Texts, name : Texts, addrs : Buffers(AddrRecs)]

\* A table with room for its entries and their addresses, of as many blocks as
\* the entries need, which has moved each time they outgrew one.
TableOk(t) ==
    /\ t \in Buffers(EntryRecs) /\ SB!Fits(t)
    /\ \A i \in 1 .. Len(t.data) : AB!Fits(t.data[i].addrs)
    /\ Tight(ServiceBlock, t.block_count, Len(t.data)) /\ t.moves = t.block_count - 1

\* Address a is the j-th of entry i; whether it is active.
At(t, a, i, j) ==
    /\ i \in 1 .. Len(t.data) /\ j \in 1 .. Len(t.data[i].addrs.data)
    /\ t.data[i].addrs.data[j].addr = a
Act(t, i, j) == t.data[i].addrs.data[j].is_active

\* TracksEvents, of any table and any record of events.
Tracks(t, told_of) ==
    \A s \in Servers :
        /\ \A i, j \in Nat : At(t, s.addr, i, j) =>
              i = search_nolock(t, Key(s)) /\ (Act(t, i, j) <=> told_of[s] = "add")
        /\ \A i, j, k, l \in Nat :
              At(t, s.addr, i, j) /\ At(t, s.addr, k, l) => i = k /\ j = l
        /\ told_of[s] = "add" => \E i, j \in Nat : At(t, s.addr, i, j)

\* The entries of t stay where they are.
KeysKept(t, u) ==
    /\ Len(t.data) <= Len(u.data)
    /\ \A i \in 1 .. Len(t.data) :
          u.data[i].service = t.data[i].service /\ u.data[i].name = t.data[i].name

\* What u has beyond the entries of t has the name and type of s.
Named(t, u, s) ==
    \A i \in 1 .. Len(u.data) :
        \/ i \in 1 .. Len(t.data)
        \/ u.data[i].service = Key(s)[1] /\ u.data[i].name = Key(s)[2]

\* Every entry has the name and type of a server the table was told of.
Known(t, told_of) ==
    \A i \in 1 .. Len(t.data) :
        \E e \in Servers : /\ told_of[e] # "none"
                           /\ t.data[i].service = Key(e)[1] /\ t.data[i].name = Key(e)[2]

\* What a search finds.
SearchIs(t, key, i) ==
    \/ i = 0 /\ \A j \in 1 .. Len(t.data) : ~Matches(t.data[j], key)
    \/ /\ i \in 1 .. Len(t.data) /\ Matches(t.data[i], key)
       /\ \A j \in 1 .. i - 1 : ~Matches(t.data[j], key)

\* PCTable_search_nolock finds the first match.
LEMMA SearchFinds ==
    ASSUME NEW t \in Buffers(EntryRecs), NEW key
    PROVE  SearchIs(t, key, search_nolock(t, key))
<1> DEFINE hits == {i \in 1 .. Len(t.data) : Matches(t.data[i], key)}
<1>1. Len(t.data) \in Nat
  BY DEF Buffers
<1>2. search_nolock(t, key) = IF hits = {} THEN 0 ELSE First(hits)
  BY DEF search_nolock
<1>3. CASE hits = {}
  BY <1>2, <1>3 DEF SearchIs
<1>4. CASE hits # {}
  <2>1. hits \subseteq Nat
    BY <1>1
  <2>2. First(hits) \in hits /\ \A j \in hits : First(hits) <= j
    <3> HIDE DEF hits
    <3> QED BY <1>4, <2>1, FirstIs
  <2>3. \A j \in 1 .. First(hits) - 1 : ~Matches(t.data[j], key)
    BY <1>1, <2>2
  <2> QED BY <1>2, <1>4, <2>2, <2>3 DEF SearchIs
<1> QED BY <1>3, <1>4

\* There is only one such entry.
LEMMA SearchOne ==
    ASSUME NEW t \in Buffers(EntryRecs), NEW key, NEW i, SearchIs(t, key, i)
    PROVE  search_nolock(t, key) = i
<1>1. SearchIs(t, key, search_nolock(t, key))
  BY SearchFinds
<1> DEFINE k == search_nolock(t, key)
<1> HIDE DEF k
<1>2. SearchIs(t, key, k)
  BY <1>1 DEF k
<1>3. Len(t.data) \in Nat
  BY DEF Buffers
<1>4. k = i
  BY <1>2, <1>3 DEF SearchIs
<1> QED BY <1>4 DEF k

\* What was found is found again while the entries stay.
LEMMA SearchKept ==
    ASSUME NEW t \in Buffers(EntryRecs), NEW u \in Buffers(EntryRecs), KeysKept(t, u), NEW key,
           search_nolock(t, key) # 0
    PROVE  /\ search_nolock(u, key) = search_nolock(t, key)
           /\ search_nolock(t, key) \in 1 .. Len(t.data)
<1>1. PICK k : k = search_nolock(t, key)
  OBVIOUS
<1>2. SearchIs(t, key, k) /\ k # 0
  BY <1>1, SearchFinds
<1>3. Len(t.data) \in Nat /\ Len(u.data) \in Nat
  BY DEF Buffers
<1>4. \A j \in 1 .. Len(t.data) : Matches(u.data[j], key) <=> Matches(t.data[j], key)
  BY DEF KeysKept, Matches
<1>5. k \in 1 .. Len(t.data) /\ k \in 1 .. Len(u.data) /\ \A j \in 1 .. k - 1 : j \in 1 .. Len(t.data)
  BY <1>2, <1>3 DEF SearchIs, KeysKept
<1>6. SearchIs(u, key, k)
  BY <1>2, <1>4, <1>5 DEF SearchIs
<1> QED BY <1>1, <1>5, <1>6, SearchOne

\* A change of the table that concerns the address of server s only: it is the
\* m-th of entry k afterwards, and active if v is the event "add".
Touches(t, u, s, v, k, m) ==
    /\ \A a \in Addrs, i, j \in Nat : At(t, a, i, j) => At(u, a, i, j)
    /\ \A a \in Addrs, i, j \in Nat :
          At(u, a, i, j) => At(t, a, i, j) \/ (a = s.addr /\ i = k /\ j = m)
    /\ \A a \in Addrs, i, j \in Nat :
          At(t, a, i, j) /\ a # s.addr => Act(u, i, j) = Act(t, i, j)
    /\ At(u, s.addr, k, m) /\ k = search_nolock(u, Key(s))
    /\ Act(u, k, m) <=> v = "add"
    /\ \A i, j \in Nat : At(t, s.addr, i, j) => i = k /\ j = m

\* After such a change the table says of every server what it was told last.
LEMMA TracksStep ==
    ASSUME NEW t \in Buffers(EntryRecs), NEW u \in Buffers(EntryRecs), KeysKept(t, u),
           NEW f \in [Servers -> {"none", "add", "remove"}], Tracks(t, f),
           NEW s \in Servers, NEW v \in {"add", "remove"}, NEW i0 \in Nat, NEW j0 \in Nat,
           Touches(t, u, s, v, i0, j0)
    PROVE  Tracks(u, [f EXCEPT ![s] = v])
<1> USE DEF Touches
<1> DEFINE g == [f EXCEPT ![s] = v]
<1>1. g[s] = v /\ \A r \in Servers : r # s => g[r] = f[r]
  OBVIOUS
<1>2. \A r \in Servers : r.addr \in Addrs /\ (r.addr = s.addr => r = s)
  BY TableAssumption DEF Addrs
<1> HIDE DEF g
<1>3. /\ \A i, j \in Nat : At(u, s.addr, i, j) => i = i0 /\ j = j0
      /\ g[s] = "add" => \E i, j \in Nat : At(u, s.addr, i, j)
      /\ \A i, j \in Nat : At(u, s.addr, i, j) =>
            i = search_nolock(u, Key(s)) /\ (Act(u, i, j) <=> g[s] = "add")
  BY <1>1, <1>2
<1>4. ASSUME NEW r \in Servers, r # s
      PROVE  /\ \A i, j \in Nat : At(u, r.addr, i, j) => At(t, r.addr, i, j)
             /\ \A i, j \in Nat : At(u, r.addr, i, j) =>
                   i = search_nolock(u, Key(r)) /\ (Act(u, i, j) <=> g[r] = "add")
             /\ g[r] = "add" => \E i, j \in Nat : At(u, r.addr, i, j)
  <2>1. r.addr \in Addrs /\ r.addr # s.addr
    BY <1>2, <1>4
  <2>2. \A i, j \in Nat : At(u, r.addr, i, j) => At(t, r.addr, i, j)
    BY <2>1
  <2>3. ASSUME NEW i \in Nat, NEW j \in Nat, At(u, r.addr, i, j)
        PROVE  i = search_nolock(u, Key(r)) /\ (Act(u, i, j) <=> g[r] = "add")
    <3>1. At(t, r.addr, i, j)
      BY <2>2, <2>3
    <3>2. i = search_nolock(t, Key(r)) /\ (Act(t, i, j) <=> f[r] = "add")
      BY <3>1 DEF Tracks
    <3>3. search_nolock(t, Key(r)) # 0
      <4>1. i \in 1 .. Len(t.data)
        BY <3>1 DEF At
      <4>2. i # 0
        BY <4>1
      <4> QED BY <3>2, <4>2
    <3>4. search_nolock(u, Key(r)) = search_nolock(t, Key(r))
      BY <3>3, SearchKept
    <3>5. Act(u, i, j) = Act(t, i, j)
      BY <2>1, <3>1
    <3> QED BY <1>1, <1>4, <3>2, <3>4, <3>5
  <2>4. g[r] = "add" => \E i, j \in Nat : At(u, r.addr, i, j)
    BY <1>1, <1>4, <2>1 DEF Tracks
  <2> QED BY <2>2, <2>3, <2>4
<1>5. ASSUME NEW r \in Servers
      PROVE  /\ \A i, j \in Nat : At(u, r.addr, i, j) =>
                   i = search_nolock(u, Key(r)) /\ (Act(u, i, j) <=> g[r] = "add")
             /\ \A i, j, k, l \in Nat :
                   At(u, r.addr, i, j) /\ At(u, r.addr, k, l) => i = k /\ j = l
             /\ g[r] = "add" => \E i, j \in Nat : At(u, r.addr, i, j)
  <2>1. CASE r = s
    BY <1>3, <2>1
  <2>2. CASE r # s
    <3>1. \A i, j, k, l \in Nat : At(t, r.addr, i, j) /\ At(t, r.addr, k, l) => i = k /\ j = l
      BY DEF Tracks
    <3> QED BY <1>4, <2>2, <3>1
  <2> QED BY <2>1, <2>2
<1>6. Tracks(u, g)
  BY <1>5 DEF Tracks
<1> QED BY <1>6 DEF g

\* The addresses of entry i are replaced by those of n.
Replaced(t, i, n) == [t EXCEPT !.data[i].addrs = n]

\* That keeps the table sound, its entries in place and all others as they are.
LEMMA ReplacedOk ==
    ASSUME NEW t, TableOk(t), NEW i \in 1 .. Len(t.data), NEW n \in Buffers(AddrRecs), AB!Fits(n)
    PROVE  /\ TableOk(Replaced(t, i, n)) /\ KeysKept(t, Replaced(t, i, n))
           /\ Replaced(t, i, n).moves = t.moves
           /\ Len(Replaced(t, i, n).data) = Len(t.data)
           /\ Replaced(t, i, n).data[i].addrs = n
           /\ \A k \in 1 .. Len(t.data) : k # i => Replaced(t, i, n).data[k] = t.data[k]
<1> DEFINE e == [t.data[i] EXCEPT !.addrs = n]
           d == [t.data EXCEPT ![i] = e]
           u == [t EXCEPT !.data = d]
<1>1. /\ t \in Buffers(EntryRecs) /\ t.data \in Seq(EntryRecs) /\ t.data[i] \in EntryRecs
      /\ Len(t.data) \in Nat
  BY DEF TableOk, Buffers
<1>2. Replaced(t, i, n) = u
  BY DEF Replaced
<1>3. /\ e \in EntryRecs /\ e.addrs = n
      /\ e.service = t.data[i].service /\ e.name = t.data[i].name
  BY <1>1 DEF EntryRecs
<1> HIDE DEF e
<1>4. /\ d \in Seq(EntryRecs) /\ Len(d) = Len(t.data) /\ d[i] = e
      /\ \A k \in 1 .. Len(t.data) : k # i => d[k] = t.data[k]
  BY <1>1, <1>3
<1> HIDE DEF d
<1>5. u \in Buffers(EntryRecs) /\ u.data = d /\ u.block_count = t.block_count /\ u.moves = t.moves
  BY <1>1, <1>4 DEF Buffers
<1> HIDE DEF u
<1>6. KeysKept(t, u)
  BY <1>1, <1>3, <1>4, <1>5 DEF KeysKept
<1>7. \A k \in 1 .. Len(u.data) : AB!Fits(u.data[k].addrs)
  BY <1>3, <1>4, <1>5 DEF TableOk
<1>8. /\ SB!Fits(u) /\ Tight(ServiceBlock, u.block_count, Len(u.data))
      /\ u.moves = u.block_count - 1
  BY <1>4, <1>5 DEF TableOk, SB!Fits, SB!allocating_count
<1>9. TableOk(u)
  BY <1>5, <1>7, <1>8 DEF TableOk
<1> QED BY <1>2, <1>3, <1>4, <1>5, <1>6, <1>9

\* A new entry for server s, which no search found.
LEMMA NewEntry ==
    ASSUME NEW t, TableOk(t), NEW f \in [Servers -> {"none", "add", "remove"}], Tracks(t, f),
           NEW s \in Servers, search_nolock(t, Key(s)) = 0,
           NEW u, u = SB!add(t, [service |-> Key(s)[1], name |-> Key(s)[2],
                                 addrs |-> AB!add(AB!create, Active(s.addr))])
    PROVE  /\ TableOk(u) /\ KeysKept(t, u) /\ t.moves <= u.moves
           /\ Tracks(u, [f EXCEPT ![s] = "add"]) /\ Named(t, u, s)
<1> DEFINE b == AB!add(AB!create, Active(s.addr))
           e == [service |-> Key(s)[1], name |-> Key(s)[2], addrs |-> b]
           n == Len(t.data)
<1>0. s.addr \in Addrs /\ AddrBlock \in Nat \ {0} /\ ServiceBlock \in Nat \ {0, 1}
  BY TableAssumption DEF Addrs
<1>1. /\ b \in Buffers(AddrRecs) /\ b.data = <<Active(s.addr)>> /\ AB!Fits(b)
  <2>1. AB!create \in Buffers(AddrRecs) /\ AB!create.data = <<>>
    BY DEF AB!create, Buffers
  <2>2. Active(s.addr) \in AddrRecs
    BY <1>0 DEF Active, AddrRecs
  <2>3. b = Added(AddrBlock, AB!create, Active(s.addr))
    BY <2>1, <2>2, AddIs
  <2> DEFINE c == AB!create
             x == Active(s.addr)
  <2> HIDE DEF c, x
  <2>4. c \in Buffers(AddrRecs) /\ x \in AddrRecs
    BY <2>1, <2>2 DEF c, x
  <2>5. /\ Added(AddrBlock, c, x) \in Buffers(AddrRecs)
        /\ Added(AddrBlock, c, x).data = Append(c.data, x)
        /\ Len(Append(c.data, x)) <= AddrBlock * Added(AddrBlock, c, x).block_count
    BY <1>0, <2>4, AddedOk
  <2>6. Append(<<>>, x) = <<x>>
    OBVIOUS
  <2> QED BY <2>1, <2>3, <2>5, <2>6 DEF AB!Fits, AB!allocating_count, c, x
<1>2. e \in EntryRecs /\ e.addrs = b /\ e.service = Key(s)[1] /\ e.name = Key(s)[2]
  BY <1>1, KeyIs DEF EntryRecs, Keys
<1>t. t \in Buffers(EntryRecs) /\ t.data \in Seq(EntryRecs) /\ n \in Nat
  BY DEF TableOk, Buffers
<1>u. u = SB!add(t, e)
  OBVIOUS
<1> HIDE DEF e, b
<1>3. u = Added(ServiceBlock, t, e)
  BY <1>2, <1>t, <1>u, AddIs
<1>4. /\ u \in Buffers(EntryRecs) /\ u.data = Append(t.data, e)
      /\ Len(Append(t.data, e)) <= ServiceBlock * u.block_count
      /\ t.moves <= u.moves
  <2>1. t \in Buffers(EntryRecs) /\ e \in EntryRecs /\ ServiceBlock \in Nat \ {0}
    BY <1>0, <1>2, <1>t
  <2>2. /\ Added(ServiceBlock, t, e) \in Buffers(EntryRecs)
        /\ Added(ServiceBlock, t, e).data = Append(t.data, e)
        /\ Len(Append(t.data, e)) <= ServiceBlock * Added(ServiceBlock, t, e).block_count
        /\ t.moves <= Added(ServiceBlock, t, e).moves
    BY <2>1, AddedOk
  <2> QED BY <1>3, <2>2
<1>5. /\ Len(u.data) = n + 1 /\ u.data[n + 1] = e
      /\ \A i \in 1 .. n : u.data[i] = t.data[i]
  <2>1. t.data \in Seq(EntryRecs) /\ e \in EntryRecs /\ n = Len(t.data)
    BY <1>2, <1>t
  <2> HIDE DEF n, e
  <2> QED BY <1>4, <2>1, AppendProperties
<1>6. TableOk(u)
  <2>1. SB!Fits(u)
    BY <1>4 DEF SB!Fits, SB!allocating_count
  <2>2. \A i \in 1 .. Len(u.data) : AB!Fits(u.data[i].addrs)
    BY <1>1, <1>2, <1>5, <1>t DEF TableOk
  <2>3. Tight(ServiceBlock, u.block_count, Len(u.data)) /\ u.moves = u.block_count - 1
    <3> DEFINE k == BlocksFor(ServiceBlock, t.block_count, n + 1)
    <3>1. u.block_count = k /\ u.moves = IF k = t.block_count THEN t.moves ELSE t.moves + 1
      BY <1>3 DEF Added
    <3>2. /\ Tight(ServiceBlock, t.block_count, n) /\ t.moves = t.block_count - 1
          /\ t.block_count \in Nat \ {0}
      BY <1>t DEF TableOk, Buffers
    <3> HIDE DEF n
    <3>3. Tight(ServiceBlock, k, n + 1)
      BY <1>0, <1>t, <3>2, TightKept
    <3>4. /\ n = 0 => k = 1
          /\ n # 0 => k = IF n = ServiceBlock * t.block_count
                          THEN t.block_count + 1 ELSE t.block_count
      <4>1. PICK c : c = t.block_count
        OBVIOUS
      <4>2. c \in Nat \ {0} /\ Tight(ServiceBlock, c, n)
        BY <3>2, <4>1
      <4>3. /\ n = 0 => BlocksFor(ServiceBlock, c, n + 1) = 1
            /\ n # 0 => BlocksFor(ServiceBlock, c, n + 1) =
                           IF n = ServiceBlock * c THEN c + 1 ELSE c
        BY <1>0, <1>t, <4>2, NextBlocks
      <4> QED BY <4>1, <4>3
    <3>5. n = 0 => t.block_count = 1
      <4>1. ServiceBlock * (t.block_count - 1) \in Nat
        <5>1. t.block_count - 1 \in Nat
          BY <3>2
        <5> QED BY <1>0, <5>1, ProductNat
      <4> QED BY <3>2, <4>1 DEF Tight
    <3> HIDE DEF k
    <3>6. k = t.block_count \/ k = t.block_count + 1
      BY <3>4, <3>5
    <3>7. u.moves = u.block_count - 1
      BY <3>1, <3>2, <3>6
    <3> QED BY <1>5, <3>1, <3>3, <3>7
  <2> QED BY <1>4, <2>1, <2>2, <2>3 DEF TableOk
<1>7. KeysKept(t, u)
  BY <1>5, <1>t DEF KeysKept
<1>8. search_nolock(u, Key(s)) = n + 1
  <2>1. SearchIs(t, Key(s), 0)
    BY <1>t, SearchFinds
  <2>2. \A j \in 1 .. n : ~Matches(u.data[j], Key(s))
    BY <1>5, <1>t, <2>1 DEF SearchIs
  <2>3. Matches(e, Key(s))
    BY <1>2, KeyIs, BeginsSelf DEF Matches, Keys
  <2>4. SearchIs(u, Key(s), n + 1)
    BY <1>5, <1>t, <2>2, <2>3 DEF SearchIs
  <2> QED BY <1>4, <2>4, SearchOne
<1>9. \A i, j \in Nat : ~At(t, s.addr, i, j)
  BY <1>t DEF Tracks, At
<1>10. ASSUME NEW a \in Addrs, NEW i \in Nat, NEW j \in Nat, At(t, a, i, j)
       PROVE  At(u, a, i, j) /\ Act(u, i, j) = Act(t, i, j)
  <2>1. i \in 1 .. n /\ i \in 1 .. n + 1
    BY <1>10, <1>t DEF At
  <2>2. u.data[i] = t.data[i]
    BY <1>5, <2>1
  <2> QED BY <1>5, <1>10, <2>1, <2>2 DEF At, Act
<1>e. e.addrs.data = <<Active(s.addr)>> /\ Active(s.addr).addr = s.addr
      /\ Active(s.addr).is_active = TRUE
  BY <1>1, <1>2 DEF Active
<1>11. ASSUME NEW a \in Addrs, NEW i \in Nat, NEW j \in Nat, At(u, a, i, j)
       PROVE  At(t, a, i, j) \/ (a = s.addr /\ i = n + 1 /\ j = 1)
  <2>1. CASE i \in 1 .. n
    BY <1>5, <1>11, <2>1 DEF At
  <2>2. CASE i \notin 1 .. n
    <3>1. i = n + 1 /\ u.data[i] = e
      BY <1>5, <1>11, <1>t, <2>2 DEF At
    <3>2. PICK x : x = Active(s.addr)
      OBVIOUS
    <3>3. u.data[i].addrs.data = <<x>> /\ x.addr = s.addr
      BY <1>e, <3>1, <3>2
    <3>4. j \in 1 .. Len(u.data[i].addrs.data) /\ u.data[i].addrs.data[j].addr = a
      BY <1>11 DEF At
    <3>5. j \in 1 .. Len(<<x>>) /\ <<x>>[j].addr = a
      BY <3>3, <3>4
    <3>6. j = 1 /\ a = s.addr
      BY <3>3, <3>5
    <3> QED BY <3>1, <3>6
  <2> QED BY <2>1, <2>2
<1>12. At(u, s.addr, n + 1, 1) /\ Act(u, n + 1, 1) = TRUE
  <2>1. n + 1 \in 1 .. Len(u.data)
    BY <1>5, <1>t
  <2>2. PICK x : x = Active(s.addr)
    OBVIOUS
  <2>3. u.data[n + 1].addrs.data = <<x>> /\ x.addr = s.addr /\ x.is_active = TRUE
    BY <1>5, <1>e, <2>2
  <2>4. 1 \in 1 .. Len(<<x>>) /\ <<x>>[1] = x
    OBVIOUS
  <2>5. At(u, s.addr, n + 1, 1)
    BY <2>1, <2>3, <2>4 DEF At
  <2>6. Act(u, n + 1, 1) = TRUE
    BY <2>3, <2>4 DEF Act
  <2> QED BY <2>5, <2>6
<1>13. Tracks(u, [f EXCEPT ![s] = "add"])
  <2>1. PICK m : m = n + 1
    OBVIOUS
  <2>2. /\ m \in Nat /\ 1 \in Nat /\ "add" \in {"add", "remove"} /\ t \in Buffers(EntryRecs)
        /\ u \in Buffers(EntryRecs) /\ KeysKept(t, u)
        /\ At(u, s.addr, m, 1) /\ m = search_nolock(u, Key(s))
        /\ (Act(u, m, 1) <=> "add" = "add")
    BY <1>4, <1>7, <1>8, <1>12, <1>t, <2>1
  <2>3. /\ \A a \in Addrs, i, j \in Nat : At(t, a, i, j) => At(u, a, i, j)
        /\ \A a \in Addrs, i, j \in Nat :
              At(t, a, i, j) /\ a # s.addr => Act(u, i, j) = Act(t, i, j)
        /\ \A a \in Addrs, i, j \in Nat :
              At(u, a, i, j) => At(t, a, i, j) \/ (a = s.addr /\ i = m /\ j = 1)
        /\ \A i, j \in Nat : At(t, s.addr, i, j) => i = m /\ j = 1
    BY <1>9, <1>10, <1>11, <2>1
  <2>4. Touches(t, u, s, "add", m, 1)
    BY <2>2, <2>3 DEF Touches
  <2> QED BY <2>2, <2>4, TracksStep
<1>14. Named(t, u, s)
  <2> SUFFICES ASSUME NEW i \in 1 .. Len(u.data), i \notin 1 .. Len(t.data)
               PROVE  u.data[i].service = Key(s)[1] /\ u.data[i].name = Key(s)[2]
    BY DEF Named
  <2>1. i = n + 1
    BY <1>5, <1>t
  <2> QED BY <1>2, <1>5, <2>1
<1> QED BY <1>4, <1>6, <1>7, <1>13, <1>14

\* A new address in the entry that a search found for its server.
LEMMA NewAddr ==
    ASSUME NEW t, TableOk(t), NEW f \in [Servers -> {"none", "add", "remove"}], Tracks(t, f),
           NEW s \in Servers, NEW i \in 1 .. Len(t.data), i = search_nolock(t, Key(s)),
           HitsOf(t.data[i].addrs, s.addr) = {},
           NEW u, u = Replaced(t, i, AB!add(t.data[i].addrs, Active(s.addr)))
    PROVE  /\ TableOk(u) /\ KeysKept(t, u) /\ t.moves <= u.moves /\ Named(t, u, s)
           /\ Tracks(u, [f EXCEPT ![s] = "add"])
<1> DEFINE b == t.data[i].addrs
           x == Active(s.addr)
           c == AB!add(b, x)
           n == Len(b.data)
<1>0. s.addr \in Addrs /\ AddrBlock \in Nat \ {0}
  BY TableAssumption DEF Addrs
<1>t. /\ t \in Buffers(EntryRecs) /\ t.data \in Seq(EntryRecs) /\ t.data[i] \in EntryRecs
      /\ t.moves \in Nat /\ Len(t.data) \in Nat
  BY DEF TableOk, Buffers
<1>1. b \in Buffers(AddrRecs) /\ b.data \in Seq(AddrRecs) /\ n \in Nat
  BY <1>t DEF EntryRecs, Buffers
<1>2. x \in AddrRecs /\ x.addr = s.addr /\ x.is_active = TRUE
  BY <1>0 DEF Active, AddrRecs
<1>3. c = Added(AddrBlock, b, x)
  BY <1>1, <1>2, AddIs
<1>9. \A k, j \in Nat : ~At(t, s.addr, k, j)
  <2> SUFFICES ASSUME NEW k \in Nat, NEW j \in Nat, At(t, s.addr, k, j) PROVE FALSE
    OBVIOUS
  <2>1. k = i
    BY DEF Tracks
  <2>2. j \in HitsOf(t.data[i].addrs, s.addr)
    BY <2>1 DEF At, HitsOf
  <2> QED BY <2>2
<1>u. u = Replaced(t, i, c)
  OBVIOUS
<1>b. t.data[i].addrs = b
  OBVIOUS
<1> HIDE DEF b, x, c, n
<1>4. /\ c \in Buffers(AddrRecs) /\ c.data = Append(b.data, x)
      /\ Len(Append(b.data, x)) <= AddrBlock * c.block_count
  <2>1. b \in Buffers(AddrRecs) /\ x \in AddrRecs /\ AddrBlock \in Nat \ {0}
    BY <1>0, <1>1, <1>2
  <2>2. /\ Added(AddrBlock, b, x) \in Buffers(AddrRecs)
        /\ Added(AddrBlock, b, x).data = Append(b.data, x)
        /\ Len(Append(b.data, x)) <= AddrBlock * Added(AddrBlock, b, x).block_count
    BY <2>1, AddedOk
  <2> QED BY <1>3, <2>2
<1>5. AB!Fits(c)
  BY <1>4 DEF AB!Fits, AB!allocating_count
<1>6. /\ Len(c.data) = n + 1 /\ c.data[n + 1] = x
      /\ \A j \in 1 .. n : c.data[j] = b.data[j]
  BY <1>1, <1>2, <1>4, AppendProperties DEF n
<1>7. /\ TableOk(u) /\ KeysKept(t, u) /\ u.moves = t.moves
      /\ Len(u.data) = Len(t.data) /\ u.data[i].addrs = c
      /\ \A k \in 1 .. Len(t.data) : k # i => u.data[k] = t.data[k]
  <2>1. /\ TableOk(Replaced(t, i, c)) /\ KeysKept(t, Replaced(t, i, c))
        /\ Replaced(t, i, c).moves = t.moves
        /\ Len(Replaced(t, i, c).data) = Len(t.data)
        /\ Replaced(t, i, c).data[i].addrs = c
        /\ \A k \in 1 .. Len(t.data) : k # i => Replaced(t, i, c).data[k] = t.data[k]
    <3>1. TableOk(t) /\ i \in 1 .. Len(t.data) /\ c \in Buffers(AddrRecs) /\ AB!Fits(c)
      BY <1>4, <1>5
    <3> QED BY <3>1, ReplacedOk
  <2> QED BY <2>1, <1>u
<1>l. n = Len(b.data)
  BY DEF n
<1>8. search_nolock(u, Key(s)) = i
  <2>1. t \in Buffers(EntryRecs) /\ u \in Buffers(EntryRecs) /\ KeysKept(t, u)
    BY <1>7, <1>t DEF TableOk
  <2>2. search_nolock(t, Key(s)) = i /\ i # 0
    BY <1>t
  <2> QED BY <2>1, <2>2, SearchKept
<1>10. ASSUME NEW a \in Addrs, NEW k \in Nat, NEW j \in Nat, At(t, a, k, j)
       PROVE  At(u, a, k, j) /\ Act(u, k, j) = Act(t, k, j)
  <2>1. CASE k = i
    <3>1. j \in 1 .. n /\ j \in 1 .. n + 1 /\ b.data[j].addr = a
      BY <1>10, <1>1, <1>b, <1>l, <2>1 DEF At
    <3> QED BY <1>6, <1>7, <1>b, <2>1, <3>1 DEF At, Act
  <2>2. CASE k # i
    <3>1. k \in 1 .. Len(t.data) /\ u.data[k] = t.data[k]
      BY <1>7, <1>10, <2>2 DEF At
    <3> QED BY <1>7, <1>10, <3>1 DEF At, Act
  <2> QED BY <2>1, <2>2
<1>11. ASSUME NEW a \in Addrs, NEW k \in Nat, NEW j \in Nat, At(u, a, k, j)
       PROVE  At(t, a, k, j) \/ (a = s.addr /\ k = i /\ j = n + 1)
  <2>1. CASE k = i
    <3>1. j \in 1 .. n + 1 /\ c.data[j].addr = a
      BY <1>6, <1>7, <1>11, <2>1 DEF At
    <3>2. CASE j = n + 1
      BY <1>2, <1>6, <2>1, <3>1, <3>2
    <3>3. CASE j \in 1 .. n
      BY <1>6, <1>b, <1>l, <2>1, <3>1, <3>3 DEF At
    <3> QED BY <1>1, <3>1, <3>2, <3>3
  <2>2. CASE k # i
    <3>1. k \in 1 .. Len(t.data) /\ u.data[k] = t.data[k]
      BY <1>7, <1>11, <2>2 DEF At
    <3> QED BY <1>11, <3>1 DEF At
  <2> QED BY <2>1, <2>2
<1>12. At(u, s.addr, i, n + 1) /\ Act(u, i, n + 1) = TRUE
  <2>1. n + 1 \in 1 .. Len(c.data) /\ i \in 1 .. Len(u.data)
    BY <1>1, <1>6, <1>7
  <2> QED BY <1>2, <1>6, <1>7, <2>1 DEF At, Act
<1>13. Tracks(u, [f EXCEPT ![s] = "add"])
  <2>1. PICK m : m = n + 1
    OBVIOUS
  <2>2. /\ m \in Nat /\ i \in Nat /\ "add" \in {"add", "remove"} /\ t \in Buffers(EntryRecs)
        /\ u \in Buffers(EntryRecs) /\ KeysKept(t, u)
        /\ At(u, s.addr, i, m) /\ i = search_nolock(u, Key(s))
        /\ (Act(u, i, m) <=> "add" = "add")
    <3>1. m \in Nat /\ i \in Nat
      BY <1>1, <1>t, <2>1
    <3>2. t \in Buffers(EntryRecs) /\ u \in Buffers(EntryRecs)
      BY <1>7, <1>t DEF TableOk
    <3> QED BY <1>7, <1>8, <1>12, <2>1, <3>1, <3>2
  <2>3. /\ \A a \in Addrs, k, j \in Nat : At(t, a, k, j) => At(u, a, k, j)
        /\ \A a \in Addrs, k, j \in Nat :
              At(t, a, k, j) /\ a # s.addr => Act(u, k, j) = Act(t, k, j)
        /\ \A a \in Addrs, k, j \in Nat :
              At(u, a, k, j) => At(t, a, k, j) \/ (a = s.addr /\ k = i /\ j = m)
        /\ \A k, j \in Nat : At(t, s.addr, k, j) => k = i /\ j = m
    <3>1. \A a \in Addrs, k, j \in Nat :
             At(t, a, k, j) => At(u, a, k, j) /\ Act(u, k, j) = Act(t, k, j)
      BY <1>10
    <3>2. \A a \in Addrs, k, j \in Nat :
             At(u, a, k, j) => At(t, a, k, j) \/ (a = s.addr /\ k = i /\ j = m)
      BY <1>11, <2>1
    <3>3. \A a \in Addrs, k, j \in Nat : At(t, a, k, j) => At(u, a, k, j)
      BY <3>1
    <3>4. \A a \in Addrs, k, j \in Nat :
             At(t, a, k, j) /\ a # s.addr => Act(u, k, j) = Act(t, k, j)
      BY <3>1
    <3>5. \A k, j \in Nat : At(t, s.addr, k, j) => k = i /\ j = m
      BY <1>9
    <3> QED BY <3>2, <3>3, <3>4, <3>5
  <2>4. Touches(t, u, s, "add", i, m)
    BY <2>2, <2>3 DEF Touches
  <2> QED BY <2>2, <2>4, TracksStep
<1>14. t.moves <= u.moves
  BY <1>7, <1>t
<1>15. Named(t, u, s)
  BY <1>7 DEF Named
<1> QED BY <1>7, <1>13, <1>14, <1>15

\* The place of a known address is made active or inactive.
LEMMA KnownAddr ==
    ASSUME NEW t, TableOk(t), NEW f \in [Servers -> {"none", "add", "remove"}], Tracks(t, f),
           NEW s \in Servers, NEW i \in 1 .. Len(t.data), i = search_nolock(t, Key(s)),
           HitsOf(t.data[i].addrs, s.addr) # {},
           NEW v \in {"add", "remove"}, NEW active \in BOOLEAN, active <=> v = "add",
           NEW u, u = Replaced(t, i, Activated(t.data[i].addrs, s.addr, active))
    PROVE  /\ TableOk(u) /\ KeysKept(t, u) /\ t.moves <= u.moves /\ Named(t, u, s)
           /\ Tracks(u, [f EXCEPT ![s] = v])
<1> DEFINE b == t.data[i].addrs
           m == First(HitsOf(b, s.addr))
           x == [b.data[m] EXCEPT !.is_active = active]
           d == [b.data EXCEPT ![m] = x]
           c == [b EXCEPT !.data = d]
           n == Len(b.data)
<1>0. s.addr \in Addrs
  BY TableAssumption DEF Addrs
<1>t. /\ t \in Buffers(EntryRecs) /\ t.data \in Seq(EntryRecs) /\ t.data[i] \in EntryRecs
      /\ t.moves \in Nat /\ Len(t.data) \in Nat
  BY DEF TableOk, Buffers
<1>1. b \in Buffers(AddrRecs) /\ b.data \in Seq(AddrRecs) /\ n \in Nat
  BY <1>t DEF EntryRecs, Buffers
<1>2. m \in 1 .. n /\ b.data[m].addr = s.addr
  <2> DEFINE H == HitsOf(b, s.addr)
  <2>1. H \subseteq Nat /\ H # {}
    BY <1>1 DEF HitsOf
  <2>2. First(H) \in H
    <3> HIDE DEF H
    <3> QED BY <2>1, FirstIs
  <2> QED BY <2>2 DEF HitsOf
<1>c. Activated(b, s.addr, active) = c
  BY DEF Activated
<1>u. u = Replaced(t, i, c)
  BY <1>c
<1>b. t.data[i].addrs = b
  OBVIOUS
<1>l. n = Len(b.data)
  OBVIOUS
<1> HIDE DEF b, m, c, n
<1>x. b.data[m] \in AddrRecs
  BY <1>1, <1>2, <1>l
<1>3. x \in AddrRecs /\ x.addr = s.addr /\ x.is_active = active
  BY <1>2, <1>x DEF AddrRecs
<1> HIDE DEF x
<1>d. /\ d \in Seq(AddrRecs) /\ Len(d) = n /\ d[m] = x
      /\ \A j \in 1 .. n : j # m => d[j] = b.data[j]
  BY <1>1, <1>2, <1>3, <1>l
<1>cc. c = [b EXCEPT !.data = d]
  BY DEF c
<1> HIDE DEF d
<1>4. c \in Buffers(AddrRecs) /\ c.data = d /\ c.block_count = b.block_count
  BY <1>1, <1>d, <1>cc DEF Buffers
<1>5. AB!Fits(c)
  <2>1. AB!Fits(b)
    BY <1>b DEF TableOk
  <2> QED BY <1>4, <1>d, <1>l, <2>1 DEF AB!Fits, AB!allocating_count
<1>7. /\ TableOk(u) /\ KeysKept(t, u) /\ u.moves = t.moves
      /\ Len(u.data) = Len(t.data) /\ u.data[i].addrs = c
      /\ \A k \in 1 .. Len(t.data) : k # i => u.data[k] = t.data[k]
  <2>1. /\ TableOk(Replaced(t, i, c)) /\ KeysKept(t, Replaced(t, i, c))
        /\ Replaced(t, i, c).moves = t.moves
        /\ Len(Replaced(t, i, c).data) = Len(t.data)
        /\ Replaced(t, i, c).data[i].addrs = c
        /\ \A k \in 1 .. Len(t.data) : k # i => Replaced(t, i, c).data[k] = t.data[k]
    <3>1. TableOk(t) /\ i \in 1 .. Len(t.data) /\ c \in Buffers(AddrRecs) /\ AB!Fits(c)
      BY <1>4, <1>5
    <3> QED BY <3>1, ReplacedOk
  <2> QED BY <2>1, <1>u
<1>8. search_nolock(u, Key(s)) = i
  <2>1. t \in Buffers(EntryRecs) /\ u \in Buffers(EntryRecs) /\ KeysKept(t, u)
    BY <1>7, <1>t DEF TableOk
  <2>2. search_nolock(t, Key(s)) = i /\ i # 0
    BY <1>t
  <2> QED BY <2>1, <2>2, SearchKept
<1>9. At(t, s.addr, i, m)
  BY <1>2, <1>b, <1>l DEF At
<1>10. ASSUME NEW a \in Addrs, NEW k \in Nat, NEW j \in Nat, At(t, a, k, j)
       PROVE  At(u, a, k, j) /\ (a # s.addr => Act(u, k, j) = Act(t, k, j))
  <2>1. CASE k = i
    <3>1. j \in 1 .. n /\ b.data[j].addr = a
      BY <1>10, <1>b, <1>l, <2>1 DEF At
    <3>2. CASE j = m
      <4>1. a = s.addr
        BY <1>2, <3>1, <3>2
      <4>2. u.data[i].addrs.data[m].addr = s.addr /\ m \in 1 .. Len(u.data[i].addrs.data)
            /\ i \in 1 .. Len(u.data)
        BY <1>2, <1>3, <1>4, <1>7, <1>d
      <4> QED BY <2>1, <3>2, <4>1, <4>2 DEF At
    <3>3. CASE j # m
      <4>1. d[j] = b.data[j]
        BY <1>d, <3>1, <3>3
      <4> QED BY <1>4, <1>7, <1>b, <1>d, <2>1, <3>1, <4>1 DEF At, Act
    <3> QED BY <3>2, <3>3
  <2>2. CASE k # i
    <3>1. k \in 1 .. Len(t.data) /\ u.data[k] = t.data[k]
      BY <1>7, <1>10, <2>2 DEF At
    <3> QED BY <1>7, <1>10, <3>1 DEF At, Act
  <2> QED BY <2>1, <2>2
<1>11. ASSUME NEW a \in Addrs, NEW k \in Nat, NEW j \in Nat, At(u, a, k, j)
       PROVE  At(t, a, k, j) \/ (a = s.addr /\ k = i /\ j = m)
  <2>1. CASE k = i
    <3>1. j \in 1 .. n /\ d[j].addr = a
      BY <1>4, <1>7, <1>11, <1>d, <2>1 DEF At
    <3>2. CASE j = m
      BY <1>3, <1>d, <2>1, <3>1, <3>2
    <3>3. CASE j # m
      BY <1>d, <1>b, <1>l, <2>1, <3>1, <3>3 DEF At
    <3> QED BY <3>2, <3>3
  <2>2. CASE k # i
    <3>1. k \in 1 .. Len(t.data) /\ u.data[k] = t.data[k]
      BY <1>7, <1>11, <2>2 DEF At
    <3> QED BY <1>11, <3>1 DEF At
  <2> QED BY <2>1, <2>2
<1>12. Act(u, i, m) = active /\ At(u, s.addr, i, m)
  <2>1. Act(u, i, m) = active
    BY <1>3, <1>4, <1>7, <1>d DEF Act
  <2>2. m \in Nat /\ i \in Nat
    BY <1>1, <1>2, <1>t
  <2> QED BY <1>0, <1>9, <1>10, <2>1, <2>2
<1>13. Tracks(u, [f EXCEPT ![s] = v])
  <2>2. /\ m \in Nat /\ i \in Nat /\ v \in {"add", "remove"} /\ t \in Buffers(EntryRecs)
        /\ u \in Buffers(EntryRecs) /\ KeysKept(t, u)
        /\ At(u, s.addr, i, m) /\ i = search_nolock(u, Key(s))
        /\ (Act(u, i, m) <=> v = "add")
    <3>1. m \in Nat /\ i \in Nat
      BY <1>1, <1>2, <1>t
    <3>2. t \in Buffers(EntryRecs) /\ u \in Buffers(EntryRecs)
      BY <1>7, <1>t DEF TableOk
    <3> QED BY <1>7, <1>8, <1>12, <3>1, <3>2
  <2>3. \A k, j \in Nat : At(t, s.addr, k, j) => k = i /\ j = m
    BY <1>9, <2>2 DEF Tracks
  <2>4. /\ \A a \in Addrs, k, j \in Nat : At(t, a, k, j) => At(u, a, k, j)
        /\ \A a \in Addrs, k, j \in Nat :
              At(t, a, k, j) /\ a # s.addr => Act(u, k, j) = Act(t, k, j)
        /\ \A a \in Addrs, k, j \in Nat :
              At(u, a, k, j) => At(t, a, k, j) \/ (a = s.addr /\ k = i /\ j = m)
    BY <1>10, <1>11
  <2>5. Touches(t, u, s, v, i, m)
    BY <2>2, <2>3, <2>4 DEF Touches
  <2>6. /\ m \in Nat /\ i \in Nat /\ t \in Buffers(EntryRecs)
        /\ u \in Buffers(EntryRecs) /\ KeysKept(t, u)
    BY <2>2
  <2>7. CASE v = "add"
    <3>1. Touches(t, u, s, "add", i, m) /\ "add" \in {"add", "remove"}
      BY <2>5, <2>7
    <3>2. Tracks(u, [f EXCEPT ![s] = "add"])
      BY <2>6, <3>1, TracksStep
    <3> QED BY <2>7, <3>2
  <2>8. CASE v = "remove"
    <3>1. Touches(t, u, s, "remove", i, m) /\ "remove" \in {"add", "remove"}
      BY <2>5, <2>8
    <3>2. Tracks(u, [f EXCEPT ![s] = "remove"])
      BY <2>6, <3>1, TracksStep
    <3> QED BY <2>8, <3>2
  <2> QED BY <2>7, <2>8
<1>14. t.moves <= u.moves
  BY <1>7, <1>t
<1>15. Named(t, u, s)
  BY <1>7 DEF Named
<1> QED BY <1>7, <1>13, <1>14, <1>15

Told == [Servers -> {"none", "add", "remove"}]

\* PCTable_setSockaddr keeps the table sound and records the arrival of s.
LEMMA SetOk ==
    ASSUME NEW t, TableOk(t), NEW f \in Told, Tracks(t, f),
           NEW s \in Servers, NEW u, u = setSockaddr(t, Key(s), s.addr)
    PROVE  /\ TableOk(u) /\ KeysKept(t, u) /\ t.moves <= u.moves
           /\ Tracks(u, [f EXCEPT ![s] = "add"]) /\ Named(t, u, s)
<1> DEFINE i == search_nolock(t, Key(s))
<1>f. f \in [Servers -> {"none", "add", "remove"}]
  BY DEF Told
<1>1. SearchIs(t, Key(s), i)
  BY SearchFinds DEF TableOk
<1>2. CASE i = 0
  <2>1. u = SB!add(t, [service |-> Key(s)[1], name |-> Key(s)[2],
                       addrs |-> AB!add(AB!create, Active(s.addr))])
    BY <1>2 DEF setSockaddr
  <2> QED BY <1>2, <1>f, <2>1, NewEntry
<1>3. CASE i # 0 /\ HitsOf(t.data[i].addrs, s.addr) = {}
  <2>1. u = Replaced(t, i, AB!add(t.data[i].addrs, Active(s.addr)))
    BY <1>3 DEF setSockaddr, Replaced
  <2>2. i \in 1 .. Len(t.data)
    BY <1>1, <1>3 DEF SearchIs
  <2>3. PICK k : k = i
    OBVIOUS
  <2>4. /\ k \in 1 .. Len(t.data) /\ k = search_nolock(t, Key(s))
        /\ HitsOf(t.data[k].addrs, s.addr) = {}
        /\ u = Replaced(t, k, AB!add(t.data[k].addrs, Active(s.addr)))
    BY <1>3, <2>1, <2>2, <2>3
  <2> QED BY <1>f, <2>4, NewAddr
<1>4. CASE i # 0 /\ HitsOf(t.data[i].addrs, s.addr) # {}
  <2>1. u = Replaced(t, i, Activated(t.data[i].addrs, s.addr, TRUE))
    BY <1>4 DEF setSockaddr, Replaced
  <2>2. i \in 1 .. Len(t.data)
    BY <1>1, <1>4 DEF SearchIs
  <2>3. PICK k : k = i
    OBVIOUS
  <2>4. /\ k \in 1 .. Len(t.data) /\ k = search_nolock(t, Key(s))
        /\ HitsOf(t.data[k].addrs, s.addr) # {}
        /\ u = Replaced(t, k, Activated(t.data[k].addrs, s.addr, TRUE))
        /\ TRUE \in BOOLEAN /\ "add" \in {"add", "remove"} /\ (TRUE <=> "add" = "add")
    BY <1>4, <2>1, <2>2, <2>3
  <2> QED BY <1>f, <2>4, KnownAddr
<1> QED BY <1>2, <1>3, <1>4

\* PCTable_deactivate keeps the table sound and records that s left.
LEMMA DeactivateOk ==
    ASSUME NEW t, TableOk(t), NEW f \in Told, Tracks(t, f),
           NEW s \in Servers, NEW u, u = deactivate(t, Key(s), s.addr)
    PROVE  /\ TableOk(u) /\ KeysKept(t, u) /\ t.moves <= u.moves
           /\ Tracks(u, [f EXCEPT ![s] = "remove"]) /\ Named(t, u, s)
<1> DEFINE i == search_nolock(t, Key(s))
<1>f. f \in [Servers -> {"none", "add", "remove"}]
  BY DEF Told
<1>t. t \in Buffers(EntryRecs) /\ Len(t.data) \in Nat /\ t.moves \in Nat
  BY DEF TableOk, Buffers
<1>1. SearchIs(t, Key(s), i)
  BY <1>t, SearchFinds
<1>2. CASE i = 0 \/ HitsOf(t.data[i].addrs, s.addr) = {}
  <2>1. u = t
    BY <1>2 DEF deactivate
  <2>2. \A k, j \in Nat : ~At(t, s.addr, k, j)
    <3>1. ASSUME NEW k \in Nat, NEW j \in Nat, At(t, s.addr, k, j) PROVE FALSE
      <4>1. k = i
        BY <3>1 DEF Tracks
      <4> QED BY <1>2, <1>t, <3>1, <4>1 DEF At, HitsOf
    <3> QED BY <3>1
  <2> DEFINE g == [f EXCEPT ![s] = "remove"]
  <2>3. g[s] = "remove" /\ \A r \in Servers : r # s => g[r] = f[r]
    BY <1>f
  <2> HIDE DEF g
  <2>4. Tracks(t, g)
    <3>1. ASSUME NEW r \in Servers
          PROVE  /\ \A k, j \in Nat : At(t, r.addr, k, j) =>
                       k = search_nolock(t, Key(r)) /\ (Act(t, k, j) <=> g[r] = "add")
                 /\ \A k, j, m, l \in Nat :
                       At(t, r.addr, k, j) /\ At(t, r.addr, m, l) => k = m /\ j = l
                 /\ g[r] = "add" => \E k, j \in Nat : At(t, r.addr, k, j)
      <4>1. CASE r = s
        BY <2>2, <2>3, <4>1
      <4>2. CASE r # s
        <5>1. g[r] = f[r]
          BY <2>3, <4>2
        <5> QED BY <5>1 DEF Tracks
      <4> QED BY <4>1, <4>2
    <3> QED BY <3>1 DEF Tracks
  <2>5. KeysKept(t, u) /\ t.moves <= u.moves
    BY <1>t, <2>1 DEF KeysKept
  <2> QED BY <2>1, <2>4, <2>5 DEF g, Named
<1>3. CASE i # 0 /\ HitsOf(t.data[i].addrs, s.addr) # {}
  <2>1. u = Replaced(t, i, Activated(t.data[i].addrs, s.addr, FALSE))
    BY <1>3 DEF deactivate, Replaced
  <2>2. i \in 1 .. Len(t.data)
    BY <1>1, <1>3 DEF SearchIs
  <2>3. PICK k : k = i
    OBVIOUS
  <2>4. /\ k \in 1 .. Len(t.data) /\ k = search_nolock(t, Key(s))
        /\ HitsOf(t.data[k].addrs, s.addr) # {}
        /\ u = Replaced(t, k, Activated(t.data[k].addrs, s.addr, FALSE))
        /\ FALSE \in BOOLEAN /\ "remove" \in {"add", "remove"} /\ (FALSE <=> "remove" = "add")
    BY <1>3, <2>1, <2>2, <2>3
  <2> QED BY <1>f, <2>4, KnownAddr
<1> QED BY <1>2, <1>3

-----------------------------------------------------------------------------
\* The event the browse thread is working on.
EventOk ==
    event = NoEvent \/ event \in [stage : {"resolve", "addrInfo"}, server : Servers, is_add : BOOLEAN]

\* What the main loop holds: nothing, NULL, or the entry its search finds, which
\* had seen a move for every block up to that of the last entry.
HandleOk ==
    \/ handle = NotHeld
    \/ \E key \in Wanted, n \in Int :
          handle = [instance |-> Null, key |-> key, block |-> n]
    \/ \E key \in Wanted, i \in 1 .. Len(services.data), m \in Nat :
          /\ handle = [instance |-> [index |-> i, moves |-> m], key |-> key, block |-> m]
          /\ search_nolock(services, key) = i /\ m <= services.moves

\* The moves of a table are the block of its last entry.
LEMMA MovesAre ==
    ASSUME NEW t, TableOk(t), Len(t.data) # 0
    PROVE  t.moves = BlockOf(Len(t.data))
<1>1. /\ Len(t.data) \in Nat \ {0} /\ t.block_count \in Nat \ {0}
      /\ Tight(ServiceBlock, t.block_count, Len(t.data)) /\ t.moves = t.block_count - 1
      /\ ServiceBlock \in Nat \ {0}
  BY TableAssumption DEF TableOk, Buffers
<1>2. PICK n \in Nat \ {0} : n = Len(t.data)
  BY <1>1
<1>3. (n - 1) \div ServiceBlock = t.block_count - 1
  BY <1>1, <1>2, TightDiv
<1> QED BY <1>1, <1>2, <1>3 DEF BlockOf

\* The inductive invariant.
TableInv ==
    /\ TypeOK /\ EventOk /\ HandleOk /\ TableOk(services) /\ Tracks(services, applied)
    /\ Known(services, applied)

\* A handle stays good while the entries of the table stay.
LEMMA HandleKept ==
    ASSUME HandleOk, UNCHANGED handle, TableOk(services), TableOk(services'),
           KeysKept(services, services'), services.moves <= services.moves'
    PROVE  HandleOk'
<1>1. CASE handle = NotHeld
  BY <1>1 DEF HandleOk, NotHeld
<1>2. CASE \E key \in Wanted, n \in Int :
               handle = [instance |-> Null, key |-> key, block |-> n]
  BY <1>2 DEF HandleOk, Null
<1>3. ASSUME NEW key \in Wanted, NEW i \in 1 .. Len(services.data), NEW m \in Nat,
             handle = [instance |-> [index |-> i, moves |-> m], key |-> key, block |-> m],
             search_nolock(services, key) = i, m <= services.moves
      PROVE  HandleOk'
  <2>1. /\ services \in Buffers(EntryRecs) /\ services' \in Buffers(EntryRecs)
        /\ Len(services.data) \in Nat /\ Len(services'.data) \in Nat
        /\ services.moves \in Nat /\ services'.moves \in Nat
    BY DEF TableOk, Buffers
  <2>2. i \in 1 .. Len(services'.data) /\ m <= services'.moves
    BY <1>3, <2>1 DEF KeysKept
  <2>3. search_nolock(services', key) = i
    <3>1. search_nolock(services, key) # 0
      BY <1>3
    <3> QED BY <1>3, <2>1, <3>1, SearchKept
  <2>4. handle' = [instance |-> [index |-> i, moves |-> m], key |-> key, block |-> m]
    BY <1>3
  <2> QED BY <2>2, <2>3, <2>4 DEF HandleOk
<1> QED BY <1>1, <1>2, <1>3 DEF HandleOk

\* ServicesInv speaks of places, as sets of them.
LEMMA TracksPlaces ==
    ASSUME TableOk(services), Tracks(services, applied)
    PROVE  TracksEvents
<1>1. Len(services.data) \in Nat
  BY DEF TableOk, Buffers
<1>2. ASSUME NEW i \in Entries PROVE Len(services.data[i].addrs.data) \in Nat
  <2>1. services.data[i] \in EntryRecs
    BY DEF TableOk, Buffers, Entries
  <2> QED BY <2>1 DEF EntryRecs, Buffers
<1>3. ASSUME NEW a, NEW p \in Places(a)
      PROVE  p[1] \in Nat /\ p[2] \in Nat /\ p = <<p[1], p[2]>> /\ At(services, a, p[1], p[2])
  <2>1. PICK i \in Entries : \E j \in HitsOf(services.data[i].addrs, a) : p = <<i, j>>
    BY <1>3 DEF Places
  <2>2. PICK j \in HitsOf(services.data[i].addrs, a) : p = <<i, j>>
    BY <2>1
  <2>3. i \in Nat /\ j \in Nat /\ At(services, a, i, j)
    BY <1>1, <1>2, <2>2 DEF Entries, HitsOf, At
  <2> QED BY <2>2, <2>3
<1>4. ASSUME NEW a, NEW i \in Nat, NEW j \in Nat, At(services, a, i, j)
      PROVE  <<i, j>> \in Places(a)
  <2>1. i \in Entries /\ j \in HitsOf(services.data[i].addrs, a)
    BY <1>4 DEF At, Entries, HitsOf
  <2> QED BY <2>1 DEF Places
<1>5. ASSUME NEW s \in Servers
      PROVE  /\ \A p, q \in Places(s.addr) : p = q
             /\ \A p \in Places(s.addr) :
                   /\ p[1] = search_nolock(services, Key(s))
                   /\ services.data[p[1]].addrs.data[p[2]].is_active <=> applied[s] = "add"
             /\ applied[s] = "add" => Places(s.addr) # {}
  <2>1. ASSUME NEW p \in Places(s.addr), NEW q \in Places(s.addr) PROVE p = q
    <3>1. /\ p[1] \in Nat /\ p[2] \in Nat /\ p = <<p[1], p[2]>> /\ At(services, s.addr, p[1], p[2])
          /\ q[1] \in Nat /\ q[2] \in Nat /\ q = <<q[1], q[2]>> /\ At(services, s.addr, q[1], q[2])
      BY <1>3
    <3>2. p[1] = q[1] /\ p[2] = q[2]
      BY <3>1 DEF Tracks
    <3> QED BY <3>1, <3>2
  <2>2. ASSUME NEW p \in Places(s.addr)
        PROVE  /\ p[1] = search_nolock(services, Key(s))
               /\ services.data[p[1]].addrs.data[p[2]].is_active <=> applied[s] = "add"
    <3>1. p[1] \in Nat /\ p[2] \in Nat /\ At(services, s.addr, p[1], p[2])
      BY <1>3
    <3>2. /\ p[1] = search_nolock(services, Key(s))
          /\ Act(services, p[1], p[2]) <=> applied[s] = "add"
      BY <3>1 DEF Tracks
    <3> QED BY <3>2 DEF Act
  <2>3. applied[s] = "add" => Places(s.addr) # {}
    BY <1>4 DEF Tracks
  <2> QED BY <2>1, <2>2, <2>3
<1> QED BY <1>5 DEF TracksEvents

\* The invariant holds in an empty table.
LEMMA InitTable == Init => TableInv
<1> SUFFICES ASSUME Init PROVE TableInv
  OBVIOUS
<1>0. /\ ServiceBlock \in Nat \ {0} /\ MaxEvents \in Nat
  BY TableAssumption
<1>1. services = [data |-> <<>>, block_count |-> 1, moves |-> 0]
  BY DEF Init, SB!create
<1>2. /\ services \in Buffers(EntryRecs) /\ Len(services.data) = 0
      /\ services.block_count = 1 /\ services.moves = 0
  <2>1. <<>> \in Seq(EntryRecs) /\ Len(<<>>) = 0
    OBVIOUS
  <2> QED BY <1>1, <2>1 DEF Buffers
<1>3. SB!Fits(services)
  BY <1>0, <1>2 DEF SB!Fits, SB!allocating_count
<1>4. TableOk(services)
  <2>1. Tight(ServiceBlock, services.block_count, Len(services.data))
    BY <1>0, <1>2 DEF Tight
  <2> QED BY <1>2, <1>3, <2>1 DEF TableOk
<1>5. applied = [s \in Servers |-> "none"]
  BY DEF Init
<1>6. Tracks(services, applied)
  <2>1. \A a, i, j : ~At(services, a, i, j)
    BY <1>2 DEF At
  <2>2. \A s \in Servers : applied[s] # "add"
    BY <1>5
  <2> QED BY <2>1, <2>2 DEF Tracks
<1>7. TypeOK /\ EventOk /\ HandleOk
  BY <1>0, <1>5 DEF Init, TypeOK, EventOk, HandleOk
<1>8. Known(services, applied)
  BY <1>2 DEF Known
<1> QED BY <1>4, <1>6, <1>7, <1>8 DEF TableInv

\* The invariant survives an event that changes the table.
LEMMA ChangeKeeps ==
    ASSUME TableInv, UNCHANGED <<announced, told, events, handle, answer>>, EventOk',
           NEW s \in Servers, NEW v \in {"add", "remove"},
           TableOk(services'), KeysKept(services, services'), services.moves <= services'.moves,
           applied' = [applied EXCEPT ![s] = v], Tracks(services', applied'),
           Named(services, services', s)
    PROVE  TableInv'
<1>1. HandleOk'
  BY HandleKept DEF TableInv
<1>2. TypeOK'
  BY DEF TableInv, TypeOK
<1>3. Known(services', applied')
  <2>1. applied \in [Servers -> {"none", "add", "remove"}] /\ Known(services, applied)
    BY DEF TableInv, TypeOK
  <2>2. applied'[s] # "none" /\ \A e \in Servers : applied[e] # "none" => applied'[e] # "none"
    BY <2>1
  <2> SUFFICES ASSUME NEW i \in 1 .. Len(services'.data)
               PROVE  \E e \in Servers : /\ applied'[e] # "none"
                                         /\ services'.data[i].service = Key(e)[1]
                                         /\ services'.data[i].name = Key(e)[2]
    BY DEF Known
  <2>3. CASE i \in 1 .. Len(services.data)
    <3>1. PICK e \in Servers : /\ applied[e] # "none"
                               /\ services.data[i].service = Key(e)[1]
                               /\ services.data[i].name = Key(e)[2]
      BY <2>1, <2>3 DEF Known
    <3>2. /\ services'.data[i].service = services.data[i].service
          /\ services'.data[i].name = services.data[i].name
      BY <2>3 DEF KeysKept
    <3> QED BY <2>2, <3>1, <3>2
  <2>4. CASE i \notin 1 .. Len(services.data)
    <3>1. services'.data[i].service = Key(s)[1] /\ services'.data[i].name = Key(s)[2]
      BY <2>4 DEF Named
    <3> QED BY <2>2, <3>1
  <2> QED BY <2>3, <2>4
<1> QED BY <1>1, <1>2, <1>3 DEF TableInv

\* The invariant survives a step that leaves the table and the handle alone.
LEMMA TableKept ==
    ASSUME TableInv, UNCHANGED <<services, applied, handle>>, TypeOK', EventOk'
    PROVE  TableInv'
BY DEF TableInv, HandleOk

\* Every step of the browse thread, the servers and the main loop keeps the invariant.
LEMMA NextTable == TableInv /\ [Next]_vars => TableInv'
<1> SUFFICES ASSUME TableInv, [Next]_vars PROVE TableInv'
  OBVIOUS
<1>t. /\ TypeOK /\ EventOk /\ HandleOk /\ TableOk(services) /\ Tracks(services, applied)
      /\ Known(services, applied)
      /\ applied \in Told
  BY DEF TableInv, TypeOK, Told
<1>1. ASSUME NEW s \in Servers, registServer(s) PROVE TableInv'
  BY <1>1, TableKept DEF registServer, main, TableInv, TypeOK, EventOk
<1>2. ASSUME NEW s \in Servers, closeServer(s) PROVE TableInv'
  BY <1>2, TableKept DEF closeServer, main, TableInv, TypeOK, EventOk
<1>3. ASSUME NEW s \in Servers, serviceBrowse(s) PROVE TableInv'
  <2>1. TypeOK'
    BY <1>3, TableAssumption DEF serviceBrowse, main, TableInv, TypeOK
  <2>2. EventOk'
    <3>1. event' = [stage |-> "resolve", server |-> s, is_add |-> s \in announced]
      BY <1>3 DEF serviceBrowse
    <3>2. event' \in [stage : {"resolve", "addrInfo"}, server : Servers, is_add : BOOLEAN]
      BY <3>1
    <3> QED BY <3>2 DEF EventOk
  <2>3. UNCHANGED <<services, applied, handle>>
    BY <1>3 DEF serviceBrowse, main
  <2> QED BY <2>1, <2>2, <2>3, TableKept
<1>4. ASSUME NEW s \in Static, set(s) PROVE TableInv'
  <2>1. s \in Servers /\ Key(s) = <<s.type, s.name>>
    BY TableAssumption
  <2>2. /\ services' = setSockaddr(services, Key(s), s.addr)
        /\ applied' = [applied EXCEPT ![s] = "add"]
        /\ UNCHANGED <<announced, told, event, events, handle, answer>>
    BY <1>4, <2>1 DEF set, net, main
  <2>3. /\ TableOk(services') /\ KeysKept(services, services')
        /\ services.moves <= services'.moves /\ Tracks(services', applied')
        /\ Named(services, services', s)
    BY <1>t, <2>1, <2>2, SetOk
  <2>4. EventOk' /\ "add" \in {"add", "remove"}
    BY <1>t, <2>2 DEF EventOk
  <2> QED BY <2>1, <2>2, <2>3, <2>4, ChangeKeeps
<1>5. CASE serviceResolve
  <2>1. UNCHANGED <<services, applied, handle>> /\ TypeOK'
    BY <1>5, <1>t DEF serviceResolve, main, TypeOK
  <2>2. EventOk'
    <3>1. event \in [stage : {"resolve", "addrInfo"}, server : Servers, is_add : BOOLEAN]
      BY <1>5, <1>t DEF serviceResolve, EventOk, NoEvent
    <3>2. event' = [event EXCEPT !.stage = "addrInfo"]
      BY <1>5 DEF serviceResolve
    <3> QED BY <3>1, <3>2 DEF EventOk
  <2> QED BY <2>1, <2>2, TableKept
<1>6. CASE serviceGetAddrInfo
  <2>1. event.server \in Servers /\ event.is_add \in BOOLEAN
    BY <1>6, <1>t DEF serviceGetAddrInfo, EventOk, NoEvent
  <2>2. PICK s \in Servers : s = event.server
    BY <2>1
  <2>3. EventOk' /\ UNCHANGED <<announced, told, events, handle, answer>>
    BY <1>6 DEF serviceGetAddrInfo, main, EventOk
  <2>4. CASE event.is_add = TRUE
    <3>1. /\ services' = setSockaddr(services, Key(s), s.addr)
          /\ applied' = [applied EXCEPT ![s] = "add"]
      BY <1>6, <2>2, <2>4 DEF serviceGetAddrInfo
    <3>2. /\ TableOk(services') /\ KeysKept(services, services')
          /\ services.moves <= services'.moves /\ Tracks(services', applied')
          /\ Named(services, services', s)
      BY <1>t, <3>1, SetOk
    <3>3. "add" \in {"add", "remove"}
      OBVIOUS
    <3> QED BY <2>3, <3>1, <3>2, <3>3, ChangeKeeps
  <2>5. CASE event.is_add = FALSE
    <3>1. /\ services' = deactivate(services, Key(s), s.addr)
          /\ applied' = [applied EXCEPT ![s] = "remove"]
      BY <1>6, <2>2, <2>5 DEF serviceGetAddrInfo
    <3>2. /\ TableOk(services') /\ KeysKept(services, services')
          /\ services.moves <= services'.moves /\ Tracks(services', applied')
          /\ Named(services, services', s)
      BY <1>t, <3>1, DeactivateOk
    <3>3. "remove" \in {"add", "remove"}
      OBVIOUS
    <3> QED BY <2>3, <3>1, <3>2, <3>3, ChangeKeeps
  <2> QED BY <2>1, <2>4, <2>5 DEF Grown
<1>7. CASE dropEvent
  BY <1>7, TableKept DEF dropEvent, main, TableInv, TypeOK, EventOk
<1>8. ASSUME NEW key \in Wanted, loockUp(key) PROVE TableInv'
  <2> DEFINE i == search_nolock(services, key)
  <2>1. SearchIs(services, key, i)
    BY <1>t, SearchFinds DEF TableOk
  <2>2. /\ handle' = [instance |-> IF i = 0 THEN Null ELSE SB!pointer(services, i),
                       key |-> key, block |-> BlockOf(Len(services.data))]
        /\ UNCHANGED <<services, announced, told, event, events, applied>> /\ answer' = NoAddr
    BY <1>8 DEF loockUp, net
  <2>3. HandleOk'
    <3>1. CASE i = 0
      <4>1. PICK n \in Int : n = BlockOf(Len(services.data))
        BY <1>t, TableAssumption DEF BlockOf, TableOk, Buffers
      <4>2. handle' = [instance |-> Null, key |-> key, block |-> n]
        BY <2>2, <3>1, <4>1
      <4> QED BY <4>2 DEF HandleOk, Null
    <3>2. CASE i # 0
      <4>1. i \in 1 .. Len(services'.data) /\ services.moves \in Nat
        BY <1>t, <2>1, <2>2, <3>2 DEF SearchIs, TableOk, Buffers
      <4>2. PICK k \in 1 .. Len(services'.data) : k = i
        BY <4>1
      <4>3. PICK m \in Nat : m = services.moves
        BY <4>1
      <4>6. m = BlockOf(Len(services.data))
        <5>1. Len(services.data) # 0
          BY <2>2, <4>1
        <5> QED BY <1>t, <4>3, <5>1, MovesAre
      <4>4. handle' = [instance |-> [index |-> k, moves |-> m], key |-> key, block |-> m]
        BY <2>2, <3>2, <4>2, <4>3, <4>6 DEF SB!pointer
      <4>5. search_nolock(services', key) = k /\ m <= services'.moves
        BY <2>2, <4>2, <4>3
      <4> QED BY <4>4, <4>5 DEF HandleOk
    <3> QED BY <3>1, <3>2
  <2>4. TypeOK' /\ EventOk'
    BY <1>t, <2>2 DEF TypeOK, EventOk
  <2>5. TableOk(services') /\ Tracks(services', applied') /\ Known(services', applied')
    BY <1>t, <2>2
  <2> QED BY <2>3, <2>4, <2>5 DEF TableInv
<1>9. CASE getIp
  <2>1. /\ UNCHANGED <<services, announced, told, event, events, applied>> /\ handle' = NotHeld
    BY <1>9 DEF getIp, net
  <2>2. answer' \in Addrs \cup {NoAddr, Garbage}
    <3>1. CASE handle.instance = Null
      BY <1>9, <3>1 DEF getIp
    <3>2. CASE handle.instance # Null /\ ~SB!alive(services, handle.instance)
      BY <1>9, <3>2 DEF getIp
    <3>3. CASE handle.instance # Null /\ SB!alive(services, handle.instance)
      <4>1. handle # NotHeld /\ answer' = ActiveAddr(services.data[handle.instance.index])
        BY <1>9, <3>3 DEF getIp
      <4>2. PICK i \in 1 .. Len(services.data) : handle.instance.index = i
        BY <1>t, <3>3, <4>1 DEF HandleOk
      <4> DEFINE e == services.data[i]
                 T == {j \in 1 .. Len(e.addrs.data) : e.addrs.data[j].is_active}
      <4>3. e.addrs.data \in Seq(AddrRecs) /\ Len(e.addrs.data) \in Nat
        <5>1. e \in EntryRecs
          BY <1>t DEF TableOk, Buffers
        <5> QED BY <5>1 DEF EntryRecs, Buffers
      <4>4. answer' = IF T = {} THEN NoAddr ELSE e.addrs.data[First(T)].addr
        BY <4>1, <4>2 DEF ActiveAddr
      <4>5. T # {} => First(T) \in T
        <5>1. T \subseteq Nat
          BY <4>3
        <5> HIDE DEF T
        <5> QED BY <5>1, FirstIs
      <4>6. T # {} => e.addrs.data[First(T)].addr \in Addrs
        <5> SUFFICES ASSUME T # {} PROVE e.addrs.data[First(T)].addr \in Addrs
          OBVIOUS
        <5>1. PICK j \in 1 .. Len(e.addrs.data) : j = First(T)
          BY <4>5
        <5>2. e.addrs.data[j] \in AddrRecs
          BY <4>3
        <5> QED BY <5>1, <5>2 DEF AddrRecs
      <4> QED BY <4>4, <4>6
    <3> QED BY <3>1, <3>2, <3>3
  <2>3. TypeOK' /\ EventOk' /\ HandleOk'
    BY <1>t, <2>1, <2>2 DEF TypeOK, EventOk, HandleOk
  <2>4. TableOk(services') /\ Tracks(services', applied') /\ Known(services', applied')
    BY <1>t, <2>1
  <2> QED BY <2>3, <2>4 DEF TableInv
<1>10. CASE UNCHANGED vars
  BY <1>10, TableKept DEF vars, TableInv, TypeOK, EventOk
<1> QED BY <1>1, <1>2, <1>3, <1>4, <1>5, <1>6, <1>7, <1>8, <1>9, <1>10 DEF Next

\* Whatever servers come and go, whatever events the browse thread resolves or
\* drops and whenever the main loop looks in: the table stays inside its memory
\* and says of every server what it was told last, although a key finds the first
\* entry that begins with it (PCTable_setSockaddr, PCTable_deactivate).
THEOREM ServicesCorrect == Spec => []ServicesInv
<1>1. TableInv => ServicesInv
  <2>1. TableOk(services) => Room
    BY DEF TableOk, Room, Entries
  <2> QED BY <2>1, TracksPlaces DEF TableInv, ServicesInv
<1> QED BY <1>1, InitTable, NextTable, PTL DEF Spec


\* What a live pointer reads from an entry: the address of its first active
\* place, if there is one.
LEMMA ActiveIs ==
    ASSUME TableOk(services), NEW i \in 1 .. Len(services.data)
    PROVE  \/ /\ ActiveAddr(services.data[i]) = NoAddr
              /\ \A a, j : At(services, a, i, j) => ~Act(services, i, j)
           \/ \E j \in Nat : /\ At(services, ActiveAddr(services.data[i]), i, j)
                             /\ Act(services, i, j)
                             /\ ActiveAddr(services.data[i]) \in Addrs
<1> DEFINE e == services.data[i]
           T == {j \in 1 .. Len(e.addrs.data) : e.addrs.data[j].is_active}
<1>1. e.addrs.data \in Seq(AddrRecs) /\ Len(e.addrs.data) \in Nat
  <2>1. e \in EntryRecs
    BY DEF TableOk, Buffers
  <2> QED BY <2>1 DEF EntryRecs, Buffers
<1>2. ActiveAddr(e) = IF T = {} THEN NoAddr ELSE e.addrs.data[First(T)].addr
  BY DEF ActiveAddr
<1>3. CASE T = {}
  BY <1>2, <1>3 DEF At, Act
<1>4. CASE T # {}
  <2>1. T \subseteq Nat
    BY <1>1
  <2>2. First(T) \in T
    <3> HIDE DEF T
    <3> QED BY <1>4, <2>1, FirstIs
  <2>3. PICK j \in 1 .. Len(e.addrs.data) : j = First(T) /\ e.addrs.data[j].is_active
    BY <2>2
  <2>4. ActiveAddr(e) = e.addrs.data[j].addr
    BY <1>2, <1>4, <2>3
  <2>5. e.addrs.data[j] \in AddrRecs /\ j \in Nat
    BY <1>1
  <2>6. At(services, ActiveAddr(e), i, j) /\ Act(services, i, j)
    BY <2>3, <2>4 DEF At, Act
  <2>7. ActiveAddr(e) \in Addrs
    BY <2>4, <2>5 DEF AddrRecs
  <2> QED BY <2>5, <2>6, <2>7
<1> QED BY <1>3, <1>4

\* getIp, with a table that has not outgrown a block since the look-up.
LEMMA AnswerStep ==
    ASSUME TableInv, getIp, handle.block = BlockOf(Len(services.data))
    PROVE  IF answer' = NoAddr
           THEN handle.instance # Null =>
                   \A s \in Servers : Key(s) = handle.key => applied[s] # "add"
           ELSE \E s, e \in Servers :
                   /\ answer' = s.addr /\ applied[s] = "add" /\ applied[e] # "none"
                   /\ Extends(Key(e), Key(s)) /\ Extends(Key(e), handle.key)
<1>1. CASE handle.instance = Null
  <2>1. answer' = NoAddr
    BY <1>1 DEF getIp
  <2> QED BY <1>1, <2>1
<1>2. CASE handle.instance # Null
  <2>t. /\ TableOk(services) /\ Tracks(services, applied) /\ HandleOk
        /\ Known(services, applied) /\ services \in Buffers(EntryRecs)
    BY DEF TableInv, TableOk
  <2>1. PICK key \in Wanted, i \in 1 .. Len(services.data), m \in Nat :
            /\ handle = [instance |-> [index |-> i, moves |-> m], key |-> key, block |-> m]
            /\ search_nolock(services, key) = i /\ m <= services.moves
    BY <1>2, <2>t DEF HandleOk, getIp
  <2>2. SB!alive(services, handle.instance)
    <3>1. Len(services.data) \in Nat /\ Len(services.data) # 0
      BY <2>1, <2>t DEF Buffers
    <3>2. services.moves = BlockOf(Len(services.data))
      BY <2>t, <3>1, MovesAre
    <3> QED BY <2>1, <3>2 DEF SB!alive
  <2> DEFINE e == services.data[i]
  <2>3. answer' = ActiveAddr(e)
    BY <1>2, <2>1, <2>2 DEF getIp
  <2>4. Matches(e, key)
    <3>1. SearchIs(services, key, i)
      BY <2>1, <2>t, SearchFinds
    <3> QED BY <3>1 DEF SearchIs
  <2>5. CASE /\ ActiveAddr(e) = NoAddr
             /\ \A a, j : At(services, a, i, j) => ~Act(services, i, j)
    <3>1. ASSUME NEW s \in Servers, Key(s) = key, applied[s] = "add" PROVE FALSE
      <4>1. PICK k \in Nat, j \in Nat : At(services, s.addr, k, j)
        BY <2>t, <3>1 DEF Tracks
      <4>2. k = i /\ (Act(services, k, j) <=> applied[s] = "add")
        BY <2>1, <2>t, <3>1, <4>1 DEF Tracks
      <4> QED BY <2>5, <3>1, <4>1, <4>2
    <3> QED BY <2>1, <2>3, <2>5, <3>1
  <2>6. ASSUME NEW j \in Nat, At(services, ActiveAddr(e), i, j), Act(services, i, j),
               ActiveAddr(e) \in Addrs
        PROVE  \E s, h \in Servers :
                  /\ answer' = s.addr /\ applied[s] = "add" /\ applied[h] # "none"
                  /\ Extends(Key(h), Key(s)) /\ Extends(Key(h), handle.key)
    <3>1. PICK s \in Servers : s.addr = ActiveAddr(e)
      BY <2>6 DEF Addrs
    <3>2. At(services, s.addr, i, j) /\ i \in Nat
      BY <2>6, <3>1
    <3>3. i = search_nolock(services, Key(s)) /\ applied[s] = "add"
      BY <2>t, <2>6, <3>2 DEF Tracks
    <3>4. Matches(e, Key(s))
      <4>1. SearchIs(services, Key(s), i)
        BY <2>t, <3>3, SearchFinds
      <4> QED BY <4>1 DEF SearchIs
    <3>5. PICK h \in Servers : /\ applied[h] # "none"
                              /\ e.service = Key(h)[1] /\ e.name = Key(h)[2]
      BY <2>t DEF Known
    <3> HIDE DEF e
    <3>6. Extends(Key(h), Key(s)) /\ Extends(Key(h), key)
      BY <2>4, <3>4, <3>5 DEF Matches, Extends
    <3>7. answer' = s.addr
      BY <2>3, <3>1
    <3>8. handle.key = key
      BY <2>1
    <3> QED BY <3>3, <3>5, <3>6, <3>7, <3>8
  <2>7. NoAddr \notin Addrs
    BY TableAssumption
  <2> QED BY <2>3, <2>5, <2>6, <2>7, <2>t, ActiveIs
<1> QED BY <1>1, <1>2

\* Only getIp puts the handle away.
LEMMA OnlyGetIp ==
    ASSUME [Next]_vars, handle # NotHeld, handle' = NotHeld
    PROVE  getIp
<1>1. ~UNCHANGED handle
  OBVIOUS
<1>2. ASSUME NEW s \in Servers
      PROVE  registServer(s) \/ closeServer(s) \/ serviceBrowse(s) => UNCHANGED handle
  BY DEF registServer, closeServer, serviceBrowse, main
<1>3. ASSUME NEW s \in Static PROVE set(s) => UNCHANGED handle
  BY DEF set, main
<1>4. serviceResolve \/ serviceGetAddrInfo \/ dropEvent => UNCHANGED handle
  BY DEF serviceResolve, serviceGetAddrInfo, dropEvent, main
<1>5. ASSUME NEW key \in Wanted PROVE ~loockUp(key)
  BY DEF loockUp
<1>6. UNCHANGED vars => UNCHANGED handle
  BY DEF vars
<1> QED BY <1>1, <1>2, <1>3, <1>4, <1>5, <1>6 DEF Next

\* Although getIp uses the pointer after the lock is given up: unless the table
\* outgrew a block since the look-up, the address it answers belongs to a server
\* that is there, of the name and type asked for or hidden with them behind those
\* of one the table was told of, and none that is there is missed
\* (PCTable_loockUp, PCTable_getIp).
THEOREM AnswersFaithful == Spec => AnswerFaithful
<1> DEFINE Right ==
        IF answer' = NoAddr
        THEN handle.instance # Null =>
                \A s \in Servers : Key(s) = handle.key => applied[s] # "add"
        ELSE \E s, e \in Servers :
                /\ answer' = s.addr /\ applied[s] = "add" /\ applied[e] # "none"
                /\ Extends(Key(e), Key(s)) /\ Extends(Key(e), handle.key)
           Done == /\ handle # NotHeld /\ handle' = NotHeld
                   /\ handle.block = BlockOf(Len(services.data))
<1>1. TableInv /\ [Next]_vars => [Done => Right]_vars
  BY AnswerStep, OnlyGetIp
<1>2. [][Done => Right]_vars => AnswerFaithful
  BY PTL DEF AnswerFaithful
<1> HIDE DEF Right, Done
<1> QED BY <1>1, <1>2, InitTable, NextTable, PTL DEF Spec
-----------------------------------------------------------------------------
(***************************************************************************)
(* The tokens of the JSON loader (OPTokens)                                *)
(***************************************************************************)
\* The inductive invariant: every token has one pointer, the blocks are what the
\* tokens need, and the pointers of the last block's tokens are those that have
\* seen every move.  An empty buffer may have any number of blocks: the first
\* token of a load gives back those an earlier load left, which moves the buffer.
TokensInv ==
    /\ token_buff \in Buffers(Ranges)
    /\ held \in Seq([index : Nat, moves : Nat])
    /\ Len(held) = Len(token_buff.data)
    /\ Len(held) # 0 =>
          /\ Tight(TokenBlock, token_buff.block_count, Len(held))
          /\ \A h \in 1 .. Len(held) :
                /\ held[h].moves <= token_buff.moves
                /\ held[h].moves = token_buff.moves
                     <=> h > TokenBlock * (token_buff.block_count - 1)

\* The loader starts without a token (OPJsonLoader_create).
LEMMA TokensFirst == TokenInit => TokensInv
<1> SUFFICES ASSUME TokenInit PROVE TokensInv
  OBVIOUS
<1>1. <<>> \in Seq(Ranges) /\ Len(<<>>) = 0 /\ <<>> \in Seq([index : Nat, moves : Nat])
  OBVIOUS
<1>2. token_buff = [data |-> <<>>, block_count |-> 1, moves |-> 0] /\ held = <<>>
  BY DEF TokenInit, TB!create
<1>3. token_buff \in Buffers(Ranges) /\ token_buff.data = <<>>
  BY <1>1, <1>2 DEF Buffers
<1> QED BY <1>1, <1>2, <1>3 DEF TokensInv

\* A load drops the tokens and keeps the blocks (OPJsonLoader_load_callback).
LEMMA TokensCleared == TokensInv /\ ClearTokens => TokensInv'
<1> SUFFICES ASSUME TokensInv, ClearTokens PROVE TokensInv'
  OBVIOUS
<1>1. <<>> \in Seq(Ranges) /\ Len(<<>>) = 0 /\ <<>> \in Seq([index : Nat, moves : Nat])
  OBVIOUS
<1>2. token_buff \in Buffers(Ranges)
  BY DEF TokensInv
<1>3. token_buff' = [token_buff EXCEPT !.data = <<>>] /\ held' = <<>>
  BY DEF ClearTokens, TB!clear
<1>4. PICK d \in Seq(Ranges) : d = <<>>
  BY <1>1
<1>5. token_buff' = [token_buff EXCEPT !.data = d]
  BY <1>3, <1>4
<1>6. token_buff' \in Buffers(Ranges) /\ token_buff'.data = d
  BY <1>2, <1>5 DEF Buffers
<1>7. Len(d) = 0
  BY <1>1, <1>4
<1> QED BY <1>1, <1>3, <1>6, <1>7 DEF TokensInv

\* One more token (OPJsonLoader_dictionary_get_callback).  Behind a full block it
\* moves the buffer and is alone in the new one; otherwise nothing moves, unless
\* it is the first.
LEMMA TokensTaken ==
    ASSUME TokensInv, NEW range \in Ranges, HandOut(range)
    PROVE  TokensInv'
<1> DEFINE n == Len(token_buff.data)
           k == BlocksFor(TokenBlock, token_buff.block_count, n + 1)
           p == [index |-> Len(token_buff'.data) - 1, moves |-> token_buff'.moves]
<1>0. TokenBlock \in Nat \ {0, 1}
  BY TokenAssumption
<1>1. /\ token_buff \in Buffers(Ranges) /\ held \in Seq([index : Nat, moves : Nat])
      /\ Len(held) = n /\ n \in Nat /\ token_buff.block_count \in Nat \ {0}
      /\ token_buff.moves \in Nat
  BY DEF TokensInv, Buffers
<1>2. token_buff' = Added(TokenBlock, token_buff, range) /\ held' = Append(held, p)
  BY <1>1, AddIs DEF HandOut, TB!pointer
<1>3. token_buff' \in Buffers(Ranges) /\ token_buff'.data = Append(token_buff.data, range)
  <2>1. Grown(TokenBlock, Ranges, token_buff, range, token_buff')
    <3>1. PICK b : b = token_buff
      OBVIOUS
    <3>2. PICK c : c = Added(TokenBlock, b, range)
      OBVIOUS
    <3>3. b \in Buffers(Ranges) /\ TokenBlock \in Nat \ {0}
      BY <1>0, <1>1, <3>1
    <3>4. Grown(TokenBlock, Ranges, b, range, c)
      BY <3>2, <3>3, GrownIs
    <3>5. token_buff' = c
      BY <1>2, <3>1, <3>2
    <3> QED BY <3>1, <3>4, <3>5
  <2> QED BY <2>1 DEF Grown
<1>4. /\ token_buff'.block_count = k
      /\ token_buff'.moves = IF k = token_buff.block_count THEN token_buff.moves
                             ELSE token_buff.moves + 1
  BY <1>2 DEF Added
<1>5. Len(token_buff'.data) = n + 1 /\ token_buff'.moves \in Nat /\ k \in Nat \ {0}
  <2>1. token_buff.data \in Seq(Ranges) /\ token_buff'.moves \in Nat
        /\ token_buff'.block_count \in Nat \ {0}
    BY <1>1, <1>3 DEF Buffers
  <2> QED BY <1>3, <1>4, <2>1, AppendProperties
<1>6. p \in [index : Nat, moves : Nat] /\ p.moves = token_buff'.moves
  BY <1>1, <1>5
<1> HIDE DEF p
<1>7. /\ held' \in Seq([index : Nat, moves : Nat]) /\ Len(held') = n + 1
      /\ \A h \in 1 .. n : held'[h] = held[h]
      /\ held'[n + 1] = p
  BY <1>1, <1>2, <1>6, AppendProperties
<1>8. n # 0 => Tight(TokenBlock, token_buff.block_count, n)
  BY <1>1 DEF TokensInv
<1> HIDE DEF n, k
<1>9. Tight(TokenBlock, k, n + 1)
  BY <1>0, <1>1, <1>8, TightKept DEF k
<1>10. /\ n = 0 => k = 1
       /\ n # 0 => k = IF n = TokenBlock * token_buff.block_count
                       THEN token_buff.block_count + 1 ELSE token_buff.block_count
  BY <1>0, <1>1, <1>8, NextBlocks DEF k
<1>11. TokenBlock * (k - 1) \in Nat /\ TokenBlock * (k - 1) < n + 1
  <2>1. k - 1 \in Nat /\ (k = 1 => TokenBlock * (k - 1) = 0)
    BY <1>0, <1>5
  <2>2. TokenBlock * (k - 1) \in Nat
    BY <1>0, <2>1, ProductNat
  <2> QED BY <1>1, <1>9, <2>1, <2>2 DEF Tight
<1>12. ASSUME NEW h \in 1 .. n
       PROVE  /\ held[h].moves <= token_buff'.moves
              /\ held[h].moves = token_buff'.moves <=> h > TokenBlock * (k - 1)
  <2>1. n # 0 /\ h \in Nat /\ h <= n
    BY <1>1
  <2>0. held[h].moves \in Nat
    <3>1. h \in 1 .. Len(held)
      BY <1>1
    <3>2. \A q \in [index : Nat, moves : Nat] : q.moves \in Nat
      OBVIOUS
    <3>3. held[h] \in [index : Nat, moves : Nat]
      BY <1>1, <3>1, ElementOfSeq, Zenon
    <3> QED BY <3>2, <3>3
  <2>2. /\ held[h].moves <= token_buff.moves
        /\ held[h].moves = token_buff.moves
             <=> h > TokenBlock * (token_buff.block_count - 1)
    BY <1>1, <1>12, <2>1 DEF TokensInv
  <2>3. CASE n = TokenBlock * token_buff.block_count
    <3>1. k = token_buff.block_count + 1
      BY <1>10, <2>1, <2>3
    <3>2. token_buff'.moves = token_buff.moves + 1
      BY <1>1, <1>4, <3>1
    <3>3. k - 1 = token_buff.block_count
      BY <1>1, <3>1
    <3>4. TokenBlock * (k - 1) = n
      BY <2>3, <3>3
    <3> QED BY <1>1, <2>0, <2>1, <2>2, <3>2, <3>4
  <2>4. CASE n # TokenBlock * token_buff.block_count
    <3>1. k = token_buff.block_count
      BY <1>10, <2>1, <2>4
    <3> QED BY <1>4, <2>2, <3>1
  <2> QED BY <2>3, <2>4
<1>13. ASSUME NEW h \in 1 .. n + 1
       PROVE  /\ held'[h].moves <= token_buff'.moves
              /\ held'[h].moves = token_buff'.moves <=> h > TokenBlock * (k - 1)
  <2>1. CASE h \in 1 .. n
    BY <1>7, <1>12, <2>1
  <2>2. CASE h = n + 1
    BY <1>1, <1>5, <1>6, <1>7, <1>11, <2>2
  <2> QED BY <1>1, <2>1, <2>2
<1> QED BY <1>3, <1>4, <1>5, <1>7, <1>9, <1>13 DEF TokensInv

\* For every size of the blocks above one, any number of tokens and of loads: taking
\* a token kills the pointers before it exactly when the blocks are full, also when
\* earlier loads left the buffer more (OPJsonLoader_load_callback, SABuffer_add).
THEOREM TokensAlive == TokenSpec => []TokensLive
<1>1. TokensInv /\ [TokenNext]_tokenVars => TokensInv'
  <2> SUFFICES ASSUME TokensInv, [TokenNext]_tokenVars PROVE TokensInv'
    OBVIOUS
  <2>1. CASE UNCHANGED tokenVars
    BY <2>1 DEF tokenVars, TokensInv
  <2> QED BY <2>1, TokensCleared, TokensTaken DEF TokenNext
<1>2. TokensInv => TokensLive
  <2> SUFFICES ASSUME TokensInv, NEW h \in 1 .. Len(held)
               PROVE  Usable(h) <=> h > TokenBlock * ((Len(held) - 1) \div TokenBlock)
    BY DEF TokensLive
  <2>1. /\ TokenBlock \in Nat \ {0} /\ Len(held) \in Nat \ {0}
        /\ token_buff.block_count \in Nat \ {0}
    BY TokenAssumption DEF TokensInv, Buffers
  <2>2. /\ Tight(TokenBlock, token_buff.block_count, Len(held))
        /\ held[h].moves = token_buff.moves
             <=> h > TokenBlock * (token_buff.block_count - 1)
    BY <2>1 DEF TokensInv
  <2>3. (Len(held) - 1) \div TokenBlock = token_buff.block_count - 1
    <3>1. PICK n \in Nat \ {0} : n = Len(held)
      BY <2>1
    <3> QED BY <2>1, <2>2, <3>1, TightDiv
  <2> QED BY <2>2, <2>3 DEF Usable, TB!alive
<1> QED BY <1>1, <1>2, TokensFirst, PTL DEF TokenSpec
=============================================================================
