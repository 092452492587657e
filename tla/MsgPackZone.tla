---------------------------- MODULE MsgPackZone ----------------------------
(***************************************************************************)
(* msgpack_zone, the arena the msgpack loader's containers live in (zone.h *)
(* and zone.c), and the growth of msgpack_sbuffer (sbuffer.h).             *)
(*                                                                         *)
(* A zone is a list of chunks; chunks[Len(chunks)] is the head of the      *)
(* code's list, chunks[1] the chunk made by msgpack_zone_init, so a chunk  *)
(* keeps its index while it lives.  ptr and free are the zone's cursor in  *)
(* the head chunk, as an offset and a remainder.  malloc returns memory    *)
(* aligned to 16 bytes and a chunk's header takes 8, so offset 0 of every  *)
(* chunk is aligned.  blocks is history: what malloc has handed out since  *)
(* the last clear.  The arithmetic that asks for finalizers is not         *)
(* reachable from the object parser.                                       *)
(***************************************************************************)
EXTENDS Integers, Sequences

CONSTANTS ChunkSize,     \* the chunk_size of msgpack_zone_init, 4096 here
          Doublings,     \* how often a size can be doubled before size_t wraps
          Sizes          \* the sizes a client asks for

ASSUME ZoneAssumption ==
    /\ ChunkSize \in Nat \ {0}
    /\ Doublings \in Nat
    /\ Sizes \subseteq Nat
    /\ \A k \in 0..Doublings : 2 ^ k \in Nat

VARIABLE zone

Align == 8               \* MSGPACK_ZONE_ALIGN, sizeof(void*)

RoundUp(n) == n + ((Align - (n % Align)) % Align)

\* while(sz < size) sz *= 2, or size itself when the product would wrap
Enough(start, size) == {k \in 0..Doublings : size <= start * 2 ^ k}

DoubledUntil(start, size) ==
    IF Enough(start, size) = {} THEN size
    ELSE start * 2 ^ (CHOOSE k \in Enough(start, size) :
                        \A j \in Enough(start, size) : k <= j)

\* msgpack_zone_init
zone_init == [chunks |-> <<ChunkSize>>, free |-> ChunkSize, ptr |-> 0,
              blocks |-> {}]

Block(chunk, from, size) == [chunk |-> chunk, from |-> from, size |-> size]

\* msgpack_zone_malloc_expand: a new head chunk, its first size bytes taken
malloc_expand(z, size) ==
    LET sz == DoubledUntil(ChunkSize, size)
    IN  [z EXCEPT !.chunks = Append(@, sz), !.free = sz - size, !.ptr = size]

\* mutant: the bytes skipped for alignment are not counted
zone_malloc_unadjusted(z, size) ==
    LET aligned == RoundUp(z.ptr)
        grown == malloc_expand(z, size + (Align - 1))
    IN  IF z.free >= size
        THEN [z EXCEPT !.free = @ - size,
                       !.ptr = aligned + size,
                       !.blocks = @ \cup {Block(Len(z.chunks), aligned, size)}]
        ELSE [grown EXCEPT !.blocks =
                @ \cup {Block(Len(grown.chunks), 0, size)}]

\* msgpack_zone_malloc
zone_malloc(z, size) ==
    LET aligned == RoundUp(z.ptr)
        adjusted == size + (aligned - z.ptr)
        grown == malloc_expand(z, size + (Align - 1))
    IN  IF z.free >= adjusted
        THEN [z EXCEPT !.free = @ - adjusted,
                       !.ptr = @ + adjusted,
                       !.blocks = @ \cup {Block(Len(z.chunks), aligned, size)}]
        ELSE [grown EXCEPT !.blocks =
                @ \cup {Block(Len(grown.chunks), 0, size)}]

\* msgpack_zone_clear: every chunk but the first is freed
zone_clear(z) ==
    [chunks |-> <<z.chunks[1]>>, free |-> ChunkSize, ptr |-> 0, blocks |-> {}]

-----------------------------------------------------------------------------
ZoneInit == zone = zone_init

Malloc(size) == zone' = zone_malloc(zone, size)

Clear == zone' = zone_clear(zone)

ZoneNext == Clear \/ \E size \in Sizes : Malloc(size)

ZoneSpec == ZoneInit /\ [][ZoneNext]_zone

-----------------------------------------------------------------------------
\* The cursor and the remainder account for exactly the head chunk.
CursorOk(z) ==
    /\ Len(z.chunks) >= 1
    /\ z.chunks[1] = ChunkSize
    /\ z.ptr + z.free = z.chunks[Len(z.chunks)]

\* Every block lies inside its chunk, and behind the cursor in the head chunk.
BlocksInside(z) ==
    \A b \in z.blocks :
        /\ b.chunk \in 1..Len(z.chunks)
        /\ b.from + b.size <= z.chunks[b.chunk]
        /\ b.chunk = Len(z.chunks) => b.from + b.size <= z.ptr

\* No two blocks overlap.
BlocksApart(z) ==
    \A b, c \in z.blocks :
        b # c /\ b.chunk = c.chunk =>
            b.from + b.size <= c.from \/ c.from + c.size <= b.from

\* What msgpack_zone_malloc hands out between two clears is memory of the zone
\* that no other allocation shares, whatever the sizes asked for.
ZoneInv == CursorOk(zone) /\ BlocksInside(zone) /\ BlocksApart(zone)
=============================================================================
