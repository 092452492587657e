------------------------------ MODULE MsgPack ------------------------------
(***************************************************************************)
(* The part of msgpack-c that the object parser uses: the packing macros   *)
(* (pack_template.h) and the unpacking automaton (unpack_template.h with   *)
(* the callbacks of unpack.c).                                             *)
(*                                                                         *)
(* A 64-bit value is a word: eight bytes, most significant first, in two's *)
(* complement.  The four or eight bytes of a float are opaque: FloatBytes  *)
(* gives each value numbers above 255 that no header byte equals.          *)
(***************************************************************************)
EXTENDS Integers, Sequences

CONSTANT StackSize          \* MSGPACK_EMBED_STACK_SIZE, 32 in the build

ASSUME StackAssumption == StackSize \in Nat \ {0}

Widths == {1, 2, 4, 8}

Low(w, n) == SubSeq(w, 9 - n, 8)

Extend(b, fill) ==
    [i \in 1..8 |-> IF i + Len(b) > 8 THEN b[i + Len(b) - 8] ELSE fill]

ZeroExt(b) == Extend(b, 0)

SignExt(b) == Extend(b, IF b[1] >= 128 THEN 255 ELSE 0)

Negative(w) == w[1] >= 128

FitsU(w, n) == ZeroExt(Low(w, n)) = w

FitsS(w, n) == SignExt(Low(w, n)) = w

Least(S) == CHOOSE n \in S : \A k \in S : n <= k

Log2(n) == CASE n = 1 -> 0 [] n = 2 -> 1 [] n = 4 -> 2 [] n = 8 -> 3

\* n as k bytes, most significant first
Store(n, k) == [i \in 1..k |-> (n \div 256 ^ (k - i)) % 256]

\* the number k bytes hold (lengths and counts only: never more than 2^16 here)
RECURSIVE LoadBytes(_)
LoadBytes(b) ==
    IF b = <<>> THEN 0
    ELSE 256 * LoadBytes(SubSeq(b, 1, Len(b) - 1)) + b[Len(b)]

-----------------------------------------------------------------------------
(***************************************************************************)
(* Packing                                                                 *)
(***************************************************************************)
\* fixnum below 2^7, else the narrowest unsigned form (0xcc .. 0xcf)
pack_real_uint(w) ==
    IF FitsU(w, 1) /\ w[8] < 128 THEN <<w[8]>>
    ELSE LET n == Least({k \in Widths : FitsU(w, k)})
         IN  <<204 + Log2(n)>> \o Low(w, n)

\* fixnum from -2^5, else the narrowest signed form (0xd0 .. 0xd3); a value
\* that is not negative takes the unsigned forms
pack_real_int(w) ==
    IF ~Negative(w) THEN pack_real_uint(w)
    ELSE IF FitsS(w, 1) /\ w[8] >= 224 THEN <<w[8]>>
    ELSE LET n == Least({k \in Widths : FitsS(w, k)})
         IN  <<208 + Log2(n)>> \o Low(w, n)

\* msgpack_pack_uint8 .. uint64: the argument has been cut to n bytes
pack_uint(w, n) == pack_real_uint(ZeroExt(Low(w, n)))

\* msgpack_pack_int8 .. int64
pack_int(w, n) == pack_real_int(SignExt(Low(w, n)))

FloatBytes(r, n) == [i \in 1..n |-> 1000 + 10 * r + i]

pack_float(r) == <<202>> \o FloatBytes(r, 4)

pack_double(r) == <<203>> \o FloatBytes(r, 8)

pack_nil == <<192>>

pack_bool(b) == IF b THEN <<195>> ELSE <<194>>

pack_array(n) ==
    IF n < 16 THEN <<144 + n>>
    ELSE IF n < 65536 THEN <<220>> \o Store(n, 2) ELSE <<221>> \o Store(n, 4)

pack_map(n) ==
    IF n < 16 THEN <<128 + n>>
    ELSE IF n < 65536 THEN <<222>> \o Store(n, 2) ELSE <<223>> \o Store(n, 4)

pack_str(s) ==
    LET l == Len(s)
    IN  (CASE l < 32 -> <<160 + l>>
           [] l \in 32..255 -> <<217, l>>
           [] l \in 256..65535 -> <<218>> \o Store(l, 2)
           [] OTHER -> <<219>> \o Store(l, 4)) \o s

pack_bin(s) ==
    LET l == Len(s)
    IN  (CASE l < 256 -> <<196, l>>
           [] l \in 256..65535 -> <<197>> \o Store(l, 2)
           [] OTHER -> <<198>> \o Store(l, 4)) \o s

-----------------------------------------------------------------------------
(***************************************************************************)
(* Objects.  A string or binary keeps the offset of its first byte in the  *)
(* stream it was read from, not a copy.                                    *)
(***************************************************************************)
Unsigned(b) == [type |-> "positive_integer", via |-> ZeroExt(b)]

Signed(b) ==
    [type |-> IF b[1] >= 128 THEN "negative_integer" ELSE "positive_integer",
     via |-> SignExt(b)]

Real(b) ==
    [type |-> IF Len(b) = 4 THEN "float32" ELSE "float64",
     via |-> (b[1] - 1001) \div 10]

Nil == [type |-> "nil"]

Boolean(v) == [type |-> "boolean", via |-> v]

Bytes(type, ptr, size) == [type |-> type, ptr |-> ptr, size |-> size]

\* an ext value: its first byte is the ext type
Ext(ptr, size) == [type |-> "ext", ptr |-> ptr + 1, size |-> size - 1]

Container(type) == [type |-> type, items |-> <<>>]

-----------------------------------------------------------------------------
(***************************************************************************)
(* Unpacking.  The context: p the next byte, the stack of open containers, *)
(* ret 2 while running, 1 finished, 0 more bytes needed, < 0 an error, obj *)
(* the finished object and allocs the sizes asked of the zone, in order.   *)
(***************************************************************************)
PARSE_ERROR == -1
NOMEM_ERROR == -2

ObjectSize == 24
KvSize == 48

InitContext ==
    [p |-> 1, stack |-> <<>>, ret |-> 2, obj |-> Nil, allocs |-> <<>>]

\* _push: the object completes the root, an item, a key or a value; a container
\* that gets its last item is pushed in its turn
RECURSIVE Push(_, _, _)
Push(ctx, obj, next) ==
    IF ctx.stack = <<>>
    THEN [ctx EXCEPT !.ret = 1, !.obj = obj, !.p = next]
    ELSE LET top == Len(ctx.stack)
             c == ctx.stack[top]
             below == SubSeq(ctx.stack, 1, top - 1)
             item == IF c.ct = "array_item" THEN obj
                     ELSE [key |-> c.key, val |-> obj]
             full == [c.obj EXCEPT !.items = Append(@, item)]
         IN  IF c.ct = "map_key"
             THEN [ctx EXCEPT !.p = next,
                              !.stack[top].ct = "map_value",
                              !.stack[top].key = obj]
             ELSE IF c.count = 1
             THEN Push([ctx EXCEPT !.stack = below], full, next)
             ELSE [ctx EXCEPT
                     !.p = next,
                     !.stack[top].obj = full,
                     !.stack[top].count = @ - 1,
                     !.stack[top].ct = IF @ = "map_value" THEN "map_key" ELSE @]

\* start_container: the stack is checked before an empty container is pushed
StartContainer(ctx, type, count, next) ==
    LET size == count * (IF type = "map" THEN KvSize ELSE ObjectSize)
        alloc == [ctx EXCEPT !.allocs = Append(@, size)]
        ct == IF type = "map" THEN "map_key" ELSE "array_item"
    IN  IF Len(ctx.stack) >= StackSize THEN [ctx EXCEPT !.ret = NOMEM_ERROR]
        ELSE IF count = 0 THEN Push(alloc, Container(type), next)
        ELSE [alloc EXCEPT
                !.p = next,
                !.stack = Append(@, [obj |-> Container(type), count |-> count,
                                     ct |-> ct, key |-> Nil])]

\* _str_zero, _bin_zero, _ext_zero and the ACS_*_VALUE states: size bytes at from
Variable(ctx, data, type, from, size) ==
    IF Len(data) - from + 1 < size THEN [ctx EXCEPT !.ret = 0]
    ELSE IF type = "ext" THEN Push(ctx, Ext(from, size), from + size)
    ELSE Push(ctx, Bytes(type, from, size), from + size)

\* the trail bytes of each header in the range 0xc0 .. 0xdf
TrailLength(b) ==
    CASE b \in 196..198 -> 2 ^ (b - 196)
      [] b \in 199..201 -> 2 ^ (b - 199)
      [] b = 202 -> 4
      [] b = 203 -> 8
      [] b \in 204..207 -> 2 ^ (b - 204)
      [] b \in 208..211 -> 2 ^ (b - 208)
      [] b \in 217..219 -> 2 ^ (b - 217)
      [] b \in {220, 222} -> 2
      [] b \in {221, 223} -> 4

\* the states after a header that has a fixed trail
FixedTrail(ctx, data, b) ==
    LET n == ctx.p + 1
        next == n + TrailLength(b)
        trail == SubSeq(data, n, next - 1)
    IN  IF next - 1 > Len(data) THEN [ctx EXCEPT !.ret = 0]
        ELSE CASE b \in 196..198 ->
                    Variable(ctx, data, "bin", next, LoadBytes(trail))
               [] b \in 199..201 ->
                    Variable(ctx, data, "ext", next, LoadBytes(trail) + 1)
               [] b \in 202..203 -> Push(ctx, Real(trail), next)
               [] b \in 204..207 -> Push(ctx, Unsigned(trail), next)
               [] b \in 208..211 -> Push(ctx, Signed(trail), next)
               [] b \in 217..219 ->
                    Variable(ctx, data, "str", next, LoadBytes(trail))
               [] b \in 220..221 ->
                    StartContainer(ctx, "array", LoadBytes(trail), next)
               [] b \in 222..223 ->
                    StartContainer(ctx, "map", LoadBytes(trail), next)

\* the switch on the header byte
Header(ctx, data) ==
    LET b == data[ctx.p]
        next == ctx.p + 1
    IN  CASE b < 128 -> Push(ctx, Unsigned(<<b>>), next)
          [] b \in 128..143 -> StartContainer(ctx, "map", b - 128, next)
          [] b \in 144..159 -> StartContainer(ctx, "array", b - 144, next)
          [] b \in 160..191 -> Variable(ctx, data, "str", next, b - 160)
          [] b = 192 -> Push(ctx, Nil, next)
          [] b = 193 -> [ctx EXCEPT !.ret = PARSE_ERROR]
          [] b \in 194..195 -> Push(ctx, Boolean(b = 195), next)
          [] b \in 212..216 ->
               Variable(ctx, data, "ext", next, 2 ^ (b - 212) + 1)
          [] b \in 224..255 -> Push(ctx, Signed(<<b>>), next)
          [] OTHER -> FixedTrail(ctx, data, b)

RECURSIVE Execute(_, _)
Execute(ctx, data) ==
    IF ctx.ret # 2 THEN ctx
    ELSE IF ctx.p > Len(data) THEN [ctx EXCEPT !.ret = 0]
    ELSE Execute(Header(ctx, data), data)

\* msgpack_unpack: the result code, the object and the allocations made
Unpack(data) ==
    LET ctx == Execute(InitContext, data)
    IN  [result |-> IF data = <<>> \/ ctx.ret = 0 THEN "continue"
                    ELSE IF ctx.ret < 0 THEN "error"
                    ELSE IF ctx.p <= Len(data) THEN "extra_bytes"
                    ELSE "success",
         obj |-> ctx.obj,
         allocs |-> ctx.allocs]
=============================================================================
