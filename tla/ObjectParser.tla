---------------------------- MODULE ObjectParser ----------------------------
(***************************************************************************)
(* The object parser as its clients see it (op_dumper.c, op_loader.c): a   *)
(* dumper of one of three kinds takes a document call by call, dumpRead    *)
(* copies the result into the client's buffer, a loader of the same format *)
(* parses that buffer and hands out tokens.                                *)
(*                                                                         *)
(* The client is a legal one: it announces each container's size and       *)
(* writes exactly that many items, gives every item of a dictionary a key  *)
(* first, closes what it opens, and writes one root.                       *)
(***************************************************************************)
EXTENDS OPMsgpack, OPJson, MsgPackZone, OPTokens

CONSTANTS Kinds,          \* subset of {"json", "readable", "msgpack"}
          Keys,           \* keys, non-empty sequences of character codes
          Scalars,        \* calls written only where no larger container is open
          InnerScalars,   \* calls written anywhere
          Counts,         \* sizes of containers
          Wide,           \* a size only filled with nulls under one key
          MaxDepth,       \* bound: containers open at once
          MaxItems,       \* bound: calls of one document
          Cuts,           \* how much too small the buffer of dumpRead is
          MaxLoads,       \* bound: loads with one loader
          MaxTokens       \* bound: tokens taken from one load

VARIABLES kind, dumper, calls, open, peeked, doc, cut, loads

vars == <<kind, dumper, calls, open, peeked, doc, cut, loads, zone, tokenVars>>

dumping == <<kind, dumper, calls, open, peeked>>
loading == <<doc, cut, loads, zone, tokenVars>>

ASSUME ParserAssumption ==
    MaxItems \in Nat /\ MaxTokens \in Nat /\ KeyOutMax \in Nat \ {0}

NoDoc == [ok |-> FALSE]

OPInit ==
    /\ kind \in Kinds
    /\ dumper = [buf |-> <<>>, cur_depth |-> 0, is_readble |-> kind = "readable"]
    /\ calls = <<>>
    /\ open = <<>>
    /\ peeked = "no"
    /\ doc = NoDoc
    /\ cut = 0
    /\ loads = 0
    /\ zone = zone_init
    /\ TokenInit

-----------------------------------------------------------------------------
(***************************************************************************)
(* Dumping.  OPDumper_* calls the callback of the dumper's format.         *)
(***************************************************************************)
Dump(c) ==
    /\ dumper' = IF kind = "msgpack"
                 THEN [dumper EXCEPT !.buf = @ \o MsgpackCall(c)]
                 ELSE JsonCall(dumper, c)
    /\ calls' = Append(calls, c)

Top == open[Len(open)]

\* the client may write an item now
ItemDue == IF open = <<>> THEN calls = <<>> ELSE Top.keyed /\ Top.left > 0

\* the stack of open containers once an item is under way
ItemTaken ==
    IF open = <<>> THEN open
    ELSE [open EXCEPT ![Len(open)].left = @ - 1,
                      ![Len(open)].keyed = Top.type = "array"]

InWide == \E i \in 1..Len(open) : open[i].count = Wide

Alone == \A i \in 1..Len(open) : open[i].count = 1

WriteScalar(c) ==
    /\ loads = 0 /\ ItemDue /\ (InWide \/ Len(calls) < MaxItems)
    /\ InWide => c = <<"null">>
    /\ c \notin InnerScalars => Alone
    /\ Dump(c)
    /\ open' = ItemTaken
    /\ UNCHANGED <<kind, peeked, loading>>

StartContainerOf(type, n) ==
    /\ loads = 0 /\ ItemDue /\ ~InWide
    /\ Len(calls) < MaxItems /\ Len(open) < MaxDepth
    /\ n = Wide => open = <<>>
    /\ Dump(<<IF type = "array" THEN "array_start" ELSE "dictionary_start", n>>)
    /\ open' = Append(ItemTaken, [type |-> type, count |-> n, left |-> n,
                                  keyed |-> type = "array"])
    /\ UNCHANGED <<kind, peeked, loading>>

EndContainer ==
    /\ loads = 0 /\ open # <<>> /\ Top.left = 0
    /\ Dump(<<IF Top.type = "array" THEN "array_end" ELSE "dictionary_end">>)
    /\ open' = SubSeq(open, 1, Len(open) - 1)
    /\ UNCHANGED <<kind, peeked, loading>>

SetKey(key) ==
    /\ loads = 0 /\ open # <<>> /\ ~Top.keyed /\ Top.left > 0
    /\ InWide => key = CHOOSE k \in Keys : TRUE
    /\ Dump(<<"setKey", key>>)
    /\ open' = [open EXCEPT ![Len(open)].keyed = TRUE]
    /\ UNCHANGED <<kind, peeked, loading>>

\* OPDumper_dumpLength or dumpPtr before the document is complete
Peek ==
    /\ loads = 0 /\ peeked = "no" /\ kind # "msgpack" /\ ~InWide
    /\ calls = <<>> \/ open # <<>>
    /\ dumper' = Terminated(dumper)
    /\ peeked' = IF calls = <<>> THEN "empty" ELSE "inside"
    /\ UNCHANGED <<kind, calls, open, loading>>

-----------------------------------------------------------------------------
(***************************************************************************)
(* Loading.                                                                *)
(***************************************************************************)
DumpLength == IF kind = "msgpack" THEN Len(dumper.buf) ELSE JsonLength(dumper)

\* OPDumper_dumpRead into a buffer of out_len bytes
DumpRead(out_len) ==
    SubSeq(dumper.buf, 1, IF out_len < DumpLength THEN out_len ELSE DumpLength)

Written == calls # <<>> /\ open = <<>>

\* OPLoader_load of what dumpRead gave: the msgpack loader clears its zone and
\* takes the containers from it, the JSON loader clears its token buffer
Load(short) ==
    /\ Written /\ loads < MaxLoads /\ short < DumpLength
    /\ LET stream == DumpRead(DumpLength - short)
           d == IF kind = "msgpack" THEN MsgpackLoad(stream) ELSE JsonLoad(stream)
       IN  /\ doc' = d
           /\ zone' = IF kind = "msgpack"
                      THEN FoldLeft(zone_malloc, zone_clear(zone), d.allocs)
                      ELSE zone
    /\ dumper' = IF kind = "msgpack" THEN dumper ELSE Terminated(dumper)
    /\ IF kind = "msgpack" THEN UNCHANGED tokenVars ELSE ClearTokens
    /\ cut' = short
    /\ loads' = loads + 1
    /\ UNCHANGED <<kind, calls, open, peeked>>

Taking == kind # "msgpack" /\ doc.ok /\ doc.tokens # <<>> /\ Len(held) < MaxTokens

TakeRoot ==
    /\ Taking
    /\ HandOut(getRoot(doc))
    /\ UNCHANGED <<dumping, doc, cut, loads, zone>>

\* array_get, dictionary_getAtIndex, or dictionary_get of the entry's key
TakeItem(h, i) ==
    /\ Taking /\ Usable(h)
    /\ JsonType(doc, Held(h)) \in {"ARRAY", "DICTIONARY"}
    /\ i <= JsonCount(doc, Held(h))
    /\ HandOut(IF JsonType(doc, Held(h)) = "ARRAY" THEN getArray(doc, Held(h), i)
               ELSE getDictionaryAtIndex(doc, Held(h), i).val)
    /\ UNCHANGED <<dumping, doc, cut, loads, zone>>

OPNext ==
    \/ \E c \in Scalars : WriteScalar(c)
    \/ \E type \in {"array", "dictionary"}, n \in Counts : StartContainerOf(type, n)
    \/ EndContainer
    \/ \E key \in Keys : SetKey(key)
    \/ Peek
    \/ \E short \in Cuts : Load(short)
    \/ TakeRoot
    \/ \E h \in 1..Len(held), i \in 1..2 : TakeItem(h, i)

OPSpec == OPInit /\ [][OPNext]_vars

-----------------------------------------------------------------------------
(***************************************************************************)
(* What was written, and what a client reads                               *)
(***************************************************************************)
IsStart(c) == c[1] \in {"array_start", "dictionary_start"}

IsEnd(c) == c[1] \in {"array_end", "dictionary_end"}

RootIsContainer == IsStart(calls[1])

\* containers open after the first i calls
DepthAt(i) ==
    LET seen == SubSeq(calls, 1, i)
    IN  Len(SelectSeq(seen, IsStart)) - Len(SelectSeq(seen, IsEnd))

Depth == CHOOSE d \in 0..MaxDepth :
            /\ \E i \in 0..Len(calls) : DepthAt(i) = d
            /\ \A i \in 0..Len(calls) : DepthAt(i) <= d

\* a string JSON can carry: no quote, and every backslash starts an escape
Carried(s) ==
    /\ 34 \notin ToSet(s)
    /\ 92 \in ToSet(s) => s = <<92, 110>>

Plain == \A i \in 1..Len(calls) : calls[i][1] = "string" => Carried(calls[i][2])

\* the key as dictionary_getAtIndex gives it: msgpack's cuts what is too long
KeyRead(key) ==
    IF kind = "msgpack" /\ Len(key) >= KeyOutMax THEN SubSeq(key, 1, KeyOutMax - 1)
    ELSE key

\* what reading a call's item back yields; JSON has no null, no binary and no
\* infinity, and keeps six decimals
ReadBack(c) ==
    LET json == kind # "msgpack"
    IN  CASE c[1] = "array_start" -> <<"ARRAY", c[2]>>
          [] c[1] = "dictionary_start" -> <<"DICTIONARY", c[2]>>
          [] c[1] = "setKey" -> <<"key", KeyRead(c[2])>>
          [] c[1] \in {"signed", "unsigned"} -> <<"int", c[2]>>
          [] c[1] \in {"null", "binary"} /\ json -> <<"int", Zero>>
          [] c[1] \in {"float", "double"} /\ json ->
               (IF c[2] = Inf THEN <<"int", Zero>>
                ELSE <<"real", ((c[2] + 5) \div 10) * 10>>)
          [] c[1] \in {"float", "double"} -> <<"real", c[2]>>
          [] OTHER -> c

Expected ==
    LET kept == SelectSeq(calls, LAMBDA c : ~IsEnd(c))
    IN  [i \in 1..Len(kept) |-> ReadBack(kept[i])]

Walk == IF kind = "msgpack" THEN MsgpackWalk(doc, doc.root)
        ELSE JsonWalk(doc, getRoot(doc))

-----------------------------------------------------------------------------
(***************************************************************************)
(* Properties                                                              *)
(***************************************************************************)
\* What the dumpers write, the loaders read back: a complete document loads,
\* unless msgpack's unpacker runs out of its fixed stack, and yields the items
\* that were written, in order, at every boundary of the integer and length
\* encodings.  A JSON document whose length was asked for while it was being
\* written holds a NUL: it is refused or read back whole, never read as
\* something else.
RoundTrip ==
    loads > 0 /\ cut = 0 /\ Plain /\ peeked # "empty" =>
        /\ doc.ok => Walk = Expected
        /\ peeked = "no" => (doc.ok <=> (kind = "msgpack" => Depth <= StackSize))

\* dumpRead cuts a document that does not fit and only logs it; the loaders
\* notice: a container that lost its end is never accepted.
CutIsRefused ==
    loads > 0 /\ cut > 0 /\ peeked # "empty" /\ Plain /\ RootIsContainer => ~doc.ok

\* the keys of the root dictionary, in order
RootKeys ==
    LET at(i) == DepthAt(i) = 1 /\ calls[i][1] = "setKey"
        indices == SelectSeq([i \in 1..Len(calls) |-> i], at)
    IN  [i \in 1..Len(indices) |-> calls[indices[i]][2]]

First(keys, key) ==
    LET hits == {i \in 1..Len(keys) : keys[i] = key}
    IN  IF hits = {} THEN 0 ELSE CHOOSE i \in hits : \A j \in hits : i <= j

\* JSON's dictionary_get finds the first entry of that key and no other.
\* msgpack's compares as many bytes as the wanted key has.  So it always finds
\* the first key that begins with the wanted one, unless an earlier key, too
\* short for that, is completed by the bytes that happen to follow it; and it
\* finds nothing only if there is no such key.
DictionaryGetRight ==
    loads > 0 /\ cut = 0 /\ doc.ok /\ peeked = "no" /\ Plain
        /\ calls[1][1] = "dictionary_start" =>
        \A key \in Keys :
            LET begins == {j \in 1..Len(RootKeys) : IsPrefix(key, RootKeys[j])}
                found  == MsgpackLookup(doc, doc.root, key)
            IN  IF kind = "msgpack"
                THEN /\ found # {} /\ (begins = {} \/ 0 \notin found)
                     /\ \A i \in found \ {0} :
                           /\ i \in begins \/ IsStrictPrefix(RootKeys[i], key)
                           /\ \A j \in begins : i <= j
                ELSE getDictionary(doc, getRoot(doc), Word(key)) = First(RootKeys, key)

\* string_get into a buffer of copy_len bytes copies the front of the string and
\* leaves room for the NUL.  It copies as much as there is room for, except that
\* JSON's loses the last character where there is room to spare.  The length
\* wraps around where there is no room for a NUL or, with JSON, no character to
\* lose, and nowhere else.
StringGetRight ==
    loads > 0 /\ cut = 0 /\ doc.ok /\ peeked = "no" /\ Plain
        /\ calls[1][1] = "string" =>
        \A copy_len \in 0..4 :
            LET root == getRoot(doc)
                s == calls[1][2]
                lost == IF kind # "msgpack" /\ Len(s) + 1 < copy_len THEN 1 ELSE 0
                room == IF Len(s) < copy_len THEN Len(s) ELSE copy_len - 1
                len == IF kind = "msgpack" THEN MsgpackCopyLength(doc.root, copy_len)
                       ELSE StringCopyLength(doc, root, copy_len)
                copy == IF kind = "msgpack"
                        THEN MsgpackStringCopy(doc, doc.root, copy_len)
                        ELSE Codes(parseAsString(doc, root, copy_len))
            IN  /\ len < 0 <=> copy_len = 0 \/ (s = <<>> /\ lost = 1)
                /\ len >= 0 => copy = SubSeq(s, 1, room - lost) /\ Len(copy) = len

\* The accessors by key and by length return what was written.
AccessorsRight == DictionaryGetRight /\ StringGetRight
=============================================================================
