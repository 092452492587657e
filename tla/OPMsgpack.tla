----------------------------- MODULE OPMsgpack -----------------------------
(***************************************************************************)
(* The msgpack side of the object parser: op_msgpack_dumper.c writes a     *)
(* document as msgpack bytes, op_msgpack_loader.c reads it back.           *)
(***************************************************************************)
EXTENDS MsgPack, SequencesExt

CONSTANT KeyOutMax       \* the array a key is copied to holds 128 bytes, positive

\* the limits INT8, INT16 and INT32 are compared with strictly
MinS(n) == SignExt([i \in 1..n |-> IF i = 1 THEN 128 ELSE 0])

MaxS(n) == SignExt([i \in 1..n |-> IF i = 1 THEN 127 ELSE 255])

\* mutant: compares with UINT8_MAX, UINT16_MAX and UINT32_MAX but keeps the
\* casts to int8_t, int16_t and int32_t
SignedWidthUnsignedLimits(w) ==
    Least({n \in Widths : n = 8 \/ FitsU(w, n) \/ FitsS(w, n)})

\* the width int_setSigned picks: the limits themselves take the next one
SignedWidth(w) ==
    Least({n \in Widths : n = 8 \/ (FitsS(w, n) /\ w \notin {MinS(n), MaxS(n)})})

\* the width int_setUnsigned picks: it compares with the signed limits
UnsignedWidth(w) ==
    Least({n \in Widths :
             n = 8 \/ (~Negative(w) /\ FitsS(w, n) /\ w # MaxS(n))})

setSigned(w) == pack_int(w, SignedWidth(w))

setUnsigned(w) == pack_uint(w, UnsignedWidth(w))

\* the bytes one call of the dumper appends; the *_end calls append nothing
MsgpackCall(c) ==
    CASE c[1] = "dictionary_start" -> pack_map(c[2])
      [] c[1] = "array_start" -> pack_array(c[2])
      [] c[1] \in {"dictionary_end", "array_end"} -> <<>>
      [] c[1] \in {"setKey", "string"} -> pack_str(c[2])
      [] c[1] = "signed" -> setSigned(c[2])
      [] c[1] = "unsigned" -> setUnsigned(c[2])
      [] c[1] = "float" -> pack_float(c[2])
      [] c[1] = "double" -> pack_double(c[2])
      [] c[1] = "bool" -> pack_bool(c[2])
      [] c[1] = "binary" -> pack_bin(c[2])
      [] c[1] = "null" -> pack_nil

-----------------------------------------------------------------------------
(***************************************************************************)
(* The loader.  A token is an object; doc.stream is the caller's memory    *)
(* the strings of the objects point into.                                  *)
(***************************************************************************)
MsgpackLoad(stream) ==
    LET u == Unpack(stream)
    IN  [ok |-> u.result = "success", root |-> u.obj, stream |-> stream,
         allocs |-> u.allocs]

MsgpackType(tok) ==
    CASE tok.type = "array" -> "ARRAY"
      [] tok.type = "map" -> "DICTIONARY"
      [] tok.type = "boolean" -> "BOOL"
      [] tok.type \in {"float32", "float64"} -> "REAL"
      [] tok.type \in {"positive_integer", "negative_integer"} -> "INT"
      [] tok.type = "bin" -> "BIN"
      [] tok.type = "str" -> "STR"
      [] OTHER -> "NULL"

\* the bytes a string or binary object points at
BytesOf(doc, tok) == SubSeq(doc.stream, tok.ptr, tok.ptr + tok.size - 1)

\* dictionary_getCount and array_getCount
MsgpackCount(tok) == Len(tok.items)

\* array_get
MsgpackItem(tok, i) == tok.items[i]

\* dictionary_getAtIndex: a key that does not fit with its NUL is cut
MsgpackEntry(doc, tok, i) ==
    LET key == BytesOf(doc, tok.items[i].key)
    IN  [key |-> SubSeq(key, 1, IF KeyOutMax <= Len(key) THEN KeyOutMax - 1
                                ELSE Len(key)),
         val |-> tok.items[i].val]

\* memcmp(ptr, key, key_len): the answers it can give.  It reads on past the
\* stored key; what it reads past the end of the stream is anything.
Compare(doc, ptr, key) ==
    LET n == IF ptr + Len(key) - 1 <= Len(doc.stream) THEN Len(key)
             ELSE Len(doc.stream) - ptr + 1
        same == SubSeq(doc.stream, ptr, ptr + n - 1) = SubSeq(key, 1, n)
    IN  IF same THEN (IF n = Len(key) THEN {TRUE} ELSE BOOLEAN) ELSE {FALSE}

\* mutant: the loop does not stop at the first match
MsgpackLookupLast(doc, tok, key) ==
    LET n == Len(tok.items)
        found(i) == Compare(doc, tok.items[i].key.ptr, key)
    IN  {i \in 1..n : TRUE \in found(i) /\ \A j \in (i + 1)..n : FALSE \in found(j)}
        \cup {i \in {0} : \A j \in 1..n : FALSE \in found(j)}

\* dictionary_get: the entries it can answer with, 0 for not found
MsgpackLookup(doc, tok, key) ==
    LET n == Len(tok.items)
        found(i) == Compare(doc, tok.items[i].key.ptr, key)
    IN  {i \in 1..n : TRUE \in found(i) /\ \A j \in 1..(i - 1) : FALSE \in found(j)}
        \cup {i \in {0} : \A j \in 1..n : FALSE \in found(j)}

\* string_get with room for copy_len bytes: how many are copied, the NUL comes
\* on top.  Below zero the size_t has wrapped.
MsgpackCopyLength(tok, copy_len) ==
    IF copy_len <= tok.size THEN copy_len - 1 ELSE tok.size

MsgpackStringCopy(doc, tok, copy_len) ==
    SubSeq(BytesOf(doc, tok), 1, MsgpackCopyLength(tok, copy_len))

\* binary_get: no NUL, so all of copy_len may be used
MsgpackBinaryCopy(doc, tok, copy_len) ==
    LET len == IF copy_len <= tok.size THEN copy_len ELSE tok.size
    IN  SubSeq(BytesOf(doc, tok), 1, len)

\* binary_getRaw tests for a string, so it refuses every binary
MsgpackBinaryRaw(tok) == tok.type = "str"

\* everything a client learns of a token that is no container
MsgpackScalar(doc, tok) ==
    CASE MsgpackType(tok) = "BOOL" -> <<"bool", tok.via>>
      [] MsgpackType(tok) = "REAL" -> <<"real", tok.via>>
      [] MsgpackType(tok) = "INT" -> <<"int", tok.via>>
      [] MsgpackType(tok) = "STR" -> <<"string", BytesOf(doc, tok)>>
      [] MsgpackType(tok) = "BIN" ->
           <<"binary", MsgpackBinaryCopy(doc, tok, tok.size + 1)>>
      [] OTHER -> <<"null">>

\* a depth-first walk through the token with the loader's calls
RECURSIVE MsgpackWalk(_, _)
MsgpackWalk(doc, tok) ==
    LET part(i) ==
          IF MsgpackType(tok) = "ARRAY"
          THEN MsgpackWalk(doc, MsgpackItem(tok, i))
          ELSE <<<<"key", MsgpackEntry(doc, tok, i).key>>>>
               \o MsgpackWalk(doc, MsgpackEntry(doc, tok, i).val)
        parts == [i \in 1..MsgpackCount(tok) |-> part(i)]
    IN  IF MsgpackType(tok) \in {"ARRAY", "DICTIONARY"}
        THEN <<<<MsgpackType(tok), MsgpackCount(tok)>>>> \o FlattenSeq(parts)
        ELSE <<MsgpackScalar(doc, tok)>>
=============================================================================
