------------------------------- MODULE OPJson -------------------------------
(***************************************************************************)
(* The JSON side of the object parser: op_json_dumper.c writes a document  *)
(* as text, compact or indented, op_json_loader.c reads it back through    *)
(* jsmn.  A dumper is a record of its text, its depth and is_readble.      *)
(***************************************************************************)
EXTENDS Jsmn

Blank(n) == [i \in 1..n |-> Char(32)]

Indent(depth) == Blank(4 * depth)

NEWLINE == Char(10)

Null == Word(<<110, 117, 108, 108>>)
Binary == Word(<<98, 105, 110, 97, 114, 121>>)
Infinite == Word(<<105, 110, 102>>)

\* printf("%f"): six decimals of a value in units of 10^-7; infinity is a word
Inf == 100000000

PrintReal(r) == IF r = Inf THEN Infinite ELSE <<<<"real", ((r + 5) \div 10) * 10>>>>

Add(d, text) == [d EXCEPT !.buf = @ \o text]

\* vars_termination: the separator goes out with the value before it
vars_termination(d) ==
    IF d.cur_depth = 0 THEN d
    ELSE IF d.is_readble THEN Add(d, <<COMMA, NEWLINE>> \o Indent(d.cur_depth))
    ELSE Add(d, <<COMMA>>)

\* dictionary_start and array_start: an empty container gets a blank, so that
\* its end finds something to remove
container_start(d, left, count) ==
    LET deep == [d EXCEPT !.cur_depth = @ + 1]
        pad == IF count = 0 THEN Blank(1) ELSE <<>>
    IN  IF d.is_readble
        THEN Add(deep, <<left, NEWLINE>> \o Indent(deep.cur_depth) \o pad)
        ELSE Add(deep, <<left>> \o pad)

\* dictionary_end and array_end: the last separator is taken back
container_end(d, right) ==
    LET removed == IF d.is_readble THEN 2 + 4 * d.cur_depth ELSE 1
        kept == [d EXCEPT !.buf = SubSeq(@, 1, Len(@) - removed)]
        closed == IF d.is_readble
                  THEN Add(kept, <<NEWLINE>> \o Indent(d.cur_depth - 1) \o <<right>>)
                  ELSE Add(kept, <<right>>)
    IN  vars_termination([closed EXCEPT !.cur_depth = @ - 1])

\* strings and keys go out as they are, nothing is escaped
Quoted(s) == <<QUOTE>> \o Word(s) \o <<QUOTE>>

setKey(d, key) ==
    Add(d, Quoted(key) \o <<COLON>> \o (IF d.is_readble THEN Blank(1) ELSE <<>>))

\* the text of a value that is no container; %lld prints the bits of an
\* unsigned value as a signed one
ScalarText(c) ==
    CASE c[1] \in {"signed", "unsigned"} -> <<<<"int", c[2]>>>>
      [] c[1] \in {"float", "double"} -> PrintReal(c[2])
      [] c[1] = "bool" -> (IF c[2] THEN True ELSE False)
      [] c[1] = "string" -> Quoted(c[2])
      [] c[1] = "binary" -> Binary
      [] c[1] = "null" -> Null

\* one call of the dumper
JsonCall(d, c) ==
    CASE c[1] = "dictionary_start" -> container_start(d, LBRACE, c[2])
      [] c[1] = "array_start" -> container_start(d, LBRACKET, c[2])
      [] c[1] = "dictionary_end" -> container_end(d, RBRACE)
      [] c[1] = "array_end" -> container_end(d, RBRACKET)
      [] c[1] = "setKey" -> setKey(d, c[2])
      [] OTHER -> vars_termination(Add(d, ScalarText(c)))

\* dumpPtr and dumpLength first make sure that the text ends with a NUL
Terminated(d) ==
    IF d.buf # <<>> /\ d.buf[Len(d.buf)] = NUL THEN d ELSE Add(d, <<NUL>>)

\* dumpLength does not count the NUL
JsonLength(d) == Len(Terminated(d).buf) - 1

-----------------------------------------------------------------------------
(***************************************************************************)
(* The loader.  The document keeps its own copy of the text.               *)
(***************************************************************************)
JsonLoad(text) ==
    LET ps == jsmn_parse(text)
    IN  [ok |-> ps.error = "none", js |-> text, tokens |-> ps.tokens]

JsonType(doc, range) ==
    LET type == TokenOf(doc, range).type
    IN  CASE type = "ARRAY" -> "ARRAY"
          [] type = "OBJECT" -> "DICTIONARY"
          [] type \in {"TRUE", "FALSE"} -> "BOOL"
          [] type = "DOUBLE" -> "REAL"
          [] type = "INT" -> "INT"
          [] type = "STRING" -> "STR"
          [] OTHER -> "NULL"

\* dictionary_getCount and array_getCount
JsonCount(doc, range) == Len(Children(doc, range))

\* the bytes of a text made of characters
Codes(text) == [i \in 1..Len(text) |-> text[i][1]]

\* the value callbacks want a range of exactly one token
JsonScalar(doc, range) ==
    CASE JsonType(doc, range) = "NULL" -> <<"null">>
      [] range.count # 1 -> <<"refused">>
      [] JsonType(doc, range) = "BOOL" ->
           <<"bool", TokenOf(doc, range).type = "TRUE">>
      [] JsonType(doc, range) = "REAL" -> <<"real", parseAsDouble(doc, range)>>
      [] JsonType(doc, range) = "INT" -> <<"int", parseAsLong(doc, range)>>
      [] JsonType(doc, range) = "STR" ->
           <<"string", Codes(TextOf(doc, range.index_start))>>

RECURSIVE JsonWalk(_, _)
JsonWalk(doc, range) ==
    LET type == JsonType(doc, range)
        part(i) ==
          IF type = "ARRAY" THEN JsonWalk(doc, getArray(doc, range, i))
          ELSE <<<<"key", Codes(getDictionaryAtIndex(doc, range, i).key)>>>>
               \o JsonWalk(doc, getDictionaryAtIndex(doc, range, i).val)
        parts == [i \in 1..JsonCount(doc, range) |-> part(i)]
    IN  IF type \in {"ARRAY", "DICTIONARY"}
        THEN <<<<type, JsonCount(doc, range)>>>> \o FlattenSeq(parts)
        ELSE <<JsonScalar(doc, range)>>
=============================================================================
