-------------------------------- MODULE Jsmn --------------------------------
(***************************************************************************)
(* The JSON tokenizer (jsmn.c) and the queries on its tokens               *)
(* (jsmn_interface.c).                                                     *)
(*                                                                         *)
(* A text is a sequence of symbols: <<c>> is the character with code c,    *)
(* <<"int", w>> the digits of a 64-bit integer and <<"real", r>> those of  *)
(* a number with a decimal point, each one symbol.  Tokens are numbered    *)
(* from 1; parent and super are 0 where the code has -1, and end is 0      *)
(* while a container is open.                                              *)
(***************************************************************************)
EXTENDS Integers, Sequences, SequencesExt

Char(c) == <<c>>
NUL == Char(0)
QUOTE == Char(34)
BACKSLASH == Char(92)
COMMA == Char(44)
COLON == Char(58)
LBRACE == Char(123)
RBRACE == Char(125)
LBRACKET == Char(91)
RBRACKET == Char(93)
Blanks == {Char(9), Char(13), Char(10), Char(32)}

\* the symbol of a number
IsNumber(s, type) == Len(s) = 2 /\ s[1] = type

Word(codes) == [i \in 1..Len(codes) |-> Char(codes[i])]

True == Word(<<116, 114, 117, 101>>)
False == Word(<<102, 97, 108, 115, 101>>)

\* " / \ b f r n t
Escapes == {Char(c) : c \in {34, 47, 92, 98, 102, 114, 110, 116}}

Hex == {Char(c) : c \in (48..57) \cup (65..70) \cup (97..102)}

\* the first position from p on at which nothing more is read
StopAt(js, p, S) ==
    CHOOSE e \in p..(Len(js) + 1) :
        /\ e = Len(js) + 1 \/ js[e] \in S \cup {NUL}
        /\ \A i \in p..(e - 1) : js[i] \notin S \cup {NUL}

-----------------------------------------------------------------------------
\* jsmn_init
jsmn_init == [pos |-> 1, tokens |-> <<>>, super |-> 0, error |-> "none"]

\* jsmn_alloc_token and jsmn_fill_token
AddToken(ps, type, start, end) ==
    [ps EXCEPT !.tokens = Append(@, [type |-> type, start |-> start,
                                     end |-> end, size |-> 0,
                                     parent |-> ps.super])]

\* the token a value was added under counts one more child
CountChild(ps) ==
    IF ps.super = 0 THEN ps ELSE [ps EXCEPT !.tokens[ps.super].size = @ + 1]

\* the type jsmn_parse_primitive gives the symbols of a primitive: null,
\* binary, inf and nan have neither a point nor the first letter of a boolean
PrimitiveType(js, start, end) ==
    LET text == SubSeq(js, start, end - 1)
    IN  CASE js[start] = False[1] ->
               (IF IsPrefix(False, text) THEN "FALSE" ELSE "UNDEFINED")
          [] js[start] = True[1] ->
               (IF IsPrefix(True, text) THEN "TRUE" ELSE "UNDEFINED")
          [] OTHER -> (IF \E i \in 1..Len(text) :
                            IsNumber(text[i], "real") \/ text[i] = Char(46)
                       THEN "DOUBLE" ELSE "INT")

jsmn_parse_primitive(ps, js) ==
    LET end == StopAt(js, ps.pos, Blanks \cup {COLON, COMMA, RBRACKET, RBRACE})
        printable(s) == Len(s) = 1 => s[1] \in 32..126
    IN  IF \E i \in ps.pos..(end - 1) : ~printable(js[i])
        THEN [ps EXCEPT !.error = "inval"]
        ELSE [AddToken(ps, PrimitiveType(js, ps.pos, end), ps.pos, end)
                EXCEPT !.pos = end - 1]

\* the closing quote of a string whose text goes on at p; 0 when it is cut off,
\* -1 after a bad escape.  \u reads up to four hexadecimal digits.
RECURSIVE StringEnd(_, _)
StringEnd(js, p) ==
    LET q == StopAt(js, p, {QUOTE, BACKSLASH})
        digits == IF q + 5 <= Len(js) THEN q + 5 ELSE Len(js)
    IN  CASE q > Len(js) \/ js[q] = NUL -> 0
          [] js[q] = QUOTE -> q
          [] q = Len(js) -> 0
          [] js[q + 1] \in Escapes -> StringEnd(js, q + 2)
          [] js[q + 1] = Char(117) ->
               (IF \A i \in (q + 2)..digits : js[i] \in Hex
                THEN StringEnd(js, digits + 1) ELSE -1)
          [] OTHER -> -1

\* a string directly under an object is a key
jsmn_parse_string(ps, js) ==
    LET end == StringEnd(js, ps.pos + 1)
        type == IF ps.super # 0 /\ ps.tokens[ps.super].type = "OBJECT"
                THEN "KEY" ELSE "STRING"
    IN  CASE end = 0 -> [ps EXCEPT !.error = "part"]
          [] end = -1 -> [ps EXCEPT !.error = "inval"]
          [] OTHER -> [AddToken(ps, type, ps.pos + 1, end) EXCEPT !.pos = end]

\* the chain of parents of token t, t first
RECURSIVE Ancestors(_, _)
Ancestors(tokens, t) ==
    IF t = 0 THEN <<>> ELSE <<t>> \o Ancestors(tokens, tokens[t].parent)

Open(tok) == tok.end = 0

\* '}' or ']': the nearest open ancestor of the last token is closed, if it has
\* the right type; with none open, the outermost one decides
CloseContainer(ps, type) ==
    LET chain == Ancestors(ps.tokens, Len(ps.tokens))
        open == SelectSeq(chain, LAMBDA t : Open(ps.tokens[t]))
        outer == ps.tokens[chain[Len(chain)]]
        inval == [ps EXCEPT !.error = "inval"]
    IN  CASE ps.tokens = <<>> -> inval
          [] open # <<>> ->
               (IF ps.tokens[open[1]].type # type THEN inval
                ELSE [ps EXCEPT !.tokens[open[1]].end = ps.pos + 1,
                                !.super = ps.tokens[open[1]].parent])
          [] OTHER -> (IF outer.type # type \/ ps.super = 0 THEN inval ELSE ps)

\* '{' or '['
OpenContainer(ps, type) ==
    LET added == AddToken(CountChild(ps), type, ps.pos, 0)
    IN  [added EXCEPT !.super = Len(added.tokens)]

\* ',': back from a key to its object
NextMember(ps) ==
    IF ps.super # 0 /\ ps.tokens[ps.super].type \notin {"ARRAY", "OBJECT"}
    THEN [ps EXCEPT !.super = ps.tokens[ps.super].parent] ELSE ps

\* one round of the loop of jsmn_parse, before pos is advanced
Symbol(ps, js) ==
    LET c == js[ps.pos]
    IN  CASE c = LBRACE -> OpenContainer(ps, "OBJECT")
          [] c = LBRACKET -> OpenContainer(ps, "ARRAY")
          [] c = RBRACE -> CloseContainer(ps, "OBJECT")
          [] c = RBRACKET -> CloseContainer(ps, "ARRAY")
          [] c = QUOTE -> CountChild(jsmn_parse_string(ps, js))
          [] c \in Blanks -> ps
          [] c = COLON -> [ps EXCEPT !.super = Len(ps.tokens)]
          [] c = COMMA -> NextMember(ps)
          [] OTHER -> CountChild(jsmn_parse_primitive(ps, js))

\* jsmn_parse: the loop, then the test for a container left open
RECURSIVE ParseFrom(_, _)
ParseFrom(ps, js) ==
    IF ps.error # "none" \/ ps.pos > Len(js) \/ js[ps.pos] = NUL THEN ps
    ELSE LET next == Symbol(ps, js)
         IN  ParseFrom([next EXCEPT !.pos = @ + 1], js)

\* mutant: no test for a container left open
jsmn_parse_unchecked(js) == ParseFrom(jsmn_init, js)

jsmn_parse(js) ==
    LET ps == ParseFrom(jsmn_init, js)
    IN  IF ps.error = "none" /\ \E i \in 1..Len(ps.tokens) : Open(ps.tokens[i])
        THEN [ps EXCEPT !.error = "part"] ELSE ps

-----------------------------------------------------------------------------
(***************************************************************************)
(* Queries.  A document is the text and its tokens; a token range, as the  *)
(* interface hands it out, is the first token and how many belong to it.   *)
(***************************************************************************)
Range0(index, count) == [index_start |-> index, count |-> count]

getRoot(doc) == Range0(1, Len(doc.tokens))

\* searchTokCurRange: up to the first later token that hangs no deeper
searchTokCurRange(doc, t) ==
    LET parent == doc.tokens[t].parent
        ends == {i \in (t + 1)..Len(doc.tokens) : doc.tokens[i].parent <= parent}
        end == IF ends = {} THEN Len(doc.tokens) + 1
               ELSE CHOOSE i \in ends : \A j \in ends : i <= j
    IN  Range0(t, end - t)

TokenOf(doc, range) == doc.tokens[range.index_start]

TextOf(doc, t) == SubSeq(doc.js, doc.tokens[t].start, doc.tokens[t].end - 1)

\* the tokens of the range directly below its first one, in order
Children(doc, range) ==
    SelectSeq([i \in 1..range.count |-> range.index_start + i - 1],
              LAMBDA t : doc.tokens[t].parent = range.index_start)

\* getArray, with a 1-based index
getArray(doc, range, i) == searchTokCurRange(doc, Children(doc, range)[i])

\* getDictionaryAtIndex: the value is the token after the key
getDictionaryAtIndex(doc, range, i) ==
    LET key == Children(doc, range)[i]
    IN  [key |-> TextOf(doc, key), val |-> searchTokCurRange(doc, key + 1)]

\* getDictionary: the first entry with this key, 0 for not found
getDictionary(doc, range, key) ==
    LET keys == Children(doc, range)
        hits == {i \in 1..Len(keys) : TextOf(doc, keys[i]) = key}
    IN  IF hits = {} THEN 0 ELSE CHOOSE i \in hits : \A j \in hits : i <= j

\* atol of a text that is no number is 0
Zero == [i \in 1..8 |-> 0]

parseAsLong(doc, range) ==
    LET s == doc.js[TokenOf(doc, range).start]
    IN  IF IsNumber(s, "int") THEN s[2] ELSE Zero

parseAsDouble(doc, range) == doc.js[TokenOf(doc, range).start][2]

\* parseAsString with room for copy_len characters: how many are copied.  The
\* place of the NUL is subtracted even where copy_len had been cut down to the
\* length of the string.  Below zero the size_t has wrapped.
StringCopyLength(doc, range, copy_len) ==
    LET size == TokenOf(doc, range).end - TokenOf(doc, range).start
    IN  (IF size < copy_len - 1 THEN size ELSE copy_len) - 1

parseAsString(doc, range, copy_len) ==
    SubSeq(TextOf(doc, range.index_start), 1, StringCopyLength(doc, range, copy_len))
=============================================================================
