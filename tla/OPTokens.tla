------------------------------ MODULE OPTokens ------------------------------
(***************************************************************************)
(* The tokens of the JSON loader (op_json_loader.c).  Whatever getRoot,    *)
(* array_get or dictionary_get finds is copied behind the other tokens in  *)
(* token_buff, an SABuffer, and the client gets a pointer to the copy; the *)
(* next load clears the buffer.                                            *)
(*                                                                         *)
(* held is history: the pointers handed out since the last load.           *)
(***************************************************************************)
EXTENDS Integers, Sequences

CONSTANT TokenBlock      \* tokens in a block: 1024 / sizeof(JsmnInterface_token_t), 64

ASSUME TokenAssumption == TokenBlock \in Nat \ {0, 1}

VARIABLES token_buff, held

tokenVars == <<token_buff, held>>

TB == INSTANCE SABuffer WITH OneBlockCount <- TokenBlock

\* JsmnInterface_token_t: the tokens of a JSON text that make up one item
Ranges == [index_start : Nat, count : Nat]

\* OPJsonLoader_create
TokenInit == token_buff = TB!create /\ held = <<>>

\* a token is copied into token_buff and a pointer to the copy returned
HandOut(range) ==
    /\ token_buff' = TB!add(token_buff, range)
    /\ held' = Append(held, TB!pointer(token_buff', Len(token_buff'.data) - 1))

\* a new load: the blocks stay, whatever their number
ClearTokens == token_buff' = TB!clear(token_buff) /\ held' = <<>>

TokenNext == ClearTokens \/ \E range \in Ranges : HandOut(range)

TokenSpec == TokenInit /\ [][TokenNext]_tokenVars

-----------------------------------------------------------------------------
\* the range a client's token points at; only a live one may be used
Held(h) == token_buff.data[held[h].index + 1]

Usable(h) == TB!alive(token_buff, held[h])

\* Of the tokens of one load that a client holds, exactly those are alive that
\* were taken since the tokens last outgrew a block: taking one more moves the
\* buffer, and kills all those before it, when the blocks are full and never
\* otherwise, also when earlier loads have left the buffer more blocks.
TokensLive ==
    \A h \in 1..Len(held) :
        Usable(h) <=> h > TokenBlock * ((Len(held) - 1) \div TokenBlock)
=============================================================================
