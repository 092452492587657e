------------------------------ MODULE SABuffer ------------------------------
(***************************************************************************)
(* SABuffer (sa_buffer.c): an array that grows and shrinks by whole blocks *)
(* of one_block_count elements.  A buffer is a record: its data, the       *)
(* number of blocks allocated, and moves, a history count of the calls of  *)
(* realloc(), after which every pointer handed out before is dead.         *)
(***************************************************************************)
EXTENDS Integers, Sequences

CONSTANT OneBlockCount       \* CC_AUTO_BUFFER_ONE_BLOCK_SIZE / one_data_size, positive

\* SABuffer_create
create == [data |-> <<>>, block_count |-> 1, moves |-> 0]

allocating_count(b) == OneBlockCount * b.block_count

\* mutant: a full block already asks for the next one
blocks_for_early(blocks, data_count) ==
    LET allocating == OneBlockCount * blocks
        kept == blocks - ((allocating - data_count) \div OneBlockCount)
    IN  IF allocating <= data_count
        THEN blocks + ((data_count - allocating) \div OneBlockCount) + 1
        ELSE IF kept <= 0 THEN 1 ELSE kept

\* the block count SABuffer_realloc chooses for data_count elements
blocks_for(blocks, data_count) ==
    LET allocating == OneBlockCount * blocks
        kept == blocks - ((allocating - data_count) \div OneBlockCount)
    IN  IF allocating < data_count
        THEN blocks + ((data_count - allocating) \div OneBlockCount) + 1
        ELSE IF kept <= 0 THEN 1 ELSE kept

\* SABuffer_realloc, once data_count has been set: data moves if blocks change
realloc(b) ==
    LET blocks == blocks_for(b.block_count, Len(b.data))
    IN  [b EXCEPT !.block_count = blocks,
                  !.moves = IF blocks = b.block_count THEN @ ELSE @ + 1]

\* SABuffer_clear: the blocks stay
clear(b) == [b EXCEPT !.data = <<>>]

\* SABuffer_insert_stream, at a 0-based index; out of range is refused
insert_stream(b, index, s) ==
    IF Len(b.data) < index THEN b
    ELSE realloc([b EXCEPT !.data = SubSeq(@, 1, index) \o s
                                    \o SubSeq(@, index + 1, Len(@))])

\* SABuffer_add_stream
add_stream(b, s) == insert_stream(b, Len(b.data), s)

\* SABuffer_add
add(b, x) == add_stream(b, <<x>>)

\* SABuffer_replace
replace(b, index, x) ==
    IF Len(b.data) < index + 1 THEN b ELSE [b EXCEPT !.data[index + 1] = x]

\* SABuffer_remove_stream: the tail moves down before the blocks are given back
remove_stream(b, index, count) ==
    IF Len(b.data) < index + count THEN b
    ELSE realloc([b EXCEPT !.data = SubSeq(@, 1, index)
                                    \o SubSeq(@, index + count + 1, Len(@))])

\* SABuffer_readAtIndex_pointer: the element's index and the moves seen so far
pointer(b, index) == [index |-> index, moves |-> b.moves]

\* whether a pointer still points into the buffer
alive(b, p) == p.moves = b.moves

\* The elements fit in the blocks allocated for them.
Fits(b) == Len(b.data) <= allocating_count(b)
=============================================================================
