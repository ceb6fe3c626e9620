---------------------------- MODULE SortedTable ----------------------------
(***************************************************************************)
(* How a sorted table is read: SortedTable::get searches the index block   *)
(* (index_blocks.rs) for a data block and the data block for the key       *)
(* (data_blocks/block.rs), and TableIterator (sorted_table/iterator.rs)    *)
(* walks over the entries in either direction.  The tables are those that  *)
(* TableBuilder writes; positions count from 0, as in the code.            *)
(***************************************************************************)
EXTENDS TableBuilder

-----------------------------------------------------------------------------
(* DataBlock                                                                *)

\* A read outside of the block, or of more of the previous key than there is.
Panic == [key |-> None, type |-> None, next |-> 0]

\* The key and the entry at an offset, and the offset of the entry behind it.
get_entry_at_offset(block, offset, previous_key) ==
  LET here == {i \in DOMAIN block.data :
                 /\ block.data[i].at = offset
                 /\ block.data[i].prefix_len <= Len(previous_key)}
      e == block.data[CHOOSE i \in here : TRUE]
  IN  IF here = {} THEN Panic
      ELSE [key |-> SubSeq(previous_key, 1, e.prefix_len) \o e.suffix,
            type |-> e.type, next |-> offset + EntryLen(e.suffix, e.type)]

restart_list_len(block) == Len(block.restart_list)
get_restart_offset(block, pos) == block.restart_list[pos + 1]
get_num_entries(block) == block.position

\* From the closest restart point, one entry after the other.
get_entry_at_index(block, index) ==
  LET restart_pos == index \div params.interval
      first == restart_pos * params.interval
      walk[i \in first .. index] ==
        IF i = first
        THEN get_entry_at_offset(block, get_restart_offset(block, restart_pos), <<>>)
        ELSE IF walk[i - 1] = Panic THEN Panic
        ELSE get_entry_at_offset(block, walk[i - 1].next, walk[i - 1].key)
  IN  walk[index]

\* Mutant: the last part of the block, which no restart point ends, is left out.
RangeEnd_LastRestart(block, end) == get_restart_offset(block, end)

\* Where the sequential search ends if the binary search ended at restart end.
RangeEnd(block, end) ==
  IF end + 1 = restart_list_len(block) THEN block.byte_len
  ELSE get_restart_offset(block, end)

\* DataBlock::binary_search, over the restart points: an exact match, or the
\* first restart point and the offset between which the key may be.
BlockSearch(block, key) ==
  LET last == restart_list_len(block) - 1
      search[start \in 0 .. last, end \in 0 .. last] ==
        LET mid == start + (end - start) \div 2
            this == get_entry_at_offset(block, get_restart_offset(block, mid), <<>>)
        IN  IF end - start <= 1
            THEN [exact |-> None, start |-> start, end |-> RangeEnd(block, end)]
            ELSE IF this.key = key
            THEN [exact |-> this, start |-> mid, end |-> mid]
            ELSE IF this # Panic /\ Before(this.key, key) THEN search[mid, end]
            ELSE search[start, mid]
  IN  search[0, last]

\* The sequential part of get_by_key.
RECURSIVE Scan(_, _, _, _, _)
Scan(block, key, pos, end, previous_key) ==
  LET this == get_entry_at_offset(block, pos, previous_key) IN
  IF pos >= end THEN None
  ELSE IF this = Panic \/ this.key = key THEN this
  ELSE Scan(block, key, this.next, end, this.key)

\* A Bloom filter says yes for every key that was added and may say yes for
\* others: positive is what it says for a key that was not.
BloomCheck(block, key, positive) ==
  positive \/ \E i \in DOMAIN block.data :
                get_entry_at_index(block, i - 1).key = key

get_by_key(block, key, positive) ==
  LET found == BlockSearch(block, key) IN
  IF ~BloomCheck(block, key, positive) THEN None
  ELSE IF found.exact # None THEN found.exact
  ELSE Scan(block, key, get_restart_offset(block, found.start), found.end, <<>>)

-----------------------------------------------------------------------------
(* IndexBlock and SortedTable::get                                          *)

num_data_blocks == Len(table.index)
get_block_key(pos) == table.index[pos + 1].key
get_block_id(pos) == table.index[pos + 1].id

\* DataBlocks::get_block, from the cache or from disk.
get_block(id) == blocks[id]

InRange(key) == ~Before(key, table.min_key) /\ ~Before(table.max_key, key)

\* IndexBlock::binary_search: the position of the block that may hold a key in
\* the range of the table, -1 if the assertion fails.
IndexSearch(key) ==
  LET search[start \in 0 .. num_data_blocks - 1, end \in 0 .. num_data_blocks - 1] ==
        LET mid == (end - start) \div 2 + start IN
        IF end - start <= 1
        THEN IF Before(key, get_block_key(start)) THEN -1
             ELSE IF Before(key, get_block_key(end)) THEN start ELSE end
        ELSE IF get_block_key(mid) = key THEN mid
        ELSE IF Before(key, get_block_key(mid)) THEN search[start, mid]
        ELSE search[mid, end]
  IN  search[0, num_data_blocks - 1]

get(key, positive) ==
  LET pos == IndexSearch(key) IN
  IF ~InRange(key) THEN None
  ELSE IF pos = -1 THEN Panic
  ELSE get_by_key(get_block(get_block_id(pos)), key, positive)

-----------------------------------------------------------------------------
(* TableIterator.  block_pos and block_offset are the place of the entry    *)
(* that the next step reads: a byte offset forwards, an index backwards.    *)

BlockAt(pos) == get_block(get_block_id(pos))

\* Mutant: a block is left one entry too early.
BeforeFirst_Early(pos, index) ==
  IF index > 1 THEN [block_pos |-> pos, block_offset |-> index - 1]
  ELSE [block_pos |-> pos - 1,
        block_offset |-> IF pos > 0 THEN get_num_entries(BlockAt(pos - 1)) - 1 ELSE 0]

\* Backwards, the place before the entry at an index of a block.
BeforeFirst(pos, index) ==
  IF index > 0 THEN [block_pos |-> pos, block_offset |-> index - 1]
  ELSE [block_pos |-> pos - 1,
        block_offset |-> IF pos > 0 THEN get_num_entries(BlockAt(pos - 1)) - 1 ELSE 0]

\* Forwards, the place behind an entry that ends at an offset of a block.
Behind(pos, next) ==
  IF next >= BlockAt(pos).byte_len THEN [block_pos |-> pos + 1, block_offset |-> 0]
  ELSE [block_pos |-> pos, block_offset |-> next]

\* The entry at a place becomes the current one.
ReadAt(reverse, place, previous_key) ==
  LET block == BlockAt(place.block_pos)
      entry == IF reverse THEN get_entry_at_index(block, place.block_offset)
               ELSE get_entry_at_offset(block, place.block_offset, previous_key)
  IN  [entry |-> entry,
       place |-> IF reverse THEN BeforeFirst(place.block_pos, place.block_offset)
                 ELSE Behind(place.block_pos, entry.next)]

TableIterator(reverse) ==
  ReadAt(reverse,
         IF reverse
         THEN [block_pos |-> num_data_blocks - 1,
               block_offset |-> get_num_entries(BlockAt(num_data_blocks - 1)) - 1]
         ELSE [block_pos |-> 0, block_offset |-> 0], <<>>)

at_end(reverse, it) ==
  IF reverse THEN it.place.block_pos < -1 ELSE it.place.block_pos > num_data_blocks

\* Behind the last entry, one more step reaches the end.
step(reverse, it) ==
  IF it.place.block_pos = (IF reverse THEN -1 ELSE num_data_blocks)
  THEN [it EXCEPT !.place.block_pos = IF reverse THEN -2 ELSE num_data_blocks + 1]
  ELSE ReadAt(reverse, it.place, it.entry.key)

\* What a caller gets that steps to the end.
RECURSIVE Entries(_, _)
Entries(reverse, it) ==
  IF at_end(reverse, it) THEN <<>>
  ELSE <<[key |-> it.entry.key, type |-> it.entry.type]>>
         \o (IF it.entry = Panic THEN <<>> ELSE Entries(reverse, step(reverse, it)))

-----------------------------------------------------------------------------
(* Properties.                                                              *)

\* SortedTable::get returns the entry that was added for the key and None for
\* any other key, whatever the sizes of blocks and the distance of restart
\* points, the position of the key in its block and the Bloom filter's answer;
\* no assertion of the searches fails.
GetFindsAdded ==
  table # None => \A key \in Key, positive \in BOOLEAN :
    LET mine == {i \in DOMAIN added : added[i].key = key}
        got == get(key, positive)
    IN  IF mine = {} THEN got = None
        ELSE /\ got # None
             /\ \A i \in mine : [key |-> got.key, type |-> got.type] = added[i]

\* TableIterator: "Returns the entries within a table in order", all of them,
\* each once, and in the opposite order when it goes backwards; it ends.
IteratesInOrder ==
  table # None =>
    /\ Entries(FALSE, TableIterator(FALSE)) = added
    /\ Entries(TRUE, TableIterator(TRUE)) =
         [i \in DOMAIN added |-> added[Len(added) + 1 - i]]
=============================================================================
