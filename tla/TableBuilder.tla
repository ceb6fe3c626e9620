---------------------------- MODULE TableBuilder ----------------------------
(***************************************************************************)
(* How a sorted table is written: TableBuilder (sorted_table/builder.rs)   *)
(* compresses each key against the one before it and cuts the entries into *)
(* data blocks, DataBlockBuilder (data_blocks/builder.rs) lays the entries *)
(* out in the block and lists the places where a key is stored in full,    *)
(* and IndexBlock (index_blocks.rs) holds the first key of each block.     *)
(*                                                                         *)
(* What is abstracted.                                                     *)
(*  - A key is a short sequence of letters: shared prefixes matter.  Of a  *)
(*    value only its length is kept, of the sequence number nothing.       *)
(*  - An entry's header takes one byte and offsets start after the header  *)
(*    of the block.  Entries are records that know where they start.       *)
(*  - Every block is on disk before its id is used; the cache in front of  *)
(*    the disk returns the same block.                                     *)
(***************************************************************************)
EXTENDS Integers, Sequences

CONSTANTS
  Letters,     \* the letters of a key, a set of numbers
  MaxKeyLen,   \* bound: the letters of a key
  Intervals,   \* values of Params::block_restart_interval
  BlockSizes,  \* values of Params::max_key_block_size
  None

ASSUME TableAssumption ==
  /\ Letters \subseteq Nat
  /\ MaxKeyLen \in Nat
  /\ Intervals \subseteq Nat \ {0}
  /\ BlockSizes \subseteq Nat
  /\ None \notin Seq(Nat)

Key == UNION {[1 .. n -> Letters] : n \in 0 .. MaxKeyLen}
Type == {"put", "delete"}

\* The order of byte strings.
Before(a, b) ==
  \E n \in 0 .. Len(a) :
    /\ n < Len(b)
    /\ \A i \in 1 .. n : a[i] = b[i]
    /\ n < Len(a) => a[n + 1] < b[n + 1]

VARIABLES
  params,       \* [interval, block_size]
  data_block,   \* the DataBlockBuilder of the current block
  block_index,  \* the first key and the id of each finished block
  blocks,       \* the finished blocks, by id
  last_key,
  block_entry_count,
  restart_count,
  index_key,    \* the first key of the current block
  panicked,     \* an assertion of DataBlockBuilder::add_entry failed
  table,        \* the IndexBlock of the finished table
  added         \* history: the entries added so far

builderVars == <<params, data_block, block_index, blocks, last_key,
                 block_entry_count, restart_count, index_key, panicked, table,
                 added>>

NewBlock == [data |-> <<>>, position |-> 0, byte_len |-> 0, restart_list |-> <<>>]

Init ==
  /\ params \in [interval : Intervals, block_size : BlockSizes]
  /\ data_block = NewBlock
  /\ block_index = <<>>
  /\ blocks = <<>>
  /\ last_key = <<>>
  /\ block_entry_count = 0
  /\ restart_count = 0
  /\ index_key = None
  /\ panicked = FALSE
  /\ table = None
  /\ added = <<>>

-----------------------------------------------------------------------------
(* DataBlockBuilder                                                         *)

EntryLen(suffix, type) == 1 + Len(suffix) + (IF type = "put" THEN 1 ELSE 0)

\* Is the next entry a restart point of the block?
AtRestart(block) == block.position % params.interval = 0

\* DataBlockBuilder::add_entry
BlockAddEntry(block, prefix_len, suffix, type) ==
  [data |-> Append(block.data, [at |-> block.byte_len, prefix_len |-> prefix_len,
                                suffix |-> suffix, type |-> type]),
   position |-> block.position + 1,
   byte_len |-> block.byte_len + EntryLen(suffix, type),
   restart_list |-> IF AtRestart(block)
                    THEN Append(block.restart_list, block.byte_len)
                    ELSE block.restart_list]

\* DataBlockBuilder::finish, for a block that is not empty: its id is the number
\* of blocks so far.
BlockFinish(block, first_key) ==
  /\ blocks' = Append(blocks, block)
  /\ block_index' = Append(block_index, [key |-> first_key, id |-> Len(blocks) + 1])

-----------------------------------------------------------------------------
(* TableBuilder                                                             *)

\* The length of the longest prefix that two keys share.
SharedPrefix(a, b) ==
  CHOOSE n \in 0 .. Len(a) :
    /\ n <= Len(b)
    /\ \A i \in 1 .. n : a[i] = b[i]
    /\ n < Len(a) /\ n < Len(b) => a[n + 1] # b[n + 1]

\* Mutant: a new block does not start with a restart.
AfterBlock_NoReset(count, key) == [restart_count |-> count, last_key |-> key]

\* What add_entry remembers after it has finished a block.
AfterBlock(count, key) == [restart_count |-> 0, last_key |-> <<>>]

\* Mutant: one key too many between two restarts.
RestartDue_Late == restart_count > params.interval

\* As many keys have been compressed in a row as the parameters allow.
RestartDue == restart_count = params.interval

\* Callers add entries in the order of their keys, each key once.
add_entry(key, type) ==
  LET prefix_len == IF RestartDue THEN 0 ELSE SharedPrefix(key, last_key)
      suffix == SubSeq(key, prefix_len + 1, Len(key))
      count == IF RestartDue THEN 1 ELSE restart_count + 1
      first_key == IF index_key = None THEN key ELSE index_key
      block == BlockAddEntry(data_block, prefix_len, suffix, type)
      full == block_entry_count + 1 >= params.block_size
      after == IF full THEN AfterBlock(count, key)
               ELSE [restart_count |-> count, last_key |-> key]
  IN
  /\ table = None
  /\ ~panicked
  /\ Len(added) > 0 => Before(added[Len(added)].key, key)
  /\ added' = Append(added, [key |-> key, type |-> type])
  /\ panicked' = (AtRestart(data_block) /\ prefix_len # 0)
  /\ restart_count' = after.restart_count
  /\ last_key' = after.last_key
  /\ \/ /\ full
        /\ BlockFinish(block, first_key)
        /\ data_block' = NewBlock
        /\ index_key' = None
        /\ block_entry_count' = 0
     \/ /\ ~full
        /\ data_block' = block
        /\ index_key' = first_key
        /\ block_entry_count' = block_entry_count + 1
        /\ UNCHANGED <<blocks, block_index>>
  /\ UNCHANGED <<params, table>>

\* TableBuilder::finish and IndexBlock::new.  Callers pass the first and the last
\* key they add as the table's range, and never finish an empty table.
finish ==
  /\ table = None
  /\ ~panicked
  /\ Len(added) > 0
  /\ \/ /\ data_block.position > 0
        /\ BlockFinish(data_block, index_key)
     \/ /\ data_block.position = 0
        /\ UNCHANGED <<blocks, block_index>>
  /\ table' = [index |-> block_index', min_key |-> added[1].key,
               max_key |-> added[Len(added)].key]
  /\ UNCHANGED <<params, data_block, last_key, block_entry_count,
                 restart_count, index_key, panicked, added>>

Next == finish \/ \E key \in Key, type \in Type : add_entry(key, type)

Spec == Init /\ [][Next]_builderVars

-----------------------------------------------------------------------------
(* Properties.                                                              *)

Entry == [at : Nat, prefix_len : Nat, suffix : Seq(Nat), type : Type]
Block == [data : Seq(Entry), position : Nat, byte_len : Nat,
          restart_list : Seq(Nat)]
IndexEntry == [key : Seq(Nat), id : Nat]

\* Every variable has the shape of the field it models, and restart_count never
\* runs past the interval, at which add_entry tests it with ==.
BuilderTypeOK ==
  /\ params \in [interval : Intervals, block_size : BlockSizes]
  /\ data_block \in Block
  /\ block_index \in Seq(IndexEntry)
  /\ blocks \in Seq(Block)
  /\ last_key \in Seq(Nat)
  /\ block_entry_count \in Nat
  /\ restart_count \in 0 .. params.interval
  /\ index_key \in Seq(Nat) \cup {None}
  /\ panicked \in BOOLEAN
  /\ table \in {None} \cup
       [index : Seq(IndexEntry), min_key : Seq(Nat), max_key : Seq(Nat)]
  /\ added \in Seq([key : Seq(Nat), type : Type])

\* DataBlockBuilder::add_entry asserts that the key of a restart point is stored
\* in full.  The builder of the table counts restarts with a counter of its own,
\* which is reset with every block: the two stay in step.
RestartsAgree ==
  /\ ~panicked
  /\ \A b \in 1 .. Len(blocks) : \A i \in 1 .. Len(blocks[b].data) :
       (i - 1) % params.interval = 0 => blocks[b].data[i].prefix_len = 0
=============================================================================
