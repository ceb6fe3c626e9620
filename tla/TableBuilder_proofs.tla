------------------------ MODULE TableBuilder_proofs -------------------------
(* Theorems about TableBuilder, for any keys, restart interval and size of a *)
(* block.                                                                    *)
EXTENDS TableBuilder, SequenceTheorems, WellFoundedInduction, TLAPS

-----------------------------------------------------------------------------
(* The inductive invariant.                                                 *)

\* Every key that starts a restart interval of the block is stored in full.
InFull(block) ==
  \A i \in 1 .. Len(block.data) :
    (i - 1) % params.interval = 0 => block.data[i].prefix_len = 0

\* restart_count is the number of entries since the last restart of the block,
\* that one included; a block that is empty has had none, and the builder then
\* remembers no key that the next one could share a prefix with.
CountsAgree ==
  /\ data_block.position = Len(data_block.data)
  /\ restart_count <= params.interval
  /\ data_block.position = 0 => restart_count = 0 /\ last_key = <<>>
  /\ data_block.position > 0 =>
       /\ restart_count > 0
       /\ \E q \in Nat :
            data_block.position = params.interval * q + restart_count

BuilderInv ==
  /\ BuilderTypeOK /\ RestartsAgree /\ CountsAgree /\ InFull(data_block)
  /\ index_key = None => data_block.position = 0

-----------------------------------------------------------------------------
(* The helpers.                                                             *)

\* Keys are sequences of numbers.
LEMMA KeyIsSequence == \A key \in Key : key \in Seq(Nat)
<1> SUFFICES ASSUME NEW n \in 0 .. MaxKeyLen, NEW key \in [1 .. n -> Letters]
             PROVE  key \in Seq(Nat)
  BY DEF Key
<1>1. n \in Nat /\ Letters \subseteq Nat
  BY TableAssumption
<1>2. key \in [1 .. n -> Nat]
  BY <1>1
<1> QED BY <1>1, <1>2

\* A set of natural numbers that is not empty has a least element.
LEMMA LeastNumber ==
  ASSUME NEW T \in SUBSET Nat, T # {}
  PROVE  \E x \in T : \A y \in T : ~(y < x)
<1> DEFINE R == {ss \in Nat \X Nat : ss[1] < ss[2]}
<1>1. IsWellFoundedOn(R, Nat)
  BY NatLessThanWellFounded DEF OpToRel
<1>2. PICK x \in T : \A y \in T : ~(<<y, x>> \in R)
  <2> HIDE DEF R
  <2> QED BY Zenon, <1>1, WFMin
<1>3. \A y \in Nat : y < x => <<y, x>> \in R
  OBVIOUS
<1> QED BY Zenon, <1>2, <1>3

\* Two keys share a longest prefix; with the empty key it is empty.
LEMMA SharedPrefixFacts ==
  ASSUME NEW a \in Seq(Nat), NEW b \in Seq(Nat)
  PROVE  /\ SharedPrefix(a, b) \in 0 .. Len(a)
         /\ SharedPrefix(a, b) <= Len(b)
<1> DEFINE m == Len(a)
           k == Len(b)
           T == {n \in Nat : n = m \/ n = k \/ a[n + 1] # b[n + 1]}
           Longest(n) == /\ n <= k
                         /\ \A i \in 1 .. n : a[i] = b[i]
                         /\ n < m /\ n < k => a[n + 1] # b[n + 1]
<1>1. m \in Nat /\ k \in Nat
  OBVIOUS
<1>2. PICK x \in T : \A y \in T : ~(y < x)
  <2>1. T \in SUBSET Nat /\ T # {}
    BY <1>1
  <2> HIDE DEF T
  <2> QED BY <2>1, LeastNumber
<1>3. x \in 0 .. m /\ x <= k
  <2>1. m \in T /\ k \in T /\ x \in Nat
    BY <1>1
  <2> QED BY <1>1, <1>2, <2>1
<1>4. \A i \in 1 .. x : a[i] = b[i]
  <2> SUFFICES ASSUME NEW i \in 1 .. x PROVE a[i] = b[i]
    OBVIOUS
  <2>1. i - 1 \in Nat /\ i - 1 < x /\ (i - 1) + 1 = i
    BY <1>3, <1>1
  <2>2. i - 1 \notin T
    BY <1>2, <2>1
  <2> QED BY <2>1, <2>2
<1>5. x < m /\ x < k => a[x + 1] # b[x + 1]
  BY <1>1, <1>2
<1>6. Longest(x)
  BY <1>3, <1>4, <1>5
<1>7. SharedPrefix(a, b) = CHOOSE n \in 0 .. m : Longest(n)
  BY DEF SharedPrefix
<1> HIDE DEF m, k, Longest
<1>8. SharedPrefix(a, b) \in 0 .. m /\ Longest(SharedPrefix(a, b))
  BY Zenon, <1>3, <1>6, <1>7
<1> QED BY <1>8 DEF m, k, Longest

\* Of the numbers after a multiple of p and up to the next one, only that one
\* is a multiple of p.
LEMMA NextMultiple ==
  ASSUME NEW p \in Nat \ {0}, NEW q \in Nat, NEW r \in 1 .. p,
         (p * q + r) % p = 0
  PROVE  r = p
<1> DEFINE x == p * q + r
           s == x \div p
<1>1. x \in Nat
  OBVIOUS
<1>2. s \in Nat /\ x = p * s + (x % p)
  <2> HIDE DEF x
  <2> QED BY <1>1
<1>3. \A m, n \in Nat : m < n => p * m + p <= p * n
  OBVIOUS
<1>4. p * s = p * q + r /\ p * s \in Int /\ p * q \in Int
  BY <1>2
<1> HIDE DEF x, s
<1>5. ~(s < q)
  BY <1>2, <1>3, <1>4
<1>6. s # q
  BY <1>2, <1>4
<1>7. ~(q + 1 < s)
  <2>1. p * (q + 1) = p * q + p /\ q + 1 \in Nat
    OBVIOUS
  <2> QED BY <1>2, <1>3, <1>4, <2>1
<1>8. s = q + 1
  BY <1>2, <1>5, <1>6, <1>7
<1>9. p * s = p * q + p
  BY <1>8
<1> QED BY <1>4, <1>9

-----------------------------------------------------------------------------
(* The invariant.                                                           *)

\* One more round of restarts.
LEMMA Distributes ==
  \A p, q \in Nat : p * (q + 1) = p * q + p
OBVIOUS

\* A new block is a block in which nothing is amiss.
LEMMA NewBlockIsBlock ==
  NewBlock \in Block /\ InFull(NewBlock) /\ NewBlock.position = Len(NewBlock.data)
<1>1. <<>> \in Seq(Entry) /\ <<>> \in Seq(Nat) /\ Len(<<>>) = 0
  OBVIOUS
<1> QED BY <1>1 DEF NewBlock, Block, InFull

\* An empty builder satisfies the invariant.
LEMMA BuilderInit == Init => BuilderInv
<1> SUFFICES ASSUME Init PROVE BuilderInv
  OBVIOUS
<1>1. BuilderTypeOK
  <2>1. data_block \in Block
    BY NewBlockIsBlock DEF Init
  <2>2. /\ block_index \in Seq(IndexEntry) /\ blocks \in Seq(Block)
        /\ last_key \in Seq(Nat) /\ added \in Seq([key : Seq(Nat), type : Type])
    BY DEF Init
  <2>3. block_entry_count \in Nat /\ restart_count \in 0 .. params.interval
    <3>1. params.interval \in Nat
      BY TableAssumption DEF Init
    <3> QED BY <3>1 DEF Init
  <2>4. /\ params \in [interval : Intervals, block_size : BlockSizes]
        /\ index_key = None /\ panicked \in BOOLEAN /\ table = None
    BY Zenon DEF Init
  <2> QED BY <2>1, <2>2, <2>3, <2>4, Zenon DEF BuilderTypeOK
<1>2. RestartsAgree
  BY DEF Init, RestartsAgree
<1>3. CountsAgree
  <2>1. params.interval \in Nat
    BY TableAssumption DEF Init
  <2> QED BY <2>1 DEF Init, CountsAgree, NewBlock
<1>4. InFull(data_block)
  BY DEF Init, InFull, NewBlock
<1> QED BY <1>1, <1>2, <1>3, <1>4 DEF BuilderInv, Init, NewBlock

\* What add_entry computes: how much of the key it shares with the last one,
\* its own restart count and the block with the entry.
PrefixLen(key) == IF RestartDue THEN 0 ELSE SharedPrefix(key, last_key)
Suffix(key) == SubSeq(key, PrefixLen(key) + 1, Len(key))
Count == IF RestartDue THEN 1 ELSE restart_count + 1
NextBlock(key, type) ==
  BlockAddEntry(data_block, PrefixLen(key), Suffix(key), type)

\* The two counters of restarts are in step: where the block's builder expects
\* a key in full, the table's builder stores it in full.
LEMMA RestartInFull ==
  ASSUME BuilderInv, NEW key \in Key
  PROVE  /\ params.interval \in Nat \ {0} /\ params.block_size \in Nat
         /\ PrefixLen(key) \in 0 .. Len(key) /\ Suffix(key) \in Seq(Nat)
         /\ AtRestart(data_block) => PrefixLen(key) = 0
<1>1. params.interval \in Nat \ {0} /\ params.block_size \in Nat
  BY TableAssumption DEF BuilderInv, BuilderTypeOK
<1>2. key \in Seq(Nat) /\ last_key \in Seq(Nat)
  BY KeyIsSequence DEF BuilderInv, BuilderTypeOK
<1>3. /\ SharedPrefix(key, last_key) \in 0 .. Len(key)
      /\ SharedPrefix(key, last_key) <= Len(last_key)
  BY <1>2, SharedPrefixFacts
<1>4. PrefixLen(key) \in 0 .. Len(key)
  BY <1>2, <1>3 DEF PrefixLen
<1>5. Suffix(key) \in Seq(Nat)
  BY <1>2, <1>4 DEF Suffix
<1>6. ASSUME AtRestart(data_block) PROVE PrefixLen(key) = 0
  <2>1. data_block.position \in Nat /\ restart_count \in Nat
    BY <1>1 DEF BuilderInv, BuilderTypeOK, Block
  <2>2. CASE data_block.position = 0
    <3>1. last_key = <<>>
      BY <2>2 DEF BuilderInv, CountsAgree
    <3> QED BY <1>2, <1>3, <3>1 DEF PrefixLen
  <2>3. CASE data_block.position > 0
    <3>1. PICK q \in Nat :
            data_block.position = params.interval * q + restart_count
      BY <2>3 DEF BuilderInv, CountsAgree
    <3>2. restart_count \in 1 .. params.interval
      BY <1>1, <2>1, <2>3 DEF BuilderInv, CountsAgree
    <3>3. (params.interval * q + restart_count) % params.interval = 0
      BY <1>6, <3>1 DEF AtRestart
    <3>4. RestartDue
      BY <1>1, <3>2, <3>3, NextMultiple DEF RestartDue
    <3> QED BY <3>4 DEF PrefixLen
  <2> QED BY <2>1, <2>2, <2>3
<1> QED BY <1>1, <1>4, <1>5, <1>6

\* The block with the new entry, and the count that goes with it.
LEMMA NextBlockFacts ==
  ASSUME BuilderInv, NEW key \in Key, NEW type \in Type
  PROVE  /\ NextBlock(key, type) \in Block
         /\ NextBlock(key, type).position = Len(NextBlock(key, type).data)
         /\ NextBlock(key, type).position = data_block.position + 1
         /\ InFull(NextBlock(key, type))
         /\ Count \in 1 .. params.interval
         /\ \E q \in Nat : data_block.position + 1 = params.interval * q + Count
<1> DEFINE b == NextBlock(key, type)
           e == [at |-> data_block.byte_len, prefix_len |-> PrefixLen(key),
                 suffix |-> Suffix(key), type |-> type]
<1>1. /\ params.interval \in Nat \ {0}
      /\ PrefixLen(key) \in Nat /\ Suffix(key) \in Seq(Nat)
      /\ AtRestart(data_block) => PrefixLen(key) = 0
  BY RestartInFull
<1>2. /\ data_block \in Block /\ data_block.data \in Seq(Entry)
      /\ data_block.position \in Nat /\ data_block.byte_len \in Nat
      /\ data_block.restart_list \in Seq(Nat) /\ restart_count \in Nat
  BY <1>1 DEF BuilderInv, BuilderTypeOK, Block
<1>3. e \in Entry
  BY <1>1, <1>2 DEF Entry
<1>4. /\ b.data = Append(data_block.data, e)
      /\ b.position = data_block.position + 1
      /\ b.byte_len = data_block.byte_len + EntryLen(Suffix(key), type)
      /\ b.restart_list = IF AtRestart(data_block)
                          THEN Append(data_block.restart_list, data_block.byte_len)
                          ELSE data_block.restart_list
      /\ b = [data |-> b.data, position |-> b.position, byte_len |-> b.byte_len,
              restart_list |-> b.restart_list]
  BY DEF NextBlock, BlockAddEntry
<1> HIDE DEF b, e
<1>5. b \in Block
  <2>1. EntryLen(Suffix(key), type) \in Nat
    BY <1>1 DEF EntryLen
  <2>2. b.data \in Seq(Entry) /\ b.restart_list \in Seq(Nat)
    BY <1>2, <1>3, <1>4
  <2>3. b.position \in Nat /\ b.byte_len \in Nat
    BY <1>2, <1>4, <2>1
  <2> QED BY <1>4, <2>2, <2>3 DEF Block
<1>6. /\ data_block.position = Len(data_block.data)
      /\ Len(b.data) = Len(data_block.data) + 1
      /\ \A i \in 1 .. Len(data_block.data) : b.data[i] = data_block.data[i]
      /\ b.data[Len(data_block.data) + 1] = e
  BY <1>2, <1>3, <1>4 DEF BuilderInv, CountsAgree
<1>7. InFull(b)
  <2> SUFFICES ASSUME NEW i \in 1 .. Len(b.data), (i - 1) % params.interval = 0
               PROVE  b.data[i].prefix_len = 0
    BY DEF InFull
  <2>1. CASE i \in 1 .. Len(data_block.data)
    BY <1>6, <2>1 DEF BuilderInv, InFull
  <2>2. CASE i = Len(data_block.data) + 1
    <3>1. AtRestart(data_block)
      BY <1>2, <1>6, <2>2 DEF AtRestart
    <3> QED BY <1>1, <1>6, <2>2, <3>1 DEF e
  <2> QED BY <1>2, <1>6, <2>1, <2>2
<1>8. /\ Count \in 1 .. params.interval
      /\ \E q \in Nat : data_block.position + 1 = params.interval * q + Count
  <2>1. CASE data_block.position = 0
    <3>1. Count = 1
      BY <1>1, <2>1 DEF BuilderInv, CountsAgree, Count, RestartDue
    <3>2. data_block.position + 1 = params.interval * 0 + Count
      BY <1>1, <2>1, <3>1
    <3> QED BY <1>1, <3>1, <3>2
  <2>2. CASE data_block.position > 0
    <3>1. PICK q \in Nat :
            data_block.position = params.interval * q + restart_count
      BY <2>2 DEF BuilderInv, CountsAgree
    <3>2. restart_count \in 1 .. params.interval
      BY <1>1, <1>2, <2>2 DEF BuilderInv, CountsAgree
    <3>3. CASE RestartDue
      <4>1. params.interval * (q + 1) = params.interval * q + params.interval
        BY <1>1, Distributes
      <4>2. data_block.position + 1 = params.interval * (q + 1) + Count
        BY <1>1, <3>1, <3>3, <4>1 DEF RestartDue, Count
      <4> QED BY <1>1, <3>3, <4>2 DEF Count
    <3>4. CASE ~RestartDue
      <4>1. params.interval * q \in Nat
        BY <1>1
      <4>2. data_block.position + 1 = params.interval * q + Count
        BY <3>1, <3>2, <3>4, <4>1 DEF Count
      <4> QED BY <1>1, <3>2, <3>4, <4>2 DEF RestartDue, Count
    <3> QED BY <3>3, <3>4
  <2> QED BY <1>2, <2>1, <2>2
<1> QED BY <1>4, <1>5, <1>6, <1>7, <1>8 DEF b

\* A finished block joins the blocks of the table: the blocks stay well-formed
\* and keep their restart points.
LEMMA BlockFinished ==
  ASSUME BuilderInv, NEW block \in Block, InFull(block),
         NEW first_key \in Seq(Nat), BlockFinish(block, first_key),
         params' = params
  PROVE  /\ blocks' \in Seq(Block) /\ block_index' \in Seq(IndexEntry)
         /\ \A b \in 1 .. Len(blocks') : \A i \in 1 .. Len(blocks'[b].data) :
              (i - 1) % params'.interval = 0 => blocks'[b].data[i].prefix_len = 0
<1>1. blocks \in Seq(Block) /\ block_index \in Seq(IndexEntry)
  BY DEF BuilderInv, BuilderTypeOK
<1>2. [key |-> first_key, id |-> Len(blocks) + 1] \in IndexEntry
  BY <1>1 DEF IndexEntry
<1>3. blocks' \in Seq(Block) /\ block_index' \in Seq(IndexEntry)
  BY <1>1, <1>2 DEF BlockFinish
<1>4. /\ Len(blocks') = Len(blocks) + 1 /\ Len(blocks) \in Nat
      /\ \A b \in 1 .. Len(blocks) : blocks'[b] = blocks[b]
      /\ blocks'[Len(blocks) + 1] = block
  BY <1>1 DEF BlockFinish
<1>5. ASSUME NEW b \in 1 .. Len(blocks'), NEW i \in 1 .. Len(blocks'[b].data),
             (i - 1) % params.interval = 0
      PROVE  blocks'[b].data[i].prefix_len = 0
  <2>1. CASE b \in 1 .. Len(blocks)
    BY <1>4, <1>5, <2>1 DEF BuilderInv, RestartsAgree
  <2>2. CASE b = Len(blocks) + 1
    BY <1>4, <1>5, <2>2 DEF InFull
  <2> QED BY <1>4, <2>1, <2>2
<1> QED BY <1>3, <1>5

\* add_entry, in the terms above.
LEMMA AddEntryParts ==
  ASSUME NEW key \in Key, NEW type \in Type, add_entry(key, type)
  PROVE  LET first_key == IF index_key = None THEN key ELSE index_key IN
         /\ added' = Append(added, [key |-> key, type |-> type])
         /\ panicked' = (AtRestart(data_block) /\ PrefixLen(key) # 0)
         /\ params' = params /\ table' = table
         /\ \/ /\ BlockFinish(NextBlock(key, type), first_key)
               /\ data_block' = NewBlock /\ index_key' = None
               /\ block_entry_count' = 0
               /\ restart_count' = 0 /\ last_key' = <<>>
            \/ /\ data_block' = NextBlock(key, type) /\ index_key' = first_key
               /\ block_entry_count' = block_entry_count + 1
               /\ restart_count' = Count /\ last_key' = key
               /\ blocks' = blocks /\ block_index' = block_index
BY DEF add_entry, PrefixLen, Suffix, Count, RestartDue, NextBlock, AfterBlock

\* Adding an entry keeps the invariant, whether or not it fills the block.
LEMMA AddEntryKeeps ==
  ASSUME BuilderInv, NEW key \in Key, NEW type \in Type, add_entry(key, type)
  PROVE  BuilderInv'
<1> DEFINE first_key == IF index_key = None THEN key ELSE index_key
<1>1. /\ added' = Append(added, [key |-> key, type |-> type])
      /\ panicked' = (AtRestart(data_block) /\ PrefixLen(key) # 0)
      /\ params' = params /\ table' = table
  BY AddEntryParts
<1>2. /\ key \in Seq(Nat) /\ key # None
      /\ first_key \in Seq(Nat) /\ first_key # None
  BY KeyIsSequence, TableAssumption DEF BuilderInv, BuilderTypeOK
<1>3. /\ params' \in [interval : Intervals, block_size : BlockSizes]
      /\ added' \in Seq([key : Seq(Nat), type : Type])
      /\ table' \in {None} \cup
           [index : Seq(IndexEntry), min_key : Seq(Nat), max_key : Seq(Nat)]
  BY <1>1, <1>2 DEF BuilderInv, BuilderTypeOK
<1>4. AtRestart(data_block) => PrefixLen(key) = 0
  BY RestartInFull
<1>5. panicked' = FALSE
  BY <1>1, <1>4, Zenon
<1>6. /\ NextBlock(key, type) \in Block
      /\ NextBlock(key, type).position = Len(NextBlock(key, type).data)
      /\ NextBlock(key, type).position = data_block.position + 1
      /\ InFull(NextBlock(key, type))
      /\ Count \in 1 .. params.interval
      /\ \E q \in Nat : data_block.position + 1 = params.interval * q + Count
  BY NextBlockFacts
<1>7. params.interval \in Nat \ {0} /\ data_block.position \in Nat
  BY RestartInFull DEF BuilderInv, BuilderTypeOK, Block
<1>8. CASE /\ BlockFinish(NextBlock(key, type), first_key)
           /\ data_block' = NewBlock /\ index_key' = None
           /\ block_entry_count' = 0
           /\ restart_count' = 0 /\ last_key' = <<>>
  <2>1. /\ blocks' \in Seq(Block) /\ block_index' \in Seq(IndexEntry)
        /\ \A b \in 1 .. Len(blocks') : \A i \in 1 .. Len(blocks'[b].data) :
             (i - 1) % params'.interval = 0 => blocks'[b].data[i].prefix_len = 0
    <3> HIDE DEF first_key
    <3> QED BY <1>1, <1>2, <1>6, <1>8, BlockFinished
  <2>2. RestartsAgree'
    BY <1>5, <2>1, Zenon DEF RestartsAgree
  <2>3. /\ data_block' \in Block /\ data_block'.position = 0
        /\ Len(data_block'.data) = 0
    BY <1>8, NewBlockIsBlock DEF NewBlock
  <2>4. CountsAgree'
    BY <1>1, <1>7, <1>8, <2>3 DEF CountsAgree
  <2>5. InFull(data_block)'
    BY <2>3 DEF InFull
  <2>6. /\ last_key' \in Seq(Nat) /\ block_entry_count' \in Nat
        /\ restart_count' \in 0 .. params'.interval
        /\ index_key' \in Seq(Nat) \cup {None}
    BY <1>1, <1>7, <1>8
  <2>7. panicked' \in BOOLEAN
    BY <1>5, Zenon
  <2>8. BuilderTypeOK'
    BY <1>3, <2>1, <2>3, <2>6, <2>7, Zenon DEF BuilderTypeOK
  <2> QED BY <2>2, <2>3, <2>4, <2>5, <2>8, Zenon DEF BuilderInv
<1>9. CASE /\ data_block' = NextBlock(key, type) /\ index_key' = first_key
           /\ block_entry_count' = block_entry_count + 1
           /\ restart_count' = Count /\ last_key' = key
           /\ blocks' = blocks /\ block_index' = block_index
  <2>1. /\ blocks' \in Seq(Block) /\ block_index' \in Seq(IndexEntry)
        /\ block_entry_count' \in Nat
    BY <1>9 DEF BuilderInv, BuilderTypeOK
  <2>2. RestartsAgree'
    <3>1. \A b \in 1 .. Len(blocks) : \A i \in 1 .. Len(blocks[b].data) :
            (i - 1) % params.interval = 0 => blocks[b].data[i].prefix_len = 0
      BY DEF BuilderInv, RestartsAgree
    <3> QED BY <1>1, <1>5, <1>9, <3>1, Zenon DEF RestartsAgree
  <2>3. CountsAgree'
    <3>1. /\ data_block'.position = Len(data_block'.data)
          /\ data_block'.position = data_block.position + 1
      BY <1>6, <1>9
    <3>2. restart_count' \in 1 .. params'.interval
      BY <1>1, <1>6, <1>9
    <3>3. \E q \in Nat :
            data_block'.position = params'.interval * q + restart_count'
      BY <1>1, <1>6, <1>9, <3>1
    <3> QED BY <1>1, <1>7, <3>1, <3>2, <3>3 DEF CountsAgree
  <2>4. InFull(data_block)'
    BY <1>1, <1>6, <1>9 DEF InFull
  <2>5. /\ data_block' \in Block /\ last_key' \in Seq(Nat)
        /\ restart_count' \in 0 .. params'.interval
        /\ index_key' \in Seq(Nat) \cup {None} /\ index_key' # None
    BY <1>1, <1>2, <1>6, <1>7, <1>9
  <2>6. panicked' \in BOOLEAN
    BY <1>5, Zenon
  <2>7. BuilderTypeOK'
    BY <1>3, <2>1, <2>5, <2>6, Zenon DEF BuilderTypeOK
  <2> QED BY <2>2, <2>3, <2>4, <2>5, <2>7, Zenon DEF BuilderInv
<1> QED BY <1>8, <1>9, AddEntryParts

\* Finishing the table keeps the invariant.
LEMMA FinishKeeps ==
  ASSUME BuilderInv, finish
  PROVE  BuilderInv'
<1>1. /\ params' = params /\ data_block' = data_block /\ last_key' = last_key
      /\ block_entry_count' = block_entry_count
      /\ restart_count' = restart_count /\ index_key' = index_key
      /\ panicked' = panicked /\ added' = added
  BY DEF finish
<1>2. /\ blocks' \in Seq(Block) /\ block_index' \in Seq(IndexEntry)
      /\ \A b \in 1 .. Len(blocks') : \A i \in 1 .. Len(blocks'[b].data) :
           (i - 1) % params'.interval = 0 => blocks'[b].data[i].prefix_len = 0
  <2>1. CASE data_block.position > 0 /\ BlockFinish(data_block, index_key)
    <3>1. data_block \in Block /\ data_block.position \in Nat
      BY DEF BuilderInv, BuilderTypeOK, Block
    <3>2. index_key \in Seq(Nat)
      BY <2>1, <3>1 DEF BuilderInv, BuilderTypeOK
    <3>3. InFull(data_block)
      BY DEF BuilderInv
    <3> QED BY <1>1, <2>1, <3>1, <3>2, <3>3, BlockFinished
  <2>2. CASE blocks' = blocks /\ block_index' = block_index
    BY <1>1, <2>2 DEF BuilderInv, BuilderTypeOK, RestartsAgree
  <2> QED BY <2>1, <2>2 DEF finish
<1>3. table' \in [index : Seq(IndexEntry), min_key : Seq(Nat), max_key : Seq(Nat)]
  <2>1. added \in Seq([key : Seq(Nat), type : Type]) /\ Len(added) > 0
    BY DEF finish, BuilderInv, BuilderTypeOK
  <2>2. 1 \in 1 .. Len(added) /\ Len(added) \in 1 .. Len(added)
    BY <2>1
  <2>3. added[1].key \in Seq(Nat) /\ added[Len(added)].key \in Seq(Nat)
    <3> DEFINE E == [key : Seq(Nat), type : Type]
    <3>1. \A e \in E : e.key \in Seq(Nat)
      OBVIOUS
    <3>2. added \in Seq(E)
      BY <2>1
    <3> HIDE DEF E
    <3>3. added[1] \in E /\ added[Len(added)] \in E
      BY <2>2, <3>2, ElementOfSeq
    <3> QED BY <3>1, <3>3, Zenon
  <2>4. table' = [index |-> block_index', min_key |-> added[1].key,
                  max_key |-> added[Len(added)].key]
    BY DEF finish
  <2> QED BY <1>2, <2>3, <2>4
<1>4. BuilderTypeOK'
  BY <1>1, <1>2, <1>3, Zenon DEF BuilderInv, BuilderTypeOK
<1>5. RestartsAgree'
  BY <1>1, <1>2, Zenon DEF BuilderInv, RestartsAgree
<1>6. CountsAgree' /\ InFull(data_block)'
  BY <1>1 DEF BuilderInv, CountsAgree, InFull
<1> QED BY <1>1, <1>4, <1>5, <1>6 DEF BuilderInv

-----------------------------------------------------------------------------
(* The theorems.                                                            *)

\* BuilderInv holds while a table is built.
LEMMA BuilderInvariant == Spec => []BuilderInv
<1>1. Init => BuilderInv
  BY BuilderInit
<1>2. BuilderInv /\ [Next]_builderVars => BuilderInv'
  <2> SUFFICES ASSUME BuilderInv, [Next]_builderVars PROVE BuilderInv'
    OBVIOUS
  <2>1. CASE finish
    BY <2>1, FinishKeeps
  <2>2. ASSUME NEW key \in Key, NEW type \in Type, add_entry(key, type)
        PROVE  BuilderInv'
    BY <2>2, AddEntryKeeps
  <2>3. CASE UNCHANGED builderVars
    BY <2>3 DEF builderVars, BuilderInv, BuilderTypeOK, RestartsAgree,
                CountsAgree, InFull
  <2> QED BY <2>1, <2>2, <2>3 DEF Next
<1> QED BY <1>1, <1>2, PTL DEF Spec

\* Every field of TableBuilder and DataBlockBuilder keeps its shape.
THEOREM BuilderTypeCorrect == Spec => []BuilderTypeOK
<1>1. BuilderInv => BuilderTypeOK
  BY DEF BuilderInv
<1> QED BY <1>1, BuilderInvariant, PTL

\* The assertion of DataBlockBuilder::add_entry never fails, and every restart
\* point of every block holds its key in full, for any restart interval, any
\* size of a block and any keys.
THEOREM RestartsAlwaysAgree == Spec => []RestartsAgree
<1>1. BuilderInv => RestartsAgree
  BY DEF BuilderInv
<1> QED BY <1>1, BuilderInvariant, PTL
=============================================================================
