------------------------------ MODULE DbStore -------------------------------
(* What a caller sees of the store: the inductive invariant, and that the  *)
(* writer, flushes and compactions keep it, for any number of keys,        *)
(* levels, tasks, readers and records.                                     *)
EXTENDS DbInvariant

-----------------------------------------------------------------------------
(* The inductive invariant.                                                 *)

\* The operations that took effect: all records of the log but those of the
\* batch that is being written.
Count == LogEnd - (BatchLen - LeftLen)

\* The newest entry of k in the tables, and below the current memtable.
TablesSeq(k) == IF Results(k) # {} THEN Newest(Results(k)) ELSE 0
LowerSeq(k) ==
  IF imm # <<>> /\ imm[1].data[k] > 0 THEN imm[1].data[k] ELSE TablesSeq(k)

\* Record p is the last of the first q records that writes k (0: none does).
IsLast(p, q, k) ==
  /\ p \in 0 .. q
  /\ p > 0 => log[p] = k
  /\ \A j \in p + 1 .. q : log[j] # k

\* The batch is in the log as far as it has been written, and only write_opts
\* that waits to push a memtable has taken one.
BatchLogged ==
  /\ \A i \in 1 .. BatchLen - LeftLen : log[Count + i] = writer.batch[i]
  /\ \A i \in 1 .. LeftLen : writer.left[i] = writer.batch[BatchLen - LeftLen + i]
  /\ writer.pc # "push" => \A k \in Keys : writer.taken[k] = 0

\* What a caller can see of a key is the last operation on it that took effect,
\* and the immutable memtable with the tables has all operations up to its log
\* offset.
ViewIsLast ==
  /\ \A k \in Keys : IsLast(View(k), Count, k)
  /\ imm # <<>> => \A k \in Keys :
                     IsLast(ValueOf(LowerSeq(k)), imm[1].log_offset, k)

\* An entry of a table comes from a record that writes its key, and the entry
\* with the larger sequence number comes from a later one.  Records that were
\* replayed after a restart have new entries, so that the order holds only for
\* each key by itself.
TablesPlaced ==
  /\ \A l \in Level : \A t \in tables[l] : \A k \in Keys : t.data[k] > 0 =>
       /\ value[t.data[k]] <= IF imm = <<>> THEN Count ELSE imm[1].log_offset
       /\ value[t.data[k]] > 0 => log[value[t.data[k]]] = k
  /\ \A l, m \in Level : \A s \in tables[l], t \in tables[m] : \A k \in Keys :
       s.data[k] > 0 /\ s.data[k] <= t.data[k] =>
         value[s.data[k]] <= value[t.data[k]]

\* The tables that a restart loads have every operation before the log offset
\* it replays from.
Durable == NoPanic => \A k \in Keys :
  \/ \A j \in 1 .. log_offset : log[j] # k
  \/ \E l \in Level : \E t \in tables[l] :
       /\ t.id \in manifest[l] /\ t.data[k] > 0
       /\ \A j \in value[t.data[k]] + 1 .. log_offset : log[j] # k

\* The flush writes the immutable memtable to a table, and as long as the
\* memtable is kept after that the tables have its entries.
Flushed ==
  /\ flush.pc = "build" => flush.data = imm[1].data
  /\ flush.pc \in {"added", "numbered"} \/ trim # "idle" =>
       \A k \in Keys : imm[1].data[k] > 0 => TablesSeq(k) = imm[1].data[k]

\* A get of reader r that searches for k from level l on finds an entry it may
\* return, also after tables have been moved down past it, or may return that
\* there is none.
Covered(l, k, r) ==
  \/ \E m \in Level : \E t \in tables[m] :
       /\ l <= m /\ t.data[k] > 0
       /\ \A n \in Level : \A u \in tables[n] :
            t.data[k] <= u.data[k] => value[u.data[k]] \in seen[r]
  \/ /\ 0 \in seen[r]
     /\ \A n \in Level : \A u \in tables[n] :
          u.data[k] > 0 => value[u.data[k]] \in seen[r]

\* What a get may still find is a value its key had since the get began: an
\* operation that takes effect after the get has passed the memtable is seen.
GetSees(pc, l, k, r) ==
  /\ View(k) \in seen[r]
  /\ pc \in {"imm", "level"} =>
       /\ writer.taken[k] > 0 => value[writer.taken[k]] \in seen[r]
       /\ memtable[k] > 0 => value[memtable[k]] \in seen[r]
  /\ pc = "imm" => ValueOf(LowerSeq(k)) \in seen[r]
  /\ pc = "level" =>
       /\ imm # <<>> /\ imm[1].data[k] > 0 => value[imm[1].data[k]] \in seen[r]
       /\ Covered(l, k, r)

Searches == {"memtable", "imm", "level"}
ReadersSee ==
  \A r \in Readers : \A pc \in Searches, l \in Level, k \in Keys :
    reader[r].pc = pc /\ reader[r].level = l /\ reader[r].key = k =>
      reader[r].got = 0 /\ GetSees(pc, l, k, r)

StoreInv == /\ BatchLogged /\ ViewIsLast /\ TablesPlaced /\ Durable /\ Flushed
            /\ ReadersSee
Inv == DbInv /\ LevelsInv /\ StoreInv

-----------------------------------------------------------------------------
(* What the definitions say.                                                *)

\* TablesSeq is the largest sequence number any table holds for the key.
TablesNewest ==
  \A k \in Keys :
    /\ TablesSeq(k) \in Nat
    /\ \A l \in Level : \A t \in tables[l] :
         t.data[k] \in Nat /\ t.data[k] <= TablesSeq(k)
    /\ TablesSeq(k) > 0 =>
         \E l \in Level : \E t \in tables[l] : t.data[k] = TablesSeq(k)

\* What a search of all levels for a key finds.
LEMMA TablesSeqNewest == OwnershipInv /\ OrderInv => TablesNewest
<1> SUFFICES ASSUME OwnershipInv, OrderInv, NEW k \in Keys
             PROVE  /\ TablesSeq(k) \in Nat
                    /\ \A l \in Level : \A t \in tables[l] :
                         t.data[k] \in Nat /\ t.data[k] <= TablesSeq(k)
                    /\ TablesSeq(k) > 0 => \E l \in Level : \E t \in tables[l] :
                                             t.data[k] = TablesSeq(k)
  BY Zenon DEF TablesNewest
<1> DEFINE R == Results(k)
           T == {i \in 1 .. MaxSeq : \E l \in Level : \E t \in tables[l] :
                                       t.data[k] = i}
<1>1. \A l \in Level : \A t \in tables[l] : t.data[k] \in 0 .. MaxSeq
  BY DEF OwnershipInv, TypeOK, Table, Data, Seqs
<1>2. \A x : x \in R <=> IsNewest(x, k)
  BY Zenon, ResultsAreNewest DEF ResultsNewest
<1>3. MaxSeq \in Nat
  BY Zenon, ConstantsAssumption
<1>4. CASE T = {}
  <2>1. \A l \in Level : \A t \in tables[l] : t.data[k] = 0
    BY <1>1, <1>3, <1>4
  <2>2. R = {}
    <3> HIDE DEF R
    <3> QED BY <1>2, <2>1 DEF IsNewest
  <2>3. TablesSeq(k) = 0
    BY Zenon, <2>2 DEF TablesSeq
  <2> QED BY <2>1, <2>3
<1>5. CASE T # {}
  <2>1. PICK x \in T : \A y \in T : y <= x
    <3>1. T \in SUBSET (1 .. MaxSeq)
      BY Zenon
    <3> HIDE DEF T
    <3> QED BY Zenon, <1>3, <1>5, <3>1, GreatestElement
  <2>2. /\ x \in Nat /\ x > 0
        /\ \E l \in Level : \E t \in tables[l] : t.data[k] = x
        /\ \A l \in Level : \A t \in tables[l] : t.data[k] <= x
    BY <1>1, <1>3, <2>1
  <2>3. IsNewest(x, k) /\ \A y : IsNewest(y, k) => y = x
    BY <1>1, <1>3, <2>2 DEF IsNewest
  <2>4. R = {x}
    <3> HIDE DEF R
    <3> QED BY Zenon, <1>2, <2>3
  <2>5. TablesSeq(k) = x
    BY Zenon, <2>2, <2>4 DEF TablesSeq, Newest
  <2> HIDE DEF T
  <2> QED BY <1>1, <2>2, <2>5
<1> QED BY Zenon, <1>4, <1>5

\* The same of the next state.
LEMMA TablesSeqNewestNext == OwnershipInv' /\ OrderInv' => TablesNewest'
BY TablesSeqNewest, PTL

\* A search looks into the memtables before the levels.
LEMMA ViewSeqCases ==
  ASSUME NEW k \in Keys
  PROVE  ViewSeq(k) = IF writer.taken[k] > 0 THEN writer.taken[k]
                      ELSE IF memtable[k] > 0 THEN memtable[k] ELSE LowerSeq(k)
BY Zenon DEF ViewSeq, LowerSeq, TablesSeq

\* What a search finds has a value.
LEMMA SeqBounds ==
  ASSUME DbInv, LevelsInv, NEW k \in Keys
  PROVE  /\ TablesSeq(k) \in Nat /\ TablesSeq(k) < next_seq
         /\ LowerSeq(k) \in Nat /\ LowerSeq(k) < next_seq
         /\ ViewSeq(k) \in Nat /\ ViewSeq(k) < next_seq
         /\ View(k) \in Nat /\ ValueOf(LowerSeq(k)) \in Nat
<1>1. 0 < next_seq /\ next_seq \in Nat
  BY PositionsNat DEF DbInv, MemtablesInOrder
<1>2. TablesSeq(k) \in Nat /\ TablesSeq(k) < next_seq
  BY <1>1, TablesSeqNewest, EntriesValued DEF LevelsInv, TablesNewest
<1>3. LowerSeq(k) \in Nat /\ LowerSeq(k) < next_seq
  BY Zenon, <1>2, EntriesValued DEF LowerSeq
<1>4. ViewSeq(k) \in Nat /\ ViewSeq(k) < next_seq
  BY Zenon, <1>3, ViewSeqCases, EntriesValued
<1>5. View(k) \in Nat /\ ValueOf(LowerSeq(k)) \in Nat
  BY <1>3, <1>4, EntriesValued DEF View, ValueOf
<1> QED BY Zenon, <1>2, <1>3, <1>4, <1>5

\* How the offsets and the end of the log lie.
LEMMA CountFacts ==
  ASSUME DbInv
  PROVE  /\ Count \in Nat /\ LogBase <= Count /\ Count <= LogEnd
         /\ BatchLen - LeftLen \in Nat /\ Count + (BatchLen - LeftLen) = LogEnd
         /\ log_offset <= LogBase
         /\ imm # <<>> => imm[1].log_offset \in Nat /\ imm[1].log_offset <= Count
<1>1. Count \in Nat /\ LogBase <= Count /\ Count <= LogEnd
  BY PositionsNat DEF DbInv, LogInOrder, Count
<1>2. BatchLen - LeftLen \in Nat /\ Count + (BatchLen - LeftLen) = LogEnd
  BY PositionsNat DEF DbInv, LogInOrder, Count
<1>3. imm # <<>> => imm[1].log_offset = LogBase /\ imm[1].log_offset \in Nat
  BY Zenon, ImmFacts DEF LogBase
<1>4. log_offset <= LogBase
  <2>1. CASE imm = <<>>
    BY <2>1, PositionsNat DEF LogBase
  <2>2. CASE imm # <<>>
    BY <1>3, <2>2, PositionsNat DEF DbInv, LogInOrder
  <2> QED BY Zenon, <2>1, <2>2
<1> QED BY Zenon, <1>1, <1>2, <1>3, <1>4
-----------------------------------------------------------------------------
(* Steps that change no memtable and no table.                              *)

\* The same as ViewSeqCases, of the next state.
LEMMA ViewSeqCasesNext ==
  ASSUME NEW k \in Keys
  PROVE  ViewSeq(k)' = IF writer'.taken[k] > 0 THEN writer'.taken[k]
                       ELSE IF memtable'[k] > 0 THEN memtable'[k] ELSE LowerSeq(k)'
BY Zenon DEF ViewSeq, LowerSeq, TablesSeq

\* The result of a search depends on the tables alone.
LEMMA SameTables ==
  ASSUME tables' = tables
  PROVE  \A k \in Keys : TablesSeq(k)' = TablesSeq(k)
<1>1. \A k \in Keys : Results(k)' = Results(k)
  BY DEF Results, StopsAt, Holding
<1> QED BY Zenon, <1>1 DEF TablesSeq

\* A step that changes neither a memtable nor what is found in the tables.
LEMMA SameView ==
  ASSUME UNCHANGED <<memtable, imm, value>>, writer'.taken = writer.taken,
         \A k \in Keys : TablesSeq(k)' = TablesSeq(k)
  PROVE  \A k \in Keys : /\ LowerSeq(k)' = LowerSeq(k)
                         /\ ViewSeq(k)' = ViewSeq(k) /\ View(k)' = View(k)
<1> SUFFICES ASSUME NEW k \in Keys
             PROVE  /\ LowerSeq(k)' = LowerSeq(k)
                    /\ ViewSeq(k)' = ViewSeq(k) /\ View(k)' = View(k)
  BY Zenon
<1>1. LowerSeq(k)' = LowerSeq(k)
  BY Zenon DEF LowerSeq
<1>2. ViewSeq(k)' = ViewSeq(k)
  BY Zenon, <1>1, ViewSeqCases, ViewSeqCasesNext
<1> QED BY Zenon, <1>1, <1>2 DEF View, ValueOf

\* A get that is not affected by the step sees what it saw.
LEMMA SameGet ==
  ASSUME UNCHANGED <<tables, memtable, imm, value>>, writer'.taken = writer.taken,
         NEW r \in Readers, seen'[r] = seen[r],
         NEW pc, NEW l, NEW k \in Keys, GetSees(pc, l, k, r)
  PROVE  GetSees(pc, l, k, r)'
<1>1. LowerSeq(k)' = LowerSeq(k) /\ View(k)' = View(k)
  BY Zenon, SameTables, SameView
<1>2. ValueOf(LowerSeq(k))' = ValueOf(LowerSeq(k))
  BY Zenon, <1>1 DEF ValueOf
<1>3. Covered(l, k, r)' <=> Covered(l, k, r)
  BY Zenon DEF Covered
<1> QED BY Zenon, <1>1, <1>2, <1>3 DEF GetSees

\* Records that the log writer appends do not matter until the batch is applied.
LEMMA LogGrows ==
  ASSUME Inv, UNCHANGED <<tables, memtable, imm, value>>,
         writer'.taken = writer.taken,
         Count' = Count, \A j \in 1 .. LogEnd : log'[j] = log[j]
  PROVE  ViewIsLast' /\ TablesPlaced'
<1>1. \A k \in Keys : LowerSeq(k)' = LowerSeq(k) /\ View(k)' = View(k)
  BY Zenon, SameTables, SameView
<1>2. /\ Count \in Nat /\ LogEnd \in Nat /\ Count <= LogEnd
      /\ imm # <<>> => imm[1].log_offset \in Nat /\ imm[1].log_offset <= LogEnd
  BY CountFacts, PositionsNat DEF Inv
<1>3. ASSUME NEW k \in Keys, NEW p \in Nat, NEW q \in Nat, q <= LogEnd,
             IsLast(p, q, k)
      PROVE  /\ p \in 0 .. q /\ p > 0 => log'[p] = k
             /\ \A j \in p + 1 .. q : log'[j] # k
  BY <1>2, <1>3 DEF IsLast
<1>4. ASSUME NEW k \in Keys PROVE IsLast(View(k), Count, k)'
  <2>1. View(k) \in Nat /\ IsLast(View(k), Count, k)
    BY Zenon, SeqBounds DEF Inv, StoreInv, ViewIsLast
  <2> QED BY <1>1, <1>2, <1>3, <2>1 DEF IsLast
<1>5. ASSUME NEW k \in Keys, imm # <<>>
      PROVE  IsLast(ValueOf(LowerSeq(k)), imm[1].log_offset, k)'
  <2> DEFINE p == ValueOf(LowerSeq(k))
             q == imm[1].log_offset
  <2>1. p \in Nat /\ IsLast(p, q, k) /\ q \in Nat /\ q <= LogEnd
    BY Zenon, <1>2, <1>5, SeqBounds DEF Inv, StoreInv, ViewIsLast
  <2>2. ValueOf(LowerSeq(k))' = p /\ imm'[1].log_offset = q
    BY Zenon, <1>1 DEF ValueOf
  <2> HIDE DEF p, q
  <2> QED BY <1>3, <2>1, <2>2 DEF IsLast
<1>6. ViewIsLast'
  BY Zenon, <1>4, <1>5 DEF ViewIsLast
<1>7. ASSUME NEW l \in Level, NEW t \in tables[l], NEW k \in Keys, t.data[k] > 0
      PROVE  /\ value[t.data[k]] <= IF imm = <<>> THEN Count ELSE imm[1].log_offset
             /\ value[t.data[k]] > 0 => log'[value[t.data[k]]] = k
  <2>1. value[t.data[k]] \in Nat
    BY Zenon, <1>7, EntriesValued DEF Inv
  <2> QED BY <1>2, <1>7, <2>1 DEF Inv, StoreInv, TablesPlaced
<1>8. TablesPlaced'
  BY <1>7 DEF Inv, StoreInv, TablesPlaced
<1> QED BY Zenon, <1>6, <1>8

\* A step that changes neither what is stored nor a get.
LEMMA QuietStoreStep ==
  ASSUME Inv, UNCHANGED <<tables, memtable, imm, value, reader, seen>>,
         writer'.taken = writer.taken,
         Count' = Count, \A j \in 1 .. LogEnd : log'[j] = log[j],
         BatchLogged', Durable', Flushed'
  PROVE  StoreInv' /\ \A k \in Keys : View(k)' = View(k)
<1>1. ViewIsLast' /\ TablesPlaced'
  BY Zenon, LogGrows
<1>2. ReadersSee'
  BY Zenon, SameGet DEF Inv, StoreInv, ReadersSee
<1>3. \A k \in Keys : View(k)' = View(k)
  BY Zenon, SameTables, SameView
<1> QED BY Zenon, <1>1, <1>2, <1>3 DEF StoreInv

\* What restarts can rely on stays as long as the log only grows.
LEMMA SameDurable ==
  ASSUME Inv, UNCHANGED <<tables, value, log_offset>>,
         NoPanic' => NoPanic, \A j \in 1 .. LogEnd : log'[j] = log[j],
         \A l \in Level : manifest[l] \subseteq manifest'[l]
  PROVE  Durable'
<1>1. log_offset \in Nat /\ LogEnd \in Nat /\ log_offset <= LogEnd
  BY CountFacts, PositionsNat DEF Inv
<1>2. \A l \in Level : \A t \in tables[l] : \A k \in Keys :
        t.data[k] > 0 => value[t.data[k]] \in Nat
  BY Zenon, EntriesValued DEF Inv
<1>3. SUFFICES ASSUME NoPanic', NEW k \in Keys
               PROVE  \/ \A j \in 1 .. log_offset : log'[j] # k
                      \/ \E l \in Level : \E t \in tables[l] :
                           /\ t.id \in manifest'[l] /\ t.data[k] > 0
                           /\ \A j \in value[t.data[k]] + 1 .. log_offset : log'[j] # k
  BY Zenon DEF Durable
<1>4. \A j \in 1 .. log_offset : log'[j] = log[j]
  BY <1>1
<1>5. CASE \A j \in 1 .. log_offset : log[j] # k
  BY Zenon, <1>4, <1>5
<1>6. ASSUME NEW l \in Level, NEW t \in tables[l], t.id \in manifest[l],
             t.data[k] > 0, \A j \in value[t.data[k]] + 1 .. log_offset : log[j] # k
      PROVE  \A j \in value[t.data[k]] + 1 .. log_offset : log'[j] # k
  BY <1>1, <1>2, <1>4, <1>6
<1> QED BY Zenon, <1>3, <1>5, <1>6 DEF Inv, StoreInv, Durable
\* write_opts queues its batch.
LEMMA WriteBeginStore ==
  ASSUME Inv, NEW b \in Batches, WriteBegin(b)
  PROVE  StoreInv' /\ \A k \in Keys : View(k)' = View(k)
<1>1. b \in Seq(Keys)
  <2>1. PICK n \in 1 .. MaxWrites : b \in [1 .. n -> Keys]
    BY Zenon DEF Batches
  <2> QED BY <2>1, DbAssumption
<1>2. /\ UNCHANGED <<tables, memtable, imm, value, reader, seen, log>>
      /\ UNCHANGED <<flush, trim, manifest, log_offset, task>>
      /\ writer.pc = "idle" /\ writer'.pc = "log" /\ writer'.batch = b
      /\ writer'.left = b /\ writer'.taken = Empty
  BY Zenon DEF WriteBegin, levelVars
<1>3. writer'.taken = writer.taken
  <2>1. writer.taken \in Data /\ \A k \in Keys : writer.taken[k] = 0
    BY Zenon, <1>2, WriterFacts DEF Inv, StoreInv, BatchLogged
  <2> QED BY Zenon, <1>2, <2>1 DEF Empty, Data
<1>4. BatchLen' = Len(b) /\ LeftLen' = Len(b) /\ Len(b) \in Nat
  BY <1>1, <1>2 DEF BatchLen, LeftLen
<1>5. BatchLen = 0 /\ LeftLen = 0
  BY Zenon, <1>2 DEF Inv, DbInv, WriterProgress, BatchLen, LeftLen
<1>6. LogEnd' = LogEnd /\ Count' = Count
  BY <1>2, <1>4, <1>5, PositionsNat DEF Inv, LogEnd, Count
<1>7. BatchLogged'
  <2>1. BatchLen' - LeftLen' = 0
    BY <1>4
  <2>2. \A i \in 1 .. LeftLen' : writer'.left[i] = writer'.batch[0 + i]
    BY <1>2, <1>4
  <2>3. writer'.pc # "push" => \A k \in Keys : writer'.taken[k] = 0
    BY Zenon, <1>2, EmptyFacts
  <2>4. \A i \in 1 .. 0 : log'[Count' + i] = writer'.batch[i]
    OBVIOUS
  <2> QED BY Zenon, <2>1, <2>2, <2>3, <2>4 DEF BatchLogged
<1>8. Durable'
  BY Zenon, <1>2, SameDurable DEF NoPanic
<1>9. Flushed'
  BY Zenon, <1>2, SameTables DEF Inv, StoreInv, Flushed
<1> QED BY Zenon, <1>2, <1>3, <1>6, <1>7, <1>8, <1>9, QuietStoreStep

\* The log writer appends a record of the batch.
LEMMA LogRecordStore ==
  ASSUME Inv, LogRecord
  PROVE  StoreInv' /\ \A k \in Keys : View(k)' = View(k)
<1> DEFINE n == BatchLen - LeftLen
<1>1. /\ UNCHANGED <<tables, memtable, imm, value, reader, seen>>
      /\ UNCHANGED <<flush, trim, manifest, log_offset, task>>
      /\ writer.pc = "log" /\ writer.left # <<>>
      /\ log' = Append(log, Head(writer.left))
      /\ writer' = [writer EXCEPT !.left = Tail(@)]
  BY Zenon DEF LogRecord, levelVars
<1>2. /\ writer'.pc = "log" /\ writer'.batch = writer.batch
      /\ writer'.left = Tail(writer.left) /\ writer'.taken = writer.taken
  BY Zenon, <1>1 DEF Inv, DbInv, DbTypeOK, Writer
<1>3. writer.left \in Seq(Keys) /\ log \in Seq(Keys)
  BY Zenon, WriterFacts DEF Inv, DbInv, DbTypeOK
<1>4. /\ LeftLen \in Nat /\ 0 < LeftLen /\ LeftLen' = LeftLen - 1
      /\ \A i \in 1 .. LeftLen' : writer'.left[i] = writer.left[i + 1]
      /\ Head(writer.left) = writer.left[1] /\ Head(writer.left) \in Keys
  <2>1. Len(writer.left) \in Nat \ {0}
    BY Zenon, <1>1, <1>3, NotEmptyLen
  <2> QED BY <1>1, <1>2, <1>3, <2>1 DEF LeftLen
<1>5. /\ LogEnd \in Nat /\ LogEnd' = LogEnd + 1 /\ log'[LogEnd + 1] = writer.left[1]
      /\ \A j \in 1 .. LogEnd : log'[j] = log[j]
  BY <1>1, <1>3, <1>4 DEF LogEnd
<1>6. BatchLen' = BatchLen /\ BatchLen \in Nat /\ n \in Nat
  BY Zenon, <1>2, PositionsNat, CountFacts DEF BatchLen, Inv
<1>7. Count' = Count /\ Count \in Nat /\ Count + n = LogEnd
  BY <1>4, <1>5, <1>6, CountFacts DEF Inv, Count
<1>8. BatchLogged'
  <2>1. BatchLen' - LeftLen' = n + 1
    BY <1>4, <1>6
  <2>2. /\ \A i \in 1 .. n : log[Count + i] = writer.batch[i]
        /\ \A i \in 1 .. LeftLen : writer.left[i] = writer.batch[n + i]
        /\ \A k \in Keys : writer.taken[k] = 0
    BY Zenon, <1>1 DEF Inv, StoreInv, BatchLogged
  <2> HIDE DEF n
  <2>3. ASSUME NEW i \in 1 .. n + 1 PROVE log'[Count + i] = writer.batch[i]
    <3>1. CASE i = n + 1
      <4>1. Count + i = LogEnd + 1 /\ writer.left[1] = writer.batch[n + 1]
        BY <1>4, <1>6, <1>7, <2>2, <3>1
      <4> QED BY Zenon, <1>5, <3>1, <4>1
    <3>2. CASE i # n + 1
      <4>1. i \in 1 .. n /\ Count + i \in 1 .. LogEnd
        BY <1>5, <1>6, <1>7, <3>2
      <4> QED BY Zenon, <1>5, <2>2, <4>1
    <3> QED BY Zenon, <3>1, <3>2
  <2>4. ASSUME NEW i \in 1 .. LeftLen'
        PROVE  writer'.left[i] = writer.batch[(n + 1) + i]
    <3>1. i + 1 \in 1 .. LeftLen /\ n + (i + 1) = (n + 1) + i
      BY <1>4, <1>6
    <3> QED BY Zenon, <1>4, <2>2, <3>1
  <2> QED BY Zenon, <1>2, <1>7, <2>1, <2>2, <2>3, <2>4 DEF BatchLogged
<1>9. Durable'
  BY Zenon, <1>1, <1>5, SameDurable DEF NoPanic
<1>10. Flushed'
  BY Zenon, <1>1, SameTables DEF Inv, StoreInv, Flushed
<1> QED BY Zenon, <1>1, <1>2, <1>5, <1>7, <1>8, <1>9, <1>10, QuietStoreStep

\* A step that leaves the log and the writer alone.
LEMMA SameLog ==
  ASSUME Inv, UNCHANGED <<log, writer>>
  PROVE  /\ Count' = Count /\ \A j \in 1 .. LogEnd : log'[j] = log[j]
         /\ LogEnd' = LogEnd /\ BatchLen' = BatchLen /\ LeftLen' = LeftLen
         /\ BatchLogged' /\ writer'.taken = writer.taken
<1>1. /\ LogEnd' = LogEnd /\ BatchLen' = BatchLen /\ LeftLen' = LeftLen
      /\ Count' = Count
  BY Zenon DEF LogEnd, BatchLen, LeftLen, Count
<1>2. BatchLogged'
  BY Zenon, <1>1 DEF Inv, StoreInv, BatchLogged
<1> QED BY Zenon, <1>1, <1>2

\* The flush starts, and records sequence numbers; the table is listed and the
\* log trimmed.
LEMMA FlushStore ==
  ASSUME Inv, FlushStart \/ FlushNumber \/ FlushList \/ set_offset
  PROVE  StoreInv' /\ \A k \in Keys : View(k)' = View(k)
<1>1. /\ UNCHANGED <<tables, memtable, imm, value, reader, seen, log, writer>>
      /\ UNCHANGED <<log_offset, task>>
      /\ \A l \in Level : manifest[l] \subseteq manifest'[l]
  <2>1. CASE FlushStart \/ FlushNumber \/ set_offset
    BY Zenon, <2>1 DEF FlushStart, FlushBuild, FlushNumber, set_seq_number_offset,
                set_offset, levelVars, dbVars
  <2>2. CASE FlushList
    <3>1. manifest \in [Level -> SUBSET Nat]
      BY Zenon DEF Inv, LevelsInv, OwnershipInv, TypeOK
    <3> QED BY Zenon, <2>2, <3>1 DEF FlushList, FlushManifest
  <2> QED BY Zenon, <2>1, <2>2
<1>2. Flushed'
  <2>1. \A k \in Keys : TablesSeq(k)' = TablesSeq(k)
    BY Zenon, <1>1, SameTables
  <2>2. CASE FlushStart
    BY Zenon, <1>1, <2>1, <2>2 DEF FlushStart, FlushBuild, dbVars, Flushed
  <2>3. CASE FlushNumber
    BY Zenon, <1>1, <2>1, <2>3 DEF FlushNumber, set_seq_number_offset, dbVars, Inv,
                           StoreInv, Flushed
  <2>4. CASE FlushList
    BY Zenon, <1>1, <2>1, <2>4 DEF FlushList, FlushManifest, NoFlush, Inv, StoreInv, Flushed
  <2>5. CASE set_offset
    BY Zenon, <1>1, <2>1, <2>5 DEF set_offset, levelVars, Inv, StoreInv, Flushed
  <2> QED BY Zenon, <2>2, <2>3, <2>4, <2>5
<1>3. Durable'
  BY Zenon, <1>1, SameLog, SameDurable DEF NoPanic
<1> QED BY Zenon, <1>1, <1>2, <1>3, SameLog, QuietStoreStep

\* The manifest's log offset moves to that of the immutable memtable: all its
\* entries are in tables that are listed.
LEMMA SetLogOffsetStore ==
  ASSUME Inv, set_log_offset
  PROVE  StoreInv' /\ \A k \in Keys : View(k)' = View(k)
<1>1. /\ UNCHANGED <<tables, memtable, imm, value, reader, seen, log, writer>>
      /\ UNCHANGED <<flush, manifest, task>>
      /\ trim = "manifest" /\ trim' = "pop" /\ log_offset' = imm[1].log_offset
  BY Zenon DEF set_log_offset, levelVars
<1>2. imm # <<>> /\ flush.pc = "idle"
  BY Zenon, <1>1 DEF Inv, DbInv, FlushProgress
<1>3. Flushed'
  BY Zenon, <1>1, SameTables DEF Inv, StoreInv, Flushed
<1>4. Durable'
  <2> DEFINE q == imm[1].log_offset
  <2> SUFFICES ASSUME NoPanic, NEW k \in Keys
               PROVE  \/ \A j \in 1 .. q : log[j] # k
                      \/ \E l \in Level : \E t \in tables[l] :
                           /\ t.id \in manifest[l] /\ t.data[k] > 0
                           /\ \A j \in value[t.data[k]] + 1 .. q : log[j] # k
    BY <1>1 DEF Durable, NoPanic
  <2>1. IsLast(ValueOf(LowerSeq(k)), q, k)
    BY Zenon, <1>2 DEF Inv, StoreInv, ViewIsLast
  <2>2. LowerSeq(k) = TablesSeq(k)
    BY Zenon, <1>1 DEF LowerSeq, Inv, StoreInv, Flushed
  <2> HIDE DEF q
  <2>3. CASE TablesSeq(k) = 0
    BY <2>1, <2>2, <2>3 DEF ValueOf, IsLast
  <2>4. CASE TablesSeq(k) # 0
    <3>1. PICK l \in Level : \E t \in tables[l] : t.data[k] = TablesSeq(k)
      BY <2>4, TablesSeqNewest DEF Inv, LevelsInv, TablesNewest
    <3>2. PICK t \in tables[l] : t.data[k] = TablesSeq(k)
      BY Zenon, <3>1
    <3>3. t.data[k] > 0
      BY <2>4, <3>2, TablesSeqNewest DEF Inv, LevelsInv, TablesNewest
    <3>4. t.id \in manifest[l]
      BY Zenon, <1>2 DEF Inv, LevelsInv, ManifestInv
    <3>5. \A j \in value[t.data[k]] + 1 .. q : log[j] # k
      BY Zenon, <2>1, <2>2, <2>4, <3>2 DEF ValueOf, IsLast
    <3> QED BY Zenon, <3>3, <3>4, <3>5
  <2> QED BY Zenon, <2>3, <2>4
<1> QED BY Zenon, <1>1, <1>3, <1>4, SameLog, QuietStoreStep
-----------------------------------------------------------------------------
(* Entries move from the memtable to the tables.                            *)

\* The full memtable becomes the immutable one.
LEMMA PushImmStore ==
  ASSUME Inv, PushImm
  PROVE  StoreInv' /\ \A k \in Keys : View(k)' = View(k)
<1>1. /\ UNCHANGED <<tables, memtable, value, reader, seen, log>>
      /\ UNCHANGED <<flush, trim, manifest, log_offset, task>>
      /\ writer.pc = "push" /\ imm = <<>> /\ writer' = NoWriter
  BY Zenon DEF PushImm, levelVars
<1>2. imm' # <<>> /\ imm'[1].data = writer.taken /\ imm'[1].log_offset = LogEnd
  <2> DEFINE new == [data |-> writer.taken, log_offset |-> Len(log),
                     next_seq |-> next_seq]
  <2>1. imm' = <<new>> /\ new.data = writer.taken /\ new.log_offset = LogEnd
    BY <1>1 DEF PushImm, LogEnd
  <2> HIDE DEF new
  <2> QED BY Zenon, <2>1
<1>3. /\ writer'.pc = "idle" /\ writer'.batch = <<>> /\ writer'.left = <<>>
      /\ \A k \in Keys : writer'.taken[k] = 0
  BY Zenon, <1>1, EmptyFacts DEF NoWriter
<1>4. flush.pc = "idle" /\ trim = "idle"
  BY Zenon, <1>1 DEF Inv, DbInv, FlushProgress
<1>5. BatchLen = 0 /\ LeftLen = 0 /\ BatchLen' = 0 /\ LeftLen' = 0
  BY Zenon, <1>1, <1>3 DEF Inv, DbInv, WriterProgress, BatchLen, LeftLen
<1>6. LogEnd' = LogEnd /\ Count' = Count /\ Count = LogEnd /\ LogEnd \in Nat
  BY <1>1, <1>5, PositionsNat DEF Inv, LogEnd, Count
<1>7. \A k \in Keys : memtable[k] = 0
  BY Zenon, <1>1 DEF Inv, DbInv, WriterProgress
<1>8. \A k \in Keys : TablesSeq(k)' = TablesSeq(k)
  BY Zenon, <1>1, SameTables
<1>9. \A k \in Keys :
        /\ LowerSeq(k) = TablesSeq(k)
        /\ LowerSeq(k)' = IF writer.taken[k] > 0 THEN writer.taken[k]
                          ELSE TablesSeq(k)
        /\ ViewSeq(k) = LowerSeq(k)' /\ ViewSeq(k)' = ViewSeq(k)
  BY <1>1, <1>2, <1>3, <1>7, <1>8, ViewSeqCases, ViewSeqCasesNext DEF LowerSeq
<1>10. \A k \in Keys : View(k)' = View(k) /\ ValueOf(LowerSeq(k))' = View(k)
  BY Zenon, <1>1, <1>9 DEF View, ValueOf
<1>11. BatchLogged'
  BY <1>3, <1>5 DEF BatchLogged
<1>12. ViewIsLast'
  BY Zenon, <1>1, <1>2, <1>6, <1>10 DEF Inv, StoreInv, ViewIsLast, IsLast
<1>13. TablesPlaced'
  BY Zenon, <1>1, <1>2, <1>6 DEF Inv, StoreInv, TablesPlaced
<1>14. Durable'
  BY Zenon, <1>1, SameDurable DEF NoPanic
<1>15. Flushed'
  BY Zenon, <1>1, <1>4 DEF Flushed
<1>16. ASSUME NEW r \in Readers, NEW pc, NEW l, NEW k \in Keys, GetSees(pc, l, k, r)
       PROVE  GetSees(pc, l, k, r)'
  <2>1. View(k)' \in seen'[r]
    BY Zenon, <1>1, <1>10, <1>16 DEF GetSees
  <2>2. Covered(l, k, r)' <=> Covered(l, k, r)
    BY Zenon, <1>1 DEF Covered
  <2>3. pc \in {"imm", "level"} /\ writer.taken[k] > 0 =>
          value[writer.taken[k]] \in seen[r]
    BY Zenon, <1>16 DEF GetSees
  <2>4. pc = "imm" => ValueOf(LowerSeq(k))' \in seen'[r]
    BY Zenon, <1>1, <1>10, <1>16 DEF GetSees
  <2>5. pc = "level" => (imm'[1].data[k] > 0 => value'[imm'[1].data[k]] \in seen'[r])
    BY Zenon, <1>1, <1>2, <2>3
  <2>6. pc = "level" => Covered(l, k, r)'
    BY Zenon, <1>16, <2>2 DEF GetSees
  <2> QED BY <1>1, <1>3, <1>7, <2>1, <2>4, <2>5, <2>6 DEF GetSees
<1>17. ReadersSee'
  BY Zenon, <1>1, <1>16 DEF Inv, StoreInv, ReadersSee
<1> QED BY Zenon, <1>10, <1>11, <1>12, <1>13, <1>14, <1>15, <1>17 DEF StoreInv

\* The immutable memtable is dropped: the tables have its entries.
LEMMA PopImmStore ==
  ASSUME Inv, PopImm
  PROVE  StoreInv' /\ \A k \in Keys : View(k)' = View(k)
<1>1. /\ UNCHANGED <<tables, memtable, value, reader, seen, log, writer>>
      /\ UNCHANGED <<flush, manifest, log_offset, task>>
      /\ trim = "pop" /\ trim' = "idle" /\ imm' = Tail(imm)
  BY Zenon DEF PopImm, levelVars
<1>2. imm # <<>> /\ flush.pc = "idle"
  BY Zenon, <1>1 DEF Inv, DbInv, FlushProgress
<1>3. imm' = <<>>
  BY Zenon, <1>1, <1>2, ImmFacts DEF Inv
<1>4. \A k \in Keys : TablesSeq(k)' = TablesSeq(k)
  BY Zenon, <1>1, SameTables
<1>5. \A k \in Keys : LowerSeq(k) = TablesSeq(k) /\ LowerSeq(k)' = LowerSeq(k)
  BY Zenon, <1>1, <1>3, <1>4 DEF LowerSeq, Inv, StoreInv, Flushed
<1>6. \A k \in Keys : /\ View(k)' = View(k)
                      /\ ValueOf(LowerSeq(k))' = ValueOf(LowerSeq(k))
  BY Zenon, <1>1, <1>5, ViewSeqCases, ViewSeqCasesNext DEF View, ValueOf
<1>7. Count' = Count /\ BatchLogged'
  BY Zenon, <1>1, SameLog
<1>8. ViewIsLast'
  BY Zenon, <1>1, <1>3, <1>6, <1>7 DEF Inv, StoreInv, ViewIsLast, IsLast
<1>9. TablesPlaced'
  <2>1. \A l \in Level : \A t \in tables[l] : \A k \in Keys :
          t.data[k] > 0 => value[t.data[k]] \in Nat
    BY Zenon, EntriesValued DEF Inv
  <2>2. imm[1].log_offset \in Nat /\ Count \in Nat /\ imm[1].log_offset <= Count
    BY Zenon, <1>2, CountFacts DEF Inv
  <2>3. \A l \in Level : \A t \in tables[l] : \A k \in Keys :
          t.data[k] > 0 => value[t.data[k]] <= Count
    BY <1>2, <2>1, <2>2 DEF Inv, StoreInv, TablesPlaced
  <2> QED BY Zenon, <1>1, <1>3, <1>7, <2>3 DEF Inv, StoreInv, TablesPlaced
<1>10. Durable'
  BY Zenon, <1>1, SameDurable DEF NoPanic
<1>11. Flushed'
  BY Zenon, <1>1, <1>2 DEF Flushed
<1>12. ASSUME NEW r \in Readers, NEW pc, NEW l, NEW k \in Keys, GetSees(pc, l, k, r)
       PROVE  GetSees(pc, l, k, r)'
  <2>1. Covered(l, k, r)' <=> Covered(l, k, r)
    BY Zenon, <1>1 DEF Covered
  <2> QED BY Zenon, <1>1, <1>3, <1>6, <1>12, <2>1 DEF GetSees
<1>13. ReadersSee'
  BY Zenon, <1>1, <1>12 DEF Inv, StoreInv, ReadersSee
<1> QED BY Zenon, <1>6, <1>7, <1>8, <1>9, <1>10, <1>11, <1>13 DEF StoreInv

\* The table of the immutable memtable joins level 0.
LEMMA FlushAddStore ==
  ASSUME Inv, FlushAdd, LevelsInv'
  PROVE  StoreInv' /\ \A k \in Keys : View(k)' = View(k)
<1> DEFINE new == [id |-> flush.id, data |-> flush.data]
           d == imm[1].data
           q == imm[1].log_offset
<1>1. /\ UNCHANGED <<memtable, imm, value, reader, seen, log, writer, trim>>
      /\ UNCHANGED <<manifest, log_offset, task, seq_offset>>
      /\ flush.pc = "build" /\ flush'.pc = "added"
      /\ tables' = [tables EXCEPT ![0] = @ \cup {new}]
  BY Zenon DEF FlushAdd, add_l0_table, dbVars
<1>2. imm # <<>> /\ trim = "idle" /\ new.data = d
  BY Zenon, <1>1 DEF Inv, DbInv, FlushProgress, StoreInv, Flushed
<1>3. tables \in [Level -> SUBSET Table] /\ 0 \in Level
  BY Zenon, LevelFacts DEF Inv, LevelsInv, OwnershipInv, TypeOK
<1> HIDE DEF new
<1>4. /\ \A l \in Level : \A t \in tables'[l] : t \in tables[l] \/ t = new
      /\ \A l \in Level : tables[l] \subseteq tables'[l]
      /\ new \in tables'[0]
  BY Zenon, <1>1, <1>3
<1>5. /\ \A k \in Keys : d[k] \in Nat /\ (d[k] > 0 => value[d[k]] \in Nat)
      /\ \A l \in Level : \A t \in tables[l] : \A k \in Keys :
           t.data[k] \in Nat /\ (t.data[k] > 0 => value[t.data[k]] \in Nat)
      /\ q \in Nat
  BY Zenon, <1>2, EntriesValued, ImmFacts DEF Inv
<1>6. \A l \in Level : \A t \in tables[l] : \A k \in Keys :
        d[k] > 0 => t.data[k] < d[k]
  <2>1. /\ \A l \in Level : \A t \in tables[l] : \A k \in Keys : t.data[k] < seq_offset
        /\ \A k \in Keys : d[k] > 0 => seq_offset <= d[k]
    BY Zenon, <1>1, <1>2 DEF Inv, LevelsInv, OrderInv, FlushNewest, StoreInv, Flushed
  <2>2. seq_offset \in Nat
    BY Zenon, PositionsNat DEF Inv
  <2> HIDE DEF d
  <2> QED BY <1>5, <2>1, <2>2
<1> HIDE DEF d, q
<1>7. \A k \in Keys : TablesSeq(k)' = IF d[k] > 0 THEN d[k] ELSE TablesSeq(k)
  <2>1. TablesNewest /\ TablesNewest'
    BY Zenon, TablesSeqNewest, TablesSeqNewestNext DEF Inv, LevelsInv
  <2> SUFFICES ASSUME NEW k \in Keys
               PROVE  TablesSeq(k)' = IF d[k] > 0 THEN d[k] ELSE TablesSeq(k)
    BY Zenon
  <2>2. /\ TablesSeq(k)' \in Nat /\ TablesSeq(k) \in Nat
        /\ \A l \in Level : \A t \in tables'[l] : t.data[k] <= TablesSeq(k)'
        /\ \A l \in Level : \A t \in tables[l] : t.data[k] <= TablesSeq(k)
        /\ TablesSeq(k)' > 0 =>
             \E l \in Level : \E t \in tables'[l] : t.data[k] = TablesSeq(k)'
        /\ TablesSeq(k) > 0 =>
             \E l \in Level : \E t \in tables[l] : t.data[k] = TablesSeq(k)
    BY Zenon, <2>1 DEF TablesNewest
  <2>3. CASE d[k] > 0
    <3>1. d[k] <= TablesSeq(k)'
      BY Zenon, <1>2, <1>3, <1>4, <2>2
    <3>2. TablesSeq(k)' <= d[k]
      BY <1>2, <1>4, <1>5, <1>6, <2>2, <2>3, <3>1
    <3> QED BY <1>5, <2>2, <2>3, <3>1, <3>2
  <2>4. CASE d[k] = 0
    <3>1. TablesSeq(k) <= TablesSeq(k)'
      BY <1>4, <2>2
    <3>2. TablesSeq(k)' <= TablesSeq(k)
      BY <1>2, <1>4, <2>2, <2>4
    <3> QED BY <2>2, <2>4, <3>1, <3>2
  <2> QED BY <1>5, <2>3, <2>4
<1>8. \A k \in Keys : /\ LowerSeq(k) = IF d[k] > 0 THEN d[k] ELSE TablesSeq(k)
                      /\ LowerSeq(k)' = LowerSeq(k)
  BY Zenon, <1>1, <1>2, <1>7 DEF LowerSeq, d
<1>9. \A k \in Keys : /\ View(k)' = View(k)
                      /\ ValueOf(LowerSeq(k))' = ValueOf(LowerSeq(k))
  BY Zenon, <1>1, <1>8, ViewSeqCases, ViewSeqCasesNext DEF View, ValueOf
<1>10. Count' = Count /\ BatchLogged'
  BY Zenon, <1>1, SameLog
<1>11. ViewIsLast'
  BY <1>1, <1>9, <1>10 DEF Inv, StoreInv, ViewIsLast, IsLast
<1>12. TablesPlaced'
  <2>1. \A k \in Keys : d[k] > 0 => IsLast(value[d[k]], q, k)
    BY <1>2, <1>8 DEF Inv, StoreInv, ViewIsLast, ValueOf, q
  <2>2. \A l \in Level : \A t \in tables[l] : \A k \in Keys : t.data[k] > 0 =>
          value[t.data[k]] <= q /\ (value[t.data[k]] > 0 => log[value[t.data[k]]] = k)
    BY Zenon, <1>2 DEF Inv, StoreInv, TablesPlaced, q
  <2>3. \A l \in Level : \A t \in tables'[l] : \A k \in Keys : t.data[k] > 0 =>
          value[t.data[k]] <= q /\ (value[t.data[k]] > 0 => log[value[t.data[k]]] = k)
    BY <1>2, <1>4, <1>5, <2>1, <2>2 DEF IsLast
  <2>4. \A l \in Level : \A t \in tables[l] : \A k \in Keys :
          t.data[k] > 0 /\ d[k] > 0 => value[t.data[k]] <= value[d[k]]
    <3> SUFFICES ASSUME NEW l \in Level, NEW t \in tables[l], NEW k \in Keys,
                        t.data[k] > 0, d[k] > 0
                 PROVE  value[t.data[k]] <= value[d[k]]
      BY Zenon
    <3> DEFINE x == value[t.data[k]]
               y == value[d[k]]
    <3>1. x \in Nat /\ y \in Nat /\ x <= q /\ (x > 0 => log[x] = k)
      BY Zenon, <1>5, <2>2
    <3>2. \A j \in y + 1 .. q : log[j] # k
      BY Zenon, <2>1 DEF IsLast
    <3> HIDE DEF x, y
    <3>3. x <= y
      BY <1>5, <3>1, <3>2
    <3> QED BY Zenon, <3>3 DEF x, y
  <2>5. \A l, m \in Level : \A s \in tables'[l], t \in tables'[m] : \A k \in Keys :
          s.data[k] > 0 /\ s.data[k] <= t.data[k] =>
            value[s.data[k]] <= value[t.data[k]]
    <3> SUFFICES ASSUME NEW l \in Level, NEW m \in Level, NEW s \in tables'[l],
                        NEW t \in tables'[m], NEW k \in Keys,
                        s.data[k] > 0, s.data[k] <= t.data[k]
                 PROVE  value[s.data[k]] <= value[t.data[k]]
      BY Zenon
    <3>1. CASE s \in tables[l] /\ t \in tables[m]
      BY Zenon, <3>1 DEF Inv, StoreInv, TablesPlaced
    <3>2. CASE s \in tables[l] /\ t = new
      BY <1>2, <1>5, <2>4, <3>2
    <3>3. CASE s = new /\ t \in tables[m]
      BY <1>2, <1>5, <1>6, <3>3
    <3>4. CASE s = new /\ t = new
      BY <1>2, <1>5, <3>4
    <3> QED BY Zenon, <1>4, <3>1, <3>2, <3>3, <3>4
  <2> QED BY <1>1, <1>2, <2>3, <2>5 DEF TablesPlaced, q
<1>13. Durable'
  BY <1>1, <1>4 DEF Inv, StoreInv, Durable, NoPanic
<1>14. Flushed'
  BY Zenon, <1>1, <1>2, <1>7 DEF Flushed, d
<1>15. ASSUME NEW r \in Readers, NEW pc, NEW l, NEW k \in Keys, GetSees(pc, l, k, r)
       PROVE  GetSees(pc, l, k, r)'
  <2>1. ASSUME pc = "level" PROVE Covered(l, k, r)'
    <3>1. d[k] > 0 => value[d[k]] \in seen[r]
      BY Zenon, <1>2, <1>15, <2>1 DEF GetSees, d
    <3>2. Covered(l, k, r)
      BY Zenon, <1>15, <2>1 DEF GetSees
    <3>3. ASSUME NEW m \in Level, NEW t \in tables[m], l <= m, t.data[k] > 0,
                 \A n \in Level : \A u \in tables[n] :
                   t.data[k] <= u.data[k] => value[u.data[k]] \in seen[r]
          PROVE  Covered(l, k, r)'
      <4>1. \A n \in Level : \A u \in tables'[n] :
              t.data[k] <= u.data[k] => value[u.data[k]] \in seen[r]
        BY <1>2, <1>4, <1>5, <3>1, <3>3
      <4> QED BY Zenon, <1>1, <1>4, <3>3, <4>1 DEF Covered
    <3>4. ASSUME 0 \in seen[r],
                 \A n \in Level : \A u \in tables[n] :
                   u.data[k] > 0 => value[u.data[k]] \in seen[r]
          PROVE  Covered(l, k, r)'
      <4>1. \A n \in Level : \A u \in tables'[n] :
              u.data[k] > 0 => value[u.data[k]] \in seen[r]
        BY Zenon, <1>2, <1>4, <3>1, <3>4
      <4> QED BY Zenon, <1>1, <3>4, <4>1 DEF Covered
    <3> QED BY Zenon, <3>2, <3>3, <3>4 DEF Covered
  <2> QED BY Zenon, <1>1, <1>9, <1>15, <2>1 DEF GetSees
<1>16. ReadersSee'
  BY Zenon, <1>1, <1>15 DEF Inv, StoreInv, ReadersSee
<1> QED BY Zenon, <1>9, <1>10, <1>11, <1>12, <1>13, <1>14, <1>16 DEF StoreInv
-----------------------------------------------------------------------------
(* Compactions.                                                             *)

\* Every entry of the next state comes from a table of this one, and no entry is
\* lost, nor found further up than before.
TablesMoved ==
  \A k \in Keys :
    /\ \A m \in Level : \A t \in tables'[m] :
         \E n \in Level : \E u \in tables[n] : t.data[k] = u.data[k]
    /\ \A m \in Level : \A t \in tables[m] :
         \E n \in Level : \E u \in tables'[n] : m <= n /\ t.data[k] <= u.data[k]

\* A compaction moves entries down.
LEMMA SwapMoves ==
  ASSUME Inv, NEW c \in Tasks, compact_level(c) \/ fast_compaction(c),
         ManifestInv'
  PROVE  /\ TablesMoved
         /\ NoPanic' => NoPanic
         /\ NoPanic' => \A m \in Level : \A t \in tables[m] : t.id \in manifest[m] =>
              \A k \in Keys : \E n \in Level : \E u \in tables'[n] :
                u.id \in manifest'[n] /\ t.data[k] <= u.data[k]
<1> DEFINE l == task[c].level
           P == task[c].parents
           C == task[c].children
<1>1. PICK new \in Table : Swapped(c, l, P, C, new)
  BY Zenon, SwapEffect DEF Inv, LevelsInv
<1> HIDE DEF l, P, C
<1>2. /\ l \in Level /\ l + 1 \in Level /\ l \in Nat
      /\ P \subseteq tables[l] /\ C \subseteq tables[l + 1]
      /\ tables'[l] = tables[l] \ P
      /\ tables'[l + 1] = (tables[l + 1] \ C) \cup {new}
      /\ \A m \in Level \ {l, l + 1} : tables'[m] = tables[m]
      /\ \A m \in Level : \A t \in tables'[m] :
           t \in tables[m] \/ (m = l + 1 /\ t = new)
      /\ flush' = flush
  BY Zenon, <1>1 DEF Swapped
<1>3. \A m \in Level : \A t \in tables[m] : \A k \in Keys : t.data[k] \in Nat
  BY Zenon, TableNumbers DEF Inv, LevelsInv, OwnershipInv
<1>4. ASSUME NEW k \in Keys
      PROVE  /\ \E u \in P \cup C : new.data[k] = u.data[k]
             /\ \A u \in P \cup C : u.data[k] <= new.data[k]
  <2>1. CASE IsMove(P, C)
    <3>1. P \cup C = {new}
      BY Zenon, <1>1, <2>1 DEF Swapped, Swaps
    <3>2. new.data[k] \in Nat
      BY Zenon, <1>2, <1>3, <3>1
    <3> QED BY <3>1, <3>2
  <2>2. CASE ~IsMove(P, C)
    <3>1. Merge(P \cup C, new.data)
      BY Zenon, <1>1, <2>2 DEF Swapped, Swaps
    <3> QED BY Zenon, <3>1 DEF Merge
  <2> QED BY Zenon, <2>1, <2>2
<1>5. \A m \in Level : \A t \in tables[m] :
        \/ t \in tables'[m]
        \/ t \in P \cup C /\ m <= l + 1
  <2> SUFFICES ASSUME NEW m \in Level, NEW t \in tables[m], t \notin tables'[m]
               PROVE  t \in P \cup C /\ m <= l + 1
    BY Zenon
  <2>1. m \in {l, l + 1}
    BY Zenon, <1>2
  <2> QED BY <1>2, <2>1
<1>6. new \in tables'[l + 1]
  BY Zenon, <1>2
<1>7. TablesMoved
  <2>1. ASSUME NEW k \in Keys, NEW m \in Level, NEW t \in tables'[m]
        PROVE  \E n \in Level : \E u \in tables[n] : t.data[k] = u.data[k]
    BY Zenon, <1>2, <1>4
  <2>2. ASSUME NEW k \in Keys, NEW m \in Level, NEW t \in tables[m]
        PROVE  \E n \in Level : \E u \in tables'[n] : m <= n /\ t.data[k] <= u.data[k]
    <3>1. CASE t \in tables'[m]
      <4>1. m <= m /\ t.data[k] <= t.data[k]
        BY <1>3, LevelFacts
      <4> QED BY Zenon, <3>1, <4>1
    <3>2. CASE t \in P \cup C /\ m <= l + 1
      BY Zenon, <1>2, <1>4, <1>6, <3>2
    <3> QED BY Zenon, <1>5, <3>1, <3>2
  <2> QED BY Zenon, <2>1, <2>2 DEF TablesMoved
<1>8. NoPanic' => NoPanic
  BY Zenon, <1>1 DEF NoPanic, Swapped, Owns
<1>9. ASSUME NoPanic', NEW m \in Level, NEW t \in tables[m], t.id \in manifest[m],
             NEW k \in Keys
      PROVE  \E n \in Level : \E u \in tables'[n] :
               u.id \in manifest'[n] /\ t.data[k] <= u.data[k]
  <2>1. CASE t \in tables'[m]
    <3>1. ~(m = 0 /\ flush.pc \in {"added", "numbered"} /\ t.id = flush.id)
      BY Zenon, <1>8, <1>9 DEF Inv, LevelsInv, ManifestInv
    <3>2. t.id \in manifest'[m]
      BY Zenon, <1>2, <1>9, <2>1, <3>1 DEF ManifestInv
    <3>3. t.data[k] <= t.data[k]
      BY <1>3
    <3> QED BY Zenon, <2>1, <3>2, <3>3
  <2>2. CASE t \in P \cup C
    <3>1. l + 1 # 0
      BY <1>2
    <3>2. new.id \in manifest'[l + 1]
      BY Zenon, <1>2, <1>6, <1>9, <3>1 DEF ManifestInv
    <3> QED BY Zenon, <1>2, <1>4, <1>6, <2>2, <3>2
  <2> QED BY Zenon, <1>5, <2>1, <2>2
<1> QED BY Zenon, <1>7, <1>8, <1>9

\* A step that only moves entries down keeps what is known of them.
LEMMA MovedStore ==
  ASSUME Inv, TablesMoved, UNCHANGED dbVars, flush' = flush, log_offset' = log_offset,
         \A k \in Keys : TablesSeq(k)' = TablesSeq(k),
         NoPanic' => NoPanic,
         NoPanic' => \A m \in Level : \A t \in tables[m] : t.id \in manifest[m] =>
           \A k \in Keys : \E n \in Level : \E u \in tables'[n] :
             u.id \in manifest'[n] /\ t.data[k] <= u.data[k]
  PROVE  StoreInv' /\ \A k \in Keys : View(k)' = View(k)
<1>1. UNCHANGED <<memtable, imm, value, reader, seen, log, writer, trim>>
  BY Zenon DEF dbVars
<1>2. \A k \in Keys : LowerSeq(k)' = LowerSeq(k) /\ View(k)' = View(k)
  BY Zenon, <1>1, SameView
<1>3. \A k \in Keys : ValueOf(LowerSeq(k))' = ValueOf(LowerSeq(k))
  BY Zenon, <1>1, <1>2 DEF ValueOf
<1>4. Count' = Count /\ BatchLogged'
  BY Zenon, <1>1, SameLog
<1>5. ViewIsLast'
  BY <1>1, <1>2, <1>3, <1>4 DEF Inv, StoreInv, ViewIsLast, IsLast
<1>6. \A l \in Level : \A t \in tables[l] : \A k \in Keys :
        t.data[k] \in Nat /\ (t.data[k] > 0 => value[t.data[k]] \in Nat)
  BY Zenon, EntriesValued DEF Inv
<1>7. \A l \in Level : \A t \in tables'[l] : \A k \in Keys :
        t.data[k] \in Nat /\ (t.data[k] > 0 => value[t.data[k]] \in Nat)
  BY <1>6 DEF TablesMoved
<1>8. TablesPlaced'
  <2>1. ASSUME NEW l \in Level, NEW t \in tables'[l], NEW k \in Keys, t.data[k] > 0
        PROVE  /\ value[t.data[k]] <= IF imm = <<>> THEN Count ELSE imm[1].log_offset
               /\ value[t.data[k]] > 0 => log[value[t.data[k]]] = k
    <3>1. PICK n \in Level : \E u \in tables[n] : t.data[k] = u.data[k]
      BY Zenon DEF TablesMoved
    <3>2. PICK u \in tables[n] : t.data[k] = u.data[k]
      BY Zenon, <3>1
    <3> QED BY Zenon, <2>1, <3>2 DEF Inv, StoreInv, TablesPlaced
  <2>2. ASSUME NEW l \in Level, NEW m \in Level, NEW s \in tables'[l],
               NEW t \in tables'[m], NEW k \in Keys,
               s.data[k] > 0, s.data[k] <= t.data[k]
        PROVE  value[s.data[k]] <= value[t.data[k]]
    <3>1. PICK n \in Level : \E u \in tables[n] : s.data[k] = u.data[k]
      BY Zenon DEF TablesMoved
    <3>2. PICK u \in tables[n] : s.data[k] = u.data[k]
      BY Zenon, <3>1
    <3>3. PICK h \in Level : \E v \in tables[h] : t.data[k] = v.data[k]
      BY Zenon DEF TablesMoved
    <3>4. PICK v \in tables[h] : t.data[k] = v.data[k]
      BY Zenon, <3>3
    <3> QED BY <2>2, <3>2, <3>4 DEF Inv, StoreInv, TablesPlaced
  <2> QED BY Zenon, <1>1, <1>4, <2>1, <2>2 DEF TablesPlaced
<1>9. Durable'
  <2>0. log_offset \in Nat
    BY Zenon, PositionsNat DEF Inv
  <2> SUFFICES ASSUME NoPanic', NEW k \in Keys,
                      ~\A j \in 1 .. log_offset : log[j] # k
               PROVE  \E l \in Level : \E t \in tables'[l] :
                        /\ t.id \in manifest'[l] /\ t.data[k] > 0
                        /\ \A j \in value[t.data[k]] + 1 .. log_offset : log[j] # k
    BY Zenon, <1>1 DEF Durable
  <2>1. PICK m \in Level : \E t \in tables[m] :
          /\ t.id \in manifest[m] /\ t.data[k] > 0
          /\ \A j \in value[t.data[k]] + 1 .. log_offset : log[j] # k
    BY Zenon DEF Inv, StoreInv, Durable
  <2>2. PICK t \in tables[m] :
          /\ t.id \in manifest[m] /\ t.data[k] > 0
          /\ \A j \in value[t.data[k]] + 1 .. log_offset : log[j] # k
    BY Zenon, <2>1
  <2>3. PICK n \in Level : \E u \in tables'[n] :
          u.id \in manifest'[n] /\ t.data[k] <= u.data[k]
    BY Zenon, <2>2
  <2>4. PICK u \in tables'[n] : u.id \in manifest'[n] /\ t.data[k] <= u.data[k]
    BY Zenon, <2>3
  <2>5. PICK h \in Level : \E v \in tables[h] : u.data[k] = v.data[k]
    BY Zenon DEF TablesMoved
  <2>6. value[t.data[k]] <= value[u.data[k]]
    BY Zenon, <2>2, <2>4, <2>5 DEF Inv, StoreInv, TablesPlaced
  <2>7. u.data[k] > 0 /\ value[u.data[k]] \in Nat /\ value[t.data[k]] \in Nat
    BY <1>6, <1>7, <2>2, <2>4
  <2>8. \A j \in value[u.data[k]] + 1 .. log_offset : log[j] # k
    BY <2>0, <2>2, <2>6, <2>7
  <2> QED BY Zenon, <2>4, <2>7, <2>8
<1>10. Flushed'
  BY Zenon, <1>1 DEF Inv, StoreInv, Flushed
<1>11. ASSUME NEW r \in Readers, NEW pc, NEW l \in Level, NEW k \in Keys,
              GetSees(pc, l, k, r)
       PROVE  GetSees(pc, l, k, r)'
  <2>1. ASSUME Covered(l, k, r) PROVE Covered(l, k, r)'
    <3>1. ASSUME NEW m \in Level, NEW t \in tables[m], l <= m, t.data[k] > 0,
                 \A n \in Level : \A u \in tables[n] :
                   t.data[k] <= u.data[k] => value[u.data[k]] \in seen[r]
          PROVE  Covered(l, k, r)'
      <4>1. PICK n \in Level : \E u \in tables'[n] : m <= n /\ t.data[k] <= u.data[k]
        BY Zenon DEF TablesMoved
      <4>2. PICK u \in tables'[n] : m <= n /\ t.data[k] <= u.data[k]
        BY Zenon, <4>1
      <4>3. u.data[k] > 0 /\ l <= n
        BY <1>6, <1>7, <3>1, <4>2, LevelFacts
      <4>4. ASSUME NEW h \in Level, NEW v \in tables'[h], u.data[k] <= v.data[k]
            PROVE  value[v.data[k]] \in seen[r]
        <5>1. PICK g \in Level : \E w \in tables[g] : v.data[k] = w.data[k]
          BY Zenon DEF TablesMoved
        <5>2. t.data[k] <= v.data[k]
          BY <1>6, <1>7, <4>2, <4>4
        <5> QED BY Zenon, <3>1, <5>1, <5>2
      <4> QED BY Zenon, <1>1, <4>3, <4>4 DEF Covered
    <3>2. ASSUME 0 \in seen[r],
                 \A n \in Level : \A u \in tables[n] :
                   u.data[k] > 0 => value[u.data[k]] \in seen[r]
          PROVE  Covered(l, k, r)'
      <4>1. \A n \in Level : \A u \in tables'[n] :
              u.data[k] > 0 => value[u.data[k]] \in seen[r]
        BY <3>2 DEF TablesMoved
      <4> QED BY Zenon, <1>1, <3>2, <4>1 DEF Covered
    <3> QED BY Zenon, <2>1, <3>1, <3>2 DEF Covered
  <2> QED BY Zenon, <1>1, <1>2, <1>3, <1>11, <2>1 DEF GetSees
<1>12. ReadersSee'
  BY Zenon, <1>1, <1>11 DEF Inv, StoreInv, ReadersSee
<1> QED BY Zenon, <1>2, <1>4, <1>5, <1>8, <1>9, <1>10, <1>12 DEF StoreInv

\* A compaction task takes a step.
LEMMA CompactStore ==
  ASSUME Inv, LevelsInv', NEW c \in Tasks, Compact(c), UNCHANGED dbVars
  PROVE  StoreInv' /\ \A k \in Keys : View(k)' = View(k)
<1>1. UNCHANGED <<memtable, imm, value, reader, seen, log, writer, trim, log_offset>>
  BY Zenon DEF dbVars
<1>2. CASE compact_level(c) \/ fast_compaction(c)
  <2>1. \A k \in Keys : Results(k)' = Results(k)
    BY Zenon, SwapKeepsResults, <1>2 DEF Inv, LevelsInv
  <2>2. \A k \in Keys : TablesSeq(k)' = TablesSeq(k)
    BY Zenon, <2>1 DEF TablesSeq
  <2>3. flush' = flush
    BY Zenon, <1>2 DEF compact_level, fast_compaction
  <2>4. ManifestInv'
    BY Zenon DEF LevelsInv
  <2> QED BY Zenon, <1>1, <1>2, <2>2, <2>3, <2>4, SwapMoves, MovedStore
<1>3. CASE ~(compact_level(c) \/ fast_compaction(c))
  <2>1. UNCHANGED <<tables, manifest, flush>> /\ task[c].pc # "dead"
        /\ \A d \in Tasks \ {c} : task'[d] = task[d]
    <3>1. task \in [Tasks -> TaskState]
      BY Zenon DEF Inv, LevelsInv, OwnershipInv, TypeOK
    <3> QED BY Zenon, <1>3, <3>1 DEF Compact, Work, do_level_compaction, NothingToCompact,
         maybe_start_compaction, StartContended, get_overlaps, OverlapsContended,
         LockParentLevel
  <2>2. NoPanic' => NoPanic
    BY Zenon, <2>1 DEF NoPanic
  <2>3. Durable'
    BY Zenon, <1>1, <2>1, <2>2, SameLog, SameDurable
  <2>4. Flushed'
    BY Zenon, <1>1, <2>1, SameTables DEF Inv, StoreInv, Flushed
  <2> QED BY Zenon, <1>1, <2>1, <2>3, <2>4, SameLog, QuietStoreStep
<1> QED BY Zenon, <1>2, <1>3
-----------------------------------------------------------------------------
(* A batch takes effect.                                                    *)

\* Last is the largest index of an operation on the key.
LEMMA LastIsLargest ==
  ASSUME NEW b \in Seq(Keys), NEW k
  PROVE  /\ Last(b, k) \in 0 .. Len(b)
         /\ Last(b, k) > 0 => b[Last(b, k)] = k
         /\ \A i \in 1 .. Len(b) : b[i] = k => i <= Last(b, k)
<1> DEFINE T == {i \in DOMAIN b : b[i] = k}
<1>1. Len(b) \in Nat /\ DOMAIN b = 1 .. Len(b)
  OBVIOUS
<1>2. CASE \E i \in DOMAIN b : b[i] = k
  <2>1. T \in SUBSET (1 .. Len(b)) /\ T # {}
    BY Zenon, <1>1, <1>2
  <2>2. PICK x \in T : \A y \in T : y <= x
    <3> HIDE DEF T
    <3> QED BY Zenon, <1>1, <2>1, GreatestElement
  <2>3. \E i \in DOMAIN b : b[i] = k /\ \A j \in DOMAIN b : b[j] = k => j <= i
    BY Zenon, <2>2
  <2>4. Last(b, k) = CHOOSE i \in DOMAIN b :
                       b[i] = k /\ \A j \in DOMAIN b : b[j] = k => j <= i
    BY Zenon, <1>2 DEF Last
  <2>5. /\ Last(b, k) \in DOMAIN b /\ b[Last(b, k)] = k
        /\ \A j \in DOMAIN b : b[j] = k => j <= Last(b, k)
    BY Zenon, <2>3, <2>4
  <2> QED BY <1>1, <2>5
<1>3. CASE ~(\E i \in DOMAIN b : b[i] = k)
  BY <1>1, <1>3 DEF Last
<1> QED BY Zenon, <1>2, <1>3

\* What Apply does to the entries of a key and to the values.
LEMMA ApplyEffect ==
  ASSUME Inv, Apply
  PROVE  /\ Count = LogEnd - BatchLen /\ Count' = LogEnd /\ Count \in Nat
         /\ LogEnd' = LogEnd /\ BatchLen \in Nat /\ LogEnd \in Nat
         /\ BatchLen' = 0 /\ LeftLen' = 0 /\ writer'.batch = <<>>
         /\ writer.batch \in Seq(Keys) /\ writer.batch # <<>>
         /\ \A i \in 1 .. BatchLen : log[Count + i] = writer.batch[i]
         /\ \A s \in Nat : 0 < s /\ s < next_seq => value'[s] = value[s]
         /\ \A i \in 1 .. BatchLen : value'[next_seq + i - 1] = Count + i
         /\ \A k \in Keys : writer.taken[k] = 0
         /\ \A k \in Keys : LET x == Last(writer.batch, k)
                                y == IF x > 0 THEN next_seq + x - 1 ELSE memtable[k]
                            IN  \/ writer'.taken[k] = 0 /\ memtable'[k] = y
                                \/ writer'.taken[k] = y /\ memtable'[k] = 0
         /\ writer'.pc # "push" => \A k \in Keys : writer'.taken[k] = 0
<1> DEFINE b == writer.batch
           m == Put(memtable, next_seq, b)
           start == Len(log) - Len(b)
           new == [i \in DOMAIN b |-> start + i]
<1>1. /\ writer.pc = "log" /\ writer.left = <<>> /\ log' = log
      /\ value' = value \o new
  BY Zenon DEF Apply
<1>2. b \in Seq(Keys) /\ b # <<>>
  BY Zenon, <1>1, WriterFacts DEF Inv, DbInv, WriterProgress
<1>3. LeftLen = 0 /\ BatchLen \in Nat /\ LogEnd \in Nat /\ LogEnd' = LogEnd
  BY Zenon, <1>1, PositionsNat DEF LeftLen, Inv, LogEnd
<1>4. Count = LogEnd - BatchLen /\ Count \in Nat
  BY <1>3, CountFacts DEF Inv, Count
<1>5. /\ \A i \in 1 .. BatchLen : log[Count + i] = writer.batch[i]
      /\ \A k \in Keys : writer.taken[k] = 0
  BY <1>1, <1>3 DEF Inv, StoreInv, BatchLogged
<1>6. /\ writer'.batch = <<>> /\ writer'.left = <<>>
      /\ \/ /\ memtable' = m /\ writer'.pc = "idle" /\ writer'.taken = Empty
         \/ /\ memtable' = Empty /\ writer'.pc = "push" /\ writer'.taken = m
  <2> HIDE DEF m
  <2>1. CASE is_full(m)
    <3>1. /\ memtable' = Empty
          /\ writer' = [pc |-> "push", batch |-> <<>>, left |-> <<>>, taken |-> m]
      BY Zenon, <2>1 DEF Apply, m
    <3> QED BY Zenon, <3>1
  <2>2. CASE ~is_full(m)
    <3>1. memtable' = m /\ writer' = NoWriter
      BY Zenon, <2>2 DEF Apply, m
    <3> QED BY Zenon, <3>1 DEF NoWriter
  <2> QED BY Zenon, <2>1, <2>2
<1>7. BatchLen' = 0 /\ LeftLen' = 0
  BY Zenon, <1>6 DEF BatchLen, LeftLen
<1>8. Count' = LogEnd
  BY <1>3, <1>7 DEF Count
<1>9. /\ new \in Seq(Nat) /\ Len(new) = BatchLen
      /\ \A i \in 1 .. BatchLen : new[i] = Count + i
  <2>1. start = Count
    BY Zenon, <1>4 DEF LogEnd, BatchLen
  <2> HIDE DEF start
  <2> QED BY <1>2, <1>4, <2>1 DEF BatchLen
<1> HIDE DEF new
<1>10. value \in Seq(Nat) /\ Len(value) = next_seq - 1 /\ next_seq \in Nat /\ 0 < next_seq
  BY PositionsNat DEF Inv, DbInv, DbTypeOK, ValuesKnown, Valued, MemtablesInOrder
<1>11. \A i \in 1 .. Len(value) + Len(new) :
         value'[i] = IF i <= Len(value) THEN value[i] ELSE new[i - Len(value)]
  BY Zenon, <1>1, <1>9, <1>10, ConcatFacts
<1>12. \A s \in Nat : 0 < s /\ s < next_seq => value'[s] = value[s]
  BY <1>3, <1>9, <1>10, <1>11
<1>13. \A i \in 1 .. BatchLen : value'[next_seq + i - 1] = Count + i
  <2> SUFFICES ASSUME NEW i \in 1 .. BatchLen
               PROVE  value'[next_seq + i - 1] = Count + i
    BY Zenon
  <2> DEFINE j == next_seq + i - 1
  <2>1. j \in 1 .. Len(value) + Len(new) /\ ~(j <= Len(value)) /\ j - Len(value) = i
    BY <1>3, <1>9, <1>10
  <2> HIDE DEF j
  <2>2. value'[j] = new[i]
    BY Zenon, <1>11, <2>1
  <2> QED BY Zenon, <1>9, <2>2 DEF j
<1>14. \A k \in Keys : m[k] = IF Last(b, k) > 0 THEN next_seq + Last(b, k) - 1
                              ELSE memtable[k]
  BY Zenon DEF Put
<1> HIDE DEF m
<1>15. \A k \in Keys : LET x == Last(writer.batch, k)
                           y == IF x > 0 THEN next_seq + x - 1 ELSE memtable[k]
                       IN  \/ writer'.taken[k] = 0 /\ memtable'[k] = y
                           \/ writer'.taken[k] = y /\ memtable'[k] = 0
  BY Zenon, <1>6, <1>14, EmptyFacts
<1>16. writer'.pc # "push" => \A k \in Keys : writer'.taken[k] = 0
  BY Zenon, <1>6, EmptyFacts
<1> QED BY Zenon, <1>2, <1>3, <1>4, <1>5, <1>6, <1>7, <1>8, <1>12, <1>13, <1>15, <1>16

\* The batch is applied: the last operation on each of its keys is what a
\* caller sees, and what the gets under way may return.
LEMMA ApplyStore ==
  ASSUME Inv, Apply
  PROVE  /\ StoreInv'
         /\ \A k \in Keys : View(k)' = IF Last(writer.batch, k) > 0
                                       THEN Count + Last(writer.batch, k)
                                       ELSE View(k)
<1> DEFINE b == writer.batch
<1>1. /\ UNCHANGED <<tables, imm, reader, log, trim, flush, manifest, task>>
      /\ log_offset' = log_offset
  BY Zenon DEF Apply, levelVars
<1>2. /\ Count = LogEnd - BatchLen /\ Count' = LogEnd /\ Count \in Nat
      /\ LogEnd' = LogEnd /\ BatchLen \in Nat /\ LogEnd \in Nat
      /\ BatchLen' = 0 /\ LeftLen' = 0
      /\ \A i \in 1 .. BatchLen : log[Count + i] = b[i]
      /\ \A s \in Nat : 0 < s /\ s < next_seq => value'[s] = value[s]
      /\ \A i \in 1 .. BatchLen : value'[next_seq + i - 1] = Count + i
      /\ \A k \in Keys : writer.taken[k] = 0
      /\ writer'.pc # "push" => \A k \in Keys : writer'.taken[k] = 0
  BY Zenon, ApplyEffect
<1>3. \A k \in Keys : /\ Last(b, k) \in 0 .. BatchLen
                      /\ Last(b, k) > 0 => b[Last(b, k)] = k
                      /\ \A i \in 1 .. BatchLen : b[i] = k => i <= Last(b, k)
  BY Zenon, ApplyEffect, LastIsLargest DEF BatchLen
<1>4. \A k \in Keys : LET y == IF Last(b, k) > 0 THEN next_seq + Last(b, k) - 1
                               ELSE memtable[k]
                      IN  \/ writer'.taken[k] = 0 /\ memtable'[k] = y
                          \/ writer'.taken[k] = y /\ memtable'[k] = 0
  BY Zenon, ApplyEffect
<1> HIDE DEF b
<1>5. next_seq \in Nat /\ 0 < next_seq
  BY PositionsNat DEF Inv, DbInv, MemtablesInOrder
<1>6. /\ \A k \in Keys : memtable[k] \in Nat /\ memtable[k] < next_seq
      /\ imm # <<>> => \A k \in Keys : /\ imm[1].data[k] \in Nat
                                       /\ imm[1].data[k] < next_seq
      /\ \A l \in Level : \A t \in tables[l] : \A k \in Keys :
           t.data[k] \in Nat /\ t.data[k] < next_seq
  BY Zenon, EntriesValued DEF Inv
<1>7. \A k \in Keys : LowerSeq(k)' = LowerSeq(k)
  BY Zenon, <1>1, SameTables DEF LowerSeq
<1>8. \A k \in Keys : LowerSeq(k) \in Nat /\ LowerSeq(k) < next_seq
  BY Zenon, SeqBounds DEF Inv
<1>9. \A k \in Keys : ValueOf(LowerSeq(k))' = ValueOf(LowerSeq(k))
  BY <1>2, <1>7, <1>8 DEF ValueOf
<1>10. ASSUME NEW k \in Keys, Last(b, k) > 0 PROVE View(k)' = Count + Last(b, k)
  <2>1. Last(b, k) \in 1 .. BatchLen
    BY <1>2, <1>3, <1>10
  <2>2. ViewSeq(k)' = next_seq + Last(b, k) - 1 /\ next_seq + Last(b, k) - 1 > 0
    BY <1>2, <1>4, <1>5, <1>10, <2>1, ViewSeqCasesNext
  <2> QED BY <1>2, <2>1, <2>2 DEF View, ValueOf
<1>11. ASSUME NEW k \in Keys, ~(Last(b, k) > 0) PROVE View(k)' = View(k)
  <2>1. ViewSeq(k)' = ViewSeq(k)
    BY <1>2, <1>4, <1>7, <1>11, ViewSeqCases, ViewSeqCasesNext
  <2>2. ViewSeq(k) \in Nat /\ ViewSeq(k) < next_seq
    BY Zenon, SeqBounds DEF Inv
  <2> QED BY <1>2, <2>1, <2>2 DEF View, ValueOf
<1>12. BatchLogged'
  BY <1>2 DEF BatchLogged
<1>13. ViewIsLast'
  <2>1. ASSUME NEW k \in Keys PROVE IsLast(View(k), Count, k)'
    <3>1. CASE Last(b, k) > 0
      <4> DEFINE p == Count + Last(b, k)
      <4>1. p \in 0 .. LogEnd /\ log[p] = k
        BY <1>2, <1>3, <3>1
      <4>2. ASSUME NEW j \in p + 1 .. LogEnd PROVE log[j] # k
        <5>1. j - Count \in 1 .. BatchLen /\ Count + (j - Count) = j
              /\ ~(j - Count <= Last(b, k))
          BY <1>2, <1>3, <3>1
        <5>2. log[j] = b[j - Count]
          BY Zenon, <1>2, <5>1
        <5> QED BY Zenon, <1>3, <5>1, <5>2
      <4>3. View(k)' = p
        BY Zenon, <1>10, <3>1
      <4> HIDE DEF p
      <4> QED BY Zenon, <1>1, <1>2, <4>1, <4>2, <4>3 DEF IsLast
    <3>2. CASE ~(Last(b, k) > 0)
      <4> DEFINE p == View(k)
      <4>1. p \in Nat /\ IsLast(p, Count, k) /\ View(k)' = p
        BY Zenon, <1>11, <3>2, SeqBounds DEF Inv, StoreInv, ViewIsLast
      <4> HIDE DEF p
      <4>2. p \in 0 .. Count /\ (p > 0 => log[p] = k)
            /\ \A j \in p + 1 .. Count : log[j] # k
        BY Zenon, <4>1 DEF IsLast
      <4>3. ASSUME NEW j \in p + 1 .. LogEnd PROVE log[j] # k
        <5>1. CASE j <= Count
          BY <1>2, <4>1, <4>2, <5>1
        <5>2. CASE ~(j <= Count)
          <6>1. j - Count \in 1 .. BatchLen /\ Count + (j - Count) = j
            BY <1>2, <4>1, <5>2
          <6>2. log[j] = b[j - Count]
            BY Zenon, <1>2, <6>1
          <6>3. b[j - Count] # k
            BY <1>2, <1>3, <3>2, <6>1
          <6> QED BY Zenon, <6>2, <6>3
        <5> QED BY Zenon, <5>1, <5>2
      <4> QED BY <1>1, <1>2, <4>1, <4>2, <4>3 DEF IsLast
    <3> QED BY Zenon, <3>1, <3>2
  <2> QED BY <1>1, <1>9, <2>1 DEF Inv, StoreInv, ViewIsLast, IsLast
<1>14. \A l \in Level : \A t \in tables[l] : \A k \in Keys : t.data[k] > 0 =>
         value'[t.data[k]] = value[t.data[k]] /\ value[t.data[k]] \in Nat
  BY Zenon, <1>2, <1>6, EntriesValued DEF Inv
<1>15. TablesPlaced'
  <2>1. Count <= LogEnd
    BY <1>2
  <2>2. ASSUME NEW l \in Level, NEW t \in tables[l], NEW k \in Keys, t.data[k] > 0
        PROVE  /\ value'[t.data[k]] <= IF imm = <<>> THEN LogEnd ELSE imm[1].log_offset
               /\ value'[t.data[k]] > 0 => log[value'[t.data[k]]] = k
    <3>1. value'[t.data[k]] = value[t.data[k]] /\ value[t.data[k]] \in Nat
      BY Zenon, <1>14, <2>2
    <3>2. /\ value[t.data[k]] <= IF imm = <<>> THEN Count ELSE imm[1].log_offset
          /\ value[t.data[k]] > 0 => log[value[t.data[k]]] = k
      BY Zenon, <2>2 DEF Inv, StoreInv, TablesPlaced
    <3> QED BY <1>2, <2>1, <3>1, <3>2
  <2>3. ASSUME NEW l \in Level, NEW m \in Level, NEW s \in tables[l],
               NEW t \in tables[m], NEW k \in Keys,
               s.data[k] > 0, s.data[k] <= t.data[k]
        PROVE  value'[s.data[k]] <= value'[t.data[k]]
    <3>1. t.data[k] > 0
      <4>1. s.data[k] \in Nat /\ t.data[k] \in Nat
        BY Zenon, <1>6, <2>3
      <4> QED BY <2>3, <4>1
    <3>2. value[s.data[k]] <= value[t.data[k]]
      BY Zenon, <2>3 DEF Inv, StoreInv, TablesPlaced
    <3>3. /\ value'[s.data[k]] = value[s.data[k]]
          /\ value'[t.data[k]] = value[t.data[k]]
      BY Zenon, <1>14, <2>3, <3>1
    <3> QED BY Zenon, <3>2, <3>3
  <2> QED BY <1>1, <1>2, <2>2, <2>3 DEF TablesPlaced
<1>16. Durable'
  BY <1>1, <1>14 DEF Inv, StoreInv, Durable, NoPanic
<1>17. Flushed'
  BY Zenon, <1>1, SameTables DEF Inv, StoreInv, Flushed
<1>18. ReadersSee'
  <2> SUFFICES ASSUME NEW r \in Readers, NEW pc \in Searches, NEW l \in Level,
                      NEW k \in Keys, reader[r].pc = pc, reader[r].level = l,
                      reader[r].key = k
               PROVE  reader[r].got = 0 /\ GetSees(pc, l, k, r)'
    BY Zenon, <1>1 DEF ReadersSee
  <2>1. reader[r].got = 0 /\ GetSees(pc, l, k, r)
    BY Zenon DEF Inv, StoreInv, ReadersSee
  <2>2. /\ seen[r] \subseteq seen'[r]
        /\ Last(b, k) > 0 => Count + Last(b, k) \in seen'[r]
    <3>1. pc # "idle" /\ Last(b, k) \in Nat
      BY <1>2, <1>3 DEF Searches
    <3>2. seen'[r] = IF Last(b, k) = 0 THEN seen[r]
                     ELSE seen[r] \cup {(Len(log) - Len(b)) + Last(b, k)}
      <4>1. seen' = [q \in Readers |->
                       IF reader[q].pc = "idle" \/ Last(b, reader[q].key) = 0
                       THEN seen[q]
                       ELSE seen[q] \cup
                              {(Len(log) - Len(b)) + Last(b, reader[q].key)}]
        BY Zenon DEF Apply, b
      <4>2. reader[r].pc # "idle" /\ reader[r].key = k
        BY Zenon, <3>1
      <4> DEFINE A(q) == reader[q].pc = "idle" \/ Last(b, reader[q].key) = 0
                 E(q) == seen[q] \cup
                           {(Len(log) - Len(b)) + Last(b, reader[q].key)}
      <4>3. seen' = [q \in Readers |-> IF A(q) THEN seen[q] ELSE E(q)]
        BY Zenon, <4>1
      <4>4. seen'[r] = IF A(r) THEN seen[r] ELSE E(r)
        <5> HIDE DEF A, E
        <5> QED BY Zenon, <4>3
      <4> QED BY Zenon, <4>2, <4>4
    <3>3. Len(log) - Len(b) = Count
      BY Zenon, <1>2 DEF LogEnd, BatchLen, b
    <3> QED BY <3>1, <3>2, <3>3
  <2>3. View(k)' \in seen'[r]
    BY Zenon, <1>10, <1>11, <2>1, <2>2 DEF GetSees
  <2>4. ASSUME pc \in {"imm", "level"}
        PROVE  /\ writer'.taken[k] > 0 => value'[writer'.taken[k]] \in seen'[r]
               /\ memtable'[k] > 0 => value'[memtable'[k]] \in seen'[r]
    <3> DEFINE y == IF Last(b, k) > 0 THEN next_seq + Last(b, k) - 1 ELSE memtable[k]
    <3>1. y > 0 => value'[y] \in seen'[r]
      <4>1. CASE Last(b, k) > 0
        <5>0. Last(b, k) \in 0 .. BatchLen
          BY Zenon, <1>3
        <5>1. Last(b, k) \in 1 .. BatchLen
          BY <1>2, <4>1, <5>0
        <5> QED BY Zenon, <1>2, <2>2, <4>1, <5>1
      <4>2. CASE ~(Last(b, k) > 0)
        <5>1. memtable[k] > 0 => value[memtable[k]] \in seen[r]
          BY Zenon, <2>1, <2>4 DEF GetSees
        <5>2. memtable[k] > 0 => value'[memtable[k]] = value[memtable[k]]
          BY Zenon, <1>2, <1>6
        <5> QED BY Zenon, <2>2, <4>2, <5>1, <5>2
      <4> QED BY Zenon, <4>1, <4>2
    <3>2. \/ writer'.taken[k] = 0 /\ memtable'[k] = y
          \/ writer'.taken[k] = y /\ memtable'[k] = 0
      BY Zenon, <1>4
    <3> HIDE DEF y
    <3>3. 0 > 0 => FALSE
      OBVIOUS
    <3> QED BY Zenon, <3>1, <3>2, <3>3
  <2>5. pc = "imm" => ValueOf(LowerSeq(k))' \in seen'[r]
    BY Zenon, <1>9, <2>1, <2>2 DEF GetSees
  <2>6. ASSUME pc = "level", imm # <<>>, imm[1].data[k] > 0
        PROVE  value'[imm[1].data[k]] \in seen'[r]
    BY Zenon, <1>2, <1>6, <2>1, <2>2, <2>6 DEF GetSees
  <2>7. ASSUME Covered(l, k, r) PROVE Covered(l, k, r)'
    <3>1. ASSUME NEW m \in Level, NEW t \in tables[m], l <= m, t.data[k] > 0,
                 \A n \in Level : \A u \in tables[n] :
                   t.data[k] <= u.data[k] => value[u.data[k]] \in seen[r]
          PROVE  Covered(l, k, r)'
      <4>1. \A n \in Level : \A u \in tables[n] :
              t.data[k] <= u.data[k] => value'[u.data[k]] \in seen'[r]
        BY <1>6, <1>14, <2>2, <3>1
      <4> QED BY Zenon, <1>1, <3>1, <4>1 DEF Covered
    <3>2. ASSUME 0 \in seen[r],
                 \A n \in Level : \A u \in tables[n] :
                   u.data[k] > 0 => value[u.data[k]] \in seen[r]
          PROVE  Covered(l, k, r)'
      <4>1. \A n \in Level : \A u \in tables[n] :
              u.data[k] > 0 => value'[u.data[k]] \in seen'[r]
        BY Zenon, <1>14, <2>2, <3>2
      <4> QED BY Zenon, <1>1, <2>2, <3>2, <4>1 DEF Covered
    <3> QED BY Zenon, <2>7, <3>1, <3>2 DEF Covered
  <2>8. pc = "level" => Covered(l, k, r)'
    BY Zenon, <2>1, <2>7 DEF GetSees
  <2> QED BY Zenon, <1>1, <2>1, <2>3, <2>4, <2>5, <2>6, <2>8 DEF GetSees
<1>19. \A k \in Keys : View(k)' = IF Last(b, k) > 0 THEN Count + Last(b, k) ELSE View(k)
  BY Zenon, <1>10, <1>11
<1> QED BY Zenon, <1>12, <1>13, <1>15, <1>16, <1>17, <1>18, <1>19 DEF StoreInv, b
=============================================================================
