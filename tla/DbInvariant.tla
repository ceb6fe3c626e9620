---------------------------- MODULE DbInvariant -----------------------------
(* The inductive invariant of DbLogic, and that the store implements the   *)
(* levels: every step of DbLogic is a step of Levels, so that what is      *)
(* proved of the levels holds of the store, for any number of keys,        *)
(* readers and records.                                                    *)
EXTENDS DbLogic, LevelsOrder, WellFoundedInduction

-----------------------------------------------------------------------------
(* The inductive invariant.                                                 *)

\* Where the entries, and the records, begin that the current memtable holds.
SeqBase == IF imm = <<>> THEN seq_offset ELSE imm[1].next_seq
LogBase == IF imm = <<>> THEN log_offset ELSE imm[1].log_offset

LogEnd == Len(log)
BatchLen == Len(writer.batch)
LeftLen == Len(writer.left)
Valued == Len(value)

\* The manifest's offset, the immutable memtable and the current one follow one
\* another: their entries have sequence numbers from disjoint, increasing ranges.
MemtablesInOrder ==
  /\ Len(imm) <= 1
  /\ seq_offset \in Nat /\ 0 < seq_offset
  /\ seq_offset <= SeqBase /\ SeqBase <= next_seq
  /\ next_seq <= MaxSeq + 1
  /\ \A k \in Keys : memtable[k] > 0 => SeqBase <= memtable[k] /\ memtable[k] < next_seq
  /\ \A k \in Keys : writer.taken[k] > 0 =>
       SeqBase <= writer.taken[k] /\ writer.taken[k] < next_seq
  /\ imm # <<>> => \A k \in Keys : imm[1].data[k] < imm[1].next_seq

\* An immutable memtable whose sequence numbers are not yet recorded is one the
\* levels accept.
ImmIsFresh ==
  imm # <<>> /\ trim = "idle" /\ flush.pc # "numbered" =>
    /\ seq_offset < imm[1].next_seq
    /\ \E k \in Keys : imm[1].data[k] > 0
    /\ \A k \in Keys : imm[1].data[k] > 0 => seq_offset <= imm[1].data[k]

\* What write_opts has done so far with its batch and the memtable it took.
WriterProgress ==
  /\ writer.pc = "log" => /\ writer.batch # <<>>
                          /\ next_seq + BatchLen - 1 <= MaxSeq
  /\ writer.pc # "log" => writer.batch = <<>> /\ writer.left = <<>>
  /\ writer.pc = "push" => /\ \E k \in Keys : writer.taken[k] > 0
                           /\ \A k \in Keys : memtable[k] = 0

\* The manifest's log offset, the immutable memtable's and the end of the log
\* follow one another, with the records of the current batch at the end.
LogInOrder ==
  /\ LeftLen <= BatchLen
  /\ LogBase + (BatchLen - LeftLen) <= LogEnd
  /\ writer.pc = "push" => LogBase < LogEnd
  /\ trim \in {"idle", "wal"} => offset_pos = log_offset
  /\ imm # <<>> /\ trim # "pop" => log_offset < imm[1].log_offset
  /\ trim = "pop" => log_offset = imm[1].log_offset
  /\ trim \in {"manifest", "pop"} => offset_pos = imm[1].log_offset

\* The memtable task works on the immutable memtable, one step after the other.
FlushProgress ==
  /\ flush.pc # "idle" => /\ imm # <<>> /\ trim = "idle"
                          /\ flush.seq = imm[1].next_seq
  /\ trim # "idle" => imm # <<>>
  /\ flush.pc = "numbered" \/ trim # "idle" => seq_offset = imm[1].next_seq

\* Every sequence number given out has a value, and a reader that searches
\* searches for a key.
ValuesKnown ==
  /\ Valued = next_seq - 1
  /\ \A r \in Readers : reader[r].pc # "idle" => reader[r].key \in Keys

DbInv == /\ DbTypeOK /\ MemtablesInOrder /\ ImmIsFresh /\ WriterProgress
         /\ LogInOrder /\ FlushProgress /\ ValuesKnown

LevelsInv == OwnershipInv /\ ManifestInv /\ OrderInv

-----------------------------------------------------------------------------
(* The helpers.                                                             *)

\* What the operators on the log, the batches and the memtables return.
LEMMA NotEmptySeq ==
  ASSUME NEW S
  PROVE  \A s \in Seq(S) : s # <<>> => Len(s) \in Nat \ {0}
OBVIOUS

\* The first element of a sequence and the rest.
LEMMA HeadTailFacts ==
  ASSUME NEW S, NEW s \in Seq(S), s # <<>>
  PROVE  Head(s) \in S /\ Tail(s) \in Seq(S) /\ Len(Tail(s)) = Len(s) - 1
OBVIOUS

\* A sequence with an element more.
LEMMA AppendFacts ==
  ASSUME NEW S, NEW s \in Seq(S), NEW e \in S
  PROVE  Append(s, e) \in Seq(S) /\ Len(Append(s, e)) = Len(s) + 1
OBVIOUS

\* Two sequences, one after the other.
LEMMA ConcatFacts ==
  ASSUME NEW S, NEW s \in Seq(S), NEW t \in Seq(S)
  PROVE  /\ s \o t \in Seq(S) /\ Len(s \o t) = Len(s) + Len(t)
         /\ \A i \in 1 .. Len(s) + Len(t) :
              (s \o t)[i] = IF i <= Len(s) THEN s[i] ELSE t[i - Len(s)]
OBVIOUS

\* A part of a sequence.
LEMMA SubSeqFacts ==
  ASSUME NEW S, NEW s, NEW m \in Int, NEW n \in Int, \A i \in m .. n : s[i] \in S
  PROVE  /\ SubSeq(s, m, n) \in Seq(S)
         /\ Len(SubSeq(s, m, n)) = IF m <= n THEN n - m + 1 ELSE 0
         /\ \A i \in 1 .. n - m + 1 : SubSeq(s, m, n)[i] = s[m + i - 1]
OBVIOUS

\* The empty set has no elements, so an empty memtable is not full.
LEMMA EmptyCardinality == Cardinality({}) = 0
<1> DEFINE F(g) == [T \in SUBSET {} |->
                      IF T = {} THEN 0 ELSE 1 + g[T \ {CHOOSE x : x \in T}]]
<1>1. \A g : F(g)[{}] = 0
  OBVIOUS
<1>2. \E g : g = F(g)
  <2>1. F([T \in SUBSET {} |-> 0]) = [T \in SUBSET {} |-> 0]
    OBVIOUS
  <2> QED BY <2>1
<1>3. Cardinality({}) = (CHOOSE g : g = F(g))[{}]
  BY DEF Cardinality
<1> QED BY <1>1, <1>2, <1>3

\* A set of natural numbers that is not empty has a least element.
LEMMA LeastElement ==
  ASSUME NEW T \in SUBSET Nat, T # {}
  PROVE  \E x \in T : \A y \in T : x <= y
<1> DEFINE R == {ss \in Nat \X Nat : ss[1] < ss[2]}
<1>1. IsWellFoundedOn(R, Nat)
  BY NatLessThanWellFounded DEF OpToRel
<1>2. PICK x \in T : \A y \in T : ~(<<y, x>> \in R)
  <2> HIDE DEF R
  <2> QED BY Zenon, <1>1, WFMin
<1>3. \A y \in Nat : y < x => <<y, x>> \in R
  OBVIOUS
<1>4. \A y \in T : ~(y < x)
  BY Zenon, <1>2, <1>3
<1>5. x \in Nat /\ \A y \in T : y \in Nat
  OBVIOUS
<1> HIDE DEF R
<1> QED BY <1>4, <1>5

\* A bounded set of numbers that is not empty has a greatest element.
LEMMA GreatestElement ==
  ASSUME NEW n \in Nat, NEW T \in SUBSET (1 .. n), T # {}
  PROVE  \E x \in T : \A y \in T : y <= x
<1> DEFINE U == {n - i : i \in T}
<1>1. \A i \in T : i \in Nat /\ n - i \in Nat
  OBVIOUS
<1>2. U \in SUBSET Nat /\ U # {}
  BY Zenon, <1>1
<1>3. PICK u \in U : \A y \in U : u <= y
  <2> HIDE DEF U
  <2> QED BY <1>2, LeastElement
<1>4. PICK x \in T : u = n - x
  BY <1>3
<1>5. \A y \in T : n - y \in U
  OBVIOUS
<1> HIDE DEF U
<1>6. \A y \in T : n - x <= n - y
  BY <1>3, <1>4, <1>5
<1> QED BY <1>6, <1>1

\* Last is an index of the batch that writes the key, or 0 if there is none.
LEMMA LastFacts ==
  ASSUME NEW b \in Seq(Keys), NEW k
  PROVE  Last(b, k) \in 0 .. Len(b)
<1> DEFINE T == {i \in DOMAIN b : b[i] = k}
<1>1. Len(b) \in Nat /\ DOMAIN b = 1 .. Len(b)
  OBVIOUS
<1>2. CASE \E i \in DOMAIN b : b[i] = k
  <2>1. T \in SUBSET (1 .. Len(b)) /\ T # {}
    BY <1>1, <1>2
  <2>2. PICK x \in T : \A y \in T : y <= x
    <3> HIDE DEF T
    <3> QED BY Zenon, <1>1, <2>1, GreatestElement
  <2>3. \E i \in DOMAIN b : b[i] = k /\ \A j \in DOMAIN b : b[j] = k => j <= i
    BY <2>2
  <2>4. Last(b, k) = CHOOSE i \in DOMAIN b :
                       b[i] = k /\ \A j \in DOMAIN b : b[j] = k => j <= i
    BY <1>2 DEF Last
  <2>5. Last(b, k) \in DOMAIN b
    BY Zenon, <2>3, <2>4
  <2> QED BY <1>1, <2>5
<1>3. CASE ~(\E i \in DOMAIN b : b[i] = k)
  BY <1>1, <1>3 DEF Last
<1> QED BY <1>2, <1>3

\* Put keeps the entries of a memtable or gives them sequence numbers from seq
\* on, one for each operation of the batch.
LEMMA PutFacts ==
  ASSUME NEW m \in Data, NEW b \in Seq(Keys), NEW seq \in Nat,
         0 < seq, seq + Len(b) - 1 <= MaxSeq
  PROVE  /\ Put(m, seq, b) \in Data
         /\ \A k \in Keys :
              \/ Put(m, seq, b)[k] = m[k]
              \/ seq <= Put(m, seq, b)[k] /\ Put(m, seq, b)[k] < seq + Len(b)
<1>1. Len(b) \in Nat /\ MaxSeq \in Nat
  BY ConstantsAssumption
<1>2. \A k \in Keys : Last(b, k) \in 0 .. Len(b)
  BY LastFacts
<1>3. \A k \in Keys : m[k] \in 0 .. MaxSeq
  BY DEF Data, Seqs
<1>4. \A k \in Keys : Last(b, k) > 0 => /\ seq + Last(b, k) - 1 \in 0 .. MaxSeq
                                        /\ seq <= seq + Last(b, k) - 1
                                        /\ seq + Last(b, k) - 1 < seq + Len(b)
  BY <1>1, <1>2
<1>5. \A k \in Keys : Put(m, seq, b)[k] =
                        IF Last(b, k) > 0 THEN seq + Last(b, k) - 1 ELSE m[k]
  BY DEF Put
<1>6. Put(m, seq, b) \in [Keys -> 0 .. MaxSeq]
  BY <1>3, <1>4 DEF Put
<1> QED BY <1>4, <1>5, <1>6 DEF Data, Seqs

\* A full memtable has an entry.
LEMMA FullFacts ==
  ASSUME NEW m \in Data, is_full(m)
  PROVE  \E k \in Keys : m[k] > 0
<1>1. Cardinality({}) = 0
  BY EmptyCardinality
<1>2. ASSUME \A k \in Keys : ~(m[k] > 0) PROVE FALSE
  <2>1. {k \in Keys : m[k] > 0} = {}
    BY <1>2
  <2> QED BY <1>1, <2>1, DbAssumption DEF is_full
<1> QED BY <1>2

\* What is not in a memtable.
LEMMA EmptyFacts == Empty \in Data /\ \A k \in Keys : Empty[k] = 0
BY ConstantsAssumption DEF Empty, Data, Seqs

-----------------------------------------------------------------------------
(* The invariant holds at the beginning and is kept.                        *)

\* A database that has just been created.
LEMMA DbInitInv == DbInit => DbInv
<1> SUFFICES ASSUME DbInit PROVE DbInv
  OBVIOUS
<1>1. /\ NoWriter \in Writer /\ NotReading \in Reader
      /\ NoWriter.pc = "idle" /\ NoWriter.batch = <<>> /\ NoWriter.left = <<>>
      /\ NoWriter.taken = Empty /\ NotReading.pc = "idle"
  BY EmptyFacts, LevelFacts DEF NoWriter, NotReading, Writer, Reader
<1>2. flush.pc = "idle" /\ seq_offset = 1
  BY DEF DbInit, Init, NoFlush
<1>3. DbTypeOK
  BY <1>1, EmptyFacts DEF DbInit, DbTypeOK
<1>4. MemtablesInOrder
  BY <1>1, <1>2, EmptyFacts, ConstantsAssumption DEF DbInit, MemtablesInOrder, SeqBase
<1>5. ImmIsFresh /\ WriterProgress /\ FlushProgress
  BY <1>1, <1>2 DEF DbInit, ImmIsFresh, WriterProgress, FlushProgress
<1>6. LogInOrder /\ ValuesKnown
  BY <1>1, <1>2 DEF DbInit, LogInOrder, ValuesKnown, LogBase,
                     LogEnd, BatchLen, LeftLen, Valued
<1> QED BY <1>3, <1>4, <1>5, <1>6 DEF DbInv

\* A step of the levels alone that leaves the flush where it is.
LEMMA DbQuietStep ==
  ASSUME DbInv, UNCHANGED <<dbVars, seq_offset, flush>>
  PROVE  DbInv'
<1>1. /\ UNCHANGED <<log, log_page, offset_pos, log_offset, memtable, next_seq>>
      /\ UNCHANGED <<imm, writer, trim, value, reader, seen, seq_offset, flush>>
  BY DEF dbVars
<1>2. DbTypeOK'
  BY <1>1 DEF DbInv, DbTypeOK
<1>3. MemtablesInOrder' /\ ImmIsFresh'
  BY <1>1 DEF DbInv, MemtablesInOrder, ImmIsFresh, SeqBase
<1>4. WriterProgress' /\ LogInOrder'
  BY Zenon, <1>1 DEF DbInv, WriterProgress, LogInOrder, LogBase, LogEnd, BatchLen,
                    LeftLen
<1>5. FlushProgress' /\ ValuesKnown'
  BY <1>1 DEF DbInv, FlushProgress, ValuesKnown, Valued
<1> QED BY <1>2, <1>3, <1>4, <1>5 DEF DbInv

\* The immutable memtable, if there is one, is the only one.
LEMMA ImmFacts ==
  ASSUME DbInv, imm # <<>>
  PROVE  /\ imm[1] \in ImmMemtable /\ Tail(imm) = <<>>
         /\ imm[1].data \in Data /\ imm[1].log_offset \in Nat
         /\ imm[1].next_seq \in Nat
<1>1. imm \in Seq(ImmMemtable) /\ Len(imm) <= 1
  BY DEF DbInv, DbTypeOK, MemtablesInOrder
<1>2. Len(imm) = 1
  <2> DEFINE n == Len(imm)
  <2>1. n \in Nat \ {0} /\ n <= 1
    BY Zenon, <1>1, NotEmptySeq
  <2> HIDE DEF n
  <2>2. n = 1
    BY <2>1
  <2> QED BY <2>2 DEF n
<1>3. imm[1] \in ImmMemtable
  BY <1>1, <1>2
<1>4. Tail(imm) = <<>>
  <2>1. Tail(imm) \in Seq(ImmMemtable) /\ Len(Tail(imm)) = Len(imm) - 1
    BY Zenon, <1>1, HeadTailFacts
  <2>2. Len(Tail(imm)) \notin Nat \ {0}
    BY <1>2, <2>1
  <2> QED BY Zenon, <2>1, <2>2, NotEmptySeq
<1> QED BY <1>3, <1>4 DEF ImmMemtable

\* The writer's fields.
LEMMA WriterFacts ==
  ASSUME DbInv
  PROVE  /\ writer.pc \in {"idle", "log", "push"} /\ writer.taken \in Data
         /\ writer.batch \in Seq(Keys) /\ writer.left \in Seq(Keys)
BY DEF DbInv, DbTypeOK, Writer

\* The positions and counts are numbers.
LEMMA PositionsNat ==
  ASSUME DbInv
  PROVE  /\ LogEnd \in Nat /\ BatchLen \in Nat /\ LeftLen \in Nat /\ Valued \in Nat
         /\ LogBase \in Nat /\ SeqBase \in Nat /\ seq_offset \in Nat
         /\ next_seq \in Nat /\ log_offset \in Nat /\ offset_pos \in Nat
<1>1. /\ log \in Seq(Keys) /\ next_seq \in Nat /\ log_offset \in Nat
      /\ value \in Seq(Nat) /\ offset_pos \in Nat
  BY DEF DbInv, DbTypeOK
<1>2. seq_offset \in Nat
  BY DEF DbInv, MemtablesInOrder
<1>3. LogEnd \in Nat /\ BatchLen \in Nat /\ LeftLen \in Nat /\ Valued \in Nat
  BY <1>1, WriterFacts DEF LogEnd, BatchLen, LeftLen, Valued
<1> QED BY <1>1, <1>2, <1>3, ImmFacts DEF LogBase, SeqBase

\* A sequence that is not empty has a positive length.
LEMMA NotEmptyLen ==
  ASSUME NEW b \in Seq(Keys), b # <<>>
  PROVE  Len(b) \in Nat \ {0}
BY Zenon, NotEmptySeq

\* write_opts takes the memtable lock.
LEMMA WriteBeginStep ==
  ASSUME DbInv, NEW b \in Batches, WriteBegin(b)
  PROVE  DbInv'
<1>1. b \in Seq(Keys) /\ b # <<>>
  <2>1. PICK n \in 1 .. MaxWrites : b \in [1 .. n -> Keys]
    BY DEF Batches
  <2> QED BY <2>1, DbAssumption
<1>2. /\ UNCHANGED <<log, log_page, offset_pos, log_offset, memtable, next_seq>>
      /\ UNCHANGED <<imm, trim, value, reader, seen, seq_offset, flush>>
      /\ writer.pc = "idle" /\ next_seq + Len(b) - 1 <= MaxSeq
  BY DEF WriteBegin, levelVars
<1>3. /\ writer' \in Writer /\ writer'.pc = "log" /\ writer'.batch = b
      /\ writer'.left = b /\ writer'.taken = Empty
  BY <1>1, EmptyFacts DEF WriteBegin, Writer
<1>4. DbTypeOK'
  BY <1>2, <1>3 DEF DbInv, DbTypeOK
<1>5. MemtablesInOrder' /\ ImmIsFresh'
  BY <1>2, <1>3, EmptyFacts DEF DbInv, MemtablesInOrder, ImmIsFresh, SeqBase
<1>6. WriterProgress'
  <2>1. BatchLen' = Len(b)
    BY <1>3 DEF BatchLen
  <2> QED BY <1>1, <1>2, <1>3, <2>1 DEF DbInv, WriterProgress
<1>7. LogInOrder'
  <2>1. writer.batch = <<>> /\ writer.left = <<>>
    BY <1>2 DEF DbInv, WriterProgress
  <2>2. BatchLen = LeftLen /\ BatchLen' = LeftLen' /\ BatchLen' \in Nat
    BY <1>1, <1>3, <2>1 DEF BatchLen, LeftLen
  <2>3. LogEnd' = LogEnd /\ LogBase' = LogBase
    BY <1>2 DEF LogEnd, LogBase
  <2> QED BY <1>2, <1>3, <2>2, <2>3, PositionsNat DEF DbInv, LogInOrder
<1>8. FlushProgress' /\ ValuesKnown'
  BY <1>2 DEF DbInv, FlushProgress, ValuesKnown, Valued
<1> QED BY <1>4, <1>5, <1>6, <1>7, <1>8 DEF DbInv

\* The log writer appends one record of the batch.
LEMMA LogRecordStep ==
  ASSUME DbInv, LogRecord
  PROVE  DbInv'
<1>1. /\ UNCHANGED <<log_page, offset_pos, log_offset, memtable, next_seq>>
      /\ UNCHANGED <<imm, trim, value, reader, seen, seq_offset, flush>>
      /\ writer.pc = "log" /\ writer.left # <<>>
  BY DEF LogRecord, levelVars
<1>2. /\ Head(writer.left) \in Keys /\ Tail(writer.left) \in Seq(Keys)
      /\ Len(Tail(writer.left)) = Len(writer.left) - 1
  BY Zenon, <1>1, WriterFacts, HeadTailFacts
<1>3. /\ writer' \in Writer /\ writer'.pc = "log" /\ writer'.batch = writer.batch
      /\ writer'.left = Tail(writer.left) /\ writer'.taken = writer.taken
  BY Zenon, <1>1, <1>2 DEF LogRecord, Writer, DbInv, DbTypeOK
<1>4. log' \in Seq(Keys) /\ Len(log') = Len(log) + 1
  BY <1>2, AppendFacts DEF LogRecord, DbInv, DbTypeOK
<1>5. DbTypeOK'
  BY <1>1, <1>3, <1>4 DEF DbInv, DbTypeOK
<1>6. MemtablesInOrder' /\ ImmIsFresh'
  BY <1>1, <1>3 DEF DbInv, MemtablesInOrder, ImmIsFresh, SeqBase
<1>7. WriterProgress'
  BY <1>1, <1>3 DEF DbInv, WriterProgress, BatchLen
<1>8. LogInOrder'
  <2>1. LogBase' = LogBase /\ BatchLen' = BatchLen
    BY <1>1, <1>3 DEF LogBase, BatchLen
  <2>2. LeftLen' = LeftLen - 1 /\ LogEnd' = LogEnd + 1
    BY <1>2, <1>3, <1>4 DEF LeftLen, LogEnd
  <2> QED BY SMTT(20), <1>1, <1>3, <2>1, <2>2, PositionsNat DEF DbInv, LogInOrder
<1>9. FlushProgress' /\ ValuesKnown'
  BY <1>1 DEF DbInv, FlushProgress, ValuesKnown, Valued
<1> QED BY <1>5, <1>6, <1>7, <1>8, <1>9 DEF DbInv

\* The batch is applied to the memtable.
LEMMA ApplyStep ==
  ASSUME DbInv, Apply
  PROVE  DbInv'
<1> DEFINE b == writer.batch
           m == Put(memtable, next_seq, b)
           start == Len(log) - Len(b)
           new == [i \in DOMAIN b |-> start + i]
<1>1. /\ UNCHANGED <<log, log_page, offset_pos, log_offset, imm, trim>>
      /\ UNCHANGED <<reader, seq_offset, flush>>
      /\ writer.pc = "log" /\ writer.left = <<>>
      /\ next_seq' = next_seq + BatchLen /\ value' = value \o new
  BY DEF Apply, levelVars, BatchLen
<1>2. b \in Seq(Keys) /\ b # <<>> /\ next_seq + BatchLen - 1 <= MaxSeq
  BY <1>1, WriterFacts DEF DbInv, WriterProgress
<1>3. BatchLen \in Nat /\ 0 < BatchLen /\ LogBase + BatchLen <= LogEnd
  <2>1. BatchLen \in Nat \ {0}
    BY <1>2, NotEmptyLen DEF BatchLen
  <2>2. LeftLen = 0
    BY <1>1 DEF LeftLen
  <2> QED BY <2>1, <2>2, PositionsNat DEF DbInv, LogInOrder
<1>4. start \in Nat
  <2>1. LogEnd - BatchLen \in Nat
    BY <1>3, PositionsNat
  <2> QED BY <2>1 DEF LogEnd, BatchLen
<1>5. /\ m \in Data
      /\ \A k \in Keys : \/ m[k] = memtable[k]
                         \/ next_seq <= m[k] /\ m[k] < next_seq + BatchLen
  <2>1. memtable \in Data /\ 0 < next_seq /\ next_seq + Len(b) - 1 <= MaxSeq
    BY <1>2, PositionsNat DEF DbInv, DbTypeOK, MemtablesInOrder, BatchLen
  <2> QED BY SMTT(20), <1>2, <2>1, PositionsNat, PutFacts DEF BatchLen
<1>6. /\ memtable' \in Data /\ writer' \in Writer
      /\ writer'.batch = <<>> /\ writer'.left = <<>>
      /\ \/ /\ memtable' = m /\ writer'.pc = "idle" /\ writer'.taken = Empty
         \/ /\ memtable' = Empty /\ writer'.pc = "push" /\ writer'.taken = m
            /\ \E k \in Keys : m[k] > 0
  <2> HIDE DEF m
  <2>1. CASE is_full(m)
    <3>1. \E k \in Keys : m[k] > 0
      BY <1>5, <2>1, FullFacts
    <3>2. /\ memtable' = Empty
          /\ writer' = [pc |-> "push", batch |-> <<>>, left |-> <<>>, taken |-> m]
      BY <2>1 DEF Apply, m
    <3> QED BY <1>5, <3>1, <3>2, EmptyFacts DEF Writer
  <2>2. CASE ~is_full(m)
    <3>1. memtable' = m /\ writer' = NoWriter
      BY <2>2 DEF Apply, m
    <3> QED BY <1>5, <3>1, EmptyFacts DEF Writer, NoWriter
  <2> QED BY <2>1, <2>2
<1>7. new \in Seq(Nat) /\ Len(new) = BatchLen
  <2> HIDE DEF start
  <2> QED BY <1>2, <1>4 DEF BatchLen
<1>8. value' \in Seq(Nat) /\ Valued' = Valued + BatchLen
  <2> HIDE DEF new
  <2> QED BY Zenon, <1>1, <1>7, ConcatFacts DEF DbInv, DbTypeOK, Valued
<1>9. seen' \in [Readers -> SUBSET Nat]
  <2>1. \A r \in Readers : Last(b, reader[r].key) \in 0 .. Len(b)
    BY <1>2, LastFacts
  <2>2. \A r \in Readers : start + Last(b, reader[r].key) \in Nat
    <3> HIDE DEF start
    <3> QED BY <1>2, <1>4, <2>1
  <2>3. seen' = [r \in Readers |->
                   IF reader[r].pc = "idle" \/ Last(b, reader[r].key) = 0
                   THEN seen[r]
                   ELSE seen[r] \cup {start + Last(b, reader[r].key)}]
    BY DEF Apply
  <2> HIDE DEF start, b
  <2> QED BY <2>2, <2>3 DEF DbInv, DbTypeOK
<1>10. DbTypeOK'
  <2>1. next_seq' \in Nat
    BY <1>1, PositionsNat
  <2> QED BY <1>1, <1>6, <1>8, <1>9, <2>1 DEF DbInv, DbTypeOK
<1>11. \A k \in Keys : m[k] > 0 => SeqBase <= m[k] /\ m[k] < next_seq + BatchLen
  <2> HIDE DEF m
  <2> SUFFICES ASSUME NEW k \in Keys, m[k] > 0
               PROVE  SeqBase <= m[k] /\ m[k] < next_seq + BatchLen
    OBVIOUS
  <2>1. memtable[k] \in Nat /\ m[k] \in Nat
    BY <1>5, ConstantsAssumption DEF DbInv, DbTypeOK, Data, Seqs
  <2>2. SeqBase <= next_seq
    BY DEF DbInv, MemtablesInOrder
  <2>3. memtable[k] > 0 => SeqBase <= memtable[k] /\ memtable[k] < next_seq
    BY DEF DbInv, MemtablesInOrder
  <2>4. m[k] = memtable[k] \/ (next_seq <= m[k] /\ m[k] < next_seq + BatchLen)
    BY Zenon, <1>5
  <2> QED BY <1>3, <2>1, <2>2, <2>3, <2>4, PositionsNat
<1>12. MemtablesInOrder'
  <2>1. SeqBase' = SeqBase
    BY <1>1 DEF SeqBase
  <2>2. /\ \A k \in Keys : memtable'[k] > 0 =>
             SeqBase <= memtable'[k] /\ memtable'[k] < next_seq'
        /\ \A k \in Keys : writer'.taken[k] > 0 =>
             SeqBase <= writer'.taken[k] /\ writer'.taken[k] < next_seq'
    <3> HIDE DEF m
    <3> QED BY <1>1, <1>6, <1>11, EmptyFacts
  <2>3. next_seq' <= MaxSeq + 1 /\ SeqBase <= next_seq'
    <3>1. next_seq' = next_seq + BatchLen /\ next_seq + BatchLen - 1 <= MaxSeq
      BY Zenon, <1>1, <1>2
    <3>2. SeqBase <= next_seq
      BY DEF DbInv, MemtablesInOrder
    <3>3. MaxSeq \in Nat
      BY ConstantsAssumption
    <3> QED BY <1>3, <3>1, <3>2, <3>3, PositionsNat
  <2> QED BY <1>1, <2>1, <2>2, <2>3 DEF DbInv, MemtablesInOrder
<1>13. ImmIsFresh' /\ FlushProgress'
  BY <1>1 DEF DbInv, ImmIsFresh, FlushProgress
<1>14. WriterProgress'
  <2> HIDE DEF m
  <2> QED BY <1>6, EmptyFacts DEF WriterProgress
<1>15. LogInOrder'
  <2>1. LogBase' = LogBase /\ LogEnd' = LogEnd
    BY <1>1 DEF LogBase, LogEnd
  <2>2. BatchLen' = 0 /\ LeftLen' = 0
    BY <1>6 DEF BatchLen, LeftLen
  <2> QED BY SMTT(20), <1>1, <1>3, <2>1, <2>2, PositionsNat DEF DbInv, LogInOrder
<1>16. ValuesKnown'
  BY <1>1, <1>8, PositionsNat DEF DbInv, ValuesKnown
<1> QED BY <1>10, <1>12, <1>13, <1>14, <1>15, <1>16 DEF DbInv

\* The full memtable becomes the immutable one.
LEMMA PushImmStep ==
  ASSUME DbInv, PushImm
  PROVE  DbInv'
<1> DEFINE new == [data |-> writer.taken, log_offset |-> Len(log),
                   next_seq |-> next_seq]
<1>1. /\ UNCHANGED <<log, log_page, offset_pos, log_offset, memtable, next_seq>>
      /\ UNCHANGED <<trim, value, reader, seen, seq_offset, flush>>
      /\ writer.pc = "push" /\ imm = <<>> /\ imm' = Append(imm, new)
      /\ writer' = NoWriter
  BY DEF PushImm, levelVars
<1>2. new \in ImmMemtable /\ new.log_offset = LogEnd
  BY WriterFacts, PositionsNat DEF ImmMemtable, LogEnd
<1>3. /\ imm' \in Seq(ImmMemtable) /\ imm' # <<>> /\ Len(imm') = 1
      /\ imm'[1] = new
  <2> HIDE DEF new
  <2> QED BY <1>1, <1>2
<1>4. /\ writer' \in Writer /\ writer'.pc = "idle" /\ writer'.batch = <<>>
      /\ writer'.left = <<>> /\ writer'.taken = Empty
  BY <1>1, EmptyFacts DEF NoWriter, Writer
<1>5. DbTypeOK'
  BY <1>1, <1>3, <1>4 DEF DbInv, DbTypeOK
<1>6. flush.pc = "idle" /\ trim = "idle"
  BY <1>1 DEF DbInv, FlushProgress
<1>7. SeqBase' = next_seq /\ SeqBase = seq_offset
  BY <1>1, <1>3 DEF SeqBase
<1>8. LogBase' = LogEnd /\ LogEnd' = LogEnd /\ LogBase = log_offset
  BY <1>1, <1>2, <1>3 DEF LogBase, LogEnd
<1>9. BatchLen' = 0 /\ LeftLen' = 0
  BY <1>4 DEF BatchLen, LeftLen
<1>10. \A k \in Keys : writer.taken[k] \in Nat
  BY WriterFacts, ConstantsAssumption DEF Data, Seqs
<1>11. \E k \in Keys : writer.taken[k] > 0
  BY <1>1 DEF DbInv, WriterProgress
<1>12. MemtablesInOrder'
  <2>1. \A k \in Keys : memtable[k] = 0
    BY <1>1 DEF DbInv, WriterProgress
  <2>2. \A k \in Keys : writer.taken[k] < next_seq
    BY <1>7, <1>10, PositionsNat DEF DbInv, MemtablesInOrder
  <2> QED BY <1>1, <1>3, <1>4, <1>7, <2>1, <2>2, EmptyFacts, PositionsNat
          DEF DbInv, MemtablesInOrder
<1>13. ImmIsFresh'
  <2>1. seq_offset < next_seq
    BY <1>7, <1>10, <1>11, PositionsNat DEF DbInv, MemtablesInOrder
  <2> QED BY <1>1, <1>3, <1>7, <1>11, <2>1 DEF DbInv, ImmIsFresh, MemtablesInOrder
<1>14. WriterProgress'
  BY <1>4 DEF WriterProgress
<1>15. LogInOrder'
  BY <1>1, <1>2, <1>3, <1>4, <1>6, <1>8, <1>9, PositionsNat DEF DbInv, LogInOrder
<1>16. FlushProgress' /\ ValuesKnown'
  BY <1>1, <1>6 DEF DbInv, FlushProgress, ValuesKnown, Valued
<1> QED BY <1>5, <1>12, <1>13, <1>14, <1>15, <1>16 DEF DbInv

\* The memtable task starts a flush, and adds the table to level 0.
LEMMA FlushBeginStep ==
  ASSUME DbInv, FlushStart \/ FlushAdd
  PROVE  DbInv'
<1>1. /\ UNCHANGED dbVars /\ seq_offset' = seq_offset
      /\ imm # <<>> /\ trim = "idle"
      /\ flush.pc \in {"idle", "build"} /\ flush'.pc \in {"build", "added"}
      /\ flush'.seq = imm[1].next_seq
  <2>1. CASE FlushStart
    BY <2>1 DEF FlushStart, FlushBuild
  <2>2. CASE FlushAdd
    BY <2>2 DEF FlushAdd, add_l0_table, DbInv, FlushProgress
  <2> QED BY <2>1, <2>2
<1>2. /\ UNCHANGED <<log, log_page, offset_pos, log_offset, memtable, next_seq>>
      /\ UNCHANGED <<imm, writer, trim, value, reader, seen>>
  BY <1>1 DEF dbVars
<1>3. DbTypeOK'
  BY <1>2 DEF DbInv, DbTypeOK
<1>4. MemtablesInOrder' /\ ImmIsFresh'
  BY <1>1, <1>2 DEF DbInv, MemtablesInOrder, ImmIsFresh, SeqBase
<1>5. WriterProgress' /\ LogInOrder'
  BY Zenon, <1>2 DEF DbInv, WriterProgress, LogInOrder, LogBase, LogEnd,
                    BatchLen, LeftLen
<1>6. FlushProgress' /\ ValuesKnown'
  BY <1>1, <1>2 DEF DbInv, FlushProgress, ValuesKnown, Valued
<1> QED BY <1>3, <1>4, <1>5, <1>6 DEF DbInv

\* The sequence numbers of the flushed memtable are recorded.
LEMMA FlushNumberStep ==
  ASSUME DbInv, FlushNumber
  PROVE  DbInv'
<1>1. /\ UNCHANGED <<log, log_page, offset_pos, log_offset, memtable, next_seq>>
      /\ UNCHANGED <<imm, writer, trim, value, reader, seen>>
      /\ flush.pc = "added" /\ seq_offset' = flush.seq
      /\ flush'.pc = "numbered" /\ flush'.seq = flush.seq
  BY DEF FlushNumber, set_seq_number_offset, dbVars
<1>2. imm # <<>> /\ trim = "idle" /\ flush.seq = imm[1].next_seq
  BY <1>1 DEF DbInv, FlushProgress
<1>3. imm[1].next_seq \in Nat
  BY <1>2, ImmFacts
<1>4. DbTypeOK'
  BY <1>1 DEF DbInv, DbTypeOK
<1>5. MemtablesInOrder'
  <2>1. SeqBase' = SeqBase /\ SeqBase = imm[1].next_seq /\ seq_offset' = SeqBase
    BY <1>1, <1>2 DEF SeqBase
  <2>2. 0 < SeqBase
    BY PositionsNat DEF DbInv, MemtablesInOrder
  <2> QED BY <1>1, <1>2, <2>1, <2>2, PositionsNat DEF DbInv, MemtablesInOrder
<1>6. ImmIsFresh'
  BY <1>1 DEF ImmIsFresh
<1>7. WriterProgress' /\ LogInOrder'
  BY Zenon, <1>1 DEF DbInv, WriterProgress, LogInOrder, LogBase, LogEnd,
                    BatchLen, LeftLen
<1>8. FlushProgress' /\ ValuesKnown'
  BY <1>1, <1>2 DEF DbInv, FlushProgress, ValuesKnown, Valued
<1> QED BY <1>4, <1>5, <1>6, <1>7, <1>8 DEF DbInv

\* The table is listed, the log trimmed, and its offset recorded.
LEMMA TrimSteps ==
  ASSUME DbInv, FlushList \/ set_offset \/ set_log_offset
  PROVE  DbInv'
<1>1. /\ UNCHANGED <<log, memtable, next_seq, imm, writer, value, reader, seen>>
      /\ seq_offset' = seq_offset /\ flush'.pc = "idle"
      /\ trim' # "idle" /\ imm # <<>> /\ seq_offset = imm[1].next_seq
  <2>1. CASE FlushList
    BY <2>1 DEF FlushList, FlushManifest, NoFlush, DbInv, FlushProgress
  <2>2. CASE set_offset
    BY <2>2 DEF set_offset, levelVars, DbInv, FlushProgress
  <2>3. CASE set_log_offset
    BY <2>3 DEF set_log_offset, levelVars, DbInv, FlushProgress
  <2> QED BY <2>1, <2>2, <2>3
<1>2. imm[1].log_offset \in Nat /\ imm[1].next_seq \in Nat
  BY <1>1, ImmFacts
<1>3. DbTypeOK'
  <2>1. CASE FlushList
    BY <1>1, <2>1 DEF FlushList, DbInv, DbTypeOK
  <2>2. CASE set_offset
    <3>1. imm[1].log_offset \div PageSize \in Nat
      BY <1>2, DbAssumption
    <3> QED BY <1>1, <1>2, <2>2, <3>1 DEF set_offset, DbInv, DbTypeOK
  <2>3. CASE set_log_offset
    BY <1>1, <1>2, <2>3 DEF set_log_offset, DbInv, DbTypeOK
  <2> QED BY <2>1, <2>2, <2>3
<1>4. MemtablesInOrder' /\ ImmIsFresh'
  BY <1>1 DEF DbInv, MemtablesInOrder, ImmIsFresh, SeqBase
<1>5. WriterProgress'
  BY <1>1 DEF DbInv, WriterProgress, BatchLen
<1>6. LogInOrder'
  <2>1. /\ LogBase' = LogBase /\ LogEnd' = LogEnd /\ BatchLen' = BatchLen
        /\ LeftLen' = LeftLen
    BY <1>1 DEF LogBase, LogEnd, BatchLen, LeftLen
  <2>2. CASE FlushList
    <3>1. trim = "idle"
      BY <2>2 DEF FlushList, FlushManifest, DbInv, FlushProgress
    <3> QED BY <1>1, <2>1, <2>2, <3>1 DEF FlushList, DbInv, LogInOrder
  <2>3. CASE set_offset
    BY <1>1, <2>1, <2>3 DEF set_offset, DbInv, LogInOrder
  <2>4. CASE set_log_offset
    BY <1>1, <2>1, <2>4 DEF set_log_offset, DbInv, LogInOrder
  <2> QED BY <2>2, <2>3, <2>4
<1>7. FlushProgress' /\ ValuesKnown'
  BY <1>1 DEF DbInv, FlushProgress, ValuesKnown, Valued
<1> QED BY <1>3, <1>4, <1>5, <1>6, <1>7 DEF DbInv

\* The immutable memtable is dropped.
LEMMA PopImmStep ==
  ASSUME DbInv, PopImm
  PROVE  DbInv'
<1>1. /\ UNCHANGED <<log, log_page, offset_pos, log_offset, memtable, next_seq>>
      /\ UNCHANGED <<writer, value, reader, seen, seq_offset, flush>>
      /\ trim = "pop" /\ trim' = "idle" /\ imm' = Tail(imm)
  BY DEF PopImm, levelVars
<1>2. imm # <<>> /\ seq_offset = imm[1].next_seq /\ flush.pc = "idle"
  BY <1>1 DEF DbInv, FlushProgress
<1>3. imm' = <<>>
  BY <1>1, <1>2, ImmFacts
<1>4. SeqBase' = SeqBase /\ SeqBase = seq_offset
  BY <1>1, <1>2, <1>3 DEF SeqBase
<1>5. LogBase' = LogBase
  BY <1>1, <1>2, <1>3 DEF LogBase, DbInv, LogInOrder
<1>6. Len(imm') = 0 /\ imm' \in Seq(ImmMemtable)
  BY <1>3
<1>7. DbTypeOK'
  BY <1>1, <1>6 DEF DbInv, DbTypeOK
<1>8. MemtablesInOrder' /\ ImmIsFresh'
  BY <1>1, <1>3, <1>4, <1>6 DEF DbInv, MemtablesInOrder, ImmIsFresh
<1>9. WriterProgress' /\ LogInOrder'
  <2>1. LogEnd' = LogEnd /\ BatchLen' = BatchLen /\ LeftLen' = LeftLen
    BY <1>1 DEF LogEnd, BatchLen, LeftLen
  <2>2. WriterProgress'
    BY <1>1, <2>1 DEF DbInv, WriterProgress
  <2>3. offset_pos' = log_offset'
    BY <1>1 DEF DbInv, LogInOrder
  <2> QED BY <1>1, <1>3, <1>5, <2>1, <2>2, <2>3 DEF DbInv, LogInOrder
<1>10. FlushProgress' /\ ValuesKnown'
  BY <1>1, <1>2 DEF DbInv, FlushProgress, ValuesKnown, Valued
<1> QED BY <1>7, <1>8, <1>9, <1>10 DEF DbInv

-----------------------------------------------------------------------------
(* A get, a restart, and the invariant.                                     *)

\* Every sequence number that a table or a memtable holds has a value.
LEMMA EntriesValued ==
  ASSUME DbInv, LevelsInv
  PROVE  /\ \A s \in Nat : 0 < s /\ s < next_seq => value[s] \in Nat
         /\ \A k \in Keys : memtable[k] \in Nat /\ memtable[k] < next_seq
         /\ \A k \in Keys : writer.taken[k] \in Nat /\ writer.taken[k] < next_seq
         /\ imm # <<>> => \A k \in Keys : /\ imm[1].data[k] \in Nat
                                          /\ imm[1].data[k] < next_seq
         /\ \A l \in Level : \A t \in tables[l] : \A k \in Keys :
              t.data[k] \in Nat /\ t.data[k] < next_seq
<1>1. 0 < next_seq /\ SeqBase <= next_seq /\ seq_offset <= SeqBase
  BY PositionsNat DEF DbInv, MemtablesInOrder
<1>2. ASSUME NEW s \in Nat, 0 < s, s < next_seq PROVE value[s] \in Nat
  <2>1. s \in 1 .. Valued
    BY <1>2, PositionsNat DEF DbInv, ValuesKnown
  <2>2. value \in Seq(Nat) /\ s \in 1 .. Len(value)
    BY <2>1 DEF Valued, DbInv, DbTypeOK
  <2> QED BY <2>2
<1>3. \A d \in Data : \A k \in Keys : d[k] \in Nat
  BY ConstantsAssumption DEF Data, Seqs
<1>4. /\ \A k \in Keys : memtable[k] \in Nat /\ memtable[k] < next_seq
      /\ \A k \in Keys : writer.taken[k] \in Nat /\ writer.taken[k] < next_seq
  <2>1. memtable \in Data /\ writer.taken \in Data
    BY WriterFacts DEF DbInv, DbTypeOK
  <2> QED BY <1>1, <1>3, <2>1, PositionsNat DEF DbInv, MemtablesInOrder
<1>5. ASSUME imm # <<>>, NEW k \in Keys
      PROVE  imm[1].data[k] \in Nat /\ imm[1].data[k] < next_seq
  <2>1. imm[1].data[k] \in Nat /\ imm[1].next_seq \in Nat
    BY <1>3, <1>5, ImmFacts
  <2>2. imm[1].data[k] < imm[1].next_seq /\ SeqBase = imm[1].next_seq
    BY <1>5 DEF DbInv, MemtablesInOrder, SeqBase
  <2> QED BY <1>1, <2>1, <2>2, PositionsNat
<1>6. ASSUME NEW l \in Level, NEW t \in tables[l], NEW k \in Keys
      PROVE  t.data[k] \in Nat /\ t.data[k] < next_seq
  <2>1. t.data[k] \in Nat
    BY TableNumbers DEF LevelsInv, OwnershipInv
  <2>2. t.data[k] < IF flush.pc = "added" THEN flush.seq ELSE seq_offset
    BY DEF LevelsInv, OrderInv, FlushNewest
  <2>3. flush.pc = "added" => flush.seq = SeqBase
    BY DEF DbInv, FlushProgress, SeqBase
  <2> QED BY <1>1, <2>1, <2>2, <2>3, PositionsNat
<1> QED BY <1>2, <1>4, <1>5, <1>6

\* What a caller can see of a key is the number of a record, or 0.
LEMMA ViewNat ==
  ASSUME DbInv, LevelsInv, NEW k \in Keys
  PROVE  View(k) \in Nat
<1>1. Results(k) # {} => Newest(Results(k)) \in Nat /\ Newest(Results(k)) < next_seq
  <2> DEFINE R == Results(k)
             n == next_seq - 1
  <2> SUFFICES ASSUME R # {} PROVE Newest(R) \in Nat /\ Newest(R) < next_seq
    OBVIOUS
  <2>1. n \in Nat /\ next_seq \in Nat
    BY PositionsNat DEF DbInv, MemtablesInOrder
  <2>2. \A s \in R : s \in 1 .. n
    <3>2. \A s \in R : \E l \in Level : \E t \in tables[l] :
            s = t.data[k] /\ s > 0
      BY DEF Results, StopsAt, Holding
    <3> HIDE DEF R
    <3> QED BY <2>1, <3>2, EntriesValued
  <2>3. PICK x \in R : \A y \in R : y <= x
    <3> HIDE DEF R, n
    <3> QED BY Zenon, <2>1, <2>2, GreatestElement
  <2>4. Newest(R) \in R
    <3> HIDE DEF R
    <3> QED BY <2>3 DEF Newest
  <2> HIDE DEF R
  <2> QED BY <2>1, <2>2, <2>4
<1>2. ViewSeq(k) \in Nat /\ ViewSeq(k) < next_seq
  <2>1. 0 < next_seq
    BY PositionsNat DEF DbInv, MemtablesInOrder
  <2> QED BY <1>1, <2>1, EntriesValued, PositionsNat DEF ViewSeq
<1> HIDE DEF ViewSeq
<1> QED BY <1>2, EntriesValued DEF View, ValueOf

\* A step of a get.
LEMMA ReaderStep ==
  ASSUME DbInv, reader' \in [Readers -> Reader], seen' \in [Readers -> SUBSET Nat],
         \A r \in Readers : reader'[r].pc # "idle" => reader'[r].key \in Keys,
         UNCHANGED <<log, log_page, offset_pos, log_offset, memtable, next_seq,
                     imm, writer, trim, value, seq_offset, flush>>
  PROVE  DbInv'
<1>1. DbTypeOK'
  BY DEF DbInv, DbTypeOK
<1>2. MemtablesInOrder' /\ ImmIsFresh'
  BY DEF DbInv, MemtablesInOrder, ImmIsFresh, SeqBase
<1>3. WriterProgress' /\ LogInOrder'
  BY Zenon DEF DbInv, WriterProgress, LogInOrder, LogBase, LogEnd, BatchLen, LeftLen
<1>4. FlushProgress' /\ ValuesKnown'
  BY DEF DbInv, FlushProgress, ValuesKnown, Valued
<1> QED BY <1>1, <1>2, <1>3, <1>4 DEF DbInv

\* The states a get goes through.
LEMMA ReaderStates ==
  ASSUME DbInv, NEW r \in Readers
  PROVE  /\ \A v \in Nat : Found(r, v) =>
              /\ reader' \in [Readers -> Reader]
              /\ \A q \in Readers : reader'[q].pc # "idle" => reader'[q].key \in Keys
         /\ \A pc \in {"memtable", "imm", "level"}, l \in Level :
              Searching(r, pc, l) /\ reader[r].pc # "idle" =>
                /\ reader' \in [Readers -> Reader]
                /\ \A q \in Readers : reader'[q].pc # "idle" => reader'[q].key \in Keys
<1>1. /\ reader \in [Readers -> Reader]
      /\ \A q \in Readers : reader[q].pc # "idle" => reader[q].key \in Keys
  BY DEF DbInv, DbTypeOK, ValuesKnown
<1>2. ASSUME NEW v \in Nat, Found(r, v)
      PROVE  /\ reader' \in [Readers -> Reader]
             /\ \A q \in Readers : reader'[q].pc # "idle" => reader'[q].key \in Keys
  <2> DEFINE new == [pc |-> "idle", key |-> 0, level |-> 0, got |-> v]
  <2>1. new \in Reader /\ new.pc = "idle" /\ reader' = [reader EXCEPT ![r] = new]
    BY <1>2, LevelFacts DEF Reader, Found
  <2> HIDE DEF new
  <2> QED BY <1>1, <2>1
<1>3. ASSUME NEW pc \in {"memtable", "imm", "level"}, NEW l \in Level,
             Searching(r, pc, l), reader[r].pc # "idle"
      PROVE  /\ reader' \in [Readers -> Reader]
             /\ \A q \in Readers : reader'[q].pc # "idle" => reader'[q].key \in Keys
  <2> DEFINE new == [pc |-> pc, key |-> reader[r].key, level |-> l, got |-> 0]
  <2>1. reader[r].key \in Keys
    BY <1>1, <1>3
  <2>2. new \in Reader /\ new.key \in Keys /\ reader' = [reader EXCEPT ![r] = new]
    BY <1>3, <2>1 DEF Reader, Searching
  <2> HIDE DEF new
  <2> QED BY <1>1, <2>2
<1> QED BY <1>2, <1>3

\* A get begins.
LEMMA GetBeginStep ==
  ASSUME DbInv, LevelsInv, NEW r \in Readers, NEW k \in Keys, GetBegin(r, k)
  PROVE  DbInv'
<1>1. /\ UNCHANGED <<log, log_page, offset_pos, log_offset, memtable, next_seq,
                     imm, writer, trim, value, seq_offset, flush>>
      /\ seen' = [seen EXCEPT ![r] = {View(k)}]
  BY DEF GetBegin, levelVars
<1>2. seen' \in [Readers -> SUBSET Nat]
  <2>1. View(k) \in Nat
    BY ViewNat
  <2> QED BY <1>1, <2>1 DEF DbInv, DbTypeOK
<1>3. /\ reader' \in [Readers -> Reader]
      /\ \A q \in Readers : reader'[q].pc # "idle" => reader'[q].key \in Keys
  <2> DEFINE new == [pc |-> "memtable", key |-> k, level |-> 0, got |-> 0]
  <2>1. new \in Reader /\ new.key \in Keys /\ reader' = [reader EXCEPT ![r] = new]
    BY LevelFacts DEF Reader, GetBegin
  <2>2. /\ reader \in [Readers -> Reader]
        /\ \A q \in Readers : reader[q].pc # "idle" => reader[q].key \in Keys
    BY DEF DbInv, DbTypeOK, ValuesKnown
  <2> HIDE DEF new
  <2> QED BY <2>1, <2>2
<1> QED BY <1>1, <1>2, <1>3, ReaderStep

\* A get looks into the memtable or the immutable one.
LEMMA GetMemtableStep ==
  ASSUME DbInv, LevelsInv, NEW r \in Readers, GetMemtable(r) \/ GetImm(r)
  PROVE  DbInv'
<1>1. /\ UNCHANGED <<log, log_page, offset_pos, log_offset, memtable, next_seq,
                     imm, writer, trim, value, seq_offset, flush>>
      /\ reader[r].pc # "idle"
  BY DEF GetMemtable, GetImm, levelVars
<1>2. reader[r].key \in Keys
  BY <1>1 DEF DbInv, ValuesKnown
<1>3. \/ \E v \in Nat : Found(r, v)
      \/ \E pc \in {"memtable", "imm", "level"} : Searching(r, pc, 0)
  <2>1. CASE GetMemtable(r)
    <3> DEFINE s == memtable[reader[r].key]
    <3>1. s \in Nat /\ s < next_seq
      BY <1>2, EntriesValued
    <3>2. s > 0 => value[s] \in Nat
      <4> HIDE DEF s
      <4> QED BY <3>1, EntriesValued
    <3>3. IF s > 0 THEN Found(r, value[s]) ELSE Searching(r, "imm", 0)
      BY <2>1 DEF GetMemtable
    <3> HIDE DEF s
    <3> QED BY <3>2, <3>3
  <2>2. CASE GetImm(r)
    <3> DEFINE s == IF imm = <<>> THEN 0 ELSE imm[1].data[reader[r].key]
    <3>1. s > 0 => s \in Nat /\ s < next_seq
      BY <1>2, EntriesValued
    <3>2. s > 0 => value[s] \in Nat
      <4> HIDE DEF s
      <4> QED BY <3>1, EntriesValued
    <3>3. IF s > 0 THEN Found(r, value[s]) ELSE Searching(r, "level", 0)
      BY <2>2 DEF GetImm
    <3> HIDE DEF s
    <3> QED BY <3>2, <3>3
  <2> QED BY <2>1, <2>2
<1>4. seen' \in [Readers -> SUBSET Nat]
  <2>1. seen' = seen \/ seen' = [seen EXCEPT ![r] = {}]
    BY DEF GetMemtable, GetImm
  <2> QED BY <2>1 DEF DbInv, DbTypeOK
<1>5. /\ reader' \in [Readers -> Reader]
      /\ \A q \in Readers : reader'[q].pc # "idle" => reader'[q].key \in Keys
  BY <1>1, <1>3, ReaderStates, LevelFacts
<1> QED BY <1>1, <1>4, <1>5, ReaderStep

\* A get looks into a level, and may note a table for compaction.
LEMMA GetLevelStep ==
  ASSUME DbInv, LevelsInv, NEW r \in Readers, GetLevel(r)
  PROVE  DbInv' /\ [Next]_levelVars
<1> DEFINE l == reader[r].level
           k == reader[r].key
<1>1. /\ UNCHANGED <<log, log_page, offset_pos, log_offset, memtable, next_seq,
                     imm, writer, trim, value>>
      /\ reader[r].pc = "level" /\ (TriggerSeek(l) \/ UNCHANGED levelVars)
  BY DEF GetLevel
<1>2. seq_offset' = seq_offset /\ flush' = flush
  BY <1>1 DEF TriggerSeek, levelVars
<1>3. k \in Keys /\ l \in Level
  BY <1>1 DEF DbInv, DbTypeOK, ValuesKnown, Reader
<1>4. \/ \E v \in Nat : Found(r, v)
      \/ l + 1 \in Level /\ Searching(r, "level", l + 1)
  <2>1. ASSUME NEW t \in Holding(l, k), Found(r, value[t.data[k]])
        PROVE  \E v \in Nat : Found(r, v)
    <3>1. t \in tables[l] /\ t.data[k] > 0
      BY DEF Holding
    <3>2. t.data[k] \in Nat /\ t.data[k] < next_seq
      BY <1>3, <3>1, EntriesValued
    <3>3. value[t.data[k]] \in Nat
      BY <3>1, <3>2, EntriesValued
    <3> QED BY <2>1, <3>3
  <2>2. ASSUME ~LastLevel(l) PROVE l + 1 \in Level
    BY <1>3, <2>2, ConstantsAssumption DEF LastLevel, Level
  <2>3. \/ \E t \in Holding(l, k) : Found(r, value[t.data[k]])
        \/ ~LastLevel(l) /\ Searching(r, "level", l + 1)
        \/ Found(r, 0)
    BY DEF GetLevel
  <2> QED BY <2>1, <2>2, <2>3
<1>5. seen' \in [Readers -> SUBSET Nat]
  <2>1. seen' = seen \/ seen' = [seen EXCEPT ![r] = {}]
    BY DEF GetLevel
  <2> QED BY <2>1 DEF DbInv, DbTypeOK
<1>6. /\ reader' \in [Readers -> Reader]
      /\ \A q \in Readers : reader'[q].pc # "idle" => reader'[q].key \in Keys
  BY <1>1, <1>4, ReaderStates
<1>7. [Next]_levelVars
  BY <1>1, <1>3 DEF Next
<1>8. DbInv'
  BY <1>1, <1>2, <1>5, <1>6, ReaderStep
<1> QED BY <1>7, <1>8

\* The database is killed and opened again.
LEMMA RestartStep ==
  ASSUME DbInv, Restart
  PROVE  DbInv'
<1> DEFINE b == Replayed
           n == Len(b)
           kept == SubSeq(value, 1, seq_offset - 1)
           new == [i \in DOMAIN b |-> log_offset + i]
<1>1. log_offset <= LogBase /\ LogBase <= LogEnd
  <2>1. LogBase <= LogEnd
    BY PositionsNat DEF DbInv, LogInOrder
  <2>2. CASE imm = <<>>
    BY <2>1, <2>2, PositionsNat DEF LogBase
  <2>3. CASE imm # <<>>
    <3>1. log_offset <= imm[1].log_offset
      BY SMTT(20), <2>3, ImmFacts, PositionsNat DEF DbInv, LogInOrder
    <3> QED BY <2>1, <2>3, <3>1 DEF LogBase
  <2> QED BY <2>2, <2>3
<1>2. b \in Seq(Keys) /\ n \in Nat
  <2>1. log \in Seq(Keys) /\ log_offset \in Nat
    BY DEF DbInv, DbTypeOK
  <2>2. \A i \in log_offset + 1 .. Len(log) : log[i] \in Keys
    BY <2>1
  <2>3. b \in Seq(Keys)
    BY <2>1, <2>2, SubSeqFacts DEF Replayed
  <2> HIDE DEF b
  <2> QED BY <2>3
<1>3. /\ UNCHANGED <<log, log_page, log_offset, seq_offset>>
      /\ offset_pos' = log_offset /\ imm' = <<>> /\ trim' = "idle"
      /\ writer' = NoWriter /\ flush' = NoFlush
      /\ next_seq' = seq_offset + n /\ seq_offset + n - 1 <= MaxSeq
      /\ memtable' = Put(Empty, seq_offset, b) /\ value' = kept \o new
      /\ reader' = [r \in Readers |-> NotReading]
      /\ seen' = [r \in Readers |-> {}]
  BY DEF Restart, Reopen
<1>4. /\ writer' \in Writer /\ writer'.pc = "idle" /\ writer'.batch = <<>>
      /\ writer'.left = <<>> /\ writer'.taken = Empty /\ flush'.pc = "idle"
      /\ NotReading \in Reader /\ NotReading.pc = "idle"
  BY <1>3, EmptyFacts, LevelFacts DEF NoWriter, Writer, NoFlush, NotReading, Reader
<1>5. 0 < seq_offset /\ seq_offset <= next_seq
  BY PositionsNat DEF DbInv, MemtablesInOrder
<1>6. /\ memtable' \in Data
      /\ \A k \in Keys : memtable'[k] > 0 =>
           seq_offset <= memtable'[k] /\ memtable'[k] < seq_offset + n
  <2> DEFINE m == Put(Empty, seq_offset, b)
  <2>1. /\ m \in Data
        /\ \A k \in Keys : \/ m[k] = Empty[k]
                           \/ seq_offset <= m[k] /\ m[k] < seq_offset + n
    BY Zenon, <1>2, <1>3, <1>5, PositionsNat, EmptyFacts, PutFacts
  <2>2. memtable' = m
    BY <1>3
  <2> HIDE DEF m, n
  <2> QED BY <2>1, <2>2, EmptyFacts
<1>7. /\ new \in Seq(Nat) /\ Len(new) = n
      /\ kept \in Seq(Nat) /\ Len(kept) = seq_offset - 1
  <2>1. new \in Seq(Nat) /\ Len(new) = n
    <3> HIDE DEF b
    <3> QED BY <1>2, PositionsNat
  <2>2. seq_offset - 1 \in Nat /\ seq_offset - 1 <= Valued
    BY <1>5, PositionsNat DEF DbInv, ValuesKnown
  <2>3. \A i \in 1 .. seq_offset - 1 : value[i] \in Nat
    <3>1. value \in Seq(Nat) /\ seq_offset - 1 <= Len(value)
      BY <2>2 DEF Valued, DbInv, DbTypeOK
    <3> QED BY <2>2, <3>1
  <2>4. /\ kept \in Seq(Nat)
        /\ Len(kept) = IF 1 <= seq_offset - 1 THEN (seq_offset - 1) - 1 + 1 ELSE 0
    BY <2>2, <2>3, SubSeqFacts
  <2> HIDE DEF kept
  <2> QED BY <2>1, <2>2, <2>4
<1>8. value' \in Seq(Nat) /\ Valued' = seq_offset - 1 + n
  <2>1. value' = kept \o new
    BY <1>3
  <2> HIDE DEF kept, new, n
  <2>2. kept \o new \in Seq(Nat) /\ Len(kept \o new) = Len(kept) + Len(new)
    BY Zenon, <1>7, ConcatFacts
  <2> QED BY Zenon, <1>7, <2>1, <2>2 DEF Valued
<1> HIDE DEF n
<1>9. next_seq' = seq_offset + n /\ next_seq' \in Nat
  <2>1. next_seq' = seq_offset + n /\ n \in Nat
    BY Zenon, <1>2, <1>3
  <2> QED BY <2>1, PositionsNat
<1>10. DbTypeOK'
  BY <1>3, <1>4, <1>6, <1>8, <1>9 DEF DbInv, DbTypeOK
<1>11. MemtablesInOrder'
  <2>1. SeqBase' = seq_offset /\ Len(imm') = 0
    BY <1>3 DEF SeqBase
  <2>2. seq_offset <= seq_offset + n /\ seq_offset + n <= MaxSeq + 1
    <3>1. n \in Nat /\ seq_offset + n - 1 <= MaxSeq
      BY Zenon, <1>2, <1>3
    <3>2. MaxSeq \in Nat
      BY ConstantsAssumption
    <3> QED BY <3>1, <3>2, PositionsNat
  <2> QED BY SMTT(20), <1>3, <1>4, <1>5, <1>6, <2>1, <2>2, PositionsNat, EmptyFacts
          DEF MemtablesInOrder
<1>12. ImmIsFresh' /\ WriterProgress' /\ FlushProgress'
  BY <1>3, <1>4 DEF ImmIsFresh, WriterProgress, FlushProgress
<1>13. LogInOrder'
  <2>1. LogBase' = log_offset /\ LogEnd' = LogEnd
    BY <1>3 DEF LogBase, LogEnd
  <2>2. BatchLen' = 0 /\ LeftLen' = 0
    BY <1>4 DEF BatchLen, LeftLen
  <2> QED BY <1>1, <1>3, <1>4, <2>1, <2>2, PositionsNat DEF LogInOrder
<1>14. ValuesKnown'
  <2>1. Valued' = next_seq' - 1
    <3>1. n \in Nat
      BY Zenon, <1>2
    <3> QED BY <1>8, <1>9, <3>1, PositionsNat
  <2> QED BY <1>3, <1>4, <2>1 DEF ValuesKnown
<1> QED BY <1>10, <1>11, <1>12, <1>13, <1>14 DEF DbInv

-----------------------------------------------------------------------------
(* Every step is a step of the levels.                                      *)

\* The immutable memtable is one the levels expect to be flushed.
LEMMA FlushStartStep ==
  ASSUME DbInv, FlushStart
  PROVE  Next
<1> DEFINE d == imm[1].data
           n == imm[1].next_seq
<1>1. imm # <<>> /\ trim = "idle" /\ FlushBuild(d, n) /\ flush.pc = "idle"
  BY DEF FlushStart, FlushBuild
<1>2. d \in Data /\ n \in Nat
  BY <1>1, ImmFacts
<1>3. /\ seq_offset < n /\ \E k \in Keys : d[k] > 0
      /\ \A k \in Keys : d[k] > 0 => seq_offset <= d[k]
  BY <1>1 DEF DbInv, ImmIsFresh
<1>4. \A k \in Keys : d[k] < n
  BY <1>1 DEF DbInv, MemtablesInOrder
<1>5. 0 < seq_offset /\ n <= MaxSeq + 1
  <2>1. SeqBase = n
    BY <1>1 DEF SeqBase
  <2> QED BY <2>1, PositionsNat, ConstantsAssumption DEF DbInv, MemtablesInOrder
<1> HIDE DEF d, n
<1>6. n \in seq_offset + 1 .. seq_offset + MaxBatch
  BY <1>2, <1>3, <1>5, PositionsNat, ConstantsAssumption, DbAssumption
<1>7. d \in FreshData(n)
  <2>1. \A k \in Keys : d[k] \in Nat
    BY <1>2, ConstantsAssumption DEF Data, Seqs
  <2>2. \A k \in Keys : d[k] \in {0} \cup (seq_offset .. n - 1)
    BY <1>2, <1>3, <1>4, <2>1, PositionsNat
  <2>3. d \in [Keys -> {0} \cup (seq_offset .. n - 1)]
    BY <1>2, <2>2 DEF Data
  <2> QED BY <1>3, <2>3 DEF FreshData
<1> QED BY <1>1, <1>5, <1>6, <1>7 DEF Next, Flush

\* Each action of the store is an action of the levels or leaves them alone,
\* and keeps the invariant.
LEMMA DbStep ==
  ASSUME DbInv, LevelsInv, [DbNext]_<<levelVars, dbVars>>
  PROVE  DbInv' /\ [Next]_levelVars
<1>1. ASSUME NEW b \in Batches, WriteBegin(b) PROVE DbInv' /\ [Next]_levelVars
  BY <1>1, WriteBeginStep DEF WriteBegin
<1>2. ASSUME LogRecord PROVE DbInv' /\ [Next]_levelVars
  BY <1>2, LogRecordStep DEF LogRecord
<1>3. ASSUME Apply PROVE DbInv' /\ [Next]_levelVars
  <2>1. UNCHANGED levelVars
    BY <1>3 DEF Apply
  <2> QED BY <1>3, <2>1, ApplyStep
<1>4. ASSUME PushImm PROVE DbInv' /\ [Next]_levelVars
  BY <1>4, PushImmStep DEF PushImm
<1>5. ASSUME FlushStart PROVE DbInv' /\ [Next]_levelVars
  BY <1>5, FlushBeginStep, FlushStartStep
<1>6. ASSUME FlushAdd PROVE DbInv' /\ [Next]_levelVars
  BY <1>6, FlushBeginStep DEF FlushAdd, Next, Flush
<1>7. ASSUME FlushNumber PROVE DbInv' /\ [Next]_levelVars
  BY <1>7, FlushNumberStep DEF FlushNumber, Next, Flush
<1>8. ASSUME FlushList PROVE DbInv' /\ [Next]_levelVars
  BY <1>8, TrimSteps DEF FlushList, Next, Flush
<1>9. ASSUME set_offset \/ set_log_offset PROVE DbInv' /\ [Next]_levelVars
  BY <1>9, TrimSteps DEF set_offset, set_log_offset
<1>10. ASSUME PopImm PROVE DbInv' /\ [Next]_levelVars
  BY <1>10, PopImmStep DEF PopImm
<1>11. ASSUME NEW r \in Readers, NEW k \in Keys, GetBegin(r, k)
       PROVE  DbInv' /\ [Next]_levelVars
  BY Zenon, <1>11, GetBeginStep DEF GetBegin
<1>12. ASSUME NEW r \in Readers, GetMemtable(r) \/ GetImm(r)
       PROVE  DbInv' /\ [Next]_levelVars
  <2>1. UNCHANGED levelVars
    BY Zenon, <1>12 DEF GetMemtable, GetImm
  <2> QED BY <1>12, <2>1, GetMemtableStep
<1>13. ASSUME NEW r \in Readers, GetLevel(r) PROVE DbInv' /\ [Next]_levelVars
  BY <1>13, GetLevelStep
<1>14. ASSUME NEW c \in Tasks, Compact(c), UNCHANGED dbVars
       PROVE  DbInv' /\ [Next]_levelVars
  <2>1. seq_offset' = seq_offset /\ flush' = flush
    BY Zenon, <1>14 DEF Compact, Work, do_level_compaction, NothingToCompact,
         maybe_start_compaction, StartContended, get_overlaps, OverlapsContended,
         LockParentLevel, compact_level, fast_compaction
  <2>2. DbInv'
    BY <1>14, <2>1, DbQuietStep
  <2> QED BY <1>14, <2>2 DEF Next
<1>15. ASSUME Restart PROVE DbInv' /\ [Next]_levelVars
  <2>1. Reopen
    BY <1>15 DEF Restart
  <2> QED BY <1>15, <2>1, RestartStep DEF Next
<1>16. ASSUME UNCHANGED <<levelVars, dbVars>> PROVE DbInv' /\ [Next]_levelVars
  <2>1. UNCHANGED levelVars /\ UNCHANGED <<dbVars, seq_offset, flush>>
    BY <1>16 DEF levelVars
  <2> QED BY <2>1, DbQuietStep
<1> QED BY Zenon, <1>1, <1>2, <1>3, <1>4, <1>5, <1>6, <1>7, <1>8, <1>9, <1>10, <1>11,
           <1>12, <1>13, <1>14, <1>15, <1>16 DEF DbNext

\* The invariants of the store and of the levels hold together, and every step
\* of the store is one of the levels.
LEMMA DbInvariantHolds == DbSpec => [](DbInv /\ LevelsInv) /\ Spec
<1>1. DbInit => DbInv /\ LevelsInv
  <2>1. Init => ManifestInv
    BY LevelFacts DEF Init, ManifestInv, NoFlush, Ids
  <2>2. Init => LevelsInv
    BY <2>1, OwnershipInit, OrderInit DEF LevelsInv
  <2> QED BY <2>2, DbInitInv DEF DbInit
<1>2. DbInv /\ LevelsInv /\ [DbNext]_<<levelVars, dbVars>> =>
        (DbInv /\ LevelsInv)' /\ [Next]_levelVars
  BY DbStep, OwnershipStep, ManifestStep, OrderStep DEF LevelsInv
<1>3. DbInit => Init
  BY DEF DbInit
<1> QED BY <1>1, <1>2, <1>3, PTL DEF DbSpec, Spec

\* The store does with the levels what Levels describes: write_opts hands over
\* memtables the levels expect, and a restart finds them as Reopen does.
THEOREM StoreImplementsLevels == DbSpec => ImplementsLevels
BY DbInvariantHolds, PTL DEF ImplementsLevels

\* Every variable of the store keeps its type, for any number of keys, levels,
\* tasks, readers and records; in particular a get never asks for the value of
\* a sequence number that was not given out.
THEOREM DbTypeCorrect == DbSpec => []DbTypeOK
<1>1. DbInv => DbTypeOK
  BY DEF DbInv
<1> QED BY <1>1, DbInvariantHolds, PTL

\* The panics of the manifest and of the log on an offset that does not
\* increase never fire, however flushes, writes and restarts follow each other.
THEOREM OffsetsAlwaysAdvance == DbSpec => []OffsetsAdvance
<1>1. DbInv => OffsetsAdvance
  <2> SUFFICES ASSUME DbInv PROVE OffsetsAdvance
    OBVIOUS
  <2>1. flush.pc = "added" => seq_offset < flush.seq
    BY DEF DbInv, FlushProgress, ImmIsFresh
  <2>2. trim = "wal" => offset_pos < imm[1].log_offset
    BY DEF DbInv, FlushProgress, LogInOrder
  <2>3. trim = "manifest" => log_offset < imm[1].log_offset
    BY DEF DbInv, FlushProgress, LogInOrder
  <2> QED BY <2>1, <2>2, <2>3 DEF OffsetsAdvance
<1> QED BY <1>1, DbInvariantHolds, PTL

\* What is proved of the levels holds of the store: a get that reaches the
\* levels never finds an older entry than one that some level holds.
THEOREM StoreFindsNewest == DbSpec => []LookupNewest
BY DbInvariantHolds, LookupFindsNewest, PTL

\* Why LogReachesOffset holds: after wal.set_offset has removed pages and before
\* the manifest has the new offset, the log still reaches back to the offset
\* that the manifest is about to get.
LogReachesNext ==
  /\ LogReachesOffset
  /\ trim = "manifest" => log_page <= imm[1].log_offset \div PageSize

\* Every step keeps the page of the recorded offset.
LEMMA LogReachesStep ==
  ASSUME DbInv, LogReachesNext, [DbNext]_<<levelVars, dbVars>>
  PROVE  LogReachesNext'
<1> USE DEF LogReachesNext, LogReachesOffset
<1>1. ASSUME UNCHANGED <<log_page, log_offset, trim, imm>> PROVE LogReachesNext'
  BY <1>1
<1>2. CASE PushImm
  BY <1>2 DEF PushImm, DbInv, FlushProgress
<1>3. CASE FlushList
  BY <1>3 DEF FlushList, FlushManifest, DbInv, FlushProgress
<1>4. CASE set_offset
  <2>1. imm[1].log_offset \div PageSize \in Nat
    BY <1>4, ImmFacts, DbAssumption DEF set_offset, DbInv, FlushProgress
  <2> QED BY <1>4, <2>1 DEF set_offset
<1>5. CASE set_log_offset
  BY <1>5 DEF set_log_offset
<1>6. CASE PopImm
  BY <1>6 DEF PopImm
<1>7. CASE Restart
  BY <1>7 DEF Restart
<1>8. ASSUME NEW b \in Batches, WriteBegin(b) PROVE LogReachesNext'
  BY <1>1, <1>8 DEF WriteBegin
<1>9. CASE LogRecord \/ Apply
  BY <1>1, <1>9 DEF LogRecord, Apply
<1>10. CASE FlushStart \/ FlushAdd \/ FlushNumber
  BY <1>1, <1>10 DEF FlushStart, FlushAdd, FlushNumber, dbVars
<1>11. ASSUME NEW r \in Readers, NEW k \in Keys, GetBegin(r, k)
       PROVE  LogReachesNext'
  BY <1>1, <1>11 DEF GetBegin
<1>12. ASSUME NEW r \in Readers, GetMemtable(r) \/ GetImm(r) \/ GetLevel(r)
       PROVE  LogReachesNext'
  BY <1>1, <1>12 DEF GetMemtable, GetImm, GetLevel
<1>13. CASE UNCHANGED dbVars
  BY <1>1, <1>13 DEF dbVars
<1> QED BY Zenon, <1>2, <1>3, <1>4, <1>5, <1>6, <1>7, <1>8, <1>9, <1>10, <1>11,
           <1>12, <1>13 DEF DbNext

\* The log always reaches back to the offset the manifest records, except while
\* do_memtable_compaction is between wal.set_offset and set_log_offset.
THEOREM LogAlwaysReachesOffset == DbSpec => []LogReachesOffset
<1>1. DbInit => LogReachesNext
  <2>1. 0 \div PageSize = 0
    BY DbAssumption
  <2> QED BY <2>1 DEF DbInit, LogReachesNext, LogReachesOffset
<1>2. DbInv /\ LogReachesNext /\ [DbNext]_<<levelVars, dbVars>> => LogReachesNext'
  BY LogReachesStep
<1>3. LogReachesNext => LogReachesOffset
  BY DEF LogReachesNext
<1> QED BY <1>1, <1>2, <1>3, DbInvariantHolds, PTL DEF DbSpec
=============================================================================
