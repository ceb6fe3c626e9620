---------------------------- MODULE DbRefinement ----------------------------
(* The store implements the map KVStore describes, for any number of keys, *)
(* levels, tasks, readers and records: restarts and reads, and the mapping *)
(* of every step to one of the map.                                        *)
EXTENDS DbStore

-----------------------------------------------------------------------------
(* A restart.                                                               *)

\* What a restart does to the entries of a key and to the values.
LEMMA RestartEffect ==
  ASSUME Inv, Restart
  PROVE  /\ Replayed \in Seq(Keys) /\ Len(Replayed) = LogEnd - log_offset
         /\ \A i \in 1 .. LogEnd - log_offset : Replayed[i] = log[log_offset + i]
         /\ \A s \in Nat : 0 < s /\ s < seq_offset => value'[s] = value[s]
         /\ \A i \in 1 .. LogEnd - log_offset :
              value'[seq_offset + i - 1] = log_offset + i
         /\ \A k \in Keys : memtable'[k] = IF Last(Replayed, k) > 0
                                           THEN seq_offset + Last(Replayed, k) - 1
                                           ELSE 0
<1> DEFINE b == Replayed
           n == LogEnd - log_offset
           kept == SubSeq(value, 1, seq_offset - 1)
           new == [i \in DOMAIN b |-> log_offset + i]
<1>1. log_offset \in Nat /\ LogEnd \in Nat /\ log_offset <= LogEnd /\ n \in Nat
  BY CountFacts, PositionsNat DEF Inv
<1>2. b \in Seq(Keys) /\ Len(b) = n /\ \A i \in 1 .. n : b[i] = log[log_offset + i]
  <2>1. log \in Seq(Keys) /\ LogEnd = Len(log)
    BY Zenon DEF Inv, DbInv, DbTypeOK, LogEnd
  <2>2. \A i \in log_offset + 1 .. LogEnd : log[i] \in Keys
    BY <1>1, <2>1
  <2>3. b = SubSeq(log, log_offset + 1, LogEnd)
    BY Zenon DEF Replayed, LogEnd
  <2> HIDE DEF b
  <2>4. /\ b \in Seq(Keys)
        /\ Len(b) = IF log_offset + 1 <= LogEnd THEN LogEnd - (log_offset + 1) + 1 ELSE 0
        /\ \A i \in 1 .. LogEnd - (log_offset + 1) + 1 : b[i] = log[(log_offset + 1) + i - 1]
    BY <1>1, <2>2, <2>3, SubSeqFacts
  <2>5. Len(b) = n /\ LogEnd - (log_offset + 1) + 1 = n
    BY <1>1, <2>4
  <2>6. \A i \in 1 .. n : (log_offset + 1) + i - 1 = log_offset + i
    BY <1>1
  <2> QED BY Zenon, <2>4, <2>5, <2>6
<1>3. value' = kept \o new /\ memtable' = Put(Empty, seq_offset, b)
  BY Zenon DEF Restart
<1>4. seq_offset \in Nat /\ 0 < seq_offset /\ seq_offset - 1 <= Valued /\ Valued \in Nat
  BY PositionsNat DEF Inv, DbInv, MemtablesInOrder, ValuesKnown
<1>5. /\ kept \in Seq(Nat) /\ Len(kept) = seq_offset - 1
      /\ \A i \in 1 .. seq_offset - 1 : kept[i] = value[i]
  <2>1. value \in Seq(Nat) /\ seq_offset - 1 <= Len(value)
    BY Zenon, <1>4 DEF Valued, Inv, DbInv, DbTypeOK
  <2>2. \A i \in 1 .. seq_offset - 1 : value[i] \in Nat
    BY <1>4, <2>1
  <2>3. /\ kept \in Seq(Nat)
        /\ Len(kept) = IF 1 <= seq_offset - 1 THEN (seq_offset - 1) - 1 + 1 ELSE 0
        /\ \A i \in 1 .. (seq_offset - 1) - 1 + 1 : kept[i] = value[1 + i - 1]
    BY <1>4, <2>2, SubSeqFacts
  <2> HIDE DEF kept
  <2>4. Len(kept) = seq_offset - 1 /\ (seq_offset - 1) - 1 + 1 = seq_offset - 1
    BY <1>4, <2>3
  <2>5. \A i \in 1 .. seq_offset - 1 : 1 + i - 1 = i
    BY <1>4
  <2> QED BY Zenon, <2>3, <2>4, <2>5
<1>6. /\ new \in Seq(Nat) /\ Len(new) = n
      /\ \A i \in 1 .. n : new[i] = log_offset + i
  <2> HIDE DEF b, n
  <2> QED BY <1>1, <1>2
<1> HIDE DEF kept, new
<1>7. \A i \in 1 .. Len(kept) + Len(new) :
        value'[i] = IF i <= Len(kept) THEN kept[i] ELSE new[i - Len(kept)]
  BY Zenon, <1>3, <1>5, <1>6, ConcatFacts
<1> HIDE DEF b, n
<1>8. \A s \in Nat : 0 < s /\ s < seq_offset => value'[s] = value[s]
  BY <1>1, <1>4, <1>5, <1>6, <1>7
<1>9. ASSUME NEW i \in 1 .. n PROVE value'[seq_offset + i - 1] = log_offset + i
  <2> DEFINE j == seq_offset + i - 1
  <2>1. j \in 1 .. Len(kept) + Len(new) /\ ~(j <= Len(kept)) /\ j - Len(kept) = i
    BY <1>1, <1>4, <1>5, <1>6
  <2> HIDE DEF j
  <2>2. value'[j] = new[i]
    BY Zenon, <1>7, <2>1
  <2> QED BY Zenon, <1>6, <2>2 DEF j
<1>10. \A k \in Keys : memtable'[k] = IF Last(b, k) > 0 THEN seq_offset + Last(b, k) - 1
                                      ELSE 0
  BY Zenon, <1>3, EmptyFacts DEF Put
<1> QED BY Zenon, <1>2, <1>8, <1>9, <1>10 DEF b, n

\* A restart finds every operation of the log: those after the manifest's log
\* offset are replayed, and the listed tables have the others.
LEMMA RestartStore ==
  ASSUME Inv, Restart, LevelsInv'
  PROVE  StoreInv' /\ Count' = LogEnd /\ LogEnd' = LogEnd
<1> DEFINE b == Replayed
           n == LogEnd - log_offset
<1>1. /\ UNCHANGED <<log, log_offset, manifest, seq_offset>>
      /\ imm' = <<>> /\ trim' = "idle" /\ writer' = NoWriter /\ flush' = NoFlush
      /\ reader' = [r \in Readers |-> NotReading]
      /\ tables' = [l \in Level |-> {t \in tables[l] : t.id \in manifest[l]}]
      /\ NoPanic
  BY Zenon DEF Restart, Reopen, NoPanic
<1>2. /\ writer'.batch = <<>> /\ writer'.left = <<>> /\ flush'.pc = "idle"
      /\ \A k \in Keys : writer'.taken[k] = 0
      /\ NotReading.pc = "idle"
  BY Zenon, <1>1, EmptyFacts DEF NoWriter, NoFlush, NotReading
<1>3. BatchLen' = 0 /\ LeftLen' = 0
  BY Zenon, <1>2 DEF BatchLen, LeftLen
<1>4. /\ log_offset \in Nat /\ LogEnd \in Nat /\ log_offset <= LogEnd /\ n \in Nat
      /\ imm # <<>> => imm[1].log_offset \in Nat /\ imm[1].log_offset <= LogEnd
      /\ Count \in Nat /\ Count <= LogEnd
  <2>1. /\ Count \in Nat /\ LogBase <= Count /\ Count <= LogEnd /\ log_offset <= LogBase
        /\ imm # <<>> => imm[1].log_offset \in Nat /\ imm[1].log_offset <= Count
        /\ LogEnd \in Nat /\ log_offset \in Nat /\ LogBase \in Nat
    BY Zenon, CountFacts, PositionsNat DEF Inv
  <2> QED BY <2>1
<1>5. LogEnd' = LogEnd /\ Count' = LogEnd
  BY <1>1, <1>3, <1>4 DEF LogEnd, Count
<1>6. /\ b \in Seq(Keys) /\ Len(b) = n
      /\ \A i \in 1 .. n : b[i] = log[log_offset + i]
      /\ \A s \in Nat : 0 < s /\ s < seq_offset => value'[s] = value[s]
      /\ \A i \in 1 .. n : value'[seq_offset + i - 1] = log_offset + i
      /\ \A k \in Keys : memtable'[k] = IF Last(b, k) > 0
                                        THEN seq_offset + Last(b, k) - 1 ELSE 0
  BY Zenon, RestartEffect
<1>7. \A k \in Keys : /\ Last(b, k) \in 0 .. n
                      /\ Last(b, k) > 0 => b[Last(b, k)] = k
                      /\ \A i \in 1 .. n : b[i] = k => i <= Last(b, k)
  BY Zenon, <1>6, LastIsLargest
<1> HIDE DEF b, n
<1>8. seq_offset \in Nat /\ 0 < seq_offset
  BY Zenon, PositionsNat DEF Inv, DbInv, MemtablesInOrder
<1>9. /\ \A l \in Level : \A t \in tables'[l] : t \in tables[l] /\ t.id \in manifest[l]
      /\ \A l \in Level : \A t \in tables[l] : t.id \in manifest[l] => t \in tables'[l]
  BY Zenon, <1>1
<1>10. \A l \in Level : \A t \in tables[l] : \A k \in Keys :
         t.data[k] \in Nat /\ (t.data[k] > 0 => value[t.data[k]] \in Nat)
  BY Zenon, EntriesValued DEF Inv
<1>11. \A l \in Level : \A t \in tables'[l] : \A k \in Keys :
         t.data[k] > 0 => value'[t.data[k]] = value[t.data[k]]
  <2>1. \A l \in Level : \A t \in tables'[l] : \A k \in Keys : t.data[k] < seq_offset
    BY Zenon, <1>1, <1>9 DEF Inv, LevelsInv, ManifestInv
  <2> QED BY Zenon, <1>6, <1>9, <1>10, <2>1
<1>12. \A l \in Level : \A t \in tables[l] : \A k \in Keys : t.data[k] > 0 =>
         /\ value[t.data[k]] <= LogEnd
         /\ value[t.data[k]] > 0 => log[value[t.data[k]]] = k
  <2>1. IF imm = <<>> THEN Count <= LogEnd ELSE imm[1].log_offset <= LogEnd
    BY Zenon, <1>4
  <2> QED BY <1>4, <1>10, <2>1 DEF Inv, StoreInv, TablesPlaced
<1>13. \A l, m \in Level : \A s \in tables[l], t \in tables[m] : \A k \in Keys :
         s.data[k] > 0 /\ s.data[k] <= t.data[k] =>
           value[s.data[k]] <= value[t.data[k]]
  BY Zenon DEF Inv, StoreInv, TablesPlaced
<1>14. TablesPlaced'
  <2>1. \A l \in Level : \A t \in tables'[l] : \A k \in Keys : t.data[k] > 0 =>
          /\ value'[t.data[k]] <= LogEnd
          /\ value'[t.data[k]] > 0 => log[value'[t.data[k]]] = k
    BY <1>9, <1>11, <1>12
  <2>2. ASSUME NEW l \in Level, NEW m \in Level, NEW s \in tables'[l],
               NEW t \in tables'[m], NEW k \in Keys,
               s.data[k] > 0, s.data[k] <= t.data[k]
        PROVE  value'[s.data[k]] <= value'[t.data[k]]
    <3>1. t.data[k] > 0
      BY <1>9, <1>10, <2>2
    <3> QED BY Zenon, <1>9, <1>11, <1>13, <2>2, <3>1
  <2> QED BY <1>1, <1>5, <2>1, <2>2 DEF TablesPlaced
<1>15. Durable'
  <2>1. ASSUME NEW k \in Keys,
               \E l \in Level : \E t \in tables[l] :
                 /\ t.id \in manifest[l] /\ t.data[k] > 0
                 /\ \A j \in value[t.data[k]] + 1 .. log_offset : log[j] # k
        PROVE  \E l \in Level : \E t \in tables'[l] :
                 /\ t.id \in manifest[l] /\ t.data[k] > 0
                 /\ \A j \in value'[t.data[k]] + 1 .. log_offset : log[j] # k
    BY Zenon, <1>9, <1>11, <2>1
  <2>2. \A k \in Keys :
          \/ \A j \in 1 .. log_offset : log[j] # k
          \/ \E l \in Level : \E t \in tables[l] :
               /\ t.id \in manifest[l] /\ t.data[k] > 0
               /\ \A j \in value[t.data[k]] + 1 .. log_offset : log[j] # k
    BY Zenon, <1>1 DEF Inv, StoreInv, Durable
  <2> QED BY <1>1, <2>1, <2>2 DEF Durable
<1>16. ASSUME NEW k \in Keys PROVE IsLast(View(k), Count, k)'
  <2>1. CASE Last(b, k) > 0
    <3> DEFINE p == log_offset + Last(b, k)
    <3>1. Last(b, k) \in 1 .. n
      BY <1>4, <1>7, <2>1
    <3>2. ViewSeq(k)' = seq_offset + Last(b, k) - 1 /\ seq_offset + Last(b, k) - 1 > 0
      <4>1. writer'.taken[k] = 0 /\ memtable'[k] = seq_offset + Last(b, k) - 1
        BY Zenon, <1>2, <1>6, <2>1
      <4>2. seq_offset + Last(b, k) - 1 > 0 /\ ~(0 > 0)
        BY <1>4, <1>8, <3>1
      <4> QED BY Zenon, <4>1, <4>2, ViewSeqCasesNext
    <3>3. View(k)' = p
      <4>1. value'[seq_offset + Last(b, k) - 1] = p
        BY Zenon, <1>6, <3>1
      <4> QED BY <3>2, <4>1 DEF View, ValueOf
    <3>4. p \in 0 .. LogEnd /\ log[p] = k
      <4>1. log[p] = b[Last(b, k)] /\ b[Last(b, k)] = k
        BY Zenon, <1>6, <1>7, <2>1, <3>1
      <4>2. p \in 0 .. LogEnd
        BY <1>4, <3>1 DEF n
      <4> QED BY Zenon, <4>1, <4>2
    <3>5. ASSUME NEW j \in p + 1 .. LogEnd PROVE log[j] # k
      <4>1. /\ j - log_offset \in 1 .. n /\ log_offset + (j - log_offset) = j
            /\ ~(j - log_offset <= Last(b, k))
        BY <1>4, <3>1 DEF n
      <4>2. log[j] = b[j - log_offset]
        BY Zenon, <1>6, <4>1
      <4> QED BY Zenon, <1>7, <4>1, <4>2
    <3> HIDE DEF p
    <3> QED BY Zenon, <1>1, <1>5, <3>3, <3>4, <3>5 DEF IsLast
  <2>2. CASE ~(Last(b, k) > 0)
    <3> DEFINE x == TablesSeq(k)'
    <3>1. /\ x \in Nat
          /\ \A l \in Level : \A t \in tables'[l] : t.data[k] \in Nat /\ t.data[k] <= x
          /\ x > 0 => \E l \in Level : \E t \in tables'[l] : t.data[k] = x
      BY Zenon, TablesSeqNewestNext DEF LevelsInv, TablesNewest
    <3>2. ViewSeq(k)' = x
      BY <1>1, <1>2, <1>6, <2>2, ViewSeqCasesNext DEF LowerSeq
    <3>3. \A j \in log_offset + 1 .. LogEnd : log[j] # k
      <4> SUFFICES ASSUME NEW j \in log_offset + 1 .. LogEnd PROVE log[j] # k
        BY Zenon
      <4>1. j - log_offset \in 1 .. n /\ log_offset + (j - log_offset) = j
        BY <1>4 DEF n
      <4>2. log[j] = b[j - log_offset]
        BY Zenon, <1>6, <4>1
      <4>3. b[j - log_offset] # k
        BY <1>4, <1>7, <2>2, <4>1
      <4> QED BY Zenon, <4>2, <4>3
    <3>4. \/ \A j \in 1 .. log_offset : log[j] # k
          \/ \E l \in Level : \E t \in tables[l] :
               /\ t.id \in manifest[l] /\ t.data[k] > 0
               /\ \A j \in value[t.data[k]] + 1 .. log_offset : log[j] # k
      BY Zenon, <1>1 DEF Inv, StoreInv, Durable
    <3> HIDE DEF x
    <3>5. CASE x = 0
      <4>1. View(k)' = 0
        BY Zenon, <3>2, <3>5 DEF View, ValueOf
      <4>2. \A j \in 1 .. log_offset : log[j] # k
        BY <1>9, <1>10, <3>1, <3>4, <3>5
      <4>3. \A j \in 0 + 1 .. LogEnd : log[j] # k
        BY <1>4, <3>3, <4>2
      <4> QED BY <1>1, <1>4, <1>5, <4>1, <4>3 DEF IsLast
    <3>6. CASE x # 0
      <4>1. PICK l \in Level : \E t \in tables'[l] : t.data[k] = x
        BY <3>1, <3>6
      <4>2. PICK t \in tables'[l] : t.data[k] = x
        BY Zenon, <4>1
      <4>3. x > 0 /\ t \in tables[l] /\ value'[x] = value[x]
        BY <1>9, <1>11, <3>1, <3>6, <4>2
      <4> DEFINE p == value[x]
      <4>4. View(k)' = p
        BY Zenon, <3>2, <3>6, <4>3 DEF View, ValueOf
      <4>5. p \in Nat /\ p <= LogEnd /\ (p > 0 => log[p] = k)
        BY Zenon, <1>10, <1>12, <4>2, <4>3
      <4>6. \A j \in p + 1 .. log_offset : log[j] # k
        <5>1. CASE \A j \in 1 .. log_offset : log[j] # k
          BY <4>5, <5>1
        <5>2. CASE \E m \in Level : \E u \in tables[m] :
                     /\ u.id \in manifest[m] /\ u.data[k] > 0
                     /\ \A j \in value[u.data[k]] + 1 .. log_offset : log[j] # k
          <6>1. PICK m \in Level : \E u \in tables[m] :
                  /\ u.id \in manifest[m] /\ u.data[k] > 0
                  /\ \A j \in value[u.data[k]] + 1 .. log_offset : log[j] # k
            BY Zenon, <5>2
          <6>2. PICK u \in tables[m] :
                  /\ u.id \in manifest[m] /\ u.data[k] > 0
                  /\ \A j \in value[u.data[k]] + 1 .. log_offset : log[j] # k
            BY Zenon, <6>1
          <6>3. u.data[k] <= t.data[k]
            BY Zenon, <1>9, <3>1, <4>2, <6>2
          <6>4. value[u.data[k]] <= p /\ value[u.data[k]] \in Nat
            BY Zenon, <1>10, <1>13, <4>2, <4>3, <6>2, <6>3
          <6> HIDE DEF p
          <6> QED BY <1>4, <4>5, <6>2, <6>4
        <5> QED BY Zenon, <3>4, <5>1, <5>2
      <4> HIDE DEF p
      <4>7. \A j \in p + 1 .. LogEnd : log[j] # k
        BY <1>4, <3>3, <4>5, <4>6
      <4>8. p \in 0 .. LogEnd
        BY <1>4, <4>5
      <4> QED BY Zenon, <1>1, <1>5, <4>4, <4>5, <4>7, <4>8 DEF IsLast
    <3> QED BY Zenon, <3>5, <3>6
  <2> QED BY Zenon, <2>1, <2>2
<1>17. ViewIsLast'
  BY Zenon, <1>1, <1>16 DEF ViewIsLast
<1>18. BatchLogged'
  BY <1>2, <1>3 DEF BatchLogged
<1>19. Flushed' /\ ReadersSee'
  BY Zenon, <1>1, <1>2 DEF Flushed, ReadersSee, Searches
<1> QED BY Zenon, <1>5, <1>14, <1>15, <1>17, <1>18, <1>19 DEF StoreInv
-----------------------------------------------------------------------------
(* The steps of a get.                                                      *)

\* A get returns a value its key had since it began, and no other.
GetEnds(r) ==
  /\ reader[r].pc # "idle"
  /\ \E v \in seen[r] : Found(r, v)
  /\ seen' = [seen EXCEPT ![r] = {}]

\* A get goes on to the next place to look into.
GetGoesOn(r) ==
  /\ reader[r].pc # "idle"
  /\ \E pc \in Searches, l \in Level : Searching(r, pc, l)
  /\ seen' = seen

\* A step of a get changes only what this get may return.
LEMMA GetStore ==
  ASSUME Inv, UNCHANGED <<tables, memtable, imm, value, log, writer>>,
         UNCHANGED <<trim, flush, manifest, task, log_offset>>,
         NEW r \in Readers,
         \A q \in Readers \ {r} : reader'[q] = reader[q] /\ seen'[q] = seen[q],
         \A pc \in Searches, l \in Level, k \in Keys :
           reader'[r].pc = pc /\ reader'[r].level = l /\ reader'[r].key = k =>
             reader'[r].got = 0 /\ GetSees(pc, l, k, r)'
  PROVE  StoreInv' /\ \A k \in Keys : View(k)' = View(k)
<1>1. /\ Count' = Count /\ \A j \in 1 .. LogEnd : log'[j] = log[j]
      /\ BatchLogged' /\ writer'.taken = writer.taken
  BY Zenon, SameLog
<1>2. ViewIsLast' /\ TablesPlaced'
  BY Zenon, <1>1, LogGrows
<1>3. Durable'
  BY Zenon, <1>1, SameDurable DEF NoPanic
<1>4. Flushed'
  BY Zenon, SameTables DEF Inv, StoreInv, Flushed
<1>5. ASSUME NEW q \in Readers, NEW pc \in Searches, NEW l \in Level, NEW k \in Keys,
             reader'[q].pc = pc, reader'[q].level = l, reader'[q].key = k
      PROVE  reader'[q].got = 0 /\ GetSees(pc, l, k, q)'
  <2>1. CASE q = r
    BY Zenon, <1>5, <2>1
  <2>2. CASE q # r
    <3>1. reader[q].got = 0 /\ GetSees(pc, l, k, q)
      BY Zenon, <1>5, <2>2 DEF Inv, StoreInv, ReadersSee
    <3> QED BY Zenon, <1>1, <2>2, <3>1, SameGet
  <2> QED BY Zenon, <2>1, <2>2
<1>6. ReadersSee'
  BY Zenon, <1>5 DEF ReadersSee
<1>7. \A k \in Keys : View(k)' = View(k)
  BY Zenon, <1>1, SameTables, SameView
<1> QED BY Zenon, <1>1, <1>2, <1>3, <1>4, <1>6, <1>7 DEF StoreInv

\* A get that returns, and one that goes on with what it may still find.
LEMMA GetMoves ==
  ASSUME Inv, UNCHANGED <<tables, memtable, imm, value, log, writer>>,
         UNCHANGED <<trim, flush, manifest, task, log_offset>>,
         NEW r \in Readers, NEW k \in Keys, k = reader[r].key,
         \/ GetEnds(r)
         \/ /\ reader[r].pc # "idle" /\ seen' = seen
            /\ \E pc \in Searches, l \in Level :
                 Searching(r, pc, l) /\ GetSees(pc, l, k, r)
  PROVE  /\ StoreInv' /\ \A j \in Keys : View(j)' = View(j)
         /\ GetEnds(r) \/ GetGoesOn(r)
<1>1. reader \in [Readers -> Reader] /\ seen \in [Readers -> SUBSET Nat]
  BY Zenon DEF Inv, DbInv, DbTypeOK
<1>2. CASE GetEnds(r)
  <2>1. /\ \A q \in Readers \ {r} : reader'[q] = reader[q] /\ seen'[q] = seen[q]
        /\ reader'[r].pc = "idle"
    BY <1>1, <1>2 DEF GetEnds, Found
  <2>2. "idle" \notin Searches
    BY Zenon DEF Searches
  <2> QED BY Zenon, <1>2, <2>1, <2>2, GetStore
<1>3. CASE /\ reader[r].pc # "idle" /\ seen' = seen
           /\ \E pc \in Searches, l \in Level :
                Searching(r, pc, l) /\ GetSees(pc, l, k, r)
  <2>1. PICK pc \in Searches, l \in Level : Searching(r, pc, l) /\ GetSees(pc, l, k, r)
    BY Zenon, <1>3
  <2>2. /\ \A q \in Readers \ {r} : reader'[q] = reader[q] /\ seen'[q] = seen[q]
        /\ reader'[r].pc = pc /\ reader'[r].level = l /\ reader'[r].key = k
        /\ reader'[r].got = 0
    BY Zenon, <1>1, <1>3, <2>1 DEF Searching
  <2>3. GetSees(pc, l, k, r)'
    BY Zenon, <1>3, <2>1, SameGet
  <2>4. StoreInv' /\ \A j \in Keys : View(j)' = View(j)
    BY Zenon, <2>2, <2>3, GetStore
  <2> QED BY Zenon, <1>3, <2>1, <2>4 DEF GetGoesOn
<1> QED BY Zenon, <1>2, <1>3

\* A get that begins may return what its key is then.
LEMMA GetBeginStore ==
  ASSUME Inv, NEW r \in Readers, NEW k \in Keys, GetBegin(r, k)
  PROVE  StoreInv' /\ \A j \in Keys : View(j)' = View(j)
<1>1. /\ UNCHANGED <<tables, memtable, imm, value, log, writer>>
      /\ UNCHANGED <<trim, flush, manifest, task, log_offset>>
  BY Zenon DEF GetBegin, levelVars
<1>2. reader \in [Readers -> Reader] /\ seen \in [Readers -> SUBSET Nat]
  BY Zenon DEF Inv, DbInv, DbTypeOK
<1>3. /\ \A q \in Readers \ {r} : reader'[q] = reader[q] /\ seen'[q] = seen[q]
      /\ reader'[r].pc = "memtable" /\ reader'[r].key = k /\ reader'[r].got = 0
      /\ seen'[r] = {View(k)}
  BY Zenon, <1>2 DEF GetBegin
<1>4. View(k)' = View(k)
  BY Zenon, <1>1, SameTables, SameView
<1>5. \A l \in Level : GetSees("memtable", l, k, r)'
  BY Zenon, <1>3, <1>4 DEF GetSees
<1> QED BY Zenon, <1>1, <1>3, <1>5, GetStore

\* The key a get asks for, and what it may find.
LEMMA GetKnows ==
  ASSUME Inv, NEW r \in Readers, reader[r].pc # "idle"
  PROVE  \E l \in Level, k \in Keys :
           /\ reader[r].level = l /\ reader[r].key = k
           /\ GetSees(reader[r].pc, l, k, r)
<1>1. reader[r] \in Reader /\ reader[r].key \in Keys
  BY Zenon DEF Inv, DbInv, DbTypeOK, ValuesKnown
<1>2. reader[r].pc \in Searches /\ reader[r].level \in Level
  BY Zenon, <1>1 DEF Reader, Searches
<1> QED BY Zenon, <1>1, <1>2 DEF Inv, StoreInv, ReadersSee
\* A get looks into the memtable, which no writer holds at that moment.
LEMMA GetMemtableStore ==
  ASSUME Inv, NEW r \in Readers, GetMemtable(r)
  PROVE  /\ StoreInv' /\ \A k \in Keys : View(k)' = View(k)
         /\ GetEnds(r) \/ GetGoesOn(r)
<1>1. /\ UNCHANGED <<tables, memtable, imm, value, log, writer>>
      /\ UNCHANGED <<trim, flush, manifest, task, log_offset>>
      /\ reader[r].pc = "memtable" /\ writer.pc = "idle"
  BY Zenon DEF GetMemtable, levelVars
<1>2. PICK l \in Level, k \in Keys :
        reader[r].level = l /\ reader[r].key = k /\ GetSees("memtable", l, k, r)
  BY Zenon, <1>1, GetKnows
<1>3. writer.taken[k] = 0 /\ memtable[k] \in Nat
  BY Zenon, <1>1, EntriesValued DEF Inv, StoreInv, BatchLogged
<1>4. View(k) \in seen[r]
  BY Zenon, <1>2 DEF GetSees
<1>5. CASE memtable[k] > 0
  <2>1. View(k) = value[memtable[k]]
    BY <1>3, <1>5, ViewSeqCases DEF View, ValueOf
  <2>2. GetEnds(r)
    BY Zenon, <1>1, <1>2, <1>4, <1>5, <2>1 DEF GetMemtable, GetEnds
  <2> QED BY Zenon, <1>1, <1>2, <2>2, GetMoves
<1>6. CASE ~(memtable[k] > 0)
  <2>1. View(k) = ValueOf(LowerSeq(k))
    BY <1>3, <1>6, ViewSeqCases DEF View
  <2>2. GetSees("imm", 0, k, r)
    BY <1>3, <1>4, <1>6, <2>1 DEF GetSees
  <2>3. Searching(r, "imm", 0) /\ seen' = seen
    BY Zenon, <1>1, <1>2, <1>6 DEF GetMemtable
  <2>4. "imm" \in Searches /\ 0 \in Level
    BY Zenon, LevelFacts DEF Searches
  <2> QED BY Zenon, <1>1, <1>2, <2>2, <2>3, <2>4, GetMoves
<1> QED BY Zenon, <1>5, <1>6

\* A get looks into the immutable memtable, and goes on with level 0.
LEMMA GetImmStore ==
  ASSUME Inv, NEW r \in Readers, GetImm(r)
  PROVE  /\ StoreInv' /\ \A k \in Keys : View(k)' = View(k)
         /\ GetEnds(r) \/ GetGoesOn(r)
<1>1. /\ UNCHANGED <<tables, memtable, imm, value, log, writer>>
      /\ UNCHANGED <<trim, flush, manifest, task, log_offset>>
      /\ reader[r].pc = "imm"
  BY Zenon DEF GetImm, levelVars
<1>2. PICK l \in Level, k \in Keys :
        reader[r].level = l /\ reader[r].key = k /\ GetSees("imm", l, k, r)
  BY Zenon, <1>1, GetKnows
<1>3. /\ View(k) \in seen[r] /\ ValueOf(LowerSeq(k)) \in seen[r]
      /\ writer.taken[k] > 0 => value[writer.taken[k]] \in seen[r]
      /\ memtable[k] > 0 => value[memtable[k]] \in seen[r]
  BY Zenon, <1>2 DEF GetSees
<1>4. CASE imm # <<>> /\ imm[1].data[k] > 0
  <2>1. imm[1].data[k] # 0
    BY <1>4, EntriesValued DEF Inv
  <2>2. ValueOf(LowerSeq(k)) = value[imm[1].data[k]]
    BY Zenon, <1>4, <2>1 DEF ValueOf, LowerSeq
  <2>3. GetEnds(r)
    BY Zenon, <1>1, <1>2, <1>3, <1>4, <2>2 DEF GetImm, GetEnds
  <2> QED BY Zenon, <1>1, <1>2, <2>3, GetMoves
<1>5. CASE ~(imm # <<>> /\ imm[1].data[k] > 0)
  <2> DEFINE x == TablesSeq(k)
  <2>1. ValueOf(x) \in seen[r]
    BY Zenon, <1>3, <1>5 DEF LowerSeq
  <2>2. /\ x \in Nat
        /\ \A n \in Level : \A u \in tables[n] : u.data[k] \in Nat /\ u.data[k] <= x
        /\ x > 0 => \E m \in Level : \E t \in tables[m] : t.data[k] = x
    BY Zenon, TablesSeqNewest DEF Inv, LevelsInv, TablesNewest
  <2> HIDE DEF x
  <2>3. Covered(0, k, r)
    <3>1. CASE x = 0
      <4>1. 0 \in seen[r]
        BY Zenon, <2>1, <3>1 DEF ValueOf
      <4>2. \A n \in Level : \A u \in tables[n] : ~(u.data[k] > 0)
        BY <2>2, <3>1
      <4> QED BY Zenon, <4>1, <4>2 DEF Covered
    <3>2. CASE x # 0
      <4>1. PICK m \in Level : \E t \in tables[m] : t.data[k] = x
        BY <2>2, <3>2
      <4>2. PICK t \in tables[m] : t.data[k] = x
        BY Zenon, <4>1
      <4>3. \A n \in Level : \A u \in tables[n] : t.data[k] <= u.data[k] => u.data[k] = x
        BY <2>2, <4>2
      <4>4. value[x] \in seen[r] /\ t.data[k] > 0 /\ 0 <= m
        BY <2>1, <2>2, <3>2, <4>2, LevelFacts DEF ValueOf
      <4> QED BY Zenon, <4>3, <4>4 DEF Covered
    <3> QED BY Zenon, <3>1, <3>2
  <2>4. GetSees("level", 0, k, r)
    BY Zenon, <1>3, <1>5, <2>3 DEF GetSees
  <2>5. Searching(r, "level", 0) /\ seen' = seen
    BY <1>1, <1>2, <1>5 DEF GetImm
  <2>6. "level" \in Searches /\ 0 \in Level
    BY Zenon, LevelFacts DEF Searches
  <2> QED BY Zenon, <1>1, <1>2, <2>4, <2>5, <2>6, GetMoves
<1> QED BY Zenon, <1>4, <1>5

\* A get searches a level, and goes on with the next one.
LEMMA GetLevelStore ==
  ASSUME Inv, NEW r \in Readers, GetLevel(r)
  PROVE  /\ StoreInv' /\ \A k \in Keys : View(k)' = View(k)
         /\ GetEnds(r) \/ GetGoesOn(r)
<1>1. /\ UNCHANGED <<tables, memtable, imm, value, log, writer>>
      /\ UNCHANGED <<trim, flush, manifest, task, log_offset>>
      /\ reader[r].pc = "level"
  BY Zenon DEF GetLevel, levelVars, TriggerSeek
<1>2. PICK l \in Level, k \in Keys :
        reader[r].level = l /\ reader[r].key = k /\ GetSees("level", l, k, r)
  BY Zenon, <1>1, GetKnows
<1>3. Covered(l, k, r) /\ GetSees("level", l, k, r)
  BY Zenon, <1>2 DEF GetSees
<1>4. \A n \in Level : \A u \in tables[n] : u.data[k] \in Nat
  BY Zenon, EntriesValued DEF Inv
<1>5. l \in Nat /\ l < NumLevels /\ \A m \in Level : m \in Nat /\ m < NumLevels
  BY ConstantsAssumption DEF Level
<1>6. CASE /\ \E t \in Holding(l, k) :
                /\ l = 0 => \A s \in Holding(l, k) : s.id <= t.id
                /\ Found(r, value[t.data[k]])
           /\ seen' = [seen EXCEPT ![r] = {}]
  <2>1. PICK t \in Holding(l, k) : /\ l = 0 => \A s \in Holding(l, k) : s.id <= t.id
                                   /\ Found(r, value[t.data[k]])
    BY Zenon, <1>6
  <2>2. l = 0 => \A s \in Holding(0, k) : s.id <= t.id
    BY Zenon, <2>1
  <2>3. t \in tables[l] /\ t.data[k] > 0
    BY Zenon, <2>1 DEF Holding
  <2>4. \A m \in Level : \A s \in tables[m] : l <= m => s.data[k] <= t.data[k]
    BY Zenon, <2>2, <2>3, FirstHitNewest DEF Inv, LevelsInv
  <2>5. value[t.data[k]] \in seen[r]
    BY Zenon, <1>3, <2>3, <2>4 DEF Covered
  <2>6. GetEnds(r)
    BY Zenon, <1>1, <1>6, <2>1, <2>5 DEF GetEnds
  <2> QED BY Zenon, <1>1, <1>2, <2>6, GetMoves
<1>7. CASE Holding(l, k) = {} /\ ~LastLevel(l) /\ Searching(r, "level", l + 1) /\ seen' = seen
  <2>1. \A m \in Level : \A t \in tables[m] : l <= m /\ t.data[k] > 0 => l + 1 <= m
    <3>1. \A t \in tables[l] : ~(t.data[k] > 0)
      BY Zenon, <1>7 DEF Holding
    <3> QED BY <1>5, <3>1
  <2>2. Covered(l + 1, k, r)
    BY Zenon, <1>3, <2>1 DEF Covered
  <2>3. GetSees("level", l + 1, k, r)
    BY Zenon, <1>3, <2>2 DEF GetSees
  <2>4. "level" \in Searches /\ l + 1 \in Level
    BY <1>5, <1>7, LevelFacts, ConstantsAssumption DEF Searches, LastLevel
  <2> QED BY Zenon, <1>1, <1>2, <1>7, <2>3, <2>4, GetMoves
<1>8. CASE Holding(l, k) = {} /\ LastLevel(l) /\ Found(r, 0) /\ seen' = [seen EXCEPT ![r] = {}]
  <2>1. \A m \in Level : \A t \in tables[m] : ~(l <= m /\ t.data[k] > 0)
    <3>1. \A m \in Level : l <= m => m = l
      BY <1>5, <1>8, ConstantsAssumption DEF LastLevel
    <3> QED BY Zenon, <1>8, <3>1 DEF Holding
  <2>2. 0 \in seen[r]
    BY Zenon, <1>3, <2>1 DEF Covered
  <2>3. GetEnds(r)
    BY Zenon, <1>1, <1>8, <2>2 DEF GetEnds
  <2> QED BY Zenon, <1>1, <1>2, <2>3, GetMoves
<1>9. \/ /\ \E t \in Holding(l, k) :
              /\ l = 0 => \A s \in Holding(l, k) : s.id <= t.id
              /\ Found(r, value[t.data[k]])
         /\ seen' = [seen EXCEPT ![r] = {}]
      \/ Holding(l, k) = {} /\ ~LastLevel(l) /\ Searching(r, "level", l + 1) /\ seen' = seen
      \/ Holding(l, k) = {} /\ LastLevel(l) /\ Found(r, 0) /\ seen' = [seen EXCEPT ![r] = {}]
  BY Zenon, <1>2 DEF GetLevel
<1> QED BY Zenon, <1>6, <1>7, <1>8, <1>9
-----------------------------------------------------------------------------
(* The invariant holds at the beginning and is kept.                        *)

\* A database that has just been created has no entries.
LEMMA StoreInit ==
  ASSUME DbInit
  PROVE  Inv /\ \A k \in Keys : View(k) = 0
<1>1. DbInv /\ LevelsInv
  <2>1. Init => ManifestInv
    BY LevelFacts DEF Init, ManifestInv, NoFlush, Ids
  <2> QED BY Zenon, <2>1, OwnershipInit, OrderInit, DbInitInv DEF LevelsInv, DbInit
<1>2. /\ \A l \in Level : tables[l] = {}
      /\ flush.pc = "idle" /\ trim = "idle" /\ imm = <<>> /\ next_seq = 1
      /\ log_offset = 0 /\ Len(log) = 0 /\ writer = NoWriter
      /\ \A r \in Readers : reader[r] = NotReading
  BY Zenon DEF DbInit, Init, NoFlush
<1>3. /\ writer.batch = <<>> /\ writer.left = <<>> /\ NotReading.pc = "idle"
      /\ \A k \in Keys : writer.taken[k] = 0
  BY Zenon, <1>2, EmptyFacts DEF NoWriter, NotReading
<1>4. Count = 0 /\ BatchLen = 0 /\ LeftLen = 0
  BY <1>2, <1>3 DEF Count, LogEnd, BatchLen, LeftLen
<1>5. \A k \in Keys : View(k) = 0
  <2>1. \A k \in Keys : ViewSeq(k) \in Nat /\ ViewSeq(k) < 1
    BY Zenon, <1>1, <1>2, SeqBounds
  <2> QED BY <2>1 DEF View, ValueOf
<1>6. BatchLogged /\ ViewIsLast
  BY <1>2, <1>3, <1>4, <1>5 DEF BatchLogged, ViewIsLast, IsLast
<1>7. TablesPlaced /\ Durable
  BY <1>2 DEF TablesPlaced, Durable
<1>8. Flushed /\ ReadersSee
  BY Zenon, <1>2, <1>3 DEF Flushed, ReadersSee, Searches
<1> QED BY Zenon, <1>1, <1>5, <1>6, <1>7, <1>8 DEF Inv, StoreInv

\* The invariant of the levels is kept by the steps of the store.
LEMMA LevelsKept ==
  ASSUME Inv, [DbNext]_<<levelVars, dbVars>>
  PROVE  DbInv' /\ LevelsInv'
BY Zenon, DbStep, OwnershipStep, ManifestStep, OrderStep DEF Inv, LevelsInv

-----------------------------------------------------------------------------
(* Each step of the store is one of the map, or none.                       *)

\* The map as the store has it.
Stored == [k \in Keys |-> View(k)]
Busy(r) == reader[r].pc # "idle"
ReadingOf == [r \in Readers |-> [busy |-> Busy(r), key |-> reader[r].key,
                                 seen |-> seen[r]]]
GotOf == [r \in Readers |-> reader[r].got]

\* The operations that took effect are counted alike.
LEMMA CountMapped == Len(log) - Logged = Count
BY Zenon DEF Count, Logged, LogEnd, BatchLen, LeftLen

\* A step that a caller does not see.
LEMMA KVQuiet ==
  ASSUME \A k \in Keys : View(k)' = View(k), Count' = Count,
         writer'.batch = writer.batch, ReadingOf' = ReadingOf, GotOf' = GotOf
  PROVE  UNCHANGED KV!kvVars
<1>1. Stored' = Stored
  BY Zenon DEF Stored
<1>2. Count' = (Len(log) - Logged)'
  BY Zenon, CountMapped DEF Count, Logged, LogEnd, BatchLen, LeftLen
<1>3. Count = Len(log) - Logged
  BY Zenon, CountMapped
<1> QED BY Zenon, <1>1, <1>2, <1>3 DEF KV!kvVars, Stored, ReadingOf, GotOf, Busy
\* The counters of a state agree with those of the map in the next one, too.
LEMMA CountMappedNext == Len(log') - Logged' = Count'
BY Zenon DEF Count, Logged, LogEnd, BatchLen, LeftLen

\* The steps of the log, the flush and the compactions are not seen.
LEMMA HiddenSteps ==
  ASSUME Inv, \A k \in Keys : View(k)' = View(k), UNCHANGED <<reader, seen>>,
         \/ LogRecord \/ PushImm
         \/ UNCHANGED <<log, writer>>
  PROVE  UNCHANGED KV!kvVars
<1>1. ReadingOf' = ReadingOf /\ GotOf' = GotOf
  BY Zenon DEF ReadingOf, GotOf, Busy
<1>2. Count' = Count /\ writer'.batch = writer.batch
  <2>1. CASE LogRecord
    <3>1. /\ writer' = [writer EXCEPT !.left = Tail(@)] /\ writer.left # <<>>
          /\ log' = Append(log, Head(writer.left))
      BY Zenon, <2>1 DEF LogRecord
    <3>2. writer'.batch = writer.batch /\ writer'.left = Tail(writer.left)
      BY Zenon, <3>1 DEF Inv, DbInv, DbTypeOK, Writer
    <3>3. log \in Seq(Keys) /\ writer.left \in Seq(Keys)
      BY Zenon, WriterFacts DEF Inv, DbInv, DbTypeOK
    <3>4. LogEnd' = LogEnd + 1
      BY <3>1, <3>3 DEF LogEnd
    <3>5. LeftLen' = LeftLen - 1 /\ BatchLen' = BatchLen
      BY <3>1, <3>2, <3>3 DEF LeftLen, BatchLen
    <3> QED BY <3>2, <3>4, <3>5, PositionsNat DEF Count, Inv
  <2>2. CASE PushImm
    <3>1. writer.batch = <<>> /\ writer.left = <<>> /\ log' = log /\ writer' = NoWriter
      BY Zenon, <2>2 DEF PushImm, Inv, DbInv, WriterProgress
    <3>2. writer'.batch = <<>> /\ writer'.left = <<>>
      BY Zenon, <3>1 DEF NoWriter
    <3> QED BY Zenon, <3>1, <3>2 DEF Count, LogEnd, LeftLen, BatchLen
  <2>3. CASE UNCHANGED <<log, writer>>
    BY Zenon, <2>3 DEF Count, LogEnd, LeftLen, BatchLen
  <2> QED BY Zenon, <2>1, <2>2, <2>3
<1> QED BY Zenon, <1>1, <1>2, KVQuiet

\* write_opts begins.
LEMMA WriteBeginMapped ==
  ASSUME Inv, NEW b \in Batches, WriteBegin(b), \A k \in Keys : View(k)' = View(k)
  PROVE  KV!Write
<1>1. b \in Seq(Keys) /\ b # <<>>
  <2>1. PICK n \in 1 .. MaxWrites : b \in [1 .. n -> Keys]
    BY Zenon DEF Batches
  <2> QED BY <2>1, DbAssumption
<1>2. /\ writer.batch = <<>> /\ writer.left = <<>> /\ writer'.batch = b
      /\ writer'.left = b /\ UNCHANGED <<log, reader, seen>>
  BY Zenon DEF WriteBegin, Inv, DbInv, WriterProgress
<1>3. ReadingOf' = ReadingOf /\ GotOf' = GotOf /\ Stored' = Stored
  BY Zenon, <1>2 DEF ReadingOf, GotOf, Busy, Stored
<1>4. Len(log') - Logged' = Len(log) - Logged
  BY <1>1, <1>2 DEF Logged
<1> QED BY Zenon, <1>1, <1>2, <1>3, <1>4 DEF KV!Write, ReadingOf, GotOf, Busy, Stored

\* A get begins.
LEMMA GetBeginMapped ==
  ASSUME Inv, NEW r \in Readers, NEW k \in Keys, GetBegin(r, k),
         \A j \in Keys : View(j)' = View(j)
  PROVE  KV!Begin(r, k)
<1>1. reader \in [Readers -> Reader] /\ seen \in [Readers -> SUBSET Nat]
  BY Zenon DEF Inv, DbInv, DbTypeOK
<1>2. /\ UNCHANGED <<log, writer>> /\ ~Busy(r)
      /\ \A q \in Readers \ {r} : reader'[q] = reader[q] /\ seen'[q] = seen[q]
      /\ reader'[r].pc = "memtable" /\ reader'[r].key = k /\ reader'[r].got = 0
      /\ seen'[r] = {View(k)}
  BY Zenon, <1>1 DEF GetBegin, Busy
<1>3. Stored' = Stored /\ Stored[k] = View(k)
  BY Zenon DEF Stored
<1>4. ReadingOf' = [ReadingOf EXCEPT ![r] =
                      [busy |-> TRUE, key |-> k, seen |-> {Stored[k]}]]
  <2> DEFINE R(q) == [busy |-> Busy(q), key |-> reader[q].key, seen |-> seen[q]]
             new == [busy |-> TRUE, key |-> k, seen |-> {Stored[k]}]
  <2>1. Busy(r)' = TRUE /\ R(r)' = new
    BY Zenon, <1>2, <1>3 DEF Busy
  <2>2. \A q \in Readers \ {r} : R(q)' = R(q)
    BY Zenon, <1>2 DEF Busy
  <2>3. ReadingOf = [q \in Readers |-> R(q)] /\ ReadingOf' = [q \in Readers |-> R(q)']
    BY Zenon DEF ReadingOf
  <2> HIDE DEF R, new
  <2>4. [[q \in Readers |-> R(q)] EXCEPT ![r] = new]
          = [q \in Readers |-> IF q = r THEN new ELSE R(q)]
    BY Zenon
  <2>5. \A q \in Readers : R(q)' = IF q = r THEN new ELSE R(q)
    BY Zenon, <2>1, <2>2
  <2>6. [q \in Readers |-> R(q)'] = [q \in Readers |-> IF q = r THEN new ELSE R(q)]
    BY Zenon, <2>5
  <2> QED BY Zenon, <2>3, <2>4, <2>6 DEF new
<1>5. GotOf' = [GotOf EXCEPT ![r] = 0]
  BY Zenon, <1>2 DEF GotOf
<1>6. Len(log') - Logged' = Len(log) - Logged
  BY Zenon, <1>2 DEF Logged
<1>7. ~ReadingOf[r].busy
  BY Zenon, <1>2 DEF ReadingOf
<1> QED BY Zenon, <1>2, <1>3, <1>4, <1>5, <1>6, <1>7
        DEF KV!Begin, ReadingOf, GotOf, Busy, Stored
\* A get goes on.
LEMMA GetGoesOnMapped ==
  ASSUME Inv, NEW r \in Readers, GetGoesOn(r), UNCHANGED <<log, writer>>,
         \A j \in Keys : View(j)' = View(j)
  PROVE  UNCHANGED KV!kvVars
<1>1. reader \in [Readers -> Reader] /\ seen' = seen /\ Busy(r)
  BY Zenon DEF Inv, DbInv, DbTypeOK, GetGoesOn, Busy
<1>2. PICK pc \in Searches, l \in Level : Searching(r, pc, l)
  BY Zenon DEF GetGoesOn
<1>3. /\ \A q \in Readers \ {r} : reader'[q] = reader[q]
      /\ reader'[r].pc = pc /\ reader'[r].key = reader[r].key /\ reader'[r].got = 0
  BY Zenon, <1>1, <1>2 DEF Searching
<1>4. reader[r].got = 0
  <2>1. reader[r] \in Reader /\ reader[r].key \in Keys
    BY Zenon, <1>1 DEF Inv, DbInv, ValuesKnown, Busy
  <2>2. reader[r].pc \in Searches /\ reader[r].level \in Level
    BY Zenon, <1>1, <2>1 DEF Reader, Searches, Busy
  <2> QED BY Zenon, <2>1, <2>2 DEF Inv, StoreInv, ReadersSee
<1>5. pc # "idle"
  BY Zenon DEF Searches
<1>6. \A q \in Readers : /\ (reader'[q].pc # "idle") <=> (reader[q].pc # "idle")
                         /\ reader'[q].key = reader[q].key
                         /\ reader'[q].got = reader[q].got
  BY Zenon, <1>1, <1>3, <1>4, <1>5 DEF Busy
<1>7. \A q \in Readers : Busy(q)' = Busy(q)
  BY Zenon, <1>6 DEF Busy
<1>8. ReadingOf' = ReadingOf
  <2>1. ReadingOf' = [q \in Readers |-> [busy |-> Busy(q)', key |-> reader'[q].key,
                                         seen |-> seen'[q]]]
    BY Zenon DEF ReadingOf
  <2>2. \A q \in Readers : [busy |-> Busy(q)', key |-> reader'[q].key, seen |-> seen'[q]]
                             = [busy |-> Busy(q), key |-> reader[q].key, seen |-> seen[q]]
    BY Zenon, <1>1, <1>6, <1>7
  <2> QED BY Zenon, <2>1, <2>2 DEF ReadingOf
<1>9. GotOf' = GotOf
  BY Zenon, <1>6 DEF GotOf
<1>10. Count' = Count
  BY Zenon DEF Count, LogEnd, LeftLen, BatchLen
<1> QED BY Zenon, <1>8, <1>9, <1>10, KVQuiet

\* A get returns.
LEMMA GetEndsMapped ==
  ASSUME Inv, NEW r \in Readers, GetEnds(r), UNCHANGED <<log, writer>>,
         \A j \in Keys : View(j)' = View(j)
  PROVE  KV!End(r)
<1>1. reader \in [Readers -> Reader] /\ seen \in [Readers -> SUBSET Nat]
  BY Zenon DEF Inv, DbInv, DbTypeOK
<1>2. Busy(r) /\ seen' = [seen EXCEPT ![r] = {}]
  BY Zenon DEF GetEnds, Busy
<1>3. PICK v \in seen[r] : Found(r, v)
  BY Zenon DEF GetEnds
<1>4. /\ \A q \in Readers \ {r} : reader'[q] = reader[q] /\ seen'[q] = seen[q]
      /\ reader'[r].pc = "idle" /\ reader'[r].key = 0 /\ reader'[r].got = v
      /\ seen'[r] = {}
  BY Zenon, <1>1, <1>2, <1>3 DEF Found
<1>5. Stored' = Stored
  BY Zenon DEF Stored
<1>6. ReadingOf' = [ReadingOf EXCEPT ![r] = KV!NotReading]
  <2> DEFINE R(q) == [busy |-> Busy(q), key |-> reader[q].key, seen |-> seen[q]]
             new == KV!NotReading
  <2>1. R(r)' = new
    <3>1. Busy(r)' = FALSE
      BY Zenon, <1>4 DEF Busy
    <3>2. R(r)' = [busy |-> Busy(r)', key |-> reader'[r].key, seen |-> seen'[r]]
      BY Zenon
    <3> QED BY Zenon, <1>4, <3>1, <3>2 DEF KV!NotReading
  <2>2. \A q \in Readers \ {r} : R(q)' = R(q)
    BY Zenon, <1>4 DEF Busy
  <2>3. ReadingOf = [q \in Readers |-> R(q)] /\ ReadingOf' = [q \in Readers |-> R(q)']
    BY Zenon DEF ReadingOf
  <2> HIDE DEF R, new
  <2>4. [[q \in Readers |-> R(q)] EXCEPT ![r] = new]
          = [q \in Readers |-> IF q = r THEN new ELSE R(q)]
    BY Zenon
  <2>5. \A q \in Readers : R(q)' = IF q = r THEN new ELSE R(q)
    BY Zenon, <2>1, <2>2
  <2>6. [q \in Readers |-> R(q)'] = [q \in Readers |-> IF q = r THEN new ELSE R(q)]
    BY Zenon, <2>5
  <2> QED BY Zenon, <2>3, <2>4, <2>6 DEF new
<1>7. GotOf' = [GotOf EXCEPT ![r] = v]
  BY Zenon, <1>4 DEF GotOf
<1>8. Len(log') - Logged' = Len(log) - Logged
  BY Zenon DEF Logged
<1>9. ReadingOf[r].busy /\ v \in ReadingOf[r].seen
  BY Zenon, <1>2, <1>3 DEF ReadingOf
<1> QED BY Zenon, <1>5, <1>6, <1>7, <1>8, <1>9
        DEF KV!End, ReadingOf, GotOf, Busy, Stored

\* KVStore numbers the operations of a batch as write_opts does.
LEMMA AfterLast ==
  ASSUME NEW b \in Seq(Keys), NEW k \in Keys
  PROVE  LET writes == {i \in DOMAIN b : b[i] = k}
         IN  /\ writes = {} <=> ~(Last(b, k) > 0)
             /\ writes # {} =>
                  (CHOOSE i \in writes : \A j \in writes : j <= i) = Last(b, k)
<1> DEFINE W == {i \in DOMAIN b : b[i] = k}
           m == Last(b, k)
           c == CHOOSE i \in W : \A j \in W : j <= i
<1>1. /\ m \in 0 .. Len(b) /\ (m > 0 => b[m] = k)
      /\ \A i \in 1 .. Len(b) : b[i] = k => i <= m
      /\ Len(b) \in Nat /\ DOMAIN b = 1 .. Len(b)
  BY LastIsLargest
<1> HIDE DEF m
<1>2. m > 0 => m \in W /\ \A j \in W : j <= m
  BY <1>1
<1>3. W # {} => m > 0
  BY <1>1
<1>4. ASSUME m > 0 PROVE c = m
  <2>1. c \in W /\ \A j \in W : j <= c
    BY Zenon, <1>2, <1>4
  <2>2. W \subseteq Nat
    BY <1>1
  <2> HIDE DEF c, W
  <2>3. c <= m /\ m <= c /\ c \in Nat /\ m \in Nat
    BY Zenon, <1>2, <1>4, <2>1, <2>2
  <2> QED BY <2>3
<1>5. W = {} <=> ~(m > 0)
  BY Zenon, <1>2, <1>3
<1>6. W # {} => c = m
  BY Zenon, <1>3, <1>4
<1> QED BY Zenon, <1>5, <1>6 DEF m
\* The map after a batch, when each key has the last operation of it.
LEMMA StoredAfter ==
  ASSUME NEW b \in Seq(Keys),
         \A k \in Keys : View(k)' = IF Last(b, k) > 0 THEN Count + Last(b, k) ELSE View(k)
  PROVE  Stored' = KV!After(b)
<1> DEFINE W(k) == {i \in DOMAIN b : b[i] = k}
           c(k) == CHOOSE i \in W(k) : \A j \in W(k) : j <= i
           n == Len(log) - Logged
<1>1. \A k \in Keys : /\ W(k) = {} <=> ~(Last(b, k) > 0)
                      /\ W(k) # {} => c(k) = Last(b, k)
  BY Zenon, AfterLast
<1>2. \A k \in Keys : Stored[k] = View(k)
  BY Zenon DEF Stored
<1>3. Count = n
  BY Zenon, CountMapped
<1> HIDE DEF W, c, n
<1>4. \A k \in Keys : View(k)' = IF W(k) = {} THEN Stored[k] ELSE n + c(k)
  BY Zenon, <1>1, <1>2, <1>3
<1>5. Stored' = [k \in Keys |-> View(k)']
  BY Zenon DEF Stored
<1>6. Stored' = [k \in Keys |-> IF W(k) = {} THEN Stored[k] ELSE n + c(k)]
  BY Zenon, <1>4, <1>5
<1> QED BY Zenon, <1>6 DEF W, c, n, KV!After, Stored

\* What a busy reader may get is all that a commit changes of it.
LEMMA SeenReplaced ==
  \A x, y, z, w : [[busy |-> x, key |-> y, seen |-> z] EXCEPT !.seen = w]
                    = [busy |-> x, key |-> y, seen |-> w]
OBVIOUS

\* wal.store has returned and the batch is applied: the map commits it.
LEMMA ApplyMapped ==
  ASSUME Inv, Apply,
         \A k \in Keys : View(k)' = IF Last(writer.batch, k) > 0
                                    THEN Count + Last(writer.batch, k) ELSE View(k)
  PROVE  KV!Commit
<1> DEFINE b == writer.batch
<1>1. /\ Count = LogEnd - BatchLen /\ Count' = LogEnd /\ Count \in Nat
      /\ BatchLen \in Nat /\ LogEnd \in Nat /\ writer'.batch = <<>>
      /\ b \in Seq(Keys) /\ b # <<>>
  BY Zenon, ApplyEffect
<1>2. /\ reader' = reader /\ reader \in [Readers -> Reader]
      /\ \A r \in Readers : reader[r].pc # "idle" => reader[r].key \in Keys
  BY Zenon DEF Apply, Inv, DbInv, DbTypeOK, ValuesKnown
<1>3. Stored' = KV!After(writer.batch)
  BY Zenon, <1>1, StoredAfter
<1>4. ASSUME NEW r \in Readers
      PROVE  seen'[r] = IF Busy(r) THEN seen[r] \cup {Stored'[reader[r].key]} ELSE seen[r]
  <2> DEFINE A == reader[r].pc = "idle" \/ Last(b, reader[r].key) = 0
             E == seen[r] \cup {LogEnd - BatchLen + Last(b, reader[r].key)}
  <2>1. seen'[r] = IF A THEN seen[r] ELSE E
    <3> DEFINE AA(q) == reader[q].pc = "idle" \/ Last(b, reader[q].key) = 0
               EE(q) == seen[q] \cup {LogEnd - BatchLen + Last(b, reader[q].key)}
    <3>1. seen' = [q \in Readers |-> IF AA(q) THEN seen[q] ELSE EE(q)]
      BY Zenon DEF Apply, LogEnd, BatchLen
    <3> HIDE DEF AA, EE
    <3>2. seen'[r] = IF AA(r) THEN seen[r] ELSE EE(r)
      BY Zenon, <3>1
    <3> QED BY Zenon, <3>2 DEF AA, EE
  <2>2. CASE ~Busy(r)
    BY Zenon, <2>1, <2>2 DEF Busy
  <2>3. CASE Busy(r)
    <3>1. PICK k \in Keys : k = reader[r].key
      BY Zenon, <1>2, <2>3 DEF Busy
    <3>2. View(k) \in seen[r]
      BY Zenon, <2>3, <3>1, GetKnows DEF Busy, GetSees
    <3>3. Last(b, k) \in 0 .. Len(b)
      BY Zenon, <1>1, LastIsLargest
    <3>4. Stored'[k] = View(k)'
      BY Zenon DEF Stored
    <3>5. CASE Last(b, k) = 0
      <4>1. View(k)' = View(k)
        BY <3>3, <3>5
      <4>2. seen'[r] = seen[r]
        BY Zenon, <2>1, <3>1, <3>5
      <4> QED BY Zenon, <2>3, <3>1, <3>2, <3>4, <4>1, <4>2
    <3>6. CASE Last(b, k) # 0
      <4>1. Last(b, k) > 0
        BY <1>1, <3>3, <3>6
      <4>2. View(k)' = LogEnd - BatchLen + Last(b, k)
        BY Zenon, <1>1, <4>1
      <4>3. seen'[r] = seen[r] \cup {LogEnd - BatchLen + Last(b, k)}
        BY Zenon, <2>1, <2>3, <3>1, <3>6 DEF Busy
      <4> QED BY Zenon, <2>3, <3>1, <3>4, <4>2, <4>3
    <3> QED BY Zenon, <3>5, <3>6
  <2> QED BY Zenon, <2>2, <2>3
<1>5. ReadingOf' = [r \in Readers |->
                      IF ReadingOf[r].busy
                      THEN [ReadingOf[r] EXCEPT
                              !.seen = @ \cup {Stored'[ReadingOf[r].key]}]
                      ELSE ReadingOf[r]]
  <2> DEFINE R(q) == [busy |-> Busy(q), key |-> reader[q].key, seen |-> seen[q]]
             S(q) == IF ReadingOf[q].busy
                     THEN [ReadingOf[q] EXCEPT !.seen = @ \cup {Stored'[ReadingOf[q].key]}]
                     ELSE ReadingOf[q]
  <2>1. ASSUME NEW q \in Readers PROVE R(q)' = S(q)
    <3>1. ReadingOf[q] = R(q)
      BY Zenon DEF ReadingOf
    <3>2. Busy(q)' = Busy(q) /\ reader'[q].key = reader[q].key
      BY Zenon, <1>2 DEF Busy
    <3>3. R(q)' = [busy |-> Busy(q), key |-> reader[q].key, seen |-> seen'[q]]
      BY Zenon, <3>2
    <3>4. R(q).busy = Busy(q) /\ R(q).key = reader[q].key /\ R(q).seen = seen[q]
      BY Zenon
    <3>5. CASE Busy(q)
      <4> DEFINE w == R(q).seen \cup {Stored'[R(q).key]}
      <4>1. R(q) = [busy |-> Busy(q), key |-> reader[q].key, seen |-> seen[q]]
        BY Zenon
      <4>2. w = seen'[q]
        BY Zenon, <1>4, <3>4, <3>5
      <4>3. S(q) = [R(q) EXCEPT !.seen = w]
        BY Zenon, <3>1, <3>4, <3>5
      <4> HIDE DEF R, S, w
      <4>4. [R(q) EXCEPT !.seen = w]
              = [busy |-> Busy(q), key |-> reader[q].key, seen |-> w]
        BY <4>1, SeenReplaced
      <4> QED BY Zenon, <3>3, <4>2, <4>3, <4>4
    <3>6. CASE ~Busy(q)
      <4>1. seen'[q] = seen[q]
        BY Zenon, <1>4, <3>6
      <4>2. R(q)' = R(q)
        BY Zenon, <3>3, <4>1
      <4> HIDE DEF R
      <4> QED BY Zenon, <3>1, <3>4, <3>6, <4>2
    <3> QED BY Zenon, <3>5, <3>6
  <2>2. ReadingOf' = [q \in Readers |-> R(q)']
    BY Zenon DEF ReadingOf
  <2> HIDE DEF R, S
  <2>3. ReadingOf' = [q \in Readers |-> S(q)]
    BY Zenon, <2>1, <2>2
  <2> QED BY Zenon, <2>3 DEF S
<1>6. GotOf' = GotOf
  BY Zenon, <1>2 DEF GotOf
<1>7. Count = Len(log) - Logged /\ Count' = Len(log') - Logged'
  BY Zenon, CountMapped, CountMappedNext
<1>8. Count' = Count + Len(writer.batch)
  BY <1>1 DEF BatchLen
<1>9. Len(log') - Logged' = (Len(log) - Logged) + Len(writer.batch)
  BY Zenon, <1>7, <1>8
<1> HIDE DEF b
<1> QED BY Zenon, <1>1, <1>3, <1>5, <1>6, <1>9
        DEF KV!Commit, ReadingOf, GotOf, Busy, Stored, b
\* A key has one last operation.
LEMMA LastUnique ==
  ASSUME NEW p \in Nat, NEW q \in Nat, NEW n \in Nat, NEW k \in Keys,
         IsLast(p, n, k), IsLast(q, n, k)
  PROVE  p = q
<1>1. CASE p < q
  BY <1>1 DEF IsLast
<1>2. CASE q < p
  BY <1>2 DEF IsLast
<1> QED BY <1>1, <1>2

\* A restart after the process was killed is a crash of the map: of the batch
\* that was being written the records that reached the log take effect.
LEMMA RestartMapped ==
  ASSUME Inv, Restart, StoreInv', Count' = LogEnd
  PROVE  KV!Crash
<1> DEFINE n == BatchLen - LeftLen
           b == SubSeq(writer.batch, 1, n)
<1>1. /\ log' = log /\ writer' = NoWriter
      /\ reader' = [r \in Readers |-> NotReading]
      /\ seen' = [r \in Readers |-> {}]
  BY Zenon DEF Restart
<1>2. /\ Count \in Nat /\ Count <= LogEnd /\ LogEnd \in Nat
      /\ n \in Nat /\ Count + n = LogEnd /\ n <= BatchLen
      /\ writer.batch \in Seq(Keys) /\ BatchLen = Len(writer.batch) /\ BatchLen \in Nat
  <2>1. LeftLen \in Nat /\ BatchLen \in Nat
    BY Zenon, PositionsNat DEF Inv
  <2> QED BY <2>1, CountFacts, PositionsNat, WriterFacts DEF Inv, BatchLen
<1>3. b \in Seq(Keys) /\ Len(b) = n /\ \A i \in 1 .. n : b[i] = log[Count + i]
  <2>1. \A i \in 1 .. n : writer.batch[i] \in Keys
    BY <1>2
  <2> HIDE DEF n
  <2>2. /\ b \in Seq(Keys) /\ Len(b) = IF 1 <= n THEN n - 1 + 1 ELSE 0
        /\ \A i \in 1 .. n - 1 + 1 : b[i] = writer.batch[1 + i - 1]
    BY <1>2, <2>1, SubSeqFacts
  <2> HIDE DEF b
  <2>3. Len(b) = n /\ n - 1 + 1 = n /\ \A i \in 1 .. n : 1 + i - 1 = i
    BY <1>2, <2>2
  <2>4. \A i \in 1 .. n : b[i] = writer.batch[i]
    BY Zenon, <2>2, <2>3
  <2>5. \A i \in 1 .. n : writer.batch[i] = log[Count + i]
    BY Zenon DEF Inv, StoreInv, BatchLogged, n
  <2> QED BY Zenon, <2>2, <2>3, <2>4, <2>5
<1> HIDE DEF n, b
<1>4. ASSUME NEW k \in Keys
      PROVE  View(k)' = IF Last(b, k) > 0 THEN Count + Last(b, k) ELSE View(k)
  <2>1. View(k) \in Nat /\ IsLast(View(k), Count, k)
    BY Zenon, SeqBounds DEF Inv, StoreInv, ViewIsLast
  <2>2. PICK p \in Nat : p = View(k)'
    <3>1. View(k)' \in 0 .. LogEnd
      BY Zenon DEF StoreInv, ViewIsLast, IsLast
    <3> QED BY <1>2, <3>1
  <2>3. IsLast(p, LogEnd, k)
    <3>1. IsLast(View(k), Count, k)'
      BY Zenon DEF StoreInv, ViewIsLast
    <3> QED BY Zenon, <1>1, <2>2, <3>1 DEF IsLast
  <2> DEFINE m == Last(b, k)
  <2>4. /\ m \in 0 .. n /\ (m > 0 => b[m] = k)
        /\ \A i \in 1 .. n : b[i] = k => i <= m
    BY Zenon, <1>3, LastIsLargest
  <2>5. \A j \in Count + 1 .. LogEnd :
          j - Count \in 1 .. n /\ Count + (j - Count) = j /\ log[j] = b[j - Count]
    BY <1>2, <1>3
  <2> HIDE DEF m
  <2>6. CASE m > 0
    <3>1. IsLast(Count + m, LogEnd, k)
      <4>1. Count + m \in 0 .. LogEnd /\ m \in 1 .. n /\ log[Count + m] = k
        BY <1>2, <1>3, <2>4, <2>6
      <4>2. ASSUME NEW j \in Count + m + 1 .. LogEnd PROVE log[j] # k
        <5>1. j \in Count + 1 .. LogEnd /\ ~(j - Count <= m)
          BY <1>2, <4>1
        <5> QED BY Zenon, <2>4, <2>5, <5>1
      <4> QED BY Zenon, <4>1, <4>2 DEF IsLast
    <3>2. Count + m \in Nat
      BY <1>2, <2>4
    <3>3. p = Count + m
      BY Zenon, <1>2, <2>3, <3>1, <3>2, LastUnique
    <3> QED BY Zenon, <2>2, <2>6, <3>3 DEF m
  <2>7. CASE ~(m > 0)
    <3>1. \A j \in Count + 1 .. LogEnd : log[j] # k
      BY <1>2, <2>4, <2>5, <2>7
    <3>2. IsLast(View(k), LogEnd, k)
      BY <1>2, <2>1, <3>1 DEF IsLast
    <3>3. p = View(k)
      BY Zenon, <1>2, <2>1, <2>3, <3>2, LastUnique
    <3> QED BY Zenon, <2>2, <2>7, <3>3 DEF m
  <2> QED BY Zenon, <2>6, <2>7
<1>5. Stored' = KV!After(SubSeq(writer.batch, 1, n))
  BY Zenon, <1>3, <1>4, StoredAfter DEF b
<1>6. n \in 0 .. Len(writer.batch) /\ Len(log') - Logged' = (Len(log) - Logged) + n
  <2>1. n \in 0 .. Len(writer.batch) /\ Count' = Count + n
    BY <1>2
  <2> QED BY Zenon, <2>1, CountMapped, CountMappedNext
<1>7. writer'.batch = <<>>
  BY Zenon, <1>1 DEF NoWriter
<1>8. \A r \in Readers : /\ reader'[r].pc = "idle" /\ reader'[r].key = 0
                         /\ reader'[r].got = 0 /\ seen'[r] = {}
  BY Zenon, <1>1 DEF NotReading
<1>9. ReadingOf' = [r \in Readers |-> KV!NotReading]
  <2>1. \A r \in Readers : Busy(r)' = FALSE
    BY Zenon, <1>8 DEF Busy
  <2>2. ReadingOf' = [r \in Readers |-> [busy |-> Busy(r)', key |-> reader'[r].key,
                                         seen |-> seen'[r]]]
    BY Zenon DEF ReadingOf
  <2> QED BY Zenon, <1>8, <2>1, <2>2 DEF KV!NotReading
<1>10. GotOf' = [r \in Readers |-> 0]
  BY Zenon, <1>8 DEF GotOf
<1> QED BY Zenon, <1>5, <1>6, <1>7, <1>9, <1>10
        DEF KV!Crash, ReadingOf, GotOf, Busy, Stored
-----------------------------------------------------------------------------
(* The theorem.                                                             *)

\* Every step of the store keeps the invariant and is a step of the map, or one
\* that a caller does not see.
LEMMA StoreStep ==
  ASSUME Inv, [DbNext]_<<levelVars, dbVars>>
  PROVE  Inv' /\ [KV!KVNext]_(KV!kvVars)
<1>1. DbInv' /\ LevelsInv'
  BY Zenon, LevelsKept
<1> SUFFICES StoreInv' /\ (KV!KVNext \/ UNCHANGED KV!kvVars)
  BY Zenon, <1>1 DEF Inv
<1>2. ASSUME NEW b \in Batches, WriteBegin(b)
      PROVE  StoreInv' /\ KV!KVNext
  BY Zenon, <1>2, WriteBeginStore, WriteBeginMapped DEF KV!KVNext
<1>3. CASE LogRecord \/ PushImm
  <2>1. StoreInv' /\ \A k \in Keys : View(k)' = View(k)
    BY Zenon, <1>3, LogRecordStore, PushImmStore
  <2>2. UNCHANGED <<reader, seen>>
    BY Zenon, <1>3 DEF LogRecord, PushImm
  <2> QED BY Zenon, <1>3, <2>1, <2>2, HiddenSteps
<1>4. CASE Apply
  BY Zenon, <1>4, ApplyStore, ApplyMapped DEF KV!KVNext
<1>5. CASE FlushStart \/ FlushNumber \/ FlushList \/ set_offset \/ set_log_offset \/ PopImm
  <2>1. StoreInv' /\ \A k \in Keys : View(k)' = View(k)
    BY Zenon, <1>5, FlushStore, SetLogOffsetStore, PopImmStore
  <2>2. UNCHANGED <<reader, seen, log, writer>>
    BY Zenon, <1>5 DEF FlushStart, FlushNumber, FlushList, set_offset, set_log_offset,
                PopImm, dbVars
  <2> QED BY Zenon, <2>1, <2>2, HiddenSteps
<1>6. CASE FlushAdd
  <2>1. StoreInv' /\ \A k \in Keys : View(k)' = View(k)
    BY Zenon, <1>1, <1>6, FlushAddStore
  <2>2. UNCHANGED <<reader, seen, log, writer>>
    BY Zenon, <1>6 DEF FlushAdd, dbVars
  <2> QED BY Zenon, <2>1, <2>2, HiddenSteps
<1>7. ASSUME NEW c \in Tasks, Compact(c), UNCHANGED dbVars
      PROVE  StoreInv' /\ UNCHANGED KV!kvVars
  <2>1. StoreInv' /\ \A k \in Keys : View(k)' = View(k)
    BY Zenon, <1>1, <1>7, CompactStore
  <2>2. UNCHANGED <<reader, seen, log, writer>>
    BY Zenon, <1>7 DEF dbVars
  <2> QED BY Zenon, <2>1, <2>2, HiddenSteps
<1>8. ASSUME NEW r \in Readers, NEW k \in Keys, GetBegin(r, k)
      PROVE  StoreInv' /\ KV!KVNext
  BY Zenon, <1>8, GetBeginStore, GetBeginMapped DEF KV!KVNext
<1>9. ASSUME NEW r \in Readers, GetMemtable(r) \/ GetImm(r) \/ GetLevel(r)
      PROVE  StoreInv' /\ (KV!KVNext \/ UNCHANGED KV!kvVars)
  <2>1. /\ StoreInv' /\ \A k \in Keys : View(k)' = View(k)
        /\ GetEnds(r) \/ GetGoesOn(r)
    BY Zenon, <1>9, GetMemtableStore, GetImmStore, GetLevelStore
  <2>2. UNCHANGED <<log, writer>>
    BY Zenon, <1>9 DEF GetMemtable, GetImm, GetLevel
  <2>3. CASE GetEnds(r)
    BY Zenon, <2>1, <2>2, <2>3, GetEndsMapped DEF KV!KVNext
  <2>4. CASE GetGoesOn(r)
    BY Zenon, <2>1, <2>2, <2>4, GetGoesOnMapped
  <2> QED BY Zenon, <2>1, <2>3, <2>4
<1>10. CASE Restart
  BY Zenon, <1>1, <1>10, RestartStore, RestartMapped DEF KV!KVNext
<1>11. CASE UNCHANGED <<levelVars, dbVars>>
  <2>1. /\ UNCHANGED <<tables, memtable, imm, value, log, writer, reader, seen>>
        /\ UNCHANGED <<trim, flush, manifest, task, log_offset>>
    BY Zenon, <1>11 DEF levelVars, dbVars
  <2>2. /\ Count' = Count /\ \A j \in 1 .. LogEnd : log'[j] = log[j]
        /\ BatchLogged' /\ writer'.taken = writer.taken
    BY Zenon, <2>1, SameLog
  <2>3. Durable'
    BY Zenon, <2>1, <2>2, SameDurable DEF NoPanic
  <2>4. Flushed'
    BY Zenon, <2>1, SameTables DEF Inv, StoreInv, Flushed
  <2>5. StoreInv' /\ \A k \in Keys : View(k)' = View(k)
    BY Zenon, <2>1, <2>2, <2>3, <2>4, QuietStoreStep
  <2> QED BY Zenon, <2>1, <2>5, HiddenSteps
<1> QED BY Zenon, <1>2, <1>3, <1>4, <1>5, <1>6, <1>7, <1>8, <1>9, <1>10, <1>11 DEF DbNext

\* A database that has just been created is an empty map.
LEMMA InitMapped == DbInit => Inv /\ KV!KVInit
<1> SUFFICES ASSUME DbInit PROVE Inv /\ KV!KVInit
  BY Zenon
<1>1. Inv /\ \A k \in Keys : View(k) = 0
  BY Zenon, StoreInit
<1>2. Stored = [k \in Keys |-> 0]
  BY Zenon, <1>1 DEF Stored
<1>3. /\ writer.batch = <<>> /\ writer.left = <<>> /\ Len(log) = 0
      /\ \A r \in Readers : /\ reader[r].pc = "idle" /\ reader[r].key = 0
                            /\ reader[r].got = 0 /\ seen[r] = {}
  BY Zenon DEF DbInit, NoWriter, NotReading
<1>4. Len(log) - Logged = 0
  BY <1>3 DEF Logged
<1>5. ReadingOf = [r \in Readers |-> KV!NotReading]
  <2>1. \A r \in Readers : Busy(r) = FALSE
    BY Zenon, <1>3 DEF Busy
  <2> QED BY Zenon, <1>3, <2>1 DEF KV!NotReading, ReadingOf
<1>6. GotOf = [r \in Readers |-> 0]
  BY Zenon, <1>3 DEF GotOf
<1> QED BY Zenon, <1>1, <1>2, <1>3, <1>4, <1>5, <1>6
        DEF KV!KVInit, ReadingOf, GotOf, Busy, Stored

\* The store implements the map: a get, which looks into the memtable, the
\* immutable memtable and the levels one lock at a time, returns a value its key
\* had while it ran; flushes and compactions change no value; and a restart keeps
\* every write whose records had reached the log (a kill after which the store
\* cannot be opened again, see Restart, ends the behaviour).
THEOREM StoreImplementsMap == DbSpec => ImplementsKVStore
<1>1. DbInit => Inv /\ KV!KVInit
  BY Zenon, InitMapped
<1>2. Inv /\ [DbNext]_<<levelVars, dbVars>> => Inv' /\ [KV!KVNext]_(KV!kvVars)
  BY Zenon, StoreStep
<1> QED BY <1>1, <1>2, PTL DEF DbSpec, ImplementsKVStore, KV!KVSpec

\* What a caller sees of a key is the last operation on it of all those that
\* took effect, wherever flushes, compactions and restarts have left its entry.
THEOREM ViewIsAlwaysLast == DbSpec => []ViewIsLast
<1>1. Inv => ViewIsLast
  BY Zenon DEF Inv, StoreInv
<1>2. DbInit => Inv
  BY Zenon, InitMapped
<1>3. Inv /\ [DbNext]_<<levelVars, dbVars>> => Inv'
  BY Zenon, StoreStep
<1> QED BY <1>1, <1>2, <1>3, PTL DEF DbSpec
=============================================================================
