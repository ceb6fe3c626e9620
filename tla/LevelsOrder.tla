---------------------------- MODULE LevelsOrder -----------------------------
(* The order of versions and the manifest: a search finds the newest entry, *)
(* and the manifest lists what the levels hold.                             *)
EXTENDS LevelsOwnership

-----------------------------------------------------------------------------
(* The order of versions is preserved.                                      *)

\* Ids and sequence numbers are natural numbers.
LEMMA TableNumbers ==
  ASSUME TypeOK
  PROVE  /\ \A l \in Level : \A t \in tables[l] :
              t \in Table /\ t.id \in Nat /\ \A k \in Keys : t.data[k] \in Nat
         /\ \A t \in Table : \A k \in Keys : t.data[k] \in Nat
         /\ seq_offset \in Nat /\ flush.seq \in Nat /\ flush.id \in Nat
         /\ next_id \in Nat /\ \A k \in Keys : flush.data[k] \in Nat
<1>1. \A t \in Table : t.id \in Nat /\ \A k \in Keys : t.data[k] \in Nat
  BY ConstantsAssumption DEF Table, Data, Seqs
<1>2. \A l \in Level : \A t \in tables[l] : t \in Table
  BY DEF TypeOK
<1>3. \A k \in Keys : flush.data[k] \in Nat
  BY ConstantsAssumption DEF TypeOK, Data, Seqs
<1> QED BY <1>1, <1>2, <1>3 DEF TypeOK

\* A step that changes no table and gives no task new parents.
LEMMA OrderQuietStep ==
  ASSUME OrderInv, UNCHANGED <<tables>>,
         \A d \in Tasks : Owns(d)' =>
           /\ Owns(d)
           /\ task'[d].parents = task[d].parents
           /\ task'[d].level = task[d].level
  PROVE  VersionOrder' /\ ParentsOldest'
<1>1. VersionOrder'
  BY DEF OrderInv, VersionOrder
<1>2. ParentsOldest'
  BY DEF OrderInv, ParentsOldest
<1> QED BY <1>1, <1>2

\* add_l0_table: the table that joins level 0 is newer than all others.
LEMMA OrderAddL0Step ==
  ASSUME OwnershipInv, OrderInv, add_l0_table
  PROVE  OrderInv'
<1> DEFINE new == [id |-> flush.id, data |-> flush.data]
<1>0. TypeOK
  BY DEF OwnershipInv
<1>1. /\ flush.pc = "build" /\ flush'.pc = "added" /\ flush'.seq = flush.seq
      /\ new.id = flush.id /\ new.data = flush.data
      /\ UNCHANGED <<seq_offset, task>>
  BY DEF add_l0_table
<1>2. /\ tables'[0] = tables[0] \cup {new}
      /\ \A l \in Level : l # 0 => tables'[l] = tables[l]
      /\ \A l \in Level : \A t \in tables'[l] :
           t \in tables[l] \/ (l = 0 /\ t = new)
  BY <1>0, LevelFacts DEF TypeOK, add_l0_table
<1> HIDE DEF new
<1> USE DEF OrderInv
<1>3. \A l \in Level : \A t \in tables[l] : \A k \in Keys :
        new.data[k] > 0 => t.data[k] < new.data[k]
  BY <1>0, <1>1, TableNumbers DEF FlushNewest
<1>4. VersionOrder'
  <2>1. ASSUME NEW l \in Level, NEW m \in Level, l < m, NEW s \in tables'[l],
               NEW t \in tables'[m], NEW k \in Keys, s.data[k] > 0
        PROVE  t.data[k] < s.data[k]
    <3>1. t \in tables[m]
      BY <1>2, <2>1, LevelFacts
    <3>2. CASE s \in tables[l]
      BY <2>1, <3>1, <3>2 DEF VersionOrder
    <3>3. CASE s = new
      BY <1>3, <2>1, <3>1, <3>3
    <3> QED BY <1>2, <3>2, <3>3
  <2>2. ASSUME NEW s \in tables'[0], NEW t \in tables'[0], NEW k \in Keys,
               s.id < t.id, t.data[k] > 0
        PROVE  s.data[k] < t.data[k]
    <3>1. CASE s \in tables[0] /\ t \in tables[0]
      BY <2>2, <3>1 DEF VersionOrder
    <3>2. CASE s \in tables[0] /\ t = new
      BY <1>3, <2>2, <3>2, LevelFacts
    <3>3. CASE s = new
      <4>1. t.id <= new.id /\ t.id \in Nat /\ new.id \in Nat
        BY <1>0, <1>1, <1>2, LevelFacts, TableNumbers DEF FlushNewest
      <4> QED BY <2>2, <3>3, <4>1
    <3> QED BY <1>2, <3>1, <3>2, <3>3
  <2> QED BY <2>1, <2>2 DEF VersionOrder
<1>5. ParentsOldest'
  <2> SUFFICES ASSUME NEW c \in Tasks, Owns(c), NEW p \in task[c].parents,
                      NEW s \in tables'[task[c].level] \ task[c].parents,
                      NEW k \in Keys, p.data[k] > 0, s.data[k] > 0
               PROVE  task[c].level = 0 /\ p.data[k] < s.data[k]
    BY <1>1 DEF ParentsOldest, Owns
  <2>1. task[c].level \in Level /\ p \in tables[task[c].level]
    BY <1>0, OwnerLevel DEF OwnershipInv, FlagsOwned
  <2>2. CASE s \in tables[task[c].level]
    BY <2>2 DEF ParentsOldest
  <2>3. CASE task[c].level = 0 /\ s = new
    BY <1>3, <2>1, <2>3
  <2> QED BY <1>2, <2>1, <2>2, <2>3
<1>6. FlushNewest'
  <2>1. \A l \in Level : \A t \in tables'[l] : \A k \in Keys :
          t.data[k] < flush.seq
    <3>1. \A k \in Keys : new.data[k] < flush.seq
      BY <1>1 DEF FlushNewest
    <3>2. \A l \in Level : \A t \in tables[l] : \A k \in Keys :
            t.data[k] < flush.seq
      BY <1>0, <1>1, TableNumbers DEF FlushNewest
    <3> QED BY <1>2, <3>1, <3>2
  <2> QED BY <1>1, <2>1 DEF FlushNewest
<1> QED BY <1>4, <1>5, <1>6

\* The parents are all tables of level 0 that overlap their range, and below
\* level 0 tables are disjoint: no other table shares a key with a parent.
LEMMA OrderStartStep ==
  ASSUME OwnershipInv, OrderInv, NEW c \in Tasks, maybe_start_compaction(c)
  PROVE  OrderInv'
<1>0. TypeOK
  BY DEF OwnershipInv
<1> DEFINE l == task[c].level
<1>1. PICK P \in SUBSET tables[l] :
        /\ Selection(P, l)
        /\ task' = [task EXCEPT ![c] = At("overlaps", l, P, {}, 0)]
  BY Zenon DEF maybe_start_compaction
<1>2. UNCHANGED <<tables, seq_offset, flush>>
  BY DEF maybe_start_compaction
<1>3. /\ task'[c].level = l /\ task'[c].parents = P
      /\ \A d \in Tasks \ {c} : task'[d] = task[d]
  BY <1>0, <1>1 DEF TypeOK, At
<1>4. l \in Level
  BY <1>0 DEF TypeOK, TaskState
<1> HIDE DEF l
<1>5. ASSUME NEW p \in P, NEW s \in tables[l] \ P, NEW k \in Keys,
             p.data[k] > 0, s.data[k] > 0
      PROVE  FALSE
  <2>1. tables[l] \subseteq Table /\ P \subseteq Table
    BY <1>0, <1>4 DEF TypeOK
  <2>2. /\ k \in Span(KeysOf({p})) /\ k \in Span(KeysOf(P))
        /\ k \in Span(KeysOf({s}))
    BY Zenon, <1>5, <2>1, KeyInSpan
  <2>3. CASE l = 0
    <3>1. Closed(P, tables[0])
      BY <1>1, <2>3 DEF Selection, OverlapClosure
    <3>2. overlaps(s, Span(KeysOf(P)))
      BY <2>2 DEF overlaps
    <3> QED BY <1>5, <2>3, <3>1, <3>2 DEF Closed
  <2>4. CASE l # 0
    <3>1. s # p /\ s \in tables[l] /\ p \in tables[l]
      BY <1>5
    <3>2. Span(KeysOf({s})) \cap Span(KeysOf({p})) = {}
      BY Zenon, <1>4, <2>4, <3>1 DEF OwnershipInv, LevelsDisjoint
    <3> QED BY Zenon, <2>2, <3>2
  <2> QED BY <2>3, <2>4
<1>6. ParentsOldest'
  <2> SUFFICES ASSUME NEW d \in Tasks, Owns(d)', NEW p \in task'[d].parents,
                      NEW s \in tables[task'[d].level] \ task'[d].parents,
                      NEW k \in Keys, p.data[k] > 0, s.data[k] > 0
               PROVE  task'[d].level = 0 /\ p.data[k] < s.data[k]
    BY <1>2 DEF ParentsOldest
  <2>1. CASE d = c
    BY <1>3, <1>5, <2>1
  <2>2. CASE d # c
    BY <1>3, <2>2 DEF OrderInv, ParentsOldest, Owns
  <2> QED BY <2>1, <2>2
<1>7. VersionOrder' /\ FlushNewest'
  BY <1>2 DEF OrderInv, VersionOrder, FlushNewest
<1> QED BY <1>6, <1>7 DEF OrderInv

\* The new table takes every entry from one of the tables it replaces; what
\* stays above is newer than those, what lies below is older.
LEMMA OrderSwapStep ==
  ASSUME OwnershipInv, OrderInv, NEW c \in Tasks,
         compact_level(c) \/ fast_compaction(c)
  PROVE  OrderInv'
<1>0. TypeOK
  BY DEF OwnershipInv
<1> DEFINE l == task[c].level
           P == task[c].parents
           C == task[c].children
<1>1. PICK new \in Table : Swapped(c, l, P, C, new)
  BY SwapEffect
<1>2. \A t \in tables[l + 1] \ C : Span(KeysOf({t})) \cap Span(KeysOf({new})) = {}
  BY Zenon, <1>1 DEF OwnershipInv, RangesReserved, Reserved, Swapped
<1>3. Owns(c) /\ \A p \in P : \A s \in tables[l] \ P : \A k \in Keys :
        p.data[k] > 0 /\ s.data[k] > 0 => p.data[k] < s.data[k]
  BY <1>1 DEF OrderInv, ParentsOldest, Swapped
<1> HIDE DEF l, P, C
<1>4. /\ l \in Level /\ l + 1 \in Level /\ l \in Nat
      /\ P \subseteq tables[l] /\ C \subseteq tables[l + 1]
      /\ P \subseteq Table /\ C \subseteq Table
      /\ ~Owns(c)' /\ \A d \in Tasks \ {c} : task'[d] = task[d]
      /\ UNCHANGED <<seq_offset, flush>>
      /\ tables'[l] = tables[l] \ P
      /\ tables'[l + 1] = (tables[l + 1] \ C) \cup {new}
      /\ \A m \in Level : \A t \in tables'[m] :
           t \in tables[m] \/ (m = l + 1 /\ t = new)
  BY <1>1 DEF Swapped
<1>5. \A k \in Keys : \E u \in P \cup C : new.data[k] = u.data[k]
  <2>1. CASE IsMove(P, C)
    <3>1. P \cup C = {new}
      BY <1>1, <2>1 DEF Swapped, Swaps
    <3> QED BY <3>1
  <2>2. CASE ~IsMove(P, C)
    <3>1. Merge(P \cup C, new.data)
      BY <1>1, <2>2 DEF Swapped, Swaps
    <3> QED BY <3>1 DEF Merge
  <2> QED BY <2>1, <2>2
<1>6. VersionOrder'
  <2>1. ASSUME NEW m \in Level, NEW n \in Level, m < n, NEW s \in tables'[m],
               NEW t \in tables'[n], NEW k \in Keys, s.data[k] > 0
        PROVE  t.data[k] < s.data[k]
    <3>1. PICK u \in P \cup C : new.data[k] = u.data[k]
      BY <1>5
    <3>2. m \in Nat /\ n \in Nat /\ u.data[k] \in Nat
      BY <1>0, <1>4, LevelFacts, TableNumbers
    <3>3. CASE s \in tables[m] /\ t \in tables[n]
      BY <2>1, <3>3 DEF OrderInv, VersionOrder
    <3>4. CASE m = l + 1 /\ s = new /\ t \in tables[n]
      <4>1. CASE u \in P
        <5>1. l < n
          BY <1>4, <2>1, <3>2, <3>4
        <5> QED BY <1>4, <2>1, <3>1, <3>4, <4>1, <5>1 DEF OrderInv, VersionOrder
      <4>2. CASE u \in C
        BY <1>4, <2>1, <3>1, <3>4, <4>2 DEF OrderInv, VersionOrder
      <4> QED BY <4>1, <4>2
    <3>5. CASE n = l + 1 /\ t = new /\ s \in tables[m]
      <4>1. CASE u \in C
        BY <1>4, <2>1, <3>1, <3>5, <4>1 DEF OrderInv, VersionOrder
      <4>2. CASE u \in P /\ m = l
        <5>1. s \in tables[l] \ P
          BY <1>4, <2>1, <4>2
        <5>2. u.data[k] > 0 => u.data[k] < s.data[k]
          BY <1>3, <2>1, <4>2, <5>1
        <5> QED BY <2>1, <3>1, <3>2, <3>5, <5>2
      <4>3. CASE u \in P /\ m # l
        <5>1. m < l
          BY <1>4, <2>1, <3>2, <3>5, <4>3
        <5> QED BY Zenon, <1>4, <2>1, <3>1, <3>5, <4>3, <5>1 DEF OrderInv, VersionOrder
      <4> QED BY <4>1, <4>2, <4>3
    <3>6. ~(m = l + 1 /\ n = l + 1)
      BY <2>1, <3>2
    <3> QED BY <1>4, <3>3, <3>4, <3>5, <3>6
  <2>2. tables'[0] \subseteq tables[0]
    BY <1>4, LevelFacts
  <2>3. \A s, t \in tables'[0] : \A k \in Keys :
          s.id < t.id /\ t.data[k] > 0 => s.data[k] < t.data[k]
    BY <2>2 DEF OrderInv, VersionOrder
  <2> QED BY <2>1, <2>3 DEF VersionOrder
<1>7. ParentsOldest'
  <2> SUFFICES ASSUME NEW d \in Tasks \ {c}, Owns(d), NEW p \in task[d].parents,
                      NEW s \in tables'[task[d].level] \ task[d].parents,
                      NEW k \in Keys, p.data[k] > 0, s.data[k] > 0
               PROVE  task[d].level = 0 /\ p.data[k] < s.data[k]
    BY <1>4 DEF ParentsOldest, Owns
  <2>1. task[d].level \in Level /\ p \in tables[task[d].level]
    BY <1>0, OwnerLevel DEF OwnershipInv, FlagsOwned
  <2>2. CASE s \in tables[task[d].level]
    BY <2>2 DEF OrderInv, ParentsOldest
  <2>3. CASE task[d].level = l + 1 /\ s = new
    <3>1. p \notin C
      <4>1. p \in Selected(d) /\ C \subseteq Selected(c)
        BY DEF Selected, C
      <4>2. Ids(Selected(c)) \cap Ids(Selected(d)) = {}
        BY DEF OwnershipInv, FlagsOwned
      <4> QED BY <4>1, <4>2 DEF Ids
    <3>2. p \in Table /\ new \in Table
      BY <1>0, <2>1, TableNumbers
    <3>3. k \in Span(KeysOf({p})) /\ k \in Span(KeysOf({new}))
      BY <2>3, <3>2, KeyInSpan
    <3> QED BY <1>2, <2>1, <2>3, <3>1, <3>3
  <2> QED BY Zenon, <1>4, <2>1, <2>2, <2>3
<1>8. FlushNewest'
  <2> DEFINE bound == IF flush.pc = "added" THEN flush.seq ELSE seq_offset
  <2>1. \A m \in Level : \A t \in tables[m] : \A k \in Keys : t.data[k] < bound
    BY DEF OrderInv, FlushNewest
  <2> HIDE DEF bound
  <2>2. \A k \in Keys : new.data[k] < bound
    BY <1>4, <1>5, <2>1
  <2>3. \A m \in Level : \A t \in tables'[m] : \A k \in Keys : t.data[k] < bound
    BY <1>4, <2>1, <2>2
  <2>4. tables'[0] \subseteq tables[0]
    BY <1>4, LevelFacts
  <2> QED BY <1>4, <2>3, <2>4 DEF OrderInv, FlushNewest, bound
<1> QED BY <1>6, <1>7, <1>8 DEF OrderInv

\* A new database has no tables to be out of order.
LEMMA OrderInit == Init => OrderInv
<1> SUFFICES ASSUME Init PROVE OrderInv
  OBVIOUS
<1>1. /\ \A l \in Level : tables[l] = {}
      /\ flush.pc = "idle" /\ seq_offset = 1
      /\ \A c \in Tasks : ~Owns(c)
  BY DEF Init, NoFlush, Idle, At, Owns
<1> QED BY <1>1, LevelFacts
  DEF OrderInv, VersionOrder, ParentsOldest, FlushNewest

\* A restart only takes tables away, and the ones it finds hold no sequence
\* number that will be given out again.
LEMMA OrderReopenStep ==
  ASSUME OwnershipInv, ManifestInv, OrderInv, Reopen
  PROVE  OrderInv'
<1>1. /\ \A l \in Level : \A t \in tables'[l] : t \in tables[l] /\ t.id \in manifest[l]
      /\ flush'.pc = "idle" /\ seq_offset' = seq_offset
      /\ \A c \in Tasks : ~Owns(c)'
      /\ NoPanic
  BY DEF Reopen, NoFlush, Idle, At, Owns, NoPanic
<1>2. VersionOrder'
  BY <1>1, LevelFacts DEF OrderInv, VersionOrder
<1>3. ParentsOldest'
  BY <1>1 DEF ParentsOldest
<1>4. FlushNewest'
  BY <1>1 DEF OrderInv, FlushNewest, ManifestInv
<1> QED BY <1>2, <1>3, <1>4 DEF OrderInv

\* Every step keeps the newer entry of a key above the older one.
LEMMA OrderStep ==
  ASSUME OwnershipInv, ManifestInv, OrderInv, [Next]_levelVars
  PROVE  OrderInv'
<1>0. TypeOK
  BY DEF OwnershipInv
<1>1. ASSUME NEW n \in seq_offset + 1 .. seq_offset + MaxBatch,
             NEW d \in FreshData(n), FlushBuild(d, n)
      PROVE  OrderInv'
  <2>1. /\ UNCHANGED <<tables, seq_offset, task>>
        /\ flush.pc = "idle" /\ flush'.pc = "build" /\ flush'.id = next_id
        /\ flush'.data = d /\ flush'.seq = n
    BY <1>1 DEF FlushBuild
  <2>2. VersionOrder' /\ ParentsOldest'
    BY <2>1, OrderQuietStep DEF Owns
  <2>3. n \in Nat /\ seq_offset < n
    BY <1>0, <1>1, TableNumbers, ConstantsAssumption
  <2>4. \A k \in Keys : /\ d[k] > 0 => seq_offset <= d[k]
                        /\ d[k] < n
    BY <1>0, <2>3, TableNumbers DEF FreshData
  <2>5. \A t \in tables[0] : t.id < next_id
    BY LevelFacts DEF OwnershipInv, IdsGenerated
  <2>6. FlushNewest'
    BY <1>0, <2>1, <2>3, <2>4, <2>5, TableNumbers DEF OrderInv, FlushNewest
  <2> QED BY <2>2, <2>6 DEF OrderInv
<1>2. CASE add_l0_table
  BY <1>2, OrderAddL0Step
<1>9. CASE FlushManifest
  <2>1. /\ UNCHANGED <<tables, task, seq_offset>>
        /\ flush.pc = "numbered" /\ flush'.pc = "idle"
    BY <1>9 DEF FlushManifest, NoFlush
  <2>2. VersionOrder' /\ ParentsOldest'
    BY <2>1, OrderQuietStep DEF Owns
  <2>3. FlushNewest'
    BY <2>1 DEF OrderInv, FlushNewest
  <2> QED BY <2>2, <2>3 DEF OrderInv
<1>3. CASE set_seq_number_offset
  <2>1. /\ UNCHANGED <<tables, task>> /\ seq_offset' = flush.seq
        /\ flush.pc = "added" /\ flush'.pc = "numbered"
        /\ flush'.seq = flush.seq
    BY <1>3 DEF set_seq_number_offset
  <2>2. VersionOrder' /\ ParentsOldest'
    BY <2>1, OrderQuietStep DEF Owns
  <2>3. FlushNewest'
    BY <1>0, <2>1, TableNumbers DEF OrderInv, FlushNewest
  <2> QED BY <2>2, <2>3 DEF OrderInv
<1>4. ASSUME NEW c \in Tasks,
             \/ do_level_compaction(c) \/ NothingToCompact(c)
             \/ StartContended(c) \/ OverlapsContended(c)
      PROVE  OrderInv'
  <2>1. /\ UNCHANGED <<tables, seq_offset, flush>>
        /\ \/ task' = [task EXCEPT ![c] = Selecting(0)]
           \/ task' = [task EXCEPT ![c] = NextLevel(c)]
    BY <1>4 DEF do_level_compaction, NothingToCompact, StartContended,
                OverlapsContended
  <2>2. /\ task'[c].pc \in {"idle", "select"}
        /\ \A e \in Tasks \ {c} : task'[e] = task[e]
    BY <1>0, <2>1, NextLevelFacts DEF TypeOK, Selecting, At
  <2>3. VersionOrder' /\ ParentsOldest'
    BY <2>1, <2>2, OrderQuietStep DEF Owns
  <2> QED BY <2>1, <2>3 DEF OrderInv, FlushNewest
<1>5. ASSUME NEW c \in Tasks, get_overlaps(c) \/ LockParentLevel(c)
      PROVE  OrderInv'
  <2>1. /\ UNCHANGED <<tables, seq_offset, flush>>
        /\ task[c].pc \in {"overlaps", "build"}
        /\ \E pc, C, id : task' = [task EXCEPT ![c] =
             At(pc, task[c].level, task[c].parents, C, id)]
    BY <1>5 DEF get_overlaps, LockParentLevel
  <2>2. /\ task'[c].level = task[c].level
        /\ task'[c].parents = task[c].parents
        /\ \A e \in Tasks \ {c} : task'[e] = task[e]
    BY <1>0, <2>1 DEF TypeOK, At
  <2>3. VersionOrder' /\ ParentsOldest'
    BY <2>1, <2>2, OrderQuietStep DEF Owns
  <2> QED BY <2>1, <2>3 DEF OrderInv, FlushNewest
<1>6. ASSUME NEW c \in Tasks, maybe_start_compaction(c) PROVE OrderInv'
  BY <1>6, OrderStartStep
<1>7. ASSUME NEW c \in Tasks, compact_level(c) \/ fast_compaction(c)
      PROVE  OrderInv'
  BY <1>7, OrderSwapStep
<1>8. ASSUME NEW l \in Level, TriggerSeek(l) \/ UNCHANGED levelVars
      PROVE  OrderInv'
  <2>1. UNCHANGED <<tables, seq_offset, flush, task>>
    BY <1>8 DEF TriggerSeek, levelVars
  <2>2. VersionOrder' /\ ParentsOldest'
    BY <2>1, OrderQuietStep DEF Owns
  <2> QED BY <2>1, <2>2 DEF OrderInv, FlushNewest
<1>10. CASE Reopen
  BY <1>10, OrderReopenStep
<1> QED
  BY <1>1, <1>2, <1>3, <1>4, <1>5, <1>6, <1>7, <1>8, <1>9, <1>10, LevelFacts
  DEF Next, Flush, Compact, Work

-----------------------------------------------------------------------------
(* The manifest lists the tables.                                           *)

\* A compaction that ends without a panic moves its tables in the manifest as
\* it does on the levels.
LEMMA ManifestSwapStep ==
  ASSUME OwnershipInv, ManifestInv, NEW c \in Tasks,
         compact_level(c) \/ fast_compaction(c)
  PROVE  ManifestInv'
<1> DEFINE l == task[c].level
           P == task[c].parents
           C == task[c].children
           id == task[c].id
<1> SUFFICES ASSUME NoPanic' PROVE ManifestInv'
  BY DEF ManifestInv
<1>0. PICK new \in Table : Swapped(c, l, P, C, new)
  BY SwapEffect
<1>1. /\ l \in Level /\ l + 1 \in Level /\ l \in Nat
      /\ P \subseteq tables[l] /\ C \subseteq tables[l + 1]
      /\ \A d \in Tasks \ {c} : task'[d] = task[d]
      /\ UNCHANGED <<seq_offset, flush>>
      /\ new.id = id
      /\ tables'[l] = tables[l] \ P
      /\ tables'[l + 1] = (tables[l + 1] \ C) \cup {new}
      /\ \A m \in Level \ {l, l + 1} : tables'[m] = tables[m]
      /\ Merging(c) /\ P \subseteq Table /\ C \subseteq Table
      /\ IsMove(P, C) => P = {new} /\ C = {}
      /\ ~IsMove(P, C) => Merge(P \cup C, new.data)
  BY Zenon, <1>0 DEF Swapped, Swaps
<1>2. task[c].pc = "locked" /\ update_table_set(c, l, P, C, id)
  BY DEF compact_level, fast_compaction
<1>3. TypeOK
  BY DEF OwnershipInv
<1>4. NoPanic
  BY <1>1, <1>2 DEF NoPanic
<1>5. /\ Ids(P) \subseteq manifest[l]
      /\ manifest' = [manifest EXCEPT ![l] = @ \ Ids(P),
                                      ![l + 1] = (@ \cup {id}) \ Ids(C)]
  <2>1. ASSUME task' = [task EXCEPT ![c] = At("dead", 0, {}, {}, 0)]
        PROVE  FALSE
    BY <1>3, <2>1 DEF TypeOK, At, NoPanic
  <2> QED BY <1>2, <2>1 DEF update_table_set
<1>6. /\ manifest'[l] = manifest[l] \ Ids(P)
      /\ manifest'[l + 1] = (manifest[l + 1] \cup {id}) \ Ids(C)
      /\ \A m \in Level \ {l, l + 1} : manifest'[m] = manifest[m]
  BY <1>1, <1>3, <1>5 DEF TypeOK
<1> HIDE DEF l, P, C, id
<1>7. id \notin Ids(C)
  <2>1. IsMove(P, C) \/ id \notin Ids(tables[l + 1])
    BY Zenon, <1>1 DEF OwnershipInv, IdsUnique, P, C, id
  <2> QED BY <1>1, <2>1 DEF Ids, IsMove
<1>8. /\ \A t \in tables[l] \ P : t.id \notin Ids(P)
      /\ \A t \in tables[l + 1] \ C : t.id \notin Ids(C)
  <2>1. \A m \in Level : \A s, t \in tables[m] : s.id = t.id => s = t
    BY Zenon DEF OwnershipInv, IdsUnique
  <2>2. /\ l \in Level /\ l + 1 \in Level
        /\ P \subseteq tables[l] /\ C \subseteq tables[l + 1]
    BY <1>1
  <2> QED BY <2>1, <2>2 DEF Ids
<1>9. \A m \in Level : manifest'[m] \subseteq Ids(tables'[m])
  <2>1. \A m \in Level : manifest[m] \subseteq Ids(tables[m])
    BY <1>4 DEF ManifestInv
  <2>2. manifest'[l] \subseteq Ids(tables'[l])
    BY <1>1, <1>6, <2>1 DEF Ids
  <2>3. manifest'[l + 1] \subseteq Ids(tables'[l + 1])
    BY <1>1, <1>6, <2>1 DEF Ids
  <2> QED BY Zenon, <1>1, <1>6, <2>1, <2>2, <2>3
<1>10. \A m \in Level : \A t \in tables'[m] :
         \/ t.id \in manifest'[m]
         \/ m = 0 /\ flush'.pc \in {"added", "numbered"} /\ t.id = flush'.id
  <2>1. \A m \in Level : \A t \in tables[m] :
          \/ t.id \in manifest[m]
          \/ m = 0 /\ flush.pc \in {"added", "numbered"} /\ t.id = flush.id
    BY <1>4 DEF ManifestInv
  <2> QED BY <1>1, <1>6, <1>7, <1>8, <2>1
<1>11. flush'.pc \in {"added", "numbered"} =>
         flush'.id \in Ids(tables'[0]) /\ flush'.id \notin manifest'[0]
  <2> SUFFICES ASSUME flush.pc \in {"added", "numbered"}
               PROVE  flush.id \in Ids(tables'[0]) /\ flush.id \notin manifest'[0]
    BY <1>1
  <2>1. PICK t \in tables[0] : t.id = flush.id
    BY <1>4 DEF ManifestInv, Ids
  <2>2. flush.id \notin manifest[0]
    BY <1>4 DEF ManifestInv
  <2>3. l + 1 # 0
    BY <1>1
  <2>4. t \in tables'[0]
    <3>1. CASE l = 0
      <4>1. t \notin P
        BY <1>5, <2>1, <2>2, <3>1 DEF Ids
      <4> QED BY <1>1, <2>1, <3>1, <4>1
    <3>2. CASE l # 0
      BY <1>1, <2>1, <2>3, <3>2, LevelFacts
    <3> QED BY <3>1, <3>2
  <2>5. flush.id \notin manifest'[0]
    BY <1>6, <2>2, <2>3, LevelFacts
  <2> QED BY <2>1, <2>4, <2>5 DEF Ids
<1>12. \A k \in Keys : new.data[k] < seq_offset
  <2>1. \A t \in P \cup C : \A k \in Keys : t.data[k] < seq_offset
    <3>1. \A t \in P : t.id \in manifest[l]
      BY <1>5 DEF Ids
    <3>2. \A t \in C : t.id \in manifest[l + 1]
      BY <1>1, <1>4 DEF ManifestInv
    <3> QED BY <1>1, <1>4, <3>1, <3>2 DEF ManifestInv
  <2> QED BY <1>1, <2>1 DEF Merge
<1>13. \A m \in Level : \A t \in tables'[m] :
         t.id \in manifest'[m] => \A k \in Keys : t.data[k] < seq_offset'
  <2>1. \A m \in Level : \A t \in tables[m] :
          t.id \in manifest[m] => \A k \in Keys : t.data[k] < seq_offset
    BY <1>4 DEF ManifestInv
  <2>2. \A t \in tables[l + 1] : t.id \in manifest[l + 1]
    BY <1>1, <1>4 DEF ManifestInv
  <2> QED BY <1>1, <1>6, <1>12, <2>1, <2>2
<1> QED BY <1>9, <1>10, <1>11, <1>13 DEF ManifestInv

\* Every step keeps the manifest in accord with the levels.
LEMMA ManifestStep ==
  ASSUME OwnershipInv, ManifestInv, OrderInv, [Next]_levelVars
  PROVE  ManifestInv'
<1>0. TypeOK
  BY DEF OwnershipInv
<1>1. ASSUME NEW n, NEW d, FlushBuild(d, n) PROVE ManifestInv'
  <2>1. /\ UNCHANGED <<tables, manifest, task, seq_offset>>
        /\ flush.pc = "idle" /\ flush'.pc = "build"
    BY <1>1 DEF FlushBuild
  <2> QED BY <2>1 DEF ManifestInv, NoPanic
<1>2. CASE add_l0_table
  <2> DEFINE new == [id |-> flush.id, data |-> flush.data]
  <2>1. /\ UNCHANGED <<manifest, task, seq_offset>>
        /\ tables'[0] = tables[0] \cup {new} /\ new.id = flush.id
        /\ \A m \in Level \ {0} : tables'[m] = tables[m]
        /\ flush.pc = "build" /\ flush'.pc = "added" /\ flush'.id = flush.id
    BY <1>0, <1>2, LevelFacts DEF add_l0_table, TypeOK
  <2> HIDE DEF new
  <2> SUFFICES ASSUME NoPanic PROVE ManifestInv'
    BY <2>1 DEF ManifestInv, NoPanic
  <2>2. flush.id \notin Ids(tables[0]) /\ flush.id \notin manifest[0]
    BY <2>1, LevelFacts DEF OwnershipInv, IdsUnique, ManifestInv
  <2>3. \A l \in Level : manifest'[l] \subseteq Ids(tables'[l])
    BY <2>1 DEF ManifestInv, Ids
  <2>4. \A l \in Level : \A t \in tables'[l] :
          \/ t.id \in manifest'[l]
          \/ l = 0 /\ t.id = flush'.id
    BY <2>1 DEF ManifestInv
  <2>5. flush'.id \in Ids(tables'[0]) /\ flush'.id \notin manifest'[0]
    BY <2>1, <2>2 DEF Ids
  <2>6. \A l \in Level : \A t \in tables'[l] :
          t.id \in manifest'[l] => \A k \in Keys : t.data[k] < seq_offset'
    BY <2>1, <2>2 DEF ManifestInv
  <2> QED BY <2>1, <2>3, <2>4, <2>5, <2>6 DEF ManifestInv
<1>3. CASE set_seq_number_offset
  <2>1. /\ UNCHANGED <<tables, manifest, task>>
        /\ flush.pc = "added" /\ flush'.pc = "numbered" /\ flush'.id = flush.id
        /\ seq_offset' = flush.seq
    BY <1>3 DEF set_seq_number_offset
  <2>2. \A l \in Level : \A t \in tables[l] : \A k \in Keys :
          t.data[k] < flush.seq
    BY <2>1 DEF OrderInv, FlushNewest
  <2> QED BY <2>1, <2>2 DEF ManifestInv, NoPanic
<1>4. CASE FlushManifest
  <2>1. /\ UNCHANGED <<tables, task, seq_offset>>
        /\ manifest'[0] = manifest[0] \cup {flush.id}
        /\ \A m \in Level \ {0} : manifest'[m] = manifest[m]
        /\ flush.pc = "numbered" /\ flush'.pc = "idle"
    BY <1>0, <1>4, LevelFacts DEF FlushManifest, NoFlush, TypeOK
  <2>2. \A l \in Level : \A t \in tables[l] : \A k \in Keys :
          t.data[k] < seq_offset
    BY <2>1 DEF OrderInv, FlushNewest
  <2> QED BY <2>1, <2>2 DEF ManifestInv, NoPanic
<1>5. ASSUME NEW c \in Tasks,
             \/ do_level_compaction(c) \/ NothingToCompact(c)
             \/ StartContended(c) \/ OverlapsContended(c)
             \/ maybe_start_compaction(c) \/ get_overlaps(c)
             \/ LockParentLevel(c)
      PROVE  ManifestInv'
  <2>1. /\ UNCHANGED <<tables, manifest, seq_offset, flush>>
        /\ task[c].pc # "dead"
        /\ \E x : task' = [task EXCEPT ![c] = x]
    BY Zenon, <1>5 DEF do_level_compaction, NothingToCompact, StartContended,
         OverlapsContended, maybe_start_compaction, get_overlaps,
         LockParentLevel
  <2>2. NoPanic' => NoPanic
    BY <1>0, <2>1 DEF NoPanic, TypeOK
  <2> QED BY <2>1, <2>2 DEF ManifestInv
<1>6. ASSUME NEW c \in Tasks, compact_level(c) \/ fast_compaction(c)
      PROVE  ManifestInv'
  BY <1>6, ManifestSwapStep
<1>7. ASSUME NEW l \in Level, TriggerSeek(l) \/ UNCHANGED levelVars
      PROVE  ManifestInv'
  <2>1. UNCHANGED <<tables, manifest, seq_offset, flush, task>>
    BY <1>7 DEF TriggerSeek, levelVars
  <2> QED BY Zenon, <2>1 DEF ManifestInv, NoPanic
<1>8. CASE Reopen
  <2>1. /\ \A l \in Level : tables'[l] = {t \in tables[l] : t.id \in manifest[l]}
        /\ UNCHANGED <<manifest, seq_offset>>
        /\ flush'.pc = "idle" /\ NoPanic
    BY <1>8 DEF Reopen, NoFlush, NoPanic
  <2>2. \A l \in Level : manifest'[l] \subseteq Ids(tables'[l])
    BY <2>1 DEF ManifestInv, Ids
  <2> QED BY <2>1, <2>2 DEF ManifestInv
<1> QED
  BY <1>1, <1>2, <1>3, <1>4, <1>5, <1>6, <1>7, <1>8, LevelFacts
  DEF Next, Flush, Compact, Work

\* The three halves of the invariant hold together: the order of versions
\* survives a restart because of what the manifest lists.
LEMMA InvariantHolds == Spec => [](OwnershipInv /\ ManifestInv /\ OrderInv)
<1>1. Init => OwnershipInv /\ ManifestInv /\ OrderInv
  <2>1. Init => ManifestInv
    BY LevelFacts DEF Init, ManifestInv, NoFlush, Ids
  <2> QED BY <2>1, OwnershipInit, OrderInit
<1>2. OwnershipInv /\ ManifestInv /\ OrderInv /\ [Next]_levelVars
        => (OwnershipInv /\ ManifestInv /\ OrderInv)'
  BY OwnershipStep, ManifestStep, OrderStep
<1> QED BY <1>1, <1>2, PTL DEF Spec

\* As long as update_table_set has not panicked, the manifest and the levels
\* agree but for the table being flushed, so that a restart at any point of a
\* compaction or a flush loads the tables of one consistent set of levels.
THEOREM ManifestListsEveryTable == Spec => []ManifestListsTables
<1>1. OwnershipInv /\ ManifestInv => ManifestListsTables
  <2> SUFFICES ASSUME ManifestInv, NoPanic, NEW l \in Level
               PROVE  manifest[l] = Ids(tables[l]) \
                        (IF l = 0 /\ flush.pc \in {"added", "numbered"}
                         THEN {flush.id} ELSE {})
    BY DEF ManifestListsTables, NoPanic
  <2> QED BY DEF ManifestInv, Ids
<1> QED BY <1>1, InvariantHolds, PTL

\* Level::get returns the newest entry of the level it searches and of those
\* below it: on level 0 the table with the largest id is searched first, and on
\* another level only one table can have the key.
LEMMA FirstHitNewest ==
  ASSUME OwnershipInv, OrderInv,
         NEW k \in Keys, NEW l \in Level, NEW m \in Level, l <= m,
         NEW t \in tables[l], NEW s \in tables[m],
         t.data[k] > 0, l = 0 => \A u \in Holding(0, k) : u.id <= t.id
  PROVE  s.data[k] <= t.data[k]
<1>1. /\ s.data[k] \in Nat /\ t.data[k] \in Nat /\ s.id \in Nat /\ t.id \in Nat
      /\ l \in Nat /\ m \in Nat /\ s \in Table /\ t \in Table
  BY TableNumbers, LevelFacts DEF OwnershipInv
<1>2. CASE l < m
  BY <1>1, <1>2 DEF OrderInv, VersionOrder
<1>3. CASE l = m /\ l = 0
  <2>1. CASE s.data[k] = 0
    BY <1>1, <2>1
  <2>2. CASE s.data[k] > 0 /\ s.id < t.id
    BY <1>1, <1>3, <2>2 DEF OrderInv, VersionOrder
  <2>3. CASE s.data[k] > 0 /\ ~(s.id < t.id)
    <3>1. s.id = t.id
      BY <1>1, <1>3, <2>3 DEF Holding
    <3>2. s = t
      BY <3>1, <1>3 DEF OwnershipInv, IdsUnique
    <3> QED BY <1>1, <3>2
  <2> QED BY <1>1, <2>1, <2>2, <2>3
<1>4. CASE l = m /\ l # 0
  <2> SUFFICES ASSUME s.data[k] > 0, s # t PROVE FALSE
    BY <1>1
  <2>1. k \in Span(KeysOf({s})) /\ k \in Span(KeysOf({t}))
    BY <1>1, KeyInSpan
  <2>2. Span(KeysOf({s})) \cap Span(KeysOf({t})) = {}
    BY Zenon, <1>4 DEF OwnershipInv, LevelsDisjoint
  <2> QED BY Zenon, <2>1, <2>2
<1> QED BY <1>1, <1>2, <1>3, <1>4

\* A search from level 0 on therefore finds the newest entry of all.
LEMMA SearchFindsNewest ==
  ASSUME OwnershipInv, OrderInv
  PROVE  LookupNewest
<1> SUFFICES ASSUME NEW k \in Keys,
                    NEW l \in Level, NEW m \in Level,
                    NEW t \in tables[l], NEW s \in tables[m],
                    StopsAt(l, t, k)
             PROVE  s.data[k] <= t.data[k]
  BY DEF LookupNewest
<1>1. /\ t.data[k] > 0
      /\ \A n \in Level : n < l => Holding(n, k) = {}
      /\ l = 0 => \A u \in Holding(0, k) : u.id <= t.id
  BY DEF StopsAt, Holding
<1>2. s.data[k] \in Nat /\ t.data[k] \in Nat /\ l \in Nat /\ m \in Nat
  BY TableNumbers, LevelFacts DEF OwnershipInv
<1>3. CASE m < l
  BY <1>1, <1>2, <1>3 DEF Holding
<1>4. CASE l <= m
  BY <1>1, <1>4, FirstHitNewest
<1> QED BY <1>2, <1>3, <1>4

\* A search of the levels, which stops at the first table that has the key,
\* always finds the newest entry, whatever compactions are under way.
THEOREM LookupFindsNewest == Spec => []LookupNewest
<1>1. OwnershipInv /\ OrderInv => LookupNewest
  BY SearchFindsNewest
<1> QED BY <1>1, InvariantHolds, PTL

-----------------------------------------------------------------------------
(* Compactions change no result of a search.                                *)

\* x is the largest sequence number that any table holds for k.
IsNewest(x, k) ==
  \E l \in Level : \E t \in tables[l] :
    /\ x = t.data[k] /\ t.data[k] > 0
    /\ \A m \in Level : \A s \in tables[m] : s.data[k] <= t.data[k]

\* That is what a search of the levels for k finds, in every state the
\* invariant allows.
ResultsNewest == \A k \in Keys : \A x : x \in Results(k) <=> IsNewest(x, k)

\* A search ends at a table with the newest entry of the key, and every such
\* entry is one a search can end at.
LEMMA ResultsAreNewest == OwnershipInv /\ OrderInv => ResultsNewest
<1> SUFFICES ASSUME OwnershipInv, OrderInv, NEW k \in Keys, NEW x
             PROVE  x \in Results(k) <=> IsNewest(x, k)
  BY DEF ResultsNewest
<1>1. ASSUME x \in Results(k) PROVE IsNewest(x, k)
  <2>1. PICK l \in Level : \E t \in tables[l] : StopsAt(l, t, k) /\ x = t.data[k]
    BY <1>1 DEF Results, StopsAt, Holding
  <2>3. PICK t \in tables[l] : StopsAt(l, t, k) /\ x = t.data[k]
    BY <2>1
  <2>2. t \in tables[l] /\ t.data[k] > 0
    BY <2>3 DEF StopsAt, Holding
  <2> QED BY <2>2, <2>3, SearchFindsNewest DEF LookupNewest, IsNewest
<1>2. ASSUME NEW l \in Level, NEW t \in tables[l], x = t.data[k], t.data[k] > 0,
             \A m \in Level : \A s \in tables[m] : s.data[k] <= t.data[k]
      PROVE  x \in Results(k)
  <2>1. t.data[k] \in Nat /\ t.id \in Nat
    BY TableNumbers DEF OwnershipInv
  <2>2. ASSUME NEW m \in Level, m < l, NEW s \in Holding(m, k) PROVE FALSE
    <3>1. s \in tables[m] /\ s.data[k] > 0
      BY <2>2 DEF Holding
    <3>2. t.data[k] < s.data[k] /\ s.data[k] <= t.data[k] /\ s.data[k] \in Nat
      BY <1>2, <2>2, <3>1, TableNumbers DEF OwnershipInv, OrderInv, VersionOrder
    <3> QED BY <2>1, <3>2
  <2>3. ASSUME l = 0, NEW s \in Holding(0, k) PROVE s.id <= t.id
    <3>1. s \in tables[0] /\ t \in tables[0] /\ s.data[k] > 0
      BY <2>3 DEF Holding
    <3>2. s.data[k] <= t.data[k] /\ s.data[k] \in Nat /\ s.id \in Nat
      BY <1>2, <2>3, <3>1, TableNumbers, LevelFacts DEF OwnershipInv
    <3>3. ~(t.id < s.id)
      BY <2>1, <3>1, <3>2 DEF OrderInv, VersionOrder
    <3> QED BY <2>1, <3>2, <3>3
  <2>4. StopsAt(l, t, k)
    BY <1>2, <2>2, <2>3 DEF StopsAt, Holding
  <2> QED BY <1>2, <2>4 DEF Results
<1> QED BY <1>1, <1>2 DEF IsNewest

\* The same of the next state.
LEMMA ResultsAreNewestNext == OwnershipInv' /\ OrderInv' => ResultsNewest'
BY ResultsAreNewest, PTL

\* The largest sequence number of a key is found in the new table, or in one
\* that the compaction leaves alone.
LEMMA SwapKeepsResults ==
  ASSUME OwnershipInv, OrderInv, OwnershipInv', OrderInv', NEW c \in Tasks,
         compact_level(c) \/ fast_compaction(c), NEW k \in Keys
  PROVE  Results(k)' = Results(k)
<1> DEFINE l == task[c].level
           P == task[c].parents
           C == task[c].children
<1>1. PICK new \in Table : Swapped(c, l, P, C, new)
  BY SwapEffect
<1> HIDE DEF l, P, C
<1>2. /\ l \in Level /\ l + 1 \in Level /\ l \in Nat
      /\ P \subseteq tables[l] /\ C \subseteq tables[l + 1]
      /\ tables'[l] = tables[l] \ P
      /\ tables'[l + 1] = (tables[l + 1] \ C) \cup {new}
      /\ \A m \in Level \ {l, l + 1} : tables'[m] = tables[m]
      /\ \A m \in Level : \A t \in tables'[m] :
           t \in tables[m] \/ (m = l + 1 /\ t = new)
  BY <1>1 DEF Swapped
<1>3. /\ \E u \in P \cup C : new.data[k] = u.data[k]
      /\ \A u \in P \cup C : u.data[k] <= new.data[k]
  <2>1. CASE IsMove(P, C)
    <3>1. P \cup C = {new} /\ new.data[k] \in Nat
      BY <1>1, <2>1, TableNumbers DEF Swapped, Swaps, OwnershipInv
    <3> QED BY <3>1
  <2>2. CASE ~IsMove(P, C)
    <3>1. Merge(P \cup C, new.data)
      BY <1>1, <2>2 DEF Swapped, Swaps
    <3> QED BY <3>1 DEF Merge
  <2> QED BY <2>1, <2>2
<1>4. \A m \in Level : \A t \in tables'[m] :
        \E n \in Level : \E u \in tables[n] : t.data[k] = u.data[k]
  BY <1>2, <1>3
<1>5. \A m \in Level : \A t \in tables[m] :
        \E n \in Level : \E u \in tables'[n] : t.data[k] <= u.data[k]
  <2> SUFFICES ASSUME NEW m \in Level, NEW t \in tables[m]
               PROVE  \E n \in Level : \E u \in tables'[n] : t.data[k] <= u.data[k]
    OBVIOUS
  <2>1. t.data[k] \in Nat
    BY TableNumbers DEF OwnershipInv
  <2>2. CASE t \in P \cup C
    BY <1>2, <1>3, <2>2
  <2>3. CASE t \notin P \cup C
    <3>1. t \in tables'[m]
      BY <1>2, <2>3
    <3> QED BY <2>1, <3>1
  <2> QED BY <2>2, <2>3
<1>6. /\ \A m \in Level : \A t \in tables[m] : t.data[k] \in Nat
      /\ \A m \in Level : \A t \in tables'[m] : t.data[k] \in Nat
  BY <1>4, TableNumbers DEF OwnershipInv
<1>7. ASSUME NEW x \in Results(k) PROVE x \in Results(k)'
  <2>1. IsNewest(x, k)
    BY <1>7, ResultsAreNewest DEF ResultsNewest
  <2>2. /\ x > 0 /\ x \in Nat
        /\ \A n \in Level : \A s \in tables[n] : s.data[k] <= x
        /\ \E m \in Level : \E t \in tables[m] : t.data[k] = x
    BY <1>6, <2>1 DEF IsNewest
  <2>3. \A n \in Level : \A s \in tables'[n] : s.data[k] <= x
    BY <1>4, <2>2
  <2>4. \E n \in Level : \E u \in tables'[n] : x <= u.data[k]
    BY <1>5, <2>2
  <2>5. IsNewest(x, k)'
    BY <1>6, <2>2, <2>3, <2>4 DEF IsNewest
  <2> QED BY <2>5, ResultsAreNewestNext DEF ResultsNewest
<1>8. ASSUME NEW x \in Results(k)' PROVE x \in Results(k)
  <2>1. IsNewest(x, k)'
    BY <1>8, ResultsAreNewestNext DEF ResultsNewest
  <2>2. /\ x > 0 /\ x \in Nat
        /\ \A n \in Level : \A s \in tables'[n] : s.data[k] <= x
        /\ \E m \in Level : \E t \in tables'[m] : t.data[k] = x
    BY <1>6, <2>1 DEF IsNewest
  <2>3. \A n \in Level : \A s \in tables[n] : s.data[k] <= x
    BY <1>5, <1>6, <2>2
  <2>4. \E n \in Level : \E u \in tables[n] : x = u.data[k]
    BY <1>4, <2>2
  <2>5. IsNewest(x, k)
    BY <1>6, <2>2, <2>3, <2>4 DEF IsNewest
  <2> QED BY <2>5, ResultsAreNewest DEF ResultsNewest
<1> QED BY <1>7, <1>8

\* A compaction, at any point of its run and however many others are under way,
\* changes no result of a search.
LEMMA CompactKeepsResults ==
  ASSUME OwnershipInv, OrderInv, OwnershipInv', OrderInv', NEW c \in Tasks,
         Compact(c), NEW k \in Keys
  PROVE  Results(k)' = Results(k)
<1>1. CASE compact_level(c) \/ fast_compaction(c)
  BY <1>1, SwapKeepsResults
<1>2. CASE ~(compact_level(c) \/ fast_compaction(c))
  <2>1. tables' = tables
    BY Zenon, <1>2 DEF Compact, Work, do_level_compaction, NothingToCompact,
         maybe_start_compaction, StartContended, get_overlaps, OverlapsContended,
         LockParentLevel
  <2> QED BY <2>1 DEF Results, StopsAt, Holding
<1> QED BY <1>1, <1>2

\* What level compactions do to the levels is invisible to a reader: only a
\* table that add_l0_table adds changes the result of a search.
THEOREM CompactionsPreserveLookup == Spec => CompactionPreservesLookup
<1> DEFINE Inv == OwnershipInv /\ ManifestInv /\ OrderInv
<1>1. Inv /\ Inv' /\ [Next]_levelVars =>
        [(\E c \in Tasks : Compact(c)) =>
           \A k \in Keys : Results(k)' = Results(k)]_levelVars
  BY CompactKeepsResults
<1> QED BY <1>1, InvariantHolds, PTL DEF Spec, CompactionPreservesLookup
=============================================================================
