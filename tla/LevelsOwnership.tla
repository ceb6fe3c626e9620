-------------------------- MODULE LevelsOwnership ---------------------------
(* The inductive invariant of Levels, its types, and who owns a table: a   *)
(* table is compacted by one task, and the levels below 0 stay disjoint,   *)
(* for any number of keys, levels, tasks and tables.                       *)
EXTENDS Levels, TLAPS

-----------------------------------------------------------------------------
(* The inductive invariant.                                                 *)

\* The range of keys a compaction reserves on its child level.
Reserved(c) == Span(KeysOf(task[c].parents \cup task[c].children))
Selected(c) == task[c].parents \cup task[c].children

\* Ids come from a counter: no table and no task has one that is yet to be
\* generated.
IdsGenerated ==
  /\ \A l \in Level : \A t \in tables[l] : t.id < next_id
  /\ flush.pc = "build" => flush.id < next_id
  /\ \A c \in Tasks : Merging(c) => task[c].id < next_id

\* An id names one table, on one level, and a table that is still being built
\* has an id of its own.
IdsUnique ==
  /\ \A l, m \in Level : \A s \in tables[l], t \in tables[m] :
       s.id = t.id => l = m /\ s = t
  /\ flush.pc = "build" => \A l \in Level : flush.id \notin Ids(tables[l])
  /\ \A c \in Tasks : Merging(c) =>
       IF IsMove(task[c].parents, task[c].children)
       THEN task[c].id \in Ids(task[c].parents)
       ELSE /\ \A l \in Level : task[c].id \notin Ids(tables[l])
            /\ flush.pc = "build" => flush.id # task[c].id
  /\ \A c, d \in Tasks : c # d /\ Merging(c) /\ Merging(d) =>
       task[c].id # task[d].id

\* A task holds the flags of the tables it selected, which stay where they
\* are, and no flag is held by two tasks.
FlagsOwned ==
  /\ \A c \in Tasks :
       /\ Owns(c) => task[c].parents \subseteq tables[task[c].level]
       /\ Merging(c) => task[c].children \subseteq tables[task[c].level + 1]
       /\ Ids(Selected(c)) \subseteq compacting
       /\ ~Owns(c) => task[c].parents = {}
       /\ ~Merging(c) => task[c].children = {}
  /\ \A c, d \in Tasks : c # d => Ids(Selected(c)) \cap Ids(Selected(d)) = {}

\* A reserved range has its placeholder, is disjoint from the other ranges
\* reserved on the level, and from every table there that is not about to be
\* merged.
RangesReserved ==
  /\ \A c \in Tasks : Merging(c) =>
       /\ [id |-> task[c].id, range |-> Reserved(c)]
            \in placeholders[task[c].level + 1]
       /\ \A t \in tables[task[c].level + 1] \ task[c].children :
            Span(KeysOf({t})) \cap Reserved(c) = {}
  /\ \A c, d \in Tasks :
       c # d /\ Merging(c) /\ Merging(d) /\ task[c].level = task[d].level =>
         Reserved(c) \cap Reserved(d) = {}

\* A table further up holds the newer entry of a key, and so does the newer
\* table of level 0.
VersionOrder ==
  /\ \A l, m \in Level : l < m =>
       \A s \in tables[l], t \in tables[m] : \A k \in Keys :
         s.data[k] > 0 => t.data[k] < s.data[k]
  /\ \A s, t \in tables[0] : \A k \in Keys :
       s.id < t.id /\ t.data[k] > 0 => s.data[k] < t.data[k]

\* Tables that join level 0 after a compaction selected its parents are newer
\* than the parents.
ParentsOldest ==
  \A c \in Tasks : Owns(c) => \A p \in task[c].parents :
    \A s \in tables[task[c].level] \ task[c].parents : \A k \in Keys :
      p.data[k] > 0 /\ s.data[k] > 0 => task[c].level = 0 /\ p.data[k] < s.data[k]

NoPanic == \A c \in Tasks : task[c].pc # "dead"

\* Until update_table_set panics, every listed table is on its level, every
\* table is listed but for the one being flushed, that one is on level 0, and
\* the sequence numbers in the tables a restart loads are not used again.
ManifestInv == NoPanic =>
  /\ \A l \in Level : manifest[l] \subseteq Ids(tables[l])
  /\ \A l \in Level : \A t \in tables[l] :
       \/ t.id \in manifest[l]
       \/ l = 0 /\ flush.pc \in {"added", "numbered"} /\ t.id = flush.id
  /\ flush.pc \in {"added", "numbered"} =>
       /\ flush.id \in Ids(tables[0])
       /\ flush.id \notin manifest[0]
  /\ \A l \in Level : \A t \in tables[l] :
       t.id \in manifest[l] => \A k \in Keys : t.data[k] < seq_offset

\* What is being flushed is newer than every table.
FlushNewest ==
  /\ seq_offset > 0
  /\ flush.pc # "idle" => flush.seq >= seq_offset
  /\ \A l \in Level : \A t \in tables[l] : \A k \in Keys :
       t.data[k] < IF flush.pc = "added" THEN flush.seq ELSE seq_offset
  /\ flush.pc = "build" =>
       /\ \A k \in Keys : flush.data[k] > 0 => seq_offset <= flush.data[k]
       /\ \A k \in Keys : flush.data[k] < flush.seq
       /\ \A t \in tables[0] : t.id < flush.id

OwnershipInv ==
  TypeOK /\ IdsGenerated /\ IdsUnique /\ FlagsOwned /\ RangesReserved
         /\ LevelsDisjoint
OrderInv == VersionOrder /\ ParentsOldest /\ FlushNewest

-----------------------------------------------------------------------------
(* Type correctness.                                                        *)

\* Levels are numbered from 0 on.
LEMMA LevelFacts ==
  /\ 0 \in Level
  /\ Level \subseteq Nat
  /\ \A l \in Level : l + 1 < NumLevels => l + 1 \in Level
BY ConstantsAssumption DEF Level

\* What NextLevel returns: the idle state, or the selection on a level that has
\* a level below it.
LEMMA NextLevelFacts ==
  ASSUME TypeOK, NEW c \in Tasks
  PROVE  /\ NextLevel(c) \in TaskState
         /\ NextLevel(c).pc \in {"idle", "select"}
         /\ NextLevel(c).pc = "select" => NextLevel(c).level + 1 \in Level
         /\ NextLevel(c).parents = {} /\ NextLevel(c).children = {}
<1>1. task[c].level \in 0 .. NumLevels - 1
  BY DEF TypeOK, TaskState, Level
<1>2. Idle \in TaskState /\ Idle.pc = "idle"
  BY LevelFacts DEF Idle, At, TaskState
<1>3. ASSUME task[c].level + 2 < NumLevels
      PROVE  /\ Selecting(task[c].level + 1) \in TaskState
             /\ Selecting(task[c].level + 1).pc = "select"
             /\ Selecting(task[c].level + 1).level + 1 \in Level
  BY <1>1, <1>3, ConstantsAssumption DEF Selecting, At, TaskState, Level
<1> QED BY <1>2, <1>3 DEF NextLevel, Idle, Selecting, At

\* Table ids are natural numbers.
LEMMA IdsNat == \A T \in SUBSET Table : Ids(T) \subseteq Nat
BY DEF Ids, Table

\* What the two ways to finish a compaction have in common: the parents P and
\* the children C of task c give way to one table, which is the parent itself
\* when it is moved and has the reserved id and the merged entries otherwise.
Swaps(c, l, P, C, new) ==
  /\ IsMove(P, C) => P = {new} /\ C = {}
  /\ ~IsMove(P, C) => new.id = task[c].id /\ Merge(P \cup C, new.data)
  /\ tables' = [tables EXCEPT ![l] = @ \ P, ![l + 1] = (@ \ C) \cup {new}]
  /\ placeholders' = [placeholders EXCEPT ![l + 1] =
                        {p \in @ : p.id # new.id}]
  /\ \/ task' = [task EXCEPT ![c] = Idle]
     \/ task' = [task EXCEPT ![c] = At("dead", 0, {}, {}, 0)]
  /\ \E R, S \in SUBSET Nat :
       manifest' = [manifest EXCEPT ![l] = @ \ R,
                                    ![l + 1] = (@ \cup {task[c].id}) \ S]
  /\ wlock' = [wlock EXCEPT ![l] = None]
  /\ compacting' \subseteq compacting
  /\ compacting \ Ids(P \cup C) \subseteq compacting'
  /\ UNCHANGED <<seek, next_id, seq_offset, flush>>

\* Both compact_level and fast_compaction end by swapping tables that way.
LEMMA SwapFacts ==
  ASSUME TypeOK, NEW c \in Tasks, compact_level(c) \/ fast_compaction(c),
         NEW l, l = task[c].level, NEW P, P = task[c].parents,
         NEW C, C = task[c].children
  PROVE  /\ task[c].pc = "locked" /\ l \in Level /\ l + 1 \in Level
         /\ P \subseteq Table /\ C \subseteq Table
         /\ \E new \in Table : Swaps(c, l, P, C, new)
<1>1. task[c].pc = "locked" /\ l \in Level /\ l + 1 \in Level
  BY DEF compact_level, fast_compaction, TypeOK, TaskState
<1>2. P \subseteq Table /\ C \subseteq Table
  BY DEF TypeOK, TaskState
<1>3. update_table_set(c, l, P, C, task[c].id)
  BY DEF compact_level, fast_compaction
<1>4. Ids(P) \subseteq Nat /\ Ids(C) \subseteq Nat
  BY <1>2, IdsNat
<1>5. \E R, S \in SUBSET Nat :
        manifest' = [manifest EXCEPT ![l] = @ \ R,
                                     ![l + 1] = (@ \cup {task[c].id}) \ S]
  BY <1>3, <1>4 DEF update_table_set
<1>6. \/ task' = [task EXCEPT ![c] = Idle]
      \/ task' = [task EXCEPT ![c] = At("dead", 0, {}, {}, 0)]
  BY <1>3 DEF update_table_set
<1>7. CASE compact_level(c)
  <2>1. PICK d \in Data :
          /\ Merge(P \cup C, d)
          /\ ReplaceTables(l, P, C, [id |-> task[c].id, data |-> d])
    BY <1>7 DEF compact_level
  <2> DEFINE new == [id |-> task[c].id, data |-> d]
  <2>2. new \in Table /\ new.id = task[c].id /\ new.data = d
    BY DEF TypeOK, TaskState, Table
  <2>3. ~IsMove(P, C)
    BY <1>7 DEF compact_level
  <2>4. compacting' = compacting \ Ids(P \cup C)
    BY <1>7 DEF compact_level
  <2>5. wlock' = [wlock EXCEPT ![l] = None]
        /\ UNCHANGED <<seek, next_id, seq_offset, flush>>
    BY <1>7 DEF compact_level
  <2> HIDE DEF new
  <2> QED
    BY Zenon, <1>1, <1>2, <1>5, <1>6, <2>1, <2>2, <2>3, <2>4, <2>5
    DEF ReplaceTables, new, Swaps
<1>8. CASE fast_compaction(c)
  <2>1. IsMove(P, C)
    BY <1>8 DEF fast_compaction
  <2>2. PICK t \in P : ReplaceTables(l, P, C, t)
    BY <1>8 DEF fast_compaction
  <2>3. P = {t} /\ C = {} /\ t \in Table
    BY <1>2, <2>1 DEF IsMove
  <2>4. compacting' \subseteq compacting
        /\ compacting \ Ids(P \cup C) \subseteq compacting'
    <3>1. compacting' \in {compacting, compacting \ Ids(P)}
      BY <1>8 DEF fast_compaction
    <3>2. P \cup C = P
      BY <2>3
    <3> QED BY <3>1, <3>2
  <2>5. wlock' = [wlock EXCEPT ![l] = None]
        /\ UNCHANGED <<seek, next_id, seq_offset, flush>>
    BY <1>8 DEF fast_compaction
  <2> QED
    BY Zenon, <1>1, <1>2, <1>5, <1>6, <2>1, <2>2, <2>3, <2>4, <2>5 DEF ReplaceTables,
       Swaps
<1> QED BY <1>7, <1>8

\* A new database has the types that TypeOK states.
LEMMA TypeInit == Init => TypeOK
BY LevelFacts, ConstantsAssumption
   DEF Init, TypeOK, Idle, At, NoFlush, TaskState, Data, Seqs

\* Every step of the flush, of a compaction and of a restart keeps TypeOK.
LEMMA TypeStep ==
  ASSUME TypeOK, [Next]_levelVars
  PROVE  TypeOK'
<1> USE ConstantsAssumption DEF TypeOK
<1> USE LevelFacts
<1>1. ASSUME NEW n \in seq_offset + 1 .. seq_offset + MaxBatch,
             n <= MaxSeq + 1, NEW d \in FreshData(n), FlushBuild(d, n)
      PROVE  TypeOK'
  <2>1. d \in Data
    BY <1>1 DEF FreshData, Data, Seqs
  <2> QED BY <1>1, <2>1 DEF FlushBuild
<1>2. CASE add_l0_table
  BY <1>2 DEF add_l0_table, Table
<1>15. CASE set_seq_number_offset
  BY <1>15 DEF set_seq_number_offset
<1>3. CASE FlushManifest
  <2>1. NoFlush \in [pc : {"idle"}, id : Nat, data : Data, seq : Nat]
    BY DEF NoFlush, Data, Seqs
  <2> QED BY <1>3, <2>1 DEF FlushManifest
<1>4. ASSUME NEW c \in Tasks, do_level_compaction(c) PROVE TypeOK'
  BY <1>4 DEF do_level_compaction, Idle, Selecting, At, TaskState, Level
<1>5. ASSUME NEW c \in Tasks, NothingToCompact(c) PROVE TypeOK'
  BY <1>5, NextLevelFacts DEF NothingToCompact
<1>6. ASSUME NEW c \in Tasks, maybe_start_compaction(c) PROVE TypeOK'
  <2>1. PICK P \in SUBSET tables[task[c].level] :
          /\ compacting' = compacting \cup Ids(P)
          /\ task' = [task EXCEPT ![c] =
                        At("overlaps", task[c].level, P, {}, 0)]
    BY Zenon, <1>6 DEF maybe_start_compaction
  <2>2. P \subseteq Table /\ Ids(P) \subseteq Nat
    BY Zenon, IdsNat DEF TaskState
  <2>3. At("overlaps", task[c].level, P, {}, 0) \in TaskState
    BY <2>2 DEF At, TaskState
  <2>4. task[c].level + 1 \in Level
    BY <1>6 DEF maybe_start_compaction
  <2>5. task' \in [Tasks -> TaskState] /\ compacting' \subseteq Nat
    BY Zenon, <2>1, <2>2, <2>3
  <2>6. \A d \in Tasks : task'[d].pc \notin {"idle", "dead"}
                          => task'[d].level + 1 \in Level
    BY <2>1, <2>4 DEF At
  <2> QED BY Zenon, <1>6, <2>5, <2>6 DEF maybe_start_compaction, ResetSeek
<1>7. ASSUME NEW c \in Tasks, StartContended(c) PROVE TypeOK'
  BY Zenon, <1>7, NextLevelFacts DEF StartContended, ResetSeek
<1>8. ASSUME NEW c \in Tasks, get_overlaps(c) PROVE TypeOK'
  <2> DEFINE l == task[c].level
             P == task[c].parents
             C == Overlapping(P, l + 1)
             range == Span(KeysOf(P \cup C))
  <2>1. l + 1 \in Level /\ l \in Level
    BY <1>8 DEF get_overlaps, TaskState
  <2>2. P \subseteq Table /\ C \subseteq Table /\ range \in SUBSET Keys
    BY Zenon, <2>1 DEF Overlapping, Span, TaskState
  <2>3. Ids(P) \subseteq Nat /\ Ids(C) \subseteq Nat
    BY <2>2, IdsNat
  <2>4. PICK id \in Nat :
          /\ placeholders' = [placeholders EXCEPT ![l + 1] =
                                @ \cup {[id |-> id, range |-> range]}]
          /\ task' = [task EXCEPT ![c] = At("build", l, P, C, id)]
    <3>1. (IF IsMove(P, C) THEN Ids(P) ELSE {next_id}) \subseteq Nat
      BY <2>3
    <3> QED BY Zenon, <1>8, <3>1 DEF get_overlaps
  <2>5. [id |-> id, range |-> range] \in Placeholder
    BY Zenon, <2>2 DEF Placeholder
  <2>6. At("build", l, P, C, id) \in TaskState
    BY <2>1, <2>2 DEF At, TaskState
  <2>7. placeholders' \in [Level -> SUBSET Placeholder]
    BY Zenon, <2>1, <2>4, <2>5
  <2>8. task' \in [Tasks -> TaskState]
    BY <2>4, <2>6
  <2>9. \A d \in Tasks : task'[d].pc \notin {"idle", "dead"}
                          => task'[d].level + 1 \in Level
    BY <2>1, <2>4 DEF At
  <2>10. compacting' \subseteq Nat /\ next_id' \in Nat \ {0}
    <3>1. compacting' = compacting \cup Ids(C)
      BY <1>8 DEF get_overlaps
    <3>2. next_id' \in {next_id, next_id + 1}
      BY <1>8 DEF get_overlaps
    <3> HIDE DEF C
    <3>3. compacting' \subseteq Nat
      BY Zenon, <2>3, <3>1
    <3>4. next_id' \in Nat \ {0}
      BY <3>2
    <3> QED BY <3>3, <3>4
  <2> HIDE DEF l, P, C, range
  <2> QED BY Zenon, <1>8, <2>7, <2>8, <2>9, <2>10 DEF get_overlaps
<1>9. ASSUME NEW c \in Tasks, OverlapsContended(c) PROVE TypeOK'
  BY Zenon, <1>9, NextLevelFacts DEF OverlapsContended
<1>10. ASSUME NEW c \in Tasks, LockParentLevel(c) PROVE TypeOK'
  BY <1>10 DEF LockParentLevel, At, TaskState
<1>11. ASSUME NEW c \in Tasks, compact_level(c) \/ fast_compaction(c)
       PROVE  TypeOK'
  <2> DEFINE l == task[c].level
             P == task[c].parents
             C == task[c].children
  <2>0. TypeOK
    OBVIOUS
  <2>1. /\ l \in Level /\ l + 1 \in Level
        /\ \E new \in Table : Swaps(c, l, P, C, new)
    BY <1>11, <2>0, SwapFacts
  <2> PICK new \in Table : Swaps(c, l, P, C, new)
    BY <2>1
  <2> HIDE DEF l, P, C
  <2> USE DEF Swaps
  <2>2. tables' \in [Level -> SUBSET Table]
    BY <2>1
  <2>3. placeholders' \in [Level -> SUBSET Placeholder]
    BY <2>1
  <2>4. Idle \in TaskState /\ At("dead", 0, {}, {}, 0) \in TaskState
    BY DEF Idle, At, TaskState
  <2>5. task' \in [Tasks -> TaskState]
    BY <2>4
  <2>6. \A d \in Tasks : task'[d].pc \notin {"idle", "dead"}
                          => task'[d].level + 1 \in Level
    BY DEF Idle, At
  <2>7. manifest' \in [Level -> SUBSET Nat]
    <3>1. PICK R, S \in SUBSET Nat :
            manifest' = [manifest EXCEPT ![l] = @ \ R,
                           ![l + 1] = (@ \cup {task[c].id}) \ S]
      BY Zenon
    <3>2. task[c].id \in Nat
      BY DEF TaskState
    <3> QED BY <2>1, <3>1, <3>2
  <2>8. wlock' \in [Level -> Tasks \cup {None}]
    BY <2>1
  <2>9. compacting' \subseteq Nat
        /\ UNCHANGED <<seek, next_id, seq_offset, flush>>
    OBVIOUS
  <2> QED
    BY <2>2, <2>3, <2>5, <2>6, <2>7, <2>8, <2>9
<1>13. ASSUME NEW l \in Level, TriggerSeek(l) PROVE TypeOK'
  BY <1>13 DEF TriggerSeek, Table
<1>14. CASE UNCHANGED levelVars
  BY <1>14 DEF levelVars
<1>16. CASE Reopen
  <2>1. /\ Idle \in TaskState /\ Idle.pc = "idle"
        /\ NoFlush \in [pc : {"idle"}, id : Nat, data : Data, seq : Nat]
    BY DEF Idle, At, TaskState, NoFlush, Data, Seqs
  <2>2. tables' \in [Level -> SUBSET Table]
    BY <1>16 DEF Reopen
  <2> QED BY <1>16, <2>1, <2>2 DEF Reopen
<1> QED
  BY <1>1, <1>2, <1>3, <1>4, <1>5, <1>6, <1>7, <1>8, <1>9, <1>10, <1>11,
     <1>13, <1>14, <1>15, <1>16 DEF Next, Flush, Compact, Work

\* Every variable keeps its type, and a task only works on a level that has
\* one below it.
THEOREM TypeCorrect == Spec => []TypeOK
BY TypeInit, TypeStep, PTL DEF Spec

-----------------------------------------------------------------------------
(* Ranges of keys.                                                          *)

\* A range that grows by tables that overlap it meets no table that is
\* disjoint from the range and from those tables: get_overlaps may widen the
\* range while it goes through the level once.
LEMMA WidenedRange ==
  ASSUME NEW P \in SUBSET Table, NEW C \in SUBSET Table, NEW t \in Table,
         ~overlaps(t, Span(KeysOf(P))),
         \A s \in C : overlaps(s, Span(KeysOf(P))),
         \A s \in C : Span(KeysOf({t})) \cap Span(KeysOf({s})) = {}
  PROVE  Span(KeysOf({t})) \cap Span(KeysOf(P \cup C)) = {}
<1> SUFFICES ASSUME NEW k \in Keys, k \in Span(KeysOf({t})),
                    k \in Span(KeysOf(P \cup C))
             PROVE  FALSE
  BY Zenon DEF Span
<1> USE ConstantsAssumption
<1>1. k \notin Span(KeysOf(P))
  BY DEF overlaps
<1>2. PICK a, b \in KeysOf(P \cup C) : a <= k /\ k <= b
  BY DEF Span
<1>3. a \in Keys /\ b \in Keys
  BY DEF KeysOf
<1>4. \E p \in KeysOf(P) : p <= k
  <2>1. CASE a \in KeysOf(P)
    BY <1>2, <2>1
  <2>2. CASE a \notin KeysOf(P)
    <3>1. PICK s \in C : a \in KeysOf({s})
      BY <2>2 DEF KeysOf
    <3>2. PICK x \in Keys : x \in Span(KeysOf({s})) /\ x \in Span(KeysOf(P))
      BY Zenon, <3>1 DEF overlaps, Span
    <3>3. k \notin Span(KeysOf({s}))
      BY <3>1
    <3>4. PICK y \in KeysOf({s}) : x <= y
      BY <3>2 DEF Span
    <3>5. y \in Keys
      BY <3>4 DEF KeysOf
    <3>6. ~(k <= y)
      BY Zenon, <1>2, <3>1, <3>3, <3>4 DEF Span
    <3>7. PICK p \in KeysOf(P) : p <= x
      BY <3>2 DEF Span
    <3>8. p \in Keys
      BY <3>7 DEF KeysOf
    <3> QED BY <3>4, <3>5, <3>6, <3>7, <3>8
  <2> QED BY <2>1, <2>2
<1>5. \E q \in KeysOf(P) : k <= q
  <2>1. CASE b \in KeysOf(P)
    BY <1>2, <2>1
  <2>2. CASE b \notin KeysOf(P)
    <3>1. PICK s \in C : b \in KeysOf({s})
      BY <2>2 DEF KeysOf
    <3>2. PICK x \in Keys : x \in Span(KeysOf({s})) /\ x \in Span(KeysOf(P))
      BY Zenon, <3>1 DEF overlaps, Span
    <3>3. k \notin Span(KeysOf({s}))
      BY <3>1
    <3>4. PICK y \in KeysOf({s}) : y <= x
      BY Zenon, <3>2 DEF Span
    <3>5. y \in Keys
      BY <3>4 DEF KeysOf
    <3>6. ~(y <= k)
      BY Zenon, <1>2, <3>1, <3>3, <3>4 DEF Span
    <3>7. PICK q \in KeysOf(P) : x <= q
      BY <3>2 DEF Span
    <3>8. q \in Keys
      BY <3>7 DEF KeysOf
    <3> QED BY <3>4, <3>5, <3>6, <3>7, <3>8
  <2> QED BY <2>1, <2>2
<1> QED BY <1>1, <1>4, <1>5 DEF Span

\* A merged table holds exactly the keys of the tables it replaces.
LEMMA MergedKeys ==
  ASSUME NEW T \in SUBSET Table, NEW new \in Table, Merge(T, new.data)
  PROVE  KeysOf({new}) = KeysOf(T)
<1>1. \A k \in Keys : new.data[k] \in Nat
  BY ConstantsAssumption DEF Table, Data, Seqs
<1>2. \A t \in T : \A k \in Keys : t.data[k] \in Nat
  BY ConstantsAssumption DEF Table, Data, Seqs
<1> QED BY <1>1, <1>2 DEF Merge, KeysOf

\* Tables that are disjoint hold no key in common.
LEMMA KeyInSpan ==
  ASSUME NEW T \in SUBSET Table, NEW t \in T, NEW k \in Keys, t.data[k] > 0
  PROVE  k \in Span(KeysOf({t})) /\ k \in Span(KeysOf(T)) /\ k \in KeysOf(T)
BY ConstantsAssumption DEF Span, KeysOf

-----------------------------------------------------------------------------
(* Ownership of tables and ranges is preserved.                             *)

\* A task that owns tables works on a level and the one below it.
LEMMA OwnerLevel ==
  ASSUME TypeOK, NEW c \in Tasks, Owns(c)
  PROVE  /\ task[c].level \in Level /\ task[c].level + 1 \in Level
         /\ task[c].level \in Nat
         /\ task[c].level + 1 # 0 /\ task[c].level + 1 # task[c].level
<1>1. task[c].level \in Level /\ task[c].level + 1 \in Level
  BY DEF TypeOK, TaskState, Owns
<1>2. task[c].level \in Nat
  BY Zenon, <1>1, LevelFacts
<1> QED BY <1>1, <1>2

\* A step that leaves tables, flags and placeholders alone, and the part of
\* each task's state that says what it owns.
QuietFor(d) ==
  /\ Owns(d)' <=> Owns(d)
  /\ Merging(d)' <=> Merging(d)
  /\ task'[d].parents = task[d].parents
  /\ task'[d].children = task[d].children
  /\ Owns(d) => task'[d].level = task[d].level /\ task'[d].id = task[d].id

\* Such a step keeps the ownership half of the invariant.
LEMMA QuietStep ==
  ASSUME OwnershipInv, TypeOK', UNCHANGED <<tables, compacting, placeholders>>,
         \A d \in Tasks : QuietFor(d),
         \/ next_id' = next_id /\ (flush' = flush \/ flush'.pc # "build")
         \/ next_id' = next_id + 1 /\ flush'.id = next_id
  PROVE  OwnershipInv'
<1>0. /\ next_id \in Nat /\ next_id' \in Nat /\ next_id <= next_id'
      /\ \A l \in Level : \A t \in tables[l] : t.id \in Nat
      /\ flush.id \in Nat /\ flush'.id \in Nat
      /\ \A d \in Tasks : task[d].id \in Nat
  BY DEF OwnershipInv, TypeOK, Table, TaskState
<1>a. \A d \in Tasks : Merging(d)' =>
        /\ Merging(d)
        /\ task'[d].id = task[d].id
        /\ task'[d].parents = task[d].parents
        /\ task'[d].children = task[d].children
  BY DEF QuietFor, Owns, Merging
<1>1. IdsGenerated'
  <2>1. \A l \in Level : \A t \in tables'[l] : t.id < next_id'
    BY <1>0 DEF OwnershipInv, IdsGenerated
  <2>2. flush'.pc = "build" => flush'.id < next_id'
    BY <1>0 DEF OwnershipInv, IdsGenerated
  <2>3. \A d \in Tasks : Merging(d)' => task'[d].id < next_id'
    <3>1. \A d \in Tasks : Merging(d) => task[d].id < next_id
      BY DEF OwnershipInv, IdsGenerated
    <3> QED BY <1>0, <1>a, <3>1
  <2> QED BY <2>1, <2>2, <2>3 DEF IdsGenerated
<1>2. IdsUnique'
  <2> USE DEF OwnershipInv
  <2>1. flush'.pc = "build" =>
          /\ \A l \in Level : flush'.id \notin Ids(tables[l])
          /\ \A d \in Tasks :
               Merging(d) /\ ~IsMove(task[d].parents, task[d].children)
               => flush'.id # task[d].id
    <3>1. CASE flush' = flush
      BY <3>1 DEF IdsUnique
    <3>2. CASE flush'.id = next_id
      BY <1>0, <3>2 DEF IdsGenerated, Ids
    <3> QED BY <3>1, <3>2
  <2>2. \A d \in Tasks : Merging(d)' =>
          IF IsMove(task'[d].parents, task'[d].children)
          THEN task'[d].id \in Ids(task'[d].parents)
          ELSE /\ \A l \in Level : task'[d].id \notin Ids(tables'[l])
               /\ flush'.pc = "build" => flush'.id # task'[d].id
    BY <1>a, <2>1 DEF IdsUnique
  <2>3. \A c, d \in Tasks : c # d /\ Merging(c)' /\ Merging(d)' =>
          task'[c].id # task'[d].id
    BY <1>a DEF IdsUnique
  <2>4. \A l, m \in Level : \A u \in tables'[l], t \in tables'[m] :
          u.id = t.id => l = m /\ u = t
    BY DEF IdsUnique
  <2> QED BY <2>1, <2>2, <2>3, <2>4 DEF IdsUnique, Ids, IsMove
<1>3. FlagsOwned'
  BY DEF OwnershipInv, FlagsOwned, QuietFor, Selected, Owns, Merging
<1>4. RangesReserved'
  BY DEF OwnershipInv, RangesReserved, QuietFor, Reserved, Owns, Merging
<1>5. LevelsDisjoint'
  BY Zenon DEF OwnershipInv, LevelsDisjoint
<1> QED BY <1>1, <1>2, <1>3, <1>4, <1>5 DEF OwnershipInv

\* add_l0_table: the table joins level 0 under an id nobody else has.
LEMMA AddL0Step ==
  ASSUME OwnershipInv, TypeOK', add_l0_table
  PROVE  OwnershipInv'
<1> DEFINE new == [id |-> flush.id, data |-> flush.data]
<1>1. /\ tables' = [tables EXCEPT ![0] = @ \cup {new}]
      /\ flush.pc = "build" /\ flush'.pc = "added"
      /\ new.id = flush.id
      /\ UNCHANGED <<compacting, placeholders, next_id, task>>
  BY DEF add_l0_table
<1>2. /\ tables'[0] = tables[0] \cup {new}
      /\ \A l \in Level : l # 0 => tables'[l] = tables[l]
      /\ \A l \in Level : tables[l] \subseteq tables'[l]
  BY <1>1, LevelFacts DEF OwnershipInv, TypeOK
<1> HIDE DEF new
<1> USE DEF OwnershipInv
<1>3. IdsGenerated'
  BY <1>1, <1>2 DEF IdsGenerated, Merging
<1>4. IdsUnique'
  <2>1. \A l, m \in Level : \A s \in tables'[l], t \in tables'[m] :
          s.id = t.id => l = m /\ s = t
    BY <1>1, <1>2 DEF IdsUnique, Ids
  <2>2. \A c \in Tasks : Merging(c) =>
          IF IsMove(task[c].parents, task[c].children)
          THEN task[c].id \in Ids(task[c].parents)
          ELSE \A l \in Level : task[c].id \notin Ids(tables'[l])
    BY <1>1, <1>2 DEF IdsUnique, Ids
  <2>3. \A c, d \in Tasks : c # d /\ Merging(c) /\ Merging(d) =>
          task[c].id # task[d].id
    BY DEF IdsUnique
  <2> QED BY Zenon, <1>1, <2>1, <2>2, <2>3 DEF IdsUnique, Merging
<1>5. FlagsOwned'
  <2>1. \A c \in Tasks :
          /\ Owns(c) => task[c].parents \subseteq tables'[task[c].level]
          /\ Merging(c) => task[c].children \subseteq tables'[task[c].level + 1]
    BY <1>2 DEF FlagsOwned, TypeOK, TaskState, Owns, Merging
  <2> QED BY <1>1, <2>1 DEF FlagsOwned, Owns, Merging, Selected
<1>6. RangesReserved'
  <2>1. \A c \in Tasks : Merging(c) =>
          tables'[task[c].level + 1] = tables[task[c].level + 1]
    BY <1>2, OwnerLevel DEF Owns, Merging
  <2> QED BY <1>1, <2>1 DEF RangesReserved, Merging, Reserved
<1>7. LevelsDisjoint'
  BY Zenon, <1>2 DEF LevelsDisjoint
<1> QED BY <1>3, <1>4, <1>5, <1>6, <1>7

\* What a task selects is not selected by another one, since the flags of the
\* tables it selects were clear.
LEMMA StartStep ==
  ASSUME OwnershipInv, TypeOK', NEW c \in Tasks, maybe_start_compaction(c)
  PROVE  OwnershipInv'
<1> USE DEF OwnershipInv
<1>1. PICK P \in SUBSET tables[task[c].level] :
        /\ Ids(P) \cap compacting = {}
        /\ compacting' = compacting \cup Ids(P)
        /\ task' = [task EXCEPT ![c] = At("overlaps", task[c].level, P, {}, 0)]
  BY Zenon DEF maybe_start_compaction
<1>2. task[c].pc = "select" /\ UNCHANGED <<tables, placeholders, next_id, flush>>
  BY DEF maybe_start_compaction
<1>3. /\ task'[c].pc = "overlaps" /\ task'[c].level = task[c].level
      /\ task'[c].parents = P /\ task'[c].children = {}
      /\ \A d \in Tasks \ {c} : task'[d] = task[d]
  BY <1>1 DEF TypeOK, At
<1>4. /\ ~Merging(c) /\ ~Merging(c)' /\ ~Owns(c)
      /\ \A d \in Tasks : Merging(d)' = Merging(d)
      /\ \A d \in Tasks : Merging(d) => task'[d] = task[d]
      /\ \A d \in Tasks \ {c} : Owns(d)' = Owns(d)
  BY <1>2, <1>3 DEF Merging, Owns
<1>5. IdsGenerated'
  BY <1>2, <1>4 DEF IdsGenerated
<1>6. IdsUnique'
  BY <1>2, <1>4 DEF IdsUnique
<1>7. FlagsOwned'
  <2>1. Selected(c)' = P /\ \A d \in Tasks \ {c} : Selected(d)' = Selected(d)
    BY <1>3 DEF Selected
  <2>2. \A d \in Tasks : Ids(Selected(d))' \subseteq compacting'
    BY <1>1, <2>1 DEF FlagsOwned, Ids
  <2>3. \A d, e \in Tasks : d # e =>
          Ids(Selected(d))' \cap Ids(Selected(e))' = {}
    BY <1>1, <2>1 DEF FlagsOwned, Ids
  <2>4. \A d \in Tasks :
          /\ Owns(d)' => task'[d].parents \subseteq tables'[task'[d].level]
          /\ Merging(d)' =>
               task'[d].children \subseteq tables'[task'[d].level + 1]
          /\ ~Owns(d)' => task'[d].parents = {}
          /\ ~Merging(d)' => task'[d].children = {}
    BY <1>2, <1>3, <1>4 DEF FlagsOwned, Owns
  <2> QED BY <2>2, <2>3, <2>4 DEF FlagsOwned
<1>8. RangesReserved'
  BY Zenon, <1>2, <1>4 DEF RangesReserved, Reserved
<1>9. LevelsDisjoint'
  BY Zenon, <1>2 DEF LevelsDisjoint
<1> QED BY <1>5, <1>6, <1>7, <1>8, <1>9

\* A compaction that meets contention clears its flags and gives up.
LEMMA AbortStep ==
  ASSUME OwnershipInv, TypeOK', NEW c \in Tasks, OverlapsContended(c)
  PROVE  OwnershipInv'
<1> USE DEF OwnershipInv
<1>1. /\ compacting' = compacting \ Ids(task[c].parents)
      /\ task' = [task EXCEPT ![c] = NextLevel(c)]
      /\ task[c].pc = "overlaps"
      /\ UNCHANGED <<tables, placeholders, next_id, flush>>
  BY DEF OverlapsContended
<1>2. /\ task'[c].pc \in {"idle", "select"}
      /\ task'[c].parents = {} /\ task'[c].children = {}
      /\ \A d \in Tasks \ {c} : task'[d] = task[d]
  BY <1>1, NextLevelFacts DEF TypeOK
<1>3. /\ ~Merging(c) /\ ~Merging(c)' /\ ~Owns(c)'
      /\ \A d \in Tasks : Merging(d)' = Merging(d)
      /\ \A d \in Tasks : Merging(d) => task'[d] = task[d]
      /\ \A d \in Tasks \ {c} : Owns(d)' = Owns(d)
  BY <1>1, <1>2 DEF Merging, Owns
<1>4. IdsGenerated'
  BY <1>1, <1>3 DEF IdsGenerated
<1>5. IdsUnique'
  BY <1>1, <1>3 DEF IdsUnique
<1>6. FlagsOwned'
  <2>1. Selected(c)' = {} /\ \A d \in Tasks \ {c} : Selected(d)' = Selected(d)
    BY <1>2 DEF Selected
  <2>2. task[c].parents \subseteq Selected(c)
    BY DEF Selected
  <2>3. \A d \in Tasks : Ids(Selected(d))' \subseteq compacting'
    BY <1>1, <2>1, <2>2 DEF FlagsOwned, Ids
  <2>4. \A d, e \in Tasks : d # e =>
          Ids(Selected(d))' \cap Ids(Selected(e))' = {}
    BY <2>1 DEF FlagsOwned, Ids
  <2>5. \A d \in Tasks :
          /\ Owns(d)' => task'[d].parents \subseteq tables'[task'[d].level]
          /\ Merging(d)' =>
               task'[d].children \subseteq tables'[task'[d].level + 1]
          /\ ~Owns(d)' => task'[d].parents = {}
          /\ ~Merging(d)' => task'[d].children = {}
    BY <1>1, <1>2, <1>3 DEF FlagsOwned
  <2> QED BY Zenon, <2>3, <2>4, <2>5 DEF FlagsOwned
<1>7. RangesReserved'
  BY Zenon, <1>1, <1>3 DEF RangesReserved, Reserved
<1>8. LevelsDisjoint'
  BY Zenon, <1>1 DEF LevelsDisjoint
<1> QED BY <1>4, <1>5, <1>6, <1>7, <1>8

\* The range a task reserves meets no placeholder and, by WidenedRange, no
\* table of the level but the children.
LEMMA OverlapsStep ==
  ASSUME OwnershipInv, TypeOK', NEW c \in Tasks, get_overlaps(c)
  PROVE  OwnershipInv'
<1> USE DEF OwnershipInv
<1> DEFINE l == task[c].level
           P == task[c].parents
           C == Overlapping(P, l + 1)
           range == Span(KeysOf(P \cup C))
<1>1. /\ task[c].pc = "overlaps"
      /\ Ids(C) \cap compacting = {}
      /\ ~PlaceholderInTheWay(l + 1, range)
      /\ compacting' = compacting \cup Ids(C)
      /\ next_id' = IF IsMove(P, C) THEN next_id ELSE next_id + 1
      /\ UNCHANGED <<tables, flush>>
  BY Zenon DEF get_overlaps
<1>2. PICK id \in IF IsMove(P, C) THEN Ids(P) ELSE {next_id} :
        /\ placeholders' = [placeholders EXCEPT ![l + 1] =
                              @ \cup {[id |-> id, range |-> range]}]
        /\ task' = [task EXCEPT ![c] = At("build", l, P, C, id)]
  BY Zenon DEF get_overlaps
<1>3. /\ Owns(c) /\ ~Merging(c)
      /\ l \in Level /\ l + 1 \in Level /\ l \in Nat /\ l + 1 # 0
      /\ P \subseteq tables[l] /\ P \subseteq Table
      /\ C \subseteq tables[l + 1] /\ C \subseteq Table
  <2>1. Owns(c) /\ ~Merging(c)
    BY <1>1 DEF Owns, Merging
  <2>2. l \in Level /\ l + 1 \in Level /\ l \in Nat /\ l + 1 # 0
    BY <2>1, OwnerLevel
  <2>3. C \subseteq tables[l + 1]
    BY DEF Overlapping
  <2> HIDE DEF C
  <2>4. tables[l] \subseteq Table /\ tables[l + 1] \subseteq Table
    BY <2>2 DEF TypeOK
  <2>5. P \subseteq tables[l]
    BY <2>1 DEF FlagsOwned
  <2> QED BY Zenon, <2>1, <2>2, <2>3, <2>4, <2>5
<1>4. /\ task'[c].pc = "build" /\ task'[c].level = l /\ task'[c].parents = P
      /\ task'[c].children = C /\ task'[c].id = id
      /\ \A d \in Tasks \ {c} : task'[d] = task[d]
  <2> HIDE DEF C
  <2> QED BY <1>2 DEF TypeOK, At
<1>5. /\ placeholders'[l + 1] =
           placeholders[l + 1] \cup {[id |-> id, range |-> range]}
      /\ \A m \in Level : placeholders[m] \subseteq placeholders'[m]
  <2> HIDE DEF C, range
  <2> QED BY Zenon, <1>2, <1>3 DEF TypeOK
<1>6. /\ Owns(c)' /\ Merging(c)'
      /\ \A d \in Tasks \ {c} : Owns(d)' = Owns(d) /\ Merging(d)' = Merging(d)
  BY <1>4 DEF Owns, Merging
<1>7. \A t \in tables[l + 1] \ C : Span(KeysOf({t})) \cap range = {}
  <2> SUFFICES ASSUME NEW t \in tables[l + 1], t \notin C
               PROVE  Span(KeysOf({t})) \cap range = {}
    OBVIOUS
  <2>1. ~overlaps(t, Span(KeysOf(P)))
    BY DEF Overlapping
  <2>2. \A s \in C : overlaps(s, Span(KeysOf(P)))
    BY DEF Overlapping
  <2>3. \A s \in C : Span(KeysOf({t})) \cap Span(KeysOf({s})) = {}
    BY Zenon, <1>3 DEF LevelsDisjoint
  <2>4. t \in Table
    BY Zenon, <1>3 DEF TypeOK
  <2> HIDE DEF C
  <2> QED BY Zenon, <1>3, <2>1, <2>2, <2>3, <2>4, WidenedRange
<1>8. \A d \in Tasks \ {c} : Merging(d) /\ task[d].level = l =>
        Reserved(d) \cap range = {}
  <2> HIDE DEF C, range
  <2> SUFFICES ASSUME NEW d \in Tasks \ {c}, Merging(d), task[d].level = l
               PROVE  Reserved(d) \cap range = {}
    OBVIOUS
  <2>1. [id |-> task[d].id, range |-> Reserved(d)] \in placeholders[l + 1]
    BY DEF RangesReserved
  <2> QED BY Zenon, <1>1, <2>1 DEF PlaceholderInTheWay
<1>9. /\ id \in Nat /\ next_id \in Nat
      /\ IsMove(P, C) => id \in Ids(P)
      /\ ~IsMove(P, C) => id = next_id
      /\ \A m \in Level : \A t \in tables[m] : t.id \in Nat
      /\ \A d \in Tasks : task[d].id \in Nat
      /\ flush.id \in Nat
  <2>1. Ids(P) \subseteq Nat
    BY <1>3, IdsNat
  <2>2. \A m \in Level : \A t \in tables[m] : t.id \in Nat
    BY DEF TypeOK, Table
  <2>3. next_id \in Nat /\ \A d \in Tasks : task[d].id \in Nat
    BY DEF TypeOK, TaskState
  <2>4. flush.id \in Nat
    BY DEF TypeOK
  <2> HIDE DEF C
  <2> QED BY <2>1, <2>2, <2>3, <2>4
<1>10. Selected(c)' = P \cup C /\ \A d \in Tasks \ {c} : Selected(d)' = Selected(d)
  BY <1>4 DEF Selected
<1>11. Reserved(c)' = range /\ \A d \in Tasks \ {c} : Reserved(d)' = Reserved(d)
  BY Zenon, <1>4 DEF Reserved
<1> HIDE DEF l, P, C, range
<1>12. IdsGenerated'
  <2>1. \A t \in P : t.id < next_id
    BY <1>3 DEF IdsGenerated
  <2>2. id < next_id'
    BY <1>1, <1>9, <2>1 DEF Ids
  <2>3. next_id <= next_id' /\ next_id' \in Nat
    BY <1>1, <1>9
  <2>4. \A d \in Tasks : Merging(d)' => task'[d].id < next_id'
    BY <1>4, <1>6, <1>9, <2>2, <2>3 DEF IdsGenerated
  <2>5. \A m \in Level : \A t \in tables'[m] : t.id < next_id'
    BY <1>1, <1>9, <2>3 DEF IdsGenerated
  <2>6. flush'.pc = "build" => flush'.id < next_id'
    BY <1>1, <1>9, <2>3 DEF IdsGenerated
  <2> QED BY <2>4, <2>5, <2>6 DEF IdsGenerated
<1>13. IdsUnique'
  <2>1. ~IsMove(P, C) => /\ \A m \in Level : id \notin Ids(tables[m])
                         /\ flush.pc = "build" => flush.id # id
    <3>1. /\ \A m \in Level : \A t \in tables[m] : t.id < next_id
          /\ flush.pc = "build" => flush.id < next_id
      BY Zenon DEF IdsGenerated
    <3>2. /\ \A m \in Level : \A t \in tables[m] : t.id # next_id
          /\ flush.pc = "build" => flush.id # next_id
      BY <1>9, <3>1
    <3> QED BY Zenon, <1>9, <3>2 DEF Ids
  <2>2. \A d \in Tasks \ {c} : Merging(d) => task[d].id # id
    <3> SUFFICES ASSUME NEW d \in Tasks \ {c}, Merging(d)
                 PROVE  task[d].id # id
      OBVIOUS
    <3>1. CASE ~IsMove(P, C)
      BY <1>9, <3>1 DEF IdsGenerated
    <3>2. CASE IsMove(P, C)
      <4>1. id \in Ids(Selected(c)) /\ id \in Ids(tables[l])
        BY <1>3, <1>9, <3>2 DEF Selected, Ids, P
      <4>2. CASE IsMove(task[d].parents, task[d].children)
        <5>1. task[d].id \in Ids(Selected(d))
          BY <4>2 DEF IdsUnique, Selected, Ids
        <5> QED BY <4>1, <5>1 DEF FlagsOwned
      <4>3. CASE ~IsMove(task[d].parents, task[d].children)
        BY <1>3, <4>1, <4>3 DEF IdsUnique
      <4> QED BY <4>2, <4>3
    <3> QED BY <3>1, <3>2
  <2>3. \A d \in Tasks : Merging(d)' =>
          IF IsMove(task'[d].parents, task'[d].children)
          THEN task'[d].id \in Ids(task'[d].parents)
          ELSE /\ \A m \in Level : task'[d].id \notin Ids(tables'[m])
               /\ flush'.pc = "build" => flush'.id # task'[d].id
    BY Zenon, <1>1, <1>4, <1>6, <1>9, <2>1 DEF IdsUnique
  <2>4. \A d, e \in Tasks : d # e /\ Merging(d)' /\ Merging(e)' =>
          task'[d].id # task'[e].id
    BY Zenon, <1>4, <1>6, <2>2 DEF IdsUnique
  <2> QED BY <1>1, <2>3, <2>4 DEF IdsUnique
<1>14. FlagsOwned'
  <2>1. Ids(P \cup C) = Ids(P) \cup Ids(C)
    BY DEF Ids
  <2>2. Ids(P) = Ids(Selected(c)) \/ Ids(P) \subseteq Ids(Selected(c))
    BY DEF Selected, Ids, P
  <2>3. \A d \in Tasks : Ids(Selected(d))' \subseteq compacting'
    <3>1. Ids(Selected(c))' = Ids(P \cup C)
      BY <1>10 DEF Ids
    <3>2. \A d \in Tasks \ {c} : Ids(Selected(d))' = Ids(Selected(d))
      BY <1>10 DEF Ids
    <3> QED BY <1>1, <2>1, <2>2, <3>1, <3>2 DEF FlagsOwned
  <2>4. \A d, e \in Tasks : d # e =>
          Ids(Selected(d))' \cap Ids(Selected(e))' = {}
    <3>1. Ids(Selected(c))' = Ids(P \cup C)
      BY <1>10 DEF Ids
    <3>2. \A d \in Tasks \ {c} : Ids(Selected(d))' = Ids(Selected(d))
      BY <1>10 DEF Ids
    <3>3. \A d \in Tasks \ {c} : Ids(P \cup C) \cap Ids(Selected(d)) = {}
      BY Zenon, <1>1, <2>1, <2>2 DEF FlagsOwned
    <3> QED BY Zenon, <3>1, <3>2, <3>3 DEF FlagsOwned
  <2>5. \A d \in Tasks :
          /\ Owns(d)' => task'[d].parents \subseteq tables'[task'[d].level]
          /\ Merging(d)' =>
               task'[d].children \subseteq tables'[task'[d].level + 1]
          /\ ~Owns(d)' => task'[d].parents = {}
          /\ ~Merging(d)' => task'[d].children = {}
    BY <1>1, <1>3, <1>4, <1>6 DEF FlagsOwned
  <2> QED BY Zenon, <2>3, <2>4, <2>5 DEF FlagsOwned
<1>15. RangesReserved'
  <2>1. \A d \in Tasks : Merging(d)' =>
          /\ [id |-> task'[d].id, range |-> Reserved(d)']
               \in placeholders'[task'[d].level + 1]
          /\ \A t \in tables'[task'[d].level + 1] \ task'[d].children :
               Span(KeysOf({t})) \cap Reserved(d)' = {}
    <3> SUFFICES ASSUME NEW d \in Tasks, Merging(d)'
                 PROVE  /\ [id |-> task'[d].id, range |-> Reserved(d)']
                             \in placeholders'[task'[d].level + 1]
                        /\ \A t \in tables'[task'[d].level + 1]
                                      \ task'[d].children :
                             Span(KeysOf({t})) \cap Reserved(d)' = {}
      BY Zenon
    <3>1. CASE d = c
      BY Zenon, <1>1, <1>4, <1>5, <1>7, <1>11, <3>1
    <3>2. CASE d # c
      <4>1. Merging(d) /\ task'[d] = task[d] /\ Reserved(d)' = Reserved(d)
        BY <1>4, <1>6, <1>11, <3>2
      <4>2. task[d].level + 1 \in Level
        BY <4>1, OwnerLevel DEF Owns, Merging
      <4> QED BY Zenon, <1>1, <1>5, <4>1, <4>2 DEF RangesReserved
    <3> QED BY Zenon, <3>1, <3>2
  <2>2. \A d, e \in Tasks :
          /\ d # e /\ Merging(d)' /\ Merging(e)'
          /\ task'[d].level = task'[e].level
          => Reserved(d)' \cap Reserved(e)' = {}
    <3> SUFFICES ASSUME NEW d \in Tasks, NEW e \in Tasks, d # e,
                        Merging(d)', Merging(e)',
                        task'[d].level = task'[e].level
                 PROVE  Reserved(d)' \cap Reserved(e)' = {}
      BY Zenon
    <3>1. CASE d = c
      <4>1. Reserved(e) \cap range = {}
        BY Zenon, <1>4, <1>6, <1>8, <3>1
      <4> QED BY Zenon, <1>11, <3>1, <4>1
    <3>2. CASE e = c
      <4>1. Reserved(d) \cap range = {}
        BY Zenon, <1>4, <1>6, <1>8, <3>2
      <4> QED BY Zenon, <1>11, <3>2, <4>1
    <3>3. CASE d # c /\ e # c
      BY Zenon, <1>4, <1>6, <1>11, <3>3 DEF RangesReserved
    <3> QED BY Zenon, <3>1, <3>2, <3>3
  <2> QED BY Zenon, <2>1, <2>2 DEF RangesReserved, KeysOf, Span
<1>16. LevelsDisjoint'
  BY <1>1 DEF LevelsDisjoint, KeysOf, Span
<1> QED BY <1>12, <1>13, <1>14, <1>15, <1>16

-----------------------------------------------------------------------------
(* The replacement of the tables of a compaction, and the theorems on the   *)
(* ownership of tables and the disjointness of levels.                      *)

\* The facts about a finished compaction that both halves of the invariant use.
Swapped(c, l, P, C, new) ==
  /\ l \in Level /\ l + 1 \in Level /\ l \in Nat
  /\ P \subseteq tables[l] /\ C \subseteq tables[l + 1]
  /\ P \subseteq Table /\ C \subseteq Table
  /\ Owns(c) /\ Merging(c) /\ ~Owns(c)' /\ ~Merging(c)'
  /\ task'[c].parents = {} /\ task'[c].children = {}
  /\ \A d \in Tasks \ {c} : task'[d] = task[d]
  /\ UNCHANGED <<next_id, seq_offset, flush>>
  /\ Swaps(c, l, P, C, new)
  /\ new.id = task[c].id
  /\ KeysOf({new}) = KeysOf(P \cup C)
  /\ tables'[l] = tables[l] \ P
  /\ tables'[l + 1] = (tables[l + 1] \ C) \cup {new}
  /\ \A m \in Level \ {l, l + 1} : tables'[m] = tables[m]
  /\ \A m \in Level : \A t \in tables'[m] :
       t \in tables[m] \/ (m = l + 1 /\ t = new)

\* compact_level and fast_compaction have that effect.
LEMMA SwapEffect ==
  ASSUME OwnershipInv, NEW c \in Tasks,
         compact_level(c) \/ fast_compaction(c)
  PROVE  \E new \in Table :
           Swapped(c, task[c].level, task[c].parents, task[c].children, new)
<1> DEFINE l == task[c].level
           P == task[c].parents
           C == task[c].children
<1> HIDE DEF l, P, C
<1> USE DEF OwnershipInv
<1>1. /\ task[c].pc = "locked" /\ l \in Level /\ l + 1 \in Level
      /\ P \subseteq Table /\ C \subseteq Table
      /\ \E new \in Table : Swaps(c, l, P, C, new)
  BY SwapFacts DEF l, P, C
<1>2. Owns(c) /\ Merging(c)
  BY <1>1 DEF Owns, Merging
<1>3. P \subseteq tables[l] /\ C \subseteq tables[l + 1]
  BY <1>2 DEF FlagsOwned, l, P, C
<1>4. l \in Nat
  BY <1>2, OwnerLevel DEF l
<1>5. PICK new \in Table : Swaps(c, l, P, C, new)
  BY <1>1
<1>6. \/ task' = [task EXCEPT ![c] = Idle]
      \/ task' = [task EXCEPT ![c] = At("dead", 0, {}, {}, 0)]
  BY <1>5 DEF Swaps
<1>7. /\ task'[c].pc \in {"idle", "dead"}
      /\ task'[c].parents = {} /\ task'[c].children = {}
      /\ \A d \in Tasks \ {c} : task'[d] = task[d]
  BY <1>6 DEF TypeOK, Idle, At
<1>8. ~Owns(c)' /\ ~Merging(c)'
  BY <1>7 DEF Owns, Merging
<1>9. UNCHANGED <<next_id, seq_offset, flush>>
  BY <1>5 DEF Swaps
<1>10. new.id = task[c].id
  <2>1. CASE IsMove(P, C)
    <3>1. P = {new} /\ task[c].id \in Ids(P)
      BY <1>2, <1>5, <2>1 DEF Swaps, IdsUnique, P, C
    <3> QED BY <3>1 DEF Ids
  <2>2. CASE ~IsMove(P, C)
    BY <1>5, <2>2 DEF Swaps
  <2> QED BY <2>1, <2>2
<1>11. KeysOf({new}) = KeysOf(P \cup C)
  <2>1. CASE IsMove(P, C)
    <3>1. P \cup C = {new}
      BY <1>5, <2>1 DEF Swaps
    <3> QED BY <3>1
  <2>2. CASE ~IsMove(P, C)
    <3>1. Merge(P \cup C, new.data) /\ P \cup C \in SUBSET Table
      BY <1>1, <1>5, <2>2 DEF Swaps
    <3> QED BY <3>1, MergedKeys
  <2> QED BY <2>1, <2>2
<1>12. tables' = [tables EXCEPT ![l] = @ \ P, ![l + 1] = (@ \ C) \cup {new}]
  BY <1>5 DEF Swaps
<1>13. /\ tables'[l] = tables[l] \ P
       /\ tables'[l + 1] = (tables[l + 1] \ C) \cup {new}
       /\ \A m \in Level \ {l, l + 1} : tables'[m] = tables[m]
  BY <1>1, <1>4, <1>12 DEF TypeOK
<1>14. \A m \in Level : \A t \in tables'[m] :
         t \in tables[m] \/ (m = l + 1 /\ t = new)
  BY <1>13
<1>15. Swapped(c, l, P, C, new)
  BY <1>1, <1>2, <1>3, <1>4, <1>5, <1>7, <1>8, <1>9, <1>10, <1>11, <1>13,
     <1>14 DEF Swapped
<1> QED BY <1>15 DEF l, P, C

\* The end of a compaction: the new table fits the range its placeholder
\* reserved.
LEMMA SwapStep ==
  ASSUME OwnershipInv, TypeOK', NEW c \in Tasks,
         compact_level(c) \/ fast_compaction(c)
  PROVE  OwnershipInv'
<1> DEFINE l == task[c].level
           P == task[c].parents
           C == task[c].children
<1>0. PICK new \in Table : Swapped(c, l, P, C, new)
  BY SwapEffect
<1>1. /\ l \in Level /\ l + 1 \in Level /\ l \in Nat
      /\ P \subseteq tables[l] /\ C \subseteq tables[l + 1]
      /\ Owns(c) /\ Merging(c) /\ ~Owns(c)' /\ ~Merging(c)'
      /\ task'[c].parents = {} /\ task'[c].children = {}
      /\ \A d \in Tasks \ {c} : task'[d] = task[d]
      /\ UNCHANGED <<next_id, flush>>
  BY <1>0 DEF Swapped
<1>2. /\ Swaps(c, l, P, C, new)
      /\ new.id = task[c].id
      /\ KeysOf({new}) = KeysOf(P \cup C)
      /\ tables'[l] = tables[l] \ P
      /\ tables'[l + 1] = (tables[l + 1] \ C) \cup {new}
      /\ \A m \in Level \ {l, l + 1} : tables'[m] = tables[m]
      /\ \A m \in Level : \A t \in tables'[m] :
           t \in tables[m] \/ (m = l + 1 /\ t = new)
  BY <1>0 DEF Swapped
<1>3. Selected(c) = P \cup C /\ Reserved(c) = Span(KeysOf({new}))
  BY <1>2 DEF Selected, Reserved
<1> HIDE DEF l, P, C
<1> USE DEF OwnershipInv
<1>4. \A d \in Tasks \ {c} : /\ Owns(d)' = Owns(d) /\ Merging(d)' = Merging(d)
                             /\ Selected(d)' = Selected(d)
                             /\ Reserved(d)' = Reserved(d)
  BY Zenon, <1>1 DEF Owns, Merging, Selected, Reserved
<1>5. \A d \in Tasks \ {c} : Merging(d) => task[d].id # new.id
  <2>1. Merging(c) /\ new.id = task[c].id
    BY Zenon, <1>1, <1>2
  <2>2. \A d \in Tasks \ {c} : Merging(d) => task[d].id # task[c].id
    BY Zenon, <2>1 DEF IdsUnique
  <2> QED BY Zenon, <2>1, <2>2
<1>6. IdsGenerated'
  <2>1. new.id < next_id
    BY <1>1, <1>2 DEF IdsGenerated
  <2> QED BY Zenon, <1>1, <1>2, <1>4, <2>1 DEF IdsGenerated
<1>7. IdsUnique'
  <2>1. IsMove(P, C) => P = {new} /\ new \in tables[l]
    BY <1>1, <1>2 DEF Swaps
  <2>2. \A m \in Level : \A t \in tables'[m] : t.id = new.id =>
          m = l + 1 /\ t = new
    <3> SUFFICES ASSUME NEW m \in Level, NEW t \in tables'[m], t.id = new.id,
                        t \in tables[m]
                 PROVE  m = l + 1 /\ t = new
      BY <1>2
    <3>1. IsMove(P, C)
      <4> SUFFICES ASSUME ~IsMove(P, C) PROVE FALSE
        OBVIOUS
      <4>1. new.id \notin Ids(tables[m])
        BY <1>1, <1>2 DEF IdsUnique, P, C
      <4> QED BY <4>1 DEF Ids
    <3>2. m = l /\ t = new
      BY <1>1, <2>1, <3>1 DEF IdsUnique
    <3> QED BY <1>2, <2>1, <3>1, <3>2
  <2>3. \A m, n \in Level : \A s \in tables'[m], t \in tables'[n] :
          s.id = t.id => m = n /\ s = t
    <3>1. \A m, n \in Level : \A s \in tables[m], t \in tables[n] :
            s.id = t.id => m = n /\ s = t
      BY Zenon DEF IdsUnique
    <3> SUFFICES ASSUME NEW m \in Level, NEW n \in Level, NEW s \in tables'[m],
                        NEW t \in tables'[n], s.id = t.id
                 PROVE  m = n /\ s = t
      BY Zenon
    <3>2. CASE s \in tables[m] /\ t \in tables[n]
      BY Zenon, <3>1, <3>2
    <3>3. CASE s = new \/ t = new
      BY Zenon, <2>2, <3>3
    <3>4. (s \in tables[m] \/ s = new) /\ (t \in tables[n] \/ t = new)
      BY Zenon, <1>2
    <3> QED BY Zenon, <3>2, <3>3, <3>4
  <2>4. flush.pc = "build" => \A m \in Level : flush.id \notin Ids(tables'[m])
    <3>1. flush.pc = "build" => flush.id # new.id
      <4>1. CASE IsMove(P, C)
        <5>1. l \in Level /\ new \in tables[l]
          BY Zenon, <1>1, <2>1, <4>1
        <5>2. flush.pc = "build" => flush.id \notin Ids(tables[l])
          BY Zenon, <5>1 DEF IdsUnique
        <5>3. new.id \in Ids(tables[l])
          BY Zenon, <5>1 DEF Ids
        <5> QED BY Zenon, <5>2, <5>3
      <4>2. CASE ~IsMove(P, C)
        BY <1>1, <1>2, <4>2 DEF IdsUnique, P, C
      <4> QED BY <4>1, <4>2
    <3>2. flush.pc = "build" =>
            \A m \in Level : \A t \in tables[m] : t.id # flush.id
      <4>1. flush.pc = "build" => \A m \in Level : flush.id \notin Ids(tables[m])
        BY Zenon DEF IdsUnique
      <4> QED BY Zenon, <4>1 DEF Ids
    <3>3. flush.pc = "build" =>
            \A m \in Level : \A t \in tables'[m] : t.id # flush.id
      BY Zenon, <1>2, <3>1, <3>2
    <3> QED BY Zenon, <3>3 DEF Ids
  <2>5. \A d \in Tasks : Merging(d)' =>
          IF IsMove(task'[d].parents, task'[d].children)
          THEN task'[d].id \in Ids(task'[d].parents)
          ELSE /\ \A m \in Level : task'[d].id \notin Ids(tables'[m])
               /\ flush'.pc = "build" => flush'.id # task'[d].id
    <3> SUFFICES ASSUME NEW d \in Tasks \ {c}, Merging(d)
                 PROVE  IF IsMove(task[d].parents, task[d].children)
                        THEN task[d].id \in Ids(task[d].parents)
                        ELSE /\ \A m \in Level : task[d].id \notin Ids(tables'[m])
                             /\ flush.pc = "build" => flush.id # task[d].id
      BY Zenon, <1>1, <1>4
    <3>1. /\ IsMove(task[d].parents, task[d].children) =>
               task[d].id \in Ids(task[d].parents)
          /\ ~IsMove(task[d].parents, task[d].children) =>
               /\ \A m \in Level : \A t \in tables[m] : t.id # task[d].id
               /\ flush.pc = "build" => flush.id # task[d].id
      <4>1. /\ IsMove(task[d].parents, task[d].children) =>
                 task[d].id \in Ids(task[d].parents)
            /\ ~IsMove(task[d].parents, task[d].children) =>
                 /\ \A m \in Level : task[d].id \notin Ids(tables[m])
                 /\ flush.pc = "build" => flush.id # task[d].id
        BY Zenon DEF IdsUnique
      <4>2. ~IsMove(task[d].parents, task[d].children) =>
              \A m \in Level : \A t \in tables[m] : t.id # task[d].id
        BY Zenon, <4>1 DEF Ids
      <4> QED BY Zenon, <4>1, <4>2
    <3>2. task[d].id # new.id
      BY Zenon, <1>5
    <3>3. ~IsMove(task[d].parents, task[d].children) =>
            \A m \in Level : \A t \in tables'[m] : t.id # task[d].id
      BY Zenon, <1>2, <3>1, <3>2
    <3>4. ~IsMove(task[d].parents, task[d].children) =>
            \A m \in Level : task[d].id \notin Ids(tables'[m])
      BY Zenon, <3>3 DEF Ids
    <3> QED BY Zenon, <3>1, <3>4
  <2>6. \A d, e \in Tasks : d # e /\ Merging(d)' /\ Merging(e)' =>
          task'[d].id # task'[e].id
    BY <1>1, <1>4 DEF IdsUnique
  <2> QED BY <1>1, <2>3, <2>4, <2>5, <2>6 DEF IdsUnique, Ids
<1>8. FlagsOwned'
  <2>1. \A d \in Tasks \ {c} : \A t \in Selected(d) : t \notin P /\ t \notin C
    BY <1>3 DEF FlagsOwned, Ids
  <2>2. \A m \in Level : tables[m] \ (P \cup C) \subseteq tables'[m]
    BY <1>2
  <2>3. \A d \in Tasks \ {c} :
          /\ Owns(d) => task[d].parents \subseteq tables'[task[d].level]
          /\ Merging(d) => task[d].children \subseteq tables'[task[d].level + 1]
    <3> SUFFICES ASSUME NEW d \in Tasks \ {c}, Owns(d)
                 PROVE  /\ task[d].parents \subseteq tables'[task[d].level]
                        /\ Merging(d) =>
                             task[d].children \subseteq tables'[task[d].level + 1]
      BY DEF Owns, Merging
    <3>1. task[d].level \in Level /\ task[d].level + 1 \in Level
      BY OwnerLevel
    <3>2. /\ task[d].parents \subseteq tables[task[d].level]
          /\ Merging(d) => task[d].children \subseteq tables[task[d].level + 1]
      BY DEF FlagsOwned
    <3> QED BY <2>1, <2>2, <3>1, <3>2 DEF Selected
  <2>4. Ids(Selected(c))' = {} /\
        \A d \in Tasks \ {c} : Ids(Selected(d))' = Ids(Selected(d))
    BY <1>1, <1>4 DEF Selected, Ids
  <2>5. \A d \in Tasks : Ids(Selected(d))' \subseteq compacting'
    <3>1. compacting \ Ids(Selected(c)) \subseteq compacting'
      BY Zenon, <1>2, <1>3 DEF Swaps
    <3> QED BY <2>4, <3>1 DEF FlagsOwned
  <2>6. \A d, e \in Tasks : d # e =>
          Ids(Selected(d))' \cap Ids(Selected(e))' = {}
    BY <2>4 DEF FlagsOwned
  <2>7. \A d \in Tasks :
          /\ Owns(d)' => task'[d].parents \subseteq tables'[task'[d].level]
          /\ Merging(d)' =>
               task'[d].children \subseteq tables'[task'[d].level + 1]
          /\ ~Owns(d)' => task'[d].parents = {}
          /\ ~Merging(d)' => task'[d].children = {}
    BY <1>1, <1>4, <2>3 DEF FlagsOwned
  <2> QED BY <2>5, <2>6, <2>7 DEF FlagsOwned
<1>9. RangesReserved'
  <2>1. \A d \in Tasks : Merging(d)' =>
          /\ [id |-> task'[d].id, range |-> Reserved(d)']
               \in placeholders'[task'[d].level + 1]
          /\ \A t \in tables'[task'[d].level + 1] \ task'[d].children :
               Span(KeysOf({t})) \cap Reserved(d)' = {}
    <3> SUFFICES ASSUME NEW d \in Tasks \ {c}, Merging(d)
                 PROVE  /\ [id |-> task[d].id, range |-> Reserved(d)]
                             \in placeholders'[task[d].level + 1]
                        /\ \A t \in tables'[task[d].level + 1]
                                      \ task[d].children :
                             Span(KeysOf({t})) \cap Reserved(d) = {}
      BY Zenon, <1>1, <1>4
    <3>1. task[d].level + 1 \in Level /\ task[d].level \in Nat
      BY OwnerLevel DEF Owns, Merging
    <3>2. [id |-> task[d].id, range |-> Reserved(d)]
            \in placeholders[task[d].level + 1]
      BY DEF RangesReserved
    <3>3. placeholders' = [placeholders EXCEPT ![l + 1] =
                             {p \in @ : p.id # new.id}]
      BY <1>2 DEF Swaps
    <3>4. [id |-> task[d].id, range |-> Reserved(d)]
            \in placeholders'[task[d].level + 1]
      BY <1>1, <1>5, <3>1, <3>2, <3>3 DEF TypeOK
    <3>5. ASSUME NEW t \in tables'[task[d].level + 1] \ task[d].children
          PROVE  Span(KeysOf({t})) \cap Reserved(d) = {}
      <4>1. CASE t \in tables[task[d].level + 1]
        BY Zenon, <3>5, <4>1 DEF RangesReserved
      <4>2. CASE task[d].level + 1 = l + 1 /\ t = new
        <5>0. task[d].level = l
          BY <1>1, <3>1, <4>2
        <5>1. task[d].level = task[c].level
          BY Zenon, <5>0 DEF l
        <5>2. Reserved(c) \cap Reserved(d) = {}
          BY <1>1, <5>1 DEF RangesReserved
        <5> QED BY <1>3, <4>2, <5>2
      <4> QED BY Zenon, <1>2, <3>1, <4>1, <4>2
    <3> QED BY Zenon, <3>4, <3>5
  <2>2. \A d, e \in Tasks :
          /\ d # e /\ Merging(d)' /\ Merging(e)'
          /\ task'[d].level = task'[e].level
          => Reserved(d)' \cap Reserved(e)' = {}
    BY <1>1, <1>4 DEF RangesReserved
  <2> QED BY <2>1, <2>2 DEF RangesReserved, KeysOf, Span
<1>10. LevelsDisjoint'
  <2>1. \A t \in tables[l + 1] \ C : Span(KeysOf({t})) \cap Span(KeysOf({new})) = {}
    BY Zenon, <1>1, <1>3 DEF RangesReserved, l, C
  <2>2. \A m \in Level \ {0} : \A s, t \in tables'[m] :
          s # t => Span(KeysOf({s})) \cap Span(KeysOf({t})) = {}
    <3> SUFFICES ASSUME NEW m \in Level \ {0}, NEW s \in tables'[m],
                        NEW t \in tables'[m], s # t
                 PROVE  Span(KeysOf({s})) \cap Span(KeysOf({t})) = {}
      BY Zenon
    <3>1. CASE s \in tables[m] /\ t \in tables[m]
      BY <3>1 DEF LevelsDisjoint
    <3>2. CASE m = l + 1 /\ s = new
      BY Zenon, <1>2, <2>1, <3>2
    <3>3. CASE m = l + 1 /\ t = new
      BY Zenon, <1>2, <2>1, <3>3
    <3> QED BY Zenon, <1>2, <3>1, <3>2, <3>3
  <2> QED BY <2>2 DEF LevelsDisjoint, KeysOf, Span
<1> QED BY <1>6, <1>7, <1>8, <1>9, <1>10

\* A restart leaves nobody owning anything, and only takes tables away.
LEMMA ReopenStep ==
  ASSUME OwnershipInv, TypeOK', Reopen
  PROVE  OwnershipInv'
<1> USE DEF OwnershipInv
<1>1. \A c \in Tasks : /\ ~Owns(c)' /\ ~Merging(c)'
                       /\ task'[c].parents = {} /\ task'[c].children = {}
  BY DEF Reopen, Idle, At, Owns, Merging
<1>2. \A l \in Level : tables'[l] \subseteq tables[l]
  BY DEF Reopen
<1>3. flush'.pc # "build" /\ next_id' = next_id
  BY DEF Reopen, NoFlush
<1>4. \A c \in Tasks : Ids(Selected(c))' = {}
  BY <1>1 DEF Selected, Ids
<1>5. IdsGenerated'
  BY <1>1, <1>2, <1>3 DEF IdsGenerated
<1>6. IdsUnique'
  BY <1>1, <1>2, <1>3 DEF IdsUnique
<1>7. LevelsDisjoint'
  BY Zenon, <1>2 DEF LevelsDisjoint
<1>8. FlagsOwned' /\ RangesReserved'
  BY <1>1, <1>4 DEF FlagsOwned, RangesReserved
<1> QED BY <1>5, <1>6, <1>7, <1>8

\* In a new database nobody owns a table.
LEMMA OwnershipInit == Init => OwnershipInv
<1> SUFFICES ASSUME Init PROVE OwnershipInv
  OBVIOUS
<1>1. \A c \in Tasks : /\ ~Owns(c) /\ ~Merging(c)
                       /\ task[c].parents = {} /\ task[c].children = {}
  BY DEF Init, Idle, At, Owns, Merging
<1>2. \A l \in Level : tables[l] = {}
  BY DEF Init
<1>3. flush.pc # "build"
  BY DEF Init, NoFlush
<1>4. \A c \in Tasks : Ids(Selected(c)) = {}
  BY <1>1 DEF Selected, Ids
<1>5. IdsGenerated /\ IdsUnique /\ LevelsDisjoint
  BY <1>1, <1>2, <1>3 DEF IdsGenerated, IdsUnique, LevelsDisjoint
<1>6. FlagsOwned /\ RangesReserved
  BY <1>1, <1>4 DEF FlagsOwned, RangesReserved
<1> QED BY <1>5, <1>6, TypeInit DEF OwnershipInv

\* Every step keeps the ownership of tables, ids and ranges.
LEMMA OwnershipStep ==
  ASSUME OwnershipInv, [Next]_levelVars
  PROVE  OwnershipInv'
<1>0. TypeOK /\ TypeOK'
  BY TypeStep DEF OwnershipInv
<1>1. ASSUME NEW d, NEW n, FlushBuild(d, n) PROVE OwnershipInv'
  <2>1. \A e \in Tasks : QuietFor(e)
    BY <1>1 DEF FlushBuild, QuietFor, Owns, Merging
  <2>2. /\ UNCHANGED <<tables, compacting, placeholders>>
        /\ next_id' = next_id + 1 /\ flush'.id = next_id
    BY <1>1 DEF FlushBuild
  <2> QED BY <1>0, <2>1, <2>2, QuietStep
<1>2. CASE add_l0_table
  BY <1>0, <1>2, AddL0Step
<1>3. CASE set_seq_number_offset \/ FlushManifest
  <2>1. \A e \in Tasks : QuietFor(e)
    BY <1>3 DEF set_seq_number_offset, FlushManifest, QuietFor, Owns, Merging
  <2>2. /\ UNCHANGED <<tables, compacting, placeholders>>
        /\ next_id' = next_id /\ flush'.pc # "build"
    BY <1>3 DEF set_seq_number_offset, FlushManifest, NoFlush
  <2> QED BY <1>0, <2>1, <2>2, QuietStep
<1>4. ASSUME NEW c \in Tasks,
             do_level_compaction(c) \/ NothingToCompact(c) \/ StartContended(c)
      PROVE  OwnershipInv'
  <2>1. /\ UNCHANGED <<tables, compacting, placeholders, next_id, flush>>
        /\ task[c].pc \in {"idle", "select"}
        /\ \/ task' = [task EXCEPT ![c] = Selecting(0)]
           \/ task' = [task EXCEPT ![c] = NextLevel(c)]
    BY <1>4 DEF do_level_compaction, NothingToCompact, StartContended
  <2>2. /\ task'[c].pc \in {"idle", "select"}
        /\ task'[c].parents = {} /\ task'[c].children = {}
        /\ \A e \in Tasks \ {c} : task'[e] = task[e]
    BY <1>0, <2>1, NextLevelFacts DEF TypeOK, Selecting, At
  <2>3. task[c].parents = {} /\ task[c].children = {}
    BY <2>1 DEF OwnershipInv, FlagsOwned, Owns, Merging
  <2>4. \A e \in Tasks : QuietFor(e)
    <3>1. ~Owns(c) /\ ~Owns(c)' /\ ~Merging(c) /\ ~Merging(c)'
      BY <2>1, <2>2 DEF Owns, Merging
    <3>2. QuietFor(c)
      BY <2>2, <2>3, <3>1 DEF QuietFor
    <3>3. \A e \in Tasks \ {c} : QuietFor(e)
      BY <2>2 DEF QuietFor, Owns, Merging
    <3> QED BY <3>2, <3>3
  <2> QED BY <1>0, <2>1, <2>4, QuietStep
<1>5. ASSUME NEW c \in Tasks, LockParentLevel(c) PROVE OwnershipInv'
  <2>1. /\ UNCHANGED <<tables, compacting, placeholders, next_id, flush>>
        /\ task[c].pc = "build"
        /\ task' = [task EXCEPT ![c] = At("locked", task[c].level,
                      task[c].parents, task[c].children, task[c].id)]
    BY <1>5 DEF LockParentLevel
  <2>2. \A e \in Tasks : QuietFor(e)
    BY <1>0, <2>1 DEF TypeOK, At, QuietFor, Owns, Merging
  <2> QED BY <1>0, <2>1, <2>2, QuietStep
<1>6. ASSUME NEW c \in Tasks, maybe_start_compaction(c) PROVE OwnershipInv'
  BY <1>0, <1>6, StartStep
<1>7. ASSUME NEW c \in Tasks, get_overlaps(c) PROVE OwnershipInv'
  BY <1>0, <1>7, OverlapsStep
<1>8. ASSUME NEW c \in Tasks, OverlapsContended(c) PROVE OwnershipInv'
  BY <1>0, <1>8, AbortStep
<1>9. ASSUME NEW c \in Tasks, compact_level(c) \/ fast_compaction(c)
      PROVE  OwnershipInv'
  BY <1>0, <1>9, SwapStep
<1>10. ASSUME NEW l \in Level, TriggerSeek(l) \/ UNCHANGED levelVars
       PROVE  OwnershipInv'
  <2>1. UNCHANGED <<tables, compacting, placeholders, next_id, flush, task>>
    BY <1>10 DEF TriggerSeek, levelVars
  <2>2. \A e \in Tasks : QuietFor(e)
    BY <2>1 DEF QuietFor, Owns, Merging
  <2> QED BY <1>0, <2>1, <2>2, QuietStep
<1>11. CASE Reopen
  BY <1>0, <1>11, ReopenStep
<1> QED
  BY <1>1, <1>2, <1>3, <1>4, <1>5, <1>6, <1>7, <1>8, <1>9, <1>10, <1>11,
     LevelFacts
  DEF Next, Flush, Compact, Work

\* sorted_table/mod.rs: "Except for level 0, sorted tables do not overlap
\* others on the same level", with any number of concurrent compactions.
THEOREM LevelsStayDisjoint == Spec => []LevelsDisjoint
<1>1. Spec => []OwnershipInv
  BY OwnershipInit, OwnershipStep, PTL DEF Spec
<1>2. OwnershipInv => LevelsDisjoint
  BY DEF OwnershipInv
<1> QED BY <1>1, <1>2, PTL

\* No compaction finds a table it selected, or its placeholder, gone, and no
\* table is selected by two compactions: the assertions and panics of
\* compact_level, fast_compaction and remove_table_placeholder never fire.
THEOREM CompactionsOwnTheirTables == Spec => []CompactionOwnsTables
<1>1. Spec => []OwnershipInv
  BY OwnershipInit, OwnershipStep, PTL DEF Spec
<1>2. OwnershipInv => CompactionOwnsTables
  <2> SUFFICES ASSUME OwnershipInv PROVE CompactionOwnsTables
    OBVIOUS
  <2>1. \A c \in Tasks :
          /\ Owns(c) => task[c].parents \subseteq tables[task[c].level]
          /\ Merging(c) => task[c].children \subseteq tables[task[c].level + 1]
    BY DEF OwnershipInv, FlagsOwned
  <2>2. \A c \in Tasks : Merging(c) =>
          \E p \in placeholders[task[c].level + 1] : p.id = task[c].id
    <3>1. \A c \in Tasks : Merging(c) =>
            [id |-> task[c].id, range |-> Reserved(c)]
              \in placeholders[task[c].level + 1]
      BY DEF OwnershipInv, RangesReserved
    <3> QED BY Zenon, <3>1
  <2>3. \A c, d \in Tasks : c # d =>
          Ids(task[c].parents \cup task[c].children) \cap
          Ids(task[d].parents \cup task[d].children) = {}
    BY DEF OwnershipInv, FlagsOwned, Selected
  <2> QED BY <2>1, <2>2, <2>3 DEF CompactionOwnsTables
<1> QED BY <1>1, <1>2, PTL
=============================================================================
