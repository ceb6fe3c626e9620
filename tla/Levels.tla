------------------------------- MODULE Levels -------------------------------
(***************************************************************************)
(* The levels of the LSM tree and the tasks that compact them: level.rs,   *)
(* the compaction half of logic.rs, the compaction flag of                 *)
(* sorted_table/mod.rs and the table set of manifest.rs.                   *)
(*                                                                         *)
(* What is abstracted.                                                     *)
(*  - A sorted table is its id and, for each key, the sequence number of   *)
(*    the entry it holds (0: no entry).  Its minimum and maximum are those *)
(*    of the keys it holds, as in TableBuilder.                            *)
(*  - A level is a set of tables.  The code keeps a vector.  On level 0    *)
(*    the vector is in the order of the ids, since one task generates the  *)
(*    ids and appends the tables; on the others the tables are disjoint    *)
(*    (LevelsDisjoint), so that the order has no effect on a search.       *)
(*  - next_compaction_offset decides which table of a level that is too    *)
(*    large is compacted first; here it is any of them.                    *)
(*  - A step is what happens between two points where a task may wait for  *)
(*    a lock.  Selecting parents and children only takes read locks, so    *)
(*    two tasks may set flags at the same time; the only effect is that    *)
(*    one gives up on a flag the other clears again, and Contended allows  *)
(*    for that.                                                            *)
(***************************************************************************)
EXTENDS Integers, FiniteSets

CONSTANTS
  Keys,        \* the keys, a set of integers
  NumLevels,   \* Params::num_levels
  Tasks,       \* the level compaction tasks, compaction_concurrency of them
  None,        \* no task
  L0Trigger,   \* L0_COMPACTION_TRIGGER
  L1MaxSize,   \* Level::max_size of level 1
  SeekBased,   \* Params::seek_based_compaction is set
  MaxSeq,      \* bound: the largest sequence number
  MaxBatch,    \* bound: the sequence numbers one memtable uses
  MaxReopenId  \* bound: no restart once this many table ids are used

ASSUME ConstantsAssumption ==
  /\ Keys \subseteq Int
  /\ NumLevels \in Nat \ {0}
  /\ None \notin Tasks
  /\ L0Trigger \in Nat
  /\ L1MaxSize \in Nat
  /\ SeekBased \in BOOLEAN
  /\ MaxSeq \in Nat
  /\ MaxBatch \in Nat
  /\ MaxReopenId \in Nat

VARIABLES
  tables,       \* Level::tables
  compacting,   \* the ids of the tables whose compaction_flag is set
  placeholders, \* Level::table_placeholders
  seek,         \* Level::seek_based_compaction, 0 is INVALID_TABLE_ID
  wlock,        \* the task that holds the write lock of Level::tables
  next_id,      \* DatabaseMetadata::next_table_id
  seq_offset,   \* DatabaseMetadata::seq_number_offset
  manifest,     \* the table ids Manifest lists for each level
  flush,        \* do_memtable_compaction, as far as it touches the levels
  task          \* do_level_compaction of each task

levelVars == <<tables, compacting, placeholders, seek, wlock, next_id,
               seq_offset, manifest, flush, task>>

Level == 0 .. NumLevels - 1
Seqs == 0 .. MaxSeq
Data == [Keys -> Seqs]
Table == [id : Nat, data : Data]
Placeholder == [id : Nat, range : SUBSET Keys]

Ids(T) == {t.id : t \in T}
KeysOf(T) == {k \in Keys : \E t \in T : t.data[k] > 0}

\* The keys between the smallest and the largest of S.
Span(S) == {k \in Keys : \E a, b \in S : a <= k /\ k <= b}

overlaps(t, range) == Span(KeysOf({t})) \cap range # {}

max_size[l \in Nat] == IF l <= 1 THEN L1MaxSize ELSE 10 * max_size[l - 1]

Entries(T) == {e \in T \X Keys : e[1].data[e[2]] > 0}

size_based_compaction(l) ==
  IF l = 0 THEN Cardinality(tables[0]) > L0Trigger
           ELSE Cardinality(Entries(tables[l])) > max_size[l]

\* Where a task is in compact_level, with its local variables.
At(pc, l, P, C, id) ==
  [pc |-> pc, level |-> l, parents |-> P, children |-> C, id |-> id]
Idle == At("idle", 0, {}, {}, 0)
Selecting(l) == At("select", l, {}, {}, 0)
NoFlush == [pc |-> "idle", id |-> 0, data |-> [k \in Keys |-> 0], seq |-> 0]

Init ==
  /\ tables = [l \in Level |-> {}]
  /\ compacting = {}
  /\ placeholders = [l \in Level |-> {}]
  /\ seek = [l \in Level |-> 0]
  /\ wlock = [l \in Level |-> None]
  /\ next_id = 1
  /\ seq_offset = 1
  /\ manifest = [l \in Level |-> {}]
  /\ flush = NoFlush
  /\ task = [c \in Tasks |-> Idle]

-----------------------------------------------------------------------------
(* The memtable compaction task: build a table, add it to level 0 and list  *)
(* it in the manifest.  d is the immutable memtable, n the sequence number  *)
(* after its last one.                                                      *)

FlushBuild(d, n) ==
  /\ flush.pc = "idle"
  /\ flush' = [pc |-> "build", id |-> next_id, data |-> d, seq |-> n]
  /\ next_id' = next_id + 1
  /\ UNCHANGED <<tables, compacting, placeholders, seek, wlock, seq_offset,
                 manifest, task>>

add_l0_table ==
  /\ flush.pc = "build"
  /\ wlock[0] = None
  /\ tables' = [tables EXCEPT ![0] =
                  @ \cup {[id |-> flush.id, data |-> flush.data]}]
  /\ flush' = [pc |-> "added", id |-> flush.id, data |-> flush.data,
                seq |-> flush.seq]
  /\ UNCHANGED <<compacting, placeholders, seek, wlock, next_id, seq_offset,
                 manifest, task>>

set_seq_number_offset ==
  /\ flush.pc = "added"
  /\ seq_offset' = flush.seq
  /\ flush' = [pc |-> "numbered", id |-> flush.id, data |-> flush.data,
                seq |-> flush.seq]
  /\ UNCHANGED <<tables, compacting, placeholders, seek, wlock, next_id,
                 manifest, task>>

FlushManifest ==
  /\ flush.pc = "numbered"
  /\ manifest' = [manifest EXCEPT ![0] = @ \cup {flush.id}]
  /\ flush' = NoFlush
  /\ UNCHANGED <<tables, compacting, placeholders, seek, wlock, next_id,
                 seq_offset, task>>

\* What a memtable may hold: at least one entry, and sequence numbers from
\* seq_offset on, where the previous memtable ended.
FreshData(n) ==
  {d \in [Keys -> {0} \cup (seq_offset .. n - 1)] : \E k \in Keys : d[k] > 0}

-----------------------------------------------------------------------------
(* A level compaction task.                                                 *)

\* Mutant: the last level is compacted too.
NextLevel_TooFar(c) ==
  IF task[c].level + 1 < NumLevels
  THEN Selecting(task[c].level + 1)
  ELSE Idle

\* compact_level is done with a level without having compacted it.
NextLevel(c) ==
  IF task[c].level + 2 < NumLevels
  THEN Selecting(task[c].level + 1)
  ELSE Idle

do_level_compaction(c) ==
  /\ task[c].pc = "idle"
  /\ NumLevels > 1
  /\ task' = [task EXCEPT ![c] = Selecting(0)]
  /\ UNCHANGED <<tables, compacting, placeholders, seek, wlock, next_id,
                 seq_offset, manifest, flush>>

Candidates(l) ==
  IF size_based_compaction(l) THEN tables[l]
  ELSE {t \in tables[l] : t.id = seek[l]}

\* Mutant: on level 0 only the chosen table is selected.
Closed_Always(P, T) == TRUE

\* Level 0: every table that overlaps the range of the ones selected so far.
Closed(P, T) == \A t \in T : overlaps(t, Span(KeysOf(P))) => t \in P
OverlapClosure(P, t, T) ==
  /\ t \in P
  /\ Closed(P, T)
  /\ \A Q \in SUBSET P : t \in Q /\ Closed(Q, T) => Q = P

Selection(P, l) ==
  \E t \in Candidates(l) :
    IF l = 0 THEN OverlapClosure(P, t, tables[0]) ELSE P = {t}

\* A flag of one of these tables is set, or another task may have set one
\* that it clears again when it gives up.
Contended(c, P) ==
  \/ Ids(P) \cap compacting # {}
  \/ \E d \in Tasks \ {c} : task[d].pc \in {"select", "overlaps"}

\* A table that was chosen for its seeks is forgotten as soon as it is found.
ResetSeek(l) ==
  IF size_based_compaction(l) THEN seek ELSE [seek EXCEPT ![l] = 0]

NothingToCompact(c) ==
  LET l == task[c].level IN
  /\ task[c].pc = "select"
  /\ wlock[l] = None
  /\ Candidates(l) = {}
  /\ task' = [task EXCEPT ![c] = NextLevel(c)]
  /\ UNCHANGED <<tables, compacting, placeholders, seek, wlock, next_id,
                 seq_offset, manifest, flush>>

maybe_start_compaction(c) ==
  LET l == task[c].level IN
  /\ task[c].pc = "select"
  /\ wlock[l] = None
  /\ \E P \in SUBSET tables[l] :
       /\ Selection(P, l)
       /\ Ids(P) \cap compacting = {}
       /\ compacting' = compacting \cup Ids(P)
       /\ task' = [task EXCEPT ![c] = At("overlaps", l, P, {}, 0)]
  /\ seek' = ResetSeek(l)
  /\ UNCHANGED <<tables, placeholders, wlock, next_id, seq_offset, manifest,
                 flush>>

StartContended(c) ==
  LET l == task[c].level IN
  /\ task[c].pc = "select"
  /\ wlock[l] = None
  /\ \E P \in SUBSET tables[l] : Selection(P, l) /\ Contended(c, P)
  /\ seek' = ResetSeek(l)
  /\ task' = [task EXCEPT ![c] = NextLevel(c)]
  /\ UNCHANGED <<tables, compacting, placeholders, wlock, next_id, seq_offset,
                 manifest, flush>>

\* Mutant: get_overlaps skips tables that are being compacted instead of
\* giving up.
Overlapping_Unflagged(P, l) ==
  {t \in tables[l] : t.id \notin compacting /\ overlaps(t, Span(KeysOf(P)))}

Overlapping(P, l) == {t \in tables[l] : overlaps(t, Span(KeysOf(P)))}
IsMove(P, C) == C = {} /\ \E t \in P : P = {t}

PlaceholderInTheWay(l, range) ==
  \E p \in placeholders[l] : p.range \cap range # {}

get_overlaps(c) ==
  LET l == task[c].level + 1
      P == task[c].parents
      C == Overlapping(P, l)
      range == Span(KeysOf(P \cup C))
  IN
  /\ task[c].pc = "overlaps"
  /\ wlock[l] = None
  /\ Ids(C) \cap compacting = {}
  /\ ~PlaceholderInTheWay(l, range)
  /\ \E id \in IF IsMove(P, C) THEN Ids(P) ELSE {next_id} :
       /\ placeholders' = [placeholders EXCEPT ![l] =
                             @ \cup {[id |-> id, range |-> range]}]
       /\ task' = [task EXCEPT ![c] = At("build", task[c].level, P, C, id)]
  /\ next_id' = IF IsMove(P, C) THEN next_id ELSE next_id + 1
  /\ compacting' = compacting \cup Ids(C)
  /\ UNCHANGED <<tables, seek, wlock, seq_offset, manifest, flush>>

\* Mutant: the flags of the parents are cleared, but the compaction goes on.
OverlapsContended_GoesOn(c) ==
  /\ task[c].pc = "overlaps"
  /\ compacting' = compacting \ Ids(task[c].parents)
  /\ UNCHANGED <<tables, placeholders, seek, wlock, next_id, seq_offset,
                 manifest, flush, task>>

OverlapsContended(c) ==
  LET l == task[c].level + 1
      P == task[c].parents
      C == Overlapping(P, l)
  IN
  /\ task[c].pc = "overlaps"
  /\ wlock[l] = None
  /\ \/ Contended(c, C)
     \/ PlaceholderInTheWay(l, Span(KeysOf(P \cup C)))
  /\ compacting' = compacting \ Ids(P)
  /\ task' = [task EXCEPT ![c] = NextLevel(c)]
  /\ UNCHANGED <<tables, placeholders, seek, wlock, next_id, seq_offset,
                 manifest, flush>>

\* Mutant: the child level is locked, and then locked again.
LockParentLevel_Child(c) ==
  LET l == task[c].level IN
  /\ task[c].pc = "build"
  /\ wlock[l + 1] = None
  /\ wlock' = [wlock EXCEPT ![l + 1] = c]
  /\ task' = [task EXCEPT ![c] = At("locked", l, task[c].parents,
                                    task[c].children, task[c].id)]
  /\ UNCHANGED <<tables, compacting, placeholders, seek, next_id, seq_offset,
                 manifest, flush>>

\* The new table is built without a lock; then the parent level is locked.
LockParentLevel(c) ==
  LET l == task[c].level IN
  /\ task[c].pc = "build"
  /\ wlock[l] = None
  /\ wlock' = [wlock EXCEPT ![l] = c]
  /\ task' = [task EXCEPT ![c] = At("locked", l, task[c].parents,
                                    task[c].children, task[c].id)]
  /\ UNCHANGED <<tables, compacting, placeholders, seek, next_id, seq_offset,
                 manifest, flush>>

\* Mutant: the entry with the smallest sequence number wins.
Merge_Oldest(T, d) ==
  \A k \in Keys : /\ \E t \in T : d[k] = t.data[k]
                  /\ \A t \in T : t.data[k] > 0 => 0 < d[k] /\ d[k] <= t.data[k]

\* For every key the entry with the largest sequence number.
Merge(T, d) ==
  \A k \in Keys : /\ \E t \in T : d[k] = t.data[k]
                  /\ \A t \in T : t.data[k] <= d[k]

\* Replace the parents and the children by the new table, on both levels.
ReplaceTables(l, P, C, new) ==
  /\ tables' = [tables EXCEPT ![l] = @ \ P, ![l + 1] = (@ \ C) \cup {new}]
  /\ placeholders' = [placeholders EXCEPT ![l + 1] =
                        {p \in @ : p.id # new.id}]

\* Mutant: the children stay in the manifest.
update_table_set_KeepsChildren(c, l, P, C, id) ==
  /\ Ids(P) \subseteq manifest[l]
  /\ manifest' = [manifest EXCEPT ![l] = @ \ Ids(P), ![l + 1] = @ \cup {id}]
  /\ task' = [task EXCEPT ![c] = Idle]

\* The removals come after the additions, the children's before the parents'.
\* A parent that is not listed ends the task with a panic, with some of the
\* parents removed.
update_table_set(c, l, P, C, id) ==
  \/ /\ Ids(P) \subseteq manifest[l]
     /\ manifest' = [manifest EXCEPT ![l] = @ \ Ids(P),
                                     ![l + 1] = (@ \cup {id}) \ Ids(C)]
     /\ task' = [task EXCEPT ![c] = Idle]
  \/ /\ ~(Ids(P) \subseteq manifest[l])
     /\ \E R \in SUBSET (Ids(P) \cap manifest[l]) :
          manifest' = [manifest EXCEPT ![l] = @ \ R,
                                       ![l + 1] = (@ \cup {id}) \ Ids(C)]
     /\ task' = [task EXCEPT ![c] = At("dead", 0, {}, {}, 0)]

compact_level(c) ==
  LET l == task[c].level
      P == task[c].parents
      C == task[c].children
  IN
  /\ task[c].pc = "locked"
  /\ wlock[l + 1] = None
  /\ ~IsMove(P, C)
  /\ \E d \in Data :
       /\ Merge(P \cup C, d)
       /\ ReplaceTables(l, P, C, [id |-> task[c].id, data |-> d])
  /\ update_table_set(c, l, P, C, task[c].id)
  /\ compacting' = compacting \ Ids(P \cup C)
  /\ wlock' = [wlock EXCEPT ![l] = None]
  /\ UNCHANGED <<seek, next_id, seq_offset, flush>>

\* The table keeps its flag when update_table_set panics.
fast_compaction(c) ==
  LET l == task[c].level
      P == task[c].parents
      C == task[c].children
  IN
  /\ task[c].pc = "locked"
  /\ wlock[l + 1] = None
  /\ IsMove(P, C)
  /\ \E t \in P : ReplaceTables(l, P, C, t)
  /\ update_table_set(c, l, P, C, task[c].id)
  /\ compacting' = IF task'[c].pc = "dead" THEN compacting
                                           ELSE compacting \ Ids(P)
  /\ wlock' = [wlock EXCEPT ![l] = None]
  /\ UNCHANGED <<seek, next_id, seq_offset, flush>>

\* Level::get finds a table that used up its seeks.
TriggerSeek(l) ==
  /\ SeekBased
  /\ wlock[l] = None
  /\ seek[l] = 0
  /\ \E t \in tables[l] : seek' = [seek EXCEPT ![l] = t.id]
  /\ UNCHANGED <<tables, compacting, placeholders, wlock, next_id, seq_offset,
                 manifest, flush, task>>

\* The process is killed and the database opened again: DbLogic::new loads the
\* tables the manifest lists, and the tasks start anew.  A restart after a
\* panic in update_table_set, which leaves the manifest with some of the changes
\* of a compaction, is not modelled: what is said of restarts is said of those
\* before any such panic.
Reopen ==
  /\ next_id <= MaxReopenId
  /\ \A c \in Tasks : task[c].pc # "dead"
  /\ tables' = [l \in Level |-> {t \in tables[l] : t.id \in manifest[l]}]
  /\ compacting' = {}
  /\ placeholders' = [l \in Level |-> {}]
  /\ seek' = [l \in Level |-> 0]
  /\ wlock' = [l \in Level |-> None]
  /\ flush' = NoFlush
  /\ task' = [c \in Tasks |-> Idle]
  /\ UNCHANGED <<next_id, seq_offset, manifest>>

-----------------------------------------------------------------------------
Flush ==
  \/ \E n \in seq_offset + 1 .. seq_offset + MaxBatch :
       /\ n <= MaxSeq + 1
       /\ \E d \in FreshData(n) : FlushBuild(d, n)
  \/ add_l0_table
  \/ set_seq_number_offset
  \/ FlushManifest

Work(c) ==
  \/ NothingToCompact(c)
  \/ maybe_start_compaction(c)
  \/ StartContended(c)
  \/ get_overlaps(c)
  \/ OverlapsContended(c)
  \/ LockParentLevel(c)
  \/ compact_level(c)
  \/ fast_compaction(c)

Compact(c) == do_level_compaction(c) \/ Work(c)

Next ==
  \/ Flush
  \/ \E c \in Tasks : Compact(c)
  \/ \E l \in Level : TriggerSeek(l)
  \/ Reopen

Spec == Init /\ [][Next]_levelVars

\* A task that has begun keeps being polled, and tokio's RwLock is granted in
\* the order of the requests, so that a task waiting for a lock others take
\* again and again gets it in the end: strong fairness.
FairSpec == Spec /\ \A c \in Tasks : SF_levelVars(Work(c))

-----------------------------------------------------------------------------
(* Properties.                                                              *)

\* The tasks that have selected tables, and those that also have children
\* and a placeholder.
Owns(c) == task[c].pc \in {"overlaps", "build", "locked"}
Merging(c) == task[c].pc \in {"build", "locked"}

TaskState ==
  [pc : {"idle", "select", "overlaps", "build", "locked", "dead"},
   level : Level, parents : SUBSET Table, children : SUBSET Table, id : Nat]

\* Every variable has the shape of the field or local variable it models, and
\* a task that works on a level always has a level below it.
TypeOK ==
  /\ tables \in [Level -> SUBSET Table]
  /\ compacting \subseteq Nat
  /\ placeholders \in [Level -> SUBSET Placeholder]
  /\ seek \in [Level -> Nat]
  /\ wlock \in [Level -> Tasks \cup {None}]
  /\ next_id \in Nat \ {0}
  /\ seq_offset \in Nat
  /\ manifest \in [Level -> SUBSET Nat]
  /\ flush \in [pc : {"idle", "build", "added", "numbered"}, id : Nat, data : Data,
                seq : Nat]
  /\ task \in [Tasks -> TaskState]
  /\ \A c \in Tasks :
       task[c].pc \notin {"idle", "dead"} => task[c].level + 1 \in Level

\* sorted_table/mod.rs: "Except for level 0, sorted tables do not overlap
\* others on the same level".  Tasks that compact into the same level at the
\* same time have only flags and placeholders to keep it so.
LevelsDisjoint ==
  \A l \in Level \ {0} : \A s, t \in tables[l] :
    s # t => Span(KeysOf({s})) \cap Span(KeysOf({t})) = {}

\* compact_level and fast_compaction find every table they selected still on
\* its level, and the placeholder they are to remove (the assert!(found), the
\* expect and the panic on a missing placeholder never fire), and no table is
\* worked on by two tasks.
CompactionOwnsTables ==
  /\ \A c \in Tasks :
       /\ Owns(c) => task[c].parents \subseteq tables[task[c].level]
       /\ Merging(c) =>
            /\ task[c].children \subseteq tables[task[c].level + 1]
            /\ \E p \in placeholders[task[c].level + 1] : p.id = task[c].id
  /\ \A c, d \in Tasks : c # d /\ Owns(c) /\ Owns(d) =>
       Ids(task[c].parents \cup task[c].children) \cap
       Ids(task[d].parents \cup task[d].children) = {}

Holding(l, k) == {t \in tables[l] : t.data[k] > 0}

\* DbLogic::get past the memtables: the search for k may end at table t of
\* level l.  Levels are searched from the top, level 0 from the newest table
\* to the oldest, and the first entry found is the result.
StopsAt(l, t, k) ==
  /\ t \in Holding(l, k)
  /\ \A m \in Level : m < l => Holding(m, k) = {}
  /\ l = 0 => \A s \in Holding(0, k) : s.id <= t.id

Results(k) == {t.data[k] : t \in {t \in UNION {tables[l] : l \in Level} :
                                    \E l \in Level : StopsAt(l, t, k)}}

\* The search, which stops at the first hit, never returns an older entry than
\* one that some level still holds, whatever the compactions that move tables
\* down have done so far.
LookupNewest ==
  \A k \in Keys : \A l, m \in Level : \A t \in tables[l], s \in tables[m] :
    StopsAt(l, t, k) => s.data[k] <= t.data[k]

\* A compaction that moves a table down or merges several does not change the
\* result of any search; only a table added to level 0 does.
CompactionPreservesLookup ==
  [][(\E c \in Tasks : Compact(c)) =>
       \A k \in Keys : Results(k)' = Results(k)]_levelVars

\* As long as no update has panicked, the manifest lists exactly the tables of
\* each level, but for the one being flushed: a restart finds what the levels
\* held, whatever compactions it interrupts.
ManifestListsTables ==
  (\A c \in Tasks : task[c].pc # "dead") => \A l \in Level :
    manifest[l] = Ids(tables[l]) \
      (IF l = 0 /\ flush.pc \in {"added", "numbered"} THEN {flush.id} ELSE {})

\* manifest.rs: update_table_set "must be called while holding logs to the
\* affected levels to prevent race conditions", and panics when a table to be
\* removed is not listed.
NoManifestPanic == \A c \in Tasks : task[c].pc # "dead"

\* Under FairSpec a compaction that has set its flags always finishes and
\* gives them back: parent and child level are locked in the same order by
\* every task, so that no two tasks wait for each other.
CompactionEnds == \A c \in Tasks : Owns(c) ~> ~Owns(c)
=============================================================================
