# A TLA+ model of lsm-rs

`lsm-rs` is an embedded key-value store: a log-structured merge tree written in
asynchronous Rust. This directory models the parts of it in which tasks,
callers and crashes interleave and the algorithms that lay tables out and search
them, checks them with TLC on small instances, and proves with TLAPS, for every
size, that the store implements a map, and the central invariants of the level
compaction, the write-ahead log, the background tasks and the table builder.
Source paths below are relative to `src/src/` of the repository.

## 1. The system and where it is modelled

| Part | Source | Module |
|---|---|---|
| Levels, level compaction, table flags and placeholders | `level.rs`, `logic.rs` 653-1008, `sorted_table/mod.rs` | `Levels` (proofs: `LevelsOwnership`, `LevelsOrder`) |
| Manifest: table sets, next id, sequence and log offset | `manifest.rs` | `Levels` (tables, ids), `DbLogic` (log offset) |
| Write path, memtables, flush | `logic.rs` 509-645, `memtable.rs`, `write_batch.rs` | `DbLogic` (proofs: `DbInvariant`, `DbStore`, `DbRefinement`) |
| Read path | `logic.rs` 444-501, `level.rs` 117-151 | `DbLogic` |
| Opening a database after a kill | `logic.rs` 81-235, `manifest.rs` | `DbLogic`, `Levels` |
| What `Database` promises | `database.rs` | `KVStore` |
| Write-ahead log while it runs | `wal/mod.rs`, `wal/writer.rs` | `WriteAheadLog` (proofs: `WriteAheadLog_proofs`) |
| Write-ahead log files and recovery | `wal/reader.rs`, `wal/writer.rs` | `LogRecovery` |
| Background tasks | `tasks.rs`, `database.rs` | `TaskManager` (proofs: `TaskManager_proofs`) |
| Building tables and blocks | `sorted_table/builder.rs`, `data_blocks/builder.rs` | `TableBuilder` (proofs: `TableBuilder_proofs`) |
| Searching tables and blocks, table iterators | `index_blocks.rs`, `data_blocks/block.rs`, `sorted_table/iterator.rs` | `SortedTable` |
| Iterators over the store | `iterate.rs`, `sync/src/iterate.rs`, `memtable.rs`, `logic.rs` 246-373 | `Iterators` |
| Value log, its index and its garbage collection (feature `wisckey`) | `values/index.rs`, `values/mod.rs`, `values/batch.rs`, parts of `manifest.rs` and `logic.rs` | `ValueIndex` |
| Reading values, disk access, parameters, level logger, the rest of `sync/` | `values/mod.rs`, `disk.rs`, `params.rs`, `level_logger.rs`, `sync/` | no |

How the parts interact. A caller of `Database::write_opts` appends its batch to
the log, inserts it into the memtable and, when that is full, hands it over as
the immutable memtable and wakes the memtable task. That task writes it as a
table of level 0, lists it in the manifest, trims the log and wakes the level
tasks. Each of those picks tables of a level that is too large (or whose seeks
are used up) and merges them into the next level. A reader looks into the
memtable, the immutable memtable and the levels, one lock at a time. After a
kill the manifest says which tables there are and from where the log is to be
replayed.

## 2. The modules

**Levels.** State: `tables`, `compacting` (the flags), `placeholders`, `seek`,
the write locks `wlock`, the ids and table sets of the manifest, the flush as
far as it touches the levels, and where each task is in `compact_level`. Steps
are what happens between two points where a task may wait for a lock:
selecting parents (`maybe_start_compaction`, `StartContended`,
`NothingToCompact`), selecting children and reserving a range (`get_overlaps`,
`OverlapsContended`), locking the parent level (`LockParentLevel`), and the
replacement on both levels with the update of the manifest (`compact_level`,
`fast_compaction`). `Reopen` is a kill followed by opening the database. A table
is its id and the sequence number it holds for each key.

**DbLogic** extends `Levels` with the log, the memtables, `write_opts`
(`WriteBegin`, `LogRecord`, `Apply`, `PushImm`), the flush (`FlushStart` to
`PopImm`, one action per update of shared or durable state), `get`
(`GetBegin`, `GetMemtable`, `GetImm`, `GetLevel`) and `Restart`. The value of an
entry is the number of the log record that wrote it, so that two writes are
never confused. It is shown to implement two specifications:
`ImplementsKVStore` (refinement mapping in the `INSTANCE KVStore`) and
`ImplementsLevels` (the memtables it flushes are those `Levels` allows).

**KVStore** is the promise: batches take effect at one instant, a `get` returns
a value the key had while it ran, and after a kill everything acknowledged is
there and of an unfinished batch a prefix.

**WriteAheadLog** has `LogStatus` field by field, the callers of `store`,
`sync`, `set_offset` and `stop`, and `update_log` split at its lock regions and
file operations (`Capture`, `write_all`, `SyncFile`, `RemovePages`,
`Publish`). Data is its length.

**LogRecovery** has the bytes of the page files. The writer fills pages and
creates the next one; `Kill` may come between any two file operations; the
reader is `WalReader` turn by turn; `continue_from` resumes writing.
`Positioned` tells the builds apart: with `_async-io` a write names its place
in the file, without it the file's cursor does.

**TaskManager** has `work_loop` of the memtable task and of the level tasks, the
stored permit of tokio's `Notify`, `wake_up`, and the way a `Database` ends:
`stop` ends the writer of the log (`wal`), then `stop_all` tells the tasks, and
`terminate` is the drop (`phase` is `open`, `stopping`, `stopped` or `dropped`).
Work is counted: `imm` immutable memtables, `todo` needed compactions. The
flush has the two steps that matter here, adding the table (`AddTable`) and, after
`wal.set_offset`, removing the memtable (`PopImm`): without a log writer the
second never comes.

**TableBuilder** adds entries to a table: prefixes shared with the last key,
the two counters of restarts, full blocks, the index of first keys. A key is a
short sequence of letters, of a value only its length matters.

**SortedTable** extends it with what reads such a table: the two binary
searches, the scan from a restart point, `get`, and `TableIterator` in both
directions. These are operators on a finished table; the properties compare them
with `added`, the entries that were put in. A read outside of a block is the
result `Panic`.

**Iterators** has a small store (memtables, two levels, flushes and compactions
as single steps) and one iterator: `prepare_iter` takes the memtables,
`PrepareLevel` one level at a time, and each round of `next` parses all sources.
The iterator refers to the current memtable by its number, not by its contents,
because `MemtableRef::get_mut` changes it in place.

**ValueIndex** has the index pages in memory and on disk (`pages`, `disk`), the
batch files (`files`), the page and batch ids of the manifest, the deletion
records of the log, and the values that tables refer to (`refs`; `listed` is
what the manifest has of them). A flush writes a batch, adds it to the index,
adds its table, syncs the index and trims the log (`make_batch` to `Trim`). A
compaction marks a value and removes index pages that are no longer used
(`mark_value_as_deleted`, `RemovePage`, `SetMinimumPage`), logs the mark
(`StoreDeletion`), collects garbage (`try_to_remove` with
`mark_batch_as_deleted`, `RemoveBatchFile` and `SetMinimumBatch`, or
`try_to_compact` with `mark_batch_as_compacted`), re-inserts what that returned
(`Reinsert`) and replaces its tables (`CompactionEnd`). Ids and offsets are
those the code passes: the id of a value is a byte offset, and the garbage
collection gets a page id where it takes a batch id. Where that makes an index
or an `expect` fail, the task panics and stays so; the flush does when a batch
has too many values for a page. The process is killed and opened again between
any two of these steps. The variables `placed`, `marked` and `skipped` are
histories.

Modules named `MC...` instantiate these for TLC. Operators marked `Mutant` are
altered copies of the definition that follows them; they are not part of any
specification and show that each property can be violated by a plausible
mistake (`mutants` in `PROJECT.json`).

## 3. What is checked

| Run | Config | Result |
|---|---|---|
| `levels` | `MCLevels.cfg` | holds |
| `db` | `MCDbLogic.cfg` | holds |
| `wal` | `MCWal.cfg` | holds |
| `recovery` | `MCRecovery.cfg` | holds |
| `tasks` | `MCTasks.cfg` | holds |
| `tables` | `MCTables.cfg` | holds |
| `iterators` | `MCIterators.cfg` | holds |
| `values` | `MCValues.cfg` | holds |
| `manifest_panic` | `MCLevelsPanic.cfg` | violated |
| `wal_durable` | `MCWalDurable.cfg` | violated |
| `recovery_cursor` | `MCRecoveryCursor.cfg` | violated |
| `iterators_snapshot` | `MCIteratorsSnapshot.cfg` | violated |

What the passing runs show:

- `levels`. Concurrent compactions, with flushes, seeks and restarts, keep every
  level below level 0 disjoint (`LevelsDisjoint`), find their tables and
  placeholders where they left them (`CompactionOwnsTables`), never let a search
  return an older entry than one that exists (`LookupNewest`), do not change the
  result of any search (`CompactionPreservesLookup`), keep the manifest in line
  with the levels (`ManifestListsTables`), and end (`CompactionEnds`).
- `db`. The store implements `KVStore` and `Levels`, the panics on offsets
  that do not increase never fire (`OffsetsAdvance`), also when a flush that a
  kill interrupted is done again, and the page recovery starts from exists
  (`LogReachesOffset`), except between two steps of the flush.
- `wal`. The assertions of `update_log` hold (`PositionsAgree`), pages are
  removed neither twice nor too early (`PagesKept`), nobody is parked although
  what it waits for has happened (`NoLostWakeup`), `sync_pos` is ahead of
  `write_pos` only while the writer has synced and not yet published
  (`SyncBehindWrite`), stores queued before `stop` are written
  (`QueuedIsWritten`) and `sync` and `set_offset` return (`CallersReturn`).
- `recovery`. A recovery that ends has found exactly the records that were
  written completely (`RecoveredIsWritten`), for builds with positioned writes,
  and it ends if no page of the log is empty (`RecoveryEnds`).
- `tasks`. No task sleeps over work (`NoSleepingOverWork`), a writer that waits
  for the flush goes on (`WriterGoesOn`), needed compactions are done
  (`CompactionsGetDone`), all until `stop` is called, and `stop` ends the tasks
  (`StopEndsTasks`).
- `tables`. Keys at restart points are stored in full (`RestartsAgree`), `get`
  returns exactly what was added, whatever a Bloom filter says of other keys
  (`GetFindsAdded`), and iterating returns all entries in order, in both
  directions (`IteratesInOrder`).
- `iterators`. Keys come in order and within the range (`YieldsInOrder`) and the
  loop in `next` is bounded (`RoundsBounded`), although the memtable changes
  under the iterator; and if nobody writes meanwhile, the iteration returns
  every value of the range, none that was replaced or deleted, although flushes
  and compactions move entries while the levels are collected (`FindsNewest`).
- `values`. The entries of the index agree with the marks made and the deletions
  logged, across kills (`DeletionsKept`); the index finds a batch where it was
  put, although it computes the place from ids (`BatchesFound`); the pages the
  manifest names are on disk and hold what the log will mark (`PagesOnDisk`);
  pages are in order and of bounded size (`IndexTypeOK`), and the minimum batch
  of the manifest stays below the next one (`MetadataOrdered`).

What the violated ones show, each a disagreement between the code and a comment
of it (quoted in `findings` of `PROJECT.json`):

- `manifest_panic`. The flush adds its table to level 0 before the manifest
  lists it, without holding the level's lock. A level task that compacts the
  table in between panics in `update_table_set`.
- `wal_durable`. `sync` calls `sync_data` only on the current page's file.
- `recovery_cursor`. Without `_async-io` the reopened page is written from its
  start, over the records that were just recovered.
- `iterators_snapshot`. An iteration does not return the "consistent snapshot"
  of `sync/src/iterate.rs` 13 (relative to the repository's `src/`). It
  may return a deletion, which `MemtableIterator` has as an entry (`memtable.rs`
  157) and on which `get_value` panics. With `MaxDeletes = 0`
  the run fails as well, on a write to the memtable that the iterator shares: it
  may be returned, it makes an iteration backwards pass over an entry if it is
  inserted below the next one, and an iteration forwards that began on an empty
  memtable panics after it ("Not a valid iterator").

Some properties hold only with an exception, because the code does not keep them
there. Each exception is part of the property, and the runs reach the states it
is about:

- `LogReachesOffset`: the flush removes log pages (`logic.rs` 628) before the
  manifest has the new offset. After a kill in between the database cannot be
  opened.
- `SyncBehindWrite`: `sync_pos` is published before `write_pos` (`wal/writer.rs`
  156), against the order stated on `LogStatus` (`wal/mod.rs` 80); a `sync` in
  between fails its assertion.
- `RecoveryEnds`: if the last page is empty, because the one before it was just
  filled or the log is new, the reader opens it again and again
  (`wal/reader.rs` 205).
- `RecoveredIsWritten`: a kill that leaves the first byte of a record on the last
  place of a page (`lone`).
- `NoSleepingOverWork`, `WriterGoesOn` and `CompactionsGetDone` end with `stop`:
  it ends the writer of the log first (`database.rs`, `stop`), and a flush that
  comes to `wal.set_offset` after that waits forever, with the writer that waits
  for it.
- `StopEndsTasks`: that flush is the memtable task's, which therefore does not
  end; and dropping the `Database` right after `stop` clears the flag that `stop`
  set (`tasks.rs` 285).
- `FindsNewest`: writes while the iterator runs, and the deletions it returns;
  both are the subject of `iterators_snapshot`.
- `PagesOnDisk`: the manifest stores the id of a new index page before the page
  is written (`values/index.rs` 494), which is for good if the batch does not fit
  and the flush panics; and the new minimum page is stored as the minimum
  batch (`manifest.rs` 361), so that after the removal of a page the next start
  looks for it.
- `BatchesFound`: a kill between `make_batch` and the write of the page leaves a
  gap in the batch ids, and `get_batch_range` counts places by ids
  (`values/index.rs` 250). Also excepted are batches of which all values were
  marked: values are marked before the manifest replaces the tables
  (`logic.rs` 924, 942), so that after a kill in between tables refer to them,
  and the page may be gone.
- `ManifestListsTables` ends with a panic in `update_table_set`, and no restart
  after one is modelled: it leaves the manifest with some of the changes of a
  compaction.
- A kill in the window of `LogReachesOffset` ends the behaviour if the page is
  gone: `ImplementsKVStore` says nothing of a store that cannot be opened.

### Bounds

- `levels`: two keys, sequence numbers up to 2 and up to two per memtable, so
  that a level has two disjoint tables or one that spans both, and a newer entry
  follows an older one down; three levels, so that one task compacts out of a
  level that another compacts into; two tasks; level 0 is too large with
  two tables and level 1 with two entries, and seeks trigger compactions of
  single tables; restarts while at most two ids are used, which covers a kill in
  every step of a flush and of a compaction.
- `db`: two keys, two levels, three records in batches of one or two, a memtable
  full at one key, pages of two records: every write is flushed, batches cross
  pages, and after a restart the flush is done again.
- `wal`: two storers, a syncer, the flush, three bytes on pages of two: a store
  can span pages, an offset can be inside a page or on its boundary.
- `recovery`: pages of three bytes, records of two to four bytes (so that they
  end before, on and behind a page boundary), four records, three kills.
- `tasks`: the memtable task, two level tasks, two callers and two calls that
  make work, a flush making at most one compaction necessary; `stop` and the drop
  at any time.
- `tables`: all seven keys of up to two letters (the empty one included), in
  every ascending selection; intervals of one to three and blocks of one, two,
  three and seven entries give tables of one to seven blocks and blocks of one
  to seven restart points, with full and partial last intervals.
- `iterators`: three keys, two levels, three writes of which one may be a
  deletion, the whole range and one whose outer key is excluded: enough for a
  version in the memtable, one in level 0 and one below, and for a write at every
  place around the iterator's position. The store is followed while the iterator
  collects its sources; afterwards only writes to the memtable it shares can
  matter to it. `iterators_snapshot` needs only two writes.
- `values`: pages of seven units and batches of 0, 1, 3, 6 and 7 values, so that a
  page has one batch, several, exactly one that fills it, or cannot take it; bits
  are stored in elements of two, and a value has two bytes, so that its offset is
  within its batch or behind it; two compacting tasks, which are symmetric; up to
  three batches, two marks and two kills, five of these together: pages are
  sealed, emptied, removed and read back, batches collected and re-inserted.

Deadlock is not checked where the bounds (no more records, ids or calls) let the
system run out of steps.

### Fairness

Background tasks and woken callers are futures the tokio runtime keeps polling:
weak fairness of their steps. Level compactions wait for locks that others take
again and again; tokio's `RwLock` grants them in the order of the requests:
strong fairness of `Work`. The log reader of `recovery` goes on as long as it can
(weak fairness): nothing else runs while a database is opened. A `stop` that has
ended the log goes on to `stop_all` (weak fairness). Nothing is assumed of
callers that start an operation or a `stop`, of restarts and of seeks.

## 4. What is proved

### The levels

`LevelsOwnership` and `LevelsOrder`, which extends it, prove, for any finite or
infinite set of integer keys, any number of levels, tasks and tables, any thresholds and
bounds, and with restarts and seek-based compaction:

| Theorem | Module | Statement |
|---|---|---|
| `TypeCorrect` | `LevelsOwnership` | `Spec => []TypeOK` |
| `LevelsStayDisjoint` | `LevelsOwnership` | `Spec => []LevelsDisjoint` |
| `CompactionsOwnTheirTables` | `LevelsOwnership` | `Spec => []CompactionOwnsTables` |
| `LookupFindsNewest` | `LevelsOrder` | `Spec => []LookupNewest` |
| `ManifestListsEveryTable` | `LevelsOrder` | `Spec => []ManifestListsTables` |
| `CompactionsPreserveLookup` | `LevelsOrder` | `Spec => CompactionPreservesLookup` |

`LevelsOwnership` states the inductive invariant and proves its part on types and
ownership, `LevelsOrder` the order of versions and the manifest.

The only assumption is `ConstantsAssumption` of `Levels`. The argument:

- *Ownership* (`OwnershipInv`). `LevelsDisjoint` is not inductive: whether the
  table a compaction adds fits depends on what happened on the child level
  since the children were selected. The invariant adds that ids are unique
  (`IdsGenerated`, `IdsUnique`), that a task holds the flags of the tables it
  selected and nobody else does (`FlagsOwned`), and that the range it reserved
  is disjoint from the ranges of other tasks and from all tables but its
  children (`RangesReserved`). The range is computed while the children are
  collected, and `WidenedRange` shows that widening it by overlapping tables
  meets no further table. `LevelsStayDisjoint` and `CompactionsOwnTheirTables`
  follow.
- *Order* (`OrderInv`). A search stops at the first hit, so what must hold is
  that a table further up, and the newer table of level 0, has the newer entry
  (`VersionOrder`). A compaction of level 0 keeps that because it takes every
  overlapping table that was there, and tables added since are newer
  (`ParentsOldest`, `FlushNewest`).
- *Manifest* (`ManifestInv`). Every listed table is on its level, every table
  is listed but for the one being flushed, and listed tables only use sequence
  numbers below the recorded offset, which is what makes `FlushNewest` hold
  after a restart. It is conditional on no update having panicked, and
  `manifest_panic` shows that this is necessary.
- *Searches* (`CompactionsPreserveLookup`). In every state of the invariant a
  search finds the largest sequence number any table has for the key
  (`ResultsNewest`), and a compaction keeps that entry in the table it adds. This
  is an action property: it holds of every step, whatever other compactions have
  selected.

### The write-ahead log

`WriteAheadLog_proofs` proves, for any set of storers and syncers and any page
size and bounds (`WalAssumption`), that `Spec` of `WriteAheadLog` keeps the types
(`WalTypeCorrect`), that the positions of `LogStatus` and of the writer agree
(`PositionsAlwaysAgree`), that the files are exactly the pages between the
flushed offset and the write position (`PagesAlwaysKept`), and that no wakeup is
lost (`NoWakeupIsLost`), and that `sync_pos` passes `write_pos` only while the
writer is about to publish (`SyncStaysBehindWrite`). The invariant `WalInv` is the
conjunction of the first four with two facts about what `update_log` has captured outside its lock: the
offsets it captured still are the ones to trim between (`TrimCaptured`), and it
has written everything before it trims and publishes (`AllWritten`). That the
page of a position is the one the writer has open rests on four facts of
division with remainder (`DivMod`, `PageApart`, `PageMonotonic`,
`WriteWithinPage`).

### The store

`DbInvariant`, `DbStore` and `DbRefinement`, each extending the one before, prove,
from `ConstantsAssumption` and `DbAssumption`, for any keys, levels, tasks,
readers and bounds:

| Theorem | Module | Statement |
|---|---|---|
| `StoreImplementsLevels` | `DbInvariant` | `DbSpec => ImplementsLevels` |
| `DbTypeCorrect` | `DbInvariant` | `DbSpec => []DbTypeOK` |
| `OffsetsAlwaysAdvance` | `DbInvariant` | `DbSpec => []OffsetsAdvance` |
| `StoreFindsNewest` | `DbInvariant` | `DbSpec => []LookupNewest` |
| `LogAlwaysReachesOffset` | `DbInvariant` | `DbSpec => []LogReachesOffset` |
| `StoreImplementsMap` | `DbRefinement` | `DbSpec => ImplementsKVStore` |
| `ViewIsAlwaysLast` | `DbRefinement` | `DbSpec => []ViewIsLast` |

`Levels` lets the flush add any memtable that is newer than the recorded offset;
that the store only flushes such memtables needs an invariant of the store, and
that invariant needs the one of the levels, so the two are proved together
(`DbInvariant`). Its parts: memtables have disjoint, increasing ranges of
sequence numbers (`MemtablesInOrder`), the immutable one is one the levels accept
until its numbers are recorded (`ImmIsFresh`), what a writer has done of its batch
(`WriterProgress`), the offsets of the manifest, of the immutable memtable and the
end of the log follow one another (`LogInOrder`), and the flush works on the
immutable memtable that is there (`FlushProgress`). A restart is the hard step:
`RestartStep` shows that the log from the recorded offset (`Replayed`) gives a
memtable with numbers above everything on the levels.

That the store implements the map needs to know which operation an entry stands
for (`StoreInv` of `DbStore`): what a caller can see of a key is the last
operation on it that took effect (`ViewIsLast`); the entries of tables come from
records that write their key, and a larger sequence number from a later record
(`TablesPlaced`); the tables a restart loads have every operation before the
offset it replays from (`Durable`); a memtable that has been flushed is in the
tables until it is removed (`Flushed`); and a `get` that is under way will find a
value its key had since it began, wherever it is about to look (`ReadersSee`).
The last is where flushes and compactions race readers: an entry moves down, from
the memtable to the immutable one, to level 0 and to lower levels, and a reader
looks from the top down, so that it may find an entry where it comes to, or a newer
one, but cannot miss it (`Covered`). `DbStore` shows that writes, flushes and
compactions keep the invariant, `DbRefinement` that restarts and the steps of a
`get` do, and that every step of the store is a step of `KVStore` or none.

### The background tasks

`TaskManager_proofs` proves from `TasksAssumption`, for any set of level tasks
and callers, that types are kept (`TasksTypeCorrect`) and that no task sleeps
over work until `stop` is called (`NoWakeUpIsLost`, for at least one level task:
with `compaction_concurrency` 0 nobody compacts). That some task is awake is not
inductive, as it may be about to go to sleep. The invariant `TasksInv` says that
it is `Alert`: at work, or with a change noted since it last looked, so that it
will look again before it waits (`MemtableInv`, `LevelInv`), unless the caller
that made the work is about to announce it. `StopInv` relates the flag, the log
and the phase of the `Database`; `TrimInv` says that a flush keeps its memtable
until the log is trimmed.

### The table builder

`TableBuilder_proofs` proves, for any set of keys, interval and block size, that
the builder keeps its types (`BuilderTypeCorrect`) and that every key at a restart
point is stored in full and its offset recorded (`RestartsAlwaysAgree`). The code
decides this with two counters, `position % interval` when the entry is added and
`restart_count` before its prefix is cut. The invariant `BuilderInv` says that they
agree (`CountsAgree`: the position is a multiple of the interval plus the count),
and that the finished blocks have the property too.

### Only model-checked

Liveness, which TLAPS does not prove; `QueuedIsWritten` is of that kind.
`LogRecovery`, `Iterators` and `ValueIndex`; and the searches of `SortedTable`,
which are recursive.

## 5. What is not modelled

- The layout of files in bytes (but for the pages of the log), compression, the
  contents of Bloom filters, the data block cache: data that no property
  distinguishes.
- Power failures. A kill loses nothing that was handed to the operating system;
  in particular the memory-mapped manifest is taken to be written as a whole
  (the order of its flushes, `manifest.rs` 488, is a hazard without a property),
  and so is an index page that is rewritten in place (`values/index.rs` 192).
- Cancelling a call by dropping its future.
- Equal instants in `work_loop`: two calls of `Instant::now` are taken to differ.
- The restart interval is not stored with a block (`data_blocks/block.rs` 178);
  tables are read with the interval they were written with.
- The count of seeks of a table: `Levels` chooses when it is used up
  (`TriggerSeek`). That a trigger naming a table that is gone stays for good
  (`level.rs` 208) is modelled, but no property is stated: nothing says how long a
  trigger may last.
- Reading values of the value log, their cache, and what a re-inserted batch
  contains. The code of the garbage collection does not fit together, and
  `ValueIndex` has it as it is: `mark_value_deleted` passes a page id where
  `try_to_remove` takes a batch id (`values/mod.rs` 131), ids of values are byte
  offsets where they are made (`values/batch.rs` 72) and positions where they are
  marked (`values/index.rs` 272), the ratio of active values is divided as an
  integer (`values/mod.rs` 206), and `get_entries` slices with lengths as ends
  (`values/batch.rs` 142), so that reading a batch may panic or not, which is a
  choice in the model. That the batch file of a value stays while a table refers
  to it therefore does not hold, and is not among the properties. Left out: the
  `unwrap` of the value id of an overwritten deletion (`logic.rs` 836), and the
  locks of two levels that a compaction holds while it re-inserts (`logic.rs`
  934), where it may wait for a flush that waits for level 0.
- In `Levels`, a restart after `update_table_set` has panicked.
- In `LogRecovery`, a byte inside a record that has the value of an entry type:
  a reader that is out of step stops there, where the code would go on. It gets
  out of step only in the logs that `lone` excepts and in builds without
  `_async-io`.
- In `TaskManager`, compactions that make others necessary further down, and tasks
  that panic.
- `disk.rs` (system calls), `params.rs` (settings), `level_logger.rs` (output), and
  of `sync/` what only forwards to the asynchronous store.
