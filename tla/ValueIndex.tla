----------------------------- MODULE ValueIndex -----------------------------
(***************************************************************************)
(* The value log (feature wisckey): its index (values/index.rs) and the    *)
(* garbage collection of its batches (values/mod.rs).  The index holds for *)
(* every value one bit, in pages, that says whether some table still       *)
(* refers to it.  A memtable flush adds a batch of values; a compaction    *)
(* marks the values it drops as deleted, and tries to remove or to rewrite *)
(* their batch.  A mark is made in memory, then recorded in the            *)
(* write-ahead log; the page reaches the disk when a batch is added to it  *)
(* or a flush syncs the whole index, which it does before it trims the     *)
(* log.  Opening the database reads the pages the manifest names and       *)
(* applies the deletions in the log.                                       *)
(*                                                                         *)
(* What is abstracted.                                                     *)
(*  - The values of a batch all have the same size.                        *)
(*  - Of the tables only the values they refer to.  A compaction drops one *)
(*    value.  Which tables it locks is left out, and so is what it inserts *)
(*    again (entries cut out of the wrong bytes, if it does not panic).    *)
(*  - The log is the sequence of its deletion records, none of which a     *)
(*    kill of the process takes back, and where it has been trimmed.       *)
(*  - The cache of batches: it holds a batch only while its file exists.   *)
(***************************************************************************)
EXTENDS Integers, Sequences, FiniteSets, FiniteSetsExt, SequencesExt

CONSTANTS
  MaxSize,    \* MAX_SIZE of a page
  WordBits,   \* the bits of an element of the bitmap as it is stored
  ValueSize,  \* the bytes of a value in its batch, with header and padding
  Tasks,      \* the compactions that run at a time
  BatchSizes, \* bound: how many values a batch has
  MaxBatches, \* bound: batches whose id is generated
  MaxMarks,   \* bound: values that are marked
  MaxKills,   \* bound: how often the process is killed
  MaxWork     \* bound: batches, marks and kills together

ASSUME IndexAssumption ==
  /\ MaxSize \in Nat
  /\ BatchSizes \subseteq Nat
  /\ WordBits \in Nat \ {0}
  /\ ValueSize \in Nat \ {0}
  /\ MaxBatches \in Nat /\ MaxMarks \in Nat
  /\ MaxKills \in Nat /\ MaxWork \in Nat

VARIABLES
  pages,      \* the pages in memory, the oldest first
  disk,       \* the page files: what is stored under each page id
  files,      \* the batch files: the number of values of each batch
  next_batch, next_page, min_batch, min_page, \* ValueLogMetadata
  log,        \* the DeleteValue records written to the log
  trimmed,    \* how many of them set_offset has cut off
  refs,       \* the values the tables in memory refer to
  listed,     \* the values the tables in the manifest refer to
  flush,      \* the memtable flush: pc, batch, n(umber of values), cut
  task,       \* each compaction: pc, the value it drops, its page and place
  up,         \* "running", "down", or "failed" (open did not succeed)
  placed,     \* history: the page, the place in it and the size of each batch
  marked,     \* history: the pages and places compactions have marked
  skipped,    \* history: a kill left a batch id without a batch
  kills

index == <<pages, disk>>
manifest == <<next_batch, next_page, min_batch, min_page>>
tables == <<refs, listed>>
wal == <<log, trimmed>>
history == <<placed, marked, skipped, kills>>
vars == <<index, files, manifest, wal, tables, flush, task, up, history>>

----------------------------------------------------------------------------
(* IndexPage *)

OffsetSize == 2

NewPage(id, start) ==
  [id |-> id, start_batch |-> start, offsets |-> <<>>, batches |-> <<>>,
   entries |-> <<>>, sealed |-> FALSE, dirty |-> TRUE]

\* Mutant of Fits: the offsets take no space.
Fits_Entries(p, n) == Len(p.entries) + n <= MaxSize

\* Is there enough space?  The bits of the bitmap are counted as bytes.
Fits(p, n) == (Len(p.offsets) + 1) * OffsetSize + Len(p.entries) + n <= MaxSize

expand(p, n) ==
  IF Fits(p, n)
  THEN [p EXCEPT !.offsets = Append(@, Len(p.entries)),
                 !.batches = Append(@, "Active"),
                 !.entries = @ \o [i \in 1 .. n |-> TRUE],
                 !.dirty = TRUE]
  ELSE [p EXCEPT !.sealed = TRUE]

\* The bitmap is stored in whole elements: the bits that fill up the last one
\* are unset.
Padded(bits) ==
  bits \o [i \in 1 .. (WordBits - (Len(bits) % WordBits)) % WordBits |-> FALSE]

\* What sync writes; sealed and dirty are not stored.
Image(p) ==
  [id |-> p.id, start_batch |-> p.start_batch, offsets |-> p.offsets,
   batches |-> p.batches, entries |-> Padded(p.entries)]

OpenPage(image, sealed) ==
  [id |-> image.id, start_batch |-> image.start_batch,
   offsets |-> image.offsets, batches |-> image.batches,
   entries |-> image.entries, sealed |-> sealed, dirty |-> FALSE]

is_in_use(p) == \E i \in DOMAIN p.entries : p.entries[i]

\* The place of a batch in the page's lists.
BatchIdx(p, b) == b - p.start_batch + 1
HasBatch(p, b) == BatchIdx(p, b) \in DOMAIN p.offsets

get_batch_range(p, b) ==
  LET i == BatchIdx(p, b)
  IN  <<p.offsets[i],
        IF i < Len(p.offsets) THEN p.offsets[i + 1] ELSE Len(p.entries)>>

\* As places in the page.
get_active_entries(p, b) ==
  LET r == get_batch_range(p, b)
  IN  {pos \in r[1] .. r[2] - 1 : p.entries[pos + 1]}

mark_value_as_deleted_at(p, offset) ==
  IF p.entries[offset + 1]
  THEN [p EXCEPT !.entries[offset + 1] = FALSE, !.dirty = TRUE]
  ELSE p

----------------------------------------------------------------------------
(* ValueIndex *)

\* Mutant of find_page_idx: a page does not hold the batch it starts with.
find_page_idx_Below(b) ==
  Max({i \in DOMAIN pages : pages[i].start_batch < b} \union {0})

\* The last page that starts no later than the batch; 0: none.
find_page_idx(b) ==
  Max({i \in DOMAIN pages : pages[i].start_batch <= b} \union {0})

\* Looking for the batch indexes past the end of its page's lists.
Misplaced(b) == find_page_idx(b) # 0 /\ ~HasBatch(pages[find_page_idx(b)], b)

count_active_entries(b) ==
  LET i == find_page_idx(b)
  IN  IF i = 0 THEN 0 ELSE Cardinality(get_active_entries(pages[i], b))

Unused(p) == p.sealed /\ ~is_in_use(p)

Idle == [pc |-> "idle", vid |-> <<0, 0>>, page |-> 0, offset |-> 0]
NoFlush == [pc |-> "idle", batch |-> 0, n |-> 0, cut |-> 0]

Init ==
  /\ pages = <<[NewPage(1, 1) EXCEPT !.dirty = FALSE]>>
  /\ disk = [id \in {1} |-> Image(NewPage(1, 1))]
  /\ files = <<>>
  /\ next_batch = 1 /\ next_page = 2 /\ min_batch = 0 /\ min_page = 1
  /\ log = <<>> /\ trimmed = 0
  /\ refs = {} /\ listed = {}
  /\ flush = NoFlush
  /\ task = [t \in Tasks |-> Idle]
  /\ up = "running"
  /\ placed = <<>> /\ marked = {} /\ skipped = FALSE /\ kills = 0

\* What MaxWork bounds.
Work == next_batch - 1 + Cardinality(marked) + kills

\* The lock on the pages is free: add_batch, sync and the removal of pages hold
\* it over their file operations.
Unlocked ==
  /\ up = "running"
  /\ flush.pc \notin {"write", "sync"}
  /\ \A t \in Tasks : task[t].pc # "remove"

----------------------------------------------------------------------------
(* The memtable flush *)

\* The flush takes an id for the batch from the manifest.  The offset that the
\* log will be trimmed to was fixed before, when the memtable was replaced.  A
\* memtable of deletions has no values.
make_batch ==
  /\ up = "running" /\ flush.pc = "idle"
  /\ next_batch <= MaxBatches /\ Work < MaxWork
  /\ \E n \in BatchSizes, cut \in trimmed .. Len(log) :
       flush' = [pc |-> "batch", batch |-> next_batch, n |-> n, cut |-> cut]
  /\ next_batch' = next_batch + 1
  /\ UNCHANGED <<index, files, next_page, min_batch, min_page, wal, tables, task,
                 up, history>>

\* ValueBatchBuilder::finish writes the values, and adds the batch to the index.
WriteValues ==
  /\ up = "running" /\ flush.pc = "batch"
  /\ files' = [b \in DOMAIN files \union {flush.batch} |->
                 IF b = flush.batch THEN flush.n ELSE files[b]]
  /\ flush' = [flush EXCEPT !.pc = "values"]
  /\ UNCHANGED <<index, manifest, wal, tables, task, up, history>>

\* The batch goes to the last page, or that page is sealed and the batch goes to
\* a new one, whose id the manifest stores at once.
AddToIndex ==
  /\ LET last  == Len(pages)
         old   == expand(pages[last], flush.n)
         fresh == expand(NewPage(next_page, flush.batch), flush.n)
         new   == IF old.sealed THEN fresh ELSE old
     IN  /\ pages' = IF old.sealed
                     THEN Append([pages EXCEPT ![last] = old], fresh)
                     ELSE [pages EXCEPT ![last] = old]
         /\ next_page' = IF old.sealed THEN next_page + 1 ELSE next_page
         /\ IF new.sealed
            THEN flush' = [NoFlush EXCEPT !.pc = "panicked"] /\ UNCHANGED placed
            ELSE /\ flush' = [flush EXCEPT !.pc = "write"]
                 /\ placed' =
                      [b \in DOMAIN placed \union {flush.batch} |->
                         IF b # flush.batch THEN placed[b]
                         ELSE [page |-> new.id, n |-> flush.n,
                               start |-> Len(new.entries) - flush.n]]

\* The flush task panics if the batch has as many values as a page has bytes, or
\* too many for a page of its own.
add_batch ==
  /\ Unlocked /\ flush.pc = "values"
  /\ IF flush.n < MaxSize THEN AddToIndex
     ELSE /\ flush' = [NoFlush EXCEPT !.pc = "panicked"]
          /\ UNCHANGED <<pages, next_page, placed>>
  /\ UNCHANGED <<disk, files, next_batch, min_batch, min_page, wal, tables, task,
                 up, marked, skipped, kills>>

Store(i) ==
  /\ disk' = [id \in DOMAIN disk \union {pages[i].id} |->
                IF id = pages[i].id THEN Image(pages[i]) ELSE disk[id]]
  /\ pages' = [pages EXCEPT ![i].dirty = FALSE]

\* Mutant of WriteBatchPage: the page is not written.
WriteBatchPage_Skipped ==
  /\ up = "running" /\ flush.pc = "write"
  /\ flush' = [flush EXCEPT !.pc = "batched"]
  /\ UNCHANGED <<index, files, manifest, wal, tables, task, up, history>>

\* The last step of add_batch: the page reaches the disk, and the lock is
\* released.
WriteBatchPage ==
  /\ up = "running" /\ flush.pc = "write"
  /\ Store(Len(pages))
  /\ flush' = [flush EXCEPT !.pc = "batched"]
  /\ UNCHANGED <<files, manifest, wal, tables, task, up, history>>

\* ValueBatchBuilder::add_entry: a value's id is its batch and its place in
\* bytes, not its number.
Vids(b, n) == {<<b, i * ValueSize>> : i \in 0 .. n - 1}

\* The table that refers to the batch is added to level 0.
AddTable ==
  /\ up = "running" /\ flush.pc = "batched"
  /\ refs' = refs \union Vids(flush.batch, flush.n)
  /\ flush' = [flush EXCEPT !.pc = "added"]
  /\ UNCHANGED <<index, files, manifest, wal, listed, task, up, history>>

\* ValueIndex::sync takes the lock, writes the pages that changed, one after
\* the other, and releases it.
SyncStart ==
  /\ Unlocked /\ flush.pc = "added"
  /\ flush' = [flush EXCEPT !.pc = "sync"]
  /\ UNCHANGED <<index, files, manifest, wal, tables, task, up, history>>

SyncPage ==
  /\ up = "running" /\ flush.pc = "sync"
  /\ \E i \in DOMAIN pages :
       /\ pages[i].dirty /\ \A j \in 1 .. i - 1 : ~pages[j].dirty
       /\ Store(i)
  /\ UNCHANGED <<files, manifest, wal, tables, flush, task, up, history>>

\* Mutant of SyncEnd: the lock is released before all pages are written.
SyncEnd_Early ==
  /\ up = "running" /\ flush.pc = "sync"
  /\ ~pages[Len(pages)].dirty
  /\ flush' = [flush EXCEPT !.pc = "synced"]
  /\ UNCHANGED <<index, files, manifest, wal, tables, task, up, history>>

SyncEnd ==
  /\ up = "running" /\ flush.pc = "sync"
  /\ \A i \in DOMAIN pages : ~pages[i].dirty
  /\ flush' = [flush EXCEPT !.pc = "synced"]
  /\ UNCHANGED <<index, files, manifest, wal, tables, task, up, history>>

\* The manifest learns of the table.
UpdateTables ==
  /\ up = "running" /\ flush.pc = "synced"
  /\ listed' = listed \union (refs \intersect Vids(flush.batch, flush.n))
  /\ flush' = [flush EXCEPT !.pc = "listed"]
  /\ UNCHANGED <<index, files, manifest, wal, refs, task, up, history>>

\* The flush ends by trimming the log.
Trim ==
  /\ up = "running" /\ flush.pc = "listed"
  /\ trimmed' = flush.cut
  /\ flush' = NoFlush
  /\ UNCHANGED <<index, files, manifest, log, tables, task, up, history>>

----------------------------------------------------------------------------
(* Compactions: compact_level, once it has replaced its tables in memory.   *)
(* An error or a panic ends the task.                                       *)

GoTo(t, pc) == task' = [task EXCEPT ![t].pc = pc]
Panic(t) == task' = [task EXCEPT ![t] = [Idle EXCEPT !.pc = "panicked"]]

\* The page is found and has the bit, and the bit is set.  The second half of
\* the id is taken for the number of the value.
Markable(i, vid) ==
  /\ i # 0
  /\ HasBatch(pages[i], vid[1])
  /\ get_batch_range(pages[i], vid[1])[1] + vid[2]
       \in get_active_entries(pages[i], vid[1])

\* ValueIndex::mark_value_as_deleted marks the value in memory; if that empties
\* the oldest page, and that is sealed, it goes on to remove pages.
mark_value_as_deleted(t) ==
  /\ Unlocked /\ task[t].pc = "idle"
  /\ Cardinality(marked) < MaxMarks /\ Work < MaxWork
  /\ \E vid \in refs :
       LET i == find_page_idx(vid[1])
           offset == get_batch_range(pages[i], vid[1])[1] + vid[2]
           after == mark_value_as_deleted_at(pages[i], offset)
       IN  /\ refs' = refs \ {vid}
           /\ \/ /\ ~Markable(i, vid)
                 /\ Panic(t)
                 /\ UNCHANGED <<pages, marked>>
              \/ /\ Markable(i, vid)
                 /\ pages' = [pages EXCEPT ![i] = after]
                 /\ marked' = marked \union {<<after.id, offset>>}
                 /\ task' = [task EXCEPT ![t] =
                      [pc |-> IF i = 1 /\ Unused(after) THEN "remove" ELSE "marked",
                       vid |-> vid, page |-> after.id, offset |-> offset]]
  /\ UNCHANGED <<disk, files, manifest, wal, listed, flush, up, placed, skipped,
                 kills>>

\* The oldest pages are removed, file by file, as long as they are not in use.
\* (A page that a flush created before it panicked has no file.)
RemovePage(t) ==
  /\ up = "running" /\ task[t].pc = "remove"
  /\ Unused(pages[1])
  /\ \/ /\ pages[1].id \in DOMAIN disk
        /\ disk' = [id \in DOMAIN disk \ {pages[1].id} |-> disk[id]]
        /\ pages' = Tail(pages)
        /\ UNCHANGED task
     \/ /\ pages[1].id \notin DOMAIN disk
        /\ Panic(t)
        /\ UNCHANGED index
  /\ UNCHANGED <<files, manifest, wal, tables, flush, up, history>>

\* Mutant of SetMinimum: the page after it is stored.
SetMinimum_Next(id) == min_batch' = id + 1

\* Manifest::set_minimum_value_index_page_id, which stores the id of the page
\* as the minimum batch.
SetMinimum(id) == min_batch' = id

SetMinimumPage(t) ==
  /\ up = "running" /\ task[t].pc = "remove"
  /\ ~Unused(pages[1])
  /\ SetMinimum(pages[1].id)
  /\ GoTo(t, "marked")
  /\ UNCHANGED <<index, files, next_batch, next_page, min_page, wal, tables, flush,
                 up, history>>

\* ValueLog::mark_value_deleted then stores the deletion in the log.
StoreDeletion(t) ==
  /\ up = "running" /\ task[t].pc = "marked"
  /\ log' = Append(log, [page |-> task[t].page, offset |-> task[t].offset])
  /\ GoTo(t, "logged")
  /\ UNCHANGED <<index, files, manifest, trimmed, tables, flush, up, history>>

\* try_to_remove is called with the id of the page where it takes a batch's.
\* Does the batch have active entries?
try_to_remove(t) ==
  /\ Unlocked /\ task[t].pc = "logged"
  /\ IF Misplaced(task[t].page) THEN Panic(t)
     ELSE GoTo(t, IF count_active_entries(task[t].page) > 0 THEN "sparse"
                                                            ELSE "empty")
  /\ UNCHANGED <<index, files, manifest, wal, tables, flush, up, history>>

\* mark_batch_as_deleted and mark_batch_as_compacted both store Deleted, and
\* panic if the page has gone or the batch was marked before.  The page does not
\* become dirty.
IsActive(b) ==
  LET i == find_page_idx(b)
  IN  /\ i # 0
      /\ HasBatch(pages[i], b)
      /\ pages[i].batches[BatchIdx(pages[i], b)] = "Active"
MarkBatch(b) ==
  LET i == find_page_idx(b)
  IN  pages' = [pages EXCEPT ![i].batches[BatchIdx(pages[i], b)] = "Deleted"]

mark_batch_as_deleted(t) ==
  /\ Unlocked /\ task[t].pc = "empty"
  /\ IF IsActive(task[t].page)
     THEN MarkBatch(task[t].page) /\ GoTo(t, "unlink")
     ELSE Panic(t) /\ UNCHANGED pages
  /\ UNCHANGED <<disk, files, manifest, wal, tables, flush, up, history>>

\* remove_batch_from_disk: the file, and then the minimum in the manifest, unless
\* the batch is a later one.
RemoveBatchFile(t) ==
  LET b == task[t].page IN
  /\ up = "running" /\ task[t].pc = "unlink"
  /\ IF b \in DOMAIN files
     THEN /\ files' = [c \in DOMAIN files \ {b} |-> files[c]]
          /\ GoTo(t, IF b > Max({min_batch, 1}) THEN "end" ELSE "minimum")
     ELSE Panic(t) /\ UNCHANGED files
  /\ UNCHANGED <<index, manifest, wal, tables, flush, up, history>>

\* The loop looks at the same batch, which is empty, until it has come to the
\* most recent one.  The manifest panics if the minimum does not increase.
SetMinimumBatch(t) ==
  LET new == Max({task[t].page, next_batch - 1}) IN
  /\ Unlocked /\ task[t].pc = "minimum"
  /\ IF min_batch < new THEN min_batch' = new /\ GoTo(t, "end")
                        ELSE Panic(t) /\ UNCHANGED min_batch
  /\ UNCHANGED <<index, files, next_batch, next_page, min_page, wal, tables, flush,
                 up, history>>

\* The share of active entries is a quotient of whole numbers.
try_to_compact(t) ==
  LET b == task[t].page IN
  /\ Unlocked /\ task[t].pc = "sparse"
  /\ IF b \notin DOMAIN files \/ Misplaced(b) THEN Panic(t)
     ELSE IF files[b] = 0 THEN Panic(t)   \* a division by zero
     ELSE GoTo(t, IF (count_active_entries(b) * 100) \div (files[b] * 100) < 25
                  THEN "compact" ELSE "end")
  /\ UNCHANGED <<index, files, manifest, wal, tables, flush, up, history>>

\* ValueBatch::get_entries takes the places of the active entries in the page for
\* places in the bytes of the batch: it panics, returns entries that are not
\* there, or none if there are no active ones any more.
mark_batch_as_compacted(t) ==
  /\ Unlocked /\ task[t].pc = "compact"
  /\ IF IsActive(task[t].page)
     THEN /\ MarkBatch(task[t].page)
          /\ Panic(t) \/ GoTo(t, "reinsert")
     ELSE Panic(t) /\ UNCHANGED pages
  /\ UNCHANGED <<disk, files, manifest, wal, tables, flush, up, history>>

\* What get_entries returned, if anything, is written to the memtable with
\* write_opts.
Reinsert(t) ==
  /\ up = "running" /\ task[t].pc = "reinsert"
  /\ GoTo(t, "end")
  /\ UNCHANGED <<index, files, manifest, wal, tables, flush, up, history>>

\* At its end the compaction replaces its tables in the manifest.
CompactionEnd(t) ==
  /\ up = "running" /\ task[t].pc = "end"
  /\ listed' = listed \ {task[t].vid}
  /\ task' = [task EXCEPT ![t] = Idle]
  /\ UNCHANGED <<index, files, manifest, wal, refs, flush, up, history>>

----------------------------------------------------------------------------
(* Stopping and opening *)

\* The process is killed: what is on disk stays.  A flush that has not reached
\* the manifest will be done again, with a new batch.
Kill ==
  /\ up = "running" /\ kills < MaxKills /\ Work < MaxWork
  /\ up' = "down" /\ kills' = kills + 1
  /\ pages' = <<>>
  /\ refs' = listed
  /\ flush' = NoFlush
  /\ task' = [t \in Tasks |-> Idle]
  /\ skipped' =
       (skipped \/ flush.pc \in {"batch", "values", "write", "panicked"})
  /\ placed' = IF flush.pc = "write"
               THEN [b \in DOMAIN placed \ {flush.batch} |-> placed[b]] ELSE placed
  /\ UNCHANGED <<disk, files, manifest, wal, listed, marked>>

PageIds == min_page .. next_page - 1

\* Every page is there, and so is every value that the log says was deleted.
Openable ==
  /\ PageIds \subseteq DOMAIN disk
  /\ \A k \in trimmed + 1 .. Len(log) :
       /\ log[k].page \in PageIds
       /\ log[k].offset < Len(disk[log[k].page].entries)

\* parse_value_deletion_entry of the log reader.
Replay(ps, record) ==
  LET i == CHOOSE i \in DOMAIN ps : ps[i].id = record.page
  IN  [ps EXCEPT ![i] = mark_value_as_deleted_at(@, record.offset)]

\* ValueIndex::open reads the pages between the manifest's two ids, all but the
\* last of them sealed; then the deletions in the log are applied.  It fails if
\* a page cannot be read, and panics on a deletion that is out of range.
open ==
  /\ up = "down"
  /\ IF Openable
     THEN /\ up' = "running"
          /\ pages' = FoldLeft(Replay,
               [i \in 1 .. next_page - min_page |->
                  LET id == min_page + i - 1
                  IN  OpenPage(disk[id], id < next_page - 1)],
               SubSeq(log, trimmed + 1, Len(log)))
     ELSE up' = "failed" /\ UNCHANGED pages
  /\ UNCHANGED <<disk, files, manifest, wal, tables, flush, task, history>>

----------------------------------------------------------------------------
Flush ==
  \/ make_batch \/ WriteValues \/ add_batch \/ WriteBatchPage \/ AddTable
  \/ SyncStart \/ SyncPage \/ SyncEnd \/ UpdateTables \/ Trim

mark_value_deleted(t) ==
  \/ mark_value_as_deleted(t) \/ RemovePage(t) \/ SetMinimumPage(t)
  \/ StoreDeletion(t)
  \/ try_to_remove(t) \/ mark_batch_as_deleted(t) \/ RemoveBatchFile(t)
  \/ SetMinimumBatch(t)
  \/ try_to_compact(t) \/ mark_batch_as_compacted(t)

Next ==
  \/ Flush
  \/ \E t \in Tasks : mark_value_deleted(t) \/ Reinsert(t) \/ CompactionEnd(t)
  \/ Kill
  \/ open

Spec == Init /\ [][Next]_vars

----------------------------------------------------------------------------
(* Properties *)

\* The shape of the state, the order of the pages and of the batches in them
\* (several batches start at the same place if some have no values; a flush that
\* panicked may leave a last page without batches), and the size of a page: the
\* offsets and the bits (counted as bytes, as expand does) exceed MaxSize by no
\* more than what filling up the last element of the bitmap adds when the page
\* is read back.
IndexTypeOK ==
  /\ up \in {"running", "down", "failed"}
  /\ trimmed \in 0 .. Len(log)
  /\ DOMAIN files \subseteq 1 .. next_batch - 1
  /\ \A i \in DOMAIN pages :
       LET p == pages[i]
       IN  /\ p.id = pages[1].id + i - 1 /\ p.id < next_page
           /\ i < Len(pages) =>
                /\ p.sealed
                /\ \/ p.start_batch < pages[i + 1].start_batch
                   \/ flush.pc = "panicked" /\ pages[i + 1].offsets = <<>>
           /\ p.batches \in [DOMAIN p.offsets -> {"Active", "Deleted"}]
           /\ Len(p.offsets) * OffsetSize + Len(p.entries) < MaxSize + WordBits
           /\ \A j \in 2 .. Len(p.offsets) : p.offsets[j - 1] <= p.offsets[j]

\* The entries that batches were given in a page, and those that are active.
Given(p) ==
  UNION {{b.start + i : i \in 0 .. b.n - 1} :
           b \in {placed[c] : c \in {c \in DOMAIN placed : placed[c].page = p.id}}}
Active(p) == {pos \in 0 .. Len(p.entries) - 1 : p.entries[pos + 1]}

\* The entries of the index agree with what compactions did to them, across
\* kills: an entry whose deletion has been logged is not active, although the
\* log may have been trimmed since; an entry of a batch is inactive only if a
\* compaction marked it; and the bits that fill up the stored bitmap are not
\* active, although later batches come behind them.
DeletionsKept ==
  up = "running" =>
    \A i \in DOMAIN pages :
      LET p == pages[i]
      IN  /\ \A k \in DOMAIN log : log[k].page = p.id => log[k].offset \notin Active(p)
          /\ Active(p) \subseteq Given(p)
          /\ \A pos \in Given(p) \ Active(p) : <<p.id, pos>> \in marked

\* The index finds every batch that a table refers to where add_batch put it,
\* although it only stores the first batch of each page and computes the place
\* in the page from the difference of the ids, and although pages are sealed,
\* removed and read back.  Excepted are batches of which every value was marked
\* (a compaction that is killed before it changes the manifest leaves tables
\* that refer to them), and the time after a kill between make_batch and the
\* end of add_batch, which leaves an id without a batch: the later batches of
\* the page are then looked up one place too far.
BatchesFound ==
  up = "running" /\ ~skipped =>
    \A b \in {vid[1] : vid \in refs} :
      LET i == find_page_idx(b)
          places == {placed[b].start + k : k \in 0 .. placed[b].n - 1}
      IN  \/ \A pos \in places : <<placed[b].page, pos>> \in marked
          \/ /\ i # 0
             /\ pages[i].id = placed[b].page
             /\ HasBatch(pages[i], b)
             /\ get_batch_range(pages[i], b)[1] = placed[b].start

\* While the database runs, every page the manifest will ask for on the next
\* start is on disk, with every entry that the log will mark.  Excepted are the
\* time between storing the id of a new page and writing the page, a flush that
\* panicked in between, and the time after the oldest page was removed: the
\* manifest keeps the old minimum_index_page (manifest.rs stores the new one as
\* minimum_batch).  In all three the database cannot be opened again.
PagesOnDisk ==
  up = "running" =>
    \/ Openable
    \/ /\ flush.pc \in {"write", "panicked"}
       /\ DOMAIN disk = PageIds \ {next_page - 1}
    \/ pages[1].id > min_page

\* "minimum_batch < next_batch_id" (the comment on ValueLogMetadata), although
\* the id of a page is stored as the minimum batch, too: a page never has a
\* larger id than the first batch in it.
MetadataOrdered == min_batch < next_batch

============================================================================
