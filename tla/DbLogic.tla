------------------------------- MODULE DbLogic -------------------------------
(***************************************************************************)
(* The whole store: write_opts, get and the memtable compaction of         *)
(* logic.rs on top of the levels, with the write-ahead log as far as       *)
(* recovery depends on it, and a restart after the process was killed.     *)
(*                                                                         *)
(* What is abstracted.                                                     *)
(*  - A log record is the key it writes, and positions in the log count    *)
(*    records.  log is all that was ever written; pages before log_page    *)
(*    have been removed.  A record is written where the writer's position  *)
(*    says, as the builds with asynchronous I/O do (writer.rs,             *)
(*    write_all_at).                                                       *)
(*  - A put and a delete are both entries.  What an entry holds is the     *)
(*    number of its record, value[s] for the entry with sequence number s. *)
(*  - Entries have size 1: max_memtable_size counts keys.                  *)
(*  - Killing the process loses nothing that was handed to the operating   *)
(*    system, so wal.sync has no effect here.                              *)
(***************************************************************************)
EXTENDS Levels, Sequences

CONSTANTS
  Readers,       \* the callers of get
  PageSize,      \* PAGE_SIZE, in records
  MemtableSize,  \* Params::max_memtable_size, in keys
  MaxWrites,     \* bound: the records of one batch
  MaxOps         \* bound: the records ever written

ASSUME DbAssumption ==
  /\ PageSize \in Nat \ {0}
  /\ MemtableSize \in Nat \ {0}
  /\ MaxWrites \in Nat \ {0}
  /\ MaxOps \in Nat
  /\ MaxSeq <= MaxBatch  \* only the memtable's size bounds its entries

VARIABLES
  log,         \* the records of the write-ahead log
  log_page,    \* the first page of the log that has not been removed
  offset_pos,  \* LogStatus::offset_pos
  log_offset,  \* DatabaseMetadata::log_offset
  memtable,    \* Memtable::entries: the sequence number for each key, or 0
  next_seq,    \* Memtable::next_seq_number
  imm,         \* DbLogic::imm_memtables
  writer,      \* write_opts of the task that holds the memtable lock
  trim,        \* what do_memtable_compaction does after update_table_set
  value,       \* what the entry with each sequence number holds
  reader,      \* get of each reader
  seen         \* history: the values each reader's key had since it began

dbVars == <<log, log_page, offset_pos, log_offset, memtable, next_seq, imm,
            writer, trim, value, reader, seen>>

Empty == [k \in Keys |-> 0]
NoWriter == [pc |-> "idle", batch |-> <<>>, left |-> <<>>, taken |-> Empty]
NotReading == [pc |-> "idle", key |-> 0, level |-> 0, got |-> 0]

DbInit ==
  /\ Init
  /\ log = <<>>
  /\ log_page = 0
  /\ offset_pos = 0
  /\ log_offset = 0
  /\ memtable = Empty
  /\ next_seq = 1
  /\ imm = <<>>
  /\ writer = NoWriter
  /\ trim = "idle"
  /\ value = <<>>
  /\ reader = [r \in Readers |-> NotReading]
  /\ seen = [r \in Readers |-> {}]

\* The newest of the operations b[1 .. n] on k, or 0.
Last(b, k) ==
  IF \E i \in DOMAIN b : b[i] = k
  THEN CHOOSE i \in DOMAIN b : b[i] = k /\ \A j \in DOMAIN b : b[j] = k => j <= i
  ELSE 0

\* Memtable::put and delete, for the operations b in turn.
Put(m, seq, b) ==
  [k \in Keys |-> IF Last(b, k) > 0 THEN seq + Last(b, k) - 1 ELSE m[k]]

is_full(m) == Cardinality({k \in Keys : m[k] > 0}) >= MemtableSize

-----------------------------------------------------------------------------
(* What a caller can see.                                                   *)

Newest(S) == CHOOSE x \in S : \A y \in S : y <= x

\* The entry of k a search would find: in the memtable a writer has taken, the
\* current one, the immutable one or the first level that has the key.
ViewSeq(k) ==
  IF writer.taken[k] > 0 THEN writer.taken[k]
  ELSE IF memtable[k] > 0 THEN memtable[k]
  ELSE IF imm # <<>> /\ imm[1].data[k] > 0 THEN imm[1].data[k]
  ELSE IF Results(k) # {} THEN Newest(Results(k)) ELSE 0

ValueOf(s) == IF s = 0 THEN 0 ELSE value[s]
View(k) == ValueOf(ViewSeq(k))

-----------------------------------------------------------------------------
(* write_opts                                                               *)

\* Take the memtable lock and queue the batch for the log writer.
WriteBegin(b) ==
  /\ writer.pc = "idle"
  /\ Len(log) + Len(b) <= MaxOps
  /\ next_seq + Len(b) - 1 <= MaxSeq
  /\ writer' = [pc |-> "log", batch |-> b, left |-> b, taken |-> Empty]
  /\ UNCHANGED <<levelVars, log, log_page, offset_pos, log_offset, memtable,
                 next_seq, imm, trim, value, reader, seen>>

\* The log writer writes the next record of the queue.
LogRecord ==
  /\ writer.pc = "log"
  /\ writer.left # <<>>
  /\ log' = Append(log, Head(writer.left))
  /\ writer' = [writer EXCEPT !.left = Tail(@)]
  /\ UNCHANGED <<levelVars, log_page, offset_pos, log_offset, memtable,
                 next_seq, imm, trim, value, reader, seen>>

\* wal.store returns: apply the batch and, if the memtable is full, take it.
\* Otherwise the lock is released.
Apply ==
  LET b == writer.batch
      m == Put(memtable, next_seq, b)
      start == Len(log) - Len(b)
  IN
  /\ writer.pc = "log"
  /\ writer.left = <<>>
  /\ next_seq' = next_seq + Len(b)
  /\ value' = value \o [i \in DOMAIN b |-> start + i]
  /\ IF is_full(m)
     THEN /\ memtable' = Empty
          /\ writer' = [pc |-> "push", batch |-> <<>>, left |-> <<>>, taken |-> m]
     ELSE /\ memtable' = m
          /\ writer' = NoWriter
  /\ seen' = [r \in Readers |->
                IF reader[r].pc = "idle" \/ Last(b, reader[r].key) = 0
                THEN seen[r]
                ELSE seen[r] \cup {start + Last(b, reader[r].key)}]
  /\ UNCHANGED <<levelVars, log, log_page, offset_pos, log_offset, imm, trim,
                 reader>>

\* Mutant: the memtable is said to end at its last sequence number, not after.
PushImm_LastSeq ==
  /\ writer.pc = "push"
  /\ imm = <<>>
  /\ imm' = Append(imm, [data |-> writer.taken, log_offset |-> Len(log),
                         next_seq |-> next_seq - 1])
  /\ writer' = NoWriter
  /\ UNCHANGED <<levelVars, log, log_page, offset_pos, log_offset, memtable,
                 next_seq, trim, value, reader, seen>>

\* Mutant: the log offset is that of the last record, not the one after.
PushImm_LastRecord ==
  /\ writer.pc = "push"
  /\ imm = <<>>
  /\ imm' = Append(imm, [data |-> writer.taken, log_offset |-> Len(log) - 1,
                         next_seq |-> next_seq])
  /\ writer' = NoWriter
  /\ UNCHANGED <<levelVars, log, log_page, offset_pos, log_offset, memtable,
                 next_seq, trim, value, reader, seen>>

\* Wait until there is no other immutable memtable, then add this one.
PushImm ==
  /\ writer.pc = "push"
  /\ imm = <<>>
  /\ imm' = Append(imm, [data |-> writer.taken, log_offset |-> Len(log),
                         next_seq |-> next_seq])
  /\ writer' = NoWriter
  /\ UNCHANGED <<levelVars, log, log_page, offset_pos, log_offset, memtable,
                 next_seq, trim, value, reader, seen>>

-----------------------------------------------------------------------------
(* do_memtable_compaction                                                   *)

FlushStart ==
  /\ imm # <<>>
  /\ trim = "idle"
  /\ FlushBuild(imm[1].data, imm[1].next_seq)
  /\ UNCHANGED dbVars

FlushAdd == add_l0_table /\ UNCHANGED dbVars
FlushNumber == set_seq_number_offset /\ UNCHANGED dbVars

FlushList ==
  /\ FlushManifest
  /\ trim' = "wal"
  /\ UNCHANGED <<log, log_page, offset_pos, log_offset, memtable, next_seq,
                 imm, writer, value, reader, seen>>

\* Mutant: the page that holds the new offset is removed too.
set_offset_NextPage ==
  /\ trim = "wal"
  /\ offset_pos' = imm[1].log_offset
  /\ log_page' = imm[1].log_offset \div PageSize + 1
  /\ trim' = "manifest"
  /\ UNCHANGED <<levelVars, log, log_offset, memtable, next_seq, imm, writer,
                 value, reader, seen>>

\* WriteAheadLog::set_offset, which returns when the log writer has removed
\* the pages before the new offset.
set_offset ==
  /\ trim = "wal"
  /\ offset_pos' = imm[1].log_offset
  /\ log_page' = imm[1].log_offset \div PageSize
  /\ trim' = "manifest"
  /\ UNCHANGED <<levelVars, log, log_offset, memtable, next_seq, imm, writer,
                 value, reader, seen>>

set_log_offset ==
  /\ trim = "manifest"
  /\ log_offset' = imm[1].log_offset
  /\ trim' = "pop"
  /\ UNCHANGED <<levelVars, log, log_page, offset_pos, memtable, next_seq, imm,
                 writer, value, reader, seen>>

PopImm ==
  /\ trim = "pop"
  /\ imm' = Tail(imm)
  /\ trim' = "idle"
  /\ UNCHANGED <<levelVars, log, log_page, offset_pos, log_offset, memtable,
                 next_seq, writer, value, reader, seen>>

-----------------------------------------------------------------------------
(* get                                                                      *)

Searching(r, pc, l) ==
  reader' = [reader EXCEPT ![r] =
               [pc |-> pc, key |-> reader[r].key, level |-> l, got |-> 0]]

Found(r, v) ==
  reader' = [reader EXCEPT ![r] = [pc |-> "idle", key |-> 0, level |-> 0,
                                   got |-> v]]

GetBegin(r, k) ==
  /\ reader[r].pc = "idle"
  /\ reader' = [reader EXCEPT ![r] = [pc |-> "memtable", key |-> k,
                                      level |-> 0, got |-> 0]]
  /\ seen' = [seen EXCEPT ![r] = {View(k)}]
  /\ UNCHANGED <<levelVars, log, log_page, offset_pos, log_offset, memtable,
                 next_seq, imm, writer, trim, value>>

\* Mutant: the memtable is read while a writer holds its lock.
GetMemtable_Unlocked(r) ==
  LET s == memtable[reader[r].key] IN
  /\ reader[r].pc = "memtable"
  /\ IF s > 0 THEN Found(r, value[s]) ELSE Searching(r, "imm", 0)
  /\ seen' = IF s > 0 THEN [seen EXCEPT ![r] = {}] ELSE seen
  /\ UNCHANGED <<levelVars, log, log_page, offset_pos, log_offset, memtable,
                 next_seq, imm, writer, trim, value>>

\* The read lock of the memtable is free when no writer holds it.
GetMemtable(r) ==
  LET s == memtable[reader[r].key] IN
  /\ reader[r].pc = "memtable"
  /\ writer.pc = "idle"
  /\ IF s > 0 THEN Found(r, value[s]) ELSE Searching(r, "imm", 0)
  /\ seen' = IF s > 0 THEN [seen EXCEPT ![r] = {}] ELSE seen
  /\ UNCHANGED <<levelVars, log, log_page, offset_pos, log_offset, memtable,
                 next_seq, imm, writer, trim, value>>

GetImm(r) ==
  LET s == IF imm = <<>> THEN 0 ELSE imm[1].data[reader[r].key] IN
  /\ reader[r].pc = "imm"
  /\ IF s > 0 THEN Found(r, value[s]) ELSE Searching(r, "level", 0)
  /\ seen' = IF s > 0 THEN [seen EXCEPT ![r] = {}] ELSE seen
  /\ UNCHANGED <<levelVars, log, log_page, offset_pos, log_offset, memtable,
                 next_seq, imm, writer, trim, value>>

\* Mutant: the search goes on past the last level.
LastLevel_TooFar(l) == l = NumLevels

LastLevel(l) == l + 1 = NumLevels

\* Level::get: the newest table of the level that has the key.  A table that
\* has used up its seeks may be noted for compaction on the way.
GetLevel(r) ==
  LET l == reader[r].level
      k == reader[r].key
      hits == Holding(l, k)
  IN
  /\ reader[r].pc = "level"
  /\ wlock[l] = None
  /\ TriggerSeek(l) \/ UNCHANGED levelVars
  /\ \/ /\ hits # {}
        /\ \E t \in hits :
             /\ l = 0 => \A s \in hits : s.id <= t.id
             /\ Found(r, value[t.data[k]])
        /\ seen' = [seen EXCEPT ![r] = {}]
     \/ /\ hits = {} /\ ~LastLevel(l)
        /\ Searching(r, "level", l + 1)
        /\ UNCHANGED seen
     \/ /\ hits = {} /\ LastLevel(l)
        /\ Found(r, 0)
        /\ seen' = [seen EXCEPT ![r] = {}]
  /\ UNCHANGED <<log, log_page, offset_pos, log_offset, memtable, next_seq,
                 imm, writer, trim, value>>

-----------------------------------------------------------------------------
(* The process is killed, and DbLogic::new opens the database again: the    *)
(* records after the manifest's log offset are inserted into a memtable,    *)
(* with sequence numbers from the manifest's offset on.  A kill between     *)
(* set_offset and set_log_offset may leave a database without the page that *)
(* holds the log offset.  Such a database cannot be opened (WalReader::new  *)
(* returns an error), so that no step follows that kill.                    *)
(* Recovery finds every record that was written, as it does in builds with  *)
(* asynchronous I/O.  What the others lose is the subject of LogRecovery.   *)

Replayed == SubSeq(log, log_offset + 1, Len(log))

Restart ==
  LET b == Replayed IN
  /\ log_page <= log_offset \div PageSize
  /\ seq_offset + Len(b) - 1 <= MaxSeq
  /\ Reopen
  /\ memtable' = Put(Empty, seq_offset, b)
  /\ next_seq' = seq_offset + Len(b)
  /\ value' = SubSeq(value, 1, seq_offset - 1)
                \o [i \in DOMAIN b |-> log_offset + i]
  /\ offset_pos' = log_offset
  /\ imm' = <<>>
  /\ writer' = NoWriter
  /\ trim' = "idle"
  /\ reader' = [r \in Readers |-> NotReading]
  /\ seen' = [r \in Readers |-> {}]
  /\ UNCHANGED <<log, log_page, log_offset>>

-----------------------------------------------------------------------------
Batches == UNION {[1 .. n -> Keys] : n \in 1 .. MaxWrites}

DbNext ==
  \/ \E b \in Batches : WriteBegin(b)
  \/ LogRecord \/ Apply \/ PushImm
  \/ FlushStart \/ FlushAdd \/ FlushNumber \/ FlushList
  \/ set_offset \/ set_log_offset \/ PopImm
  \/ \E r \in Readers :
       \/ \E k \in Keys : GetBegin(r, k)
       \/ GetMemtable(r) \/ GetImm(r) \/ GetLevel(r)
  \/ (\E c \in Tasks : Compact(c)) /\ UNCHANGED dbVars
  \/ Restart

DbSpec == DbInit /\ [][DbNext]_<<levelVars, dbVars>>

-----------------------------------------------------------------------------
(* Properties.                                                              *)

ImmMemtable == [data : Data, log_offset : Nat, next_seq : Nat]
Writer == [pc : {"idle", "log", "push"}, batch : Seq(Keys), left : Seq(Keys),
           taken : Data]
Reader == [pc : {"idle", "memtable", "imm", "level"}, key : Keys \cup {0},
           level : Level, got : Nat]

\* Every variable has the shape of the field or local variable it models.
DbTypeOK ==
  /\ log \in Seq(Keys)
  /\ log_page \in Nat /\ offset_pos \in Nat /\ log_offset \in Nat
  /\ next_seq \in Nat
  /\ memtable \in Data
  /\ imm \in Seq(ImmMemtable)
  /\ writer \in Writer
  /\ trim \in {"idle", "wal", "manifest", "pop"}
  /\ value \in Seq(Nat)
  /\ reader \in [Readers -> Reader]
  /\ seen \in [Readers -> SUBSET Nat]

\* The records of the batch being written that are in the log already.
Logged == Len(writer.batch) - Len(writer.left)

KV == INSTANCE KVStore WITH
        store <- [k \in Keys |-> View(k)],
        count <- Len(log) - Logged,
        pending <- writer.batch,
        reading <- [r \in Readers |-> [busy |-> reader[r].pc # "idle",
                                       key |-> reader[r].key,
                                       seen |-> seen[r]]],
        got <- [r \in Readers |-> reader[r].got]

\* The store behaves as the map KVStore describes: a get, which looks into the
\* memtable, the immutable memtable and the levels one lock at a time, returns
\* a value the key had while it ran, flushes and compactions change no value,
\* and a restart (wherever the database can be opened again, in builds with
\* asynchronous I/O) loses no acknowledged write.
ImplementsKVStore == KV!KVSpec

\* The memtables write_opts hands to the flush, and a restart, are those the
\* levels expect: what is proved of Levels holds of the store.
ImplementsLevels == Spec

\* The panics of set_seq_number_offset, WriteAheadLog::set_offset and
\* Manifest::set_log_offset on an offset that does not increase never fire,
\* also not when a flush that a restart interrupted is done again.
OffsetsAdvance ==
  /\ flush.pc = "added" => seq_offset < flush.seq
  /\ trim = "wal" => offset_pos < imm[1].log_offset
  /\ trim = "manifest" => log_offset < imm[1].log_offset

\* wal/mod.rs: the write-ahead log "can be used to recover from crashes".  The
\* page recovery starts from has not been removed.  Excepted is the time between
\* wal.set_offset, which removes the pages, and manifest.set_log_offset, which
\* stores the new offset: a kill then leaves a database that cannot be opened.
LogReachesOffset ==
  trim # "manifest" => log_page <= log_offset \div PageSize
=============================================================================
