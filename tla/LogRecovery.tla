---------------------------- MODULE LogRecovery ----------------------------
(***************************************************************************)
(* The files of the write-ahead log, byte by byte: how WalWriter lays      *)
(* records out in pages (wal/writer.rs), what is left when the process is  *)
(* killed between two file operations, what WalReader makes of it          *)
(* (wal/reader.rs), and where the writer goes on (continue_from).          *)
(*                                                                         *)
(* What is abstracted.                                                     *)
(*  - A byte is the record it belongs to, its place in the record and the  *)
(*    record's length.  The reader fetches the entry type, then the rest   *)
(*    of the record, whose length it knows from the fields it has read.    *)
(*  - One write call is atomic: killing the process does not split it.     *)
(***************************************************************************)
EXTENDS Integers, Sequences

CONSTANTS
  PageSize,    \* PAGE_SIZE
  MaxLen,      \* bound: the bytes of a record, which has at least two
  MaxRecords,  \* bound: the records ever written
  MaxKills,    \* bound: how often the process is killed
  Positioned   \* writes name their place in the file (feature _async-io)

ASSUME RecoveryAssumption ==
  /\ PageSize \in Nat \ {0}
  /\ MaxLen \in Nat \ {0}
  /\ MaxRecords \in Nat
  /\ MaxKills \in Nat
  /\ Positioned \in BOOLEAN

VARIABLES
  files,     \* the pages that exist, each a sequence of bytes
  writer,    \* WalWriter, or its absence while the log is being read
  reader,    \* WalReader
  written,   \* the length of each record that was written completely
  first,     \* how many records come before the manifest's log offset
  start,     \* the manifest's log offset
  kills,     \* how often the process has been killed
  lone       \* history: a kill left the first byte of a record at the end of
             \* a page and no next page

recVars == <<files, writer, reader, written, first, start, kills, lone>>

Page(pos) == pos \div PageSize
Offset(pos) == pos % PageSize
Byte(r, i, n) == [record |-> r, at |-> i, of |-> n]

\* Records are written one after the other: len is the length of the current
\* one, 0 if there is none, and left what is still to be written.
Running(position, cursor) ==
  [pc |-> "running", position |-> position, cursor |-> cursor, len |-> 0,
   left |-> 0]
NoWriter == [Running(0, 0) EXCEPT !.pc = "none"]
NoReader == [pc |-> "none", position |-> 0, page |-> <<>>, out |-> <<>>,
             need |-> 0, recovered |-> <<>>]

Init ==
  /\ files = [p \in {0} |-> <<>>]
  /\ writer = Running(0, 0)
  /\ reader = NoReader
  /\ written = <<>>
  /\ first = 0
  /\ start = 0
  /\ kills = 0
  /\ lone = FALSE

Put(p, f) == [q \in DOMAIN files \cup {p} |-> IF q = p THEN f ELSE files[q]]

\* The bytes a write call puts at offset c of file f.
Overwrite(f, c, bytes) ==
  [i \in 1 .. IF c + Len(bytes) > Len(f) THEN c + Len(bytes) ELSE Len(f) |->
     IF i \in c + 1 .. c + Len(bytes) THEN bytes[i - c] ELSE f[i]]

-----------------------------------------------------------------------------
(* WalWriter                                                                *)

BeginRecord(n) ==
  /\ writer.pc = "running"
  /\ writer.len = 0
  /\ Len(written) < MaxRecords
  /\ writer' = [writer EXCEPT !.len = n, !.left = n]
  /\ UNCHANGED <<files, reader, written, first, start, kills, lone>>

\* Mutant: a write may be as long as a page, wherever it starts.
Room_WholePage(pos) == PageSize

\* What still fits on the page.
Room(pos) == PageSize - Offset(pos)

\* One turn of write_all.  Builds without positioned writes write where the
\* file's cursor is.
write_all ==
  LET room == Room(writer.position)
      n == IF writer.left < room THEN writer.left ELSE room
      done == writer.len - writer.left
      bytes == [i \in 1 .. n |-> Byte(Len(written) + 1, done + i, writer.len)]
      p == Page(writer.position)
      c == IF Positioned THEN Offset(writer.position) ELSE writer.cursor
      full == n = room
  IN
  /\ writer.pc = "running"
  /\ writer.left > 0
  /\ files' = Put(p, Overwrite(files[p], c, bytes))
  /\ writer' = [pc |-> IF full THEN "create" ELSE "running",
                position |-> writer.position + n, cursor |-> writer.cursor + n,
                len |-> writer.len, left |-> writer.left - n]
  /\ UNCHANGED <<reader, written, first, start, kills, lone>>

\* File::create, which truncates a file that exists.
create_file ==
  /\ writer.pc = "create"
  /\ files' = Put(Page(writer.position), <<>>)
  /\ writer' = [writer EXCEPT !.pc = "running", !.cursor = 0]
  /\ UNCHANGED <<reader, written, first, start, kills, lone>>

\* store returns once the record is written and the position published.
EndRecord ==
  /\ writer.pc = "running"
  /\ writer.len > 0
  /\ writer.left = 0
  /\ written' = Append(written, writer.len)
  /\ writer' = [writer EXCEPT !.len = 0]
  /\ UNCHANGED <<files, reader, first, start, kills, lone>>

\* After a flush: the records so far are not needed any more, and neither are
\* the pages before the one that holds the new offset.
set_offset ==
  /\ writer.pc = "running"
  /\ writer.len = 0
  /\ first < Len(written)
  /\ first' = Len(written)
  /\ start' = writer.position
  /\ files' = [p \in {q \in DOMAIN files : q >= Page(writer.position)} |-> files[p]]
  /\ UNCHANGED <<writer, reader, written, kills, lone>>

-----------------------------------------------------------------------------
(* A restart: WalReader::new, run and read_from_log, then continue_from.    *)

Kill ==
  /\ writer.pc \in {"running", "create"}
  /\ kills < MaxKills
  /\ kills' = kills + 1
  /\ lone' = (lone \/ (writer.pc = "create" /\ writer.len - writer.left = 1))
  /\ writer' = NoWriter
  /\ reader' = [NoReader EXCEPT !.pc = "open", !.position = start]
  /\ written' = IF writer.len > 0 /\ writer.left = 0
                THEN Append(written, writer.len) ELSE written
  /\ UNCHANGED <<files, first, start>>

Fetch(n) == [reader EXCEPT !.out = <<>>, !.need = n]
Ending(pc) == [reader EXCEPT !.pc = pc]
Inserted(r) ==
  [Fetch(1) EXCEPT !.pc = "type", !.recovered = Append(@, r)]

OpenReader ==
  LET p == Page(reader.position) IN
  /\ reader.pc = "open"
  /\ reader' = IF p \in DOMAIN files
               THEN [Fetch(1) EXCEPT !.pc = "type", !.page = files[p]]
               ELSE Ending("failed")
  /\ UNCHANGED <<files, writer, written, first, start, kills, lone>>

\* Mutant: the end of the data in a page that is not full is not noticed.
read_from_log_Waits ==
  LET at == Offset(reader.position)
      have == Len(reader.page) - at
      want == reader.need - Len(reader.out)
      n == IF want < have THEN want ELSE have
      pos == reader.position + n
      p == Page(pos)
      out == reader.out \o SubSeq(reader.page, at + 1, at + n)
      moved == [reader EXCEPT !.out = out, !.position = pos,
                              !.page = IF Offset(pos) = 0 THEN files[p] ELSE @]
  IN
  /\ reader.pc \in {"type", "body"}
  /\ want > 0
  /\ reader' \in
       IF n < 0 THEN {Ending("panic")}  \* "Invalid offset. Page too small?"
       ELSE IF Offset(pos) = 0 /\ p \notin DOMAIN files
       THEN {[Ending(IF reader.pc = "type" THEN "end" ELSE "failed") EXCEPT
                !.position = pos]}
       ELSE {moved}
  /\ UNCHANGED <<files, writer, written, first, start, kills, lone>>

\* One turn of the loop in read_from_log, which copies what the current page
\* has and moves on to the next page at its end.  The end of the log within a
\* record goes unnoticed in the middle of a page: what is missing is taken for
\* zeros, which are an entry or, as a length, make the reader panic.
read_from_log ==
  LET at == Offset(reader.position)
      have == Len(reader.page) - at
      want == reader.need - Len(reader.out)
      n == IF want < have THEN want ELSE have
      pos == reader.position + n
      p == Page(pos)
      out == reader.out \o SubSeq(reader.page, at + 1, at + n)
      moved == [reader EXCEPT !.out = out, !.position = pos,
                              !.page = IF Offset(pos) = 0 THEN files[p] ELSE @]
  IN
  /\ reader.pc \in {"type", "body"}
  /\ want > 0
  /\ reader' \in
       IF n < 0 THEN {Ending("panic")}  \* "Invalid offset. Page too small?"
       ELSE IF n = 0 /\ at # 0
       THEN IF reader.pc = "type" THEN {Ending("end")}
            ELSE {Ending("panic"), Inserted(0)}
       ELSE IF Offset(pos) = 0 /\ p \notin DOMAIN files
       THEN {[Ending(IF reader.pc = "type" THEN "end" ELSE "failed") EXCEPT
                !.position = pos]}
       ELSE {moved}
  /\ UNCHANGED <<files, writer, written, first, start, kills, lone>>

\* run: the entry type was read.  A byte that does not start a record is no entry
\* type, and the reader panics.  (A byte inside a record may have the value of an
\* entry type, and the reader would go on; the model has the reader stop there.)
ParseType ==
  LET b == reader.out[1] IN
  /\ reader.pc = "type"
  /\ Len(reader.out) = 1
  /\ reader' = IF b.at = 1
               THEN [Fetch(b.of) EXCEPT !.pc = "body", !.out = reader.out]
               ELSE Ending("panic")
  /\ UNCHANGED <<files, writer, written, first, start, kills, lone>>

\* parse_write_entry: the record is inserted into the memtable, 0 if what was
\* read is a mixture of records.
parse_write_entry ==
  LET b == reader.out[1]
      whole == reader.out = [i \in 1 .. b.of |-> Byte(b.record, i, b.of)]
  IN
  /\ reader.pc = "body"
  /\ Len(reader.out) = reader.need
  /\ reader' = Inserted(IF whole THEN b.record ELSE 0)
  /\ UNCHANGED <<files, writer, written, first, start, kills, lone>>

\* Mutant: the writer goes on at the start of the last page.
continue_from_PageStart ==
  LET p == Page(reader.position) IN
  /\ reader.pc = "end"
  /\ files' = IF Offset(reader.position) = 0 THEN Put(p, <<>>) ELSE files
  /\ writer' = Running(p * PageSize, 0)
  /\ reader' = NoReader
  /\ UNCHANGED <<written, first, start, kills, lone>>

\* The writer goes on where the reader ended, with a new file if that is the
\* start of a page.  A file that is opened has its cursor at 0.
continue_from ==
  LET p == Page(reader.position) IN
  /\ reader.pc = "end"
  /\ files' = IF Offset(reader.position) = 0 THEN Put(p, <<>>) ELSE files
  /\ writer' = Running(reader.position, 0)
  /\ reader' = NoReader
  /\ UNCHANGED <<written, first, start, kills, lone>>

-----------------------------------------------------------------------------
ReadLog == OpenReader \/ read_from_log \/ ParseType \/ parse_write_entry

Next ==
  \/ \E n \in 2 .. MaxLen : BeginRecord(n)
  \/ write_all \/ create_file \/ EndRecord
  \/ set_offset
  \/ Kill
  \/ ReadLog
  \/ continue_from

Spec == Init /\ [][Next]_recVars
FairSpec == Spec /\ WF_recVars(ReadLog)

-----------------------------------------------------------------------------
(* Properties.                                                              *)

Bytes == [record : Nat, at : Nat, of : Nat]

\* Every variable has the shape of the field it models, and a page is never
\* longer than PAGE_SIZE.
RecoveryTypeOK ==
  /\ \A p \in DOMAIN files : /\ p \in Nat /\ files[p] \in Seq(Bytes)
                             /\ Len(files[p]) <= PageSize
  /\ writer \in [pc : {"running", "create", "none"}, position : Nat,
                 cursor : Nat, len : Nat, left : Nat]
  /\ reader \in [pc : {"none", "open", "type", "body", "end", "failed", "panic"},
                 position : Nat, page : Seq(Bytes), out : Seq(Bytes),
                 need : Nat, recovered : Seq(Nat)]
  /\ written \in Seq(Nat)
  /\ first \in 0 .. Len(written)
  /\ {start, kills} \subseteq Nat
  /\ lone \in BOOLEAN

\* wal/mod.rs: the write-ahead log "keeps track of the most recent changes" and
\* "can be used to recover from crashes".  When recovery ends, it has found the
\* records that were written since the log offset, in order and whole, and
\* nothing else.  Excepted is a crash that left the first byte of a record on
\* the last place of a page and no next page: read_from_log consumes the byte
\* and the writer goes on behind it.
RecoveredIsWritten ==
  reader.pc = "end" /\ ~lone =>
    reader.recovered = [i \in 1 .. Len(written) - first |-> first + i]

\* WalReader::run does not loop forever, whatever file operation the process was
\* killed after, if no page of the log is empty.  An empty page is what write_all
\* leaves behind a full one, and what a new log starts with; read_from_log then
\* opens that page again and again.
RecoveryEnds ==
  (reader.pc = "open" /\ \A p \in DOMAIN files : files[p] # <<>>)
    ~> (reader.pc \in {"end", "failed", "panic"})
=============================================================================
