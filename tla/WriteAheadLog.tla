---------------------------- MODULE WriteAheadLog ----------------------------
(***************************************************************************)
(* The write-ahead log while it runs: the callers of store, sync,          *)
(* set_offset and stop (wal/mod.rs) and the one task that writes the log   *)
(* (wal/writer.rs), which share LogStatus under a lock and wait for each   *)
(* other with two Notify objects.                                          *)
(*                                                                         *)
(* What is abstracted.                                                     *)
(*  - Data is its length: queue is the number of bytes queued.  The writer *)
(*    splits what it took at page boundaries and between buffers; here it  *)
(*    may split it anywhere.                                               *)
(*  - A step is what a task does while it holds the lock of LogStatus, or  *)
(*    one file operation.  notified() is called before the condition is    *)
(*    checked and enabled under the lock, so that checking and parking are *)
(*    one step, and notify_waiters wakes every task that is parked.        *)
(***************************************************************************)
EXTENDS Integers, FiniteSets

CONSTANTS
  Storers,   \* callers of store
  Syncers,   \* callers of sync
  PageSize,  \* PAGE_SIZE
  MaxLen,    \* bound: the bytes of one store
  MaxPos,    \* bound: the bytes ever queued
  MayStop    \* stop is called

ASSUME WalAssumption ==
  /\ PageSize \in Nat \ {0}
  /\ MaxLen \in Nat \ {0}
  /\ MaxPos \in Nat
  /\ MayStop \in BOOLEAN

VARIABLES
  queue_pos, write_pos, sync_pos, offset_pos, flush_pos,  \* LogStatus
  queue, sync_flag, stop_flag,                            \* LogStatus
  writer,   \* WalWriter and the local variables of update_log
  storer,   \* store of each caller
  syncer,   \* sync of each caller
  trimmer,  \* set_offset of the memtable compaction task
  pages,    \* the log files that exist, by number
  synced    \* for each page that was synced, how far into the log

status == <<queue_pos, write_pos, sync_pos, offset_pos, flush_pos, queue,
            sync_flag, stop_flag>>
walVars == <<status, writer, storer, syncer, trimmer, pages, synced>>

Page(pos) == pos \div PageSize
Min2(a, b) == IF a < b THEN a ELSE b

NotCalling == [pc |-> "idle", pos |-> 0]
Idle(position) ==
  [pc |-> "check", position |-> position, left |-> 0, sync |-> FALSE,
   sync_pos |-> 0, trim |-> FALSE, new_offset |-> 0, old_offset |-> 0,
   stop |-> FALSE]

Init ==
  /\ queue_pos = 0 /\ write_pos = 0 /\ sync_pos = 0
  /\ offset_pos = 0 /\ flush_pos = 0
  /\ queue = 0 /\ sync_flag = FALSE /\ stop_flag = FALSE
  /\ writer = Idle(0)
  /\ storer = [s \in Storers |-> NotCalling]
  /\ syncer = [s \in Syncers |-> [pc |-> "idle", pos |-> 0, acked |-> 0]]
  /\ trimmer = NotCalling
  /\ pages = {0}
  /\ synced = [p \in 0 .. Page(MaxPos) |-> 0]

\* Mutant: queue_cond is not notified.
WakeWriter_Forgotten == UNCHANGED writer

\* queue_cond.notify_waiters()
WakeWriter ==
  writer' = IF writer.pc = "parked" THEN Idle(writer.position) ELSE writer

-----------------------------------------------------------------------------
(* The callers.  Each waits in a loop that checks the status and parks.     *)

store(s, len) ==
  /\ storer[s].pc = "idle"
  /\ queue_pos + len <= MaxPos
  /\ queue' = queue + len
  /\ queue_pos' = queue_pos + len
  /\ storer' = [storer EXCEPT ![s] = [pc |-> "check", pos |-> queue_pos + len]]
  /\ WakeWriter
  /\ UNCHANGED <<write_pos, sync_pos, offset_pos, flush_pos, sync_flag,
                 stop_flag, syncer, trimmer, pages, synced>>

StoreCheck(s) ==
  /\ storer[s].pc = "check"
  /\ storer' = [storer EXCEPT ![s] =
                  IF write_pos >= @.pos THEN NotCalling
                  ELSE [pc |-> "parked", pos |-> @.pos]]
  /\ UNCHANGED <<status, writer, syncer, trimmer, pages, synced>>

\* acked is what was acknowledged when sync was called.
sync(s) ==
  /\ syncer[s].pc = "idle"
  /\ \/ /\ sync_pos = write_pos
        /\ UNCHANGED <<sync_flag, writer, syncer>>
     \/ /\ sync_pos < write_pos
        /\ sync_flag' = TRUE
        /\ syncer' = [syncer EXCEPT ![s] =
             [pc |-> "check", pos |-> sync_pos, acked |-> write_pos]]
        /\ WakeWriter
     \/ /\ sync_pos > write_pos   \* assert!(lock.sync_pos < lock.write_pos)
        /\ syncer' = [syncer EXCEPT ![s] =
             [pc |-> "panic", pos |-> 0, acked |-> 0]]
        /\ UNCHANGED <<sync_flag, writer>>
  /\ UNCHANGED <<queue_pos, write_pos, sync_pos, offset_pos, flush_pos, queue,
                 stop_flag, storer, trimmer, pages, synced>>

SyncCheck(s) ==
  /\ syncer[s].pc = "check"
  /\ syncer' = [syncer EXCEPT ![s] =
                  [pc |-> IF sync_pos > @.pos THEN "idle" ELSE "parked",
                   pos |-> @.pos, acked |-> @.acked]]
  /\ UNCHANGED <<status, writer, storer, trimmer, pages, synced>>

\* A position that store returned and that lies beyond the current offset.
set_offset(new_offset) ==
  /\ trimmer.pc = "idle"
  /\ offset_pos' = new_offset
  /\ trimmer' = [pc |-> "check", pos |-> new_offset]
  /\ WakeWriter
  /\ UNCHANGED <<queue_pos, write_pos, sync_pos, flush_pos, queue, sync_flag,
                 stop_flag, storer, syncer, pages, synced>>

TrimCheck ==
  /\ trimmer.pc = "check"
  /\ trimmer' = IF flush_pos >= trimmer.pos THEN NotCalling
                ELSE [pc |-> "parked", pos |-> trimmer.pos]
  /\ UNCHANGED <<status, writer, storer, syncer, pages, synced>>

stop ==
  /\ MayStop
  /\ ~stop_flag
  /\ stop_flag' = TRUE
  /\ WakeWriter
  /\ UNCHANGED <<queue_pos, write_pos, sync_pos, offset_pos, flush_pos, queue,
                 sync_flag, storer, syncer, trimmer, pages, synced>>

-----------------------------------------------------------------------------
(* The writer: update_log, again and again.                                 *)

NothingToDo == queue = 0 /\ offset_pos = flush_pos /\ ~sync_flag /\ ~stop_flag

Park ==
  /\ writer.pc = "check"
  /\ NothingToDo
  /\ writer' = [writer EXCEPT !.pc = "parked"]
  /\ UNCHANGED <<status, storer, syncer, trimmer, pages, synced>>

Capture ==
  /\ writer.pc = "check"
  /\ ~NothingToDo
  /\ writer' = [pc |-> "write", position |-> writer.position, left |-> queue,
                sync |-> sync_flag, sync_pos |-> sync_pos,
                trim |-> offset_pos > flush_pos, new_offset |-> offset_pos,
                old_offset |-> flush_pos, stop |-> stop_flag]
  /\ queue' = 0
  /\ sync_flag' = FALSE
  /\ UNCHANGED <<queue_pos, write_pos, sync_pos, offset_pos, flush_pos,
                 stop_flag, storer, syncer, trimmer, pages, synced>>

\* Mutant: the page is filled, whatever was queued.
write_all_WholePage ==
  /\ writer.pc = "write"
  /\ writer.left > 0
  /\ \E len \in 1 .. PageSize - (writer.position % PageSize) :
       /\ writer' = [writer EXCEPT !.position = @ + len, !.left = @ - len]
       /\ pages' = IF (writer.position + len) % PageSize = 0
                   THEN pages \cup {Page(writer.position + len)}
                   ELSE pages
  /\ UNCHANGED <<status, storer, syncer, trimmer, synced>>

\* write_all: one write to the current page, and the next page's file once the
\* current one is full.
write_all ==
  /\ writer.pc = "write"
  /\ writer.left > 0
  /\ \E len \in 1 .. Min2(writer.left, PageSize - (writer.position % PageSize)) :
       /\ writer' = [writer EXCEPT !.position = @ + len, !.left = @ - len]
       /\ pages' = IF (writer.position + len) % PageSize = 0
                   THEN pages \cup {Page(writer.position + len)}
                   ELSE pages
  /\ UNCHANGED <<status, storer, syncer, trimmer, synced>>

\* Mutant: the file is synced only if this round wrote to it.
SyncFile_OnlyAfterWrite ==
  LET needed == writer.sync /\ write_pos < writer.position IN
  /\ writer.pc = "write"
  /\ writer.left = 0
  /\ sync_pos' = IF needed THEN writer.position ELSE sync_pos
  /\ synced' = IF needed
               THEN [synced EXCEPT ![Page(writer.position)] = writer.position]
               ELSE synced
  /\ writer' = [writer EXCEPT !.pc = "trim"]
  /\ UNCHANGED <<queue_pos, write_pos, offset_pos, flush_pos, queue, sync_flag,
                 stop_flag, storer, syncer, trimmer, pages>>

\* Mutant: all that is queued by now counts as synced.
SyncFile_QueuePos ==
  LET needed == writer.sync /\ writer.sync_pos < writer.position IN
  /\ writer.pc = "write"
  /\ writer.left = 0
  /\ sync_pos' = IF needed THEN queue_pos ELSE sync_pos
  /\ synced' = IF needed
               THEN [synced EXCEPT ![Page(writer.position)] = writer.position]
               ELSE synced
  /\ writer' = [writer EXCEPT !.pc = "trim"]
  /\ UNCHANGED <<queue_pos, write_pos, offset_pos, flush_pos, queue, sync_flag,
                 stop_flag, storer, syncer, trimmer, pages>>

\* sync_data on the current page's file, if the caller asked for it and there
\* is something new.
SyncFile ==
  LET needed == writer.sync /\ writer.sync_pos < writer.position IN
  /\ writer.pc = "write"
  /\ writer.left = 0
  /\ sync_pos' = IF needed THEN writer.position ELSE sync_pos
  /\ synced' = IF needed
               THEN [synced EXCEPT ![Page(writer.position)] = writer.position]
               ELSE synced
  /\ writer' = [writer EXCEPT !.pc = "trim"]
  /\ UNCHANGED <<queue_pos, write_pos, offset_pos, flush_pos, queue, sync_flag,
                 stop_flag, storer, syncer, trimmer, pages>>

\* Mutant: the page that holds the new offset is removed too.
RemovePages_Inclusive ==
  /\ writer.pc = "trim"
  /\ pages' = IF writer.trim
              THEN pages \ (Page(writer.old_offset) .. Page(writer.new_offset))
              ELSE pages
  /\ writer' = [writer EXCEPT !.pc = "publish"]
  /\ UNCHANGED <<status, storer, syncer, trimmer, synced>>

RemovePages ==
  /\ writer.pc = "trim"
  /\ pages' = IF writer.trim
              THEN pages \ (Page(writer.old_offset) .. Page(writer.new_offset) - 1)
              ELSE pages
  /\ writer' = [writer EXCEPT !.pc = "publish"]
  /\ UNCHANGED <<status, storer, syncer, trimmer, synced>>

Unpark(caller) ==
  IF caller.pc = "parked" THEN [caller EXCEPT !.pc = "check"] ELSE caller

\* Mutant: all that is queued by now is published as written.
Publish_QueuePos ==
  /\ writer.pc = "publish"
  /\ write_pos' = queue_pos
  /\ flush_pos' = IF writer.trim THEN writer.new_offset ELSE flush_pos
  /\ storer' = [s \in Storers |-> Unpark(storer[s])]
  /\ syncer' = [s \in Syncers |-> Unpark(syncer[s])]
  /\ trimmer' = Unpark(trimmer)
  /\ writer' = [Idle(writer.position) EXCEPT
                  !.pc = IF writer.stop THEN "done" ELSE "check"]
  /\ UNCHANGED <<queue_pos, sync_pos, offset_pos, queue, sync_flag, stop_flag,
                 pages, synced>>

\* Mutant: the writer ends if stop was called at any time, not before it last
\* took the queue.
Publish_StopNow ==
  /\ writer.pc = "publish"
  /\ write_pos' = writer.position
  /\ flush_pos' = IF writer.trim THEN writer.new_offset ELSE flush_pos
  /\ storer' = [s \in Storers |-> Unpark(storer[s])]
  /\ syncer' = [s \in Syncers |-> Unpark(syncer[s])]
  /\ trimmer' = Unpark(trimmer)
  /\ writer' = [Idle(writer.position) EXCEPT
                  !.pc = IF stop_flag THEN "done" ELSE "check"]
  /\ UNCHANGED <<queue_pos, sync_pos, offset_pos, queue, sync_flag, stop_flag,
                 pages, synced>>

Publish ==
  /\ writer.pc = "publish"
  /\ write_pos' = writer.position
  /\ flush_pos' = IF writer.trim THEN writer.new_offset ELSE flush_pos
  /\ storer' = [s \in Storers |-> Unpark(storer[s])]
  /\ syncer' = [s \in Syncers |-> Unpark(syncer[s])]
  /\ trimmer' = Unpark(trimmer)
  /\ writer' = [Idle(writer.position) EXCEPT
                  !.pc = IF writer.stop THEN "done" ELSE "check"]
  /\ UNCHANGED <<queue_pos, sync_pos, offset_pos, queue, sync_flag, stop_flag,
                 pages, synced>>

-----------------------------------------------------------------------------
UpdateLog ==
  Park \/ Capture \/ write_all \/ SyncFile \/ RemovePages \/ Publish

Next ==
  \/ \E s \in Storers : StoreCheck(s) \/ \E len \in 1 .. MaxLen : store(s, len)
  \/ \E s \in Syncers : sync(s) \/ SyncCheck(s)
  \/ \E pos \in offset_pos + 1 .. write_pos : set_offset(pos)
  \/ TrimCheck
  \/ stop
  \/ UpdateLog

Spec == Init /\ [][Next]_walVars

\* The writer and every caller that has been woken keep being polled.
FairSpec ==
  /\ Spec
  /\ WF_walVars(UpdateLog)
  /\ \A s \in Storers : WF_walVars(StoreCheck(s))
  /\ \A s \in Syncers : WF_walVars(SyncCheck(s))
  /\ WF_walVars(TrimCheck)

-----------------------------------------------------------------------------
(* Properties.                                                              *)

CallerState == [pc : {"idle", "check", "parked"}, pos : Nat]

\* Every variable has the shape of the field or local variable it models.
WalTypeOK ==
  /\ queue_pos \in Nat /\ write_pos \in Nat /\ sync_pos \in Nat
  /\ offset_pos \in Nat /\ flush_pos \in Nat /\ queue \in Nat
  /\ sync_flag \in BOOLEAN
  /\ stop_flag \in BOOLEAN
  /\ writer \in [pc : {"check", "parked", "write", "trim", "publish", "done"},
                 position : Nat, left : Nat, sync : BOOLEAN, sync_pos : Nat,
                 trim : BOOLEAN, new_offset : Nat, old_offset : Nat,
                 stop : BOOLEAN]
  /\ storer \in [Storers -> CallerState]
  /\ syncer \in [Syncers -> [pc : {"idle", "check", "parked", "panic"},
                             pos : Nat, acked : Nat]]
  /\ trimmer \in CallerState
  /\ pages \subseteq Nat
  /\ synced \in [0 .. Page(MaxPos) -> Nat]

\* The assertions of update_log: what was queued is written, being written or
\* still queued, the writer resumes where it published, parks only when all
\* that was queued is written, and the offsets never cross.
PositionsAgree ==
  /\ write_pos <= writer.position
  /\ writer.position + writer.left + queue = queue_pos
  /\ writer.pc \in {"check", "parked", "done"} =>
       writer.position = write_pos /\ writer.left = 0
  /\ writer.pc = "parked" => write_pos = queue_pos
  /\ flush_pos <= offset_pos /\ offset_pos <= write_pos

\* The log files that exist are those from the page of the oldest offset that
\* may still be needed to the one being written: remove_file never fails on a
\* page that is gone, and no page is left behind.
PagesKept ==
  LET oldest == IF writer.pc = "publish" /\ writer.trim
                THEN writer.new_offset ELSE flush_pos
  IN  pages = Page(oldest) .. Page(writer.position)

\* A caller is only parked as long as what it waits for has not happened, or
\* the writer is about to wake it: no notification is lost between its check
\* and its wait.
NoLostWakeup ==
  /\ \A s \in Storers : storer[s].pc = "parked" => write_pos < storer[s].pos
  /\ \A s \in Syncers : syncer[s].pc = "parked" =>
       sync_pos <= syncer[s].pos \/ writer.pc \in {"trim", "publish"}
  /\ trimmer.pc = "parked" => flush_pos < trimmer.pos
  /\ writer.pc = "parked" => NothingToDo

\* wal/mod.rs on LogStatus: "sync_pos <= write_pos <= queue_pos".  Excepted is
\* the time in which the writer has synced what it has not yet published.  The
\* assertion of sync fails only then, and sync_pos is at most what was written.
SyncBehindWrite ==
  /\ write_pos <= queue_pos
  /\ sync_pos <= writer.position
  /\ sync_pos > write_pos => writer.pc \in {"trim", "publish"} /\ writer.sync

\* database.rs on synchronize: "Ensure all data is written to disk".  When
\* sync returns, all bytes that were acknowledged when it was called are on
\* disk: no page with such bytes has unsynced ones.
SyncMakesDurable ==
  \A s \in Syncers : syncer[s].pc = "idle" =>
    \A p \in Page(offset_pos) .. Page(MaxPos) :
      p * PageSize < syncer[s].acked =>
        synced[p] >= Min2(syncer[s].acked, (p + 1) * PageSize)

\* A store that was queued before stop was called returns, and so does stop.
QueuedIsWritten ==
  /\ \A s \in Storers :
       (storer[s].pc # "idle" /\ ~stop_flag) ~> (storer[s].pc = "idle")
  /\ stop_flag ~> (writer.pc = "done")

\* sync and set_offset return, unless stop is called or the assertion of sync
\* fails.  Once the writer has ended, a caller of either waits forever.
CallersReturn ==
  /\ \A s \in Syncers : (syncer[s].pc # "idle") ~>
       (syncer[s].pc \in {"idle", "panic"} \/ stop_flag)
  /\ (trimmer.pc # "idle") ~> (trimmer.pc = "idle" \/ stop_flag)
=============================================================================
