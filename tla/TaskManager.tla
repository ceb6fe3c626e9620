----------------------------- MODULE TaskManager -----------------------------
(***************************************************************************)
(* The background tasks and how they are woken and stopped: tasks.rs, with *)
(* what Database (database.rs) and the two kinds of compaction do to them. *)
(*                                                                         *)
(* What is abstracted.                                                     *)
(*  - The work: imm is the number of immutable memtables, todo the number  *)
(*    of level compactions that are needed.                                *)
(*  - Instants are only compared.  Instead of last_change and the local    *)
(*    variables now and last_update, each task has the results of the two  *)
(*    comparisons: fresh is last_change > now, due is                      *)
(*    last_change > last_update.  idle is not read, and FALSE, while the   *)
(*    task runs; due is not read, and FALSE, unless the task is idle.  Two *)
(*    calls of Instant::now never return the same instant here.            *)
(*  - Notify (tokio, external): notify_one wakes one waiting task or is    *)
(*    kept for the next one, notify_waiters wakes all that are waiting.    *)
(*  - Of the write-ahead log only whether its writer runs: store and       *)
(*    set_offset return if it does, and never if it has ended (the log has *)
(*    a module of its own, WriteAheadLog).  A compaction waits for the log *)
(*    only in builds with feature wisckey, which are not modelled here.    *)
(*  - A compaction never makes another one necessary, and no task panics.  *)
(***************************************************************************)
EXTENDS Integers, FiniteSets

CONSTANTS
  MemTask,    \* the memtable compaction task
  LevelTasks, \* the level compaction tasks
  Writers,    \* callers of write_opts and get
  MaxWrites,  \* bound: the calls that make work for the tasks
  MaxFanout,  \* bound: the level compactions one flush makes necessary
  MayStop,    \* Database::stop is called
  MayDrop     \* the Database is dropped after that

ASSUME TasksAssumption ==
  /\ MemTask \notin LevelTasks
  /\ IsFiniteSet(LevelTasks)
  /\ MaxWrites \in Nat
  /\ MaxFanout \in Nat
  /\ MayStop \in BOOLEAN
  /\ MayDrop \in BOOLEAN

VARIABLES
  task,      \* work_loop of each task
  permit,    \* for each group whether its Notify keeps a notification
  stop_flag, \* TaskManager::stop_flag
  phase,     \* of Database: open, stopping, stopped or dropped
  wal,       \* the writer of the write-ahead log runs
  writer,    \* write_opts or get of each caller
  imm,       \* the length of imm_memtables
  todo,      \* level compactions that are needed and not being done
  writes     \* the calls that have made work for the tasks

taskVars ==
  <<task, permit, stop_flag, phase, wal, writer, imm, todo, writes>>

Tasks == {MemTask} \cup LevelTasks
Groups == {"memtable", "level"}
Members(g) == IF g = "memtable" THEN {MemTask} ELSE LevelTasks
GroupOf(t) == IF t = MemTask THEN "memtable" ELSE "level"

\* A task that has just looked at the clock.
Now(pc, idle) == [pc |-> pc, idle |-> idle, fresh |-> FALSE, due |-> FALSE]

Init ==
  /\ task = [t \in Tasks |-> Now("check", FALSE)]
  /\ permit = [g \in Groups |-> FALSE]
  /\ stop_flag = FALSE
  /\ phase = "open"
  /\ wal = TRUE
  /\ writer = [w \in Writers |-> "idle"]
  /\ imm = 0
  /\ todo = 0
  /\ writes = 0

-----------------------------------------------------------------------------
(* Notify and UpdateCond.  T is the state of the tasks.                     *)

Parked(T, g) == {t \in Members(g) : T[t].pc = "parked"}
Unpark(T, S) ==
  [t \in Tasks |-> IF t \in S THEN [T[t] EXCEPT !.pc = "check"] ELSE T[t]]

notify_one(T, g) ==
  IF Parked(T, g) = {}
  THEN task' = T /\ permit' = [permit EXCEPT ![g] = TRUE]
  ELSE /\ \E t \in Parked(T, g) : task' = Unpark(T, {t})
       /\ permit' = permit

\* Mutant: wake_up does not set last_change.
Changed_Not(T, g) == T

Changed(T, g) ==
  [t \in Tasks |-> IF t \in Members(g)
                   THEN [T[t] EXCEPT !.fresh = T[t].pc # "ended",
                                     !.due = T[t].idle]
                   ELSE T[t]]

wake_up(T, g) == notify_one(Changed(T, g), g)

-----------------------------------------------------------------------------
(* work_loop                                                                *)

\* The inner loop: leave it for a reason, or wait for a notification.
Check(t) ==
  LET g == GroupOf(t) IN
  /\ task[t].pc = "check"
  /\ IF stop_flag
     THEN /\ task' = [task EXCEPT ![t] = Now("ended", FALSE)]
          /\ UNCHANGED permit
     ELSE IF ~task[t].idle \/ task[t].due
     THEN /\ task' = [task EXCEPT ![t] =
                       [Now("run", FALSE) EXCEPT !.fresh = task[t].fresh]]
          /\ UNCHANGED permit
     ELSE IF permit[g]
     THEN /\ permit' = [permit EXCEPT ![g] = FALSE]
          /\ UNCHANGED task
     ELSE /\ task' = [task EXCEPT ![t].pc = "parked"]
          /\ UNCHANGED permit
  /\ UNCHANGED <<stop_flag, phase, wal, writer, imm, todo, writes>>

\* Mutant: last_update is the instant the work ended, not the one it began.
Iterated_After(t, did_work) ==
  [task EXCEPT ![t] = Now("check", ~did_work)]

\* The end of an iteration and the start of the next: last_update = now, and
\* now is the present.
Iterated(t, did_work) ==
  [task EXCEPT ![t] = [Now("check", ~did_work) EXCEPT
                         !.due = ~did_work /\ task[t].fresh]]

\* MemtableCompactionTask::run.  do_memtable_compaction adds a table to
\* level 0, and the level may need a compaction from then on; then it waits
\* until the log is trimmed, and removes the memtable.
AddTable ==
  /\ task[MemTask].pc = "run"
  /\ imm > 0
  /\ \E n \in 0 .. MaxFanout : todo' = todo + n
  /\ task' = [task EXCEPT ![MemTask].pc = "trim"]
  /\ UNCHANGED <<permit, stop_flag, phase, wal, writer, imm, writes>>

PopImm ==
  /\ task[MemTask].pc = "trim"
  /\ wal
  /\ imm' = imm - 1
  /\ task' = [task EXCEPT ![MemTask].pc = "flushed"]
  /\ UNCHANGED <<permit, stop_flag, phase, wal, writer, todo, writes>>

\* Mutant: the level tasks are not woken after a flush.
WakeLevelTasks_Not ==
  /\ task[MemTask].pc = "flushed"
  /\ task' = Iterated(MemTask, TRUE)
  /\ UNCHANGED <<permit, stop_flag, phase, wal, writer, imm, todo, writes>>

WakeLevelTasks ==
  /\ task[MemTask].pc = "flushed"
  /\ wake_up(Iterated(MemTask, TRUE), "level")
  /\ UNCHANGED <<stop_flag, phase, wal, writer, imm, todo, writes>>

NoMemtable ==
  /\ task[MemTask].pc = "run"
  /\ imm = 0
  /\ task' = [task EXCEPT ![MemTask].pc = "nothing"]
  /\ UNCHANGED <<permit, stop_flag, phase, wal, writer, imm, todo, writes>>

\* LevelCompactionTask::run: a compaction that is needed, or nothing.  While
\* another task compacts, do_level_compaction may also find what it would
\* compact locked: then it returns true if a parent was locked and false if a
\* child was.
StartCompaction(t) ==
  /\ task[t].pc = "run"
  /\ todo > 0
  /\ todo' = todo - 1
  /\ task' = [task EXCEPT ![t].pc = "compact"]
  /\ UNCHANGED <<permit, stop_flag, phase, wal, writer, imm, writes>>

EndCompaction(t) ==
  /\ task[t].pc = "compact"
  /\ task' = Iterated(t, TRUE)
  /\ UNCHANGED <<permit, stop_flag, phase, wal, writer, imm, todo, writes>>

NothingToCompact(t) ==
  /\ task[t].pc = "run"
  /\ todo = 0 \/ \E u \in LevelTasks : task[u].pc = "compact"
  /\ task' = [task EXCEPT ![t].pc = "nothing"]
  /\ UNCHANGED <<permit, stop_flag, phase, wal, writer, imm, todo, writes>>

\* run returns false some time after it has seen that there is no work.
NothingDone(t) ==
  /\ task[t].pc = "nothing"
  /\ task' = Iterated(t, FALSE)
  /\ UNCHANGED <<permit, stop_flag, phase, wal, writer, imm, todo, writes>>

CompactionLocked(t) ==
  /\ task[t].pc = "run"
  /\ \E u \in LevelTasks : task[u].pc = "compact"
  /\ task' = Iterated(t, TRUE)
  /\ UNCHANGED <<permit, stop_flag, phase, wal, writer, imm, todo, writes>>

-----------------------------------------------------------------------------
(* Database                                                                 *)

\* write_opts stores its batch in the log, fills the memtable and waits until
\* there is no other immutable one; then it hands its own over and wakes the
\* memtable compaction task.
WriteFull(w) ==
  /\ wal
  /\ phase # "dropped"
  /\ writer[w] = "idle"
  /\ \A v \in Writers : writer[v] # "full"   \* it holds the memtable lock
  /\ writes < MaxWrites
  /\ writes' = writes + 1
  /\ writer' = [writer EXCEPT ![w] = "full"]
  /\ UNCHANGED <<task, permit, stop_flag, phase, wal, imm, todo>>

\* Mutant: write_opts does not wait for the other immutable memtable.
PushImm_NoWait(w) ==
  /\ writer[w] = "full"
  /\ imm' = imm + 1
  /\ writer' = [writer EXCEPT ![w] = "pushed"]
  /\ UNCHANGED <<task, permit, stop_flag, phase, wal, todo, writes>>

PushImm(w) ==
  /\ writer[w] = "full"
  /\ imm = 0
  /\ imm' = imm + 1
  /\ writer' = [writer EXCEPT ![w] = "pushed"]
  /\ UNCHANGED <<task, permit, stop_flag, phase, wal, todo, writes>>

WakeMemtableTask(w) ==
  /\ writer[w] = "pushed"
  /\ wake_up(task, "memtable")
  /\ writer' = [writer EXCEPT ![w] = "idle"]
  /\ UNCHANGED <<stop_flag, phase, wal, imm, todo, writes>>

\* get finds a table that used up its seeks, and wakes the level tasks.
GetTriggers(w) ==
  /\ phase # "dropped"
  /\ writer[w] = "idle"
  /\ writes < MaxWrites
  /\ writes' = writes + 1
  /\ todo' = todo + 1
  /\ writer' = [writer EXCEPT ![w] = "triggered"]
  /\ UNCHANGED <<task, permit, stop_flag, phase, wal, imm>>

GetWakes(w) ==
  /\ writer[w] = "triggered"
  /\ wake_up(task, "level")
  /\ writer' = [writer EXCEPT ![w] = "idle"]
  /\ UNCHANGED <<stop_flag, phase, wal, imm, todo, writes>>

\* Database::stop first stops the log: DbLogic::stop returns when the log's
\* writer has ended.
stop ==
  /\ MayStop
  /\ phase = "open"
  /\ phase' = "stopping"
  /\ wal' = FALSE
  /\ UNCHANGED <<task, permit, stop_flag, writer, imm, todo, writes>>

\* Mutant: one task of each group is notified, as in terminate.
stop_all_NotifyOne ==
  /\ phase = "stopping"
  /\ phase' = "stopped"
  /\ stop_flag' = TRUE
  /\ \E S \in SUBSET {t \in Tasks : task[t].pc = "parked"} :
       /\ \A g \in Groups : Cardinality(S \cap Members(g)) =
                              IF Parked(task, g) = {} THEN 0 ELSE 1
       /\ task' = Unpark(task, S)
  /\ UNCHANGED <<permit, wal, writer, imm, todo, writes>>

\* Then it tells the tasks to stop.
stop_all ==
  /\ phase = "stopping"
  /\ phase' = "stopped"
  /\ stop_flag' = TRUE
  /\ task' = Unpark(task, {t \in Tasks : task[t].pc = "parked"})
  /\ UNCHANGED <<permit, wal, writer, imm, todo, writes>>

\* Drop for Database, when there are no more callers.
terminate ==
  /\ MayDrop
  /\ phase \in {"open", "stopped"}
  /\ \A w \in Writers : writer[w] = "idle"
  /\ phase' = "dropped"
  /\ stop_flag' = FALSE
  /\ \E S \in SUBSET {t \in Tasks : task[t].pc = "parked"} :
       /\ \A g \in Groups : Cardinality(S \cap Members(g)) =
                              IF Parked(task, g) = {} THEN 0 ELSE 1
       /\ task' = Unpark(task, S)
  /\ permit' = [g \in Groups |-> permit[g] \/ Parked(task, g) = {}]
  /\ UNCHANGED <<wal, writer, imm, todo, writes>>

-----------------------------------------------------------------------------
Work(t) ==
  \/ Check(t) \/ NothingDone(t)
  \/ t = MemTask /\ (AddTable \/ PopImm \/ WakeLevelTasks \/ NoMemtable)
  \/ t \in LevelTasks /\ (StartCompaction(t) \/ EndCompaction(t)
                            \/ NothingToCompact(t) \/ CompactionLocked(t))

Next ==
  \/ \E t \in Tasks : Work(t)
  \/ \E w \in Writers :
       \/ WriteFull(w) \/ PushImm(w) \/ WakeMemtableTask(w)
       \/ GetTriggers(w) \/ GetWakes(w)
  \/ stop
  \/ stop_all
  \/ terminate

Spec == Init /\ [][Next]_taskVars

\* The runtime keeps polling a task or a caller that can go on.
FairSpec ==
  /\ Spec
  /\ \A t \in Tasks : WF_taskVars(Work(t))
  /\ \A w \in Writers : WF_taskVars(PushImm(w) \/ WakeMemtableTask(w)
                                          \/ GetWakes(w))
  /\ WF_taskVars(stop_all)

-----------------------------------------------------------------------------
(* Properties.                                                              *)

\* Every variable has the shape of the field or local variable it models.
TasksTypeOK ==
  /\ task \in [Tasks -> [pc : {"check", "parked", "run", "trim", "flushed",
                               "compact", "nothing", "ended"},
                         idle : BOOLEAN, fresh : BOOLEAN, due : BOOLEAN]]
  /\ permit \in [Groups -> BOOLEAN]
  /\ stop_flag \in BOOLEAN
  /\ phase \in {"open", "stopping", "stopped", "dropped"}
  /\ wal \in BOOLEAN
  /\ writer \in [Writers -> {"idle", "full", "pushed", "triggered"}]
  /\ imm \in 0 .. 1
  /\ {todo, writes} \subseteq Nat

\* Nobody sleeps over work: while there is an immutable memtable, the memtable
\* task is awake or the caller who pushed it is about to wake it, and while a
\* level compaction is needed, some level task is awake or about to be woken,
\* until Database::stop is called.
NoSleepingOverWork ==
  wal =>
    /\ imm > 0 => \/ task[MemTask].pc # "parked"
                  \/ \E w \in Writers : writer[w] = "pushed"
    /\ todo > 0 => \/ task[MemTask].pc \in {"trim", "flushed"}
                   \/ \E w \in Writers : writer[w] = "triggered"
                   \/ \E t \in LevelTasks : task[t].pc # "parked"

\* A caller of write_opts that waits for the previous memtable to be flushed,
\* holding the memtable lock, goes on, unless the flush comes too late for the
\* log, which Database::stop has stopped.
WriterGoesOn ==
  \A w \in Writers : (writer[w] = "full") ~> (writer[w] # "full" \/ ~wal)

\* Level compactions that are needed get done, until Database::stop is called,
\* also when the Database is dropped without it: nobody tells the tasks.
CompactionsGetDone == (todo > 0) ~> (todo = 0 \/ ~wal)

\* The flush has come to wal.set_offset after the writer of the log has ended.
HangsInSetOffset == task[MemTask].pc = "trim" /\ ~wal

\* What Database::stop, "Stop all background tasks gracefully", achieves: every
\* level task ends, and so does the memtable task unless its flush then hangs,
\* since stop ends the log before it tells the tasks; and unless the Database
\* is dropped first, since terminate clears the flag that stop_all has set.
StopEndsTasks ==
  (phase = "stopping") ~>
    \/ /\ \A t \in LevelTasks : task[t].pc = "ended"
       /\ task[MemTask].pc = "ended" \/ HangsInSetOffset
    \/ phase = "dropped"
=============================================================================
