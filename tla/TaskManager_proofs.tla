------------------------- MODULE TaskManager_proofs -------------------------
(* No background task sleeps while there is work for it, for any number of *)
(* level tasks, callers and pieces of work.                                *)
EXTENDS TaskManager, TLAPS

-----------------------------------------------------------------------------
(* The inductive invariant.                                                 *)

\* A task that leaves the inner loop of work_loop when it gets there.
Ready(t) == ~task[t].idle \/ task[t].due

\* A task that cannot go to sleep before it has looked for work again:
\* it is at work, or saw a change since it last looked.
Alert(t) ==
  \/ task[t].pc = "check" /\ Ready(t)
  \/ task[t].pc = "nothing" /\ task[t].fresh
  \/ task[t].pc \in {"run", "trim", "compact", "flushed"}

\* stop_flag is set exactly between stop_all and terminate, and no task ends as
\* long as the log runs, which Database::stop ends first.
StopInv ==
  /\ stop_flag <=> phase = "stopped"
  /\ wal => /\ phase \in {"open", "dropped"}
            /\ \A t \in Tasks : task[t].pc # "ended"

\* The memtable that is being flushed is still there.
TrimInv == task[MemTask].pc = "trim" => imm = 1

\* An immutable memtable that nobody is about to announce is not overlooked.
MemtableInv ==
  wal /\ imm > 0 =>
    Alert(MemTask) \/ \E w \in Writers : writer[w] = "pushed"

\* Level compactions that nobody is about to announce are not overlooked, if
\* compaction_concurrency is not 0.
LevelInv ==
  wal /\ todo > 0 /\ LevelTasks # {} =>
    \/ task[MemTask].pc \in {"trim", "flushed"}
    \/ \E w \in Writers : writer[w] = "triggered"
    \/ \E t \in LevelTasks : Alert(t)

TasksInv == TasksTypeOK /\ StopInv /\ TrimInv /\ MemtableInv /\ LevelInv

-----------------------------------------------------------------------------
(* The helpers.                                                             *)

TaskRecord == [pc : {"check", "parked", "run", "trim", "flushed", "compact", "nothing",
                     "ended"},
               idle : BOOLEAN, fresh : BOOLEAN, due : BOOLEAN]

\* The groups are disjoint and have all tasks.
LEMMA GroupFacts ==
  /\ MemTask \in Tasks /\ LevelTasks \subseteq Tasks /\ MemTask \notin LevelTasks
  /\ Members("memtable") = {MemTask} /\ Members("level") = LevelTasks
  /\ \A g \in Groups : Members(g) \subseteq Tasks
  /\ \A t \in Tasks : GroupOf(t) \in Groups
BY TasksAssumption DEF Tasks, Members, Groups, GroupOf

\* What a task is that has just looked at the clock.
LEMMA NowFacts ==
  ASSUME NEW pc \in {"check", "run", "ended"}, NEW idle \in BOOLEAN
  PROVE  /\ Now(pc, idle) \in TaskRecord
         /\ Now(pc, idle).pc = pc /\ Now(pc, idle).idle = idle
BY DEF Now, TaskRecord

\* What wake_up does: the tasks of the group notice the change, and one of them
\* that sleeps gets up; the others are as before.
Woken(T, g) ==
  /\ task' \in [Tasks -> TaskRecord]
  /\ permit' \in [Groups -> BOOLEAN]
  /\ \A t \in Tasks \ Members(g) : task'[t] = T[t]
  /\ \A t \in Tasks : /\ task'[t].idle = T[t].idle
                      /\ task'[t].pc = T[t].pc \/
                           (T[t].pc = "parked" /\ task'[t].pc = "check")
  /\ \A t \in Members(g) : T[t].pc # "ended" =>
       /\ task'[t].fresh
       /\ Ready(t)'
  /\ (\E t \in Members(g) : T[t].pc = "parked") =>
       \E t \in Members(g) : /\ task'[t].pc = "check"
                              /\ Ready(t)'

\* wake_up does that.
LEMMA WakeFacts ==
  ASSUME NEW T \in [Tasks -> TaskRecord], NEW g \in Groups, permit \in [Groups -> BOOLEAN],
         wake_up(T, g)
  PROVE  Woken(T, g)
<1> USE DEF Woken
<1> DEFINE U == Changed(T, g)
<1>1. \A t \in Tasks :
        U[t] = IF t \in Members(g)
               THEN [T[t] EXCEPT !.fresh = T[t].pc # "ended",
                                 !.due = T[t].idle]
               ELSE T[t]
  BY DEF Changed
<1>2. \A t \in Tasks : T[t] \in TaskRecord
  OBVIOUS
<1>3. ASSUME NEW t \in Tasks
      PROVE  /\ U[t] \in TaskRecord
             /\ U[t].pc = T[t].pc /\ U[t].idle = T[t].idle
             /\ t \notin Members(g) => U[t] = T[t]
             /\ t \in Members(g) => /\ U[t].fresh <=> T[t].pc # "ended"
                                    /\ U[t].due <=> T[t].idle
  <2>1. CASE t \notin Members(g)
    BY <1>1, <1>2, <2>1
  <2>2. CASE t \in Members(g)
    <3> DEFINE f == T[t].pc # "ended"
               d == T[t].idle
    <3>1. f \in BOOLEAN /\ d \in BOOLEAN
      BY <1>2 DEF TaskRecord
    <3>2. U[t] = [T[t] EXCEPT !.fresh = f, !.due = d]
      BY <1>1, <2>2
    <3>3. /\ U[t] \in TaskRecord /\ U[t].pc = T[t].pc /\ U[t].idle = T[t].idle
          /\ U[t].fresh = f /\ U[t].due = d
      <4> HIDE DEF f, d
      <4> QED BY <1>2, <3>1, <3>2 DEF TaskRecord
    <3> QED BY Zenon, <2>2, <3>3
  <2> QED BY Zenon, <2>1, <2>2
<1>4. U = [t \in Tasks |-> U[t]]
  BY DEF Changed
<1>5. U \in [Tasks -> TaskRecord]
  <2> HIDE DEF U
  <2> QED BY <1>3, <1>4
<1>6. CASE Parked(U, g) = {}
  <2>1. task' = U /\ permit' = [permit EXCEPT ![g] = TRUE]
    BY <1>6 DEF wake_up, notify_one
  <2>2. \A t \in Members(g) : T[t].pc # "parked"
    BY <1>3, <1>6, GroupFacts DEF Parked
  <2> HIDE DEF U
  <2> QED BY <1>3, <1>5, <2>1, <2>2, GroupFacts DEF Ready
<1>7. CASE Parked(U, g) # {}
  <2>1. PICK p \in Parked(U, g) : task' = Unpark(U, {p}) /\ permit' = permit
    BY <1>7 DEF wake_up, notify_one
  <2>2. p \in Members(g) /\ p \in Tasks /\ U[p].pc = "parked"
    BY <2>1, GroupFacts DEF Parked
  <2>3. /\ task' = [t \in Tasks |-> task'[t]]
        /\ \A t \in Tasks \ {p} : task'[t] = U[t]
        /\ task'[p] = [U[p] EXCEPT !.pc = "check"]
    BY <2>1, <2>2 DEF Unpark
  <2> HIDE DEF U
  <2>4. /\ task'[p] \in TaskRecord /\ task'[p].pc = "check"
        /\ task'[p].idle = U[p].idle /\ task'[p].fresh = U[p].fresh
        /\ task'[p].due = U[p].due
    BY <1>5, <2>2, <2>3 DEF TaskRecord
  <2>5. task' \in [Tasks -> TaskRecord]
    BY <1>5, <2>3, <2>4
  <2>6. \A t \in Members(g) : T[t].pc # "ended" =>
          task'[t].fresh /\ Ready(t)'
    <3> SUFFICES ASSUME NEW t \in Members(g), T[t].pc # "ended"
                 PROVE  task'[t].fresh /\ Ready(t)'
      BY Zenon
    <3>1. t \in Tasks
      BY Zenon, GroupFacts
    <3>2. U[t].fresh /\ (U[t].idle => U[t].due)
      BY Zenon, <1>3, <3>1
    <3>3. CASE t = p
      BY Zenon, <2>2, <2>4, <3>2, <3>3 DEF Ready
    <3>4. CASE t # p
      BY Zenon, <2>3, <3>1, <3>2, <3>4 DEF Ready
    <3> QED BY Zenon, <3>3, <3>4
  <2>7. Ready(p)'
    BY Zenon, <1>3, <2>2, <2>4 DEF Ready
  <2>8. /\ \A t \in Tasks \ Members(g) : task'[t] = T[t]
        /\ \A t \in Tasks : /\ task'[t].idle = T[t].idle
                            /\ task'[t].pc = T[t].pc \/
                                 (T[t].pc = "parked" /\ task'[t].pc = "check")
    BY Zenon, <1>3, <2>2, <2>3, <2>4
  <2> QED BY Zenon, <2>1, <2>2, <2>4, <2>5, <2>6, <2>7, <2>8
<1> QED BY <1>6, <1>7

-----------------------------------------------------------------------------
(* The invariant holds at the beginning and is kept.                        *)

\* The tasks start awake, and there is no work yet.
LEMMA TasksInit == Init => TasksInv
<1> SUFFICES ASSUME Init PROVE TasksInv
  OBVIOUS
<1>1. Now("check", FALSE) \in TaskRecord /\ Now("check", FALSE).pc = "check"
  BY NowFacts
<1>2. \A t \in Tasks : task[t] \in TaskRecord /\ task[t].pc = "check"
  BY <1>1 DEF Init
<1>3. TasksTypeOK
  <2>1. task \in [Tasks -> TaskRecord] /\ permit \in [Groups -> BOOLEAN]
    BY <1>1 DEF Init
  <2>2. /\ stop_flag \in BOOLEAN /\ wal \in BOOLEAN
        /\ phase \in {"open", "stopping", "stopped", "dropped"}
        /\ writer \in [Writers -> {"idle", "full", "pushed", "triggered"}]
    BY DEF Init
  <2>3. imm \in 0 .. 1 /\ {todo, writes} \subseteq Nat
    BY DEF Init
  <2> QED BY <2>1, <2>2, <2>3 DEF TasksTypeOK, TaskRecord
<1>4. TrimInv /\ MemtableInv /\ LevelInv
  <2>1. task[MemTask].pc # "trim"
    BY <1>2, GroupFacts
  <2>2. MemtableInv /\ LevelInv
    BY DEF Init, MemtableInv, LevelInv
  <2> QED BY Zenon, <2>1, <2>2 DEF TrimInv
<1>5. StopInv
  <2>1. stop_flag = FALSE /\ phase = "open" /\ "open" # "stopped"
    BY DEF Init
  <2>2. \A t \in Tasks : task[t].pc # "ended"
    BY <1>2
  <2> QED BY Zenon, <2>1, <2>2 DEF StopInv
<1> QED BY <1>3, <1>4, <1>5 DEF TasksInv

\* The records of the tasks are records of a task.
LEMMA TaskTypes ==
  ASSUME TasksInv
  PROVE  /\ task \in [Tasks -> TaskRecord] /\ permit \in [Groups -> BOOLEAN]
         /\ imm \in 0 .. 1 /\ todo \in Nat /\ writes \in Nat
         /\ stop_flag \in BOOLEAN /\ wal \in BOOLEAN
         /\ phase \in {"open", "stopping", "stopped", "dropped"}
         /\ writer \in [Writers -> {"idle", "full", "pushed", "triggered"}]
BY DEF TasksInv, TasksTypeOK, TaskRecord

\* One task goes on: it does not overlook work it was alert to.
LEMMA OwnStep ==
  ASSUME TasksInv, NEW t \in Tasks, NEW r \in TaskRecord,
         task' = [task EXCEPT ![t] = r],
         UNCHANGED <<stop_flag, phase, wal, writer, imm, writes>>,
         permit' \in [Groups -> BOOLEAN], todo' \in Nat, todo' <= todo,
         r.pc = "ended" => ~wal,
         t = MemTask => task[t].pc \notin {"trim", "flushed"} /\ r.pc # "trim",
         t = MemTask /\ imm > 0 /\ wal /\ Alert(t) => Alert(t)',
         t \in LevelTasks /\ todo' > 0 /\ wal /\ Alert(t) =>
           \E u \in LevelTasks : Alert(u)'
  PROVE  TasksInv'
<1>1. task'[t] = r /\ \A u \in Tasks \ {t} : task'[u] = task[u]
  BY TaskTypes
<1>2. \A u \in Tasks \ {t} : Alert(u)' <=> Alert(u)
  BY <1>1 DEF Alert, Ready
<1>3. TasksTypeOK'
  <2>1. task' \in [Tasks -> TaskRecord]
    BY TaskTypes
  <2>2. {todo, writes}' \subseteq Nat
    BY TaskTypes
  <2> QED BY <2>1, <2>2 DEF TasksInv, TasksTypeOK, TaskRecord
<1>4. StopInv' /\ TrimInv'
  <2>1. StopInv'
    BY Zenon, <1>1 DEF TasksInv, StopInv
  <2>2. task'[MemTask].pc = "trim" => task[MemTask].pc = "trim"
    BY Zenon, <1>1, GroupFacts
  <2>3. TrimInv'
    BY Zenon, <2>2 DEF TasksInv, TrimInv
  <2> QED BY <2>1, <2>3
<1>5. MemtableInv'
  <2> SUFFICES ASSUME wal, imm > 0
               PROVE  Alert(MemTask)' \/ \E w \in Writers : writer[w] = "pushed"
    BY Zenon DEF MemtableInv
  <2>1. Alert(MemTask) \/ \E w \in Writers : writer[w] = "pushed"
    BY Zenon DEF TasksInv, MemtableInv
  <2> QED BY Zenon, <1>2, <2>1, GroupFacts
<1>6. LevelInv'
  <2> SUFFICES ASSUME wal, todo' > 0, LevelTasks # {}
               PROVE  \/ task'[MemTask].pc \in {"trim", "flushed"}
                      \/ \E w \in Writers : writer[w] = "triggered"
                      \/ \E u \in LevelTasks : Alert(u)'
    BY Zenon DEF LevelInv
  <2>1. todo > 0
    BY TaskTypes
  <2>2. \/ task[MemTask].pc \in {"trim", "flushed"}
        \/ \E w \in Writers : writer[w] = "triggered"
        \/ \E u \in LevelTasks : Alert(u)
    BY Zenon, <2>1 DEF TasksInv, LevelInv
  <2>3. CASE task[MemTask].pc \in {"trim", "flushed"}
    BY Zenon, <1>1, <2>3, GroupFacts
  <2>4. ASSUME NEW u \in LevelTasks, Alert(u) PROVE \E v \in LevelTasks : Alert(v)'
    BY Zenon, <1>2, <2>4, GroupFacts
  <2> QED BY Zenon, <2>2, <2>3, <2>4
<1> QED BY <1>3, <1>4, <1>5, <1>6 DEF TasksInv

\* The inner loop of work_loop.
LEMMA CheckStep ==
  ASSUME TasksInv, NEW t \in Tasks, Check(t)
  PROVE  TasksInv'
<1>1. /\ UNCHANGED <<stop_flag, phase, wal, writer, imm, todo, writes>>
      /\ task[t].pc = "check" /\ task[t] \in TaskRecord
      /\ todo \in Nat /\ todo' <= todo
  BY TaskTypes DEF Check
<1>2. CASE stop_flag
  <2>1. task' = [task EXCEPT ![t] = Now("ended", FALSE)] /\ permit' = permit
    BY Zenon, <1>2 DEF Check
  <2>2. ~wal
    <3>1. stop_flag => phase = "stopped"
      BY Zenon DEF TasksInv, StopInv
    <3>2. wal => phase \in {"open", "dropped"}
      BY Zenon DEF TasksInv, StopInv
    <3> QED BY <1>2, <3>1, <3>2
  <2>3. Now("ended", FALSE) \in TaskRecord /\ Now("ended", FALSE).pc = "ended"
    BY NowFacts
  <2> QED BY <1>1, <2>1, <2>2, <2>3, TaskTypes, OwnStep
<1>3. CASE ~stop_flag /\ (~task[t].idle \/ task[t].due)
  <2> DEFINE r == [Now("run", FALSE) EXCEPT !.fresh = task[t].fresh]
  <2>1. task' = [task EXCEPT ![t] = r] /\ permit' = permit
    BY Zenon, <1>3 DEF Check
  <2>2. r \in TaskRecord /\ r.pc = "run"
    BY <1>1 DEF Now, TaskRecord
  <2> HIDE DEF r
  <2>3. Alert(t)'
    BY <2>1, <2>2, TaskTypes DEF Alert
  <2> QED BY <1>1, <2>1, <2>2, <2>3, TaskTypes, OwnStep
<1>4. CASE ~stop_flag /\ ~(~task[t].idle \/ task[t].due) /\ permit[GroupOf(t)]
  <2>1. task' = task /\ permit' = [permit EXCEPT ![GroupOf(t)] = FALSE]
    BY Zenon, <1>4 DEF Check
  <2>2. task' = [task EXCEPT ![t] = task[t]] /\ permit' \in [Groups -> BOOLEAN]
    BY <2>1, TaskTypes
  <2>3. Alert(t)' <=> Alert(t)
    BY <2>1 DEF Alert, Ready
  <2> QED BY <1>1, <2>2, <2>3, TaskTypes, OwnStep
<1>5. CASE ~stop_flag /\ ~(~task[t].idle \/ task[t].due) /\ ~permit[GroupOf(t)]
  <2> DEFINE r == [task[t] EXCEPT !.pc = "parked"]
  <2>1. task' = [task EXCEPT ![t] = r] /\ permit' = permit
    BY Zenon, <1>5 DEF Check
  <2>2. r \in TaskRecord /\ r.pc = "parked"
    BY <1>1 DEF TaskRecord
  <2>3. ~Alert(t)
    BY Zenon, <1>1, <1>5 DEF Alert, Ready
  <2> HIDE DEF r
  <2> QED BY <1>1, <2>1, <2>2, <2>3, TaskTypes, OwnStep
<1> QED BY Zenon, <1>2, <1>3, <1>4, <1>5

\* The end of an iteration that had work, and of one that had none.
LEMMA IteratedFacts ==
  ASSUME TasksInv, NEW t \in Tasks, NEW did_work \in BOOLEAN
  PROVE  LET r == [Now("check", ~did_work) EXCEPT !.due = ~did_work /\ task[t].fresh] IN
         /\ Iterated(t, did_work) = [task EXCEPT ![t] = r]
         /\ r \in TaskRecord /\ r.pc = "check"
         /\ r.idle = ~did_work /\ r.due = (~did_work /\ task[t].fresh)
<1> DEFINE idle == ~did_work
           fresh == ~did_work /\ task[t].fresh
<1>1. idle \in BOOLEAN /\ fresh \in BOOLEAN
  BY TaskTypes DEF TaskRecord
<1>2. /\ [Now("check", idle) EXCEPT !.due = fresh] \in TaskRecord
      /\ [Now("check", idle) EXCEPT !.due = fresh].pc = "check"
      /\ [Now("check", idle) EXCEPT !.due = fresh].idle = idle
      /\ [Now("check", idle) EXCEPT !.due = fresh].due = fresh
  <2> HIDE DEF idle, fresh
  <2> QED BY <1>1 DEF Now, TaskRecord
<1> QED BY Zenon, <1>2 DEF Iterated

\* Iterations that end without waking anybody.
LEMMA IterationEnds ==
  ASSUME TasksInv, NEW t \in Tasks, NEW did_work \in BOOLEAN,
         task' = Iterated(t, did_work),
         UNCHANGED <<permit, stop_flag, phase, wal, writer, imm, todo, writes>>,
         t = MemTask => task[t].pc \notin {"trim", "flushed"},
         did_work \/ task[t].pc = "nothing"
  PROVE  TasksInv'
<1> DEFINE r == [Now("check", ~did_work) EXCEPT !.due = ~did_work /\ task[t].fresh]
<1>1. /\ task' = [task EXCEPT ![t] = r] /\ r \in TaskRecord /\ r.pc = "check"
      /\ r.idle = ~did_work /\ r.due = (~did_work /\ task[t].fresh)
  BY Zenon, IteratedFacts
<1> HIDE DEF r
<1>2. task'[t] = r
  BY <1>1, TaskTypes
<1>3. Alert(t) => Alert(t)'
  <2>1. CASE did_work
    BY Zenon, <1>1, <1>2, <2>1 DEF Alert, Ready
  <2>2. CASE task[t].pc = "nothing" /\ ~task[t].fresh
    BY <2>2 DEF Alert
  <2>3. CASE task[t].fresh
    BY Zenon, <1>1, <1>2, <2>3 DEF Alert, Ready
  <2> QED BY Zenon, <2>1, <2>2, <2>3
<1>4. todo' \in Nat /\ todo' <= todo /\ permit' \in [Groups -> BOOLEAN]
  BY TaskTypes
<1> QED BY <1>1, <1>3, <1>4, OwnStep

\* A task whose pc alone changes.
LEMMA PcFacts ==
  ASSUME TasksInv, NEW t \in Tasks,
         NEW pc \in {"trim", "flushed", "nothing", "compact"},
         task' = [task EXCEPT ![t].pc = pc]
  PROVE  LET r == [task[t] EXCEPT !.pc = pc] IN
         /\ task' = [task EXCEPT ![t] = r]
         /\ r \in TaskRecord /\ r.pc = pc
         /\ task'[t].pc = pc
BY TaskTypes DEF TaskRecord

\* MemtableCompactionTask::run: the table is added, and the memtable removed.
LEMMA FlushStep ==
  ASSUME TasksInv, AddTable \/ PopImm
  PROVE  TasksInv'
<1>0. /\ UNCHANGED <<permit, stop_flag, phase, wal, writer, writes>>
      /\ MemTask \in Tasks
  BY GroupFacts DEF AddTable, PopImm
<1>1. PICK pc \in {"trim", "flushed"} :
        /\ task' = [task EXCEPT ![MemTask].pc = pc]
        /\ imm' \in 0 .. 1 /\ todo' \in Nat
        /\ pc = "trim" => imm' = 1
  <2>1. CASE AddTable
    <3>1. /\ task' = [task EXCEPT ![MemTask].pc = "trim"] /\ imm > 0 /\ imm' = imm
          /\ \E n \in 0 .. MaxFanout : todo' = todo + n
      BY <2>1 DEF AddTable
    <3>2. imm' = 1 /\ todo' \in Nat
      BY <3>1, TaskTypes, TasksAssumption
    <3> QED BY <3>1, <3>2
  <2>2. CASE PopImm
    <3>1. /\ task' = [task EXCEPT ![MemTask].pc = "flushed"] /\ imm' = imm - 1
          /\ todo' = todo /\ task[MemTask].pc = "trim"
      BY <2>2 DEF PopImm
    <3>2. imm = 1
      BY Zenon, <3>1 DEF TasksInv, TrimInv
    <3> QED BY <3>1, <3>2, TaskTypes
  <2> QED BY <2>1, <2>2
<1> DEFINE r == [task[MemTask] EXCEPT !.pc = pc]
<1>2. r \in TaskRecord /\ task' = [task EXCEPT ![MemTask] = r] /\ r.pc = pc
  BY <1>0, <1>1, PcFacts
<1> HIDE DEF r
<1>3. task' \in [Tasks -> TaskRecord] /\ task'[MemTask].pc = pc
      /\ \A u \in Tasks \ {MemTask} : task'[u] = task[u]
  BY <1>0, <1>2, TaskTypes
<1>4. TasksTypeOK'
  BY <1>0, <1>1, <1>3, TaskTypes DEF TasksTypeOK, TaskRecord
<1>5. StopInv'
  <2>1. pc # "ended"
    OBVIOUS
  <2> QED BY Zenon, <1>0, <1>3, <2>1 DEF TasksInv, StopInv
<1>6. TrimInv'
  BY Zenon, <1>1, <1>3 DEF TrimInv
<1>7. MemtableInv' /\ LevelInv'
  <2>1. Alert(MemTask)'
    BY <1>3 DEF Alert
  <2>2. task'[MemTask].pc \in {"trim", "flushed"}
    BY Zenon, <1>3
  <2> QED BY Zenon, <2>1, <2>2 DEF MemtableInv, LevelInv
<1> QED BY <1>4, <1>5, <1>6, <1>7 DEF TasksInv

\* A level task is woken after a flush or a get: some level task is alert.
LEMMA WakeLevelStep ==
  ASSUME TasksInv, NEW T \in [Tasks -> TaskRecord], wake_up(T, "level"),
         \A t \in LevelTasks : T[t] = task[t],
         T[MemTask] = task[MemTask] \/ (T[MemTask].pc = "check" /\ ~T[MemTask].idle),
         writer' \in [Writers -> {"idle", "full", "pushed", "triggered"}],
         \A w \in Writers : writer[w] = "pushed" => writer'[w] = "pushed",
         UNCHANGED <<stop_flag, phase, wal, imm, todo, writes>>
  PROVE  TasksInv'
<1>0. "level" \in Groups /\ permit \in [Groups -> BOOLEAN]
  BY TaskTypes DEF Groups
<1>1. /\ task' \in [Tasks -> TaskRecord] /\ permit' \in [Groups -> BOOLEAN]
      /\ task'[MemTask] = T[MemTask]
      /\ \A t \in Tasks : /\ task'[t].idle = T[t].idle
                          /\ task'[t].pc = T[t].pc \/
                               (T[t].pc = "parked" /\ task'[t].pc = "check")
      /\ \A t \in LevelTasks : T[t].pc # "ended" =>
           task'[t].fresh /\ Ready(t)'
      /\ (\E t \in LevelTasks : T[t].pc = "parked") =>
           \E t \in LevelTasks : /\ task'[t].pc = "check"
                                 /\ Ready(t)'
  <2>1. Woken(T, "level")
    BY Zenon, <1>0, WakeFacts
  <2>2. MemTask \in Tasks \ LevelTasks /\ Members("level") = LevelTasks
    BY Zenon, GroupFacts
  <2> QED BY Zenon, <2>1, <2>2 DEF Woken
<1>2. TasksTypeOK'
  BY <1>1, TaskTypes DEF TasksTypeOK, TaskRecord
<1>3. StopInv'
  <2>1. wal => \A t \in Tasks : T[t].pc # "ended"
    <3>1. Tasks = {MemTask} \cup LevelTasks
      BY DEF Tasks
    <3>2. wal => \A t \in Tasks : task[t].pc # "ended"
      BY DEF TasksInv, StopInv
    <3> QED BY <3>1, <3>2
  <2>2. \A t \in Tasks : task'[t].pc = "ended" => T[t].pc = "ended"
    BY <1>1
  <2> QED BY Zenon, <2>1, <2>2 DEF TasksInv, StopInv
<1>7. TrimInv'
  <2>1. task'[MemTask].pc = "trim" => task[MemTask].pc = "trim"
    BY <1>1
  <2> QED BY Zenon, <2>1 DEF TasksInv, TrimInv
<1>4. MemtableInv'
  <2> SUFFICES ASSUME wal, imm > 0
               PROVE  Alert(MemTask)' \/ \E w \in Writers : writer'[w] = "pushed"
    BY Zenon DEF MemtableInv
  <2>1. Alert(MemTask) \/ \E w \in Writers : writer[w] = "pushed"
    BY Zenon DEF TasksInv, MemtableInv
  <2>2. Alert(MemTask) => Alert(MemTask)'
    BY Zenon, <1>1 DEF Alert, Ready
  <2> QED BY Zenon, <2>1, <2>2
<1>5. wal /\ LevelTasks # {} => \E t \in LevelTasks : Alert(t)'
  <2> SUFFICES ASSUME wal, LevelTasks # {}
               PROVE  \E t \in LevelTasks : Alert(t)'
    OBVIOUS
  <2>1. \A t \in LevelTasks : T[t].pc # "ended"
    BY GroupFacts DEF TasksInv, StopInv
  <2>2. CASE \E t \in LevelTasks : T[t].pc = "parked"
    BY Zenon, <1>1, <2>2 DEF Alert
  <2>3. CASE ~\E t \in LevelTasks : T[t].pc = "parked"
    <3>1. PICK t \in LevelTasks : TRUE
      OBVIOUS
    <3>2. task'[t].pc \in {"check", "run", "trim", "flushed", "compact", "nothing"}
      BY <1>1, <2>1, <2>3, GroupFacts DEF TaskRecord
    <3>3. task'[t].fresh /\ Ready(t)'
      BY Zenon, <1>1, <2>1
    <3>4. Alert(t)'
      BY Zenon, <3>2, <3>3 DEF Alert
    <3> QED BY <3>4
  <2> QED BY <2>2, <2>3
<1>6. LevelInv'
  BY Zenon, <1>5 DEF LevelInv
<1> QED BY <1>2, <1>3, <1>4, <1>6, <1>7 DEF TasksInv

\* The memtable task is woken by the caller that pushed the memtable.
LEMMA WakeMemtableStep ==
  ASSUME TasksInv, NEW w \in Writers, WakeMemtableTask(w)
  PROVE  TasksInv'
<1>0. "memtable" \in Groups /\ permit \in [Groups -> BOOLEAN]
      /\ task \in [Tasks -> TaskRecord]
  BY TaskTypes DEF Groups
<1>1. /\ wake_up(task, "memtable") /\ writer[w] = "pushed"
      /\ writer' = [writer EXCEPT ![w] = "idle"]
      /\ UNCHANGED <<stop_flag, phase, wal, imm, todo, writes>>
  BY DEF WakeMemtableTask
<1>2. /\ task' \in [Tasks -> TaskRecord] /\ permit' \in [Groups -> BOOLEAN]
      /\ \A t \in LevelTasks : task'[t] = task[t]
      /\ \A t \in Tasks : task'[t].pc = task[t].pc \/
                            (task[t].pc = "parked" /\ task'[t].pc = "check")
      /\ task[MemTask].pc # "ended" =>
           task'[MemTask].fresh /\ Ready(MemTask)'
      /\ task[MemTask].pc = "parked" => task'[MemTask].pc = "check"
  <2>1. /\ task' \in [Tasks -> TaskRecord] /\ permit' \in [Groups -> BOOLEAN]
        /\ \A t \in Tasks \ {MemTask} : task'[t] = task[t]
        /\ \A t \in Tasks : task'[t].pc = task[t].pc \/
                              (task[t].pc = "parked" /\ task'[t].pc = "check")
        /\ \A t \in {MemTask} : task[t].pc # "ended" =>
             task'[t].fresh /\ Ready(t)'
        /\ (\E t \in {MemTask} : task[t].pc = "parked") =>
             \E t \in {MemTask} : /\ task'[t].pc = "check"
                                  /\ Ready(t)'
    <3>1. Woken(task, "memtable")
      BY Zenon, <1>0, <1>1, WakeFacts
    <3>2. Members("memtable") = {MemTask}
      BY Zenon, GroupFacts
    <3> QED BY Zenon, <3>1, <3>2 DEF Woken
  <2> QED BY Zenon, <2>1, GroupFacts
<1>3. TasksTypeOK'
  <2>1. writer' \in [Writers -> {"idle", "full", "pushed", "triggered"}]
    BY <1>1, TaskTypes
  <2> QED BY <1>1, <1>2, <2>1, TaskTypes DEF TasksTypeOK, TaskRecord
<1>4. StopInv'
  <2>1. \A t \in Tasks : task'[t].pc = "ended" => task[t].pc = "ended"
    BY <1>2
  <2> QED BY Zenon, <1>1, <2>1 DEF TasksInv, StopInv
<1>8. TrimInv'
  <2>1. task'[MemTask].pc = "trim" => task[MemTask].pc = "trim"
    BY <1>2, GroupFacts
  <2> QED BY Zenon, <1>1, <2>1 DEF TasksInv, TrimInv
<1>5. wal => Alert(MemTask)'
  <2> SUFFICES ASSUME wal PROVE Alert(MemTask)'
    OBVIOUS
  <2>1. task[MemTask].pc # "ended" /\ MemTask \in Tasks
    BY Zenon, GroupFacts DEF TasksInv, StopInv
  <2>2. task'[MemTask].pc \in {"check", "run", "trim", "flushed", "compact", "nothing"}
    BY <1>0, <1>2, <2>1 DEF TaskRecord
  <2> QED BY Zenon, <1>2, <2>1, <2>2 DEF Alert
<1>6. MemtableInv'
  BY Zenon, <1>1, <1>5 DEF MemtableInv
<1>7. LevelInv'
  <2> SUFFICES ASSUME wal, todo > 0, LevelTasks # {}
               PROVE  \/ task'[MemTask].pc \in {"trim", "flushed"}
                      \/ \E v \in Writers : writer'[v] = "triggered"
                      \/ \E t \in LevelTasks : Alert(t)'
    BY Zenon, <1>1 DEF LevelInv
  <2>1. \/ task[MemTask].pc \in {"trim", "flushed"}
        \/ \E v \in Writers : writer[v] = "triggered"
        \/ \E t \in LevelTasks : Alert(t)
    BY Zenon DEF TasksInv, LevelInv
  <2>2. task[MemTask].pc \in {"trim", "flushed"} => task'[MemTask].pc = task[MemTask].pc
    BY <1>2, GroupFacts
  <2>3. \A v \in Writers : writer[v] = "triggered" => writer'[v] = "triggered"
    BY <1>1, TaskTypes
  <2>4. \A t \in LevelTasks : Alert(t) => Alert(t)'
    BY Zenon, <1>2 DEF Alert, Ready
  <2> QED BY Zenon, <2>1, <2>2, <2>3, <2>4
<1> QED BY <1>3, <1>4, <1>6, <1>7, <1>8 DEF TasksInv

\* A caller goes on without touching a task.
LEMMA CallerStep ==
  ASSUME TasksInv, NEW w \in Writers,
         NEW pc \in {"full", "pushed", "triggered"},
         writer' = [writer EXCEPT ![w] = pc],
         writer[w] \notin {"pushed", "triggered"},
         UNCHANGED <<task, permit, stop_flag, phase, wal>>,
         imm' \in 0 .. 1, imm' >= imm, todo' \in Nat, writes' \in Nat,
         imm' = imm \/ pc = "pushed", todo' = todo \/ pc = "triggered"
  PROVE  TasksInv'
<1>1. /\ writer' \in [Writers -> {"idle", "full", "pushed", "triggered"}]
      /\ writer'[w] = pc
      /\ \A v \in Writers : /\ writer[v] = "pushed" => writer'[v] = "pushed"
                            /\ writer[v] = "triggered" => writer'[v] = "triggered"
  BY TaskTypes
<1>2. TasksTypeOK'
  BY <1>1, TaskTypes DEF TasksTypeOK, TaskRecord
<1>3. StopInv' /\ TrimInv'
  <2>1. imm = 1 => imm' = 1
    BY TaskTypes
  <2> QED BY Zenon, <2>1 DEF TasksInv, StopInv, TrimInv
<1>4. \A t : Alert(t)' <=> Alert(t)
  BY DEF Alert, Ready
<1>5. MemtableInv'
  BY Zenon, <1>1, <1>4 DEF TasksInv, MemtableInv
<1>6. LevelInv'
  BY Zenon, <1>1, <1>4 DEF TasksInv, LevelInv
<1> QED BY <1>2, <1>3, <1>5, <1>6 DEF TasksInv

\* Database::stop ends the log: nothing is said of the tasks from then on.
LEMMA StopStep ==
  ASSUME TasksInv, stop
  PROVE  TasksInv'
<1>1. /\ phase = "open" /\ phase' = "stopping" /\ wal' = FALSE
      /\ UNCHANGED <<task, permit, stop_flag, writer, imm, todo, writes>>
  BY DEF stop
<1>2. TasksTypeOK'
  BY <1>1, TaskTypes DEF TasksTypeOK, TaskRecord
<1>3. StopInv' /\ TrimInv'
  <2>1. phase # "stopped" /\ phase' # "stopped"
    BY <1>1
  <2> QED BY Zenon, <1>1, <2>1 DEF TasksInv, StopInv, TrimInv
<1> QED BY Zenon, <1>1, <1>2, <1>3 DEF TasksInv, MemtableInv, LevelInv

\* stop_all and terminate wake tasks, and no alert one is disturbed.
LEMMA UnparkStep ==
  ASSUME TasksInv, stop_all \/ terminate
  PROVE  TasksInv'
<1>1. PICK S \in SUBSET {t \in Tasks : task[t].pc = "parked"} :
        task' = Unpark(task, S)
  BY Zenon DEF stop_all, terminate
<1>2. /\ UNCHANGED <<wal, writer, imm, todo, writes>>
      /\ stop_all => phase = "stopping" /\ phase' = "stopped" /\ stop_flag' = TRUE
      /\ terminate => phase' = "dropped" /\ stop_flag' = FALSE
      /\ permit' \in [Groups -> BOOLEAN]
  BY TaskTypes DEF stop_all, terminate
<1>3. task' \in [Tasks -> TaskRecord]
  BY <1>1, TaskTypes DEF Unpark, TaskRecord
<1>4. \A t \in Tasks :
        task'[t] = task[t] \/ (task[t].pc = "parked" /\ task'[t].pc = "check")
  BY <1>1, TaskTypes DEF Unpark, TaskRecord
<1>5. TasksTypeOK'
  <2>1. stop_flag' \in BOOLEAN /\ phase' \in {"stopped", "dropped"}
    BY <1>2
  <2> QED BY <1>2, <1>3, <2>1, TaskTypes DEF TasksTypeOK, TaskRecord
<1>6. StopInv'
  <2>1. \A t \in Tasks : task'[t].pc = "ended" => task[t].pc = "ended"
    BY <1>4
  <2>2. CASE stop_all
    <3>1. ~wal
      <4>1. wal => phase \in {"open", "dropped"}
        BY Zenon DEF TasksInv, StopInv
      <4> QED BY <1>2, <2>2, <4>1
    <3> QED BY Zenon, <1>2, <2>2, <3>1 DEF StopInv
  <2>3. CASE terminate
    <3>1. phase' = "dropped" /\ phase' # "stopped" /\ stop_flag' = FALSE
      BY <1>2, <2>3
    <3> QED BY Zenon, <1>2, <2>1, <3>1 DEF TasksInv, StopInv
  <2> QED BY <2>2, <2>3
<1>7. TrimInv'
  <2>1. task'[MemTask].pc = "trim" => task[MemTask].pc = "trim"
    BY <1>4, GroupFacts
  <2> QED BY Zenon, <1>2, <2>1 DEF TasksInv, TrimInv
<1>8. \A t \in Tasks : Alert(t) => Alert(t)'
  <2> SUFFICES ASSUME NEW t \in Tasks, Alert(t) PROVE Alert(t)'
    OBVIOUS
  <2>1. task[t].pc # "parked"
    BY DEF Alert
  <2>2. task'[t] = task[t]
    BY <1>4, <2>1
  <2> QED BY <2>2 DEF Alert, Ready
<1>9. MemtableInv' /\ LevelInv'
  <2>1. task[MemTask].pc \in {"trim", "flushed"} => task'[MemTask].pc = task[MemTask].pc
    BY <1>4, GroupFacts
  <2> QED BY Zenon, <1>2, <1>8, <2>1, GroupFacts DEF TasksInv, MemtableInv, LevelInv
<1> QED BY <1>5, <1>6, <1>7, <1>9 DEF TasksInv

\* Every step keeps the invariant.
LEMMA TasksStep ==
  ASSUME TasksInv, [Next]_taskVars
  PROVE  TasksInv'
<1>1. ASSUME NEW t \in Tasks, Check(t) PROVE TasksInv'
  BY <1>1, CheckStep
<1>2. ASSUME NEW t \in Tasks, NothingDone(t) PROVE TasksInv'
  <2>1. /\ task[t].pc = "nothing" /\ task' = Iterated(t, FALSE)
        /\ UNCHANGED <<permit, stop_flag, phase, wal, writer, imm, todo, writes>>
    BY <1>2 DEF NothingDone
  <2> QED BY <2>1, IterationEnds
<1>3. CASE AddTable \/ PopImm
  BY <1>3, FlushStep
<1>4. CASE WakeLevelTasks
  <2> DEFINE T == Iterated(MemTask, TRUE)
  <2>1. /\ task[MemTask].pc = "flushed" /\ wake_up(T, "level")
        /\ UNCHANGED <<stop_flag, phase, wal, writer, imm, todo, writes>>
    BY <1>4 DEF WakeLevelTasks
  <2>2. PICK r \in TaskRecord : T = [task EXCEPT ![MemTask] = r] /\ r.pc = "check"
                                /\ r.idle = FALSE
    <3> DEFINE q == [Now("check", ~TRUE) EXCEPT !.due = ~TRUE /\ task[MemTask].fresh]
    <3>1. MemTask \in Tasks /\ TRUE \in BOOLEAN /\ ~TRUE = FALSE
      BY GroupFacts
    <3>2. /\ T = [task EXCEPT ![MemTask] = q]
          /\ q \in TaskRecord /\ q.pc = "check" /\ q.idle = ~TRUE
      BY Zenon, <3>1, IteratedFacts
    <3> HIDE DEF q, T
    <3> QED BY Zenon, <3>1, <3>2
  <2> HIDE DEF T
  <2>3. /\ T \in [Tasks -> TaskRecord] /\ T[MemTask] = r
        /\ \A t \in LevelTasks : T[t] = task[t]
    BY <2>2, TaskTypes, GroupFacts
  <2>4. T[MemTask].pc = "check" /\ ~T[MemTask].idle
    BY Zenon, <2>2, <2>3
  <2>5. /\ writer' \in [Writers -> {"idle", "full", "pushed", "triggered"}]
        /\ writer' = writer
    BY <2>1, TaskTypes
  <2> QED BY <2>1, <2>3, <2>4, <2>5, WakeLevelStep
<1>5. ASSUME NoMemtable PROVE TasksInv'
  <2>1. /\ task[MemTask].pc = "run" /\ imm = 0
        /\ task' = [task EXCEPT ![MemTask].pc = "nothing"]
        /\ UNCHANGED <<permit, stop_flag, phase, wal, writer, imm, todo, writes>>
    BY <1>5 DEF NoMemtable
  <2>2. PICK r \in TaskRecord : task' = [task EXCEPT ![MemTask] = r] /\ r.pc = "nothing"
    BY <2>1, PcFacts, GroupFacts
  <2>3. todo' \in Nat /\ todo' <= todo /\ permit' \in [Groups -> BOOLEAN]
    BY <2>1, TaskTypes
  <2>4. MemTask \in Tasks /\ MemTask \notin LevelTasks /\ ~(imm > 0)
    BY <2>1, GroupFacts
  <2> QED BY Zenon, <2>1, <2>2, <2>3, <2>4, OwnStep
<1>6. ASSUME NEW t \in LevelTasks, StartCompaction(t) PROVE TasksInv'
  <2>1. /\ task[t].pc = "run" /\ todo > 0 /\ todo' = todo - 1 /\ t \in Tasks
        /\ task' = [task EXCEPT ![t].pc = "compact"] /\ t # MemTask
        /\ UNCHANGED <<permit, stop_flag, phase, wal, writer, imm, writes>>
    BY <1>6, GroupFacts DEF StartCompaction
  <2>2. PICK r \in TaskRecord : task' = [task EXCEPT ![t] = r] /\ r.pc = "compact"
    BY <2>1, PcFacts
  <2>3. todo' \in Nat /\ todo' <= todo /\ permit' \in [Groups -> BOOLEAN]
    BY <2>1, TaskTypes
  <2>4. Alert(t)'
    BY <2>1, <2>2, TaskTypes DEF Alert
  <2> QED BY <2>1, <2>2, <2>3, <2>4, OwnStep
<1>7. ASSUME NEW t \in LevelTasks, EndCompaction(t) \/ CompactionLocked(t)
      PROVE  TasksInv'
  <2>1. /\ task' = Iterated(t, TRUE) /\ t \in Tasks /\ t # MemTask
        /\ UNCHANGED <<permit, stop_flag, phase, wal, writer, imm, todo, writes>>
    BY <1>7, GroupFacts DEF EndCompaction, CompactionLocked
  <2> QED BY <2>1, IterationEnds
<1>8. ASSUME NEW t \in LevelTasks, NothingToCompact(t) PROVE TasksInv'
  <2>1. /\ task[t].pc = "run" /\ t \in Tasks /\ t # MemTask
        /\ todo = 0 \/ \E u \in LevelTasks : task[u].pc = "compact"
        /\ task' = [task EXCEPT ![t].pc = "nothing"]
        /\ UNCHANGED <<permit, stop_flag, phase, wal, writer, imm, todo, writes>>
    BY <1>8, GroupFacts DEF NothingToCompact
  <2>2. PICK r \in TaskRecord : task' = [task EXCEPT ![t] = r] /\ r.pc = "nothing"
    BY <2>1, PcFacts
  <2>3. todo' \in Nat /\ todo' <= todo /\ permit' \in [Groups -> BOOLEAN]
    BY <2>1, TaskTypes
  <2>4. todo' > 0 => \E u \in LevelTasks : Alert(u)'
    <3> SUFFICES ASSUME todo' > 0 PROVE \E u \in LevelTasks : Alert(u)'
      OBVIOUS
    <3>1. PICK u \in LevelTasks : task[u].pc = "compact"
      BY <2>1
    <3>2. u \in Tasks /\ u # t
      BY <2>1, <3>1, GroupFacts
    <3>3. task'[u] = task[u]
      BY <2>2, <3>2, TaskTypes
    <3> QED BY <3>1, <3>3 DEF Alert
  <2> QED BY <2>1, <2>2, <2>3, <2>4, OwnStep
<1>9. ASSUME NEW w \in Writers, WriteFull(w) \/ PushImm(w) \/ GetTriggers(w)
      PROVE  TasksInv'
  <2>1. CASE WriteFull(w)
    <3>1. /\ writer' = [writer EXCEPT ![w] = "full"] /\ writer[w] = "idle"
          /\ UNCHANGED <<task, permit, stop_flag, phase, wal, imm, todo>>
          /\ imm' >= imm /\ imm' \in 0 .. 1 /\ todo' \in Nat /\ writes' \in Nat
      BY <2>1, TaskTypes DEF WriteFull
    <3> QED BY <3>1, CallerStep
  <2>2. CASE PushImm(w)
    <3>1. /\ writer' = [writer EXCEPT ![w] = "pushed"] /\ writer[w] = "full"
          /\ UNCHANGED <<task, permit, stop_flag, phase, wal, todo>>
          /\ imm' >= imm /\ imm' \in 0 .. 1 /\ todo' \in Nat /\ writes' \in Nat
      BY <2>2, TaskTypes DEF PushImm
    <3> QED BY <3>1, CallerStep
  <2>3. CASE GetTriggers(w)
    <3>1. /\ writer' = [writer EXCEPT ![w] = "triggered"] /\ writer[w] = "idle"
          /\ UNCHANGED <<task, permit, stop_flag, phase, wal, imm>>
          /\ imm' >= imm /\ imm' \in 0 .. 1 /\ todo' \in Nat /\ writes' \in Nat
      BY <2>3, TaskTypes DEF GetTriggers
    <3> QED BY <3>1, CallerStep
  <2> QED BY <1>9, <2>1, <2>2, <2>3
<1>10. ASSUME NEW w \in Writers, WakeMemtableTask(w) PROVE TasksInv'
  BY <1>10, WakeMemtableStep
<1>11. ASSUME NEW w \in Writers, GetWakes(w) PROVE TasksInv'
  <2>1. /\ writer[w] = "triggered" /\ wake_up(task, "level")
        /\ writer' = [writer EXCEPT ![w] = "idle"]
        /\ UNCHANGED <<stop_flag, phase, wal, imm, todo, writes>>
    BY <1>11 DEF GetWakes
  <2>2. /\ writer' \in [Writers -> {"idle", "full", "pushed", "triggered"}]
        /\ \A v \in Writers : writer[v] = "pushed" => writer'[v] = "pushed"
    BY <2>1, TaskTypes
  <2> QED BY <2>1, <2>2, TaskTypes, WakeLevelStep
<1>12. CASE stop \/ stop_all \/ terminate
  BY <1>12, StopStep, UnparkStep
<1>13. CASE UNCHANGED taskVars
  <2>1. UNCHANGED <<task, permit, stop_flag, phase, wal, writer, imm, todo, writes>>
    BY Zenon, <1>13 DEF taskVars
  <2> QED BY Zenon, <2>1 DEF TasksInv, TasksTypeOK, StopInv, TrimInv, MemtableInv, Ready,
                             LevelInv, Alert
<1> QED BY Zenon, <1>1, <1>2, <1>3, <1>4, <1>5, <1>6, <1>7, <1>8, <1>9, <1>10, <1>11,
           <1>12, <1>13 DEF Next, Work

-----------------------------------------------------------------------------
(* The theorems.                                                            *)

\* The invariant holds in every reachable state.
LEMMA TasksInvariant == Spec => []TasksInv
BY TasksInit, TasksStep, PTL DEF Spec

\* Every variable keeps its type, for any number of tasks and callers; in
\* particular there is never more than one immutable memtable, since write_opts
\* waits until there is none before it pushes its own.
THEOREM TasksTypeCorrect == Spec => []TasksTypeOK
<1>1. TasksInv => TasksTypeOK
  BY DEF TasksInv
<1> QED BY <1>1, TasksInvariant, PTL

\* No wake-up is lost: while there is an immutable memtable or a compaction is
\* needed, a task of the group is awake or about to be woken, however wake_up,
\* the check of last_change and the wait for a notification interleave.  With
\* no level task (compaction_concurrency = 0) there is none to be awake.
THEOREM NoWakeUpIsLost ==
  ASSUME LevelTasks # {}
  PROVE  Spec => []NoSleepingOverWork
<1>1. TasksInv => NoSleepingOverWork
  <2> SUFFICES ASSUME TasksInv, wal PROVE NoSleepingOverWork
    BY DEF NoSleepingOverWork
  <2>1. \A t : Alert(t) => task[t].pc # "parked"
    BY DEF Alert
  <2> QED BY Zenon, <2>1 DEF TasksInv, MemtableInv, LevelInv, NoSleepingOverWork
<1> QED BY <1>1, TasksInvariant, PTL
=============================================================================
