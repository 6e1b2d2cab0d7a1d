--------------------------- MODULE InboxItems_proofs ---------------------------
(***************************************************************************)
(* More proofs about InboxDispatch: the items of the inbox and their tasks. *)
(* Tasks move along the lifecycle graph, escalations excepted; while no     *)
(* escalation takes a done task back, no item is done without reason; and   *)
(* no two active rows are the same item. The lemmas Outside and StepKinds   *)
(* of InboxDispatch_proofs tell what the steps of the other processes leave *)
(* alone while the watcher holds what it read.                              *)
(***************************************************************************)
EXTENDS InboxDispatch_proofs

USE DEF TypeInv, TypeOK, WatchOK

-----------------------------------------------------------------------------
(* The invariant.                                                           *)

\* A row of the table is about a task.
RowsNamed == \A r \in Rows : rows[r].status # "absent" => rows[r].task \in TaskIds

\* What the watcher's open transaction has done: the recovery has escalated tasks,
\* no row has come or gone or changed its task, and a row it closed as done is one
\* whose task it has escalated.
TxnInv ==
    txn # None =>
        /\ \A t \in TaskIds :
             \/ txn.task[t].status = task[t].status
             \/ watch.job = "recover" /\ txn.task[t].status = "waiting_input"
        /\ \A r \in Rows :
             /\ txn.rows[r].task = rows[r].task
             /\ txn.rows[r].status = "absent" => rows[r].status = "absent"
             /\ txn.rows[r].status = "done" /\ rows[r].status # "done"
                  => txn.task[rows[r].task].status = "waiting_input"

\* The unique index holds in the table and in the transaction.
IndexInv == OneActiveRow /\ (txn # None => IndexHolds(txn.rows))

\* The task of row r is done.
TaskDone(r) == rows[r].status # "absent" /\ task[rows[r].task].status = "done"

\* What the watcher holds of the rows it read: their tasks, and for the zombie
\* job the rows that are done or judged so.
ReadInv ==
    /\ watch.job = "recover" => \A r \in watch.todo : snap[r].task = rows[r].task
    /\ watch.job = "zombies" =>
         \A r \in Rows : snap[r].status # "absent" =>
             /\ rows[r].status # "absent" /\ snap[r].task = rows[r].task
             /\ snap[r].status = "done" => rows[r].status = "done" \/ TaskDone(r)

\* A dispatcher works on a row of the table, and has found "done" only for a task
\* that is done.
Founded(d) ==
    IF d.pc = "idle"
    THEN d.final # "done"
    ELSE /\ d.row \in Rows /\ rows[d.row].status # "absent"
         /\ d.final = "done" => task[rows[d.row].task].status = "done"

DispatcherInv == \A s \in Slots : Founded(disp[s])

\* A status command that is to close the rows of a task as done has finished it.
CommandInv == \A t \in TaskIds : [task |-> t, op |-> "done"] \in cli => task[t].status = "done"

HeldInv == RowsNamed /\ TxnInv /\ ReadInv
EarnedInv == HeldInv /\ DispatcherInv /\ CommandInv

USE DEF HeldInv

-----------------------------------------------------------------------------
(* What every step keeps.                                                   *)

\* From the table as it is to the table rs: rows go on existing with their task,
\* and a new row is about a task.
Lasting(rs) ==
    \A r \in Rows : /\ rows[r].status # "absent" => /\ rs[r].status # "absent"
                                                   /\ rs[r].task = rows[r].task
                    /\ Added(rs, r) => rs[r].task \in TaskIds

LEMMA CalmLasts ==
    ASSUME NEW rs, Calm(rs)
    PROVE  Lasting(rs)
BY DEF Calm, Lasting

\* A task that is done stays done: no edge of the graph leaves it, and of all the
\* steps only an escalation that looked at the task before it was done takes it back.
TasksStayDone == \A t \in TaskIds : task[t].status = "done" => task'[t].status = "done"

LEMMA GraphStays ==
    ASSUME TypeInv, OnGraph
    PROVE  TasksStayDone
BY LegalMoves DEF OnGraph, TasksStayDone

\* A row the job is at, or any row for a batch that leaves: what the three ways to
\* go on do with the tables.
LEMMA BatchTables ==
    ASSUME TypeInv, NEW r \in Rows, NEW ts, NEW new,
           Requeue(r, new, ts) \/ Skip(r) \/ Write(r, [CurRows EXCEPT ![r] = new], ts)
    PROVE  UNCHANGED <<rows, task, disp, cli>>
BY DEF Requeue, Skip, Write, Abort

\* The steps of a batch job at a row.
BatchStep(r) ==
    \/ RetryRow(r) \/ ReassignRow(r) \/ RecoverBlocked(r)
    \/ RecoverFinished(r) \/ RecoverReroute(r) \/ RecoverEscalate(r)

LEMMA BatchKinds ==
    ASSUME NEW r \in Rows, BatchStep(r)
    PROVE  /\ watch.job \in Batch /\ r \in watch.todo
           /\ UNCHANGED <<rows, task, disp, cli>>
BY DEF BatchStep, RetryRow, ReassignRow, RecoverBlocked, RecoverFinished, RecoverReroute,
       RecoverEscalate, Recoverable, AtRow, Batch, Requeue, Skip, Write, Abort

\* What a step of the watcher does to the tables.
LEMMA WatcherTables ==
    ASSUME TypeInv, BatchInv, TxnInv, WatcherStep
    PROVE  MovesLegally /\ Lasting(rows')
<1>0. Lasting(rows)
  BY DEF Lasting, Added
<1>look. ASSUME NEW r \in Rows, Look(r) PROVE MovesLegally /\ Lasting(rows')
  BY <1>0, <1>look DEF Look, MovesLegally
<1>1. ASSUME NEW r \in Rows, BatchStep(r) PROVE MovesLegally /\ Lasting(rows')
  BY <1>0, <1>1, BatchKinds DEF MovesLegally
<1>2. ASSUME Commit PROVE MovesLegally /\ Lasting(rows')
  <2>1. rows' = CurRows /\ task' = CurTask
    BY <1>2 DEF Commit
  <2>2. CASE txn = None
    BY <1>0, <2>1, <2>2 DEF CurRows, CurTask, MovesLegally
  <2>3. CASE txn # None
    <3>1. MovesLegally
      BY <2>1, <2>3 DEF CurTask, TxnInv, MovesLegally
    <3>2. Lasting(rows')
      BY <2>1, <2>3 DEF CurRows, TxnInv, BatchInv, Lasting, Added
    <3> QED BY <3>1, <3>2
  <2> QED BY <2>2, <2>3
<1>3. ASSUME NEW old \in SUBSET Rows, ZombieJudge(old) PROVE MovesLegally /\ Lasting(rows')
  <2>1. PICK P : rows' = Buried(rows, P)
    BY <1>3 DEF ZombieJudge
  <2> QED BY <1>3, <2>1, CalmRows, CalmBuried, CalmLasts DEF ZombieJudge, MovesLegally
<1>4. ASSUME ZombieWrite PROVE MovesLegally /\ Lasting(rows')
  <2>1. ASSUME NEW r \in Rows, snap[r].status # "absent"
        PROVE  LET new == Moved(rows[r], "launched", snap[r].status, "none")
               IN  /\ new.task = rows[r].task
                   /\ new.status = "absent" <=> rows[r].status = "absent"
    <3>1. CASE rows[r].status = "launched"
      BY <2>1, <3>1, CalmMoved
    <3>2. CASE rows[r].status # "launched"
      BY <2>1, <3>2, CalmMoved
    <3> QED BY <3>1, <3>2
  <2>2. ASSUME NEW r \in Rows
        PROVE  /\ rows'[r].task = rows[r].task
               /\ rows'[r].status = "absent" <=> rows[r].status = "absent"
    BY <1>4, <2>1 DEF ZombieWrite
  <2> QED BY <1>4, <2>2 DEF ZombieWrite, MovesLegally, Lasting, Added
<1>5. ASSUME PausedWrite PROVE MovesLegally /\ Lasting(rows')
  <2>1. ASSUME NEW r \in Rows
        PROVE  LET new == Moved(rows[r], "paused", "failed", "none")
               IN  /\ new.task = rows[r].task
                   /\ new.status = "absent" <=> rows[r].status = "absent"
    <3>1. CASE rows[r].status = "paused"
      BY <3>1, CalmMoved
    <3>2. CASE rows[r].status # "paused"
      BY <3>2, CalmMoved
    <3> QED BY <3>1, <3>2
  <2>2. ASSUME NEW r \in Rows
        PROVE  /\ rows'[r].task = rows[r].task
               /\ rows'[r].status = "absent" <=> rows[r].status = "absent"
    BY <1>5, <2>1 DEF PausedWrite
  <2> QED BY <1>5, <2>2 DEF PausedWrite, MovesLegally, Lasting, Added
<1>6. ASSUME EnqueueWrite PROVE MovesLegally /\ Lasting(rows')
  <2>1. watch.task \in TaskIds /\ task[watch.task].owner \in Agents
    BY <1>6 DEF EnqueueWrite, TaskRec
  <2> QED BY <1>0, <1>6, <2>1, CalmInsert, CalmLasts DEF EnqueueWrite, MovesLegally
<1> QED BY <1>look, <1>1, <1>2, <1>3, <1>4, <1>5, <1>6 DEF WatcherStep, BatchStep

\* Every step.
LEMMA StepTables ==
    ASSUME TypeInv, BatchInv, TxnInv, [Next]_vars
    PROVE  MovesLegally /\ Lasting(rows')
<1>0. Lasting(rows)
  BY DEF Lasting, Added
<1>1. CASE Outside
  BY <1>1, CalmLasts DEF Outside, OnGraph, MovesLegally
<1>2. ASSUME NEW j \in Jobs, Begin(j) PROVE MovesLegally /\ Lasting(rows')
  BY <1>0, <1>2 DEF Begin, MovesLegally
<1>3. ASSUME NEW t \in TaskIds, EnqueueBegin(t) PROVE MovesLegally /\ Lasting(rows')
  BY <1>0, <1>3 DEF EnqueueBegin, MovesLegally
<1>4. CASE WatcherStep
  BY <1>4, WatcherTables
<1> QED BY <1>1, <1>2, <1>3, <1>4, StepKinds

LEMMA NamedNext ==
    ASSUME TypeInv, RowsNamed, Lasting(rows')
    PROVE  RowsNamed'
BY DEF RowsNamed, Lasting, Added

-----------------------------------------------------------------------------
(* The watcher's open transaction.                                          *)

\* From the tasks the transaction holds to ts: the recovery may escalate tasks.
Escalates(ts) ==
    \A t \in TaskIds :
        \/ ts[t].status = CurTask[t].status
        \/ watch.job = "recover" /\ ts[t].status = "waiting_input"

LEMMA EscalatedEscalates ==
    ASSUME TypeInv, watch.job = "recover", NEW t
    PROVE  Escalates(Escalated(t))
<1>1. CASE Seen(t).status \in {"in_progress", "todo"}
  <2>1. Escalated(t) = [CurTask EXCEPT ![t].status = "waiting_input"]
    BY <1>1 DEF Escalated
  <2>2. ASSUME NEW x \in TaskIds, x # t PROVE Escalated(t)[x] = CurTask[x]
    BY <2>1, <2>2, CurTyped
  <2>3. t \in TaskIds => Escalated(t)[t].status = "waiting_input"
    BY <2>1, CurTyped DEF TaskRec
  <2> QED BY <1>1, <2>2, <2>3 DEF Escalates
<1>2. CASE Seen(t).status \notin {"in_progress", "todo"}
  BY <1>2 DEF Escalated, Escalates
<1> QED BY <1>1, <1>2

LEMMA CurTaskEscalates == Escalates(CurTask)
BY DEF Escalates

\* What a batch job at row r puts in its transaction.
LEMMA TxnRow ==
    ASSUME TypeInv, BatchInv, RowsNamed, TxnInv, NEW r \in Rows, r \in watch.todo,
           watch.job \in Batch, NEW ts, NEW new, Escalates(ts),
           new.task = CurRows[r].task, new.status # "absent",
           new.status = "done" => ts[rows[r].task].status = "waiting_input",
           Requeue(r, new, ts) \/ Skip(r) \/ Write(r, [CurRows EXCEPT ![r] = new], ts)
    PROVE  TxnInv'
<1>1. CASE Skip(r)
  BY <1>1 DEF Skip, TxnInv
<1>2. CASE Abort
  BY <1>2 DEF Abort, TxnInv
<1>3. CASE Write(r, [CurRows EXCEPT ![r] = new], ts)
  <2> DEFINE rs == [CurRows EXCEPT ![r] = new]
  <2>1. /\ rs[r] = new
        /\ \A q \in Rows : q # r => rs[q] = CurRows[q]
    BY CurTyped
  <2>2. /\ txn' = [rows |-> rs, task |-> ts] /\ rows' = rows /\ task' = task
        /\ watch'.job = watch.job
    BY <1>3 DEF Write
  <2> HIDE DEF rs
  <2>3. txn'.rows = rs /\ txn'.task = ts
    BY <2>2
  <2>4. ASSUME NEW t \in TaskIds
        PROVE  \/ ts[t].status = task[t].status
               \/ watch.job = "recover" /\ ts[t].status = "waiting_input"
    BY DEF Escalates, CurTask, TxnInv
  <2>5. ASSUME NEW q \in Rows
        PROVE  /\ rs[q].task = rows[q].task
               /\ rs[q].status = "absent" => rows[q].status = "absent"
    BY <2>1 DEF CurRows, TxnInv
  <2>6. ASSUME NEW q \in Rows, rs[q].status = "done", rows[q].status # "done"
        PROVE  ts[rows[q].task].status = "waiting_input"
    <3>1. CASE q = r
      BY <2>1, <2>6, <3>1
    <3>2. CASE q # r
      <4>1. txn # None /\ txn.rows[q].status = "done"
        BY <2>1, <2>6, <3>2 DEF CurRows
      <4>2. txn.task[rows[q].task].status = "waiting_input"
        BY <2>6, <4>1 DEF TxnInv
      <4>3. rows[q].status = "failed"
        BY <2>6, <4>1 DEF BatchInv
      <4>4. rows[q].task \in TaskIds
        BY <4>3 DEF RowsNamed
      <4> QED BY <4>1, <4>2, <4>4 DEF Escalates, CurTask
    <3> QED BY <3>1, <3>2
  <2> QED BY <2>2, <2>3, <2>4, <2>5, <2>6 DEF TxnInv
<1> QED BY <1>1, <1>2, <1>3 DEF Requeue

LEMMA TxnBatch ==
    ASSUME TypeInv, BatchInv, RowsNamed, TxnInv, ReadInv, NEW r \in Rows, BatchStep(r)
    PROVE  TxnInv'
<1>0. /\ watch.job \in Batch /\ r \in watch.todo
      /\ CurRows \in [Rows -> Row] /\ CurRows[r] \in Row
  BY BatchKinds, CurTyped
<1>1. CASE RetryRow(r)
  <2>1. PICK n, why : Requeue(r, Retried(CurRows[r], n, why), CurTask)
    BY <1>1 DEF RetryRow
  <2>2. /\ Retried(CurRows[r], n, why).task = CurRows[r].task
        /\ Retried(CurRows[r], n, why).status = "pending"
    BY <1>0 DEF Retried, Row
  <2> QED BY <1>0, <2>1, <2>2, CurTaskEscalates, TxnRow
<1>2. CASE ReassignRow(r)
  <2> DEFINE new == Reassigned(CurRows[r], FallbackOwner, FallbackMaxRetries)
             ts == [CurTask EXCEPT ![snap[r].task].owner = FallbackOwner]
  <2>1. Skip(r) \/ Requeue(r, new, ts)
    BY <1>2 DEF ReassignRow
  <2>2. new.task = CurRows[r].task /\ new.status = "pending"
    BY <1>0 DEF Reassigned, Row
  <2>3. Escalates(ts)
    <3>1. \A t \in TaskIds : ts[t].status = CurTask[t].status
      BY CurTyped DEF TaskRec
    <3> QED BY <3>1 DEF Escalates
  <2> HIDE DEF new, ts
  <2> QED BY <1>0, <2>1, <2>2, <2>3, TxnRow
<1>3. CASE RecoverBlocked(r)
  <2>1. CASE Skip(r)
    BY <2>1 DEF Skip, TxnInv
  <2>2. CASE /\ Seen(snap[r].task).status \in {"in_progress", "todo"}
             /\ Write(r, [CurRows EXCEPT ![r] = MarkedDone(CurRows[r])], Escalated(snap[r].task))
    <3>1. MarkedDone(CurRows[r]).task = CurRows[r].task /\ MarkedDone(CurRows[r]).status = "done"
      BY <1>0 DEF MarkedDone, Row
    <3>2. snap[r].task = rows[r].task
      BY <1>0, <1>3 DEF RecoverBlocked, AtRow, ReadInv
    <3>3. rows[r].task \in TaskIds
      <4>1. CurRows[r].status = "failed"
        BY <1>0 DEF BatchInv
      <4>2. rows[r].status # "absent"
        BY <4>1 DEF CurRows, BatchInv
      <4> QED BY <4>2 DEF RowsNamed
    <3>4. Escalated(snap[r].task)[rows[r].task].status = "waiting_input"
      BY <2>2, <3>2, <3>3, CurTyped DEF Escalated, TaskRec
    <3>5. watch.job = "recover"
      BY <1>3 DEF RecoverBlocked, AtRow
    <3> QED BY <1>0, <2>2, <3>1, <3>4, <3>5, EscalatedEscalates, TxnRow
  <2> QED BY <1>3, <2>1, <2>2 DEF RecoverBlocked
<1>4. CASE RecoverFinished(r)
  BY <1>4 DEF RecoverFinished, Skip, TxnInv
<1>5. CASE RecoverReroute(r)
  <2>1. PICK a : Requeue(r, Recovered(CurRows[r], a, snap[r].recovery + 1), CurTask)
    BY <1>5 DEF RecoverReroute
  <2>2. /\ Recovered(CurRows[r], a, snap[r].recovery + 1).task = CurRows[r].task
        /\ Recovered(CurRows[r], a, snap[r].recovery + 1).status = "pending"
    BY <1>0 DEF Recovered, Row
  <2> QED BY <1>0, <2>1, <2>2, CurTaskEscalates, TxnRow
<1>6. CASE RecoverEscalate(r)
  <2>1. MarkedFailed(CurRows[r]).task = CurRows[r].task /\ MarkedFailed(CurRows[r]).status = "failed"
    BY <1>0 DEF MarkedFailed, Row
  <2>2. watch.job = "recover"
    BY <1>6 DEF RecoverEscalate, Recoverable, AtRow
  <2> QED BY <1>0, <1>6, <2>1, <2>2, EscalatedEscalates, TxnRow DEF RecoverEscalate
<1> QED BY <1>1, <1>2, <1>3, <1>4, <1>5, <1>6 DEF BatchStep

LEMMA TxnNext ==
    ASSUME TypeInv, BatchInv, RowsNamed, TxnInv, ReadInv, [Next]_vars
    PROVE  TxnInv'
<1>1. CASE Outside
  <2>1. CASE txn = None
    BY <1>1, <2>1 DEF Outside, TxnInv
  <2>2. CASE txn # None
    BY <1>1, <2>2 DEF Outside, Alike, TxnInv
  <2> QED BY <2>1, <2>2
<1>2. ASSUME \/ \E j \in Jobs : Begin(j)
             \/ \E t \in TaskIds : EnqueueBegin(t)
      PROVE  TxnInv'
  <2>1. watch.job \notin Batch /\ txn' = txn
    <3>1. watch = NoJob /\ txn' = txn
      BY <1>2 DEF Begin, EnqueueBegin
    <3> QED BY <3>1 DEF NoJob, Batch
  <2>2. txn' = None
    BY <2>1 DEF BatchInv
  <2> QED BY <2>2 DEF TxnInv
<1>look. ASSUME NEW r \in Rows, Look(r) PROVE TxnInv'
  BY <1>look DEF Look, Looked, TxnInv
<1>4. ASSUME NEW r \in Rows, BatchStep(r) PROVE TxnInv'
  BY <1>4, TxnBatch
<1>5. CASE Commit
  BY <1>5 DEF Commit, TxnInv
<1>6. ASSUME \/ \E old \in SUBSET Rows : ZombieJudge(old)
             \/ ZombieWrite \/ PausedWrite \/ EnqueueWrite
      PROVE  TxnInv'
  <2>1. watch.job \notin Batch /\ txn' = txn
    BY <1>6 DEF ZombieJudge, ZombieWrite, PausedWrite, EnqueueWrite, Batch
  <2>2. txn' = None
    BY <2>1 DEF BatchInv
  <2> QED BY <2>2 DEF TxnInv
<1> QED BY <1>1, <1>2, <1>look, <1>4, <1>5, <1>6, StepKinds DEF WatcherStep, BatchStep

-----------------------------------------------------------------------------
(* What the watcher read.                                                   *)

LEMMA TaskDoneStays ==
    ASSUME TypeInv, RowsNamed, TasksStayDone, Lasting(rows'), NEW r \in Rows, TaskDone(r)
    PROVE  TaskDone(r)'
<1>1. rows[r].status # "absent" /\ rows[r].task \in TaskIds
  BY DEF TaskDone, RowsNamed
<1>2. rows'[r].status # "absent" /\ rows'[r].task = rows[r].task
  BY <1>1 DEF Lasting
<1> QED BY <1>1, <1>2 DEF TaskDone, TasksStayDone

LEMMA ReadOutside ==
    ASSUME TypeInv, BatchInv, RowsNamed, ReadInv, Outside
    PROVE  ReadInv'
<1>0. TasksStayDone /\ Lasting(rows') /\ watch' = watch
  BY CalmLasts, GraphStays DEF Outside
<1>1. ASSUME watch.job = "recover", NEW r \in watch.todo
      PROVE  snap'[r].task = rows'[r].task
  <2>1. r \in Rows /\ rows[r].status = "failed"
    BY <1>1 DEF BatchInv, Batch, CurRows
  <2>2. rows'[r].task = rows[r].task /\ snap'[r].task = snap[r].task
    BY <2>1 DEF Outside, Calm, Alike
  <2> QED BY <1>1, <2>2 DEF ReadInv
<1>2. ASSUME watch.job = "zombies", NEW r \in Rows, snap'[r].status # "absent"
      PROVE  /\ rows'[r].status # "absent" /\ snap'[r].task = rows'[r].task
             /\ snap'[r].status = "done" => rows'[r].status = "done" \/ TaskDone(r)'
  <2>1. snap'[r].status = snap[r].status /\ snap'[r].task = snap[r].task
    BY DEF Outside, Alike
  <2>2. /\ rows[r].status # "absent" /\ snap[r].task = rows[r].task
        /\ snap[r].status = "done" => rows[r].status = "done" \/ TaskDone(r)
    BY <1>2, <2>1 DEF ReadInv
  <2>3. rows'[r].status # "absent" /\ rows'[r].task = rows[r].task
    BY <1>0, <2>2 DEF Lasting
  <2>4. rows[r].status = "done" => rows'[r].status = "done"
    BY DEF Outside, Calm
  <2>5. TaskDone(r) => TaskDone(r)'
    BY <1>0, TaskDoneStays
  <2> QED BY <2>1, <2>2, <2>3, <2>4, <2>5
<1> QED BY <1>0, <1>1, <1>2 DEF ReadInv

LEMMA ReadBegin ==
    ASSUME TypeInv, ReadInv, NEW j \in Jobs, Begin(j)
    PROVE  ReadInv'
<1>1. /\ watch'.job = j /\ watch'.todo = Selected(j) /\ rows' = rows /\ task' = task
      /\ \A r \in Rows : snap'[r] = IF r \in Selected(j) THEN ReadBy(j, rows[r]) ELSE AbsentRow
  BY DEF Begin
<1>2. ASSUME j = "recover", NEW r \in Selected(j) PROVE snap'[r].task = rows'[r].task
  <2>1. r \in Rows
    BY DEF Selected
  <2>2. snap'[r] = ReadBy(j, rows[r])
    BY <1>1, <2>1
  <2>3. ReadBy(j, rows[r]).task = rows[r].task
    BY <1>2 DEF ReadBy, AbsentRow
  <2> QED BY <1>1, <2>2, <2>3
<1>3. ASSUME j = "zombies", NEW r \in Rows, snap'[r].status # "absent"
      PROVE  /\ rows'[r].status # "absent" /\ snap'[r].task = rows'[r].task
             /\ snap'[r].status = "done" => rows'[r].status = "done"
  <2>1. r \in Selected(j)
    BY <1>1, <1>3 DEF AbsentRow
  <2>2. rows[r].status # "absent"
    BY <1>3, <2>1 DEF Selected
  <2>3. ReadBy(j, rows[r]).task = rows[r].task /\ ReadBy(j, rows[r]).status = rows[r].status
    BY <1>3 DEF ReadBy, AbsentRow
  <2> QED BY <1>1, <2>1, <2>2, <2>3
<1> QED BY <1>1, <1>2, <1>3 DEF ReadInv

LEMMA ReadEnd ==
    ASSUME EndJob
    PROVE  ReadInv'
BY DEF EndJob, NoJob, ReadInv

LEMMA ReadBatch ==
    ASSUME TypeInv, BatchInv, ReadInv, NEW r \in Rows, BatchStep(r)
    PROVE  ReadInv'
<1>0. /\ watch.job \in Batch /\ "zombies" \notin Batch
      /\ rows' = rows /\ task' = task
  BY BatchKinds DEF Batch
<1>1. \/ watch'.job = watch.job /\ watch'.todo \subseteq watch.todo /\ snap' = snap
      \/ EndJob
  BY DEF BatchStep, RetryRow, ReassignRow, RecoverBlocked, RecoverFinished, RecoverReroute,
         RecoverEscalate, Requeue, Skip, Write, Abort
<1> QED BY <1>0, <1>1, ReadEnd DEF ReadInv

\* The verdict on a row is "done" only if its task is done or the row was.
LEMMA ReadJudged ==
    ASSUME TypeInv, BatchInv, RowsNamed, ReadInv, NEW old \in SUBSET Rows, ZombieJudge(old)
    PROVE  ReadInv'
<1>0. /\ watch.job = "zombies" /\ task' = task
      /\ \A r \in Rows : rows'[r].status = rows[r].status /\ rows'[r].task = rows[r].task
  <2>1. PICK P : rows' = Buried(rows, P)
    BY DEF ZombieJudge
  <2>2. \A r \in Rows : rows'[r].status = rows[r].status /\ rows'[r].task = rows[r].task
    BY <2>1, BuriedRows
  <2> QED BY <2>2 DEF ZombieJudge
<1>1. CASE EndJob
  BY <1>1, ReadEnd
<1>2. CASE /\ watch' = [watch EXCEPT !.todo = {}]
           /\ snap' = [r \in Rows |-> [snap[r] EXCEPT !.status = Verdict(r, old), !.pid = None]]
  <2>1. watch'.job = "zombies"
    BY <1>0, <1>2
  <2>2. ASSUME NEW r \in Rows, snap'[r].status # "absent"
        PROVE  /\ rows'[r].status # "absent" /\ snap'[r].task = rows'[r].task
               /\ snap'[r].status = "done" => rows'[r].status = "done" \/ TaskDone(r)'
    <3>1. snap'[r].status = Verdict(r, old) /\ snap'[r].task = snap[r].task
      <4>1. \A to : \A row \in Row : LET new == [row EXCEPT !.status = to, !.pid = None]
                                IN  new.status = to /\ new.task = row.task
        BY DEF Row
      <4>2. snap'[r] = [snap[r] EXCEPT !.status = Verdict(r, old), !.pid = None]
        BY <1>2
      <4> HIDE DEF Verdict
      <4> QED BY <4>1, <4>2
    <3>2. snap[r].status # "absent"
      BY <2>2, <3>1 DEF Verdict
    <3>3. /\ rows[r].status # "absent" /\ snap[r].task = rows[r].task
          /\ snap[r].status = "done" => rows[r].status = "done" \/ TaskDone(r)
      BY <1>0, <3>2 DEF ReadInv
    <3>4. Verdict(r, old) = "done" => snap[r].status = "done" \/ task[snap[r].task].status = "done"
      BY DEF Verdict
    <3>5. TaskDone(r)' <=> TaskDone(r)
      BY <1>0 DEF TaskDone
    <3>6. Verdict(r, old) = "done" => rows[r].status = "done" \/ TaskDone(r)
      BY <3>3, <3>4 DEF TaskDone
    <3> QED BY <1>0, <3>1, <3>3, <3>5, <3>6
  <2> QED BY <2>1, <2>2 DEF ReadInv
<1> QED BY <1>1, <1>2 DEF ZombieJudge

LEMMA ReadNext ==
    ASSUME TypeInv, BatchInv, RowsNamed, ReadInv, [Next]_vars
    PROVE  ReadInv'
<1>1. ASSUME NEW t \in TaskIds, EnqueueBegin(t) PROVE ReadInv'
  BY <1>1 DEF EnqueueBegin, NoJob, ReadInv
<1>look. ASSUME NEW r \in Rows, Look(r) PROVE ReadInv'
  <2>1. /\ watch.job # "zombies" /\ watch'.job = watch.job /\ watch'.todo = watch.todo
        /\ UNCHANGED <<rows, snap>>
    BY <1>look DEF Look, AtRow
  <2> QED BY <2>1 DEF ReadInv
<1>2. ASSUME Commit \/ ZombieWrite \/ PausedWrite \/ EnqueueWrite PROVE ReadInv'
  BY <1>2, ReadEnd DEF Commit, ZombieWrite, PausedWrite, EnqueueWrite
<1> QED BY <1>1, <1>look, <1>2, StepKinds, ReadOutside, ReadBegin, ReadBatch, ReadJudged
        DEF WatcherStep, BatchStep

-----------------------------------------------------------------------------
(* Dispatchers, and the rows they and the others make done.                 *)

\* A row that is done in the table rs was done, or its task is.
Sound(rs) == \A r \in Rows : rs[r].status = "done" => rows[r].status = "done" \/ TaskDone(r)

\* What a step of another process than the watcher makes of rows and dispatchers.
SoundStep == Sound(rows') /\ \A s \in Slots : Founded(disp'[s])

LEMMA SoundRows == Sound(rows)
BY DEF Sound

LEMMA SoundBuried ==
    ASSUME NEW rs \in [Rows -> Row], NEW P, Sound(rs)
    PROVE  Sound(Buried(rs, P))
BY BuriedRows DEF Sound

LEMMA SoundColumns ==
    ASSUME TypeInv, NEW r, NEW v
    PROVE  /\ Sound([rows EXCEPT ![r].pid = v])
           /\ Sound([rows EXCEPT ![r].retry = v])
           /\ Sound([rows EXCEPT ![r].reason = v])
BY DEF Sound, Row

LEMMA SoundMove ==
    ASSUME TypeInv, NEW r, NEW from, NEW to, NEW why,
           to = "done" /\ r \in Rows => TaskDone(r)
    PROVE  Sound([rows EXCEPT ![r] = Moved(rows[r], from, to, why)])
<1> DEFINE rs == [rows EXCEPT ![r] = Moved(rows[r], from, to, why)]
<1>1. \A q \in Rows : q # r => rs[q] = rows[q]
  OBVIOUS
<1>2. r \in Rows => rs[r].status \in {rows[r].status, to}
  BY CalmMoved
<1> HIDE DEF rs
<1>3. Sound(rs)
  BY <1>1, <1>2 DEF Sound
<1> QED BY <1>3 DEF rs

LEMMA SoundInsert ==
    ASSUME TypeInv, NEW t, NEW a, Insert(t, a)
    PROVE  Sound(rows')
<1>1. ASSUME NEW r \in Rows, rows' = [rows EXCEPT ![r] = Enqueued(t, a)] PROVE Sound(rows')
  <2>1. rows'[r].status = "pending"
    BY <1>1 DEF Enqueued
  <2> QED BY <1>1, <2>1 DEF Sound
<1> QED BY <1>1, SoundRows DEF Insert

\* A dispatcher that goes on with its row and what it has found.
LEMMA FoundedOn ==
    ASSUME TypeInv, DispatcherInv, NEW s \in Slots, disp[s].pc # "idle"
    PROVE  /\ \A pc \in PCs \ {"idle"} :
                 /\ Founded([disp[s] EXCEPT !.pc = pc])
                 /\ \A rc : Founded([disp[s] EXCEPT !.pc = pc, !.rc = rc])
           /\ RowOf(s) \in Rows /\ rows[RowOf(s)].status # "absent"
           /\ disp[s].final = "done" => TaskDone(RowOf(s))
BY DEF DispatcherInv, Founded, Disp, RowOf, TaskDone

\* The step changes the state of dispatcher s only.
LEMMA FoundedOne ==
    ASSUME TypeInv, DispatcherInv, NEW s \in Slots, NEW d, Founded(d),
           disp' = [disp EXCEPT ![s] = d]
    PROVE  \A x \in Slots : Founded(disp'[x])
BY DEF DispatcherInv

LEMMA FoundedSame ==
    ASSUME DispatcherInv, UNCHANGED disp
    PROVE  \A x \in Slots : Founded(disp'[x])
BY DEF DispatcherInv

LEMMA IdleFounded == Founded(Idle)
BY DEF Founded, Idle

LEMMA SoundLeave ==
    ASSUME TypeInv, DispatcherInv, NEW s \in Slots, NEW rs \in [Rows -> Row], Sound(rs),
           Leave(s, rs)
    PROVE  SoundStep
BY IdleFounded, SoundBuried, FoundedOne DEF Leave, SoundStep

LEMMA SoundDispatcher ==
    ASSUME TypeInv, RowsNamed, DispatcherInv, NEW s \in Slots
    PROVE  /\ \A a \in Agents : Claim(s, a) => SoundStep
           /\ DispatcherStep(s) => SoundStep
<1>pc. {"resolve", "spawn", "record", "wait", "mark", "reason", "mirror",
        "bump", "unclaim", "reconcile", "settle", "crashed"} \subseteq PCs \ {"idle"}
  BY DEF PCs
<1>on. ASSUME NEW pc \in {"resolve", "spawn", "record", "wait", "mark", "reason", "mirror",
                          "bump", "unclaim", "reconcile", "settle", "crashed"},
              NEW rc, disp[s].pc # "idle",
              \/ disp' = [disp EXCEPT ![s].pc = pc]
              \/ disp' = [disp EXCEPT ![s].pc = pc, ![s].rc = rc]
       PROVE  \A x \in Slots : Founded(disp'[x])
  <2> DEFINE d == IF disp' = [disp EXCEPT ![s].pc = pc]
                  THEN [disp[s] EXCEPT !.pc = pc]
                  ELSE [disp[s] EXCEPT !.pc = pc, !.rc = rc]
  <2>1. disp' = [disp EXCEPT ![s] = d]
    BY <1>on
  <2>2. Founded(d)
    BY <1>pc, <1>on, FoundedOn
  <2> HIDE DEF d
  <2> QED BY <2>1, <2>2, FoundedOne
<1>b. /\ {"pending", "launched", "running", "paused", "failed", "done"} \subseteq RowStatuses
      /\ {"none", "blocked", "other"} \subseteq Reasons
      /\ None \in Pids
      /\ \A rc : ReasonOf(rc) \in Reasons
      /\ disp[s].final \in RowStatuses
  BY DEF RowStatuses, Reasons, Pids, ReasonOf, Disp
<1>1. ASSUME NEW a \in Agents, Claim(s, a) PROVE SoundStep
  <2>1. PICK r \in Rows :
          /\ NextPending(rows, a, r)
          /\ rows' = [rows EXCEPT ![r] = Claimed(rows[r], DispatcherPid(s))]
          /\ disp' = [disp EXCEPT ![s] = [Idle EXCEPT !.pc = "resolve", !.row = r, !.max = rows[r].max]]
    BY <1>1 DEF Claim
  <2>2. /\ rows[r].status = "pending" /\ rows'[r].status = "launched"
        /\ \A q \in Rows : q # r => rows'[q] = rows[q]
    BY <2>1 DEF NextPending, Claimed, Row
  <2>3. Sound(rows')
    BY <2>2 DEF Sound
  <2>4. Founded([Idle EXCEPT !.pc = "resolve", !.row = r, !.max = rows[r].max])
    BY <2>2 DEF Founded, Idle
  <2> QED BY <2>1, <2>3, <2>4, FoundedOne DEF SoundStep
<1>2. ASSUME ResolveOk(s) PROVE SoundStep
  BY <1>2, <1>on, SoundRows DEF ResolveOk, SoundStep
<1>3. ASSUME ResolveDirty(s) PROVE SoundStep
  <2> DEFINE rs == [rows EXCEPT ![RowOf(s)] = Moved(rows[RowOf(s)], "pending", "paused", "none")]
  <2>1. rs \in [Rows -> Row]
    BY <1>b, RowWrites
  <2>2. Leave(s, rs) /\ Sound(rs)
    BY <1>3, SoundMove DEF ResolveDirty
  <2> HIDE DEF rs
  <2> QED BY <2>1, <2>2, SoundLeave
<1>4. ASSUME ResolveIsolation(s) PROVE SoundStep
  BY <1>4, <1>on, SoundRows DEF ResolveIsolation, SoundStep
<1>5. ASSUME Spawn(s) PROVE SoundStep
  BY <1>5, <1>on, SoundRows DEF Spawn, SoundStep
<1>6. ASSUME RecordPid(s) PROVE SoundStep
  BY <1>6, <1>on, SoundColumns DEF RecordPid, SoundStep
<1>7. ASSUME ClearPid(s) PROVE SoundStep
  <2>1. \A x \in Slots : Founded(disp'[x])
    <3>1. CASE kid[s] = "ok"
      <4> disp' = [disp EXCEPT ![s].pc = "reconcile", ![s].rc = kid[s]] /\ disp[s].pc # "idle"
        BY <1>7, <3>1 DEF ClearPid
      <4> QED BY <1>on
    <3>2. CASE kid[s] # "ok"
      <4> disp' = [disp EXCEPT ![s].pc = "mark", ![s].rc = kid[s]] /\ disp[s].pc # "idle"
        BY <1>7, <3>2 DEF ClearPid
      <4> QED BY <1>on
    <3> QED BY <3>1, <3>2
  <2> QED BY <1>7, <2>1, SoundColumns DEF ClearPid, SoundStep
<1>8. ASSUME MarkFailed(s) PROVE SoundStep
  <2>1. disp[s].pc # "idle" /\ \E pc \in {"reason", "mirror"} : disp' = [disp EXCEPT ![s].pc = pc]
    BY <1>8 DEF MarkFailed
  <2>2. \A x \in Slots : Founded(disp'[x])
    BY <2>1, <1>on
  <2>3. Sound(rows')
    BY <1>8, SoundMove DEF MarkFailed
  <2> QED BY <2>2, <2>3 DEF SoundStep
<1>9. ASSUME SetReason(s) PROVE SoundStep
  BY <1>9, <1>on, SoundColumns DEF SetReason, SoundStep
<1>10. ASSUME LockTimeout(s) PROVE SoundStep
  <2>1. CASE /\ disp[s].pc = "mark" /\ disp' = [disp EXCEPT ![s].pc = "mirror"]
             /\ UNCHANGED <<rows, snap>>
    BY <2>1, <1>on, SoundRows DEF SoundStep
  <2>2. CASE Leave(s, rows)
    BY <2>2, SoundRows, SoundLeave
  <2> QED BY <1>10, <2>1, <2>2 DEF LockTimeout
<1>11. ASSUME Reconcile(s) PROVE SoundStep
  <2>1. disp[s].pc # "idle"
    BY <1>11 DEF Reconcile
  <2>2. PICK final \in Outcomes(task[TaskOf(RowOf(s))].status) :
          disp' = [disp EXCEPT ![s].pc = "settle", ![s].final = final]
    BY <1>11 DEF Reconcile
  <2>3. final = "done" => task[rows[disp[s].row].task].status = "done"
    BY <2>2 DEF Outcomes, TaskOf, RowOf
  <2>4. Founded([disp[s] EXCEPT !.pc = "settle", !.final = final])
    BY <2>1, <2>3, FoundedOn DEF Founded, Disp, RowOf
  <2>5. disp' = [disp EXCEPT ![s] = [disp[s] EXCEPT !.pc = "settle", !.final = final]]
    BY <2>2
  <2>6. \A x \in Slots : Founded(disp'[x])
    BY <2>4, <2>5, FoundedOne
  <2>7. rows' = rows
    BY <1>11 DEF Reconcile
  <2> QED BY <2>6, <2>7, SoundRows DEF SoundStep
<1>12. ASSUME Settle(s) PROVE SoundStep
  <2>1. disp[s].final = "done" => TaskDone(RowOf(s))
    BY <1>12, FoundedOn DEF Settle
  <2>2. Sound(rows')
    BY <1>12, <2>1, SoundMove DEF Settle
  <2> QED BY <1>12, <2>2, <1>on DEF Settle, SoundStep
<1>13. ASSUME disp[s].pc = "mirror" PROVE Mirrored(s) \in [Rows -> Row] /\ Sound(Mirrored(s))
  <2>1. disp[s].final = "done" => TaskDone(RowOf(s))
    BY <1>13, FoundedOn
  <2>2. ASSUME rows[RowOf(s)].status \in {"pending", "launched", "running"}
        PROVE  Mirrored(s) \in [Rows -> Row] /\ Sound(Mirrored(s))
    <3> DEFINE from == rows[RowOf(s)].status
               rs == [rows EXCEPT ![RowOf(s)] = Moved(rows[RowOf(s)], from, disp[s].final,
                                                      ReasonOf(disp[s].rc))]
    <3>1. Mirrored(s) = rs
      BY <2>2 DEF Mirrored
    <3>2. Sound(rs)
      BY <2>1, SoundMove
    <3>3. rs \in [Rows -> Row]
      <4>1. RowOf(s) \in Rows => Moved(rows[RowOf(s)], from, disp[s].final, ReasonOf(disp[s].rc)) \in Row
        BY <1>b, <2>2, RowWrites
      <4> QED BY <4>1
    <3> HIDE DEF rs
    <3> QED BY <3>1, <3>2, <3>3
  <2>3. CASE rows[RowOf(s)].status \notin {"pending", "launched", "running"}
    BY <2>3, SoundRows DEF Mirrored
  <2> QED BY <2>2, <2>3
<1>14. ASSUME Mirror(s) PROVE SoundStep
  <2>0. disp[s].pc = "mirror"
    BY <1>14 DEF Mirror
  <2>1. CASE disp[s].rc \in NotRetryable
    <3>1. rows' = Mirrored(s) /\ disp' = [disp EXCEPT ![s].pc = "bump"]
      BY <1>14, <2>1 DEF Mirror
    <3>2. \A x \in Slots : Founded(disp'[x])
      BY <2>0, <3>1, <1>on
    <3> QED BY <1>13, <2>0, <3>1, <3>2 DEF SoundStep
  <2>2. CASE disp[s].rc \notin NotRetryable
    BY <1>13, <1>14, <2>0, <2>2, SoundLeave DEF Mirror
  <2> QED BY <2>1, <2>2
<1>15. ASSUME BumpRetry(s) PROVE SoundStep
  <2> DEFINE bumped == [rows EXCEPT ![RowOf(s)].retry = disp[s].max]
  <2>1. bumped \in [Rows -> Row] /\ Sound(bumped)
    <3> disp[s].max \in Nat
      BY DEF Disp
    <3> QED BY ColumnWrites, SoundColumns
  <2>2. /\ disp[s].pc = "bump"
        /\ IF disp[s].rc = "isolation"
           THEN rows' = bumped /\ disp' = [disp EXCEPT ![s].pc = "unclaim"]
           ELSE Leave(s, bumped)
    BY <1>15 DEF BumpRetry
  <2> HIDE DEF bumped
  <2>3. CASE disp[s].rc = "isolation"
    BY <2>1, <2>2, <2>3, <1>on DEF SoundStep
  <2>4. CASE disp[s].rc # "isolation"
    BY <2>1, <2>2, <2>4, SoundLeave
  <2> QED BY <2>3, <2>4
<1>16. ASSUME Unclaim(s) PROVE SoundStep
  <2> DEFINE rs == [rows EXCEPT ![RowOf(s)].pid = None]
  <2>1. rs \in [Rows -> Row] /\ Sound(rs)
    BY <1>b, ColumnWrites, SoundColumns
  <2>2. Leave(s, rs)
    BY <1>16 DEF Unclaim
  <2> HIDE DEF rs
  <2> QED BY <2>1, <2>2, SoundLeave
<1> QED BY <1>1, <1>2, <1>3, <1>4, <1>5, <1>6, <1>7, <1>8, <1>9, <1>10, <1>11, <1>12,
           <1>14, <1>15, <1>16 DEF DispatcherStep

\* Dispatchers and launchers that are killed or end.
LEMMA FoundedKill ==
    ASSUME TypeInv, DispatcherInv, NEW P, AfterKill(P)
    PROVE  \A x \in Slots : Founded(disp'[x])
<1> SUFFICES ASSUME NEW x \in Slots PROVE Founded(disp'[x])
  OBVIOUS
<1>1. disp'[x] \in {Orphaned(x), Idle, disp[x]}
  BY DEF AfterKill
<1>2. disp'[x] = Orphaned(x) => disp[x].pc # "idle" \/ disp'[x] \in {Idle, disp[x]}
  BY DEF AfterKill, RunningDispatchers
<1>3. disp[x].pc # "idle" => Founded(Orphaned(x))
  BY FoundedOn DEF Orphaned, PCs
<1> QED BY <1>1, <1>2, <1>3, IdleFounded DEF DispatcherInv

LEMMA SoundProcesses ==
    ASSUME TypeInv, DispatcherInv, NEW s \in Slots
    PROVE  /\ Crash(s) => SoundStep
           /\ KidStep(s) => SoundStep
<1>1. ASSUME Crash(s) PROVE SoundStep
  BY <1>1, FoundedKill, SoundRows, SoundBuried DEF Crash, Bury, SoundStep
<1>2. ASSUME AgentStarts(s) PROVE SoundStep
  BY <1>2, FoundedSame, SoundRows DEF AgentStarts, SoundStep
<1>3. ASSUME NEW rc, KidEnds(s, rc) PROVE SoundStep
  <2>1. CASE disp[s].pc = "crashed"
    BY <1>3, <2>1, IdleFounded, FoundedOne, SoundRows, SoundBuried DEF KidEnds, Bury, SoundStep
  <2>2. CASE disp[s].pc # "crashed"
    BY <1>3, <2>2, FoundedSame, SoundRows DEF KidEnds, SoundStep
  <2> QED BY <2>1, <2>2
<1> QED BY <1>1, <1>2, <1>3 DEF KidStep, GateBlocks, AgentFails, AgentFinishes

LEMMA SoundCommands ==
    ASSUME TypeInv, RowsNamed, DispatcherInv, CommandInv, NEW t \in TaskIds
    PROVE  /\ \A a \in Agents : Enqueue(t, a) => SoundStep
           /\ \A st \in ReportedStatuses : ReportStatus(t, st) => SoundStep
           /\ \A st \in OperatorStatuses : SetTaskStatus(t, st) => SoundStep
           /\ CommandStep(t) => SoundStep
           /\ HookRead(t) => SoundStep
<1>1. ASSUME NEW a \in Agents, Enqueue(t, a) PROVE SoundStep
  BY <1>1, FoundedSame, SoundInsert DEF Enqueue, SoundStep
<1>2. ASSUME NEW st, \/ ReportStatus(t, st) \/ SetTaskStatus(t, st)
                     \/ HookRead(t) \/ HookStop(t)
      PROVE  SoundStep
  BY <1>2, FoundedSame, SoundRows DEF ReportStatus, SetTaskStatus, HookRead, HookStop, SoundStep
<1>3. ASSUME NEW to \in {"done", "failed"}, SyncInbox(t, to) PROVE SoundStep
  <2>1. to = "done" => task[t].status = "done"
    BY <1>3 DEF SyncInbox, CommandInv
  <2>2. ASSUME NEW r \in Rows
        PROVE  \/ rows'[r].status = rows[r].status
               \/ /\ rows[r].task = t /\ rows'[r].status = to
                  /\ rows[r].status \in {"pending", "launched", "running"}
    BY <1>3 DEF SyncInbox, Row
  <2>3. Sound(rows')
    BY <2>1, <2>2 DEF Sound, TaskDone
  <2> QED BY <1>3, <2>3, FoundedSame DEF SyncInbox, SoundStep
<1>4. ASSUME EnsureActiveInbox(t) PROVE SoundStep
  BY <1>4, FoundedSame, SoundInsert, SoundRows DEF EnsureActiveInbox, SoundStep
<1>5. ASSUME HookSync(t) PROVE SoundStep
  <2>1. Sound([r \in Rows |-> Synced(rows[r], t, "stopped")])
    BY DEF Synced, Sound, Row
  <2> QED BY <1>5, <2>1, FoundedSame, SoundRows DEF HookSync, SoundStep
<1>6. ASSUME HookPause(t) PROVE SoundStep
  <2>1. \A from : \A r \in Rows : Sound([rows EXCEPT ![r] = Moved(rows[r], from, "paused", "none")])
    BY SoundMove
  <2>2. Sound(rows')
    BY <1>6, <2>1, SoundRows DEF HookPause
  <2> QED BY <1>6, <2>2, FoundedSame DEF HookPause, SoundStep
<1> QED BY <1>1, <1>2, <1>3, <1>4, <1>5, <1>6 DEF CommandStep

-----------------------------------------------------------------------------
(* Rows become done for a reason.                                           *)

LEMMA SoundEarned ==
    ASSUME TypeInv, RowsNamed, TasksStayDone, Sound(rows')
    PROVE  DoneEarned
<1> SUFFICES ASSUME NEW r \in Rows, rows'[r].status = "done", rows[r].status # "done"
             PROVE  task'[rows[r].task].status = "done"
  BY DEF DoneEarned
<1>1. TaskDone(r)
  BY DEF Sound
<1>2. rows[r].task \in TaskIds /\ task[rows[r].task].status = "done"
  BY <1>1 DEF TaskDone, RowsNamed
<1> QED BY <1>2 DEF TasksStayDone

LEMMA EarnedWatcher ==
    ASSUME TypeInv, BatchInv, EarnedInv
    PROVE  /\ \A j \in Jobs : Begin(j) => DoneEarned
           /\ \A t \in TaskIds : EnqueueBegin(t) => DoneEarned
           /\ WatcherStep => DoneEarned
<1> USE DEF EarnedInv
<1>0. UNCHANGED task /\ Sound(rows') => DoneEarned
  BY SoundEarned DEF TasksStayDone
<1>1. ASSUME NEW j \in Jobs, Begin(j) PROVE DoneEarned
  BY <1>0, <1>1, SoundRows DEF Begin
<1>2. ASSUME NEW t \in TaskIds, EnqueueBegin(t) PROVE DoneEarned
  BY <1>0, <1>2, SoundRows DEF EnqueueBegin
<1>look. ASSUME NEW r \in Rows, Look(r) PROVE DoneEarned
  BY <1>0, <1>look, SoundRows DEF Look
<1>3. ASSUME NEW r \in Rows, BatchStep(r) PROVE DoneEarned
  BY <1>0, <1>3, SoundRows, BatchKinds
<1>4. ASSUME Commit PROVE DoneEarned
  <2>1. rows' = CurRows /\ task' = CurTask
    BY <1>4 DEF Commit
  <2>2. CASE txn = None
    BY <2>1, <2>2 DEF CurRows, DoneEarned
  <2>3. CASE txn # None
    BY <2>1, <2>3 DEF CurRows, CurTask, TxnInv, DoneEarned
  <2> QED BY <2>2, <2>3
<1>5. ASSUME NEW old \in SUBSET Rows, ZombieJudge(old) PROVE DoneEarned
  <2>1. PICK P : rows' = Buried(rows, P)
    BY <1>5 DEF ZombieJudge
  <2>2. Sound(rows')
    BY <2>1, SoundRows, SoundBuried
  <2> QED BY <1>0, <1>5, <2>2 DEF ZombieJudge
<1>6. ASSUME ZombieWrite PROVE DoneEarned
  <2>1. ASSUME NEW r \in Rows, rows'[r].status = "done", rows[r].status # "done"
        PROVE  TaskDone(r)
    <3>1. rows'[r] = Moved(rows[r], "launched", snap[r].status, "none") /\ snap[r].status # "absent"
      BY <1>6, <2>1 DEF ZombieWrite
    <3>2. snap[r].status = "done"
      BY <2>1, <3>1, CalmMoved
    <3> QED BY <1>6, <2>1, <3>2 DEF ZombieWrite, ReadInv
  <2> QED BY <1>0, <1>6, <2>1 DEF ZombieWrite, Sound
<1>7. ASSUME PausedWrite PROVE DoneEarned
  <2>1. ASSUME NEW r \in Rows, rows'[r].status = "done" PROVE rows[r].status = "done"
    <3>1. rows'[r] \in {rows[r], Moved(rows[r], "paused", "failed", "none")}
      BY <1>7 DEF PausedWrite
    <3>2. Moved(rows[r], "paused", "failed", "none").status \in {rows[r].status, "failed"}
      BY CalmMoved
    <3> QED BY <2>1, <3>1, <3>2
  <2> QED BY <1>0, <1>7, <2>1 DEF PausedWrite, Sound
<1>8. ASSUME EnqueueWrite PROVE DoneEarned
  BY <1>0, <1>8, SoundRows, SoundInsert DEF EnqueueWrite
<1> QED BY <1>1, <1>2, <1>look, <1>3, <1>4, <1>5, <1>6, <1>7, <1>8 DEF WatcherStep, BatchStep

\* Steps of the watcher, of a process, or of a command; or none.
LEMMA SoundOrWatcher ==
    ASSUME TypeInv, EarnedInv, [Next]_vars
    PROVE  \/ SoundStep
           \/ /\ \A x \in Slots : Founded(disp'[x])
              /\ cli' = cli
              /\ \/ \E j \in Jobs : Begin(j)
                 \/ \E t \in TaskIds : EnqueueBegin(t)
                 \/ WatcherStep
<1> USE DEF EarnedInv
<1>1. ASSUME NEW s \in Slots, \/ \E a \in Agents : Claim(s, a)
                              \/ DispatcherStep(s) \/ KidStep(s) \/ Crash(s)
      PROVE  SoundStep
  BY <1>1, SoundDispatcher, SoundProcesses
<1>2. ASSUME NEW t \in TaskIds, \/ \E a \in Agents : Enqueue(t, a)
                                \/ \E st \in ReportedStatuses : ReportStatus(t, st)
                                \/ \E st \in OperatorStatuses : SetTaskStatus(t, st)
                                \/ CommandStep(t) \/ HookRead(t)
      PROVE  SoundStep
  BY <1>2, SoundCommands
<1>3. CASE UNCHANGED vars
  BY <1>3, FoundedSame, SoundRows DEF vars, SoundStep
<1>4. ASSUME \/ \E j \in Jobs : Begin(j)
             \/ \E t \in TaskIds : EnqueueBegin(t)
      PROVE  (\A x \in Slots : Founded(disp'[x])) /\ cli' = cli
  BY <1>4, FoundedSame DEF Begin, EnqueueBegin
<1>5. ASSUME WatcherStep PROVE (\A x \in Slots : Founded(disp'[x])) /\ cli' = cli
  <2>1. ASSUME NEW r \in Rows, BatchStep(r) PROVE (\A x \in Slots : Founded(disp'[x])) /\ cli' = cli
    BY <2>1, BatchKinds, FoundedSame
  <2>2. ASSUME NEW old \in SUBSET Rows, ZombieJudge(old)
        PROVE  (\A x \in Slots : Founded(disp'[x])) /\ cli' = cli
    BY <2>2, FoundedKill DEF ZombieJudge
  <2>3. ASSUME Commit \/ ZombieWrite \/ PausedWrite \/ EnqueueWrite
        PROVE  (\A x \in Slots : Founded(disp'[x])) /\ cli' = cli
    BY <2>3, FoundedSame DEF Commit, ZombieWrite, PausedWrite, EnqueueWrite
  <2>4. ASSUME NEW r \in Rows, Look(r) PROVE (\A x \in Slots : Founded(disp'[x])) /\ cli' = cli
    BY <2>4, FoundedSame DEF Look
  <2> QED BY <1>5, <2>1, <2>2, <2>3, <2>4 DEF WatcherStep, BatchStep
<1> QED BY <1>1, <1>2, <1>3, <1>4, <1>5 DEF Next

LEMMA DispatcherNext ==
    ASSUME TypeInv, RowsNamed, TasksStayDone, Lasting(rows'), \A s \in Slots : Founded(disp'[s])
    PROVE  DispatcherInv'
<1> SUFFICES ASSUME NEW s \in Slots PROVE Founded(disp[s])'
  BY DEF DispatcherInv
<1>1. CASE disp'[s].pc = "idle"
  BY <1>1 DEF Founded
<1>2. CASE disp'[s].pc # "idle"
  <2>1. disp'[s].row \in Rows /\ rows[disp'[s].row].status # "absent"
    BY <1>2 DEF Founded
  <2>2. /\ rows'[disp'[s].row].status # "absent"
        /\ rows'[disp'[s].row].task = rows[disp'[s].row].task
        /\ rows[disp'[s].row].task \in TaskIds
    BY <2>1 DEF Lasting, RowsNamed
  <2> QED BY <1>2, <2>1, <2>2 DEF Founded, TasksStayDone
<1> QED BY <1>1, <1>2

\* The commands that are to close rows as done are those that finished the task.
LEMMA CommandNext ==
    ASSUME TypeInv, EarnedInv, TasksStayDone, [Next]_vars
    PROVE  CommandInv'
<1> USE DEF EarnedInv, TasksStayDone
<1>1. ASSUME cli' \subseteq cli PROVE CommandInv'
  BY <1>1 DEF CommandInv
<1>2. ASSUME NEW s \in Slots, \/ \E a \in Agents : Claim(s, a)
                              \/ DispatcherStep(s) \/ KidStep(s) \/ Crash(s)
      PROVE  cli' = cli
  BY <1>2 DEF Claim, DispatcherStep, ResolveOk, ResolveDirty, ResolveIsolation, Spawn, RecordPid,
              ClearPid, MarkFailed, SetReason, LockTimeout, Reconcile, Settle, Mirror, BumpRetry,
              Unclaim, KidStep, AgentStarts, GateBlocks, AgentFails, AgentFinishes, KidEnds, Crash
<1>3. ASSUME NEW t \in TaskIds, \/ \E a \in Agents : Enqueue(t, a)
                                \/ CommandStep(t) \/ HookRead(t)
      PROVE  cli' \subseteq cli
  BY <1>3 DEF Enqueue, CommandStep, SyncInbox, EnsureActiveInbox, HookStop, HookSync, HookPause,
              HookRead
<1>4. ASSUME NEW t \in TaskIds, NEW st, ReportStatus(t, st) PROVE CommandInv'
  <2>1. st = "done" => task'[t].status = "done"
    BY <1>4 DEF ReportStatus, TaskRec
  <2>2. ASSUME NEW x \in TaskIds, [task |-> x, op |-> "done"] \in cli'
        PROVE  [task |-> x, op |-> "done"] \in cli \/ (x = t /\ st = "done")
    BY <1>4, <2>2 DEF ReportStatus
  <2> QED BY <2>1, <2>2 DEF CommandInv
<1>5. ASSUME NEW t \in TaskIds, NEW st, SetTaskStatus(t, st) PROVE CommandInv'
  <2>1. ASSUME NEW x \in TaskIds, [task |-> x, op |-> "done"] \in cli'
        PROVE  [task |-> x, op |-> "done"] \in cli
    BY <1>5, <2>1 DEF SetTaskStatus
  <2> QED BY <2>1 DEF CommandInv
<1>6. ASSUME \/ \E j \in Jobs : Begin(j)
             \/ \E t \in TaskIds : EnqueueBegin(t)
             \/ WatcherStep
      PROVE  cli' = cli
  <2>1. ASSUME NEW r \in Rows, BatchStep(r) PROVE cli' = cli
    BY <2>1, BatchKinds
  <2>2. ASSUME \/ \E j \in Jobs : Begin(j)
               \/ \E t \in TaskIds : EnqueueBegin(t)
               \/ \E old \in SUBSET Rows : ZombieJudge(old)
               \/ \E r \in Rows : Look(r)
               \/ Commit \/ ZombieWrite \/ PausedWrite \/ EnqueueWrite
        PROVE  cli' = cli
    BY <2>2 DEF Begin, EnqueueBegin, Look, ZombieJudge, Commit, ZombieWrite, PausedWrite, EnqueueWrite
  <2> QED BY <1>6, <2>1, <2>2 DEF WatcherStep, BatchStep
<1>7. CASE UNCHANGED vars
  BY <1>1, <1>7 DEF vars
<1> QED BY <1>1, <1>2, <1>3, <1>4, <1>5, <1>6, <1>7 DEF Next

\* What the watcher holds stays true of the tables, whatever becomes of the tasks.
LEMMA HeldNext ==
    ASSUME TypeInv, BatchInv, HeldInv, [Next]_vars
    PROVE  HeldInv' /\ MovesLegally /\ Lasting(rows')
BY StepTables, NamedNext, TxnNext, ReadNext

LEMMA EarnedNext ==
    ASSUME TypeInv, BatchInv, EarnedInv, TasksStayDone, [Next]_vars
    PROVE  EarnedInv' /\ DoneEarned
<1> USE DEF EarnedInv
<1>1. HeldInv' /\ Lasting(rows') /\ CommandInv'
  BY HeldNext, CommandNext
<1>2. \A s \in Slots : Founded(disp'[s])
  BY SoundOrWatcher DEF SoundStep
<1>3. DispatcherInv'
  BY <1>1, <1>2, DispatcherNext
<1>4. DoneEarned
  BY SoundOrWatcher, SoundEarned, EarnedWatcher DEF SoundStep
<1> QED BY <1>1, <1>3, <1>4

LEMMA EarnedInit == Init => BatchInv /\ EarnedInv
<1> SUFFICES ASSUME Init PROVE BatchInv /\ EarnedInv
  OBVIOUS
<1>1. BatchInv /\ TxnInv /\ ReadInv /\ CommandInv
  BY DEF Init, NoJob, BatchInv, TxnInv, ReadInv, CommandInv, Batch
<1>2. RowsNamed
  BY DEF Init, AbsentRow, RowsNamed
<1>3. DispatcherInv
  BY IdleFounded DEF Init, DispatcherInv
<1> QED BY <1>1, <1>2, <1>3 DEF EarnedInv

\* Every move of a task is one of the lifecycle graph or an escalation, for any
\* number of tasks, rows, agents, dispatchers and crashes, and however long ago the
\* watcher's transaction began: no other status is overwritten with a stale one.
THEOREM MovesAreLegal == Spec => TasksMoveLegally
<1>1. Init => BatchInv /\ HeldInv
  BY EarnedInit DEF EarnedInv
<1>2. TypeInv /\ BatchInv /\ HeldInv /\ [Next]_vars => BatchInv' /\ HeldInv' /\ MovesLegally
  BY BatchNext, HeldNext
<1>3. UNCHANGED vars => MovesLegally
  BY DEF vars, MovesLegally
<1> QED BY <1>1, <1>2, <1>3, TypeInit, TypeNext, PTL DEF Spec, TasksMoveLegally

\* As long as no escalation takes a done task back, a row becomes done only when its
\* task is done or waits for the operator: no dispatcher, verdict, batch or command
\* makes it done on a task status that was true once. (One that does take it back
\* leaves a dispatcher or a status command acting on a status that is gone.)
THEOREM DoneOnlyEarned == Spec /\ [][TasksStayDone]_vars => DoneIsEarned
<1>1. TypeInv /\ BatchInv /\ EarnedInv /\ TasksStayDone /\ [Next]_vars
        => BatchInv' /\ EarnedInv' /\ DoneEarned
  BY BatchNext, EarnedNext
<1>2. UNCHANGED vars => TasksStayDone /\ DoneEarned
  BY DEF vars, TasksStayDone, DoneEarned
<1> QED BY <1>1, <1>2, EarnedInit, TypeInit, TypeNext, PTL DEF Spec, DoneIsEarned

\* A project whose profile does not switch the recovery on: its done tasks stay done
\* and every row that becomes done is earned, without a condition.
THEOREM DoneEarnedWithoutRecovery ==
    ASSUME "recover" \notin Jobs
    PROVE  Spec => [][TasksStayDone]_vars /\ DoneIsEarned
<1>1. TypeInv /\ MovesLegally => TasksStayDone
  <2>1. TypeInv => watch.job # "recover"
    OBVIOUS
  <2> QED BY <2>1, GraphStays DEF MovesLegally, OnGraph
<1>2. TypeInv /\ BatchInv /\ EarnedInv /\ [Next]_vars
        => BatchInv' /\ EarnedInv' /\ DoneEarned /\ TasksStayDone
  BY <1>1, BatchNext, HeldNext, EarnedNext DEF EarnedInv
<1>3. UNCHANGED vars => TasksStayDone /\ DoneEarned
  BY DEF vars, TasksStayDone, DoneEarned
<1> QED BY <1>2, <1>3, EarnedInit, TypeInit, TypeNext, PTL DEF Spec, DoneIsEarned

-----------------------------------------------------------------------------
(* The unique index.                                                        *)

\* Of the rows of rs that the index covers none is new to it.
LEMMA IndexKept ==
    ASSUME NEW qs, NEW rs, IndexHolds(qs),
           \A r \in Rows : /\ rs[r].status \in Indexed => qs[r].status \in Indexed
                           /\ rs[r].task = qs[r].task /\ rs[r].agent = qs[r].agent
    PROVE  IndexHolds(rs)
BY DEF IndexHolds

LEMMA IndexCalm ==
    ASSUME TypeInv, OneActiveRow, Calm(rows'), TypeInv'
    PROVE  OneActiveRow'
<1> SUFFICES ASSUME NEW r \in Rows, NEW q \in Rows, r # q,
                    rows'[r].status \in Indexed, rows'[q].status \in Indexed,
                    rows'[r].task = rows'[q].task, rows'[r].agent = rows'[q].agent
             PROVE  FALSE
  BY DEF OneActiveRow, IndexHolds
<1>1. ASSUME NEW x \in Rows, rows'[x].status \in Indexed, ~Added(rows', x)
      PROVE  /\ rows[x].status \in Indexed
             /\ rows'[x].task = rows[x].task /\ rows'[x].agent = rows[x].agent
  <2>1. rows[x].status # "absent" /\ rows[x].status \in RowStatuses
    BY <1>1 DEF Added, Indexed, Row
  <2>2. rows[x].status \notin {"failed", "done"}
    BY <1>1 DEF Calm, Indexed
  <2> QED BY <2>1, <2>2 DEF Calm, Indexed
<1>2. CASE ~Added(rows', r) /\ ~Added(rows', q)
  <2> rows[r].task = rows[q].task /\ rows[r].agent = rows[q].agent
    BY <1>1, <1>2
  <2> QED BY <1>1, <1>2 DEF OneActiveRow, IndexHolds
<1>3. ASSUME NEW x \in Rows, NEW y \in Rows, x # y, {x, y} = {r, q}, Added(rows', x) PROVE FALSE
  <2>1. ~Added(rows', y)
    BY <1>3 DEF Calm
  <2>2. rows[y].status \in Indexed /\ rows[y].task = rows'[x].task /\ rows[y].agent = rows'[x].agent
    BY <1>1, <1>3, <2>1
  <2>3. ~Duplicate(rows, rows'[x].task, rows'[x].agent)
    BY <1>3 DEF Calm
  <2> QED BY <2>2, <2>3 DEF Duplicate
<1> QED BY <1>2, <1>3

LEMMA IndexOutside ==
    ASSUME TypeInv, TypeInv', IndexInv, Outside
    PROVE  IndexInv'
<1>1. OneActiveRow'
  BY IndexCalm DEF IndexInv, Outside
<1>2. CASE txn = None
  BY <1>1, <1>2 DEF Outside, IndexInv
<1>3. CASE txn # None
  <2>1. \A r \in Rows : Alike(txn'.rows, txn.rows, r)
    BY <1>3 DEF Outside
  <2>2. IndexHolds(txn.rows)
    BY <1>3 DEF IndexInv
  <2>3. IndexHolds(txn'.rows)
    BY <2>1, <2>2 DEF Alike, IndexHolds
  <2> QED BY <1>1, <2>3 DEF IndexInv
<1> QED BY <1>2, <1>3

\* A batch job puts row r back only if the index takes it, or closes it.
LEMMA IndexRow ==
    ASSUME TypeInv, IndexInv, NEW r \in Rows, NEW ts, NEW new,
           \/ Requeue(r, new, ts) \/ Skip(r)
           \/ new.status \notin Indexed /\ Write(r, [CurRows EXCEPT ![r] = new], ts)
    PROVE  IndexInv'
<1>0. IndexHolds(CurRows)
  BY DEF IndexInv, OneActiveRow, CurRows
<1>1. CASE Skip(r)
  BY <1>1 DEF Skip, IndexInv, OneActiveRow
<1>2. CASE Abort
  BY <1>2 DEF Abort, IndexInv, OneActiveRow
<1>3. ASSUME Write(r, [CurRows EXCEPT ![r] = new], ts),
             new.status \notin Indexed \/ ~Clash(CurRows, r, new)
      PROVE  IndexInv'
  <2> DEFINE rs == [CurRows EXCEPT ![r] = new]
  <2>1. rs[r] = new /\ \A q \in Rows : q # r => rs[q] = CurRows[q]
    BY CurTyped
  <2>2. txn' = [rows |-> rs, task |-> ts] /\ rows' = rows
    BY <1>3 DEF Write
  <2> HIDE DEF rs
  <2>3. txn'.rows = rs
    BY <2>2
  <2>4. ASSUME NEW q \in Rows, q # r, {rs[q].status, new.status} \subseteq Indexed
        PROVE  rs[q].task # new.task \/ rs[q].agent # new.agent
    BY <1>3, <2>1, <2>4 DEF Clash
  <2>5. IndexHolds(rs)
    <3> SUFFICES ASSUME NEW p \in Rows, NEW q \in Rows, p # q,
                        {rs[p].status, rs[q].status} \subseteq Indexed
                 PROVE  rs[p].task # rs[q].task \/ rs[p].agent # rs[q].agent
      BY DEF IndexHolds
    <3>1. CASE p # r /\ q # r
      BY <1>0, <2>1, <3>1 DEF IndexHolds
    <3>2. CASE p = r \/ q = r
      BY <2>1, <2>4, <3>2
    <3> QED BY <3>1, <3>2
  <2> QED BY <2>2, <2>3, <2>5 DEF IndexInv, OneActiveRow
<1> QED BY <1>1, <1>2, <1>3 DEF Requeue

LEMMA IndexBatch ==
    ASSUME TypeInv, IndexInv, NEW r \in Rows, BatchStep(r)
    PROVE  IndexInv'
<1>0. CurRows[r] \in Row
  BY CurTyped
<1>1. CASE RetryRow(r)
  BY <1>1, IndexRow DEF RetryRow
<1>2. CASE ReassignRow(r)
  BY <1>2, IndexRow DEF ReassignRow
<1>3. CASE RecoverBlocked(r)
  <2>1. MarkedDone(CurRows[r]).status \notin Indexed
    BY <1>0 DEF MarkedDone, Row, Indexed
  <2> QED BY <1>3, <2>1, IndexRow DEF RecoverBlocked
<1>4. CASE RecoverFinished(r)
  BY <1>4, IndexRow DEF RecoverFinished
<1>5. CASE RecoverReroute(r)
  BY <1>5, IndexRow DEF RecoverReroute
<1>6. CASE RecoverEscalate(r)
  <2>1. MarkedFailed(CurRows[r]).status \notin Indexed
    BY <1>0 DEF MarkedFailed, Row, Indexed
  <2> QED BY <1>6, <2>1, IndexRow DEF RecoverEscalate
<1> QED BY <1>1, <1>2, <1>3, <1>4, <1>5, <1>6 DEF BatchStep

LEMMA IndexNext ==
    ASSUME TypeInv, TypeInv', BatchInv, IndexInv, [Next]_vars
    PROVE  IndexInv'
<1>1. CASE Outside
  BY <1>1, IndexOutside
<1>2. ASSUME NEW j \in Jobs, Begin(j) PROVE IndexInv'
  BY <1>2 DEF Begin, IndexInv, OneActiveRow
<1>3. ASSUME NEW t \in TaskIds, EnqueueBegin(t) PROVE IndexInv'
  BY <1>3 DEF EnqueueBegin, IndexInv, OneActiveRow
<1>look. ASSUME NEW r \in Rows, Look(r) PROVE IndexInv'
  BY <1>look DEF Look, IndexInv, OneActiveRow
<1>4. ASSUME NEW r \in Rows, BatchStep(r) PROVE IndexInv'
  BY <1>4, IndexBatch
<1>5. CASE Commit
  BY <1>5 DEF Commit, CurRows, IndexInv, OneActiveRow
<1>6. ASSUME NEW old \in SUBSET Rows, ZombieJudge(old) PROVE IndexInv'
  <2>1. PICK P : rows' = Buried(rows, P)
    BY <1>6 DEF ZombieJudge
  <2>2. OneActiveRow'
    BY <2>1, BuriedRows DEF OneActiveRow, IndexInv, IndexHolds
  <2> QED BY <1>6, <2>2 DEF ZombieJudge, IndexInv
<1>7. ASSUME ZombieWrite \/ PausedWrite PROVE IndexInv'
  <2>1. ASSUME NEW r \in Rows, NEW from \in {"launched", "paused"}, NEW to
        PROVE  LET new == Moved(rows[r], from, to, "none")
               IN  /\ new.task = rows[r].task /\ new.agent = rows[r].agent
                   /\ new.status \in Indexed => rows[r].status \in Indexed
    <3>1. CASE rows[r].status = from
      <4>1. from \in Indexed
        BY DEF Indexed, RowStatuses
      <4> QED BY <3>1, <4>1, CalmMoved
    <3>2. CASE rows[r].status # from
      BY <3>2, CalmMoved
    <3> QED BY <3>1, <3>2
  <2>2. ASSUME NEW r \in Rows
        PROVE  \E from \in {"launched", "paused"} : \E to :
                 rows'[r] \in {rows[r], Moved(rows[r], from, to, "none")}
    BY <1>7 DEF ZombieWrite, PausedWrite
  <2>3. \A r \in Rows : /\ rows'[r].status \in Indexed => rows[r].status \in Indexed
                        /\ rows'[r].task = rows[r].task /\ rows'[r].agent = rows[r].agent
    BY <2>1, <2>2
  <2>4. OneActiveRow'
    BY <2>3, IndexKept DEF OneActiveRow, IndexInv
  <2> QED BY <1>7, <2>4 DEF ZombieWrite, PausedWrite, IndexInv
<1>8. CASE EnqueueWrite
  <2>1. watch.task \in TaskIds /\ task[watch.task].owner \in Agents
    BY <1>8 DEF EnqueueWrite, TaskRec
  <2>2. Calm(rows')
    BY <1>8, <2>1, CalmRows, CalmInsert DEF EnqueueWrite
  <2>3. OneActiveRow'
    BY <2>2, IndexCalm DEF IndexInv
  <2> QED BY <1>8, <2>3 DEF EnqueueWrite, IndexInv
<1> QED BY <1>1, <1>2, <1>3, <1>look, <1>4, <1>5, <1>6, <1>7, <1>8, StepKinds DEF WatcherStep, BatchStep

\* No write of any process leaves two rows of one task and agent that the unique
\* index covers; so none but the jobs that put rows back can be refused by it.
THEOREM OneRowPerItem == Spec => []OneActiveRow
<1>1. Init => BatchInv /\ IndexInv
  BY EarnedInit DEF Init, IndexInv, OneActiveRow, IndexHolds, AbsentRow, Indexed
<1>2. TypeInv /\ TypeInv' /\ BatchInv /\ IndexInv /\ [Next]_vars => BatchInv' /\ IndexInv'
  BY BatchNext, IndexNext
<1>3. IndexInv => OneActiveRow
  BY DEF IndexInv
<1> QED BY <1>1, <1>2, <1>3, TypeInit, TypeNext, PTL DEF Spec
=============================================================================
