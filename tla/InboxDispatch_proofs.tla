------------------------ MODULE InboxDispatch_proofs ------------------------
(***************************************************************************)
(* Proofs about InboxDispatch, for any tasks, agents, dispatchers and       *)
(* bounds.                                                                  *)
(***************************************************************************)
EXTENDS InboxDispatch, TLAPS

-----------------------------------------------------------------------------
(* The operators the actions are built from.                                *)

\* Every write of inbox_dao turns a row of the table into a row of the table.
LEMMA RowWrites ==
    ASSUME NEW row \in Row
    PROVE  /\ \A p \in Pids : Claimed(row, p) \in Row
           /\ \A from, to \in RowStatuses, why \in Reasons : Moved(row, from, to, why) \in Row
           /\ \A n \in Nat, why \in Reasons : Retried(row, n, why) \in Row
           /\ \A a \in Agents, n \in Nat : /\ Reassigned(row, a, n) \in Row
                                          /\ Recovered(row, a, n) \in Row
           /\ MarkedFailed(row) \in Row /\ MarkedDone(row) \in Row
           /\ \A t \in TaskIds, to \in RowStatuses : Synced(row, t, to) \in Row
<1>1. /\ {"pending", "launched", "failed", "done"} \subseteq RowStatuses
      /\ {"none", "blocked", "other"} \subseteq Reasons
      /\ None \in Pids
  BY DEF RowStatuses, Reasons, Pids
<1> USE DEF Row
<1>2. ASSUME NEW p \in Pids PROVE Claimed(row, p) \in Row
  BY <1>1 DEF Claimed
<1>3. ASSUME NEW from \in RowStatuses, NEW to \in RowStatuses, NEW why \in Reasons
      PROVE  Moved(row, from, to, why) \in Row
  <2>1. CASE row.status # from
    BY <2>1 DEF Moved
  <2>2. CASE row.status = from
    <3>1. (IF to = "failed" THEN why ELSE row.reason) \in Reasons
      OBVIOUS
    <3> QED BY <2>2, <3>1 DEF Moved
  <2> QED BY <2>1, <2>2
<1>4. ASSUME NEW n \in Nat, NEW why \in Reasons PROVE Retried(row, n, why) \in Row
  BY <1>1 DEF Retried
<1>5. ASSUME NEW a \in Agents, NEW n \in Nat PROVE Reassigned(row, a, n) \in Row
  BY <1>1 DEF Reassigned
<1>6. ASSUME NEW a \in Agents, NEW n \in Nat PROVE Recovered(row, a, n) \in Row
  <2>1. row.max + 1 \in Nat
    OBVIOUS
  <2> QED BY <1>1, <2>1 DEF Recovered
<1>7. MarkedFailed(row) \in Row /\ MarkedDone(row) \in Row
  BY <1>1 DEF MarkedFailed, MarkedDone
<1>8. ASSUME NEW t \in TaskIds, NEW to \in RowStatuses PROVE Synced(row, t, to) \in Row
  BY <1>1 DEF Synced
<1> QED BY <1>2, <1>3, <1>4, <1>5, <1>6, <1>7, <1>8

\* The single columns the dispatcher sets, and the fields of its own state.
LEMMA ColumnWrites ==
    ASSUME NEW rs \in [Rows -> Row], NEW r
    PROVE  /\ \A p \in Pids : [rs EXCEPT ![r].pid = p] \in [Rows -> Row]
           /\ \A n \in Nat : [rs EXCEPT ![r].retry = n] \in [Rows -> Row]
           /\ \A why \in Reasons : [rs EXCEPT ![r].reason = why] \in [Rows -> Row]
<1>1. ASSUME NEW p \in Pids PROVE [rs EXCEPT ![r].pid = p] \in [Rows -> Row]
  <2>1. \A row \in Row : [row EXCEPT !.pid = p] \in Row
    BY DEF Row
  <2> QED BY <2>1
<1>2. ASSUME NEW n \in Nat PROVE [rs EXCEPT ![r].retry = n] \in [Rows -> Row]
  <2>1. \A row \in Row : [row EXCEPT !.retry = n] \in Row
    BY DEF Row
  <2> QED BY <2>1
<1>3. ASSUME NEW why \in Reasons PROVE [rs EXCEPT ![r].reason = why] \in [Rows -> Row]
  <2>1. \A row \in Row : [row EXCEPT !.reason = why] \in Row
    BY DEF Row
  <2> QED BY <2>1
<1> QED BY <1>1, <1>2, <1>3

LEMMA DispWrites ==
    ASSUME NEW d \in Disp
    PROVE  /\ \A pc \in PCs : [d EXCEPT !.pc = pc] \in Disp
           /\ \A pc \in PCs, rc \in ExitCodes \cup {"isolation"} :
                 [d EXCEPT !.pc = pc, !.rc = rc] \in Disp
           /\ \A pc \in PCs, final \in {"done", "failed", "paused"} :
                 [d EXCEPT !.pc = pc, !.final = final] \in Disp
BY DEF Disp

\* An INSERT adds a row, and a slot of the table that is not used is one.
LEMMA NewRows ==
    /\ AbsentRow \in Row
    /\ \A t \in TaskIds, a \in Agents : Enqueued(t, a) \in Row
BY RetriesAssumption DEF Row, AbsentRow, Enqueued, RowStatuses, Reasons, Pids

\* When processes exit only the pid column of rows changes.
LEMMA BuriedRows ==
    ASSUME NEW rs \in [Rows -> Row], NEW P
    PROVE  /\ Buried(rs, P) \in [Rows -> Row]
           /\ \A r \in Rows : /\ Buried(rs, P)[r].status = rs[r].status
                              /\ Buried(rs, P)[r].task = rs[r].task
                              /\ Buried(rs, P)[r].agent = rs[r].agent
                              /\ Buried(rs, P)[r].max = rs[r].max
BY DEF Buried, Row, Pids

\* The lifecycle graph stays among the task statuses, and leads nowhere from done.
LEMMA LegalMoves ==
    /\ \A s \in TaskStatuses : Legal[s] \subseteq TaskStatuses
    /\ Legal["done"] = {}
    /\ "done" \in TaskStatuses /\ "stopped" \in TaskStatuses
    /\ "waiting_input" \in TaskStatuses
<1>1. ASSUME NEW s \in TaskStatuses PROVE Legal[s] \subseteq TaskStatuses
  BY <1>1 DEF Legal, TaskStatuses
<1>2. Legal["done"] = {}
  BY DEF Legal, TaskStatuses
<1> QED BY <1>1, <1>2 DEF TaskStatuses

-----------------------------------------------------------------------------
\* An enqueue of the watcher is about a task.
WatchOK == watch.job = "enqueue" => watch.task \in TaskIds

TypeInv == TypeOK /\ WatchOK

USE DEF TypeInv, TypeOK, WatchOK

\* What a job works on is typed.
LEMMA CurTyped ==
    TypeInv => CurRows \in [Rows -> Row] /\ CurTask \in [TaskIds -> TaskRec]
BY DEF CurRows, CurTask, TxnRec

\* A dispatcher leaving, or processes being killed, keep the types.
LEMMA LeaveTyped ==
    ASSUME TypeInv, NEW s \in Slots, NEW rs \in [Rows -> Row], Leave(s, rs)
    PROVE  /\ rows' \in [Rows -> Row] /\ snap' \in [Rows -> Row]
           /\ disp' \in [Slots -> Disp]
<1>1. Idle \in Disp
  BY DEF Idle, Disp, PCs, ExitCodes
<1> QED BY <1>1, BuriedRows DEF Leave

LEMMA BuryTyped ==
    ASSUME TypeInv, NEW P, Bury(P)
    PROVE  /\ rows' \in [Rows -> Row] /\ snap' \in [Rows -> Row]
           /\ txn' \in TxnRec \cup {None}
<1>1. CASE txn = None
  BY <1>1, BuriedRows DEF Bury
<1>2. CASE txn # None
  <2>1. txn \in TxnRec
    BY <1>2
  <2>2. Buried(txn.rows, P) \in [Rows -> Row]
    BY <2>1, BuriedRows DEF TxnRec
  <2> QED BY <1>2, <2>1, <2>2, BuriedRows DEF Bury, TxnRec
<1> QED BY <1>1, <1>2

LEMMA KillTyped ==
    ASSUME TypeInv, NEW P, AfterKill(P)
    PROVE  disp' \in [Slots -> Disp] /\ kid' \in [Slots -> KidStates] /\ lock' \in Slots \cup {None}
<1>1. Idle \in Disp
  BY DEF Idle, Disp, PCs, ExitCodes
<1>2. \A s \in Slots : Orphaned(s) \in Disp
  BY DEF Orphaned, Disp, PCs
<1>3. {"none", "retryable"} \subseteq KidStates
  BY DEF KidStates, Live, ExitCodes
<1>4. disp' \in [Slots -> Disp]
  BY <1>1, <1>2 DEF AfterKill
<1>5. kid' \in [Slots -> KidStates]
  BY <1>3 DEF AfterKill
<1>6. lock' \in Slots \cup {None}
  BY DEF AfterKill
<1> QED BY <1>4, <1>5, <1>6

LEMMA KidEndsTyped ==
    ASSUME TypeInv, NEW s \in Slots, NEW rc \in ExitCodes, KidEnds(s, rc)
    PROVE  TypeInv'
<1>1. Idle \in Disp
  BY DEF Idle, Disp, PCs, ExitCodes
<1>2. rc \in KidStates /\ "none" \in KidStates
  BY DEF KidStates
<1>3. CASE disp[s].pc = "crashed"
  <2>1. Bury({AgentPid(s)})
    BY <1>3 DEF KidEnds
  <2>2. /\ rows' \in [Rows -> Row] /\ snap' \in [Rows -> Row]
        /\ txn' \in TxnRec \cup {None}
    BY <2>1, BuryTyped
  <2> QED BY <1>1, <1>2, <1>3, <2>2 DEF KidEnds
<1>4. CASE disp[s].pc # "crashed"
  BY <1>2, <1>4 DEF KidEnds
<1> QED BY <1>3, <1>4

-----------------------------------------------------------------------------
(* Type correctness.                                                        *)

LEMMA TypeInit == Init => TypeInv
<1> SUFFICES ASSUME Init PROVE TypeInv
  OBVIOUS
<1>1. Idle \in Disp
  BY DEF Idle, Disp, PCs, ExitCodes
<1> QED BY <1>1, NewRows, InitTasksAssumption DEF Init, KidStates, NoJob

\* A step of a dispatcher.
LEMMA TypeDispatcher ==
    ASSUME TypeInv, NEW s \in Slots
    PROVE  /\ \A a \in Agents : Claim(s, a) => TypeInv'
           /\ DispatcherStep(s) => TypeInv'
<1>pc. PCs = {"idle", "resolve", "spawn", "record", "wait", "mark", "reason", "mirror",
               "bump", "unclaim", "reconcile", "settle", "crashed"}
  BY DEF PCs
<1>dw. \A x \in Slots : /\ \A pc \in PCs : [disp[x] EXCEPT !.pc = pc] \in Disp
                        /\ \A pc \in PCs, rc \in ExitCodes \cup {"isolation"} :
                               [disp[x] EXCEPT !.pc = pc, !.rc = rc] \in Disp
                        /\ \A pc \in PCs, final \in {"done", "failed", "paused"} :
                               [disp[x] EXCEPT !.pc = pc, !.final = final] \in Disp
  BY DispWrites
<1>0. /\ {"pending", "launched", "running", "paused", "failed", "done"} \subseteq RowStatuses
      /\ {"none", "blocked", "other"} \subseteq Reasons
      /\ {None, Dead, DispatcherPid(s), AgentPid(s)} \subseteq Pids
      /\ \A rc : ReasonOf(rc) \in Reasons
  BY DEF RowStatuses, Reasons, Pids, DispatcherPid, AgentPid, ReasonOf
<1>1. ASSUME NEW a \in Agents, Claim(s, a) PROVE TypeInv'
  <2>1. PICK r \in Rows :
          /\ rows' = [rows EXCEPT ![r] = Claimed(rows[r], DispatcherPid(s))]
          /\ disp' = [disp EXCEPT ![s] = [Idle EXCEPT !.pc = "resolve", !.row = r, !.max = rows[r].max]]
    BY <1>1 DEF Claim
  <2>2. Claimed(rows[r], DispatcherPid(s)) \in Row
    BY RowWrites, <1>0
  <2>3. rows[r].max \in Nat
    BY DEF Row
  <2>4. disp' \in [Slots -> Disp]
    BY <2>1, <2>3 DEF Idle, Disp, PCs, ExitCodes
  <2> QED BY <1>1, <2>1, <2>2, <2>4 DEF Claim
<1>2. ASSUME ResolveOk(s) PROVE TypeInv'
  BY <1>2, <1>pc, <1>dw DEF ResolveOk
<1>3. ASSUME ResolveDirty(s) PROVE TypeInv'
  <2> DEFINE rs == [rows EXCEPT ![RowOf(s)] = Moved(rows[RowOf(s)], "pending", "paused", "none")]
  <2>1. rs \in [Rows -> Row]
    BY RowWrites, <1>0
  <2>2. Leave(s, rs)
    BY <1>3 DEF ResolveDirty
  <2> QED BY <1>3, <2>1, <2>2, LeaveTyped DEF ResolveDirty
<1>4. ASSUME ResolveIsolation(s) PROVE TypeInv'
  BY <1>4, <1>pc, <1>dw DEF ResolveIsolation
<1>5. ASSUME Spawn(s) PROVE TypeInv'
  BY <1>5, <1>pc, <1>dw DEF Spawn, KidStates, Live
<1>6. ASSUME RecordPid(s) PROVE TypeInv'
  <2>1. rows' \in [Rows -> Row]
    BY <1>0, <1>6, ColumnWrites DEF RecordPid
  <2> QED BY <1>6, <2>1, <1>pc, <1>dw DEF RecordPid
<1>7. ASSUME ClearPid(s) PROVE TypeInv'
  <2>1. rows' \in [Rows -> Row]
    BY <1>0, <1>7, ColumnWrites DEF ClearPid
  <2>2. kid' \in [Slots -> KidStates]
    BY <1>7 DEF ClearPid, KidStates
  <2>3. disp' \in [Slots -> Disp]
    <3>1. CASE kid[s] = "ok"
      BY <1>7, <3>1, <1>pc, <1>dw DEF ClearPid
    <3>2. CASE kid[s] # "ok"
      BY <1>7, <3>2, <1>pc, <1>dw DEF ClearPid
    <3> QED BY <3>1, <3>2
  <2> QED BY <1>7, <2>1, <2>2, <2>3 DEF ClearPid
<1>8. ASSUME MarkFailed(s) PROVE TypeInv'
  <2>1. rows' \in [Rows -> Row]
    BY <1>0, <1>8, RowWrites DEF MarkFailed
  <2>2. disp' \in [Slots -> Disp] /\ lock' \in Slots \cup {None}
    BY <1>8, <1>pc, <1>dw DEF MarkFailed
  <2> QED BY <1>8, <2>1, <2>2 DEF MarkFailed
<1>9. ASSUME SetReason(s) PROVE TypeInv'
  <2>1. rows' \in [Rows -> Row]
    BY <1>0, <1>9, ColumnWrites DEF SetReason
  <2> QED BY <1>9, <2>1, <1>pc, <1>dw DEF SetReason
<1>10. ASSUME LockTimeout(s) PROVE TypeInv'
  <2>1. CASE /\ disp' = [disp EXCEPT ![s].pc = "mirror"]
             /\ UNCHANGED <<rows, snap>>
    BY <1>10, <2>1, <1>pc, <1>dw DEF LockTimeout
  <2>2. CASE Leave(s, rows)
    BY <1>10, <2>2, LeaveTyped DEF LockTimeout
  <2> QED BY <1>10, <2>1, <2>2 DEF LockTimeout
<1>11. ASSUME Reconcile(s) PROVE TypeInv'
  <2>1. \A st : Outcomes(st) \subseteq {"done", "failed", "paused"}
    BY DEF Outcomes
  <2>2. PICK final \in {"done", "failed", "paused"} :
          disp' = [disp EXCEPT ![s].pc = "settle", ![s].final = final]
    BY <1>11, <2>1 DEF Reconcile
  <2>3. disp' \in [Slots -> Disp]
    BY <2>2, <1>pc, <1>dw
  <2> QED BY <1>11, <2>3 DEF Reconcile
<1>12. ASSUME Settle(s) PROVE TypeInv'
  <2>1. disp[s].final \in RowStatuses
    BY <1>0 DEF Disp
  <2>2. rows' \in [Rows -> Row]
    BY <1>0, <1>12, <2>1, RowWrites DEF Settle
  <2> QED BY <1>12, <2>2, <1>pc, <1>dw DEF Settle
<1>13. Mirrored(s) \in [Rows -> Row]
  <2>1. disp[s].final \in RowStatuses
    BY <1>0 DEF Disp
  <2> QED BY <1>0, <2>1, RowWrites DEF Mirrored, Row
<1>14. ASSUME Mirror(s) PROVE TypeInv'
  <2>1. CASE disp[s].rc \in NotRetryable
    BY <1>13, <1>14, <2>1, <1>pc, <1>dw DEF Mirror
  <2>2. CASE disp[s].rc \notin NotRetryable
    BY <1>13, <1>14, <2>2, LeaveTyped DEF Mirror
  <2> QED BY <2>1, <2>2
<1>15. ASSUME BumpRetry(s) PROVE TypeInv'
  <2> DEFINE bumped == [rows EXCEPT ![RowOf(s)].retry = disp[s].max]
  <2>1. bumped \in [Rows -> Row]
    <3> disp[s].max \in Nat
      BY DEF Disp
    <3> QED BY ColumnWrites
  <2>2. CASE disp[s].rc = "isolation"
    BY <1>15, <2>1, <2>2, <1>pc, <1>dw DEF BumpRetry
  <2>3. CASE disp[s].rc # "isolation"
    BY <1>15, <2>1, <2>3, LeaveTyped DEF BumpRetry
  <2> QED BY <2>2, <2>3
<1>16. ASSUME Unclaim(s) PROVE TypeInv'
  <2> DEFINE rs == [rows EXCEPT ![RowOf(s)].pid = None]
  <2>1. rs \in [Rows -> Row]
    BY <1>0, ColumnWrites
  <2>2. Leave(s, rs)
    BY <1>16 DEF Unclaim
  <2> QED BY <1>16, <2>1, <2>2, LeaveTyped DEF Unclaim
<1> QED BY <1>1, <1>2, <1>3, <1>4, <1>5, <1>6, <1>7, <1>8, <1>9, <1>10, <1>11, <1>12,
           <1>14, <1>15, <1>16 DEF DispatcherStep

\* A crash, and the steps of launchers and agents.
LEMMA TypeProcesses ==
    ASSUME TypeInv, NEW s \in Slots
    PROVE  /\ Crash(s) => TypeInv'
           /\ KidStep(s) => TypeInv'
<1>1. ASSUME Crash(s) PROVE TypeInv'
  <2>1. AfterKill({DispatcherPid(s)}) /\ Bury(KilledPids({DispatcherPid(s)}))
    BY <1>1 DEF Crash
  <2>2. crashes' \in Nat
    BY <1>1 DEF Crash
  <2> QED BY <1>1, <2>1, <2>2, KillTyped, BuryTyped DEF Crash
<1>2. ASSUME AgentStarts(s) PROVE TypeInv'
  BY <1>2 DEF AgentStarts, KidStates, Live
<1>3. ASSUME GateBlocks(s) PROVE TypeInv'
  <2> KidEnds(s, "blocked") /\ "blocked" \in ExitCodes
    BY <1>3 DEF GateBlocks, ExitCodes
  <2> QED BY KidEndsTyped
<1>4. ASSUME AgentFails(s) PROVE TypeInv'
  <2>1. PICK rc \in Failures : KidEnds(s, rc)
    BY <1>4 DEF AgentFails
  <2>2. rc \in ExitCodes
    BY FailuresAssumption DEF ExitCodes
  <2> QED BY <2>1, <2>2, KidEndsTyped
<1>5. ASSUME AgentFinishes(s) PROVE TypeInv'
  <2> KidEnds(s, "ok") /\ "ok" \in ExitCodes
    BY <1>5 DEF AgentFinishes, ExitCodes
  <2> QED BY KidEndsTyped
<1> QED BY <1>1, <1>2, <1>3, <1>4, <1>5 DEF KidStep

\* An INSERT, refused or not, leaves a table.
LEMMA InsertTyped ==
    ASSUME TypeInv, NEW t \in TaskIds, NEW a \in Agents, Insert(t, a)
    PROVE  rows' \in [Rows -> Row]
BY NewRows DEF Insert

\* The job the watcher may begin, and the state it leaves at the end.
LEMMA EndTyped ==
    ASSUME TypeInv, EndJob
    PROVE  /\ watch' \in [job : Jobs \cup {"none"}, todo : SUBSET Rows, task : TaskIds \cup {None},
                          saw : [TaskIds -> TaskRec] \cup {None}]
           /\ watch'.job = "none"
           /\ snap' \in [Rows -> Row]
BY NewRows DEF EndJob, NoJob

\* A batch job writes a row, skips it, or is left.
LEMMA BatchTyped ==
    ASSUME TypeInv, NEW r \in Rows, NEW ts \in [TaskIds -> TaskRec], NEW new \in Row,
           watch.job # "enqueue",
           Requeue(r, new, ts) \/ Skip(r) \/ Write(r, [CurRows EXCEPT ![r] = new], ts)
    PROVE  TypeInv'
<1>1. CASE Skip(r)
  BY <1>1 DEF Skip
<1>2. CASE Write(r, [CurRows EXCEPT ![r] = new], ts)
  <2>1. txn' \in TxnRec
    BY <1>2, CurTyped DEF Write, TxnRec
  <2> QED BY <1>2, <2>1 DEF Write
<1>3. CASE Abort
  BY <1>3, EndTyped DEF Abort
<1> QED BY <1>1, <1>2, <1>3 DEF Requeue

\* A step of the watcher.
LEMMA TypeWatcher ==
    ASSUME TypeInv
    PROVE  /\ \A j \in Jobs : Begin(j) => TypeInv'
           /\ \A t \in TaskIds : EnqueueBegin(t) => TypeInv'
           /\ WatcherStep => TypeInv'
<1>0. /\ {"launched", "paused", "failed"} \subseteq RowStatuses
      /\ {"none", "other"} \subseteq Reasons
  BY DEF RowStatuses, Reasons
<1>1. ASSUME NEW j \in Jobs, Begin(j) PROVE TypeInv'
  <2>1. \A row \in Row : ReadBy(j, row) \in Row
    BY NewRows DEF ReadBy, Row
  <2>2. snap' \in [Rows -> Row]
    BY <1>1, <2>1, NewRows DEF Begin
  <2>3. Selected(j) \subseteq Rows
    BY DEF Selected
  <2>4. j # "enqueue"
    BY <1>1 DEF Begin
  <2> QED BY <1>1, <2>2, <2>3, <2>4 DEF Begin, NoJob
<1>2. ASSUME NEW t \in TaskIds, EnqueueBegin(t) PROVE TypeInv'
  BY <1>2 DEF EnqueueBegin, NoJob
<1>look. ASSUME NEW r \in Rows, Look(r) PROVE TypeInv'
  BY <1>look DEF Look
<1>3. ASSUME NEW r \in Rows, RetryRow(r) PROVE TypeInv'
  <2> DEFINE why == IF snap[r].reason = "none" THEN "other" ELSE snap[r].reason
  <2>1. snap[r].retry + 1 \in Nat /\ why \in Reasons
    BY <1>0 DEF Row
  <2>2. Retried(CurRows[r], snap[r].retry + 1, why) \in Row
    BY <2>1, CurTyped, RowWrites
  <2>3. watch.job # "enqueue" /\ Requeue(r, Retried(CurRows[r], snap[r].retry + 1, why), CurTask)
    BY <1>3 DEF RetryRow, AtRow
  <2> QED BY <2>2, <2>3, CurTyped, BatchTyped
<1>4. ASSUME NEW r \in Rows, ReassignRow(r) PROVE TypeInv'
  <2> DEFINE new == Reassigned(CurRows[r], FallbackOwner, FallbackMaxRetries)
             ts == [CurTask EXCEPT ![snap[r].task].owner = FallbackOwner]
  <2>1. watch.job = "reassign"
    BY <1>4 DEF ReassignRow, AtRow
  <2>2. FallbackOwner \in Agents /\ FallbackMaxRetries \in Nat
    BY <2>1, FallbackAssumption, BudgetAssumption
  <2>3. new \in Row
    BY <2>2, CurTyped, RowWrites
  <2>4. ts \in [TaskIds -> TaskRec]
    <3>1. \A x \in TaskRec : [x EXCEPT !.owner = FallbackOwner] \in TaskRec
      BY <2>2 DEF TaskRec
    <3> QED BY <3>1, CurTyped
  <2>5. Skip(r) \/ Requeue(r, new, ts)
    BY <1>4 DEF ReassignRow
  <2> QED BY <2>1, <2>3, <2>4, <2>5, BatchTyped
<1>5. \A t : Escalated(t) \in [TaskIds -> TaskRec]
  <2>1. \A x \in TaskRec : [x EXCEPT !.status = "waiting_input"] \in TaskRec
    BY LegalMoves DEF TaskRec
  <2> QED BY <2>1, CurTyped DEF Escalated
<1>6. ASSUME NEW r \in Rows, RecoverBlocked(r) PROVE TypeInv'
  <2>1. MarkedDone(CurRows[r]) \in Row
    BY CurTyped, RowWrites
  <2>2. /\ watch.job # "enqueue"
        /\ \/ Skip(r)
           \/ Write(r, [CurRows EXCEPT ![r] = MarkedDone(CurRows[r])], Escalated(snap[r].task))
    BY <1>6 DEF RecoverBlocked, AtRow
  <2> QED BY <1>5, <2>1, <2>2, BatchTyped
<1>7. ASSUME NEW r \in Rows, RecoverFinished(r) PROVE TypeInv'
  <2>1. MarkedDone(CurRows[r]) \in Row
    BY CurTyped, RowWrites
  <2> QED BY <1>5, <1>7, <2>1, BatchTyped DEF RecoverFinished, AtRow
<1>8. ASSUME NEW r \in Rows, RecoverReroute(r) PROVE TypeInv'
  <2>1. PICK a \in FallbackOrder : Requeue(r, Recovered(CurRows[r], a, snap[r].recovery + 1), CurTask)
    BY <1>8 DEF RecoverReroute
  <2>2. a \in Agents /\ snap[r].recovery + 1 \in Nat
    BY OrderAssumption DEF Row
  <2>3. Recovered(CurRows[r], a, snap[r].recovery + 1) \in Row
    BY <2>2, CurTyped, RowWrites
  <2>4. watch.job # "enqueue"
    BY <1>8 DEF RecoverReroute, Recoverable, AtRow
  <2> QED BY <2>1, <2>3, <2>4, CurTyped, BatchTyped
<1>9. ASSUME NEW r \in Rows, RecoverEscalate(r) PROVE TypeInv'
  <2>1. MarkedFailed(CurRows[r]) \in Row
    BY CurTyped, RowWrites
  <2>2. /\ watch.job # "enqueue"
        /\ Write(r, [CurRows EXCEPT ![r] = MarkedFailed(CurRows[r])], Escalated(snap[r].task))
    BY <1>9 DEF RecoverEscalate, Recoverable, AtRow
  <2> QED BY <1>5, <2>1, <2>2, BatchTyped
<1>10. ASSUME Commit PROVE TypeInv'
  BY <1>10, CurTyped, EndTyped DEF Commit
<1>11. ASSUME NEW old \in SUBSET Rows, ZombieJudge(old) PROVE TypeInv'
  <2>1. \A r \in Rows : Verdict(r, old) \in RowStatuses
    BY DEF Verdict, Row, RowStatuses
  <2>2. CASE EndJob
    BY <1>11, <2>2, EndTyped, KillTyped, BuriedRows DEF ZombieJudge
  <2>3. CASE /\ watch' = [watch EXCEPT !.todo = {}]
             /\ snap' = [r \in Rows |-> [snap[r] EXCEPT !.status = Verdict(r, old), !.pid = None]]
    <3>1. None \in Pids
      BY DEF Pids
    <3>2. \A row \in Row, to \in RowStatuses : [row EXCEPT !.status = to, !.pid = None] \in Row
      BY <3>1 DEF Row
    <3>3. snap' \in [Rows -> Row]
      BY <2>1, <2>3, <3>2
    <3> QED BY <1>11, <2>3, <3>3, KillTyped, BuriedRows DEF ZombieJudge
  <2> QED BY <1>11, <2>2, <2>3 DEF ZombieJudge
<1>12. ASSUME ZombieWrite PROVE TypeInv'
  <2>1. \A r \in Rows : Moved(rows[r], "launched", snap[r].status, "none") \in Row
    <3> \A r \in Rows : snap[r].status \in RowStatuses
      BY DEF Row
    <3> QED BY <1>0, RowWrites
  <2>2. rows' \in [Rows -> Row]
    BY <1>12, <2>1 DEF ZombieWrite
  <2> QED BY <1>12, <2>2, EndTyped DEF ZombieWrite
<1>13. ASSUME PausedWrite PROVE TypeInv'
  <2>1. rows' \in [Rows -> Row]
    BY <1>0, <1>13, RowWrites DEF PausedWrite
  <2> QED BY <1>13, <2>1, EndTyped DEF PausedWrite
<1>14. ASSUME EnqueueWrite PROVE TypeInv'
  <2>1. watch.task \in TaskIds /\ task[watch.task].owner \in Agents
    BY <1>14 DEF EnqueueWrite, TaskRec
  <2>2. rows' \in [Rows -> Row]
    BY <1>14, <2>1, InsertTyped DEF EnqueueWrite
  <2> QED BY <1>14, <2>2, EndTyped DEF EnqueueWrite
<1> QED BY <1>1, <1>2, <1>look, <1>3, <1>4, <1>6, <1>7, <1>8, <1>9, <1>10, <1>11, <1>12, <1>13,
           <1>14 DEF WatcherStep

\* A command, the dashboard or the hook.
LEMMA TypeCommands ==
    ASSUME TypeInv, NEW t \in TaskIds
    PROVE  /\ \A a \in Agents : Enqueue(t, a) => TypeInv'
           /\ \A st \in ReportedStatuses : ReportStatus(t, st) => TypeInv'
           /\ \A st \in OperatorStatuses : SetTaskStatus(t, st) => TypeInv'
           /\ CommandStep(t) => TypeInv'
           /\ HookRead(t) => TypeInv'
<1>0. \A st \in Legal[task[t].status] : [task EXCEPT ![t].status = st] \in [TaskIds -> TaskRec]
  BY LegalMoves DEF TaskRec
<1>1. ASSUME NEW a \in Agents, Enqueue(t, a) PROVE TypeInv'
  BY <1>1, InsertTyped DEF Enqueue
<1>2. ASSUME NEW st, ReportStatus(t, st) PROVE TypeInv'
  <2>1. task' \in [TaskIds -> TaskRec]
    BY <1>0, <1>2 DEF ReportStatus
  <2>2. cli' \subseteq [task : TaskIds, op : {"done", "failed", "ensure"}]
    BY <1>2 DEF ReportStatus
  <2> QED BY <1>2, <2>1, <2>2 DEF ReportStatus
<1>3. ASSUME NEW st, SetTaskStatus(t, st) PROVE TypeInv'
  <2>1. task' \in [TaskIds -> TaskRec]
    BY <1>0, <1>3 DEF SetTaskStatus
  <2>2. cli' \subseteq [task : TaskIds, op : {"done", "failed", "ensure"}]
    BY <1>3 DEF SetTaskStatus
  <2> QED BY <1>3, <2>1, <2>2 DEF SetTaskStatus
<1>4. ASSUME NEW to \in {"done", "failed"}, SyncInbox(t, to) PROVE TypeInv'
  <2>1. \A row \in Row : [row EXCEPT !.status = to] \in Row
    BY DEF Row, RowStatuses
  <2>2. rows' \in [Rows -> Row]
    BY <1>4, <2>1 DEF SyncInbox
  <2> QED BY <1>4, <2>2 DEF SyncInbox
<1>5. ASSUME EnsureActiveInbox(t) PROVE TypeInv'
  <2>1. task[t].owner \in Agents
    BY DEF TaskRec
  <2>2. rows' \in [Rows -> Row]
    BY <1>5, <2>1, InsertTyped DEF EnsureActiveInbox
  <2> QED BY <1>5, <2>2 DEF EnsureActiveInbox
<1>6. ASSUME HookRead(t) PROVE TypeInv'
  BY <1>6 DEF HookRead
<1>7. ASSUME HookStop(t) PROVE TypeInv'
  <2>1. task' \in [TaskIds -> TaskRec]
    BY <1>0, <1>7 DEF HookStop
  <2> QED BY <1>7, <2>1 DEF HookStop
<1>8. ASSUME HookSync(t) PROVE TypeInv'
  <2>1. "stopped" \in RowStatuses
    BY DEF RowStatuses
  <2>2. \A r \in Rows : Synced(rows[r], t, "stopped") \in Row
    BY <2>1, RowWrites
  <2>3. rows' \in [Rows -> Row]
    BY <1>8, <2>2 DEF HookSync
  <2> QED BY <1>8, <2>3 DEF HookSync
<1>9. ASSUME HookPause(t) PROVE TypeInv'
  <2>1. "paused" \in RowStatuses /\ "none" \in Reasons
    BY DEF RowStatuses, Reasons
  <2>2. \A r \in Rows : rows[r] \in Row /\ rows[r].status \in RowStatuses
    BY DEF Row
  <2>3. \A r \in Rows : Moved(rows[r], rows[r].status, "paused", "none") \in Row
    BY <2>1, <2>2, RowWrites
  <2>4. rows' \in [Rows -> Row]
    BY <1>9, <2>3 DEF HookPause
  <2> QED BY <1>9, <2>4 DEF HookPause
<1> QED BY <1>1, <1>2, <1>3, <1>4, <1>5, <1>6, <1>7, <1>8, <1>9 DEF CommandStep

LEMMA TypeNext == TypeInv /\ [Next]_vars => TypeInv'
<1>1. ASSUME TypeInv, Next PROVE TypeInv'
  BY <1>1, TypeDispatcher, TypeProcesses, TypeWatcher, TypeCommands DEF Next
<1>2. ASSUME TypeInv, UNCHANGED vars PROVE TypeInv'
  BY <1>2 DEF vars
<1> QED BY <1>1, <1>2

\* Every column and process variable always holds a value of its type.
THEOREM TypeCorrect == Spec => []TypeOK
<1>1. TypeInv => TypeOK
  OBVIOUS
<1> QED BY <1>1, TypeInit, TypeNext, PTL DEF Spec
-----------------------------------------------------------------------------
(* What every process but the watcher leaves alone.                         *)

\* Row r is in the table rs but not yet in the table as it is.
Added(rs, r) == rows[r].status = "absent" /\ rs[r].status # "absent"

\* From the table as it is to the table rs: rows that are over keep their status;
\* rows that exist go on existing with their task, agent and budget; at most one
\* row is added, for a task, with the default budget, and no duplicate.
Calm(rs) ==
    \A r \in Rows :
        /\ rows[r].status \in {"failed", "done"} => rs[r].status = rows[r].status
        /\ rows[r].status # "absent" => /\ rs[r].status # "absent"
                                        /\ rs[r].task = rows[r].task
                                        /\ rs[r].agent = rows[r].agent
                                        /\ rs[r].max = rows[r].max
        /\ rs[r].max \in {rows[r].max, DefaultMaxRetries}
        /\ Added(rs, r) => /\ rs[r].task \in TaskIds
                           /\ ~Duplicate(rows, rs[r].task, rs[r].agent)
                           /\ \A q \in Rows : Added(rs, q) => q = r

LEMMA CalmRows == Calm(rows)
BY DEF Calm, Added

LEMMA CalmBuried ==
    ASSUME NEW rs \in [Rows -> Row], NEW P, Calm(rs)
    PROVE  Calm(Buried(rs, P))
BY BuriedRows DEF Calm, Added

\* update_status from an active status.
LEMMA CalmMoved ==
    ASSUME TypeInv, NEW row \in Row, NEW from, NEW to, NEW why
    PROVE  /\ Moved(row, from, to, why).task = row.task
           /\ Moved(row, from, to, why).agent = row.agent
           /\ Moved(row, from, to, why).max = row.max
           /\ Moved(row, from, to, why).status = IF row.status = from THEN to ELSE row.status
BY DEF Moved, Row

LEMMA CalmMove ==
    ASSUME TypeInv, NEW r, NEW from \in RowStatuses, from \notin {"absent", "failed", "done"},
           NEW to, to # "absent", NEW why
    PROVE  Calm([rows EXCEPT ![r] = Moved(rows[r], from, to, why)])
<1> DEFINE rs == [rows EXCEPT ![r] = Moved(rows[r], from, to, why)]
<1>1. ASSUME NEW q \in Rows, q # r PROVE rs[q] = rows[q]
  BY <1>1
<1>2. ASSUME r \in Rows PROVE rs[r] = Moved(rows[r], from, to, why)
  BY <1>2
<1> HIDE DEF rs
<1>3. Calm(rs)
  <2>1. ASSUME NEW q \in Rows
        PROVE  /\ rs[q].task = rows[q].task /\ rs[q].agent = rows[q].agent
               /\ rs[q].max = rows[q].max
               /\ \/ rs[q].status = rows[q].status
                  \/ rows[q].status = from /\ rs[q].status = to
    <3>1. CASE q = r
      <4>1. rs[q] = Moved(rows[q], from, to, why) /\ rows[q] \in Row
        BY <1>2, <3>1
      <4>2. CASE rows[q].status = from
        BY <4>1, <4>2, CalmMoved
      <4>3. CASE rows[q].status # from
        BY <4>1, <4>3, CalmMoved
      <4> QED BY <4>2, <4>3
    <3>2. CASE q # r
      BY <1>1, <3>2
    <3> QED BY <3>1, <3>2
  <2> QED BY <2>1 DEF Calm, Added
<1> QED BY <1>3 DEF rs

\* set_field and claim_next of other columns.
LEMMA CalmColumns ==
    ASSUME TypeInv, NEW r, NEW v
    PROVE  /\ Calm([rows EXCEPT ![r].pid = v])
           /\ Calm([rows EXCEPT ![r].retry = v])
           /\ Calm([rows EXCEPT ![r].reason = v])
BY DEF Calm, Row, Added

\* An INSERT.
LEMMA CalmInsert ==
    ASSUME TypeInv, NEW t \in TaskIds, NEW a \in Agents, Insert(t, a)
    PROVE  Calm(rows')
<1>1. CASE UNCHANGED rows
  BY <1>1, CalmRows
<1>2. ASSUME NEW r \in Rows, NextRow(r), rows' = [rows EXCEPT ![r] = Enqueued(t, a)],
             ~Duplicate(rows, t, a)
      PROVE  Calm(rows')
  <2>1. /\ rows[r].status = "absent" /\ rows'[r].max = DefaultMaxRetries
        /\ rows'[r].status = "pending" /\ rows'[r].task = t /\ rows'[r].agent = a
    BY <1>2 DEF NextRow, Enqueued
  <2>2. \A q \in Rows : q # r => rows'[q] = rows[q]
    BY <1>2
  <2> QED BY <1>2, <2>1, <2>2 DEF Calm, Added
<1> QED BY <1>1, <1>2 DEF Insert

\* The columns of row r, pids and counters aside, are the same in rs and qs.
Alike(rs, qs, r) ==
    /\ rs[r].status = qs[r].status /\ rs[r].task = qs[r].task
    /\ rs[r].agent = qs[r].agent /\ rs[r].max = qs[r].max

\* Every task that moves does so along the lifecycle graph.
OnGraph ==
    \A t \in TaskIds : \/ task'[t].status = task[t].status
                       \/ task'[t].status \in Legal[task[t].status]

\* A step of any process but the watcher.
Outside ==
    /\ Calm(rows')
    /\ txn # None => task' = task /\ \A r \in Rows : Alike(rows', rows, r)
    /\ OnGraph
    /\ watch' = watch
    /\ \A r \in Rows : Alike(snap', snap, r)
    /\ IF txn = None THEN txn' = None
       ELSE /\ txn' # None /\ txn'.task = txn.task
            /\ \A r \in Rows : Alike(txn'.rows, txn.rows, r)

LEMMA OutsideLeave ==
    ASSUME TypeInv, txn = None, UNCHANGED <<watch, txn, task>>, NEW s \in Slots,
           NEW rs \in [Rows -> Row], Leave(s, rs), Calm(rs)
    PROVE  Outside
BY CalmBuried, BuriedRows DEF Leave, Outside, Alike, OnGraph

LEMMA OutsideBury ==
    ASSUME TypeInv, NEW P, Bury(P), UNCHANGED <<watch, task>>
    PROVE  Outside
<1>1. Calm(rows')
  BY CalmRows, CalmBuried DEF Bury
<1>2. \A r \in Rows : Alike(rows', rows, r) /\ Alike(snap', snap, r)
  BY BuriedRows DEF Bury, Alike
<1>3. CASE txn = None
  BY <1>1, <1>2, <1>3 DEF Bury, Outside, OnGraph
<1>4. CASE txn # None
  <2>1. txn \in TxnRec
    BY <1>4
  <2>2. txn' \in TxnRec /\ txn'.rows = Buried(txn.rows, P) /\ txn'.task = txn.task
    BY <1>4, <2>1, BuriedRows DEF Bury, TxnRec
  <2>3. txn' # None
    BY <2>2, TxnAssumption
  <2>4. \A r \in Rows : Alike(txn'.rows, txn.rows, r)
    BY <2>1, <2>2, BuriedRows DEF TxnRec, Alike
  <2> QED BY <1>1, <1>2, <1>4, <2>2, <2>3, <2>4 DEF Outside, OnGraph
<1> QED BY <1>3, <1>4

LEMMA OutsideSame ==
    ASSUME TypeInv, UNCHANGED <<rows, watch, snap, txn, task>>
    PROVE  Outside
BY CalmRows DEF Outside, Alike, OnGraph

LEMMA OutsideWrite ==
    ASSUME TypeInv, txn = None, Calm(rows'), UNCHANGED <<watch, snap, txn, task>>
    PROVE  Outside
BY DEF Outside, Alike, OnGraph

\* A command or hook that moves the task, along the graph.
LEMMA OutsideMove ==
    ASSUME TypeInv, txn = None, UNCHANGED <<rows, watch, snap, txn>>, OnGraph
    PROVE  Outside
BY CalmRows DEF Outside, Alike

LEMMA OutsideDispatcher ==
    ASSUME TypeInv, NEW s \in Slots
    PROVE  /\ \A a \in Agents : Claim(s, a) => Outside
           /\ DispatcherStep(s) => Outside
<1>0. {"pending", "launched", "running"} \subseteq RowStatuses
  BY DEF RowStatuses
<1>a. ASSUME NEW from \in {"pending", "launched", "running"}, NEW to, to # "absent", NEW why
      PROVE  Calm([rows EXCEPT ![RowOf(s)] = Moved(rows[RowOf(s)], from, to, why)])
  BY <1>0, <1>a, CalmMove
<1>b. /\ {"pending", "paused", "failed", "done"} \subseteq RowStatuses
      /\ {"none", "blocked", "other"} \subseteq Reasons
      /\ None \in Pids
      /\ \A rc : ReasonOf(rc) \in Reasons
      /\ disp[s].final \in RowStatuses /\ disp[s].final # "absent"
  BY DEF RowStatuses, Reasons, Pids, ReasonOf, Disp
<1>1. ASSUME NEW a \in Agents, Claim(s, a) PROVE Outside
  <2>1. PICK r \in Rows : /\ NextPending(rows, a, r)
                          /\ rows' = [rows EXCEPT ![r] = Claimed(rows[r], DispatcherPid(s))]
    BY <1>1 DEF Claim
  <2>2. /\ rows[r].status = "pending" /\ rows'[r].status = "launched"
        /\ rows'[r].task = rows[r].task /\ rows'[r].agent = rows[r].agent
        /\ rows'[r].max = rows[r].max
        /\ \A q \in Rows : q # r => rows'[q] = rows[q]
    BY <2>1 DEF NextPending, Claimed, Row
  <2>3. Calm(rows')
    BY <2>2 DEF Calm, Added
  <2> QED BY <1>1, <2>3, OutsideWrite DEF Claim, DbFree
<1>2. ASSUME ResolveOk(s) PROVE Outside
  BY <1>2, OutsideSame DEF ResolveOk
<1>3. ASSUME ResolveDirty(s) PROVE Outside
  <2> DEFINE rs == [rows EXCEPT ![RowOf(s)] = Moved(rows[RowOf(s)], "pending", "paused", "none")]
  <2>1. rs \in [Rows -> Row]
    BY <1>0, <1>b, RowWrites
  <2>2. Leave(s, rs) /\ Calm(rs)
    BY <1>3, <1>a DEF ResolveDirty
  <2> HIDE DEF rs
  <2> QED BY <1>3, <2>1, <2>2, OutsideLeave DEF ResolveDirty, DbFree
<1>4. ASSUME ResolveIsolation(s) PROVE Outside
  BY <1>4, OutsideSame DEF ResolveIsolation
<1>5. ASSUME Spawn(s) PROVE Outside
  BY <1>5, OutsideSame DEF Spawn
<1>6. ASSUME RecordPid(s) PROVE Outside
  BY <1>6, CalmColumns, OutsideWrite DEF RecordPid, DbFree
<1>7. ASSUME ClearPid(s) PROVE Outside
  BY <1>7, CalmColumns, OutsideWrite DEF ClearPid, DbFree
<1>8. ASSUME MarkFailed(s) PROVE Outside
  BY <1>8, <1>a, OutsideWrite DEF MarkFailed, DbFree
<1>9. ASSUME SetReason(s) PROVE Outside
  BY <1>9, CalmColumns, OutsideWrite DEF SetReason, DbFree
<1>10. ASSUME LockTimeout(s) PROVE Outside
  <2>1. CASE UNCHANGED <<rows, snap>>
    BY <1>10, <2>1, OutsideSame DEF LockTimeout
  <2>2. CASE Leave(s, rows)
    BY <1>10, <2>2, CalmRows, OutsideLeave DEF LockTimeout, DbFree
  <2> QED BY <1>10, <2>1, <2>2 DEF LockTimeout
<1>11. ASSUME Reconcile(s) PROVE Outside
  BY <1>11, OutsideSame DEF Reconcile
<1>12. ASSUME Settle(s) PROVE Outside
  BY <1>12, <1>a, <1>b, OutsideWrite DEF Settle, DbFree
<1>13. Mirrored(s) \in [Rows -> Row] /\ Calm(Mirrored(s))
  <2>1. ASSUME NEW from \in {"pending", "launched", "running"}, rows[RowOf(s)].status = from
        PROVE  Mirrored(s) \in [Rows -> Row] /\ Calm(Mirrored(s))
    <3> DEFINE why == ReasonOf(disp[s].rc)
           rs == [rows EXCEPT ![RowOf(s)] = Moved(rows[RowOf(s)], from, disp[s].final, why)]
    <3>1. Mirrored(s) = rs
      BY <2>1 DEF Mirrored
    <3>2. Calm(rs)
      BY <1>a, <1>b
    <3>3. rs \in [Rows -> Row]
      <4>1. RowOf(s) \in Rows => Moved(rows[RowOf(s)], from, disp[s].final, why) \in Row
        BY <1>0, <1>b, RowWrites
      <4> QED BY <4>1
    <3> HIDE DEF rs
    <3> QED BY <3>1, <3>2, <3>3
  <2>2. CASE rows[RowOf(s)].status \notin {"pending", "launched", "running"}
    BY <2>2, CalmRows DEF Mirrored
  <2> QED BY <2>1, <2>2
<1>14. ASSUME Mirror(s) PROVE Outside
  <2>1. CASE disp[s].rc \in NotRetryable
    BY <1>13, <1>14, <2>1, OutsideWrite DEF Mirror, DbFree
  <2>2. CASE disp[s].rc \notin NotRetryable
    BY <1>13, <1>14, <2>2, OutsideLeave DEF Mirror, DbFree
  <2> QED BY <2>1, <2>2
<1>15. ASSUME BumpRetry(s) PROVE Outside
  <2> DEFINE bumped == [rows EXCEPT ![RowOf(s)].retry = disp[s].max]
  <2>1. bumped \in [Rows -> Row]
    <3> disp[s].max \in Nat
      BY DEF Disp
    <3> QED BY ColumnWrites
  <2>2. Calm(bumped)
    BY CalmColumns
  <2>3. IF disp[s].rc = "isolation" THEN rows' = bumped /\ snap' = snap ELSE Leave(s, bumped)
    BY <1>15 DEF BumpRetry
  <2> HIDE DEF bumped
  <2>4. CASE disp[s].rc = "isolation"
    BY <1>15, <2>2, <2>3, <2>4, OutsideWrite DEF BumpRetry, DbFree
  <2>5. CASE disp[s].rc # "isolation"
    BY <1>15, <2>1, <2>2, <2>3, <2>5, OutsideLeave DEF BumpRetry, DbFree
  <2> QED BY <2>4, <2>5
<1>16. ASSUME Unclaim(s) PROVE Outside
  <2> DEFINE rs == [rows EXCEPT ![RowOf(s)].pid = None]
  <2>1. rs \in [Rows -> Row] /\ Calm(rs)
    BY <1>b, ColumnWrites, CalmColumns
  <2>2. Leave(s, rs)
    BY <1>16 DEF Unclaim
  <2> HIDE DEF rs
  <2> QED BY <1>16, <2>1, <2>2, OutsideLeave DEF Unclaim, DbFree
<1> QED BY <1>1, <1>2, <1>3, <1>4, <1>5, <1>6, <1>7, <1>8, <1>9, <1>10, <1>11, <1>12,
           <1>14, <1>15, <1>16 DEF DispatcherStep

LEMMA OutsideProcesses ==
    ASSUME TypeInv, NEW s \in Slots
    PROVE  /\ Crash(s) => Outside
           /\ KidStep(s) => Outside
<1>1. ASSUME Crash(s) PROVE Outside
  BY <1>1, OutsideBury DEF Crash
<1>2. ASSUME AgentStarts(s) PROVE Outside
  BY <1>2, OutsideSame DEF AgentStarts
<1>3. ASSUME NEW rc, KidEnds(s, rc) PROVE Outside
  <2>1. CASE disp[s].pc = "crashed"
    BY <1>3, <2>1, OutsideBury DEF KidEnds
  <2>2. CASE disp[s].pc # "crashed"
    BY <1>3, <2>2, OutsideSame DEF KidEnds
  <2> QED BY <2>1, <2>2
<1> QED BY <1>1, <1>2, <1>3 DEF KidStep, GateBlocks, AgentFails, AgentFinishes

LEMMA OutsideCommands ==
    ASSUME TypeInv, NEW t \in TaskIds
    PROVE  /\ \A a \in Agents : Enqueue(t, a) => Outside
           /\ \A st \in ReportedStatuses : ReportStatus(t, st) => Outside
           /\ \A st \in OperatorStatuses : SetTaskStatus(t, st) => Outside
           /\ CommandStep(t) => Outside
           /\ HookRead(t) => Outside
<1>1. ASSUME NEW a \in Agents, Enqueue(t, a) PROVE Outside
  BY <1>1, CalmInsert, OutsideWrite DEF Enqueue, DbFree
<1>2. ASSUME NEW st, ReportStatus(t, st) \/ SetTaskStatus(t, st) PROVE Outside
  <2>1. st \in Legal[task[t].status] /\ task' = [task EXCEPT ![t].status = st]
    BY <1>2 DEF ReportStatus, SetTaskStatus
  <2>2. OnGraph
    BY <2>1 DEF OnGraph, TaskRec
  <2> QED BY <1>2, <2>2, OutsideMove DEF ReportStatus, SetTaskStatus, DbFree
<1>3. ASSUME NEW to, SyncInbox(t, to) PROVE Outside
  <2>1. \A r \in Rows : /\ rows'[r].task = rows[r].task /\ rows'[r].agent = rows[r].agent
                        /\ rows'[r].max = rows[r].max
                        /\ \/ rows'[r].status = rows[r].status
                           \/ /\ rows[r].status \in {"pending", "launched", "running"}
                              /\ rows'[r].status = to
    BY <1>3 DEF SyncInbox, Row
  <2>2. to # "absent"
    BY <1>3 DEF SyncInbox
  <2>3. Calm(rows')
    BY <2>1, <2>2 DEF Calm, Added
  <2> QED BY <1>3, <2>3, OutsideWrite DEF SyncInbox, DbFree
<1>4. ASSUME EnsureActiveInbox(t) PROVE Outside
  <2>1. task[t].owner \in Agents
    BY DEF TaskRec
  <2>2. Calm(rows')
    BY <1>4, <2>1, CalmRows, CalmInsert DEF EnsureActiveInbox
  <2> QED BY <1>4, <2>2, OutsideWrite DEF EnsureActiveInbox, DbFree
<1>5. ASSUME HookRead(t) PROVE Outside
  BY <1>5, OutsideSame DEF HookRead
<1>8. ASSUME HookStop(t) PROVE Outside
  <2>1. OnGraph
    BY <1>8 DEF HookStop, OnGraph, TaskRec
  <2> QED BY <1>8, <2>1, OutsideMove DEF HookStop, DbFree
<1>6. ASSUME HookSync(t) PROVE Outside
  <2> DEFINE rs == [r \in Rows |-> Synced(rows[r], t, "stopped")]
  <2>1. \A r \in Rows : /\ rs[r].task = rows[r].task /\ rs[r].agent = rows[r].agent
                        /\ rs[r].max = rows[r].max
                        /\ \/ rs[r].status = rows[r].status
                           \/ rows[r].status \in Active /\ rs[r].status = "stopped"
    BY DEF Synced, Row
  <2>2. Calm(rs)
    BY <2>1 DEF Calm, Added, Active
  <2>3. Calm(rows')
    BY <1>6, <2>2, CalmRows DEF HookSync
  <2> QED BY <1>6, <2>3, OutsideWrite DEF HookSync, DbFree
<1>7. ASSUME HookPause(t) PROVE Outside
  <2>1. ASSUME NEW r \in Rows, rows[r].status \in {"pending", "launched", "running"}
        PROVE  Calm([rows EXCEPT ![r] = Moved(rows[r], rows[r].status, "paused", "none")])
    <3>1. rows[r].status \in RowStatuses
      BY DEF Row
    <3> QED BY <2>1, <3>1, CalmMove
  <2>2. Calm(rows')
    BY <1>7, <2>1, CalmRows DEF HookPause
  <2> QED BY <1>7, <2>2, OutsideWrite DEF HookPause, DbFree
<1> QED BY <1>1, <1>2, <1>3, <1>4, <1>5, <1>6, <1>7, <1>8 DEF CommandStep

-----------------------------------------------------------------------------
(* Rows that are done.                                                      *)

Batch == {"retry", "reassign", "recover"}

\* While a batch job has rows left to deal with, they are failed: nobody but the
\* watcher takes a row out of failed. Hence its transaction differs from the
\* table in rows that are failed there, and only in these.
BatchInv ==
    /\ txn # None => /\ watch.job \in Batch
                     /\ \A r \in Rows : rows[r].status # "failed" =>
                                          txn.rows[r].status = rows[r].status
    /\ watch.job \in Batch => \A r \in watch.todo : CurRows[r].status = "failed"

LEMMA BatchOutside ==
    ASSUME TypeInv, BatchInv, Outside
    PROVE  BatchInv' /\ DoneStays
<1>1. DoneStays
  BY DEF Outside, Calm, DoneStays
<1>2. CASE txn = None
  <2>1. txn' = None /\ watch' = watch
    BY <1>2 DEF Outside
  <2>2. CurRows = rows /\ CurRows' = rows'
    BY <1>2, <2>1 DEF CurRows
  <2>3. \A r \in Rows : rows[r].status = "failed" => rows'[r].status = "failed"
    BY DEF Outside, Calm
  <2> QED BY <1>1, <2>1, <2>2, <2>3 DEF BatchInv
<1>3. CASE txn # None
  <2>1. /\ txn' # None /\ watch' = watch
        /\ \A r \in Rows : /\ txn'.rows[r].status = txn.rows[r].status
                           /\ rows'[r].status = rows[r].status
    BY <1>3 DEF Outside, Alike
  <2>2. CurRows = txn.rows /\ CurRows' = txn'.rows
    BY <1>3, <2>1 DEF CurRows
  <2> QED BY <1>1, <1>3, <2>1, <2>2 DEF BatchInv
<1> QED BY <1>2, <1>3

\* A batch job at row r.
LEMMA BatchRow ==
    ASSUME TypeInv, BatchInv, NEW r \in Rows, NEW j \in Batch, AtRow(j, r),
           NEW ts, NEW new,
           Requeue(r, new, ts) \/ Skip(r) \/ Write(r, [CurRows EXCEPT ![r] = new], ts)
    PROVE  BatchInv' /\ DoneStays
<1>0. /\ watch.job = j /\ r \in watch.todo
      /\ CurRows \in [Rows -> Row]
      /\ CurRows[r].status = "failed"
      /\ \A q \in Rows : rows[q].status # "failed" => CurRows[q].status = rows[q].status
  BY CurTyped DEF AtRow, BatchInv, CurRows
<1>1. CASE Skip(r)
  BY <1>0, <1>1 DEF Skip, BatchInv, DoneStays, CurRows
<1>2. CASE Write(r, [CurRows EXCEPT ![r] = new], ts)
  <2> DEFINE rs == [CurRows EXCEPT ![r] = new]
  <2>1. \A q \in Rows : q # r => rs[q] = CurRows[q]
    OBVIOUS
  <2>2. /\ txn' = [rows |-> rs, task |-> ts]
        /\ watch'.job = watch.job /\ watch'.todo = watch.todo \ {r}
        /\ rows' = rows
    BY <1>2 DEF Write
  <2> HIDE DEF rs
  <2>3. txn'.rows = rs /\ rows[r].status \in {"failed"} \cup {CurRows[r].status}
    BY <1>0, <2>2
  <2>4. CurRows' \in {rs, rows}
    BY <2>2, <2>3 DEF CurRows
  <2>5. \A q \in Rows : rows[q].status # "failed" => rs[q].status = rows[q].status
    BY <1>0, <2>1
  <2>6. txn' # None => CurRows' = rs
    BY <2>3 DEF CurRows
  <2> QED BY <1>0, <2>1, <2>2, <2>3, <2>4, <2>5, <2>6 DEF BatchInv, DoneStays
<1>3. CASE Abort
  BY <1>3 DEF Abort, EndJob, NoJob, BatchInv, DoneStays, Batch
<1> QED BY <1>1, <1>2, <1>3 DEF Requeue

LEMMA BatchWatcher ==
    ASSUME TypeInv, BatchInv
    PROVE  /\ \A j \in Jobs : Begin(j) => BatchInv' /\ DoneStays
           /\ \A t \in TaskIds : EnqueueBegin(t) => BatchInv' /\ DoneStays
           /\ WatcherStep => BatchInv' /\ DoneStays
<1>0. {"retry", "reassign", "recover"} = Batch /\ "none" \notin Batch /\ "zombies" \notin Batch
      /\ "paused" \notin Batch /\ "enqueue" \notin Batch
  BY DEF Batch
<1>1. ASSUME NEW j \in Jobs, Begin(j) PROVE BatchInv' /\ DoneStays
  <2>1. /\ watch.job = "none" /\ watch'.job = j /\ watch'.todo = Selected(j)
        /\ rows' = rows /\ txn' = txn
    BY <1>1 DEF Begin, NoJob
  <2>2. txn = None
    BY <1>0, <2>1 DEF BatchInv
  <2>3. j \in Batch => \A r \in Selected(j) : rows[r].status = "failed"
    BY DEF Selected, Batch
  <2> QED BY <2>1, <2>2, <2>3 DEF BatchInv, DoneStays, CurRows
<1>2. ASSUME NEW t \in TaskIds, EnqueueBegin(t) PROVE BatchInv' /\ DoneStays
  BY <1>0, <1>2 DEF EnqueueBegin, NoJob, BatchInv, DoneStays
<1>look. ASSUME NEW r \in Rows, Look(r) PROVE BatchInv' /\ DoneStays
  <2>1. /\ watch'.job = watch.job /\ watch'.todo = watch.todo
        /\ UNCHANGED <<rows, txn>>
    BY <1>look DEF Look
  <2> QED BY <2>1 DEF BatchInv, DoneStays, CurRows
<1>3. ASSUME NEW r \in Rows,
             \/ RetryRow(r) \/ ReassignRow(r) \/ RecoverBlocked(r)
             \/ RecoverFinished(r) \/ RecoverReroute(r) \/ RecoverEscalate(r)
      PROVE  BatchInv' /\ DoneStays
  <2>1. \E j \in Batch : \E ts, new :
          /\ AtRow(j, r)
          /\ \/ Requeue(r, new, ts) \/ Skip(r)
             \/ Write(r, [CurRows EXCEPT ![r] = new], ts)
    <3>1. CASE RetryRow(r)
      BY <1>0, <3>1 DEF RetryRow
    <3>2. CASE ReassignRow(r)
      BY <1>0, <3>2 DEF ReassignRow
    <3>3. CASE RecoverBlocked(r)
      BY <1>0, <3>3 DEF RecoverBlocked
    <3>4. CASE RecoverFinished(r)
      BY <1>0, <3>4 DEF RecoverFinished
    <3>5. CASE RecoverReroute(r)
      BY <1>0, <3>5 DEF RecoverReroute, Recoverable
    <3>6. CASE RecoverEscalate(r)
      BY <1>0, <3>6 DEF RecoverEscalate, Recoverable
    <3> QED BY <1>3, <3>1, <3>2, <3>3, <3>4, <3>5, <3>6
  <2>2. PICK j \in Batch : \E ts, new :
          /\ AtRow(j, r)
          /\ \/ Requeue(r, new, ts) \/ Skip(r)
             \/ Write(r, [CurRows EXCEPT ![r] = new], ts)
    BY <2>1
  <2> QED BY <2>2, BatchRow
<1>4. ASSUME Commit PROVE BatchInv' /\ DoneStays
  <2>1. rows' = CurRows /\ txn' = None /\ watch'.job = "none"
    BY <1>4 DEF Commit, EndJob, NoJob
  <2>2. \A r \in Rows : rows[r].status = "done" => CurRows[r].status = "done"
    BY DEF BatchInv, CurRows
  <2> QED BY <1>0, <2>1, <2>2 DEF BatchInv, DoneStays
<1>5. ASSUME NEW old \in SUBSET Rows, ZombieJudge(old) PROVE BatchInv' /\ DoneStays
  <2>1. watch.job = "zombies" /\ txn' = txn
    BY <1>5 DEF ZombieJudge
  <2>2. watch'.job \in {"zombies", "none"}
    <3>1. EndJob => watch'.job = "none"
      BY DEF EndJob, NoJob
    <3>2. watch' = [watch EXCEPT !.todo = {}] => watch'.job = "zombies"
      BY <2>1
    <3> QED BY <1>5, <3>1, <3>2 DEF ZombieJudge
  <2>3. \A r \in Rows : rows'[r].status = rows[r].status
    <3>1. PICK P : rows' = Buried(rows, P)
      BY <1>5 DEF ZombieJudge
    <3> QED BY <3>1, BuriedRows
  <2> QED BY <1>0, <2>1, <2>2, <2>3 DEF BatchInv, DoneStays
<1>6. ASSUME ZombieWrite \/ PausedWrite \/ EnqueueWrite PROVE BatchInv' /\ DoneStays
  <2>1. /\ watch.job \in {"zombies", "paused", "enqueue"} /\ watch'.job = "none" /\ txn' = txn
    BY <1>6 DEF ZombieWrite, PausedWrite, EnqueueWrite, EndJob, NoJob
  <2>2. txn = None
    BY <1>0, <2>1 DEF BatchInv
  <2>3. DoneStays
    <3>1. CASE ZombieWrite
      <4>1. \A r \in Rows : rows[r].status = "done" =>
              Moved(rows[r], "launched", snap[r].status, "none") = rows[r]
        BY DEF Moved
      <4> QED BY <3>1, <4>1 DEF ZombieWrite, DoneStays
    <3>2. CASE PausedWrite
      <4>1. \A r \in Rows : rows[r].status = "done" =>
              Moved(rows[r], "paused", "failed", "none") = rows[r]
        BY DEF Moved
      <4> QED BY <3>2, <4>1 DEF PausedWrite, DoneStays
    <3>3. CASE EnqueueWrite
      <4>1. watch.task \in TaskIds /\ task[watch.task].owner \in Agents
        BY <3>3 DEF EnqueueWrite, TaskRec
      <4> QED BY <3>3, <4>1, CalmRows, CalmInsert DEF EnqueueWrite, Calm, DoneStays
    <3> QED BY <1>6, <3>1, <3>2, <3>3
  <2> QED BY <1>0, <2>1, <2>2, <2>3 DEF BatchInv
<1> QED BY <1>1, <1>2, <1>look, <1>3, <1>4, <1>5, <1>6 DEF WatcherStep

\* Every step is a step of the watcher or leaves alone what Outside names.
LEMMA StepKinds ==
    ASSUME TypeInv, [Next]_vars
    PROVE  \/ Outside
           \/ \E j \in Jobs : Begin(j)
           \/ \E t \in TaskIds : EnqueueBegin(t)
           \/ WatcherStep
<1>1. ASSUME NEW s \in Slots, (\E a \in Agents : Claim(s, a)) \/ DispatcherStep(s)
                              \/ KidStep(s) \/ Crash(s)
      PROVE  Outside
  BY <1>1, OutsideDispatcher, OutsideProcesses
<1>2. ASSUME NEW t \in TaskIds,
             \/ \E a \in Agents : Enqueue(t, a)
             \/ \E st \in ReportedStatuses : ReportStatus(t, st)
             \/ \E st \in OperatorStatuses : SetTaskStatus(t, st)
             \/ CommandStep(t) \/ HookRead(t)
      PROVE  Outside
  BY <1>2, OutsideCommands
<1>3. CASE UNCHANGED vars
  BY <1>3, OutsideSame DEF vars
<1> QED BY <1>1, <1>2, <1>3 DEF Next

LEMMA BatchNext ==
    ASSUME TypeInv, BatchInv, [Next]_vars
    PROVE  BatchInv' /\ DoneStays
BY StepKinds, BatchOutside, BatchWatcher

\* A row that is done stays done, whichever snapshot or transaction a retry, a
\* mirror, a verdict or a hook acts from.
THEOREM DoneNeverResurrected == Spec => DoneIsTerminal
<1>1. Init => BatchInv
  BY DEF Init, NoJob, BatchInv, Batch
<1>2. TypeInv /\ BatchInv /\ [Next]_vars => BatchInv' /\ DoneStays
  BY BatchNext
<1>3. UNCHANGED vars => DoneStays
  BY DEF vars, DoneStays
<1> QED BY <1>1, <1>2, <1>3, TypeInit, TypeNext, PTL DEF Spec, DoneIsTerminal

-----------------------------------------------------------------------------
(* The budget of a row.                                                     *)

\* The recovery adds one to the max_retries of a row as it is, having compared
\* the max_retries it read with the ceiling. The two are the same as long as the
\* row is failed, which BatchInv tells.
BudgetInv ==
    /\ BudgetCapped
    /\ txn # None => \A r \in Rows : txn.rows[r].max <= AbsoluteMaxRetries
    /\ watch.job = "recover" =>
         \A r \in watch.todo : /\ rows[r].max = snap[r].max
                               /\ txn # None => txn.rows[r].max = snap[r].max

LEMMA BudgetOutside ==
    ASSUME TypeInv, BatchInv, BudgetInv, Outside
    PROVE  BudgetInv'
<1>1. BudgetCapped'
  BY BudgetAssumption DEF Outside, Calm, BudgetInv, BudgetCapped
<1>2. watch' = watch /\ \A r \in Rows : snap'[r].max = snap[r].max
  BY DEF Outside, Alike
<1>3. ASSUME NEW r \in watch.todo, watch.job = "recover"
      PROVE  rows'[r].max = snap'[r].max
  <2>1. r \in Rows
    OBVIOUS
  <2>2. rows[r].status = "failed"
    BY <1>3, <2>1 DEF BatchInv, Batch, CurRows
  <2>3. rows'[r].max = rows[r].max
    BY <2>1, <2>2 DEF Outside, Calm
  <2> QED BY <1>2, <1>3, <2>1, <2>3 DEF BudgetInv
<1>4. CASE txn = None
  BY <1>1, <1>2, <1>3, <1>4 DEF Outside, BudgetInv
<1>5. CASE txn # None
  <2>1. txn' # None /\ \A r \in Rows : txn'.rows[r].max = txn.rows[r].max
    BY <1>5 DEF Outside, Alike
  <2> QED BY <1>1, <1>2, <1>3, <1>5, <2>1 DEF BudgetInv
<1> QED BY <1>4, <1>5

\* A batch job that gives row r a budget within the ceiling.
LEMMA BudgetRow ==
    ASSUME TypeInv, BudgetInv, NEW r \in Rows, NEW ts, NEW new,
           new.max <= AbsoluteMaxRetries,
           Requeue(r, new, ts) \/ Skip(r) \/ Write(r, [CurRows EXCEPT ![r] = new], ts)
    PROVE  BudgetInv'
<1>1. CASE Skip(r)
  BY <1>1 DEF Skip, BudgetInv, BudgetCapped
<1>2. CASE Write(r, [CurRows EXCEPT ![r] = new], ts)
  <2> DEFINE rs == [CurRows EXCEPT ![r] = new]
  <2>1. /\ \A q \in Rows : q # r => rs[q] = CurRows[q]
        /\ \A q \in Rows : rs[q].max <= AbsoluteMaxRetries
    <3>0. /\ CurRows \in [Rows -> Row]
          /\ \A q \in Rows : CurRows[q].max <= AbsoluteMaxRetries
      BY CurTyped DEF CurRows, BudgetInv, BudgetCapped
    <3>1. rs[r] = new /\ \A q \in Rows : q # r => rs[q] = CurRows[q]
      BY <3>0
    <3> HIDE DEF rs
    <3> QED BY <3>0, <3>1
  <2>2. /\ txn' = [rows |-> rs, task |-> ts]
        /\ watch'.job = watch.job /\ watch'.todo = watch.todo \ {r}
        /\ rows' = rows /\ snap' = snap
    BY <1>2 DEF Write
  <2> HIDE DEF rs
  <2>3. txn'.rows = rs
    BY <2>2
  <2>4. watch.job = "recover" => \A q \in watch.todo \ {r} : rs[q].max = snap[q].max
    BY <2>1 DEF BudgetInv, CurRows
  <2> QED BY <2>1, <2>2, <2>3, <2>4 DEF BudgetInv, BudgetCapped
<1>3. CASE Abort
  BY <1>3 DEF Abort, EndJob, NoJob, BudgetInv, BudgetCapped
<1> QED BY <1>1, <1>2, <1>3 DEF Requeue

LEMMA BudgetWatcher ==
    ASSUME TypeInv, BatchInv, BudgetInv
    PROVE  /\ \A j \in Jobs : Begin(j) => BudgetInv'
           /\ \A t \in TaskIds : EnqueueBegin(t) => BudgetInv'
           /\ WatcherStep => BudgetInv'
<1>0. ASSUME NEW r \in Rows
      PROVE  CurRows[r] \in Row /\ CurRows[r].max <= AbsoluteMaxRetries
  BY CurTyped DEF CurRows, BudgetInv, BudgetCapped
<1>1. ASSUME NEW j \in Jobs, Begin(j) PROVE BudgetInv'
  <2>1. /\ watch'.job = j /\ watch'.todo = Selected(j) /\ watch.job = "none"
        /\ rows' = rows /\ txn' = txn
    BY <1>1 DEF Begin, NoJob
  <2>2. txn = None
    BY <2>1 DEF BatchInv, Batch
  <2>3. j = "recover" => \A r \in Selected(j) : snap'[r].max = rows[r].max
    <3>1. ASSUME j = "recover", NEW r \in Selected(j) PROVE snap'[r].max = rows[r].max
      <4>1. r \in Rows
        BY DEF Selected
      <4>2. snap'[r] = ReadBy(j, rows[r])
        BY <1>1, <4>1 DEF Begin
      <4>3. ReadBy(j, rows[r]).max = rows[r].max
        BY <3>1 DEF ReadBy, AbsentRow
      <4> QED BY <4>2, <4>3
    <3> QED BY <3>1
  <2> QED BY <2>1, <2>2, <2>3 DEF BudgetInv, BudgetCapped
<1>2. ASSUME NEW t \in TaskIds, EnqueueBegin(t) PROVE BudgetInv'
  BY <1>2 DEF EnqueueBegin, NoJob, BudgetInv, BudgetCapped
<1>look. ASSUME NEW r \in Rows, Look(r) PROVE BudgetInv'
  <2>1. /\ watch'.job = watch.job /\ watch'.todo = watch.todo
        /\ UNCHANGED <<rows, snap, txn>>
    BY <1>look DEF Look
  <2> QED BY <2>1 DEF BudgetInv, BudgetCapped
<1>3. ASSUME NEW r \in Rows, RetryRow(r) PROVE BudgetInv'
  <2>1. PICK n, why : Requeue(r, Retried(CurRows[r], n, why), CurTask)
    BY <1>3 DEF RetryRow
  <2>2. Retried(CurRows[r], n, why).max = CurRows[r].max
    BY <1>0 DEF Retried, Row
  <2>3. Retried(CurRows[r], n, why).max <= AbsoluteMaxRetries
    BY <1>0, <2>2
  <2> QED BY <2>1, <2>3, BudgetRow
<1>4. ASSUME NEW r \in Rows, ReassignRow(r) PROVE BudgetInv'
  <2>1. Reassigned(CurRows[r], FallbackOwner, FallbackMaxRetries).max = FallbackMaxRetries
    BY <1>0 DEF Reassigned, Row
  <2>2. PICK ts :
          Skip(r) \/ Requeue(r, Reassigned(CurRows[r], FallbackOwner, FallbackMaxRetries), ts)
    BY <1>4 DEF ReassignRow
  <2>3. Reassigned(CurRows[r], FallbackOwner, FallbackMaxRetries).max <= AbsoluteMaxRetries
    BY <2>1, BudgetAssumption
  <2> QED BY <2>2, <2>3, BudgetRow
<1>5. ASSUME NEW r \in Rows, RecoverBlocked(r) \/ RecoverFinished(r) PROVE BudgetInv'
  <2>1. MarkedDone(CurRows[r]).max = CurRows[r].max
    BY <1>0 DEF MarkedDone, Row
  <2> QED BY <1>0, <1>5, <2>1, BudgetRow DEF RecoverBlocked, RecoverFinished
<1>6. ASSUME NEW r \in Rows, RecoverReroute(r) PROVE BudgetInv'
  <2>1. PICK a : Requeue(r, Recovered(CurRows[r], a, snap[r].recovery + 1), CurTask)
    BY <1>6 DEF RecoverReroute
  <2>2. Recovered(CurRows[r], a, snap[r].recovery + 1).max = CurRows[r].max + 1
    BY <1>0 DEF Recovered, Row
  <2>3. CurRows[r].max = snap[r].max
    BY <1>6 DEF RecoverReroute, Recoverable, AtRow, BudgetInv, CurRows
  <2>4. snap[r].max \in Nat /\ snap[r].max < AbsoluteMaxRetries
    BY <1>6 DEF RecoverReroute, Row
  <2>5. CurRows[r].max + 1 <= AbsoluteMaxRetries
    BY <2>3, <2>4, BudgetAssumption
  <2> QED BY <2>1, <2>2, <2>5, BudgetRow
<1>7. ASSUME NEW r \in Rows, RecoverEscalate(r) PROVE BudgetInv'
  <2>1. MarkedFailed(CurRows[r]).max = CurRows[r].max
    BY <1>0 DEF MarkedFailed, Row
  <2> QED BY <1>0, <1>7, <2>1, BudgetRow DEF RecoverEscalate
<1>8. ASSUME Commit PROVE BudgetInv'
  <2>1. rows' = CurRows /\ txn' = None /\ watch'.job = "none"
    BY <1>8 DEF Commit, EndJob, NoJob
  <2> QED BY <1>0, <2>1 DEF BudgetInv, BudgetCapped
<1>9. ASSUME NEW old \in SUBSET Rows, ZombieJudge(old) PROVE BudgetInv'
  <2>1. watch.job = "zombies" /\ txn' = txn
    BY <1>9 DEF ZombieJudge
  <2>2. watch'.job # "recover"
    <3>1. EndJob => watch'.job = "none"
      BY DEF EndJob, NoJob
    <3>2. watch' = [watch EXCEPT !.todo = {}] => watch'.job = "zombies"
      BY <2>1
    <3> QED BY <1>9, <3>1, <3>2 DEF ZombieJudge
  <2>3. \A r \in Rows : rows'[r].max = rows[r].max
    <3>1. PICK P : rows' = Buried(rows, P)
      BY <1>9 DEF ZombieJudge
    <3> QED BY <3>1, BuriedRows
  <2> QED BY <2>1, <2>2, <2>3 DEF BudgetInv, BudgetCapped
<1>10. ASSUME ZombieWrite \/ PausedWrite \/ EnqueueWrite PROVE BudgetInv'
  <2>1. watch'.job = "none" /\ txn' = txn
    BY <1>10 DEF ZombieWrite, PausedWrite, EnqueueWrite, EndJob, NoJob
  <2>2. BudgetCapped'
    <3>1. CASE ZombieWrite \/ PausedWrite
      <4>1. \A r \in Rows : \A from, to, why : Moved(rows[r], from, to, why).max = rows[r].max
        BY DEF Moved, Row
      <4>2. \A r \in Rows : rows'[r].max = rows[r].max
        BY <3>1, <4>1 DEF ZombieWrite, PausedWrite
      <4> QED BY <4>2 DEF BudgetInv, BudgetCapped
    <3>2. CASE EnqueueWrite
      <4>1. watch.task \in TaskIds /\ task[watch.task].owner \in Agents
        BY <3>2 DEF EnqueueWrite, TaskRec
      <4>2. Calm(rows')
        BY <3>2, <4>1, CalmRows, CalmInsert DEF EnqueueWrite
      <4> QED BY <4>2, BudgetAssumption DEF Calm, BudgetInv, BudgetCapped
    <3> QED BY <1>10, <3>1, <3>2
  <2> QED BY <2>1, <2>2 DEF BudgetInv
<1> QED BY <1>1, <1>2, <1>look, <1>3, <1>4, <1>5, <1>6, <1>7, <1>8, <1>9, <1>10 DEF WatcherStep

LEMMA BudgetNext ==
    ASSUME TypeInv, BatchInv, BudgetInv, [Next]_vars
    PROVE  BudgetInv'
BY StepKinds, BudgetOutside, BudgetWatcher

\* No row's max_retries ever passes the absolute ceiling.
THEOREM BudgetsStayCapped == Spec => []BudgetCapped
<1>1. Init => BatchInv /\ BudgetInv
  BY BudgetAssumption DEF Init, NoJob, BatchInv, BudgetInv, BudgetCapped, Batch, AbsentRow
<1>2. TypeInv /\ BatchInv /\ BudgetInv /\ [Next]_vars => BatchInv' /\ BudgetInv'
  BY BatchNext, BudgetNext
<1>3. BudgetInv => BudgetCapped
  BY DEF BudgetInv
<1> QED BY <1>1, <1>2, <1>3, TypeInit, TypeNext, PTL DEF Spec
=============================================================================
