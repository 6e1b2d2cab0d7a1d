---------------------------- MODULE InboxDispatch ----------------------------
(***************************************************************************)
(* The dispatch of inbox rows: the detached dispatcher processes            *)
(* (commands/inbox_dispatch.py), the launchers and agents they spawn        *)
(* (commands/delegate.py), the jobs of the watcher that retry, reroute and  *)
(* reconcile rows (commands/inbox_watch.py), the command line and the       *)
(* session-exit hook. They share the tables inbox and tasks, the dispatch   *)
(* lock and the processes whose pids the rows record.                       *)
(*                                                                          *)
(* One action is one SQLite transaction or one step on a process, so every  *)
(* place where another process can come between two writes of one handler   *)
(* is a place between two actions. A watcher job reads its rows, and until  *)
(* its first write the tasks too, outside a transaction and then writes     *)
(* them in a single one: its steps work on the private copy txn, which      *)
(* other processes see when the job commits.                                *)
(***************************************************************************)
EXTENDS Inbox, Lifecycle, FiniteSets

CONSTANTS
    InitTasks,           \* the tasks at the start, [TaskIds -> TaskRec]
    AbsoluteMaxRetries,  \* _ABSOLUTE_MAX_RETRIES (12 in the code)
    RecoveryMax,         \* _RECOVERY_MAX (2 in the code)
    FallbackOwner,       \* profile auto_fallback_owner, None when not set
    FallbackMaxRetries,  \* profile auto_fallback_max_retries (3 by default)
    FallbackOrder,       \* _FALLBACK_ORDER, the agents recovery may reroute to
    PiAgent,             \* the agent that must have an isolated worktree
    HookAgent,           \* the agent whose session-exit hook is installed
    Jobs,                \* the watcher jobs the profile switches on
    ReportedStatuses,    \* BOUND: statuses set with "shux task status"
    OperatorStatuses,    \* BOUND: statuses set from the dashboard
    Failures,            \* BOUND: ways a launcher may fail
    MaxCrashes           \* BOUND: crashes of dispatchers

AllJobs == {"enqueue", "retry", "reassign", "recover", "zombies", "paused"}

TaskRec == [status : TaskStatuses, owner : Agents]

TxnRec == [rows : [Rows -> Row], task : [TaskIds -> TaskRec]]

ASSUME InitTasksAssumption == InitTasks \in [TaskIds -> TaskRec]
ASSUME BudgetAssumption == /\ {AbsoluteMaxRetries, RecoveryMax} \subseteq Nat
                           /\ FallbackMaxRetries \in Nat
                           /\ DefaultMaxRetries <= AbsoluteMaxRetries
                           /\ FallbackMaxRetries <= AbsoluteMaxRetries
ASSUME FallbackAssumption == /\ FallbackOwner \in Agents \cup {None}
                             /\ "reassign" \in Jobs => FallbackOwner # None
ASSUME HookAssumption == {HookAgent, PiAgent} \subseteq Agents \cup {None}
ASSUME OrderAssumption == FallbackOrder \subseteq Agents
ASSUME JobsAssumption == Jobs \subseteq AllJobs
ASSUME CrashAssumption == MaxCrashes \in Nat
ASSUME FailuresAssumption == Failures \subseteq {"retryable", "limited", "blocked"}
ASSUME SlotAssumption == None \notin Slots
ASSUME TxnAssumption == None \notin TxnRec

VARIABLES
    rows,     \* table inbox
    task,     \* table tasks: status and owner
    lock,     \* the dispatcher holding .superharness/inbox.yaml.lock.d, or None
    disp,     \* the dispatcher process of each slot
    kid,      \* the launcher and agent process it spawned
    watch,    \* the job the watcher is running
    snap,     \* the rows that job read, and for "zombies" its verdicts
    txn,      \* its open transaction, or None
    cli,      \* inbox updates status commands have still to make
    hook,     \* what the session-exit hook has still to do for each task
    crashes   \* crashes so far

vars == <<rows, task, lock, disp, kid, watch, snap, txn, cli, hook, crashes>>

------------------------------------------------------------------------------
(* Processes.                                                               *)

\* How a launcher ends, as classify and the exit code tell it apart: ok is exit
\* code 0; retryable any failure worth a retry (timeout, signal, crash);
\* limited a quota failure; blocked the lifecycle gate (exit code 2) or a
\* permanent_block pattern. isolation is no exit: Pi had no Git worktree.
ExitCodes == {"ok", "retryable", "limited", "blocked"}

Live == {"starting", "working"}
KidStates == {"none"} \cup Live \cup ExitCodes

PCs == {"idle", "resolve", "spawn", "record", "wait", "mark", "reason", "mirror",
        "bump", "unclaim", "reconcile", "settle", "crashed"}

\* A dispatcher: where it is, and of DispatchContext the row it claimed, that
\* row's max_retries as claimed, the launcher's fate and the status to give.
Disp == [pc : PCs, row : Rows \cup {0}, max : Nat,
         rc : ExitCodes \cup {"isolation"}, final : {"done", "failed", "paused"}]

Idle == [pc |-> "idle", row |-> 0, max |-> 0, rc |-> "ok", final |-> "failed"]

\* A dispatcher that crashed while its launcher lives leaves it an orphan.
Orphaned(s) == [disp[s] EXCEPT !.pc = "crashed"]

\* The failures after which retry_count is pushed to max_retries.
NotRetryable == {"limited", "blocked", "isolation"}

\* Mutant: the exit code itself is stored as the reason.
ReasonOf_Raw(rc) == rc

\* failed_reason as _handle_failure words it; _reconcile_state gives none.
ReasonOf(rc) == CASE rc = "ok"      -> "none"
                  [] rc = "blocked" -> "blocked"
                  [] OTHER          -> "other"

RunningDispatchers == {s \in Slots : disp[s].pc \notin {"idle", "crashed"}}

Alive(p) ==
    \/ \E s \in RunningDispatchers : p = DispatcherPid(s)
    \/ \E s \in Slots : kid[s] \in Live /\ p = AgentPid(s)

\* The pids in P have exited: a row that records one records a dead pid.
Buried(rs, P) ==
    [r \in Rows |-> IF rs[r].pid \in P THEN [rs[r] EXCEPT !.pid = Dead] ELSE rs[r]]

Bury(P) ==
    /\ rows' = Buried(rows, P)
    /\ snap' = Buried(snap, P)
    /\ txn' = IF txn = None THEN None ELSE [txn EXCEPT !.rows = Buried(txn.rows, P)]

\* Dispatcher s exits after leaving the table as rs.
Leave(s, rs) ==
    /\ disp' = [disp EXCEPT ![s] = Idle]
    /\ rows' = Buried(rs, {DispatcherPid(s)})
    /\ snap' = Buried(snap, {DispatcherPid(s)})

\* SQLite lets one connection write at a time: the others wait.
DbFree == txn = None

TaskOf(r) == rows[r].task
RowOf(s) == disp[s].row

------------------------------------------------------------------------------
(* The dispatcher. A failure or exit path ends with the process gone.       *)

\* dispatch takes the lock, claim_next claims the oldest pending row of the
\* agent. (With the lock held, or nothing to claim, the process just exits.)
Claim(s, a) ==
    /\ disp[s].pc = "idle" /\ lock = None /\ DbFree
    /\ \E r \in Rows :
         /\ NextPending(rows, a, r)
         /\ rows' = [rows EXCEPT ![r] = Claimed(rows[r], DispatcherPid(s))]
         /\ disp' = [disp EXCEPT ![s] = [Idle EXCEPT !.pc = "resolve", !.row = r,
                                                     !.max = rows[r].max]]
    /\ lock' = s
    /\ UNCHANGED <<task, kid, watch, snap, txn, cli, hook, crashes>>

\* _resolve_execution_context finds a place to run, _transition_to_launched
\* releases the lock.
ResolveOk(s) ==
    /\ disp[s].pc = "resolve"
    /\ disp' = [disp EXCEPT ![s].pc = "spawn"]
    /\ lock' = None
    /\ UNCHANGED <<rows, task, kid, watch, snap, txn, cli, hook, crashes>>

\* The worktree is dirty and no worktree could be added: the row is paused
\* if it is (again) pending; otherwise the launch goes on as in ResolveOk.
ResolveDirty(s) ==
    /\ disp[s].pc = "resolve" /\ rows[RowOf(s)].status = "pending" /\ DbFree
    /\ Leave(s, [rows EXCEPT ![RowOf(s)] = Moved(rows[RowOf(s)], "pending", "paused", "none")])
    /\ lock' = None
    /\ UNCHANGED <<task, kid, watch, txn, cli, hook, crashes>>

\* Pi has no isolated worktree: the failure path, without a launch.
ResolveIsolation(s) ==
    /\ disp[s].pc = "resolve" /\ rows[RowOf(s)].agent = PiAgent
    /\ disp' = [disp EXCEPT ![s].pc = "mark", ![s].rc = "isolation"]
    /\ lock' = None
    /\ UNCHANGED <<rows, task, kid, watch, snap, txn, cli, hook, crashes>>

\* _execute_agent: Popen.
Spawn(s) ==
    /\ disp[s].pc = "spawn"
    /\ kid' = [kid EXCEPT ![s] = "starting"]
    /\ disp' = [disp EXCEPT ![s].pc = "record"]
    /\ UNCHANGED <<rows, task, lock, watch, snap, txn, cli, hook, crashes>>

\* _execute_agent: set_field pid, whatever became of the row.
RecordPid(s) ==
    /\ disp[s].pc = "record" /\ DbFree
    /\ rows' = [rows EXCEPT ![RowOf(s)].pid =
                    IF kid[s] \in Live THEN AgentPid(s) ELSE Dead]
    /\ disp' = [disp EXCEPT ![s].pc = "wait"]
    /\ UNCHANGED <<task, lock, kid, watch, snap, txn, cli, hook, crashes>>

\* _execute_agent: proc.wait() returns and the pid is cleared.
ClearPid(s) ==
    /\ disp[s].pc = "wait" /\ kid[s] \in ExitCodes /\ DbFree
    /\ rows' = [rows EXCEPT ![RowOf(s)].pid = None]
    /\ kid' = [kid EXCEPT ![s] = "none"]
    /\ disp' = [disp EXCEPT ![s].pc = IF kid[s] = "ok" THEN "reconcile" ELSE "mark",
                            ![s].rc = kid[s]]
    /\ UNCHANGED <<task, lock, watch, snap, txn, cli, hook, crashes>>

\* _mark_item_failed: takes the lock, launched -> failed (reason NULL). The
\* lock is kept for the reason only when the row was launched.
MarkFailed(s) ==
    /\ disp[s].pc = "mark" /\ lock = None /\ DbFree
    /\ rows' = [rows EXCEPT ![RowOf(s)] = Moved(rows[RowOf(s)], "launched", "failed", "none")]
    /\ IF rows[RowOf(s)].status = "launched"
       THEN lock' = s /\ disp' = [disp EXCEPT ![s].pc = "reason"]
       ELSE lock' = None /\ disp' = [disp EXCEPT ![s].pc = "mirror"]
    /\ UNCHANGED <<task, kid, watch, snap, txn, cli, hook, crashes>>

\* _mark_item_failed: the reason is a second command; the lock is released.
SetReason(s) ==
    /\ disp[s].pc = "reason" /\ DbFree
    /\ rows' = [rows EXCEPT ![RowOf(s)].reason = ReasonOf(disp[s].rc)]
    /\ lock' = None
    /\ disp' = [disp EXCEPT ![s].pc = "mirror"]
    /\ UNCHANGED <<task, kid, watch, snap, txn, cli, hook, crashes>>

\* acquire_with_retry gives up while another dispatcher holds the lock: a
\* failure goes on to the mirror, a reconciliation returns and leaves the row.
LockTimeout(s) ==
    /\ lock # None /\ DbFree
    /\ \/ /\ disp[s].pc = "mark"
          /\ disp' = [disp EXCEPT ![s].pc = "mirror"]
          /\ UNCHANGED <<rows, snap>>
       \/ /\ disp[s].pc = "reconcile"
          /\ Leave(s, rows)
    /\ UNCHANGED <<task, lock, kid, watch, txn, cli, hook, crashes>>

\* Mutant: a session that ended well finishes a task that was reviewed.
Outcomes_Reviewed(st) == IF st \in {"done", "review_passed"} THEN {"done"} ELSE {"failed"}

\* _reconcile_state: the row's status for the task's. A task still under way
\* pauses the row if the worktree is dirty, else fails it.
Outcomes(st) == CASE st \in {"done", "failed"}    -> {st}
                  [] st = "pending_user_approval" -> {"paused"}
                  [] OTHER                        -> {"paused", "failed"}

\* _reconcile_state, exit code 0: under the lock, reads what the task has become.
Reconcile(s) ==
    /\ disp[s].pc = "reconcile" /\ lock = None
    /\ lock' = s
    /\ \E final \in Outcomes(task[TaskOf(RowOf(s))].status) :
         disp' = [disp EXCEPT ![s].pc = "settle", ![s].final = final]
    /\ UNCHANGED <<rows, task, kid, watch, snap, txn, cli, hook, crashes>>

\* _reconcile_state: launched -> the status found; the lock is released.
Settle(s) ==
    /\ disp[s].pc = "settle" /\ DbFree
    /\ rows' = [rows EXCEPT ![RowOf(s)] =
                    Moved(rows[RowOf(s)], "launched", disp[s].final, "none")]
    /\ lock' = None
    /\ disp' = [disp EXCEPT ![s].pc = "mirror"]
    /\ UNCHANGED <<task, kid, watch, snap, txn, cli, hook, crashes>>

\* Mutant: the status the row has by now is not looked at.
Mirrored_Any(s) ==
    LET r == RowOf(s) IN
    [rows EXCEPT ![r] = Moved(rows[r], rows[r].status, disp[s].final, ReasonOf(disp[s].rc))]

\* _sqlite_mirror_dispatch: from pending, launched or running, without the lock.
Mirrored(s) ==
    LET r == RowOf(s) IN
    IF rows[r].status \in {"pending", "launched", "running"}
    THEN [rows EXCEPT ![r] = Moved(rows[r], rows[r].status, disp[s].final,
                                   ReasonOf(disp[s].rc))]
    ELSE rows

Mirror(s) ==
    /\ disp[s].pc = "mirror" /\ DbFree
    /\ IF disp[s].rc \in NotRetryable
       THEN /\ rows' = Mirrored(s)
            /\ disp' = [disp EXCEPT ![s].pc = "bump"]
            /\ UNCHANGED snap
       ELSE Leave(s, Mirrored(s))
    /\ UNCHANGED <<task, lock, kid, watch, txn, cli, hook, crashes>>

\* _handle_failure: retry_count := the max_retries the row was claimed with.
BumpRetry(s) ==
    /\ disp[s].pc = "bump" /\ DbFree
    /\ LET bumped == [rows EXCEPT ![RowOf(s)].retry = disp[s].max] IN
       IF disp[s].rc = "isolation"
       THEN /\ rows' = bumped
            /\ disp' = [disp EXCEPT ![s].pc = "unclaim"]
            /\ UNCHANGED snap
       ELSE Leave(s, bumped)
    /\ UNCHANGED <<task, lock, kid, watch, txn, cli, hook, crashes>>

\* _clear_claimed_inbox_pid
Unclaim(s) ==
    /\ disp[s].pc = "unclaim" /\ DbFree
    /\ Leave(s, [rows EXCEPT ![RowOf(s)].pid = None])
    /\ UNCHANGED <<task, lock, kid, watch, txn, cli, hook, crashes>>

\* The states after processes in P were killed or crashed. A launcher killed
\* under a dispatcher ends with a signal, an orphan just ends; a lock whose
\* owner died is broken by the next dispatcher (module MkdirLock).
KilledPids(P) ==
    P \cup {AgentPid(s) : s \in {x \in Slots : DispatcherPid(x) \in P /\ kid[x] \notin Live}}

AfterKill(P) ==
    /\ disp' = [s \in Slots |->
          IF s \in RunningDispatchers /\ DispatcherPid(s) \in P
          THEN IF kid[s] \in Live /\ AgentPid(s) \notin P THEN Orphaned(s) ELSE Idle
          ELSE IF disp[s].pc = "crashed" /\ AgentPid(s) \in P THEN Idle ELSE disp[s]]
    /\ kid' = [s \in Slots |->
          IF \/ s \in RunningDispatchers /\ DispatcherPid(s) \in P
                /\ (kid[s] \notin Live \/ AgentPid(s) \in P)
             \/ disp[s].pc = "crashed" /\ AgentPid(s) \in P
          THEN "none"
          ELSE IF AgentPid(s) \in P /\ kid[s] \in Live THEN "retryable" ELSE kid[s]]
    /\ lock' = IF \E s \in RunningDispatchers : lock = s /\ DispatcherPid(s) \in P
               THEN None ELSE lock

Crash(s) ==
    /\ s \in RunningDispatchers
    /\ crashes < MaxCrashes /\ crashes' = crashes + 1
    /\ AfterKill({DispatcherPid(s)})
    /\ Bury(KilledPids({DispatcherPid(s)}))
    /\ UNCHANGED <<task, watch, cli, hook>>

------------------------------------------------------------------------------
(* The launcher and the agent.                                              *)

\* delegate: the lifecycle gate lets the agent start ...
AgentStarts(s) ==
    /\ kid[s] = "starting"
    /\ task[TaskOf(RowOf(s))].status \in Dispatchable
    /\ kid' = [kid EXCEPT ![s] = "working"]
    /\ UNCHANGED <<rows, task, lock, disp, watch, snap, txn, cli, hook, crashes>>

\* A launcher that ends is reaped by its dispatcher; an orphan frees its slot.
KidEnds(s, rc) ==
    /\ IF disp[s].pc = "crashed"
       THEN /\ kid' = [kid EXCEPT ![s] = "none"]
            /\ disp' = [disp EXCEPT ![s] = Idle]
       ELSE /\ kid' = [kid EXCEPT ![s] = rc]
            /\ UNCHANGED disp
    /\ IF disp[s].pc = "crashed" THEN Bury({AgentPid(s)}) ELSE UNCHANGED <<rows, snap, txn>>
    /\ UNCHANGED <<task, lock, watch, cli, hook, crashes>>

\* ... or blocks it for good.
GateBlocks(s) ==
    /\ kid[s] = "starting"
    /\ task[TaskOf(RowOf(s))].status \notin Dispatchable
    /\ KidEnds(s, "blocked")

\* The schedule, dependency and preflight gates, a missing CLI, a quota, a
\* timeout, a crash: a launcher may fail before or after the agent starts.
AgentFails(s) ==
    /\ kid[s] \in Live
    /\ \E rc \in Failures : KidEnds(s, rc)

\* The agent ends its session, whatever it has reported.
AgentFinishes(s) ==
    /\ kid[s] = "working"
    /\ KidEnds(s, "ok")

------------------------------------------------------------------------------
(* The watcher. It runs one job at a time. The jobs come in any order, which *)
(* covers the order of _run_scripts with the cooldowns of _should_run.       *)

NoJob == [job |-> "none", todo |-> {}, task |-> None, saw |-> None]

\* What the running transaction, or else the database, holds.
CurRows == IF txn = None THEN rows ELSE txn.rows
CurTask == IF txn = None THEN task ELSE txn.task

HasActiveRow(t) == \E r \in Rows : rows[r].status \in Active /\ rows[r].task = t
FailedRows(t) == {r \in Rows : rows[r].status = "failed" /\ rows[r].task = t}

\* The rows each job selects when it reads the table.
Selected(j) ==
    CASE j = "retry"  -> {r \in Rows : rows[r].status = "failed" /\ rows[r].retry < rows[r].max}
      [] j \in {"reassign", "recover"} ->
            {r \in Rows : rows[r].status = "failed" /\ rows[r].retry >= rows[r].max}
      [] j = "zombies" -> {r \in Rows : rows[r].status # "absent"}
      [] j = "paused"  -> {r \in Rows : rows[r].status = "paused" /\ rows[r].pid # None}
      [] OTHER         -> {}

\* What each job uses of a row it read.
ReadBy(j, row) ==
    CASE j = "retry" -> [AbsentRow EXCEPT !.retry = row.retry, !.reason = row.reason]
      [] j \in {"reassign", "recover"} ->
            [AbsentRow EXCEPT !.task = row.task, !.agent = row.agent, !.reason = row.reason,
                              !.max = row.max, !.recovery = row.recovery]
      [] OTHER -> [AbsentRow EXCEPT !.status = row.status, !.task = row.task, !.pid = row.pid]

\* The SELECT a job starts with.
Begin(j) ==
    /\ watch = NoJob /\ j \in Jobs \ {"enqueue"} /\ Selected(j) # {}
    /\ watch' = [NoJob EXCEPT !.job = j, !.todo = Selected(j)]
    /\ snap' = [r \in Rows |-> IF r \in Selected(j) THEN ReadBy(j, rows[r])
                                          ELSE AbsentRow]
    /\ UNCHANGED <<rows, task, lock, disp, kid, txn, cli, hook, crashes>>

EndJob == watch' = NoJob /\ snap' = [r \in Rows |-> AbsentRow]

\* The batch jobs take their rows in table order.
AtRow(j, r) ==
    /\ watch.job = j /\ r \in watch.todo
    /\ \A q \in watch.todo : r <= q

\* The task of a row as the job found it: in its transaction, or before that has
\* begun (sqlite3 begins one at the first write) as it looked it up, a step of its
\* own. (One look stands for the two of a row that is escalated.)
Seen(t) == IF txn = None THEN watch.saw[t] ELSE txn.task[t]
Looked == txn # None \/ watch.saw # None

Look(r) ==
    /\ AtRow("reassign", r) \/ AtRow("recover", r)
    /\ ~Looked
    /\ watch' = [watch EXCEPT !.saw = task]
    /\ UNCHANGED <<rows, task, lock, disp, kid, snap, txn, cli, hook, crashes>>

\* Row r is dealt with: the transaction now holds rs and ts.
Write(r, rs, ts) ==
    /\ txn' = [rows |-> rs, task |-> ts]
    /\ watch' = [watch EXCEPT !.todo = watch.todo \ {r}, !.saw = None]
    /\ UNCHANGED <<rows, task, lock, disp, kid, snap, cli, hook, crashes>>

Skip(r) ==
    /\ watch' = [watch EXCEPT !.todo = watch.todo \ {r}, !.saw = None]
    /\ UNCHANGED <<rows, task, lock, disp, kid, snap, txn, cli, hook, crashes>>

\* IntegrityError: the batch is left, its transaction rolled back.
Abort ==
    /\ txn' = None /\ EndJob
    /\ UNCHANGED <<rows, task, lock, disp, kid, cli, hook, crashes>>

\* A row goes back to pending, unless the unique index refuses it.
Requeue(r, new, ts) ==
    IF Clash(CurRows, r, new)
    THEN Abort
    ELSE Write(r, [CurRows EXCEPT ![r] = new], ts)

Commit ==
    /\ watch.job \in {"retry", "reassign", "recover"} /\ watch.todo = {}
    /\ rows' = CurRows /\ task' = CurTask /\ txn' = None
    /\ EndJob
    /\ UNCHANGED <<lock, disp, kid, cli, hook, crashes>>

\* _auto_retry_failed_sqlite: the counter and the reason are those it read.
RetryRow(r) ==
    /\ AtRow("retry", r)
    /\ Requeue(r, Retried(CurRows[r], snap[r].retry + 1,
                          IF snap[r].reason = "none" THEN "other" ELSE snap[r].reason),
               CurTask)

\* _auto_fallback_owner_reassign
ReassignRow(r) ==
    /\ AtRow("reassign", r) /\ Looked
    /\ LET t == snap[r].task IN
       IF \/ Seen(t).status \in {"done", "stopped", "archived", "waiting_input"}
          \/ Seen(t).owner = FallbackOwner
       THEN Skip(r)
       ELSE Requeue(r, Reassigned(CurRows[r], FallbackOwner, FallbackMaxRetries),
                    [CurTask EXCEPT ![t].owner = FallbackOwner])

\* Mutant: the tasks are written back as they were looked up.
Escalated_Stale(t) ==
    LET ts == IF txn = None THEN watch.saw ELSE txn.task IN
    IF ts[t].status \in {"in_progress", "todo"}
    THEN [ts EXCEPT ![t].status = "waiting_input"] ELSE ts

\* _escalate_runaway_inbox, and the permanent block: a task found under way is set
\* to waiting_input, _with_task_lock reading only the version again.
Escalated(t) ==
    IF Seen(t).status \in {"in_progress", "todo"}
    THEN [CurTask EXCEPT ![t].status = "waiting_input"]
    ELSE CurTask

\* _auto_recover_exhausted_failures_sqlite, a reason that names a permanent
\* block: the task waits for input and the row is closed; otherwise nothing.
RecoverBlocked(r) ==
    /\ AtRow("recover", r) /\ Looked /\ snap[r].reason = "blocked"
    /\ LET t == snap[r].task IN
       IF Seen(t).status \in {"in_progress", "todo"}
       THEN Write(r, [CurRows EXCEPT ![r] = MarkedDone(CurRows[r])], Escalated(t))
       ELSE Skip(r)

Recoverable(r) ==
    /\ AtRow("recover", r) /\ Looked /\ snap[r].reason # "blocked"
    /\ Seen(snap[r].task).status \notin {"done", "stopped", "archived"}

RecoverFinished(r) ==
    /\ AtRow("recover", r) /\ Looked /\ snap[r].reason # "blocked"
    /\ ~Recoverable(r)
    /\ Skip(r)

\* The agents that have a failed or done row of this task, and this row's.
Tried(r) ==
    {CurRows[q].agent : q \in {x \in Rows : /\ CurRows[x].task = snap[r].task
                                            /\ CurRows[x].status \in {"failed", "done"}}}
        \cup {snap[r].agent}

\* Mutant: the ceiling is compared with <=.
RecoverReroute_OffByOne(r) ==
    /\ Recoverable(r) /\ snap[r].max <= AbsoluteMaxRetries
    /\ \E a \in FallbackOrder \ Tried(r) :
         Requeue(r, Recovered(CurRows[r], a, snap[r].recovery + 1), CurTask)

\* Reroute to an untried agent that is reachable and not out of quota: which
\* ones are, and how past reviews rank them, is up to the environment.
RecoverReroute(r) ==
    /\ Recoverable(r) /\ snap[r].max < AbsoluteMaxRetries
    /\ \E a \in FallbackOrder \ Tried(r) :
         Requeue(r, Recovered(CurRows[r], a, snap[r].recovery + 1), CurTask)

\* No agent left, the absolute ceiling, or the same error again and again.
RecoverEscalate(r) ==
    /\ Recoverable(r)
    /\ Write(r, [CurRows EXCEPT ![r] = MarkedFailed(CurRows[r])], Escalated(snap[r].task))

\* Mutant: only dead pids are looked for.
Verdict_PidOnly(r, old) ==
    IF snap[r].status # "launched" THEN snap[r].status
    ELSE IF snap[r].pid # None /\ ~Alive(snap[r].pid) THEN "failed" ELSE "launched"

\* _reconcile_zombies, the verdicts, on the rows it read: the task is done, the
\* pid is dead, or the row is too old (the rows in old). Processes of rows
\* that are done or too old are killed. Rows not launched keep their status.
Verdict(r, old) ==
    IF snap[r].status # "launched" THEN snap[r].status
    ELSE IF task[snap[r].task].status = "done" THEN "done"
    ELSE IF r \in old \/ (snap[r].pid # None /\ ~Alive(snap[r].pid)) THEN "failed"
    ELSE "launched"

Culled(old) ==
    {snap[r].pid : r \in {x \in Rows : /\ snap[x].status = "launched"
                                       /\ Verdict(x, old) # "launched"
                                       /\ Alive(snap[x].pid)}}

ZombieJudge(old) ==
    /\ watch.job = "zombies" /\ watch.todo # {}
    /\ AfterKill(Culled(old))
    /\ rows' = Buried(rows, KilledPids(Culled(old)))
    /\ IF \E r \in Rows : Verdict(r, old) # snap[r].status
       THEN /\ watch' = [watch EXCEPT !.todo = {}]
            /\ snap' = [r \in Rows |-> [snap[r] EXCEPT !.status = Verdict(r, old),
                                                       !.pid = None]]
       ELSE EndJob
    /\ UNCHANGED <<task, txn, cli, hook, crashes>>

\* _reconcile_zombies, the writes: when one verdict changed, every row it read
\* that is launched by now is given the status it was read with or judged to.
ZombieWrite ==
    /\ watch.job = "zombies" /\ watch.todo = {}
    /\ rows' = [r \in Rows |-> IF snap[r].status = "absent" THEN rows[r]
                               ELSE Moved(rows[r], "launched", snap[r].status, "none")]
    /\ EndJob
    /\ UNCHANGED <<task, lock, disp, kid, txn, cli, hook, crashes>>

\* _reconcile_paused_dead_pids
PausedWrite ==
    /\ watch.job = "paused"
    /\ rows' = [r \in Rows |-> IF r \in watch.todo /\ ~Alive(snap[r].pid)
                               THEN Moved(rows[r], "paused", "failed", "none")
                               ELSE rows[r]]
    /\ EndJob
    /\ UNCHANGED <<task, lock, disp, kid, txn, cli, hook, crashes>>

\* The row an INSERT adds. (BOUND: a full table takes no more rows.)
NextRow(r) == /\ rows[r].status = "absent"
              /\ \A q \in Rows : rows[q].status = "absent" => r <= q

HasRoom == \E r \in Rows : rows[r].status = "absent"

Insert(t, a) ==
    IF Duplicate(rows, t, a)
    THEN UNCHANGED rows
    ELSE \E r \in Rows : NextRow(r) /\ rows' = [rows EXCEPT ![r] = Enqueued(t, a)]

\* auto_enqueue_approved, one task of it: the checks, on what it read ...
EnqueueBegin(t) ==
    /\ watch = NoJob /\ "enqueue" \in Jobs
    /\ task[t].status = "plan_approved" /\ ~HasActiveRow(t)
    /\ Cardinality(FailedRows(t)) < DefaultMaxRetries
    /\ HasRoom
    /\ watch' = [NoJob EXCEPT !.job = "enqueue", !.task = t]
    /\ UNCHANGED <<rows, task, lock, disp, kid, snap, txn, cli, hook, crashes>>

\* ... and the INSERT, a duplicate being skipped.
EnqueueWrite ==
    /\ watch.job = "enqueue"
    /\ IF HasRoom THEN Insert(watch.task, task[watch.task].owner) ELSE UNCHANGED rows
    /\ EndJob
    /\ UNCHANGED <<task, lock, disp, kid, txn, cli, hook, crashes>>

WatcherStep ==
    \/ \E r \in Rows : \/ Look(r) \/ RetryRow(r) \/ ReassignRow(r) \/ RecoverBlocked(r)
                       \/ RecoverFinished(r) \/ RecoverReroute(r) \/ RecoverEscalate(r)
    \/ Commit
    \/ \E old \in SUBSET Rows : ZombieJudge(old)
    \/ ZombieWrite \/ PausedWrite \/ EnqueueWrite

------------------------------------------------------------------------------
(* The command line, the dashboard and the session-exit hook.               *)

\* inbox_enqueue: the owner, or any agent with --force-reassign; the status
\* gate also takes tasks that wait for a review, failed or were stopped.
Enqueue(t, a) ==
    /\ task[t].status \in AllowedForImplementation \cup {"review_requested", "failed", "stopped"}
    /\ DbFree /\ HasRoom
    /\ Insert(t, a)
    /\ UNCHANGED <<task, lock, disp, kid, watch, snap, txn, cli, hook, crashes>>

\* "shux task status": the task moves along the graph ...
ReportStatus(t, st) ==
    /\ DbFree /\ st \in Legal[task[t].status] \cap ReportedStatuses
    /\ ~ \E c \in cli : c.task = t
    /\ task' = [task EXCEPT ![t].status = st]
    /\ cli' = IF st \in {"done", "failed", "stopped"}
              THEN cli \cup {[task |-> t, op |-> IF st = "done" THEN "done" ELSE "failed"]}
              ELSE cli
    /\ UNCHANGED <<rows, lock, disp, kid, watch, snap, txn, hook, crashes>>

\* ... and _sync_inbox_after_status closes its rows, in a second transaction.
SyncInbox(t, to) ==
    /\ [task |-> t, op |-> to] \in cli /\ to # "ensure" /\ DbFree
    /\ rows' = [r \in Rows |->
          IF rows[r].task = t /\ rows[r].status \in {"pending", "launched", "running"}
          THEN [rows[r] EXCEPT !.status = to] ELSE rows[r]]
    /\ cli' = cli \ {[task |-> t, op |-> to]}
    /\ UNCHANGED <<task, lock, disp, kid, watch, snap, txn, hook, crashes>>

\* set_task_status, from the dashboard: the same graph ...
SetTaskStatus(t, st) ==
    /\ DbFree /\ st \in Legal[task[t].status] \cap OperatorStatuses
    /\ ~ \E c \in cli : c.task = t
    /\ task' = [task EXCEPT ![t].status = st]
    /\ cli' = IF st \in ActiveWork THEN cli \cup {[task |-> t, op |-> "ensure"]} ELSE cli
    /\ UNCHANGED <<rows, lock, disp, kid, watch, snap, txn, hook, crashes>>

\* ... and _ensure_active_inbox, in a second transaction.
EnsureActiveInbox(t) ==
    /\ [task |-> t, op |-> "ensure"] \in cli /\ DbFree
    /\ IF HasActiveRow(t) \/ ~HasRoom THEN UNCHANGED rows ELSE Insert(t, task[t].owner)
    /\ cli' = cli \ {[task |-> t, op |-> "ensure"]}
    /\ UNCHANGED <<task, lock, disp, kid, watch, snap, txn, hook, crashes>>

\* session-exit.sh reads which tasks its agent has in progress, ...
HookRead(t) ==
    /\ HookAgent # None /\ hook[t] = "none"
    /\ hook' = [hook EXCEPT ![t] =
            IF task[t] = [status |-> "in_progress", owner |-> HookAgent]
            THEN "stop" ELSE "pause"]
    /\ UNCHANGED <<rows, task, lock, disp, kid, watch, snap, txn, cli, crashes>>

\* ... stops each one that may still be stopped, ...
HookStop(t) ==
    /\ hook[t] = "stop" /\ DbFree
    /\ task' = IF "stopped" \in Legal[task[t].status]
               THEN [task EXCEPT ![t].status = "stopped"] ELSE task
    /\ hook' = [hook EXCEPT ![t] = "sync"]
    /\ UNCHANGED <<rows, lock, disp, kid, watch, snap, txn, cli, crashes>>

\* ... and in either case stops its active rows, in a project that has an
\* inbox.yaml: inbox sync_task_status.
HookSync(t) ==
    /\ hook[t] = "sync" /\ DbFree
    /\ \/ rows' = [r \in Rows |-> Synced(rows[r], t, "stopped")]
       \/ UNCHANGED rows
    /\ hook' = [hook EXCEPT ![t] = "pause"]
    /\ UNCHANGED <<task, lock, disp, kid, watch, snap, txn, cli, crashes>>

\* Last, it pauses the rows that inbox.yaml, an export made earlier, lists as
\* active rows of its agent: set_status from whichever active status the row
\* has. (BOUND: the export lists at most one row.)
HookPause(t) ==
    /\ hook[t] = "pause" /\ DbFree
    /\ \/ \E r \in Rows :
            /\ rows[r].status \in {"pending", "launched", "running"}
            /\ rows' = [rows EXCEPT ![r] = Moved(rows[r], rows[r].status, "paused", "none")]
       \/ UNCHANGED rows
    /\ hook' = [hook EXCEPT ![t] = "none"]
    /\ UNCHANGED <<task, lock, disp, kid, watch, snap, txn, cli, crashes>>

------------------------------------------------------------------------------

Init ==
    /\ rows = [r \in Rows |-> AbsentRow]
    /\ task = InitTasks
    /\ lock = None
    /\ disp = [s \in Slots |-> Idle]
    /\ kid = [s \in Slots |-> "none"]
    /\ watch = NoJob
    /\ snap = [r \in Rows |-> AbsentRow]
    /\ txn = None
    /\ cli = {}
    /\ hook = [t \in TaskIds |-> "none"]
    /\ crashes = 0

\* What a dispatcher does by itself once it has claimed a row.
DispatcherStep(s) ==
    \/ ResolveOk(s) \/ ResolveDirty(s) \/ ResolveIsolation(s)
    \/ Spawn(s) \/ RecordPid(s) \/ ClearPid(s)
    \/ MarkFailed(s) \/ SetReason(s) \/ LockTimeout(s)
    \/ Reconcile(s) \/ Settle(s) \/ Mirror(s) \/ BumpRetry(s) \/ Unclaim(s)

KidStep(s) == AgentStarts(s) \/ GateBlocks(s) \/ AgentFails(s) \/ AgentFinishes(s)

\* What a command or hook that has begun still has to do.
CommandStep(t) ==
    \/ \E to \in {"done", "failed"} : SyncInbox(t, to)
    \/ EnsureActiveInbox(t) \/ HookStop(t) \/ HookSync(t) \/ HookPause(t)

Next ==
    \/ \E s \in Slots : \/ \E a \in Agents : Claim(s, a)
                        \/ DispatcherStep(s) \/ KidStep(s) \/ Crash(s)
    \/ \E j \in Jobs : Begin(j)
    \/ \E t \in TaskIds : EnqueueBegin(t)
    \/ WatcherStep
    \/ \E t \in TaskIds : \/ \E a \in Agents : Enqueue(t, a)
                          \/ \E st \in ReportedStatuses : ReportStatus(t, st)
                          \/ \E st \in OperatorStatuses : SetTaskStatus(t, st)
                          \/ CommandStep(t) \/ HookRead(t)

(***************************************************************************)
(* Fairness. The watcher spawns a dispatcher for every target in each of    *)
(* its cycles, and one that meets the lock held just exits, so what is      *)
(* assumed is that not all of them meet it held (SF). A process that has    *)
(* begun goes on; a write waits for the transaction of another connection   *)
(* (busy timeout), which ends, hence SF for every step that writes. Every   *)
(* launcher ends: by itself, or by the effort timeout. Every job switched   *)
(* on gets its turn, and time passes, so a row that stays launched gets too *)
(* old in the end. Nothing obliges an agent to report, a user to enqueue or *)
(* a dispatcher to crash.                                                   *)
(***************************************************************************)
Fairness ==
    /\ \A a \in Agents : SF_vars(\E s \in Slots : Claim(s, a))
    /\ \A s \in Slots : SF_vars(DispatcherStep(s)) /\ WF_vars(KidStep(s))
    /\ \A j \in Jobs : SF_vars(Begin(j))
    /\ \A t \in TaskIds : SF_vars(EnqueueBegin(t)) /\ SF_vars(CommandStep(t))
    /\ WF_vars(WatcherStep)
    /\ \A r \in Rows : SF_vars(\E old \in SUBSET Rows : r \in old /\ ZombieJudge(old))

Spec == Init /\ [][Next]_vars /\ Fairness

------------------------------------------------------------------------------
(* Properties.                                                              *)

\* Every column and process variable holds a value of its type.
TypeOK ==
    /\ rows \in [Rows -> Row]
    /\ task \in [TaskIds -> TaskRec]
    /\ lock \in Slots \cup {None}
    /\ disp \in [Slots -> Disp]
    /\ kid \in [Slots -> KidStates]
    /\ watch \in [job : Jobs \cup {"none"}, todo : SUBSET Rows, task : TaskIds \cup {None},
                  saw : [TaskIds -> TaskRec] \cup {None}]
    /\ snap \in [Rows -> Row]
    /\ txn \in TxnRec \cup {None}
    /\ cli \subseteq [task : TaskIds, op : {"done", "failed", "ensure"}]
    /\ hook \in [TaskIds -> {"none", "stop", "sync", "pause"}]
    /\ crashes \in Nat

\* A row that is done stays done: no retry from an old snapshot, no late mirror
\* of a dispatcher, no stale verdict of the zombie job and no late hook brings a
\* finished item back ("a done/failed item is terminal and must not be
\* resurrected by a late-arriving hook", inbox_dao.sync_task_status).
DoneStays == \A r \in Rows : rows[r].status = "done" => rows'[r].status = "done"
DoneIsTerminal == [][DoneStays]_vars

\* A row becomes done only on account of a task that is done or that the
\* watcher has just escalated to waiting_input: none of the four writers of
\* done acts on a task status that is no longer true.
DoneEarned ==
    \A r \in Rows : rows'[r].status = "done" /\ rows[r].status # "done"
                        => task'[rows[r].task].status \in {"done", "waiting_input"}
DoneIsEarned == [][DoneEarned]_vars

\* Whoever moves a task moves it along the lifecycle graph, however long ago it
\* read the task, with one exception: the recovery gives a task waiting_input
\* whatever the task has become since it looked (_with_task_lock takes the version
\* it finds for the one it decided on).
MovesLegally ==
    \A t \in TaskIds : \/ task'[t].status = task[t].status
                       \/ task'[t].status \in Legal[task[t].status]
                       \/ watch.job = "recover" /\ task'[t].status = "waiting_input"
TasksMoveLegally == [][MovesLegally]_vars

\* No write leaves two rows of one task and agent that the unique index covers:
\* the jobs that put a row back are refused by it, and none of the writers that
\* are not prepared for an IntegrityError can meet one.
IndexHolds(rs) ==
    \A r, q \in Rows :
        r # q /\ {rs[r].status, rs[q].status} \subseteq Indexed
            => rs[r].task # rs[q].task \/ rs[r].agent # rs[q].agent
OneActiveRow == IndexHolds(rows)

\* The hard cap on max_retries ("to prevent runaway loops",
\* inbox_watch._ABSOLUTE_MAX_RETRIES): recovery after recovery, from snapshots
\* of rows, no row's budget passes it.
BudgetCapped == \A r \in Rows : rows[r].max <= AbsoluteMaxRetries

\* "Items already recovered RECOVERY_MAX times are escalated to operator"
\* (inbox_watch._auto_recover_exhausted_failures_sqlite): no row is rerouted
\* more often than that.
RecoveryCapped == \A r \in Rows : rows[r].recovery <= RecoveryMax

\* The dispatchers of one item whose launcher runs.
WorkingOn(r) == {s \in Slots : RowOf(s) = r /\ kid[s] \in Live}

\* An item never has two launchers at once: "two watchers on the same directory
\* won't double-dispatch" (GUIDE.md).
OneAgentPerRow == \A r \in Rows : Cardinality(WorkingOn(r)) <= 1

\* The dispatch machinery comes to rest: retries, reroutes, reconciliations and
\* reverts between them cannot keep relaunching items for ever.
AtRest == \A r \in Rows : rows[r].status \notin {"pending", "launched"}
Settles == <>[]AtRest

\* A launched row that no process works on any more, after a crash, a lost lock
\* or a kill, does not stay launched.
Abandoned(r) == rows[r].status = "launched" /\ \A s \in Slots : RowOf(s) # r
Reaped == \A r \in Rows : Abandoned(r) ~> ~Abandoned(r)
=============================================================================
