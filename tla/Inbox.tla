-------------------------------- MODULE Inbox --------------------------------
(***************************************************************************)
(* The rows of the SQLite table inbox (engine/db.py) and the writes that    *)
(* engine/inbox_dao.py makes to one of them. Each operator is one UPDATE or *)
(* INSERT: it takes the row as it is in the database and returns the row    *)
(* the statement leaves. The processes that issue them are in InboxDispatch.*)
(*                                                                          *)
(* Timestamps are left out: which row is old is a choice of the processes   *)
(* that look at the clock. A failed_reason is one of three classes, the     *)
(* ones the watcher tells apart: NULL, a text that names a permanent block, *)
(* any other text.                                                          *)
(***************************************************************************)
EXTENDS Naturals

CONSTANTS
    TaskIds,            \* tasks of the contract
    Agents,             \* target agents
    Slots,              \* dispatcher processes that may run at once
    MaxRows,            \* BOUND: rows the table ever holds
    DefaultMaxRetries,  \* max_retries of a new row (3 in the code)
    None,               \* a NULL column
    Dead                \* a recorded pid whose process is gone

ASSUME MaxRowsAssumption == MaxRows \in Nat \ {0}
ASSUME RetriesAssumption == DefaultMaxRetries \in Nat
ASSUME NoneAssumption == None \notin TaskIds \cup Agents

\* Rows are numbered in created_at order. All have the default priority, so
\* ORDER BY priority DESC, created_at ASC is the order of the numbers.
Rows == 1..MaxRows

\* A pid column: NULL, a pid that no longer runs, or a live dispatcher or the
\* live launcher a dispatcher spawned. (The operating system is assumed not to
\* give a recorded pid to another process.)
Pids == {None, Dead} \cup [slot : Slots, kind : {"dispatcher", "agent"}]

DispatcherPid(s) == [slot |-> s, kind |-> "dispatcher"]
AgentPid(s) == [slot |-> s, kind |-> "agent"]

RowStatuses == {"absent", "pending", "launched", "running", "paused",
                "failed", "done", "stopped"}

\* _ACTIVE_STATUSES
Active == {"pending", "launched", "running", "paused"}

\* The statuses the partial unique index ranges over: every one but failed,
\* done and cancelled. ("absent" is a row not inserted yet.)
Indexed == RowStatuses \ {"absent", "failed", "done"}

Reasons == {"none", "blocked", "other"}

Row == [status : RowStatuses, task : TaskIds \cup {None}, agent : Agents \cup {None},
        retry : Nat, max : Nat, recovery : Nat, pid : Pids, reason : Reasons]

AbsentRow == [status |-> "absent", task |-> None, agent |-> None, retry |-> 0,
              max |-> 0, recovery |-> 0, pid |-> None, reason |-> "none"]

------------------------------------------------------------------------------

\* enqueue: the INSERT.
Enqueued(t, a) ==
    [status |-> "pending", task |-> t, agent |-> a, retry |-> 0,
     max |-> DefaultMaxRetries, recovery |-> 0, pid |-> None, reason |-> "none"]

\* Mutant: a paused or stopped row is no duplicate.
Duplicate_Underway(rs, t, a) ==
    \E q \in Rows : /\ rs[q].status \in {"pending", "launched", "running"}
                    /\ rs[q].task = t /\ rs[q].agent = a

\* enqueue: an active row of the same task and agent, or one the unique index
\* refuses, rejects the INSERT (the index covers every active status).
Duplicate(rs, t, a) ==
    \E q \in Rows : rs[q].status \in Indexed /\ rs[q].task = t /\ rs[q].agent = a

\* claim_next: the row of the subquery, the oldest pending one of the agent.
NextPending(rs, a, r) ==
    /\ rs[r].status = "pending" /\ rs[r].agent = a
    /\ \A q \in Rows : rs[q].status = "pending" /\ rs[q].agent = a => r <= q

\* claim_next: the UPDATE.
Claimed(row, p) == [row EXCEPT !.status = "launched", !.pid = p]

\* update_status: compare-and-set on the status. Moving to failed also writes
\* the reason, NULL when none is given.
Moved(row, from, to, why) ==
    IF row.status # from
    THEN row
    ELSE [row EXCEPT !.status = to,
                     !.reason = IF to = "failed" THEN why ELSE row.reason]

\* Mutant: the retry is not counted.
Retried_Uncounted(row, n, why) ==
    [row EXCEPT !.status = "pending", !.reason = why, !.pid = None]

\* set_retry: unconditional.
Retried(row, n, why) ==
    [row EXCEPT !.status = "pending", !.retry = n, !.reason = why, !.pid = None]

\* reassign: unconditional, a fresh budget under another agent.
Reassigned(row, a, m) ==
    [row EXCEPT !.status = "pending", !.agent = a, !.retry = 0, !.max = m,
                !.reason = "other", !.pid = None]

\* mark_recovered: unconditional, one more retry under another agent.
Recovered(row, a, n) ==
    [row EXCEPT !.status = "pending", !.agent = a, !.retry = 0, !.max = row.max + 1,
                !.recovery = n, !.reason = "other", !.pid = None]

\* mark_failed and mark_done: unconditional.
MarkedFailed(row) == [row EXCEPT !.status = "failed", !.reason = "other"]
MarkedDone(row) == [row EXCEPT !.status = "done"]

\* Mutant: rows that are over are synchronised too.
Synced_Any(row, t, to) ==
    IF row.task = t THEN [row EXCEPT !.status = to, !.pid = None] ELSE row

\* sync_task_status: every active row of the task.
Synced(row, t, to) ==
    IF row.task = t /\ row.status \in Active
    THEN [row EXCEPT !.status = to, !.pid = None]
    ELSE row

\* The partial unique index on (task_id, target_agent): putting `new` in place
\* of row r raises IntegrityError.
Clash(rs, r, new) ==
    /\ new.status \in Indexed
    /\ \E q \in Rows \ {r} : /\ rs[q].status \in Indexed
                             /\ rs[q].task = new.task /\ rs[q].agent = new.agent
=============================================================================
