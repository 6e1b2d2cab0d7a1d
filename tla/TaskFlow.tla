------------------------------- MODULE TaskFlow -------------------------------
(***************************************************************************)
(* One task of the implementation workflow from its plan to its archive:    *)
(* its row of the table tasks, the report and the verdicts in handoffs, the *)
(* agents with an active inbox row, and everybody who writes the status:    *)
(* the agents and the command line (commands/task.py, close.py, verify.py,  *)
(* approve.py), the dashboard (scripts/dashboard-ui.py), the MCP tool       *)
(* (mcp/tools/contract.py) and the jobs of the watcher                      *)
(* (commands/inbox_watch.py, engine/lifecycle_rules.py,                     *)
(* engine/review_escalation.py).                                            *)
(*                                                                          *)
(* A writer that reads and updates on one version (set_task_status,         *)
(* status_update, close_task, verify) is a single action. The jobs of the   *)
(* watcher are not: they read the list of tasks and write rows later. The   *)
(* clock is a choice; what becomes of a row is InboxDispatch's subject.     *)
(***************************************************************************)
EXTENDS Lifecycle, Naturals, FiniteSets

CONSTANTS
    Owner,        \* the agent that owns the task
    Reviewers,    \* peer_reviewers, the agents the watcher asks for a review
    None,         \* no status
    Explicit,     \* auto_close is spelled out in profile.yaml
    AutoApprove,  \* auto_approve_plans in profile.yaml
    Begin,        \* BOUND: the states the task may be met in
    AgentTargets, \* BOUND: the statuses the owner sets
    DashMoves,    \* BOUND: the moves <<from, to>> made at the dashboard
    McpTargets,   \* BOUND: the statuses set through the MCP tool
    Commands,     \* BOUND: the other commands people give
    MaxMoves      \* BOUND: what agents and people do, in total

Agents == Reviewers \cup {Owner}

\* A row of tasks: the status, whether contract_locked_at is set, the verified
\* flag, escalated_to in extras_json and whether review_requested_at is set.
TaskRec == [status : TaskStatuses, locked : BOOLEAN, verified : BOOLEAN,
            escalated : BOOLEAN, asked : BOOLEAN]

Plain(s) == [status |-> s, locked |-> FALSE, verified |-> FALSE,
             escalated |-> FALSE, asked |-> FALSE]

\* The moves the dashboard has a button for (_set_task_status). Its buttons for
\* review_requested -> report_ready and todo -> done ask for illegal moves.
DashboardMoves ==
    {<<"plan_proposed", "plan_approved">>, <<"plan_proposed", "todo">>,
     <<"todo", "plan_proposed">>, <<"stopped", "todo">>}
        \cup {<<s, "stopped">> : s \in TaskStatuses}

ASSUME PeersAssumption == IsFiniteSet(Reviewers) /\ Owner \notin Reviewers
ASSUME ProfileAssumption == {Explicit, AutoApprove} \subseteq BOOLEAN
ASSUME NoneAssumption == None \notin TaskStatuses
ASSUME BeginAssumption == Begin \subseteq TaskRec
ASSUME MovesAssumption ==
    /\ AgentTargets \cup McpTargets \subseteq TaskStatuses
    /\ DashMoves \subseteq DashboardMoves
    /\ Commands \subseteq {"report", "verdict", "approve", "verify", "close", "skip", "tidy",
                           "review", "clear"}
    /\ MaxMoves \in Nat

VARIABLES
    task,    \* the row of the task
    report,  \* the latest handoff of phase report: none, or whether tests passed
    heard,   \* the oldest verdict in the handoffs of each reviewer
    active,  \* the agents with an active inbox row for the task
    over,    \* the reviewers with an inbox row that is done
    watch,   \* the watcher's job
    dash,    \* the reviewer whose request at the dashboard is under way, and its step
    mcp,     \* the status the MCP tool has validated and not written yet
    after,   \* what status_update or close_task has still to do
    moves    \* moves made

vars == <<task, report, heard, active, over, watch, dash, mcp, after, moves>>

Jobs == {"archive", "verdict", "report", "escalate", "timeout", "bootstrap", "dispatch"}

\* What the watcher is at: the row it has read, the reviewers still to enqueue,
\* whether it has enqueued one, the status or agent it has decided on.
Idle == [job |-> "idle", snap |-> Plain("todo"), left |-> {}, got |-> FALSE, what |-> None]

------------------------------------------------------------------------------
(* What the writers do to the row.                                          *)

\* Mutant: the lock is released by every return to plan_proposed.
Moved_Release(t, to) ==
    [t EXCEPT !.status = to,
              !.locked = CASE to = "plan_approved" -> TRUE
                           [] to = "plan_proposed" -> FALSE
                           [] OTHER -> @]

\* set_task_status: approval locks the contract, rework after a failed review
\* releases it.
Moved(t, to) ==
    [t EXCEPT !.status = to,
              !.locked = CASE to = "plan_approved" -> TRUE
                           [] to = "plan_proposed" /\ t.status = "review_failed" -> FALSE
                           [] OTHER -> @]

\* set_task_status without force: an illegal move is refused.
Set(to) == task' = IF to \in Legal[task.status] THEN Moved(task, to) ELSE task

\* Mutant: the update of a locked contract is not refused.
Mirror_Unlocked(t) == task' = [t EXCEPT !.escalated = @ \/ task.escalated]

\* mirror_task_dict: the whole stale row, status and all, goes over the fresh
\* one, extras_json is merged. It carries acceptance_criteria and tdd, which
\* the DAO refuses to touch under a lock; the refusal is logged and forgotten.
Mirror(t) == task' = IF task.locked THEN task ELSE [t EXCEPT !.escalated = @ \/ task.escalated]

\* Mutant: the rule for tasks that wait for an approval is missing.
Timeout_NoApproval(t) ==
    CASE t.status \in {"in_progress", "report_ready", "todo", "stopped"} -> {"archived"}
      [] t.status \in {"waiting_input", "plan_approved", "plan_proposed"} -> {"failed"}
      [] OTHER -> {}

\* Mutant: the rule's verb is written where a status belongs.
Timeout_Verb(t) ==
    CASE t.status \in {"in_progress", "report_ready", "todo", "stopped"} -> {"archive"}
      [] t.status \in {"waiting_input", "plan_approved", "plan_proposed",
                       "pending_user_approval"} -> {"fail"}
      [] OTHER -> {}

\* LIFECYCLE_RULES for the contract: where a task ends up that stays too long.
Timeout(t) ==
    CASE t.status \in {"in_progress", "report_ready", "todo", "stopped"} -> {"archived"}
      [] t.status \in {"waiting_input", "plan_approved", "plan_proposed",
                       "pending_user_approval"} -> {"failed"}
      [] t.status = "review_requested" /\ t.asked /\ ~t.escalated -> {"report_ready"}
      [] OTHER -> {}

\* _DEADLINE_ELIGIBLE_STATES
Deadlined == TaskStatuses \ {"pending", "done", "failed", "archived"}

\* The gate of inbox_enqueue (--force-reassign): no row for a task that is done,
\* plan_proposed or outside the workflow, and no second active row.
Enqueueable(a) ==
    /\ a \notin active
    /\ task.status \in AllowedForImplementation \cup {"review_requested", "failed", "stopped"}

------------------------------------------------------------------------------
(* The agents.                                                              *)

Move == moves < MaxMoves /\ moves' = moves + 1

\* status_update: any legal move, without the lock of set_task_status. It alone
\* sets review_requested_at. done, failed and stopped settle the inbox next,
\* a plan goes on to be approved where the project says so. BOUND: one command
\* with such a sequel at a time.
AgentStatus(to) ==
    /\ after = "none" /\ to \in Legal[task.status] /\ Move
    /\ task' = [task EXCEPT !.status = to, !.asked = @ \/ to = "review_requested"]
    /\ after' = CASE to = "done" -> "settle_done"
                  [] to \in {"failed", "stopped"} -> "settle_failed"
                  [] to = "plan_proposed" /\ AutoApprove -> "approve"
                  [] OTHER -> "none"
    /\ UNCHANGED <<report, heard, active, over, watch, dash, mcp>>

\* _sync_inbox_after_status: rows still active are done, or have failed.
Settle ==
    /\ after \in {"settle_done", "settle_failed"} /\ after' = "none"
    /\ over' = IF after = "settle_done" THEN over \cup (active \cap Reviewers) ELSE over
    /\ active' = {}
    /\ UNCHANGED <<task, report, heard, watch, dash, mcp, moves>>

\* The nested status_update of the automatic approval, refused by now or not;
\* _enqueue_for_implementation follows.
Approve ==
    /\ after = "approve"
    /\ IF "plan_approved" \in Legal[task.status]
       THEN task' = [task EXCEPT !.status = "plan_approved"] /\ after' = "enqueue"
       ELSE after' = "none" /\ UNCHANGED task
    /\ UNCHANGED <<report, heard, active, over, watch, dash, mcp, moves>>

EnqueueOwner ==
    /\ after = "enqueue" /\ after' = "none"
    /\ active' = active \cup {Owner}
    /\ UNCHANGED <<task, report, heard, over, watch, dash, mcp, moves>>

\* The owner hands in a report.
HandIn(kind) ==
    /\ "report" \in Commands /\ Move
    /\ report' = kind
    /\ UNCHANGED <<task, heard, active, over, watch, dash, mcp, after>>

\* A reviewer's session hands in its verdict; the readers take the oldest.
Verdict(r, v) ==
    /\ "verdict" \in Commands /\ r \in active
    /\ heard[r] = "none"
    /\ heard' = [heard EXCEPT ![r] = v]
    /\ UNCHANGED <<task, report, active, over, watch, dash, mcp, after, moves>>

\* A row comes to its end, done or failed.
RowEnds(a) ==
    /\ a \in active /\ active' = active \ {a}
    /\ over' \in {over, over \cup ({a} \cap Reviewers)}
    /\ UNCHANGED <<task, report, heard, watch, dash, mcp, after, moves>>

------------------------------------------------------------------------------
(* The command line and the MCP tool.                                       *)

\* "shux approve": whatever the status, and without the lock.
ApproveCommand ==
    /\ "approve" \in Commands /\ Move
    /\ task' = [task EXCEPT !.status = "plan_approved"]
    /\ UNCHANGED <<report, heard, active, over, watch, dash, mcp, after>>

\* "shux verify", passed or not.
Verify ==
    /\ "verify" \in Commands /\ Move
    /\ \E pass \in BOOLEAN : task' = [task EXCEPT !.verified = pass]
    /\ UNCHANGED <<report, heard, active, over, watch, dash, mcp, after>>

\* close_task, by the owner or (how = "skip") from the dashboard.
Close(how) ==
    /\ how \in Commands /\ after = "none" /\ Move
    /\ task.status \in {"report_ready", "review_passed"}
    /\ how = "skip" \/ task.verified
    /\ task' = [task EXCEPT !.status = "done"]
    /\ after' = "settle_done"
    /\ UNCHANGED <<report, heard, active, over, watch, dash, mcp>>

\* archive_done
ArchiveDone ==
    /\ "tidy" \in Commands /\ task.status = "done" /\ Move
    /\ task' = [task EXCEPT !.status = "archived"]
    /\ UNCHANGED <<report, heard, active, over, watch, dash, mcp, after>>

\* update_status of the MCP tool validates the move against what it reads, and
\* then writes without a version.
McpRead(to) ==
    /\ mcp = None /\ to \in Legal[task.status] /\ Move
    /\ mcp' = to
    /\ UNCHANGED <<task, report, heard, active, over, watch, dash, after>>

McpWrite ==
    /\ mcp # None /\ mcp' = None
    /\ task' = [task EXCEPT !.status = mcp]
    /\ UNCHANGED <<report, heard, active, over, watch, dash, after, moves>>

------------------------------------------------------------------------------
(* The dashboard.                                                           *)

\* approve_plan, reject_plan, propose_plan, enable_task, disable_task.
DashMove(from, to) ==
    /\ task.status = from /\ to \in Legal[from] /\ Move
    /\ task' = Moved(task, to)
    /\ UNCHANGED <<report, heard, active, over, watch, dash, mcp, after>>

\* request_review: the checks, the row, the status if it is still report_ready.
ReviewCheck(r) ==
    /\ "review" \in Commands /\ dash = <<"idle", None>>
    /\ task.status = "report_ready" /\ active = {} /\ Move
    /\ dash' = <<"enqueue", r>>
    /\ UNCHANGED <<task, report, heard, active, over, watch, mcp, after>>

ReviewEnqueue ==
    /\ dash[1] = "enqueue"
    /\ IF Enqueueable(dash[2])
       THEN active' = active \cup {dash[2]} /\ dash' = <<"mark", dash[2]>>
       ELSE dash' = <<"idle", None>> /\ UNCHANGED active
    /\ UNCHANGED <<task, report, heard, over, watch, mcp, after, moves>>

ReviewMark ==
    /\ dash[1] = "mark" /\ dash' = <<"idle", None>>
    /\ IF task.status = "report_ready" THEN Set("review_requested") ELSE UNCHANGED task
    /\ UNCHANGED <<report, heard, active, over, watch, mcp, after, moves>>

\* approve_without_review removes the rows, whatever they are for; going back
\* to report_ready, its next step, is an illegal move, and it stops there.
ApproveUnreviewed ==
    /\ "clear" \in Commands /\ active # {} /\ Move
    /\ active' = {}
    /\ UNCHANGED <<task, report, heard, over, watch, dash, mcp, after>>

------------------------------------------------------------------------------
(* The watcher: reading.                                                    *)

Begun(job) == [Idle EXCEPT !.job = job, !.snap = task]

Starts(w) ==
    /\ watch = Idle /\ watch' = w
    /\ UNCHANGED <<task, report, heard, active, over, dash, mcp, after, moves>>

\* _auto_archive_stale_tasks: nothing reported for hours.
ReadArchive ==
    /\ task.status \notin {"done", "archived", "stopped", "failed"} /\ report = "none"
    /\ Starts(Begun("archive"))

\* Mutant: only handoffs of the owner are searched for a verdict.
Heard_OwnerOnly(r) == r = Owner /\ r \in over /\ heard[r] # "none"

\* A row that is done and whose agent has handed in a verdict.
Heard(r) == r \in over /\ heard[r] # "none"

\* _auto_close_review_passed: the first row with a verdict decides.
ReadVerdict ==
    /\ task.status = "review_requested"
    /\ \E r \in Reviewers :
          /\ Heard(r)
          /\ Starts([Begun("verdict") EXCEPT
                !.what = IF heard[r] = "lgtm" THEN "review_passed" ELSE "review_failed"])

\* _auto_close_report_ready: tests have to have passed unless auto_close says so.
ReadReport ==
    /\ task.status = "report_ready"
    /\ report = "tested" \/ (report = "untested" /\ Explicit)
    /\ Starts([Begun("report") EXCEPT !.left = Reviewers])

\* escalate_stale_reviews has something to write: this review is stale, or
\* another one is.
ReadEscalate == Starts(Begun("escalate"))

\* _scan_contract: the task has been too long where it is.
ReadTimeout == \E to \in Timeout(task) : Starts([Begun("timeout") EXCEPT !.what = to])

\* _check_deadlines, for those who set one.
ReadDeadline ==
    task.status \in Deadlined /\ Starts([Begun("timeout") EXCEPT !.what = "failed"])

\* _auto_bootstrap_empty_tasks
ReadBootstrap == task.status = "waiting_input" /\ Starts(Begun("bootstrap"))

\* auto_enqueue_todo, auto_enqueue_approved; _auto_peer_approve_plans.
ReadDispatch ==
    /\ active = {}
    /\ \/ task.status \in {"todo", "plan_approved"}
          /\ Starts([Begun("dispatch") EXCEPT !.what = Owner])
       \/ task.status = "plan_proposed" /\ AutoApprove
          /\ \E r \in Reviewers : Starts([Begun("dispatch") EXCEPT !.what = r])

------------------------------------------------------------------------------
(* The watcher: writing.                                                    *)

Ends == watch' = Idle

\* tasks_dao.upsert of a row built from scratch: the version is not compared,
\* the columns that are not named become NULL.
WriteArchive ==
    /\ watch.job = "archive" /\ Ends
    /\ task' = Plain("archived")
    /\ UNCHANGED <<report, heard, active, over, dash, mcp, after, moves>>

\* After a verdict for the task close_task is called on behalf of the reviewer,
\* who does not own it: refused.
WriteVerdict ==
    /\ watch.job = "verdict" /\ Ends
    /\ Set(watch.what)
    /\ UNCHANGED <<report, heard, active, over, dash, mcp, after, moves>>

\* A report that fails verify_report is noted on the stale row.
Unverified ==
    /\ watch.job = "report" /\ watch.left = Reviewers /\ ~watch.got /\ Ends
    /\ Mirror(watch.snap)
    /\ UNCHANGED <<report, heard, active, over, dash, mcp, after, moves>>

\* _trigger_auto_review: every reviewer is enqueued, or refused.
AskReviewer(r) ==
    /\ watch.job = "report" /\ r \in watch.left
    /\ watch' = [watch EXCEPT !.left = @ \ {r}, !.got = @ \/ Enqueueable(r)]
    /\ active' = IF Enqueueable(r) THEN active \cup {r} ELSE active
    /\ UNCHANGED <<task, report, heard, over, dash, mcp, after, moves>>

\* With one enqueued the task goes to review_requested, if that is legal ...
MarkReview ==
    /\ watch.job = "report" /\ watch.left = {} /\ watch.got
    /\ watch' = [watch EXCEPT !.job = "mirror"]
    /\ Set("review_requested")
    /\ UNCHANGED <<report, heard, active, over, dash, mcp, after, moves>>

\* ... and the row as it was read, report_ready, is mirrored over it.
MirrorReport ==
    /\ watch.job = "mirror" /\ Ends
    /\ Mirror(watch.snap)
    /\ UNCHANGED <<report, heard, active, over, dash, mcp, after, moves>>

\* With none enqueued the task is closed, again by an upsert.
CloseReport ==
    /\ watch.job = "report" /\ watch.left = {} /\ ~watch.got /\ Ends
    /\ task' = Plain("done")
    /\ UNCHANGED <<report, heard, active, over, dash, mcp, after, moves>>

\* All tasks are mirrored; a stale review goes to the next reviewer of its
\* chain, or to the operator.
WriteEscalate ==
    /\ watch.job = "escalate" /\ Ends
    /\ LET t == watch.snap IN
       \/ Mirror(t)
       \/ /\ t.status = "review_requested" /\ ~t.escalated
          /\ Mirror([t EXCEPT !.escalated = TRUE]) \/ Mirror([t EXCEPT !.asked = TRUE])
    /\ UNCHANGED <<report, heard, active, over, dash, mcp, after, moves>>

\* set_task_status with force, from the status that was read.
WriteTimeout ==
    /\ watch.job = "timeout" /\ Ends
    /\ task' = IF task.status = watch.snap.status THEN Moved(task, watch.what) ELSE task
    /\ UNCHANGED <<report, heard, active, over, dash, mcp, after, moves>>

\* A plan-only row for the owner; if there is room for it the task goes back to
\* plan_proposed, whatever became of it meanwhile.
WriteBootstrap ==
    /\ watch.job = "bootstrap" /\ Ends
    /\ IF Owner \in active
       THEN UNCHANGED <<task, active>>
       ELSE active' = active \cup {Owner} /\ task' = [task EXCEPT !.status = "plan_proposed"]
    /\ UNCHANGED <<report, heard, over, dash, mcp, after, moves>>

WriteDispatch ==
    /\ watch.job = "dispatch" /\ Ends
    /\ active' = active \cup {watch.what}
    /\ UNCHANGED <<task, report, heard, over, dash, mcp, after, moves>>

------------------------------------------------------------------------------

Init ==
    /\ task \in Begin
    /\ report = "none"
    /\ heard = [r \in Reviewers |-> "none"]
    /\ active = {} /\ over = {}
    /\ watch = Idle /\ dash = <<"idle", None>> /\ mcp = None /\ after = "none"
    /\ moves = 0

WatcherRead ==
    \/ ReadArchive \/ ReadVerdict \/ ReadReport \/ ReadEscalate \/ ReadTimeout
    \/ ReadDeadline \/ ReadBootstrap \/ ReadDispatch

WatcherWrite ==
    \/ WriteArchive \/ WriteVerdict \/ Unverified \/ MarkReview \/ MirrorReport \/ CloseReport
    \/ \E r \in Reviewers : AskReviewer(r)
    \/ WriteEscalate \/ WriteTimeout \/ WriteBootstrap \/ WriteDispatch

People ==
    \/ \E to \in AgentTargets : AgentStatus(to)
    \/ \E kind \in {"untested", "tested"} : HandIn(kind)
    \/ \E r \in Reviewers, v \in {"lgtm", "rejected"} : Verdict(r, v)
    \/ ApproveCommand \/ Verify \/ ArchiveDone
    \/ \E how \in {"close", "skip"} : Close(how)
    \/ \E to \in McpTargets : McpRead(to)
    \/ \E m \in DashMoves : DashMove(m[1], m[2])
    \/ \E r \in Reviewers : ReviewCheck(r)
    \/ ApproveUnreviewed

Commit == Settle \/ Approve \/ EnqueueOwner \/ McpWrite \/ ReviewEnqueue \/ ReviewMark

Next == WatcherRead \/ WatcherWrite \/ People \/ Commit \/ \E a \in Agents : RowEnds(a)

(***************************************************************************)
(* Fairness. The watcher runs its jobs in a fixed round: it finishes each,  *)
(* and the ones named here find their condition again and again while it    *)
(* holds (SF: another job may be running). Commands that have begun finish. *)
(* Nothing is assumed of agents, people and deadlines.                      *)
(***************************************************************************)
Fairness ==
    /\ WF_vars(WatcherWrite) /\ WF_vars(Commit)
    /\ SF_vars(ReadVerdict) /\ SF_vars(ReadTimeout)

Spec == Init /\ [][Next]_vars /\ Fairness

------------------------------------------------------------------------------
(* Properties.                                                              *)

TypeOK ==
    /\ task \in TaskRec
    /\ report \in {"none", "untested", "tested"}
    /\ heard \in [Reviewers -> {"none", "lgtm", "rejected"}]
    /\ active \subseteq Agents /\ over \subseteq Reviewers
    /\ watch \in [job : Jobs \cup {"idle", "mirror"}, snap : TaskRec, left : SUBSET Reviewers,
                  got : BOOLEAN, what : TaskStatuses \cup Agents \cup {None}]
    /\ dash \in {"idle", "enqueue", "mark"} \X (Reviewers \cup {None})
    /\ mcp \in TaskStatuses \cup {None}
    /\ after \in {"none", "settle_done", "settle_failed", "approve", "enqueue"}
    /\ moves \in 0..MaxMoves

\* A contract once locked stays locked, through rejections, timeouts and stale
\* write-backs, until the watcher puts the task away or a failed review is
\* followed by a new plan.
LockHolds ==
    [][task.locked /\ ~task'.locked =>
          \/ task'.status \in {"done", "archived"}
          \/ task.status = "review_failed" /\ task'.status = "plan_proposed"]_vars

\* Under a lock the status keeps to the course, however stale what a writer has
\* read: legal moves, the way out the watcher takes with old or reported tasks,
\* a review taken back. Only the approval command, the MCP tool and the
\* bootstrap job, which compare nothing, may do otherwise.
CourseKept ==
    [][task.locked /\ task'.status # task.status =>
          \/ task'.status \in Legal[task.status] \cup {"archived", "failed", "done"}
          \/ task.status = "review_requested" /\ task'.status = "report_ready" /\ task.asked
          \/ task'.status = "plan_approved" /\ moves' # moves
          \/ mcp' # mcp
          \/ task'.status = "plan_proposed" /\ watch.job = "bootstrap"]_vars

\* Once a reviewer's session has ended well with a verdict, a review is decided.
VerdictCounts ==
    task.status = "review_requested" /\ (\E r \in Reviewers : r \in over /\ heard[r] # "none")
        ~> task.status # "review_requested"

\* No task is left for ever with work that nobody does any more.
WorkEnds == task.status \in ActiveWork ~> task.status \notin ActiveWork
=============================================================================
