------------------------------ MODULE Lifecycle ------------------------------
(***************************************************************************)
(* The life of a task, as engine/next_action.py fixes it: the statuses, the *)
(* legal moves between them and the statuses at which an agent may be       *)
(* launched on a task of the implementation workflow.                       *)
(***************************************************************************)

\* ALL_STATUSES
TaskStatuses ==
    {"pending", "todo", "plan_proposed", "plan_approved", "in_progress",
     "pending_user_approval", "report_ready", "review_requested",
     "review_passed", "review_failed", "done", "failed", "stopped",
     "blocked", "waiting_input", "paused", "archived", "pr_open"}

\* The second component of each entry of _MAPPING: the legal next statuses.
Legal ==
    [s \in TaskStatuses |->
        CASE s \in {"pending", "todo"}      -> {"plan_proposed", "waiting_input"}
          [] s = "plan_proposed"            -> {"plan_approved", "todo"}
          [] s = "plan_approved"            -> {"in_progress", "plan_proposed"}
          [] s = "in_progress"              -> {"report_ready", "pending_user_approval",
                                                "stopped", "failed", "waiting_input"}
          [] s \in {"pending_user_approval", "paused"} -> {"in_progress", "stopped"}
          [] s = "report_ready"             -> {"review_passed", "review_failed",
                                                "review_requested"}
          [] s \in {"review_requested", "pr_open"} -> {"review_passed", "review_failed"}
          [] s = "review_passed"            -> {"done", "review_failed"}
          [] s = "review_failed"            -> {"plan_proposed", "todo"}
          [] s = "failed"                   -> {"plan_proposed", "todo", "stopped"}
          [] s = "stopped"                  -> {"in_progress", "plan_proposed", "todo"}
          [] s = "blocked"                  -> {"todo", "plan_proposed"}
          [] s = "waiting_input"            -> {"in_progress", "pending_user_approval",
                                                "todo", "plan_proposed"}
          [] OTHER                          -> {}]   \* done, archived

\* allowed_statuses_for_workflow("implementation").
AllowedForImplementation ==
    {"plan_approved", "in_progress", "report_ready", "review_passed",
     "pr_open", "review_failed", "pending_user_approval"}

\* The gate of delegate: terminal statuses pass, and todo is soft-routed to a
\* plan-only launch. Any other status is a permanent block, exit code 2.
Dispatchable == AllowedForImplementation \cup {"todo", "done", "failed", "stopped"}

\* _ACTIVE_WORK_STATES: the task statuses set_task_status backs with an
\* active inbox row (its other two members are inbox statuses).
ActiveWork == {"in_progress", "waiting_input", "pending_user_approval"}
=============================================================================
