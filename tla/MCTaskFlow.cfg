SPECIFICATION Spec
CONSTANTS
    claude = claude
    codex = codex
    None = None
    Owner = claude
    Reviewers = {codex}
    Explicit = FALSE
    AutoApprove = TRUE
    Begin <- MCBegin
    AgentTargets = {"plan_proposed", "in_progress", "report_ready", "review_requested", "waiting_input", "pending_user_approval", "done", "stopped"}
    DashMoves <- MCDashMoves
    McpTargets = {"report_ready"}
    Commands = {"report", "verdict", "approve", "verify", "close", "skip", "tidy", "review", "clear"}
    MaxMoves = 4
INVARIANTS TypeOK
PROPERTIES LockHolds   WorkEnds
CHECK_DEADLOCK FALSE
