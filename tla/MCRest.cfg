SPECIFICATION Spec
CONSTANTS
  t1 = t1
  claude = claude
  codex = codex
  pi = pi
  d1 = d1
  d2 = d2
  None = None
  Dead = Dead
  TaskIds = {t1}
  Agents = {claude, codex}
  Slots = {d1}
  MaxRows = 1
  DefaultMaxRetries = 1
  InitTasks <- MCInProgress
  AbsoluteMaxRetries = 2
  FallbackOwner = codex
  FallbackMaxRetries = 2
  FallbackOrder = {claude, codex}
  PiAgent = codex
  HookAgent = None
  Jobs = {"retry", "recover", "zombies", "reassign"}
  ReportedStatuses = {}
  OperatorStatuses = {}
  Failures = {"retryable", "blocked"}
  MaxCrashes = 1
  RecoveryMax = 2
INVARIANTS BudgetCapped
PROPERTIES Settles Reaped
CHECK_DEADLOCK FALSE
