SPECIFICATION Spec
CONSTANTS
  t1 = t1
  claude = claude
  codex = codex
  pi = pi
  d1 = d1
  d2 = d2
  None = None
  Dead = Dead
  TaskIds = {t1}
  Agents = {claude, codex}
  Slots = {d1}
  MaxRows = 2
  DefaultMaxRetries = 1
  InitTasks <- MCApproved
  AbsoluteMaxRetries = 1
  FallbackOwner = None
  FallbackMaxRetries = 1
  FallbackOrder = {claude, codex}
  PiAgent = None
  HookAgent = claude
  Jobs = {"enqueue", "paused", "recover"}
  ReportedStatuses = {}
  OperatorStatuses = {"in_progress"}
  Failures = {"blocked"}
  MaxCrashes = 1
  RecoveryMax = 2
INVARIANTS OneActiveRow
PROPERTIES DoneIsTerminal TasksMoveLegally
CHECK_DEADLOCK FALSE
