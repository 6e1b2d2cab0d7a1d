SPECIFICATION Spec
CONSTANTS
  t1 = t1
  claude = claude
  codex = codex
  pi = pi
  d1 = d1
  d2 = d2
  None = None
  Dead = Dead
  TaskIds = {t1}
  Agents = {claude, codex}
  Slots = {d1, d2}
  MaxRows = 1
  DefaultMaxRetries = 2
  InitTasks <- MCInProgress
  AbsoluteMaxRetries = 2
  FallbackOwner = None
  FallbackMaxRetries = 1
  FallbackOrder = {claude, codex}
  PiAgent = None
  HookAgent = None
  Jobs = {"retry"}
  ReportedStatuses = {}
  OperatorStatuses = {}
  Failures = {"retryable"}
  MaxCrashes = 0
  RecoveryMax = 2
SYMMETRY Dispatchers
INVARIANTS OneAgentPerRow
CHECK_DEADLOCK FALSE
