SPECIFICATION Spec
CONSTANTS
  claude = claude
  codex = codex
  pi = pi
  None = None
  Owners = {claude, codex}
  MaxRounds = 2
  MaxRetries = 1
  Cast <- MCCast
  Launched = {claude}
  Writers = {claude}
  Submitters = {codex}
  Operators = {"consensus", "cancelled", "agree", "fix", "reopen"}
  MaxCommands = 1
INVARIANTS TypeOK
PROPERTIES  NoLateVerdict Ends Drains
CHECK_DEADLOCK FALSE
