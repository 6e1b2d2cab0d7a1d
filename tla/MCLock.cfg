SPECIFICATION Spec
CONSTANTS
  Procs = {p1, p2, p3}
  None = None
  Dead = Dead
  MaxCrashes = 2
INVARIANTS TypeOK SafeWithoutOrphans
PROPERTIES OrphanBroken
