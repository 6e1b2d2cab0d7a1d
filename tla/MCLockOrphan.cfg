SPECIFICATION Spec
CONSTANTS
  Procs = {p1, p2}
  None = None
  Dead = Dead
  MaxCrashes = 1
SYMMETRY Slots
INVARIANTS MutualExclusion
