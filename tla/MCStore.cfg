SPECIFICATION Spec
CONSTANTS
  Writers = {w1, w2, w3}
  Kinds = {"caller", "command", "gc"}
  MaxVersion = 4
SYMMETRY Processes
INVARIANTS TypeOK VersionIdentifies
PROPERTIES ImplementsRegister
CHECK_DEADLOCK FALSE
