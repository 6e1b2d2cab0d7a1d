SPECIFICATION Spec
CONSTANTS
  Writers = {w1, w2}
  Kinds = {"caller", "escalate"}
  MaxVersion = 4
SYMMETRY Processes
PROPERTIES ImplementsRegister
CHECK_DEADLOCK FALSE
