SPECIFICATION Spec
CONSTANTS
  Clients = {c1, c2}
  NoModel = none
INVARIANTS InterruptNamesModel
CHECK_DEADLOCK FALSE
