SPECIFICATION Spec
CONSTANTS
  Nodes = {1, 2, 3, 4, 5}
  InScope = {1, 2, 3, 4}
  Role <- Roles
  RackOf <- Racking
  Segments = {1, 2}
  On <- Interfaces
  Addressed <- Addresses
  Unprivileged = {1}
  MaxSweeps = 2
  MaxTroubles = 2
  MaxInterrupted = 1
INVARIANTS TypeOK CleanMeansConnected DefinitiveIsTrue UnidirectionalMeansCutShort
CHECK_DEADLOCK FALSE
