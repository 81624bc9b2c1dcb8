SPECIFICATION Spec
CONSTANTS
  Machines = {1, 2, 3}
  Controllers = {10, 20}
  NoRack = 0
  Segments = {1, 2, 3}
  FabricOf <- Fabrics
  Wirings <- SmallWirings
  Primaries <- SmallPrimaries
  CtlLinks <- ControllersOn
INVARIANTS TypeOK ViewsAgree NeighboursKnown AdviceIsRight
CHECK_DEADLOCK FALSE
