SPECIFICATION Spec
CONSTANTS
  Nodes = {1, 2, 3, 4, 5}
  RackOf <- Racking
  NoNode = 0
  MaxTroubles = 2
  MaxInterrupted = 2
INVARIANTS TypeOK CleanMeansOpen OneHostIsNotTheFabric LinkAccounted UnreachableIsTrue
CHECK_DEADLOCK FALSE
