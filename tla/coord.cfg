SPECIFICATION CoordSpec
CONSTANTS
  Units = {1, 2}
  Timeouts = {t60, t240}
  DefaultTimeout = t240
  Overrides = {t60}
  NoOverride = none
  MaxRun = 2
  MaxFaults = 1
  MaxElections = 0
  MaxLost = 0
INVARIANTS CoordTypeOK CollectedIsCurrent AccountedOnce SpoiltMeansOverwritten
CHECK_DEADLOCK FALSE
