SPECIFICATION CoordFairSpec
CONSTANTS
  Units = {1}
  Timeouts = {t60, t240}
  DefaultTimeout = t240
  Overrides = {none, t60}
  NoOverride = none
  MaxRun = 3
  MaxFaults = 2
  MaxElections = 0
  MaxLost = 1
 
PROPERTIES CliFinishes
CHECK_DEADLOCK FALSE
