SPECIFICATION FairSpec
CONSTANTS
  Units = {u1, u2}
  Timeouts = {t240}
  DefaultTimeout = t240
  MaxRun = 2
  MaxFaults = 1
  MaxElections = 1
INVARIANTS TypeOK CompleteMeansFresh DatabagFollowsProbe
PROPERTIES Converges Propagates
CHECK_DEADLOCK FALSE
