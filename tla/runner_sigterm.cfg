SPECIFICATION Spec
CONSTANTS
  MaxSignals = 1
PROPERTIES SigtermWritesOutput
CHECK_DEADLOCK FALSE
