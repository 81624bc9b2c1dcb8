SPECIFICATION Spec
CONSTANTS
  MaxSignals = 2
INVARIANTS TypeOK CompleteIsWhole FlushedAgrees PhasesApart NoLeakedChild
PROPERTIES EndsUnlessSelfDeadlock KeepsPromise
CHECK_DEADLOCK FALSE
