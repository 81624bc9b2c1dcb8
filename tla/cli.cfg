SPECIFICATION Spec
CONSTANTS
  Clients = {c1, c2}
  NoModel = none
INVARIANTS TypeOK ReportCodeReleases LeftoverIsNamedAfterReport NotDestroyedUnseen
PROPERTIES InvocationEnds
CHECK_DEADLOCK FALSE
