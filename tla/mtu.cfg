SPECIFICATION RepSpec
CONSTANTS
  Mtus = {1400, 1500, 1600, 5000, 8900, 9000}
  LocalMtus = {1500, 5000, 9000}
  Hops = 2
  Bonds = {bond0}
  MembersOf <- ThreeMembers
  Switches = {s1, s2}
INVARIANTS RepTypeOK BondFindingIsTrue MeasuredIsClose ReportIsTrue
CHECK_DEADLOCK FALSE
