SPECIFICATION FairSpec
CONSTANTS
  Calls = {c1, c2, c3}
  Shutdown = shutdown
  Producers = {p1, p2, p3, p4}
  MaxFaults = 1
  None = None
CHECK_DEADLOCK FALSE
INVARIANTS
  TypeOK
  UsableWhenQuiet
PROPERTIES
  EveryCallEnds
