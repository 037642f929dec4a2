SPECIFICATION FairSpec
CONSTANTS
  Members = {m1, m2}
  Retries = 2
  MaxLog = 3
  MaxFaults = 1
  None = None
CHECK_DEADLOCK FALSE
INVARIANTS
  TypeOK
  NothingSkipped
  RepeatsAtMostOne
PROPERTIES
  EventuallyHandled
  Recovers
  CancelledEnds
