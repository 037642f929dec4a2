SPECIFICATION FairSpec
CONSTANTS
  Engines = {e1, e2, e3}
  Requests = {r1, r2}
  MaxChanges = 2
  Nobody = Nobody
INVARIANTS
  TypeOK
  NoEngineForgotten
  WritesReachPrimary
PROPERTIES
  EventuallyRevived
