SPECIFICATION FairSpec
CONSTANTS
  Users = {u1, u2}
  Requests = {r1, r2}
  GivenIds = {x}
  u1 = u1
  u2 = u2
  x = x
  Inputs <- MCInputs
  None = None
CHECK_DEADLOCK FALSE
INVARIANTS
  TypeOK
  StoredAsAnswered
  OwnRequestId
  StoredIsAllowed
PROPERTIES
  EveryoneAnswered
