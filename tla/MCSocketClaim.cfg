SPECIFICATION Spec
CONSTANTS
  Users = {u1}
  Slots = {1, 2, 3, 4}
  None = None
CHECK_DEADLOCK FALSE
INVARIANTS
  OneSocketPerUser
