SPECIFICATION FairSpec
CONSTANTS
  Users = {u1}
  Slots = {1, 2, 3, 4, 5}
  None = None
CHECK_DEADLOCK FALSE
INVARIANTS
  TypeOK
  OneSocketUnlessOrphaned
  NoDeadRouting
PROPERTIES
  EveryoneIsAnswered
