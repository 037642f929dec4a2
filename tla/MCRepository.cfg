SPECIFICATION Spec
CONSTANTS
  Links <- MCLinks
  Ids = {1, 2, 3}
  Values = {0, 1}
  Starts <- MCStarts
  Batches <- MCBatches
  Reads <- MCReads
  Wheres <- MCWheres
  MaxArgs = 4
  MaxChanges = 2
  MaxFaults = 1
  None = None
CHECK_DEADLOCK FALSE
INVARIANTS
  TypeOK
  AnswerIsAsked
  AnnouncedInOrder
  BatchOutcome
