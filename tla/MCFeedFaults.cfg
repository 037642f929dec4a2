SPECIFICATION FairSpec
CONSTANTS
  Users = {u1, u2}
  Authors = {a1}
  PostIds = {1}
  Readers = {r1}
  Instances = 2
  ChunkSize = 1
  CelebrityMin = 2
  MaxVersion = 2
  MaxRequests = 1
  MaxTime = 1
  MaxFaults = 2
  NoFeed = NoFeed
CHECK_DEADLOCK FALSE
INVARIANTS
  TypeOK
  FreshUnlessRaced
PROPERTIES
  EventuallyConsumed
