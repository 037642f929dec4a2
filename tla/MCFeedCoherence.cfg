SPECIFICATION Spec
CONSTANTS
  Users = {u1, u2}
  Authors = {a1}
  PostIds = {p1, p2}
  Readers = {r1}
  Instances = 2
  ChunkSize = 1
  CelebrityMin = 3
  MaxVersion = 2
  MaxRequests = 2
  MaxTime = 1
  MaxFaults = 1
  NoFeed = NoFeed
SYMMETRY Symmetric
CONSTRAINT Unraced
CHECK_DEADLOCK FALSE
INVARIANTS
  FreshUnlessRaced
