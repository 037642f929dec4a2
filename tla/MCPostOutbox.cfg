SPECIFICATION FairSpec
CONSTANTS
  Ops = {p1, p2}
  Consumers = {f1}
  Relays = {w1, w2}
  Table = "events_outbox"
  Tries = 2
  MaxFaults = 1
  NoRow = NoRow
  NoRelay = NoRelay
INVARIANTS
  NoUnsentRemoval
PROPERTIES
  ImplementsPromise
  EventuallyRelayed
