SPECIFICATION Spec
CONSTANTS
  Ops = {u1}
  Consumers = {cud}
  Relays = {w1}
  Table = "users_outbox"
  Tries = 2
  MaxFaults = 1
  NoRow = NoRow
  NoRelay = NoRelay
INVARIANTS
  SameTransaction
