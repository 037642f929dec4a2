SPECIFICATION Spec
CONSTANTS
  Ops = {u1, u2}
  Consumers = {cud}
  Relays = {w1, w2}
  Table = "users_outbox"
  Tries = 2
  MaxFaults = 3
  NoRow = NoRow
  NoRelay = NoRelay
SYMMETRY Symmetric
INVARIANTS
  TypeOK
  NoSilentChange
  SendsBoundedByFaults
  LostOnlyByFaults
