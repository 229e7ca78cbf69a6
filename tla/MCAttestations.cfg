CONSTANTS
  Validators = {v1, v2, v3}
  MaxWeight = 2
  a1 = a1
  b1 = b1
  a2 = a2
  Hashes = {a1, b1, a2}
  NoHash = NoHash
  MaxPending = 2
  HashNumber <- MCHashNumber
SPECIFICATION Spec
INVARIANTS TypeOK PendingBounded NoDoubleCount CursorDurable
PROPERTY CursorOnlyAdvances
