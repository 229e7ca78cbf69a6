SPECIFICATION Spec
CONSTANTS
  Sizes = {1, 2}
  Readers = {}
  MaxHeight = 3
  KeepBodies = {1}
  Budget <- OneFailedWrite
INVARIANT
  RebuiltTotalsExact
CHECK_DEADLOCK FALSE
