SPECIFICATION Spec
CONSTANTS
  Sizes = {1, 2}
  Readers = {}
  MaxHeight = 3
  KeepBodies = {0}
  Budget <- OneFailedRecovery
INVARIANT
  TotalsNeverAhead
CHECK_DEADLOCK FALSE
