SPECIFICATION Spec
CONSTANTS
  Sizes = {1, 2}
  Readers = {r1}
  MaxHeight = 3
  KeepBodies = {0, 1}
  Budget <- OneOfEach
INVARIANTS
  TypeOK
  
  TotalsNotAhead
CHECK_DEADLOCK FALSE
