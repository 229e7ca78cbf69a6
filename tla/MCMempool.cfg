CONSTANTS
  a = a
  b = b
  a0 = a0
  r0 = r0
  a1 = a1
  a2 = a2
  b0 = b0
  Senders = {a, b}
  TxIds = {a0, r0, a1, a2, b0}
  Tx <- MCTx
  Limits <- MCLimits
  BumpPct = 10
  Worlds <- MCWorlds
  Genesis <- MCGenesis
  MaxHeight = 2
  MaxBlockTxs = 1
  MaxFaults = 1
SPECIFICATION Spec
INVARIANTS
  TypeOK
  IndexesAgree
  LimitsHold
  SelectionSound
  PoolFollowsChain
  QueuesContiguous
  NoncesSpentOnce
PROPERTY
  AdmissionsCovered
CHECK_DEADLOCK FALSE
