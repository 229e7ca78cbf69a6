SPECIFICATION Spec
CONSTANTS
  v1 = v1
  v2 = v2
  Validators = {v1, v2}
  MaxWeight = 3
  Blocks <- MCBlocks
  Hashes <- MCBlocks
  NoHash = 0
  Genesis <- MCGenesis
  Parent <- MCParent
  Number <- MCNumber
  Ancestors <- MCAncestors
  MaxPending = 4
  Me = v1
  Invalid = {}
  EpochLength = 2
  Registry <- Reweighted
  Voters = {v1, v2}
  Attesters = {}
  Certificates = {{v1, v2}}
  Producible = {}
  Writes = {"done", "refused"}
  Crashes = FALSE
PROPERTY
  FailedWriteRetries
