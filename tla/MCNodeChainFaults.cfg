SPECIFICATION Spec
CONSTANTS
  v1 = v1
  v2 = v2
  Validators = {v1, v2}
  MaxWeight = 3
  Blocks <- MCBlocks
  Hashes <- MCBlocks
  NoHash = 0
  Genesis <- MCGenesis
  Parent <- MCParent
  Number <- MCNumber
  Ancestors <- MCAncestors
  MaxPending = 4
  Me = v1
  Invalid = {}
  EpochLength = 2
  Registry <- Reweighted
  Voters = {v1, v2}
  Attesters = {v1}
  Certificates = {{v1, v2}}
  Producible = {3}
  Writes = {"done", "refused", "reopen", "backlog", "unloaded", "late"}
  Crashes = TRUE
INVARIANTS
  CoreInvariants
  AuthoritiesFollow
PROPERTIES
  FinalizedStays
  CommitFinalizes
