SPECIFICATION Spec
CONSTANTS
  v1 = v1
  v2 = v2
  Validators = {v1, v2}
  MaxWeight = 2
  Blocks <- DeepBlocks
  Hashes <- DeepBlocks
  NoHash = 0
  Genesis <- DeepGenesis
  Parent <- DeepParent
  Number <- DeepNumber
  Ancestors <- DeepAncestors
  MaxPending = 4
  Me = v1
  Invalid = {5}
  EpochLength = 2
  Registry <- Same
  Voters = {v2}
  Attesters = {}
  Certificates = {{v1, v2}}
  Producible = {1}
  Writes = {"done"}
  Crashes = TRUE
INVARIANTS
  TypeOK
  CoreInvariants
  ForkChoiceFollows
  OnlyValidCanonical
PROPERTY
  FinalityRefined
