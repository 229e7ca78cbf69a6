CONSTANTS
  Blocks <- MCBlocks
  Genesis <- MCGenesis
  Parent <- MCParent
  Number <- MCNumber
  Ancestors <- MCAncestors
  MaxAttested = 2
SPECIFICATION Spec
INVARIANTS TypeOK HeadExtendsRoot
PROPERTIES RootOnlyAdvances NoOrphansLeft HeadStaysBest
