CONSTANTS
  Kinds <- GapKinds
  TreeDepth = 5
  Blocks <- MCBlocks
  Genesis <- MCGenesis
  NoBlock = NoBlock
  Parent <- MCParent
  Height <- MCHeight
  Iter <- MCIter
  Pni <- MCPni
  MaxHeight = 5
  MaxCrashes = 0
  MaxReverts = 2
  MaxDbErrors = 0
  StallRecovery = TRUE
SPECIFICATION SteadySpec
INVARIANTS
  TypeOK
  FinalPrefix
  BaseIsLastFinal
  FinalityProgress
PROPERTIES FinalImmutable ImplementsLedger
CHECK_DEADLOCK FALSE
