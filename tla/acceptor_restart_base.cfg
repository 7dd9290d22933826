CONSTANTS
  Kinds <- TwoKinds
  TreeDepth = 4
  Blocks <- MCBlocks
  Genesis <- MCGenesis
  NoBlock = NoBlock
  Parent <- MCParent
  Height <- MCHeight
  Iter <- MCIter
  Pni <- MCPni
  MaxHeight = 4
  MaxCrashes = 1
  MaxReverts = 0
  MaxDbErrors = 0
  StallRecovery = FALSE
SPECIFICATION Spec
INVARIANT BaseIsLastFinal
CHECK_DEADLOCK FALSE
