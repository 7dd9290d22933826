CONSTANTS
  Kinds <- TwoKinds
  TreeDepth = 4
  Blocks <- MCBlocks
  Genesis <- MCGenesis
  NoBlock = NoBlock
  Parent <- MCParent
  Height <- MCHeight
  Iter <- MCIter
  Pni <- MCPni
  MaxHeight = 4
  MaxCrashes = 2
  MaxReverts = 1
  MaxDbErrors = 1
  StallRecovery = FALSE
SPECIFICATION RecoverySpec
INVARIANTS
  LedgerLinked
  RevertTargetsOpen
  TipAgreement
PROPERTIES FallbackKeepsFinal NodeCatchesUp NodeResumes
CHECK_DEADLOCK FALSE
