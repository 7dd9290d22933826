CONSTANTS
  m1 = m1
  m1b = m1b
  m2 = m2
  m3 = m3
  p1 = p1
  p12 = p12
  acc = acc
  n1 = n1
  n2 = n2
  NoTx = NoTx
  Txs = {m1, m1b, m2, m3, p1, p12}
  Nullifiers = {n1, n2}
  Accounts = {acc}
  MaxNonce = 3
  ToSpendIds <- MCToSpendIds
  GasPrice <- MCGasPrice
  MaxTxnCount = 3
  MaxBlocks = 1
  MaxReverts = 1
  MaxDiscards = 1
  MaxCrashes = 1
  Keys <- SceneKeys
  NoKey = "none"
  MaxRoots = 2
  Epoch = 1
  MinStake = 100
  Warnings = 1
  DuskKey = "d"
  Genesis <- SceneGenesis
  Emission = 120
  Credits = 6
  Quorum = 4
  BlockGasLimit = 3
  MinDeployPoints = 1
  MinDeployPrice = 1
  GasPerByte = 1
  Intents <- SceneIntents
  Closings <- SceneClosings
  MaxTxs = 2
  MaxHeight = 2
SPECIFICATION BlocksSpec
INVARIANT LeaversCanBeSlashed
CHECK_DEADLOCK FALSE
