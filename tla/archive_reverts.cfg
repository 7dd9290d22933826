SPECIFICATION ArchiveSpec
INVARIANT RevertedForgotten
CONSTANTS
  Tree <- StoreTree
  Genesis0 = "g"
  FaultHeader <- StoreFaultHeader
  EpochBlocks = 2
  CandidateOffset = 1
  Requests <- PeerRequests
  MaxOngoing = 1
  MaxQueue = 1
  MaxInv = 2
  MaxSends = 1
  MaxReverts = 1
  Lower <- LowerCase
  U64Size = 16
  Sessions = {"p", "q"}
  Sids = {"s1", "s2"}
  Paths <- SubscribedPaths
  Events <- ServerEvents
  ActionCap = 1
  EventCap = 1
  MaxEvents = 2
  MaxActions = 2
  Posts <- ServerPosts
  Messages <- LegacyMessages
  GasPrices <- PoolPrices
  Limits = {1, 2, 3}
  MaxMessages = 2
CHECK_DEADLOCK FALSE
