CONSTANTS
  Provisioners = {"x", "y", "w"}
  Slots <- PairSlots
  Hashes = {"h"}
  NoHash = "none"
  MaxIter = 2
  EmergencyIter = 0
  Committee <- PairCommittee
  Generator <- PairGenerator
  Honest = {"x"}
  MayRevert = {"x"}
  MaxRestarts = 1
  StopIter = 1
  Cur = 5
  MaxPni = 2
  Signers = {"a", "b"}
  MaxRoundDistance = 4
  OffsetFutureMsgs = 1
  QueueCapacity = 1
  InboundCapacity = 2
  StepsPerIter = 2
  RoundIters = 2
  SavedIterCap = 0
  TopHeight = 2
  MaxReceived = 2
  MaxBreaks = 1
  MinStepTimeout = 1
  MaxStepTimeout = 2
  TimeoutIncrease = 1
  MaxIters = 2
  Relax = 2
  MinBlockTime = 6
  Margin = 1
  AvgValues = 1
  Skews = {1}
  MaxRounds = 1
SPECIFICATION PartSpec
INVARIANTS
  SuccessQuorumsVerify
  EmergencyNeverFails
  LoopsGiveClosedForm
  HonestHeadersPass
  EmergencyNotEarly
  VerifiersCountAlike
PROPERTY QueuedMessagesKept
CHECK_DEADLOCK FALSE
