CONSTANTS
  a = a
  b = b
  c = c
  g = g
  NoHash = NoHash
  Provisioners = {a, b, g}
  Slots <- PairSlots
  Hashes = {h1}
  MaxIter = 2
  EmergencyIter = 0
  Committee <- PairCommittee
  Generator <- GeneratorFaulty
  Honest = {a}
  MayRevert = {}
  MaxRestarts = 0
  StopIter = 1
SPECIFICATION Spec
INVARIANTS OpenModeBroadcasts
CHECK_DEADLOCK FALSE
