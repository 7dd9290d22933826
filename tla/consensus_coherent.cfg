CONSTANTS
  a = a
  b = b
  c = c
  g = g
  NoHash = NoHash
  Provisioners = {a, b, c, g}
  Slots <- MCSlots
  Hashes = {h1}
  MaxIter = 3
  EmergencyIter = 1
  Committee <- MCCommittee
  Generator <- GeneratorHonest
  Honest = {a}
  MayRevert = {}
  MaxRestarts = 0
  StopIter = 0
SPECIFICATION Spec
INVARIANTS QuorumsCoherent
CHECK_DEADLOCK FALSE
