CONSTANTS
  a = a
  b = b
  c = c
  g = g
  NoHash = NoHash
  Provisioners = {a, b, c, g}
  Slots <- MCSlots
  Hashes = {h1}
  MaxIter = 3
  EmergencyIter = 1
  Committee <- MCCommittee
  Generator <- GeneratorFaulty
  Honest = {a, b}
  MayRevert = {}
  MaxRestarts = 1
  StopIter = 0
SYMMETRY Symmetry
SPECIFICATION VotersSpec
INVARIANTS HonestNotSlashable AttestationsExclusive FailAttsVerify
CHECK_DEADLOCK FALSE
