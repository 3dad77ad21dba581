SPECIFICATION Spec
CONSTANTS
  SlotsPerFrame = 2
  Frames = 4
  Koffset = 0
  MaxFbTime = 2
  PrachLen = 1
  PrachSlots = {1}
  SrsPeriod = 2
  Msg3K2 = {1}
  PuschK2 = {1}
  GfModulus = 4
  GfPerSlot = 1
  GfMaxPdus = 3
INVARIANTS Msg3EntryMatches
CHECK_DEADLOCK FALSE
