SPECIFICATION Spec
CONSTANTS
  SlotsPerFrame = 4
  Frames = 2
  Koffset = 0
  MaxFbTime = 2
  PrachLen = 1
  PrachSlots = {3}
  SrsPeriod = 2
  Msg3K2 = {2}
  PuschK2 = {1, 2}
  GfModulus = 4
  GfPerSlot = 2
  GfMaxPdus = 3
INVARIANTS TypeOK Msg3EntryMatches
PROPERTIES KeepsCalendar
