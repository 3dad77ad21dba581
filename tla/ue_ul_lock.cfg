SPECIFICATION FairSpec
CONSTANTS
  MaxBytes = 1
  SrTransMax = 2
  SlotsPerFrame = 4
  Frames = 2
  UlSlots = {2, 3}
  PrachSlots = {3}
  Rx2Tx = 2
  K2 = {2}
  MaxLead = 2
  MaxPdus = 6
  GfPeriod = 6
  Failures = {"ta"}
PROPERTY CalledEachSlot
CHECK_DEADLOCK FALSE
