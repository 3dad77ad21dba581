SPECIFICATION Spec
CONSTANTS
  MaxBytes = 1
  SrTransMax = 2
  SlotsPerFrame = 4
  Frames = 2
  UlSlots = {2, 3}
  PrachSlots = {3}
  Rx2Tx = 2
  K2 = {2, 3}
  MaxLead = 2
  MaxPdus = 3
  GfPeriod = 6
  Failures = {"ta", "sr"}
INVARIANTS TypeOK DataSentOrDropped SrForData
PROPERTIES SentAsFiled SrFailsUnanswered
CHECK_DEADLOCK FALSE
