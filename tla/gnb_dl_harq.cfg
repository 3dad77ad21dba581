SPECIFICATION Spec
CONSTANTS
  NrofHarq = 3
  NoFeedback = {2}
  RoundMax = 2
  SlotsPerFrame = 8
  Frames = 6
  PeriodSlots = 4
  DlSlots = {0, 1}
  UlSlots = {3}
  FbTimes = 6
  MinFb = 2
  CsiPeriod = 8
  CsiOffset = 3
  CsiAcks = 1
  MaxTaken = 1
  MaxAir = 1
  MaxMissed = 2
  MaxDelay = 2
  MaxOverdue = 5
INVARIANTS TypeOK ListsMatchProcesses AcksOnTheWay FeedbackInOrder CsiStructureFree
PROPERTIES BitsReachTheirProcess StopAndWait
CHECK_DEADLOCK FALSE
