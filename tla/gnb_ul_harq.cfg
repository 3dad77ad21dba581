SPECIFICATION Spec
CONSTANTS
  ConfiguredHarq = 2
  CommonHarqMax = 1
  RoundMax = 2
  DtxThreshold = 1
  TbSizes = {1}
  GfPids = {0}
  MaxAir = 3
  MaxBytes = 2
  MaxLost = 2
INVARIANTS TypeOK ListsMatchProcesses ReportsInFeedbackOrder BytesCovered StoppedIsSilent
CHECK_DEADLOCK FALSE
