SPECIFICATION Spec
CONSTANTS
  ConfiguredHarq = 3
  CommonHarqMax = 2
  RoundMax = 2
  DtxThreshold = 1
  TbSizes = {1}
  GfPids = {}
  MaxAir = 1
  MaxBytes = 1
  MaxLost = 0
INVARIANT ListsNeverShrink
CHECK_DEADLOCK FALSE
