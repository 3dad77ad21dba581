SPECIFICATION FairSpec
CONSTANTS
  ConfiguredHarq = 2
  CommonHarqMax = 2
  RoundMax = 2
  DtxThreshold = 2
  TbSizes = {1}
  GfPids = {}
  MaxAir = 3
  MaxBytes = 2
  MaxLost = 1
PROPERTIES BlocksFinish StopAndWait
