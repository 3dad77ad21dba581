SPECIFICATION FairSpec
CONSTANTS
  Lcs = {1, 2, 3}
  Priorities <- MCPriorities
  Pbr <- MCPbr
  Credit <- MCCredit
  Bucket <- MCBucket
  Lcg <- MCLcg
  TbSizes = {3, 9, 13, 17}
  ShortLimit = 3
  MaxRemain = 3
  MaxSlots = 1
INVARIANTS TypeOK RequestFits RateBeforeRest FullOrEmpty BsrTells
PROPERTIES UrgentFirst PduEnds
CHECK_DEADLOCK FALSE
