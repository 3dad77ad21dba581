SPECIFICATION Spec
CONSTANTS
  Uid = {0, 1}
  Rnti = {r1, r2}
  NoUe = NoUe
  Requests <- MCRequests
  MaxPid = 2
  MaxConfigs = 2
  MaxPerSlot = 1
  BitmapSlots = 4
  Rounds = 2
  Cycle = 2
  CounterMod = 2
  MaxDue = 2
INVARIANTS TypeOK SummaryExact ShadowedStaysIdle
SYMMETRY MCSymmetry
CONSTRAINT MCFewConfigs
