SPECIFICATION Spec
CONSTANTS
  u1 = u1
  u2 = u2
  Rntis = {1, 2, 3}
  Ues = {u1, u2}
  Preambles = {1, 2}
  MaxAccess = 2
  MaxMobiles = 2
  Msg3Rounds = 2
  Msg4Rounds = 2
  TransMax = 2
  Quotas <- MCQuotas
INVARIANTS TypeOK ConnectedFits KnownToCu
PROPERTIES NoRntiOnlyIfLate OneWinner AccessEnds RaEnds ReleaseAnswered
CHECK_DEADLOCK FALSE
