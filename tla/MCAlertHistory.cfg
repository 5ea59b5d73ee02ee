SPECIFICATION FairSpec
CONSTANTS
  Nodes = {n1}
  Raisers = {c1, c2}
  Users = {u1}
  MaxAlerts = 2
  MaxRaises = 3
  MaxClock = 2
  MaxAcks = 1
  MaxFaults = 1
INVARIANTS LeanOnceTrimmed OnlyOldTrimmedAlone
PROPERTY CutBack
CHECK_DEADLOCK FALSE
