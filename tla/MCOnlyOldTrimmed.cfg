SPECIFICATION Spec
CONSTANTS
  Nodes = {n1}
  Raisers = {c1, c2}
  Users = {u1}
  MaxAlerts = 2
  MaxRaises = 4
  MaxClock = 4
  MaxAcks = 0
  MaxFaults = 0
SYMMETRY RaiserSymmetry
INVARIANT OnlyOldTrimmed
CHECK_DEADLOCK FALSE
