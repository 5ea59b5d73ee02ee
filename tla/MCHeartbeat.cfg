SPECIFICATION FairSpec
CONSTANTS
  Nodes = {n1}
  Bins = {b1, b2}
  Ticks = {t1, t2}
  OfflineAfter = 1
  MaxClock = 4
  MaxStamp = 2
  MaxReadings = 2
  MaxFaults = 1
INVARIANTS OfflineMeansSilent OfflineReported SingleAlarm
PROPERTY SilenceReported
CHECK_DEADLOCK FALSE
