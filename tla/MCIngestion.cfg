SPECIFICATION IngestSpec
CONSTANTS
  depth = depth
  gas = gas
  Metrics = {depth, gas}
  Messages <- MCMessages
  Handlers = {h1, h2}
  Window = 2
  MaxReceived = 4
  MaxFaults = 1
SYMMETRY HandlerSymmetry
INVARIANTS NothingLost ShownIsStored WindowIsRecent
CHECK_DEADLOCK FALSE
