SPECIFICATION Spec
CONSTANTS
  Rows = {1, 2}
  Sizes = {1, 2}
  Flights = {1, 2}
  ListPages = {"alerts", "notifications", "reports", "audit", "users", "rules", "dustbins"}
  MaxRequests = 3
  MaxInputs = 2
  MaxChanges = 1
  MaxFaults = 1
  MaxReadings = 3
  Selections = {{1, 3}, {2}}
  PageSize = 1
  Loads = {1, 2}
  MaxLoads = 4
  MaxLost = 1
  MaxTaken = 4
  MaxMissed = 2
  Keys = {k1, k2}
  Texts = {"x", "y"}
  Calls = {1, 2}
  MaxTypings = 2
  MaxSaves = 2
  MaxEdits = 1
  MaxNotes = 2
  PanelSize = 1
  Asks = {1, 2}
  MaxAsks = 4
  MaxMishaps = 1
  Places <- MCPlaces
  Depot <- MCDepot
  FillLevels <- MCFills
  Thresholds = {1, 2}
  Limits = {4, 5}
  MaxIterations = 50
  MaxPlans = 1
INVARIANT NoRaceDrivenFlicker
CHECK_DEADLOCK FALSE
