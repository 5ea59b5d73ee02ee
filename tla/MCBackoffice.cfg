SPECIFICATION Spec
CONSTANTS
  Users = {"admin", "user"}
  Handlers = {h1, h2}
  MaxCalls = 3
  Coords = {1}
  MaxEvents = 1
INVARIANTS AdminRemains RecordsAgree LocationInSync ReportAnnounced
SYMMETRY Symmetry
CHECK_DEADLOCK FALSE
