SPECIFICATION Spec
CONSTANTS
  Replicas = {r1, r2}
  Bins = {b1}
  Hooks = {h1, h2}
  Sockets = {1, 2}
  Edits = {1, 2}
  MaxMounts = 2
  MaxEvents = 2
INVARIANTS ScopeIsCurrent HubForgets Undoubled StaysInTouch
CHECK_DEADLOCK FALSE
