SPECIFICATION Spec
CONSTANTS
  n1 = n1
  n2 = n2
  b1 = b1
  Nodes = {n1, n2}
  Bins = {b1}
  Rules = {r1}
  Evals = {e1, e2}
  Readings <- MCReadings
  RuleConfigs <- MCRuleConfigs
  BuiltinCooldown = 1
  MaxClock = 2
  MaxReadings = 3
  MaxEdits = 2
  MaxFaults = 1
SYMMETRY EvalSymmetry
INVARIANTS TypeOK CooldownSpacing EveryTripCovered AlertPerClaim BuiltinSpacing
CHECK_DEADLOCK FALSE
