SPECIFICATION Spec
CONSTANTS
  Engines = {e1, e2}
  LeaseTerm = 3
  MaxDraws = 1
  MaxLag = 1
CHECK_DEADLOCK FALSE
INVARIANTS LeaseIsPositive
