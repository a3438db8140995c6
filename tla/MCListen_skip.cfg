\* A push that overtakes the catch-up walk moves the cursor past an envelope never printed.
SPECIFICATION Spec
CONSTANTS
  Ids = {1, 2}
  Facts = {}
  Walks = {1}
  Limit = 2
  GateSize = 2
  MaxTime = 0
  Retention = 0
  MaxFaults = 0
INVARIANTS NothingSkipped
CHECK_DEADLOCK FALSE
