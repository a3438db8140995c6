\* Pushes, overlapping walks, drops, kills and saves: what is printed, claimed and saved.
SPECIFICATION Spec
CONSTANTS
  Ids = {1, 2}
  Facts = {}
  Walks = {1, 2}
  Limit = 1
  GateSize = 1
  MaxTime = 1
  Retention = 1
  MaxFaults = 2
INVARIANTS TypeOK PrintedOnce ClaimedWasPrinted
PROPERTIES SilentDropsAreDuplicates CursorNeverGoesBack
CHECK_DEADLOCK FALSE
