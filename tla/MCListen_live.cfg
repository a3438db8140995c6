\* Frames get printed and walks end, facts included; a lost save may end the process.
SPECIFICATION FairSpec
CONSTANTS
  Ids = {1, 2}
  Facts = {3}
  Walks = {1}
  Limit = 1
  GateSize = 2
  MaxTime = 0
  Retention = 0
  MaxFaults = 0
PROPERTIES PushedGetsPrinted WalksEnd
CHECK_DEADLOCK FALSE
