\* Two processes open a store of every age, import, write, delete, purge and die.
SPECIFICATION Spec
CONSTANTS
  p1 = p1 p2 = p2
  Processes = {p1, p2}
  Versions = {0, 1, 2, 3, 4, 5}
  Mishaps = {"death", "twoKeys"}
  MaxOpens = 2
  MaxPuts = 1
SYMMETRY Symmetry
INVARIANTS SecretsSurvive ReadyMeansMigrated
PROPERTIES PurgeCleans
CHECK_DEADLOCK FALSE
