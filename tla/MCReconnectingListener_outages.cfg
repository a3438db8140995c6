\* Outages, refusals, stable connections and close() at every point, with and without a cap.
SPECIFICATION FairSpec
CONSTANTS
  Caps = {0, 1, 2, 3, 5}
  Sockets = {1, 2}
  Ceiling = 6
INVARIANTS OneConnection GivesUpAtTheCap
PROPERTIES KeepsTrying
