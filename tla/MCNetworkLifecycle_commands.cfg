\* Supervision and admin commands under overlaps, deaths, crashes, losses and reused pids.
SPECIFICATION FairSpec
CONSTANTS
  c1 = c1 c2 = c2
  Commands = {c1, c2}
  Operations = {"start", "stop", "status", "reset", "create", "rotate", "remove"}
  Mishaps = {"starts", "resets", "crossing", "overtaken", "death", "crash", "loss", "reuse", "newer"}
  MaxCalls = 3
  MaxSpawns = 2
  MaxFaults = 1
INVARIANTS TypeOK ServerIsRecorded TokenOpensTheServer BearerFitsTheDatabase
PROPERTIES ResetSparesTheRunning CommandsEnd
CHECK_DEADLOCK FALSE
