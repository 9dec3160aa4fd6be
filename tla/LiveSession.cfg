\* A live session: slices yielded one by one, two failing writes, a crash.
SPECIFICATION FairSpec
CONSTANTS
  Live = TRUE
  Clients = {c1}
  MaxSlices = 2
  MaxResults = 1
  MaxAlerts = 1
  MaxFaults = 2
  MayCrash = TRUE
PROPERTIES
  LoopCancelHonoured
CHECK_DEADLOCK FALSE
