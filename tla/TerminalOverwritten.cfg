\* The transition table against a failing progress write at the settlement.
SPECIFICATION Spec
CONSTANTS
  Live = FALSE
  Clients = {c1}
  MaxSlices = 1
  MaxResults = 1
  MaxAlerts = 1
  MaxFaults = 1
  MayCrash = FALSE
PROPERTY DurableStatusFollowsTable
CHECK_DEADLOCK FALSE
