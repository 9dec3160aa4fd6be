\* The details a failed snapshot should carry, without any failing write.
SPECIFICATION Spec
CONSTANTS
  Live = FALSE
  Clients = {c1}
  MaxSlices = 1
  MaxResults = 1
  MaxAlerts = 1
  MaxFaults = 0
  MayCrash = FALSE
INVARIANT FailedSnapshotHasDetails
CHECK_DEADLOCK FALSE
