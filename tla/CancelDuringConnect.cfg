\* The service's promise for an accepted cancel, in a live session.
SPECIFICATION FairSpec
CONSTANTS
  Live = TRUE
  Clients = {c1}
  MaxSlices = 1
  MaxResults = 1
  MaxAlerts = 0
  MaxFaults = 0
  MayCrash = FALSE
PROPERTY AcceptedCancelSettles
CHECK_DEADLOCK FALSE
