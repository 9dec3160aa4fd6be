\* The service's promise for an accepted cancel, in a local session.
SPECIFICATION FairSpec
CONSTANTS
  Live = FALSE
  Clients = {c1}
  MaxSlices = 1
  MaxResults = 1
  MaxAlerts = 0
  MaxFaults = 0
  MayCrash = FALSE
PROPERTY AcceptedCancelIsHonoured
CHECK_DEADLOCK FALSE
