\* A local session: slices known in advance, two cancelling clients, and one
\* failing write.  The worker is not killed.
SPECIFICATION FairSpec
CONSTANTS
  Live = FALSE
  Clients = {c1, c2}
  MaxSlices = 2
  MaxResults = 1
  MaxAlerts = 1
  MaxFaults = 1
  MayCrash = FALSE
INVARIANTS
  TypeOK
  TerminalSnapshotIsComplete
  SnapshotBacksItsProgress
  ProgressFollowsMetadata
  CompletedIsComplete
  CancelBoundsWork
  WorkerPayloadsAreValid
PROPERTIES
  OnlyFaultsLeaveTheTable
  KeepsContract
  EverySessionSettles
CHECK_DEADLOCK FALSE
