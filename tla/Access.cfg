SPECIFICATION Spec
CONSTANTS
  Subjects <- SubjectNames
  Hosts <- Peers
  Environments <- UpToTwoSet
  Window = 2
  StartMax = 1
  ControlMax = 2
  PlaybackMax = 1
  AlertMax = 1
  MaxTime = 2
  MaxRows = 1
  MaxReads = 2
  MaxFaults = 1
  FileNames = {"a", "b"}
  FileKinds <- SomeFiles
  PlaylistEntries <- SomeEntries
  LocalInputs <- SomeInputs
  Urls <- SomeUrls
  Policies <- SomePolicies
  LongestVideo = 2000000000
  MaxChanges = 3
  Requests = {r1, r2}
  MaxStarts = 3
  MaxCrashes = 1
  MaxEntries = 2
  MaxAge = 1
  Uris = {1, 2}
  Fetches = {f1, f2}
  MaxMinted = 4
  MaxClock = 3
  Files <- LocalFiles
  Sources <- MediaSources
  MaxRuns = 3
INVARIANTS
  StartsSpareCancellation
  PrintedKeyAuthenticates
  ExposedServesKeyHolders
  AcknowledgedIsDurable
  SnapshotCarriesItsProgress
  OneBackendPerRuntime
  SlicesTileTheVideos
  AtMostOneBackend
  QuitStopsTheBackend
  RecentTokensResolve
  MediaIsOfSource
CHECK_DEADLOCK FALSE
