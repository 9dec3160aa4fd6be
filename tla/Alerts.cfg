SPECIFICATION Spec
CONSTANTS
  Sessions = {s1, s2}
  Groups = {g}
  BlackRows <- BlackScreenRows
  BlurRows <- BlurryRows
  MaxSamples = 5
  MaxAlone = 8
  Topics <- TopicNames
  Gap = 1
  QueryRows = 3
  Queries <- SomeQueries
  MaxAlerts = 4
  MaxClock = 2
  Workers = {w1, w2}
  w2 = w2
  BufferSize = 2
  MaxSlices = 2
  MaxWriteFaults = 1
  Maps <- Playlists
  MaxPosition = 3
  MaxStarted = 2
INVARIANTS
  MetricsBackResults
  AlertsAreSeparateEpisodes
  FaultsAreAlerted
  PagesJoinUp
  SummaryFitsThePages
  ShownAlertsStay
CHECK_DEADLOCK FALSE
