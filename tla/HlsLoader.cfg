\* The constants of the single run: a window that can hold two unread segments
\* slides past the first, responses of several chunks, nested and malformed
\* playlists, an encoder that begins again.  MCHlsLoader has those of the other.
SPECIFICATION ShapedSpec
CONSTANTS
  Names = {"a", "b"}
  FirstName = "a"
  MaxSeq = 3
  WindowSize = 2
  MaxRestarts = 1
  MaxIdle = 1
  MaxReconnects = 1
  MaxRefreshes = 2
  MaxDepth = 1
  MaxChunks = 2
  SkipCount = 1
  MaxRuns = 1
  MaxUndeleted = 0
INVARIANTS
  QueueIsConsistent
  TimelineAdvances
  CancelStopsReading
  EndedMeansDrained
  NoFileForgotten
PROPERTIES
  EveryRunEnds
  IsLiveSource
CHECK_DEADLOCK FALSE
