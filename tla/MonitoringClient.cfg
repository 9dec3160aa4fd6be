\* Two sessions and one failing call, with and without the order of the calls.
SPECIFICATION FairSpec
CONSTANTS
  Orders = {TRUE, FALSE}
  Outcomes = {"completed", "cancelled"}
  MaxSessions = 2
  MaxPolls <- PollsOut
  MaxCancels = 1
  MaxFailures = 1
INVARIANTS
  ShownStatusIsReal
PROPERTIES
  InOrderTerminalIsFinal
  BackendKeepsContract
  ShownSessionIsFollowed
  ButtonsRelease
CHECK_DEADLOCK FALSE
