\* Calls are answered in order; the last poll of the first session comes back
\* after the second was started.
SPECIFICATION Spec
CONSTANTS
  Orders = {TRUE}
  Outcomes = {"completed", "cancelled"}
  MaxSessions = 2
  MaxPolls <- PollsOut
  MaxCancels = 1
  MaxFailures = 0
PROPERTIES
  FirstReadMissKeepsSession
CHECK_DEADLOCK FALSE
