\* Calls are answered in order; a late poll of the first session comes back
\* while the second is being cancelled.
SPECIFICATION Spec
CONSTANTS
  Orders = {TRUE}
  Outcomes = {"completed", "cancelled"}
  MaxSessions = 2
  MaxPolls <- PollsOut
  MaxCancels = 2
  MaxFailures = 1
INVARIANTS
  OneCancelInFlight
CHECK_DEADLOCK FALSE
