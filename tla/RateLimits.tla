------------------------------ MODULE RateLimits ------------------------------
(***************************************************************************)
(* The request budgets of the HTTP API: api_rate_limit's in-memory fixed   *)
(* windows, one counter per route family and caller, and the route         *)
(* policies that charge them.  A start is charged to the start guard first *)
(* and then to the session-control budget, which cancels share; playback   *)
(* resolution and alert reads have a budget of their own.                  *)
(*                                                                         *)
(* The policies run in coroutines that never suspend between two charges,  *)
(* so a request is one action.  Time is the monotonic clock in units that  *)
(* divide the window; it stops at MaxTime, which bounds the model.         *)
(*                                                                         *)
(* Name_Fault is the definition Name with one plausible mistake in it.     *)
(***************************************************************************)
EXTENDS Naturals

CONSTANTS
  Subjects,        \* the callers the limiter tells apart
  Window,          \* ApiRateLimitSettings.window_seconds
  StartMax,        \* the ceilings of the route families
  ControlMax,
  PlaybackMax,
  AlertMax,
  MaxTime

\* Half of the session-control budget is what the start guard admits in one
\* window: 6 starts and 12 control requests in api_boundary_config.
ASSUME BudgetAssumption ==
  /\ Window \in Nat \ {0}
  /\ StartMax \in Nat \ {0}
  /\ ControlMax \in Nat
  /\ PlaybackMax \in Nat \ {0}
  /\ AlertMax \in Nat \ {0}
  /\ 2 * StartMax <= ControlMax
  /\ MaxTime \in Nat

VARIABLES
  now,             \* monotonic()
  counters,        \* [budget -> [subject -> its window and the requests in it]]
  cancels          \* [subject -> cancels admitted in its control window]

budgetVars == <<now, counters, cancels>>

Budgets == {"start", "control", "playback", "alerts"}

Ceiling ==
  [start |-> StartMax, control |-> ControlMax, playback |-> PlaybackMax,
   alerts |-> AlertMax]

\* A count of zero is a subject that has no counter yet.
NoCounter == [start |-> 0, count |-> 0]

BudgetInit ==
  /\ now = 0
  /\ counters = [b \in Budgets |-> [s \in Subjects |-> NoCounter]]
  /\ cancels = [s \in Subjects |-> 0]

\* Whether a request meets no counter or an expired one.
NewWindow(c) == c.count = 0 \/ now - c.start >= Window

Refuses(b, s) ==
  /\ ~NewWindow(counters[b][s])
  /\ counters[b][s].count >= Ceiling[b]

\* A window whose count goes on from the last one.
Increment_Fault(c) ==
  IF NewWindow(c) THEN [start |-> now, count |-> c.count + 1]
  ELSE [c EXCEPT !.count = @ + 1]

\* check_and_increment for a request that is not refused.
Increment(c) ==
  IF NewWindow(c) THEN [start |-> now, count |-> 1]
  ELSE [c EXCEPT !.count = @ + 1]

\* The cancels of a control window, once the request has been counted in it.
CancelsAfter(s, more) ==
  (IF NewWindow(counters["control"][s]) THEN 0 ELSE cancels[s]) + more

\* The start guard without a place in the sequence: both budgets are checked
\* before either is charged, the control budget alone for a refused start.
ChargeStart_Fault(s) ==
  /\ ~Refuses("control", s)
  /\ counters' =
       [counters EXCEPT !["control"][s] = Increment(@),
                        !["start"][s] = IF Refuses("start", s) THEN @
                                        ELSE Increment(@)]
  /\ cancels' = [cancels EXCEPT ![s] = CancelsAfter(s, 0)]

\* Both budgets admit the start.
ChargeStart(s) ==
  /\ ~Refuses("start", s)
  /\ ~Refuses("control", s)
  /\ counters' = [counters EXCEPT !["start"][s] = Increment(@),
                                  !["control"][s] = Increment(@)]
  /\ cancels' = [cancels EXCEPT ![s] = CancelsAfter(s, 0)]

\* The control budget refuses a start the guard has already counted.
ChargeGuardOnly(s) ==
  /\ ~Refuses("start", s)
  /\ Refuses("control", s)
  /\ counters' = [counters EXCEPT !["start"][s] = Increment(@)]
  /\ UNCHANGED cancels

RefuseStart(s) ==
  /\ Refuses("start", s)
  /\ UNCHANGED <<counters, cancels>>

ChargeCancel(s) ==
  /\ ~Refuses("control", s)
  /\ counters' = [counters EXCEPT !["control"][s] = Increment(@)]
  /\ cancels' = [cancels EXCEPT ![s] = CancelsAfter(s, 1)]

\* A family with a budget of its own: playback resolution, alert reads.
ChargeRead(b, s) ==
  /\ ~Refuses(b, s)
  /\ counters' = [counters EXCEPT ![b][s] = Increment(@)]
  /\ UNCHANGED cancels

RefuseCancelOrRead(b, s) ==
  /\ Refuses(b, s)
  /\ UNCHANGED <<counters, cancels>>

Tick ==
  /\ now < MaxTime
  /\ now' = now + 1
  /\ UNCHANGED <<counters, cancels>>

Charge(s) ==
  \/ ChargeStart(s)
  \/ ChargeGuardOnly(s)
  \/ RefuseStart(s)
  \/ ChargeCancel(s)
  \/ \E b \in {"playback", "alerts"} : ChargeRead(b, s)
  \/ \E b \in {"control", "playback", "alerts"} : RefuseCancelOrRead(b, s)

BudgetNext == Tick \/ (UNCHANGED now /\ \E s \in Subjects : Charge(s))

BudgetSpec == BudgetInit /\ [][BudgetNext]_budgetVars

-----------------------------------------------------------------------------
\* Every counter belongs to a window that has begun, and no window of a family
\* admits more than its ceiling (check_and_increment).
BudgetTypeOK ==
  /\ now \in Nat
  /\ counters \in [Budgets -> [Subjects -> [start : Nat, count : Nat]]]
  /\ cancels \in [Subjects -> Nat]
  /\ \A b \in Budgets, s \in Subjects :
       /\ counters[b][s].start <= now
       /\ counters[b][s].count <= Ceiling[b]

\* Cancellation retains capacity during a burst of starts
\* (session_route_policy): a caller's cancel is refused only in a window in
\* which a cancel of that caller was admitted, whatever the starts were.
StartsSpareCancellation ==
  \A s \in Subjects : Refuses("control", s) => cancels[s] > 0

=============================================================================
