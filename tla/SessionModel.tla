----------------------------- MODULE SessionModel -----------------------------
(***************************************************************************)
(* The vocabulary every session module shares: the lifecycle statuses, the *)
(* table of allowed transitions and the validation of a progress payload,  *)
(* translated from src/src/session_models.py.                              *)
(*                                                                         *)
(* A progress payload keeps the four fields the validation and the readers *)
(* depend on.  Timestamps, the current item, detector names and the reason *)
(* and detail texts are left out: they never decide a branch.              *)
(***************************************************************************)
EXTENDS Naturals

Statuses ==
  {"pending", "running", "cancelling", "cancelled", "completed", "failed"}

\* No session.json has been written yet, or the one there is malformed.
Absent == "none"

TerminalStatuses == {"cancelled", "completed", "failed"}

AllowedTransitions ==
  [pending    |-> {"pending", "running", "cancelled", "failed"},
   running    |-> {"running", "cancelled", "completed", "failed"},
   cancelling |-> {"cancelling", "cancelled", "failed"},
   cancelled  |-> {"cancelled"},
   completed  |-> {"completed"},
   failed     |-> {"failed"}]

CanTransition(current, target) == target \in AllowedTransitions[current]

-------------------------------------------------------------------------------

Progress ==
  [status    : Statuses \cup {Absent},
   processed : Nat,
   total     : Nat,
   alerts    : Nat]

\* The same of progress.json.
NoProgress ==
  [status |-> Absent, processed |-> 0, total |-> 0, alerts |-> 0]

InitialProgress(n) ==
  [status |-> "pending", processed |-> 0, total |-> n, alerts |-> 0]

\* SessionProgress.validate: what a store refuses to persist.
ValidProgress(p) ==
  /\ p.processed <= p.total
  /\ p.status = "pending" => p.processed = 0
  /\ p.status = "completed" => p.processed = p.total

===============================================================================
