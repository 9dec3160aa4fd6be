---------------------------- MODULE SessionContract ----------------------------
(***************************************************************************)
(* What one monitoring session promises to whoever reads its durable       *)
(* state, whatever the input mode and the store: a status that only moves  *)
(* along the transition table, result and alert rows that are only added   *)
(* while the session runs, and a cancel intent that is never withdrawn.    *)
(*                                                                         *)
(* Demote is the one step outside the table.  The runner settles a session *)
(* by writing its metadata before its progress; when the second write      *)
(* fails inside the processing loop, the error path settles the session    *)
(* again, as failed.                                                       *)
(***************************************************************************)
EXTENDS SessionModel

VARIABLES status, cancelRequested, results, alerts

vars == <<status, cancelRequested, results, alerts>>

Init ==
  /\ status = Absent
  /\ cancelRequested = FALSE
  /\ results = 0
  /\ alerts = 0

Open ==
  /\ status = Absent
  /\ status' = "pending"
  /\ UNCHANGED <<cancelRequested, results, alerts>>

Move(target) ==
  /\ status \in Statuses
  /\ CanTransition(status, target)
  /\ status' = target
  /\ UNCHANGED <<cancelRequested, results, alerts>>

Demote ==
  /\ status \in {"completed", "cancelled"}
  /\ status' = "failed"
  /\ UNCHANGED <<cancelRequested, results, alerts>>

Publish ==
  /\ status = "running"
  /\ \/ results' = results + 1 /\ UNCHANGED alerts
     \/ alerts' = alerts + 1 /\ UNCHANGED results
  /\ UNCHANGED <<status, cancelRequested>>

RequestCancel ==
  /\ status # Absent
  /\ cancelRequested' = TRUE
  /\ UNCHANGED <<status, results, alerts>>

Next ==
  \/ Open
  \/ \E target \in {"running"} \cup TerminalStatuses : Move(target)
  \/ Demote
  \/ Publish
  \/ RequestCancel

Spec == Init /\ [][Next]_vars

===============================================================================
