-------------------------- MODULE MCMonitoringClient --------------------------
(***************************************************************************)
(* The instance of MonitoringClient that TLC checks.  Every constant gets  *)
(* its value in a .cfg file or here.                                       *)
(***************************************************************************)
EXTENDS MonitoringClient

\* Two polls out at once when they are answered in order, else one.
PollsOut == [inOrder \in BOOLEAN |-> IF inOrder THEN 2 ELSE 1]
===============================================================================
