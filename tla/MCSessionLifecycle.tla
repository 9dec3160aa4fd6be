-------------------------- MODULE MCSessionLifecycle --------------------------
(***************************************************************************)
(* The instance of SessionLifecycle that TLC checks.  Every constant gets  *)
(* its value in a .cfg file; the clients are model values.                 *)
(***************************************************************************)
EXTENDS SessionLifecycle
===============================================================================
