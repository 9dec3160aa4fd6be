------------------------------ MODULE LiveSource ------------------------------
(***************************************************************************)
(* What a live source promises to the session that iterates over it: every *)
(* slice it delivers comes later in the stream than the one before it in   *)
(* the same iteration, no slice is ever delivered twice, not even to a     *)
(* second iteration of the same session, and an iteration that is over     *)
(* delivers nothing more.                                                  *)
(*                                                                         *)
(* A slice is a record with a seq and a name; its identity is both.        *)
(***************************************************************************)
EXTENDS Naturals

VARIABLES
  delivered,   \* the slices of all iterations
  last,        \* the seq of the latest one of this iteration, 0 before it
  open         \* whether an iteration is running

vars == <<delivered, last, open>>

Init ==
  /\ delivered = {}
  /\ last = 0
  /\ open = FALSE

Begin ==
  /\ ~open
  /\ open' = TRUE
  /\ last' = 0
  /\ UNCHANGED delivered

Deliver(slice) ==
  /\ open
  /\ slice \notin delivered
  /\ slice.seq > last
  /\ delivered' = delivered \cup {slice}
  /\ last' = slice.seq
  /\ UNCHANGED open

Finish ==
  /\ open
  /\ open' = FALSE
  /\ UNCHANGED <<delivered, last>>

Next ==
  \/ Begin
  \/ \E slice \in delivered' : Deliver(slice)
  \/ Finish

Spec == Init /\ [][Next]_vars

===============================================================================
