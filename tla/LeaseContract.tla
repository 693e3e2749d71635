--------------------------- MODULE LeaseContract ---------------------------
(***************************************************************************)
(* What one lease promises the control plane, whatever the tasks behind it *)
(* do: the job is worked on, then its result is written to the outbox      *)
(* before it is first sent, it is marked delivered only after the control  *)
(* plane has stored it, and the lease's worker always comes to an end.     *)
(***************************************************************************)

VARIABLES
  phase,     \* "working", "reporting" or "closed"
  row,       \* the result's row in the outbox: "none", "pending", "delivered"
  accepted   \* has the control plane stored the result?

vars == <<phase, row, accepted>>

Init == phase = "working" /\ row = "none" /\ accepted = FALSE

Record ==
  /\ phase = "working"
  /\ phase' = "reporting" /\ row' = "pending"
  /\ UNCHANGED accepted

\* The control plane stores the result, whether or not the runner hears of it.
Accept ==
  /\ phase = "reporting"
  /\ accepted' = TRUE
  /\ phase' \in {phase, "closed"}
  /\ UNCHANGED row

Acknowledge ==
  /\ phase = "reporting" /\ accepted
  /\ phase' = "closed" /\ row' = "delivered"
  /\ UNCHANGED accepted

\* The worker ends with the row still pending (or with no row at all).
GiveUp ==
  /\ phase # "closed"
  /\ phase' = "closed"
  /\ UNCHANGED <<row, accepted>>

Next == Record \/ Accept \/ Acknowledge \/ GiveUp

Spec == Init /\ [][Next]_vars /\ <>(phase = "closed")
============================================================================
