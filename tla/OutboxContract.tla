--------------------------- MODULE OutboxContract ---------------------------
(***************************************************************************)
(* What the completion outbox promises, crashes and restarts included: a   *)
(* result is written before the control plane can have it, what is written *)
(* is never replaced, and it is marked delivered only when the control     *)
(* plane holds a result for the same job and attempt.                      *)
(***************************************************************************)
CONSTANTS Keys,      \* (job_id, attempt) pairs
          Payloads   \* results, told apart by the lease that produced them

VARIABLES recorded,  \* recorded[k]: the payload in the outbox, as a set of <= 1
          delivered, \* the keys whose row has delivered_at set
          accepted   \* accepted[k]: the payload the control plane holds

vars == <<recorded, delivered, accepted>>

Init ==
  /\ recorded = [k \in Keys |-> {}]
  /\ delivered = {}
  /\ accepted = [k \in Keys |-> {}]

Record(k, p) ==
  /\ recorded[k] = {}
  /\ recorded' = [recorded EXCEPT ![k] = {p}]
  /\ UNCHANGED <<delivered, accepted>>

Accept(k, p) ==
  /\ recorded[k] # {} /\ accepted[k] = {}
  /\ accepted' = [accepted EXCEPT ![k] = {p}]
  /\ UNCHANGED <<recorded, delivered>>

Deliver(k) ==
  /\ accepted[k] # {}
  /\ delivered' = delivered \cup {k}
  /\ UNCHANGED <<recorded, accepted>>

Next == \E k \in Keys : \/ \E p \in Payloads : Record(k, p) \/ Accept(k, p)
                        \/ Deliver(k)

Spec == Init /\ [][Next]_vars
============================================================================
