-------------------------- MODULE RecoveryOutcome ---------------------------
(***************************************************************************)
(* What a caller of recoverTestDatabase may conclude from the outcome of a *)
(* call, whether it resolved or rejected: without a permission nothing was *)
(* dropped and nothing will be; with one, the DROP may have happened, or   *)
(* may still happen after the call, unless absence was verified.           *)
(***************************************************************************)
VARIABLES permitted, dropped, verdict
vars == <<permitted, dropped, verdict>>

Init == permitted = FALSE /\ dropped = FALSE /\ verdict = "open"

\* The permission is given once, during the call.
Permit ==
  /\ verdict = "open" /\ ~permitted
  /\ permitted' = TRUE
  /\ UNCHANGED <<dropped, verdict>>

\* At most one DROP, at any time after the permission.
Drop ==
  /\ permitted /\ ~dropped
  /\ dropped' = TRUE
  /\ UNCHANGED <<permitted, verdict>>

Justified(o) ==
  CASE o = "not-attempted" -> ~permitted
    [] o = "already-absent" -> ~permitted
    [] o = "unknown" -> permitted
    [] o = "removed" -> dropped

Conclude ==
  /\ verdict = "open"
  /\ verdict' \in {"not-attempted", "already-absent", "unknown", "removed"}
  /\ Justified(verdict')
  /\ UNCHANGED <<permitted, dropped>>

Next == Permit \/ Drop \/ Conclude
Spec == Init /\ [][Next]_vars
=============================================================================
