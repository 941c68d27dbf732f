----------------------------- MODULE MCRecovery -----------------------------
(* Recovery on small instances. *)
EXTENDS RecoveryInvariant

\* At first no other name is in use, and whoever is connected is connected to the target.
SharedInit ==
  /\ Init /\ \A n \in Name \ {Target} : catalog[n] = NoOid
  /\ \A k \in Client : conn[k] \in {NoOid, Acquired}
SharedSpec == SharedInit /\ [][Next]_vars
\* Others act where nothing fails and no pipe is full, and more than once only where no connection
\* keeps the recovery out, which is also where it may fail.
OthersApart ==
  /\ outside' > 0 => faults' = 0 /\ (connected' \/ outside' > outside => pendingSends' = 0)
  /\ faults' > 0 => \A k \in Client : conn'[k] = NoOid
  /\ outside' > 1 => \A k \in Client : conn'[k] = NoOid

\* The database is there and nobody is connected to it.
RetainedInit == Init /\ catalog[Target] = Acquired /\ \A k \in Client : conn[k] = NoOid
RetainedSpec == RetainedInit /\ [][Next]_vars /\ Fairness
=============================================================================
