--------------------------- MODULE ExclusiveTarget --------------------------
(***************************************************************************)
(* What the library promises about target databases, without saying how:   *)
(* a target has at most one holder, a session; only the holder creates it  *)
(* or drops it, and it drops only what its own process created.  Outsiders *)
(* change a target only while it has no holder.                            *)
(***************************************************************************)
CONSTANTS Actor, SessionId, Name, Oid, NoOid, NoSession, Nobody, Outsider

VARIABLES catalog, creator, lock
vars == <<catalog, creator, lock>>

Session == Actor \X SessionId

Init ==
  /\ catalog = [n \in Name |-> NoOid]
  /\ creator = [o \in Oid |-> Nobody]
  /\ lock = [n \in Name |-> NoSession]

Acquire(s, n) ==
  /\ lock[n] = NoSession
  /\ lock' = [lock EXCEPT ![n] = s]
  /\ UNCHANGED <<catalog, creator>>

Release(s) ==
  /\ lock' = [n \in Name |-> IF lock[n] = s THEN NoSession ELSE lock[n]]
  /\ UNCHANGED <<catalog, creator>>

Create(s, n) ==
  /\ lock[n] = s /\ catalog[n] = NoOid
  /\ \E o \in Oid :
       /\ creator[o] = Nobody
       /\ creator' = [creator EXCEPT ![o] = s[1]]
       /\ catalog' = [catalog EXCEPT ![n] = o]
  /\ UNCHANGED lock

Drop(s, n) ==
  /\ lock[n] = s /\ catalog[n] # NoOid /\ creator[catalog[n]] = s[1]
  /\ catalog' = [catalog EXCEPT ![n] = NoOid]
  /\ UNCHANGED <<creator, lock>>

\* Only names without a holder change, and no library process is blamed.
Outside ==
  /\ \A n \in Name : lock[n] # NoSession => catalog'[n] = catalog[n]
  /\ \A o \in Oid : creator'[o] = creator[o] \/ (creator[o] = Nobody /\ creator'[o] = Outsider)
  /\ UNCHANGED lock

Next ==
  \/ \E s \in Session, n \in Name : Acquire(s, n) \/ Create(s, n) \/ Drop(s, n)
  \/ \E s \in Session : Release(s)
  \/ Outside

Spec == Init /\ [][Next]_vars
=============================================================================
