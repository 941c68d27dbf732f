--------------------------- MODULE TestDatabaseUse ---------------------------
(***************************************************************************)
(* What holds while a target is in use and while it is given up: which     *)
(* connections cleanup will find, what a context may still believe of the  *)
(* database it owns, and what an empty inspection proves.  Together with   *)
(* the invariant of TestDatabaseInvariant this is inductive again.         *)
(***************************************************************************)
EXTENDS TestDatabaseInvariant

SetupPc == {"acquire", "connect", "identity", "lock", "create"}
ClearPc == {"clearOid", "clearName", "truncate"}
ReleasePc == {"acquire", "connect", "identity", "lock", "reacquire", "inspect", "drop", "verify",
              "closeLease"}

\* The target is offered, or still needed by the running operation.
InUse(c) == pc[c] \in {"init", "schema"} \cup ClearPc \/ (testDataSource[c] /\ ~cleanupRequired[c])

\* Every connection and every session a context ever opened is in the static
\* state that cleanup works from, and cleanup gives up the database only after
\* it closed every source (trackSource, closeSources, acquireLease).
TrackingOf(c) ==
  /\ \A src \in Source : conn[<<c, src>>] # NoOid => src \in sources[c]
  /\ initializing[c] \subseteq sources[c]
  /\ initializing[c] # {} => pc[c] \in {"idle", "crashed"}
  /\ sources[c] # {} => config[c] \in Name
  /\ InUse(c) => Main \in sources[c]
  /\ cleanupRequired[c] /\ pc[c] \in ReleasePc => sources[c] = {}
  /\ pc[c] \in {"create", "oid", "init", "schema"} \cup ClearPc => ~cleanupRequired[c]
  /\ \A k \in SessionId : <<c, k>> # lease[c] => sess[<<c, k>>] \in {"unused", "disposed"}

Tracking == \A c \in Context : TrackingOf(c)

\* What a context owns at each await; and until cleanup the lease's session has
\* no DDL on its way, so that under its lock the name keeps standing for the
\* database whose OID was read (setup, assertOwnership).
CustodyOf(c) ==
  /\ ~Owns(c) => owned[c] = NotOwned
  /\ pc[c] \in SetupPc /\ ~cleanupRequired[c] => ~Owns(c)
  /\ pc[c] = "oid" => owned[c].oid = NoOid
  /\ InUse(c) \/ pc[c] \in {"inspect", "drop", "verify"} => owned[c].oid # NoOid
  /\ pc[c] \in {"inspect", "verify"} => stmt[lease[c]].oid = owned[c].oid
  /\ owned[c].oid # NoOid /\ ~cleanupRequired[c] =>
       /\ leaseLocked[c]
       /\ stmt[lease[c]].kind = "oid"
       /\ backend[lease[c]] = "open" => catalog[config[c]] = owned[c].oid

Custody == \A c \in Context : CustodyOf(c)

\* An inspection asks for an OID that was issued once, and OIDs are not issued
\* twice: when no row carried it, no row ever will (cleanup's verification).
AbsenceOf(s) ==
  stmt[s].kind = "inspect" =>
    /\ stmt[s].oid \in Oid
    /\ creator[stmt[s].oid] # Nobody
    /\ answer[s] = "ok" /\ rows[s] = {} => \A n \in Name : catalog[n] # stmt[s].oid

Absence == \A s \in Session : AbsenceOf(s)

\* A target connection is attached by name and pins the database it found: as
\* long as it lasts, the name stands for that database.  So the rows that
\* assertOwnership asked for speak of the connection that clears the tables.
AttachmentOf(c) ==
  /\ \A src \in Source : conn[<<c, src>>] # NoOid => catalog[config[c]] = conn[<<c, src>>]
  /\ pc[c] = "clearOid" /\ answer[lease[c]] = "ok" /\ conn[<<c, Main>>] # NoOid =>
       \A r \in rows[lease[c]] : r[1] = config[c] => r[2] = conn[<<c, Main>>]

Attachment == \A c \in Context : AttachmentOf(c)

\* Inductive together with IInv (trackSource, assertOwnership, cleanup, teardown).
Use == Tracking /\ Custody /\ Absence /\ Attachment
=============================================================================
