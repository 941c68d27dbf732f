------------------------ MODULE TestDatabaseInvariant -------------------------
(***************************************************************************)
(* The inductive invariant of TestDatabase: what is true of the control    *)
(* state, the sessions and the catalog at every await, from which the lock *)
(* discipline of the lifecycle follows.                                    *)
(***************************************************************************)
EXTENDS TestDatabase

\* The control state of a context: what it holds at each await.
ControlOf(c) ==
  /\ config[c] = NoName => lease[c] = NoSession
  /\ pc[c] \notin {"idle", "crashed", "closeSources", "closeLease"} => config[c] \in Name
  /\ Owns(c) => owned[c].name = config[c]
  /\ owned[c].name = NoName => owned[c].oid = NoOid
  /\ pc[c] \in {"oid", "inspect", "drop", "verify"} => Owns(c)
  /\ pc[c] = "closeLease" => ~Owns(c)
  /\ pc[c] = "acquire" => lease[c] = NoSession
  /\ pc[c] \in QueryPc \cup {"reacquire"} => lease[c] # NoSession
  /\ lease[c] # NoSession => lease[c][1] = c /\ sess[lease[c]] \in {"open", "broken", "stuck"}
  /\ leaseLocked[c] => lease[c] # NoSession
  /\ pc[c] \in {"create", "oid", "init", "schema", "inspect", "drop", "verify"} => leaseLocked[c]
  /\ pc[c] \in {"closeSources", "reacquire", "inspect", "drop", "verify", "closeLease"}
       => cleanupRequired[c]
  /\ testDataSource[c] /\ ~cleanupRequired[c] => leaseLocked[c]
  /\ testDataSource[c] \/ initializing[c] # {} => config[c] \in Name
  /\ pc[c] = "idle" => busy[c] = "none"
  /\ busy[c] = "reset" => initializing[c] = {}

Control == \A c \in Context : ControlOf(c)

KindAt(p) == IF p = "verify" THEN "inspect" ELSE IF p = "clearOid" THEN "oid" ELSE p

\* A session and its backend agree on what was sent, and a session that was
\* granted the lock keeps it for as long as its backend lives.
SessionOf(s) ==
  /\ sess[s] = "unused" => backend[s] = "absent" /\ stmt[s].kind = "none"
  /\ backend[s] = "absent" => stmt[s].kind \in {"none", "connect"} /\ answer[s] # "ok"
  /\ stmt[s].kind # "none" => stmt[s].name \in Name
  /\ stmt[s].kind = "lock" /\ answer[s] = "ok" /\ backend[s] = "open" => lock[stmt[s].name] = s
  /\ stmt[s].kind \in {"create", "drop"} /\ backend[s] = "open" => lock[stmt[s].name] = s

AwaitOf(c) ==
  /\ pc[c] \in QueryPc =>
       /\ stmt[lease[c]].kind = KindAt(pc[c])
       /\ stmt[lease[c]].name = config[c]
  /\ leaseLocked[c] =>
       /\ backend[lease[c]] # "absent"
       /\ backend[lease[c]] = "open" => lock[config[c]] = lease[c]

Sessions == (\A s \in Session : SessionOf(s)) /\ (\A c \in Context : AwaitOf(c))

OwnTarget(n, a) == catalog[n] # NoOid /\ creator[catalog[n]] = a

\* Under the lock, what a context read about its target stays true, and what it
\* drops is what it created.
CatalogOf(s) ==
  /\ stmt[s].kind = "create" /\ answer[s] = "ok" /\ backend[s] = "open"
       => OwnTarget(stmt[s].name, s[1])
  /\ stmt[s].kind = "drop" /\ answer[s] = "pending" /\ backend[s] = "open"
       => OwnTarget(stmt[s].name, s[1])
  /\ stmt[s].kind \in {"oid", "inspect"} /\ answer[s] = "ok" /\ backend[s] = "open"
       /\ lock[stmt[s].name] = s
       => \A r \in rows[s] : catalog[r[1]] = r[2] \/ r[1] # stmt[s].name

KnowledgeOf(c) ==
  /\ pc[c] = "oid" /\ answer[lease[c]] = "pending" /\ backend[lease[c]] = "open"
       => OwnTarget(config[c], c)
  /\ pc[c] = "oid" /\ answer[lease[c]] = "ok"
       => \A r \in rows[lease[c]] : r[1] = config[c] => creator[r[2]] = c
  /\ owned[c].oid # NoOid => creator[owned[c].oid] = c

Catalog == (\A s \in Session : CatalogOf(s)) /\ (\A c \in Context : KnowledgeOf(c))

\* Inductive: each part is preserved by every step, given the parts before it
\* (acquireLease, setup, assertOwnership and cleanup keep them true together).
IInv == TypeOK /\ Control /\ Sessions /\ Catalog
=============================================================================
