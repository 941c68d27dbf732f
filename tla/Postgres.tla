------------------------------ MODULE Postgres ------------------------------
(***************************************************************************)
(* The PostgreSQL server as src/src/database uses it.  The server is not   *)
(* part of the repository: every definition here is external and is        *)
(* modelled from the statements the library sends.                         *)
(*                                                                         *)
(* A target database is identified by its name and by its catalog OID; a   *)
(* name that was dropped and created again carries a new OID.  The target  *)
(* lock is a session-level advisory lock: it belongs to one administration *)
(* session and goes away only with that session's backend.                 *)
(*                                                                         *)
(* A statement is sent, executed, and its answer read in three steps, so a *)
(* client may give up on a statement that the server still executes, and   *)
(* may lose the answer of one that was executed.                           *)
(***************************************************************************)

CONSTANTS
  Actor,      \* processes that open administration sessions
  SessionId,  \* names for the sessions of one actor that exist at a time
  Source,     \* target connections (TypeORM DataSources) of each process
  Name,       \* target database names
  Oid,        \* catalog OIDs
  NoName, NoOid, NoSession,
  Nobody,     \* creator of an OID that was never issued
  Outsider    \* creator of a database no library process created

ASSUME ActorAssumption == {Nobody, Outsider} \cap Actor = {} /\ Nobody # Outsider
ASSUME AbsentAssumption ==
  /\ NoName \notin Name
  /\ NoOid \notin Oid
  /\ NoSession \notin Actor \X SessionId

Session == Actor \X SessionId
OwnerOf(s) == s[1]
Client == Actor \X Source

VARIABLES
  catalog,    \* Name -> the OID that carries the name, or NoOid
  creator,    \* Oid -> who created it (history; Nobody: not issued yet)
  lock,       \* Name -> the session holding the target's advisory lock
  backend,    \* Session -> state of the session on the server
  stmt,       \* Session -> the last statement sent on it
  answer,     \* Session -> what became of that statement
  rows,       \* Session -> catalog rows the answer carries
  conn        \* Client -> OID the target connection is attached to, or NoOid

serverVars == <<catalog, creator, lock, backend>>
stmtVars == <<stmt, answer, rows>>
pgVars == <<serverVars, stmtVars, conn>>

StmtKind == {"none", "connect", "identity", "lock", "create", "oid", "inspect", "drop"}
NoStmt == [kind |-> "none", name |-> NoName, oid |-> NoOid]
Statement == [kind : StmtKind, name : Name \cup {NoName}, oid : Oid \cup {NoOid}]
Row == Name \X Oid

PgTypeOK ==
  /\ catalog \in [Name -> Oid \cup {NoOid}]
  /\ creator \in [Oid -> Actor \cup {Nobody, Outsider}]
  /\ lock \in [Name -> Session \cup {NoSession}]
  /\ backend \in [Session -> {"absent", "open", "closed"}]
  /\ stmt \in [Session -> Statement]
  /\ answer \in [Session -> {"none", "pending", "ok", "refused", "error"}]
  /\ rows \in [Session -> SUBSET Row]
  /\ conn \in [Client -> Oid \cup {NoOid}]

PgInit ==
  /\ catalog \in [Name -> {NoOid}]
  /\ creator = [o \in Oid |-> Nobody]
  /\ lock = [n \in Name |-> NoSession]
  /\ backend = [s \in Session |-> "absent"]
  /\ stmt = [s \in Session |-> NoStmt]
  /\ answer = [s \in Session |-> "none"]
  /\ rows = [s \in Session |-> {}]
  /\ conn = [k \in Client |-> NoOid]

-----------------------------------------------------------------------------
(* Client side of a statement. *)

Send(s, kind, n, o) ==
  /\ stmt' = [stmt EXCEPT ![s] = [kind |-> kind, name |-> n, oid |-> o]]
  /\ answer' = [answer EXCEPT ![s] = "pending"]
  /\ rows' = [rows EXCEPT ![s] = {}]

-----------------------------------------------------------------------------
(* Server side. *)

\* pg_database rows that carry the name or the OID
RowsOf(n, o) == {r \in Row : catalog[r[1]] = r[2] /\ (r[1] = n \/ r[2] = o)}

Running(s, kind) ==
  backend[s] = "open" /\ answer[s] = "pending" /\ stmt[s].kind = kind

Answer(s, a) == answer' = [answer EXCEPT ![s] = a]

ExecConnect(s) ==
  /\ backend[s] = "absent" /\ answer[s] = "pending" /\ stmt[s].kind = "connect"
  /\ backend' = [backend EXCEPT ![s] = "open"]
  /\ Answer(s, "ok")
  /\ UNCHANGED <<catalog, creator, lock, stmt, rows, conn>>

\* current_database / session_user / current_user of the base session
ExecIdentity(s) ==
  /\ Running(s, "identity")
  /\ Answer(s, "ok")
  /\ UNCHANGED <<catalog, creator, lock, backend, stmt, rows, conn>>

\* pg_try_advisory_lock: never waits, re-entrant within a session
ExecLock(s) ==
  /\ Running(s, "lock")
  /\ IF lock[stmt[s].name] \in {NoSession, s}
     THEN lock' = [lock EXCEPT ![stmt[s].name] = s] /\ Answer(s, "ok")
     ELSE Answer(s, "refused") /\ UNCHANGED lock
  /\ UNCHANGED <<catalog, creator, backend, stmt, rows, conn>>

\* CREATE DATABASE fails when the name is taken, or when there is no room
ExecCreate(s) ==
  /\ Running(s, "create")
  /\ \/ /\ catalog[stmt[s].name] # NoOid \/ \A o \in Oid : creator[o] # Nobody
        /\ Answer(s, "error")
        /\ UNCHANGED <<catalog, creator>>
     \/ /\ catalog[stmt[s].name] = NoOid
        /\ \E o \in Oid :
             /\ creator[o] = Nobody
             /\ catalog' = [catalog EXCEPT ![stmt[s].name] = o]
             /\ creator' = [creator EXCEPT ![o] = OwnerOf(s)]
        /\ Answer(s, "ok")
  /\ UNCHANGED <<lock, backend, stmt, rows, conn>>

\* SELECT ... FROM pg_database, by name or by name and OID
ExecSelect(s) ==
  /\ Running(s, "oid") \/ Running(s, "inspect")
  /\ rows' = [rows EXCEPT ![s] = RowsOf(stmt[s].name, stmt[s].oid)]
  /\ Answer(s, "ok")
  /\ UNCHANGED <<catalog, creator, lock, backend, stmt, conn>>

\* Ordinary DROP DATABASE is by name and fails while anyone is connected
ExecDrop(s) ==
  /\ Running(s, "drop")
  /\ LET n == stmt[s].name IN
     IF catalog[n] = NoOid \/ \E k \in Client : conn[k] = catalog[n]
     THEN Answer(s, "error") /\ UNCHANGED catalog
     ELSE Answer(s, "ok") /\ catalog' = [catalog EXCEPT ![n] = NoOid]
  /\ UNCHANGED <<creator, lock, backend, stmt, rows, conn>>

Execute(s) ==
  \/ ExecConnect(s) \/ ExecIdentity(s) \/ ExecLock(s)
  \/ ExecCreate(s) \/ ExecSelect(s) \/ ExecDrop(s)

\* The backend ends: a statement it has not executed is never executed, and
\* the session's advisory locks are released.
EndBackend(s) ==
  /\ backend' = [backend EXCEPT ![s] = "closed"]
  /\ lock' = [n \in Name |-> IF lock[n] = s THEN NoSession ELSE lock[n]]
  /\ UNCHANGED <<catalog, creator, stmt, answer, rows, conn>>

\* A session that is over on both sides gives its name to a later one.
RecycleBackend(s) ==
  /\ backend[s] = "closed"
  /\ backend' = [backend EXCEPT ![s] = "absent"]
  /\ stmt' = [stmt EXCEPT ![s] = NoStmt]
  /\ answer' = [answer EXCEPT ![s] = "none"]
  /\ rows' = [rows EXCEPT ![s] = {}]
  /\ UNCHANGED <<catalog, creator, lock, conn>>

\* Somebody with exclusive control of a target that no participant has locked
\* drops, creates, replaces or renames it.
OutsideDDL ==
  /\ \E n \in Name :
       /\ lock[n] = NoSession
       /\ \A k \in Client : conn[k] = NoOid \/ conn[k] # catalog[n]
       /\ \/ catalog[n] # NoOid /\ catalog' = [catalog EXCEPT ![n] = NoOid] /\ UNCHANGED creator
          \/ \E o \in Oid :
               /\ creator[o] = Nobody
               /\ catalog' = [catalog EXCEPT ![n] = o]
               /\ creator' = [creator EXCEPT ![o] = Outsider]
          \/ \E m \in Name \ {n} :
               /\ catalog[n] # NoOid /\ catalog[m] = NoOid /\ lock[m] = NoSession
               /\ catalog' = [catalog EXCEPT ![n] = NoOid, ![m] = catalog[n]]
               /\ UNCHANGED creator
  /\ UNCHANGED <<lock, backend, stmt, answer, rows, conn>>

\* A target connection attaches to whatever carries the name at that moment.
Attach(k, n) ==
  /\ catalog[n] # NoOid
  /\ conn' = [conn EXCEPT ![k] = catalog[n]]

Detach(K) == conn' = [k \in Client |-> IF k \in K THEN NoOid ELSE conn[k]]
=============================================================================
