---------------------------- MODULE TestDatabase ----------------------------
(***************************************************************************)
(* The lifecycle of an isolated test database: SharedDatabaseModule        *)
(* (src/database/shared-database.module.ts) in several processes, over the *)
(* administration sessions it leases (helpers/test-database-session.ts)    *)
(* and the PostgreSQL server of module Postgres.                           *)
(*                                                                         *)
(* A context is one process that uses the module's static state.  Each     *)
(* action is what one context does between two awaits: it reads the answer *)
(* it was waiting for, updates the static state, and dispatches the next   *)
(* statement.  pc[c] names the await the context is in.                    *)
(***************************************************************************)
EXTENDS Postgres, Naturals

CONSTANTS
  Context,      \* the actors that run this module
  Main,         \* the factory's DataSource; the others belong to Nest apps
  MaxFaults,    \* lost answers, lost sessions, failed closes, crashes
  MaxOutside    \* catalog changes by outsiders

ASSUME ContextAssumption == Context \subseteq Actor /\ Main \in Source
ASSUME BudgetAssumption == MaxFaults \in Nat /\ MaxOutside \in Nat

VARIABLES
  pc, busy, config, cleanupRequired, testDataSource, sources, initializing,
  lease, leaseLocked, owned,
  sess,         \* Session -> the client's view of it (TestDatabaseSession)
  faults, outside

stateVars == <<busy, config, cleanupRequired, testDataSource, sources, initializing>>
leaseVars == <<lease, leaseLocked, sess>>
envVars == <<faults, outside>>
vars == <<pgVars, pc, stateVars, leaseVars, owned, envVars>>

NotOwned == [name |-> NoName, oid |-> NoOid, dropAttempted |-> FALSE]
Ownership == [name : Name \cup {NoName}, oid : Oid \cup {NoOid}, dropAttempted : BOOLEAN]

QueryPc == {"connect", "identity", "lock", "create", "oid", "inspect", "drop", "verify", "clearOid"}
AwaitPc == QueryPc \cup {"acquire", "init", "schema", "closeSources", "reacquire", "closeLease",
                         "clearName", "truncate"}

TypeOK ==
  /\ PgTypeOK
  /\ pc \in [Context -> AwaitPc \cup {"idle", "crashed"}]
  /\ busy \in [Context -> {"none", "setup", "clear", "close", "reset"}]
  /\ config \in [Context -> Name \cup {NoName}]
  /\ cleanupRequired \in [Context -> BOOLEAN]
  /\ testDataSource \in [Context -> BOOLEAN]
  /\ sources \in [Context -> SUBSET Source]
  /\ initializing \in [Context -> SUBSET (Source \ {Main})]
  /\ lease \in [Context -> Session \cup {NoSession}]
  /\ leaseLocked \in [Context -> BOOLEAN]
  /\ owned \in [Context -> Ownership]
  /\ sess \in [Session -> {"unused", "open", "broken", "disposed", "stuck"}]
  /\ faults \in Nat /\ outside \in Nat

Init ==
  /\ PgInit
  /\ pc = [c \in Context |-> "idle"]
  /\ busy = [c \in Context |-> "none"]
  /\ config = [c \in Context |-> NoName]
  /\ cleanupRequired = [c \in Context |-> FALSE]
  /\ testDataSource = [c \in Context |-> FALSE]
  /\ sources = [c \in Context |-> {}]
  /\ initializing = [c \in Context |-> {}]
  /\ lease = [c \in Context |-> NoSession]
  /\ leaseLocked = [c \in Context |-> FALSE]
  /\ owned = [c \in Context |-> NotOwned]
  /\ sess = [s \in Session |-> "unused"]
  /\ faults = 0 /\ outside = 0

-----------------------------------------------------------------------------
(* Vocabulary *)

Healthy(c) == lease[c] # NoSession /\ sess[lease[c]] = "open"
LeaseUsable(c) == lease[c] = NoSession \/ Healthy(c)
Initialized(c, src) == conn[<<c, src>>] # NoOid
Owns(c) == owned[c].name # NoName

Goto(c, p) == pc' = [pc EXCEPT ![c] = p]
Fault == faults < MaxFaults /\ faults' = faults + 1
NoFault == UNCHANGED faults

\* The answer the context awaits has arrived on a healthy lease.
Answered(c, p, a) == pc[c] = p /\ Healthy(c) /\ answer[lease[c]] = a
Rows(c) == rows[lease[c]]

\* Dispatch the next statement on the lease and await its answer at p.  Only
\* the inspection passes the owned OID along with the name.
\* Mutant: the inspection looks the name up, and not the OID.
QueryByName(c, p, kind) == Send(lease[c], kind, config[c], NoOid) /\ Goto(c, p)
Query(c, p, kind) ==
  /\ Send(lease[c], kind, config[c], IF kind = "inspect" THEN owned[c].oid ELSE NoOid)
  /\ Goto(c, p)

\* The running operation settles.
EndOperation(c) == busy' = [busy EXCEPT ![c] = "none"] /\ Goto(c, "idle")

\* An exception reaches the top of the running operation.  setup's catch runs
\* cleanup once; every other operation rejects.
Throw(c) ==
  IF busy[c] = "setup" /\ ~cleanupRequired[c]
  THEN /\ cleanupRequired' = [cleanupRequired EXCEPT ![c] = TRUE]
       /\ Goto(c, "closeSources")
       /\ UNCHANGED busy
  ELSE EndOperation(c) /\ UNCHANGED cleanupRequired

\* Throw, changing only the control state.
ThrowOnly(c) ==
  /\ Throw(c)
  /\ UNCHANGED <<pgVars, config, testDataSource, sources, initializing, leaseVars, owned>>

\* A statement was dispatched and nothing else but the control point changed.
QueryOnly(c, p, kind) ==
  /\ Query(c, p, kind)
  /\ UNCHANGED <<serverVars, conn, stateVars, leaseVars, owned>>

-----------------------------------------------------------------------------
(* forTest and setupTestDatabase *)

ForTest(c, n) ==
  /\ pc[c] = "idle" /\ ~cleanupRequired[c] /\ LeaseUsable(c)
  /\ config[c] = NoName
  /\ config' = [config EXCEPT ![c] = n]
  /\ UNCHANGED <<pgVars, pc, busy, cleanupRequired, testDataSource, sources, initializing,
                 leaseVars, owned, envVars>>

Setup(c) ==
  /\ pc[c] = "idle" /\ config[c] # NoName
  /\ ~cleanupRequired[c] /\ lease[c] = NoSession
  /\ ~Owns(c) /\ sources[c] = {}
  /\ busy' = [busy EXCEPT ![c] = "setup"]
  /\ Goto(c, "acquire")
  /\ UNCHANGED <<pgVars, config, cleanupRequired, testDataSource, sources, initializing,
                 leaseVars, owned, envVars>>

-----------------------------------------------------------------------------
(* acquireLease *)

OpenSession(c) ==
  /\ pc[c] = "acquire"
  /\ \E k \in SessionId :
       LET s == <<c, k>> IN
       /\ sess[s] = "unused"
       /\ sess' = [sess EXCEPT ![s] = "open"]
       /\ lease' = [lease EXCEPT ![c] = s]
       /\ Send(s, "connect", config[c], NoOid)
  /\ Goto(c, "connect")
  /\ UNCHANGED <<serverVars, conn, stateVars, leaseLocked, owned, envVars>>

\* TestDatabaseSession.create rejects; also what happens past the bound.
CreateSessionFails(c) ==
  /\ pc[c] = "acquire"
  /\ IF \A k \in SessionId : sess[<<c, k>>] # "unused" THEN NoFault ELSE Fault
  /\ ThrowOnly(c)
  /\ UNCHANGED outside

Connected(c) ==
  /\ Answered(c, "connect", "ok")
  /\ QueryOnly(c, "identity", "identity")
  /\ UNCHANGED envVars

IdentityRead(c) ==
  /\ Answered(c, "identity", "ok")
  /\ \/ QueryOnly(c, "lock", "lock") /\ NoFault
     \/ ThrowOnly(c) /\ Fault           \* IDENTITY_MISMATCH
  /\ UNCHANGED outside

\* With the lock held, cleanup goes on to inspect what it owns.
InspectOwned(c) ==
  IF owned[c].oid = NoOid
  THEN Throw(c) /\ UNCHANGED stmtVars
  ELSE Query(c, "inspect", "inspect") /\ UNCHANGED <<busy, cleanupRequired>>

\* Mutant: any row is taken for a lock, as if locked were not compared to true.
LockAnswered(c) == Answered(c, "lock", "ok") \/ Answered(c, "lock", "refused")
LockWon(c) == Answered(c, "lock", "ok")

LockGranted(c) ==
  /\ LockWon(c)
  /\ leaseLocked' = [leaseLocked EXCEPT ![c] = TRUE]
  /\ IF cleanupRequired[c]
     THEN InspectOwned(c)
     ELSE Query(c, "create", "create") /\ UNCHANGED <<busy, cleanupRequired>>
  /\ UNCHANGED <<serverVars, conn, config, testDataSource, sources, initializing, lease, sess,
                 owned, envVars>>

LockBusy(c) ==
  /\ Answered(c, "lock", "refused")
  /\ ThrowOnly(c)
  /\ UNCHANGED envVars

-----------------------------------------------------------------------------
(* setup *)

Created(c) ==
  /\ Answered(c, "create", "ok")
  /\ owned' = [owned EXCEPT ![c] = [name |-> config[c], oid |-> NoOid, dropAttempted |-> FALSE]]
  /\ Query(c, "oid", "oid")
  /\ UNCHANGED <<serverVars, conn, stateVars, leaseVars, envVars>>

\* Mutant: the row is taken for the OID it carries.
RowsNamed(c, n) == {r \in Rows(c) : r[1] = n}
OidsNamed(c, n) == {r[2] : r \in {q \in Rows(c) : q[1] = n}}

OidRead(c) ==
  /\ Answered(c, "oid", "ok")
  /\ \/ \E o \in OidsNamed(c, config[c]) :
          /\ owned' = [owned EXCEPT ![c].oid = o]
          /\ sources' = [sources EXCEPT ![c] = @ \cup {Main}]
          /\ Goto(c, "init")
          /\ UNCHANGED <<busy, cleanupRequired>>
     \/ /\ OidsNamed(c, config[c]) = {}
        /\ Throw(c)
        /\ UNCHANGED <<owned, sources>>
  /\ UNCHANGED <<pgVars, config, testDataSource, initializing, leaseVars, envVars>>

\* source.initialize attaches by name, whoever owns the name by now
SourceInitialized(c) ==
  /\ pc[c] = "init"
  /\ Attach(<<c, Main>>, config[c])
  /\ Goto(c, "schema")
  /\ UNCHANGED <<serverVars, stmtVars, stateVars, leaseVars, owned, envVars>>

SourceFails(c) ==
  /\ pc[c] \in {"init", "schema"}
  /\ IF pc[c] = "init" /\ catalog[config[c]] = NoOid THEN NoFault ELSE Fault
  /\ ThrowOnly(c)
  /\ UNCHANGED outside

\* migrations or synchronization ran; the lease is checked after them
SchemaReady(c) ==
  /\ pc[c] = "schema"
  /\ IF Healthy(c)
     THEN /\ testDataSource' = [testDataSource EXCEPT ![c] = TRUE]
          /\ busy' = [busy EXCEPT ![c] = "none"]
          /\ Goto(c, "idle")
          /\ UNCHANGED cleanupRequired
     ELSE Throw(c) /\ UNCHANGED testDataSource
  /\ UNCHANGED <<pgVars, config, sources, initializing, leaseVars, owned, envVars>>

-----------------------------------------------------------------------------
(* Nest applications: dataSourceFactory and TestDatabaseShutdown *)

NestStart(c, app) ==
  /\ pc[c] = "idle" /\ ~cleanupRequired[c] /\ Healthy(c)
  /\ testDataSource[c]
  /\ app \notin sources[c] \cup {Main}
  /\ sources' = [sources EXCEPT ![c] = @ \cup {app}]
  /\ initializing' = [initializing EXCEPT ![c] = @ \cup {app}]
  /\ UNCHANGED <<pgVars, pc, busy, config, cleanupRequired, testDataSource, leaseVars, owned, envVars>>

\* Either way, and also when the lease turns out to be lost, it stays tracked.
NestInitialized(c, app) ==
  /\ pc[c] # "crashed" /\ app \in initializing[c]
  /\ initializing' = [initializing EXCEPT ![c] = @ \ {app}]
  /\ \/ Attach(<<c, app>>, config[c]) /\ NoFault
     \/ UNCHANGED conn /\ Fault
  /\ UNCHANGED <<serverVars, stmtVars, pc, busy, config, cleanupRequired, testDataSource, sources, leaseVars, owned, outside>>

AppShutdown(c, app) ==
  /\ pc[c] # "crashed" /\ app # Main /\ Initialized(c, app)
  /\ Detach({<<c, app>>})
  /\ UNCHANGED <<serverVars, stmtVars, pc, stateVars, leaseVars, owned, envVars>>

-----------------------------------------------------------------------------
(* clearTestDatabase *)

\* Mutant: clear trusts its state instead of asking the server for the OID.
ClearUnasserted(c) ==
  /\ pc[c] = "idle" /\ initializing[c] = {} /\ testDataSource[c]
  /\ ~cleanupRequired[c] /\ Healthy(c)
  /\ busy' = [busy EXCEPT ![c] = "clear"]
  /\ Goto(c, "clearName")
  /\ UNCHANGED <<pgVars, config, cleanupRequired, testDataSource, sources, initializing,
                 leaseVars, owned, envVars>>

Clear(c) ==
  /\ pc[c] = "idle" /\ initializing[c] = {} /\ testDataSource[c]
  /\ ~cleanupRequired[c] /\ Healthy(c)     \* getTestDataSource; it is initialized until cleanup
  /\ owned[c].oid # NoOid /\ owned[c].name = config[c]             \* assertOwnership
  /\ busy' = [busy EXCEPT ![c] = "clear"]
  /\ Query(c, "clearOid", "oid")
  /\ UNCHANGED <<serverVars, conn, config, cleanupRequired, testDataSource, sources, initializing,
                 leaseVars, owned, envVars>>

OwnershipAsserted(c) ==
  /\ Answered(c, "clearOid", "ok")
  /\ IF OidsNamed(c, config[c]) = {owned[c].oid}
     THEN Goto(c, "clearName") /\ UNCHANGED <<busy, cleanupRequired>>
     ELSE Throw(c)
  /\ UNCHANGED <<pgVars, config, testDataSource, sources, initializing, leaseVars, owned, envVars>>

\* current_database() on the target connection, then the lease once more
ClearAllowed(c) ==
  /\ pc[c] = "clearName" /\ conn[<<c, Main>>] # NoOid
  /\ IF Healthy(c) THEN Goto(c, "truncate") /\ UNCHANGED <<busy, cleanupRequired>> ELSE Throw(c)
  /\ UNCHANGED <<pgVars, config, testDataSource, sources, initializing, leaseVars, owned, envVars>>

\* TRUNCATE runs on the target connection, which is not the lease
Truncate(c) ==
  /\ pc[c] = "truncate" /\ conn[<<c, Main>>] # NoOid
  /\ EndOperation(c)
  /\ UNCHANGED <<pgVars, config, cleanupRequired, testDataSource, sources, initializing, leaseVars, owned, envVars>>

TargetQueryFails(c) ==
  /\ pc[c] \in {"clearName", "truncate"}
  /\ IF conn[<<c, Main>>] = NoOid /\ catalog[config[c]] = NoOid THEN NoFault ELSE Fault
  /\ ThrowOnly(c)
  /\ UNCHANGED outside

\* The connection of the factory's source breaks, which only its pool notices; for the next query
\* the pool opens another one, by name.
TargetBreaks(c) ==
  /\ testDataSource[c] /\ ~cleanupRequired[c] /\ pc[c] # "crashed"
  /\ conn[<<c, Main>>] # NoOid /\ Fault
  /\ Detach({<<c, Main>>})
  /\ UNCHANGED <<serverVars, stmtVars, pc, stateVars, leaseVars, owned, outside>>

TargetReconnects(c) ==
  /\ pc[c] \in {"clearName", "truncate"} /\ conn[<<c, Main>>] = NoOid
  /\ Attach(<<c, Main>>, config[c])
  /\ UNCHANGED <<serverVars, stmtVars, pc, stateVars, leaseVars, owned, envVars>>

-----------------------------------------------------------------------------
(* closeTestConnection, resetTestDatabase and cleanup *)

Teardown(c, kind) ==
  /\ pc[c] = "idle" /\ initializing[c] = {}
  /\ busy' = [busy EXCEPT ![c] = kind]
  /\ cleanupRequired' = [cleanupRequired EXCEPT ![c] = TRUE]
  /\ Goto(c, "closeSources")
  /\ UNCHANGED <<pgVars, config, testDataSource, sources, initializing, leaseVars, owned, envVars>>

\* Mutant: a source whose close failed is forgotten with the others.
CloseAllForgetting(c, failed) ==
  /\ sources' = [sources EXCEPT ![c] = {}]
  /\ Detach({c} \X (sources[c] \ failed))
\* Every tracked source is attempted; what did not close stays tracked.
CloseAll(c, failed) ==
  /\ sources' = [sources EXCEPT ![c] = failed]
  /\ Detach({c} \X (sources[c] \ failed))

SourcesFail(c) ==
  /\ pc[c] = "closeSources"
  /\ \E failed \in SUBSET sources[c] : failed # {} /\ CloseAll(c, failed)
  /\ Fault
  /\ EndOperation(c)
  /\ UNCHANGED <<serverVars, stmtVars, config, cleanupRequired, testDataSource, initializing,
                 leaseVars, owned, outside>>

SourcesClosed(c) ==
  /\ pc[c] = "closeSources"
  /\ CloseAll(c, {})
  /\ IF Owns(c) /\ Healthy(c) /\ leaseLocked[c]
     THEN InspectOwned(c)
     ELSE /\ Goto(c, IF ~Owns(c) THEN "closeLease"
                     ELSE IF lease[c] = NoSession THEN "acquire" ELSE "reacquire")
          /\ UNCHANGED <<stmtVars, busy, cleanupRequired>>
  /\ UNCHANGED <<serverVars, config, testDataSource, initializing, leaseVars, owned, envVars>>

\* Mutant: the row is accepted for its name, whatever its OID.
ShowsName(c) == \E o \in Oid : Rows(c) = {<<owned[c].name, o>>}
\* The catalog row must be the database this context created, and no other.
ShowsOwned(c) == Rows(c) = {<<owned[c].name, owned[c].oid>>}

\* Mutant: absence is never accepted.
AbsenceRefused(c) == FALSE
\* Absence is accepted only after an attempt to drop.
AlreadyDropped(c) == Rows(c) = {} /\ owned[c].dropAttempted

Inspected(c) ==
  /\ Answered(c, "inspect", "ok")
  /\ \/ /\ ShowsOwned(c)
        /\ owned' = [owned EXCEPT ![c].dropAttempted = TRUE]
        /\ Query(c, "drop", "drop")
        /\ UNCHANGED <<busy, cleanupRequired>>
     \/ /\ AlreadyDropped(c)
        /\ owned' = [owned EXCEPT ![c] = NotOwned]
        /\ Goto(c, "closeLease")
        /\ UNCHANGED <<stmtVars, busy, cleanupRequired>>
     \/ /\ ~ShowsOwned(c) /\ ~AlreadyDropped(c)
        /\ EndOperation(c)
        /\ UNCHANGED <<stmtVars, owned, cleanupRequired>>
  /\ UNCHANGED <<serverVars, conn, config, testDataSource, sources, initializing, leaseVars, envVars>>

Dropped(c) ==
  /\ Answered(c, "drop", "ok")
  /\ QueryOnly(c, "verify", "inspect")
  /\ UNCHANGED envVars

Verified(c) ==
  /\ Answered(c, "verify", "ok")
  /\ IF Rows(c) = {}
     THEN /\ owned' = [owned EXCEPT ![c] = NotOwned]
          /\ Goto(c, "closeLease")
          /\ UNCHANGED busy
     ELSE EndOperation(c) /\ UNCHANGED owned
  /\ UNCHANGED <<pgVars, config, cleanupRequired, testDataSource, sources, initializing,
                 leaseVars, envVars>>

\* cleanup succeeded; only then does reset forget what was captured.
Finish(c) ==
  /\ testDataSource' = [testDataSource EXCEPT ![c] = FALSE]
  /\ cleanupRequired' = [cleanupRequired EXCEPT ![c] = FALSE]
  /\ config' = [config EXCEPT ![c] = IF busy[c] = "reset" THEN NoName ELSE @]
  /\ EndOperation(c)

\* Mutant: closing does not clear leaseLocked.
CloseKeepingFlag(c, end) ==
  /\ sess' = [sess EXCEPT ![lease[c]] = IF end = "unconfirmed" THEN "stuck" ELSE "disposed"]
  /\ lease' = [lease EXCEPT ![c] = IF end = "unconfirmed" THEN @ ELSE NoSession]
  /\ sess[lease[c]] = "stuck" => end = "unconfirmed"
  /\ IF end = "closed" \/ sess[lease[c]] = "stuck" THEN NoFault ELSE Fault
  /\ UNCHANGED leaseLocked
\* Mutant: the lease is forgotten although its disposal was not confirmed.
CloseForgetting(c, end) ==
  /\ leaseLocked' = [leaseLocked EXCEPT ![c] = FALSE]
  /\ sess' = [sess EXCEPT ![lease[c]] = IF end = "unconfirmed" THEN "stuck" ELSE "disposed"]
  /\ lease' = [lease EXCEPT ![c] = NoSession]
  /\ IF end = "closed" THEN NoFault ELSE Fault
\* The session ends as one of: closed, closed after a recorded failure, or
\* not confirmed, in which case close() repeats its rejection for ever.
Close(c, end) ==
  /\ leaseLocked' = [leaseLocked EXCEPT ![c] = FALSE]
  /\ sess' = [sess EXCEPT ![lease[c]] = IF end = "unconfirmed" THEN "stuck" ELSE "disposed"]
  /\ lease' = [lease EXCEPT ![c] = IF end = "unconfirmed" THEN @ ELSE NoSession]
  /\ sess[lease[c]] = "stuck" => end = "unconfirmed"
  /\ IF end = "closed" \/ sess[lease[c]] = "stuck" THEN NoFault ELSE Fault

\* closeLease within acquireLease: cleanup retries on a new session
Reacquire(c) ==
  /\ pc[c] = "reacquire"
  /\ \E end \in {"closed", "failed", "unconfirmed"} :
       /\ Close(c, end)
       /\ IF end = "closed" THEN Goto(c, "acquire") /\ UNCHANGED busy ELSE EndOperation(c)
  /\ UNCHANGED <<pgVars, config, cleanupRequired, testDataSource, sources, initializing,
                 owned, outside>>

CloseLease(c) ==
  /\ pc[c] = "closeLease"
  /\ \/ lease[c] = NoSession /\ Finish(c) /\ UNCHANGED leaseVars /\ NoFault
     \/ lease[c] # NoSession /\ Close(c, "closed") /\ Finish(c)
     \/ /\ lease[c] # NoSession
        /\ \E end \in {"failed", "unconfirmed"} : Close(c, end)
        /\ EndOperation(c)
        /\ UNCHANGED <<config, cleanupRequired, testDataSource>>
  /\ UNCHANGED <<pgVars, sources, initializing, owned, outside>>

-----------------------------------------------------------------------------
(* Failures *)

\* Mutant: only the server's own errors are noticed.
ServerError(s) == answer[s] = "error"
SessionFailed(s) == answer[s] = "error" \/ sess[s] # "open" \/ backend[s] = "closed"

\* Any failure of a statement, an SQL error included, interrupts the session.
QueryFails(c) ==
  /\ pc[c] \in QueryPc /\ lease[c] # NoSession
  /\ LET s == lease[c] IN
     /\ sess' = [sess EXCEPT ![s] = IF @ = "open" THEN "broken" ELSE @]
     /\ IF SessionFailed(s) THEN NoFault ELSE Fault
  /\ Throw(c)
  /\ UNCHANGED <<pgVars, config, testDataSource, sources, initializing, lease, leaseLocked,
                 owned, outside>>

\* The client notices that the server ended the session, or its own socket fails.
LeaseLost(c) ==
  /\ pc[c] # "crashed" /\ Healthy(c)
  /\ IF backend[lease[c]] = "closed" THEN NoFault ELSE Fault
  /\ sess' = [sess EXCEPT ![lease[c]] = "broken"]
  /\ UNCHANGED <<pgVars, pc, stateVars, lease, leaseLocked, owned, outside>>

Crash(c) ==
  /\ pc[c] # "crashed" /\ Fault
  /\ Goto(c, "crashed")
  /\ sess' = [s \in Session |-> IF s[1] = c /\ sess[s] = "open" THEN "broken" ELSE sess[s]]
  /\ UNCHANGED <<pgVars, stateVars, lease, leaseLocked, owned, outside>>

\* The server sees that a client is gone, however late.
ServerNotices(s) ==
  /\ backend[s] = "open" /\ sess[s] # "open"
  /\ EndBackend(s)
  /\ UNCHANGED <<pc, stateVars, leaseVars, owned, envVars>>

ServerNoticesTarget(c) ==
  /\ pc[c] = "crashed" /\ \E src \in Source : conn[<<c, src>>] # NoOid
  /\ Detach({c} \X Source)
  /\ UNCHANGED <<serverVars, stmtVars, pc, stateVars, leaseVars, owned, envVars>>

\* The server ends a session nobody asked it to end.
ServerDisconnects(s) ==
  /\ backend[s] = "open" /\ sess[s] = "open" /\ Fault
  /\ EndBackend(s)
  /\ UNCHANGED <<pc, stateVars, leaseVars, owned, outside>>

Recycle(s) ==
  /\ sess[s] = "disposed" /\ RecycleBackend(s)
  /\ sess' = [sess EXCEPT ![s] = "unused"]
  /\ UNCHANGED <<pc, stateVars, lease, leaseLocked, owned, envVars>>

ServerExecutes(s) ==
  /\ Execute(s)
  /\ UNCHANGED <<pc, stateVars, leaseVars, owned, envVars>>

OutsideActs ==
  /\ outside < MaxOutside /\ outside' = outside + 1
  /\ OutsideDDL
  /\ UNCHANGED <<pc, stateVars, leaseVars, owned, faults>>

-----------------------------------------------------------------------------
Operation(c) ==
  \/ OpenSession(c) \/ CreateSessionFails(c) \/ Connected(c) \/ IdentityRead(c)
  \/ LockGranted(c) \/ LockBusy(c)
  \/ Created(c) \/ OidRead(c) \/ SourceInitialized(c) \/ SourceFails(c) \/ SchemaReady(c)
  \/ OwnershipAsserted(c) \/ ClearAllowed(c) \/ Truncate(c)
  \/ TargetQueryFails(c) \/ TargetReconnects(c)
  \/ SourcesFail(c) \/ SourcesClosed(c) \/ Inspected(c) \/ Dropped(c) \/ Verified(c)
  \/ Reacquire(c) \/ CloseLease(c) \/ QueryFails(c)

Call(c) ==
  \/ \E n \in Name : ForTest(c, n)
  \/ Setup(c) \/ Clear(c)
  \/ \E kind \in {"close", "reset"} : Teardown(c, kind)
  \/ \E app \in Source \ {Main} : NestStart(c, app) \/ NestInitialized(c, app) \/ AppShutdown(c, app)

ContextStep(c) == Call(c) \/ Operation(c) \/ LeaseLost(c) \/ Crash(c) \/ TargetBreaks(c) \/ ServerNoticesTarget(c)
SessionStep(s) == ServerExecutes(s) \/ ServerNotices(s) \/ ServerDisconnects(s) \/ Recycle(s)

Next ==
  \/ \E c \in Context : ContextStep(c)
  \/ \E c \in Context, k \in SessionId : SessionStep(<<c, k>>)
  \/ OutsideActs

Spec == Init /\ [][Next]_vars

\* The awaits of TypeORM (initialize, runMigrations, synchronize, destroy, the queries of clear):
\* connectionOptions sets no timeout, and any of them may hang.
InTypeOrm(c) ==
  \/ pc[c] \in {"init", "schema", "clearName", "truncate"}
  \/ pc[c] = "closeSources" /\ sources[c] # {}

\* The other awaits are of TestDatabaseSession, whose timeouts bound each statement, its creation
\* and its close; of TypeORM nothing is assumed.  A server that is reached executes what it is
\* sent, and notices in the end that a client is gone.
Fairness ==
  /\ \A c \in Context : WF_vars(~InTypeOrm(c) /\ Operation(c))
  /\ \A c \in Context, k \in SessionId :
       /\ WF_vars(ServerExecutes(<<c, k>>))
       /\ WF_vars(ServerNotices(<<c, k>>))
       /\ WF_vars(Recycle(<<c, k>>))

\* The caller retries a failed cleanup, as the README asks.
RetriesCleanup == \A c \in Context : WF_vars(cleanupRequired[c] /\ Teardown(c, "close"))

FairSpec == Spec /\ Fairness
RetrySpec == FairSpec /\ RetriesCleanup

-----------------------------------------------------------------------------
(* Properties *)

\* CREATE and DROP only ever run on the session that holds the target's
\* advisory lock, whichever attempt of whichever process sent them and however
\* late the server gets to them (acquireLease, setup, cleanup).
DdlUnderLock ==
  \A s \in Session :
    Running(s, "create") \/ Running(s, "drop") => lock[stmt[s].name] = s

\* A DROP that the server can still execute finds, under the name, the very
\* database that the dropping process created: a replacement or another
\* process's database is never dropped (the inspection in cleanup).
DropsOnlyItsOwn ==
  \A s \in Session : Running(s, "drop") =>
    /\ catalog[stmt[s].name] # NoOid
    /\ creator[catalog[stmt[s].name]] = OwnerOf(s)

\* TRUNCATE does not run on the session that holds the lock, and the pool may connect by name
\* at any query.  A connection that strayed to another database earlier is found by the check of
\* the OID, before anything is cleared; and while the server has the lease, TRUNCATE is only
\* about to run on the database this context created (clearTestDatabase).
ClearsOnlyItsOwn ==
  [][\A c \in Context :
       /\ conn'[<<c, Main>>] # NoOid
       /\ \/ pc[c] # "clearName" /\ pc'[c] = "clearName"
          \/ pc'[c] = "truncate" /\ backend'[lease'[c]] = "open"
       => conn'[<<c, Main>>] = owned'[c].oid /\ creator'[conn'[<<c, Main>>]] = c]_vars

\* No connection and no session escapes the static state that cleanup works
\* from: what is not tracked any more has been closed (sources, lease).
NothingUntracked ==
  \A c \in Context :
    /\ \A src \in Source : conn[<<c, src>>] # NoOid => src \in sources[c]
    /\ \A k \in SessionId : <<c, k>> # lease[c] => sess[<<c, k>>] \in {"unused", "disposed"}

\* While the database is offered for use and the server still has the lease's
\* session, the lock is held and the name still stands for the database this
\* context created: no cooperating process can be replacing it.
Ready(c) == pc[c] = "idle" /\ testDataSource[c] /\ ~cleanupRequired[c] /\ Healthy(c)
UsedUnderLock ==
  \A c \in Context : Ready(c) /\ backend[lease[c]] = "open" =>
    /\ lock[config[c]] = lease[c]
    /\ catalog[config[c]] = owned[c].oid
    /\ creator[owned[c].oid] = c

\* A context gives up the ownership of a database only when no name in the
\* catalog stands for it any more (the verification after DROP, and the retry
\* that finds an attempted DROP done).
ReleasedOnlyWhenGone ==
  [][\A c \in Context :
       owned[c].oid # NoOid /\ owned'[c].oid # owned[c].oid =>
         \A n \in Name : catalog[n] # owned[c].oid]_vars

\* Cleanup is over, and reset forgets the captured configuration, only when no
\* target connection, no session and no ownership is left (cleanup, teardown).
ForgetsOnlyWhenClean ==
  [][\A c \in Context :
       (cleanupRequired[c] /\ ~cleanupRequired'[c]) \/ (config[c] # NoName /\ config'[c] # config[c]) =>
         /\ \A src \in Source : conn'[<<c, src>>] = NoOid
         /\ \A k \in SessionId : sess'[<<c, k>>] \in {"unused", "disposed"}
         /\ owned'[c] = NotOwned /\ sources'[c] = {} /\ lease'[c] = NoSession]_vars

\* Every operation settles, whatever is lost on the way, unless TypeORM keeps it waiting for ever:
\* no await of a session waits for an answer that can no longer come.
OperationsSettle ==
  \A c \in Context : []<>(pc[c] \in {"idle", "crashed"}) \/ <>[]InTypeOrm(c)

\* What a retry can work with: a lease that can still be given up, and a
\* catalog that shows the owned database, or its absence after an attempt.
Recoverable(c) ==
  /\ lease[c] # NoSession => sess[lease[c]] # "stuck"
  /\ Owns(c) =>
       /\ owned[c].oid # NoOid
       /\ RowsOf(owned[c].name, owned[c].oid) = {<<owned[c].name, owned[c].oid>>}
          \/ (owned[c].dropAttempted /\ RowsOf(owned[c].name, owned[c].oid) = {})

\* Retrying cleanup ends in a clean state, unless a source's destroy never returns: a failed
\* attempt never leaves the context, or the server-side lock, in the way of the next one.
CleanupConverges ==
  \A c \in Context :
    \/ []<>(~cleanupRequired[c] \/ pc[c] = "crashed" \/ ~Recoverable(c))
    \/ <>[]InTypeOrm(c)

\* The processes together implement a target with a single holder, which alone
\* creates and drops it, and drops only what it created.
Exclusive == INSTANCE ExclusiveTarget
TargetIsExclusive == Exclusive!Spec

-----------------------------------------------------------------------------
(* What the documents say and the code does not do *)

\* src/database/README.md:109: after a successful close "Setup can then
\* recreate the database": a context that has nothing to clean up has left no
\* database of its own under its name.
ClosedLeavesNothing ==
  \A c \in Context :
    pc[c] = "idle" /\ ~cleanupRequired[c] /\ ~Owns(c) =>
      \A n \in Name : catalog[n] # NoOid => creator[catalog[n]] # c

\* The archived design says that on unexpected lease loss the context must
\* stop further setup: no schema work starts on a lease known to be lost.
SetupStopsOnLeaseLoss ==
  [][\A c \in Context : pc[c] = "init" /\ pc'[c] = "schema" => Healthy(c)]_vars
=============================================================================
