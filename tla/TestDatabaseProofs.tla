------------------------- MODULE TestDatabaseProofs -------------------------
(***************************************************************************)
(* TestDatabase for every number of contexts, sessions, names and OIDs:    *)
(* the invariant of TestDatabaseInvariant is inductive, hence DDL runs     *)
(* only under the target's lock and drops only what its process created.   *)
(*                                                                         *)
(* The order of the proof is the order of the invariant's parts: typing,   *)
(* control, sessions, catalog.  Each part has one lemma with one step per  *)
(* action, and before it the lemmas on the operators the actions share.    *)
(***************************************************************************)
EXTENDS TestDatabaseInvariant, TLAPS

USE DEF vars, pgVars, serverVars, stmtVars, stateVars, leaseVars, envVars

-----------------------------------------------------------------------------
(* Sessions and leases *)

\* No session is mistaken for the absent one (the lease of acquireLease).
LEMMA NoSessionIsNone == NoSession \notin Session
  BY AbsentAssumption DEF Session

\* The sessions of a context are sessions of the server (TestDatabaseSession).
LEMMA ContextSession ==
  ASSUME NEW c \in Context, NEW k \in SessionId
  PROVE  <<c, k>> \in Session
  BY ContextAssumption DEF Session

\* A context leases only sessions of its own (acquireLease).
LEMMA LeaseIsOwn ==
  ASSUME TypeOK, Control, NEW c \in Context, lease[c] # NoSession
  PROVE  lease[c] \in Session /\ lease[c][1] = c
  BY DEF TypeOK, Control, ControlOf

-----------------------------------------------------------------------------
(* Typing *)

\* Dispatching a statement keeps its records typed (TestDatabaseSession.query).
LEMMA SendTyped ==
  ASSUME TypeOK, NEW s \in Session, NEW kind \in StmtKind, NEW n \in Name \cup {NoName},
         NEW o \in Oid \cup {NoOid}, Send(s, kind, n, o)
  PROVE  stmt' \in [Session -> Statement] /\ rows' \in [Session -> SUBSET Row]
         /\ answer' \in [Session -> {"none", "pending", "ok", "refused", "error"}]
  BY DEF TypeOK, PgTypeOK, Send, Statement

\* Moving to another await keeps pc typed.
LEMMA GotoTyped ==
  ASSUME TypeOK, NEW c \in Context, NEW p \in AwaitPc \cup {"idle", "crashed"}, Goto(c, p)
  PROVE  pc' \in [Context -> AwaitPc \cup {"idle", "crashed"}]
  BY DEF TypeOK, Goto

\* A query on a lease is a typed statement (adminQuery).
LEMMA QueryTyped ==
  ASSUME TypeOK, NEW c \in Context, lease[c] # NoSession, NEW p \in AwaitPc,
         NEW kind \in StmtKind, Query(c, p, kind)
  PROVE  stmt' \in [Session -> Statement] /\ rows' \in [Session -> SUBSET Row]
         /\ answer' \in [Session -> {"none", "pending", "ok", "refused", "error"}]
         /\ pc' \in [Context -> AwaitPc \cup {"idle", "crashed"}]
  <1>1. lease[c] \in Session /\ config[c] \in Name \cup {NoName}
        /\ (IF kind = "inspect" THEN owned[c].oid ELSE NoOid) \in Oid \cup {NoOid}
    BY DEF TypeOK, Ownership
  <1>. QED BY <1>1, SendTyped, GotoTyped DEF Query

\* Settling an operation (the finally blocks of the lifecycle).
LEMMA EndTyped ==
  ASSUME TypeOK, NEW c \in Context, EndOperation(c)
  PROVE  busy' \in [Context -> {"none", "setup", "clear", "close", "reset"}]
         /\ pc' \in [Context -> AwaitPc \cup {"idle", "crashed"}]
  BY GotoTyped DEF TypeOK, EndOperation

\* An exception at the top of an operation (the catch of setup).
LEMMA ThrowTyped ==
  ASSUME TypeOK, NEW c \in Context, Throw(c)
  PROVE  busy' \in [Context -> {"none", "setup", "clear", "close", "reset"}]
         /\ pc' \in [Context -> AwaitPc \cup {"idle", "crashed"}]
         /\ cleanupRequired' \in [Context -> BOOLEAN]
  <1>1. CASE EndOperation(c) /\ UNCHANGED cleanupRequired
    BY <1>1, EndTyped DEF TypeOK
  <1>2. CASE cleanupRequired' = [cleanupRequired EXCEPT ![c] = TRUE] /\ Goto(c, "closeSources") /\ UNCHANGED busy
    BY <1>2, GotoTyped DEF TypeOK, AwaitPc
  <1>. QED BY <1>1, <1>2 DEF Throw

\* The fault budget stays a number.
LEMMA FaultTyped ==
  ASSUME TypeOK, Fault \/ NoFault
  PROVE  faults' \in Nat
  BY DEF TypeOK, Fault, NoFault

\* Closing target connections (closeSource).
LEMMA DetachTyped ==
  ASSUME TypeOK, NEW K, Detach(K)
  PROVE  conn' \in [Client -> Oid \cup {NoOid}]
  BY DEF TypeOK, PgTypeOK, Detach

\* Opening a target connection (DataSource.initialize).
LEMMA AttachTyped ==
  ASSUME TypeOK, NEW k, NEW n \in Name, Attach(k, n)
  PROVE  conn' \in [Client -> Oid \cup {NoOid}]
  BY DEF TypeOK, PgTypeOK, Attach

\* Closing the lease (closeLease, dispose).
LEMMA CloseTyped ==
  ASSUME TypeOK, NEW c \in Context, NEW end, lease[c] # NoSession, Close(c, end)
  PROVE  /\ leaseLocked' \in [Context -> BOOLEAN]
         /\ sess' \in [Session -> {"unused", "open", "broken", "disposed", "stuck"}]
         /\ lease' \in [Context -> Session \cup {NoSession}]
         /\ faults' \in Nat
  <1>1. faults' \in Nat BY FaultTyped DEF Close
  <1>2. leaseLocked' \in [Context -> BOOLEAN] BY DEF Close, TypeOK
  <1>3. sess' \in [Session -> {"unused", "open", "broken", "disposed", "stuck"}] BY DEF Close, TypeOK
  <1>4. lease' \in [Context -> Session \cup {NoSession}] BY DEF Close, TypeOK
  <1>. QED BY <1>1, <1>2, <1>3, <1>4

\* The server answers a statement.
LEMMA AnswerTyped ==
  ASSUME TypeOK, NEW s \in Session, NEW a \in {"none", "pending", "ok", "refused", "error"}, Answer(s, a)
  PROVE  answer' \in [Session -> {"none", "pending", "ok", "refused", "error"}]
  BY DEF TypeOK, PgTypeOK, Answer

\* The end of a successful cleanup (teardown).
LEMMA FinishTyped ==
  ASSUME TypeOK, NEW c \in Context, Finish(c)
  PROVE  /\ testDataSource' \in [Context -> BOOLEAN]
         /\ cleanupRequired' \in [Context -> BOOLEAN]
         /\ config' \in [Context -> Name \cup {NoName}]
         /\ busy' \in [Context -> {"none", "setup", "clear", "close", "reset"}]
         /\ pc' \in [Context -> AwaitPc \cup {"idle", "crashed"}]
  <1>1. testDataSource' \in [Context -> BOOLEAN] BY DEF TypeOK, Finish
  <1>2. cleanupRequired' \in [Context -> BOOLEAN] BY DEF TypeOK, Finish
  <1>3. config' \in [Context -> Name \cup {NoName}] BY DEF TypeOK, Finish
  <1>. QED BY <1>1, <1>2, <1>3, EndTyped DEF Finish

\* Nothing owned is an ownership record (owned = undefined).
LEMMA NotOwnedTyped == NotOwned \in Ownership
  BY DEF NotOwned, Ownership

\* What a context owns is recorded as a whole record (setup, cleanup).
LEMMA OwnedTyped ==
  ASSUME TypeOK, NEW c \in Context, NEW r \in Ownership, owned' = [owned EXCEPT ![c] = r]
  PROVE  owned' \in [Context -> Ownership]
  BY DEF TypeOK

\* Every step of the lifecycle, the server and the outsiders keeps the types.  It
\* needs Control: a source attaches only once a name was captured (forTest).
LEMMA TypeStep ==
  ASSUME TypeOK, Control, [Next]_vars
  PROVE  TypeOK'
  <1>1. ASSUME NEW c \in Context, Call(c) PROVE TypeOK'
    <2>1. ASSUME NEW n \in Name, ForTest(c, n) PROVE TypeOK'
      BY <2>1 DEF TypeOK, PgTypeOK, AwaitPc, QueryPc, StmtKind, Statement, Ownership, ForTest
    <2>2. ASSUME Setup(c) PROVE TypeOK'
      BY <2>2
         DEF TypeOK, PgTypeOK, AwaitPc, QueryPc, StmtKind, Statement, Ownership, Setup, Goto
    <2>3. ASSUME Clear(c) PROVE TypeOK'
      BY <2>3
         DEF TypeOK, PgTypeOK, AwaitPc, QueryPc, StmtKind, Statement, Ownership, Clear,
             Initialized, QueryOnly, Query, Send, Goto, Answered, Healthy
    <2>4. ASSUME NEW kind \in {"close", "reset"}, Teardown(c, kind) PROVE TypeOK'
      BY <2>4
         DEF TypeOK, PgTypeOK, AwaitPc, QueryPc, StmtKind, Statement, Ownership, Teardown, Goto
    <2>5. ASSUME NEW app \in Source \ {Main}, NestStart(c, app) PROVE TypeOK'
      BY <2>5 DEF TypeOK, PgTypeOK, NestStart, Healthy, Initialized
    <2>6. ASSUME NEW app \in Source \ {Main}, NestInitialized(c, app) PROVE TypeOK'
      BY <2>6, FaultTyped, AttachTyped DEF TypeOK, PgTypeOK, NestInitialized, Control, ControlOf
    <2>7. ASSUME NEW app \in Source \ {Main}, AppShutdown(c, app) PROVE TypeOK'
      BY <2>7 DEF TypeOK, PgTypeOK, AppShutdown, Detach
    <2>. QED BY <1>1, <2>1, <2>2, <2>3, <2>4, <2>5, <2>6, <2>7 DEF Call
  <1>2. ASSUME NEW c \in Context, Operation(c) PROVE TypeOK'
    <2>1. ASSUME OpenSession(c) PROVE TypeOK'
      BY <2>1, ContextAssumption
         DEF TypeOK, PgTypeOK, AwaitPc, QueryPc, StmtKind, Statement, Ownership, Session,
             OpenSession, Send, Goto
    <2>2. ASSUME CreateSessionFails(c) PROVE TypeOK'
      BY <2>2, FaultTyped, ThrowTyped DEF TypeOK, PgTypeOK, CreateSessionFails, ThrowOnly
    <2>3. ASSUME Connected(c) PROVE TypeOK'
      BY <2>3
         DEF TypeOK, PgTypeOK, AwaitPc, QueryPc, StmtKind, Statement, Ownership, Connected,
             QueryOnly, Query, Send, Goto, Answered, Healthy
    <2>4. ASSUME IdentityRead(c) PROVE TypeOK'
      BY <2>4, FaultTyped, ThrowTyped, QueryTyped
         DEF TypeOK, PgTypeOK, IdentityRead, ThrowOnly, QueryOnly, Answered, Healthy, AwaitPc,
             QueryPc, StmtKind
    <2>5. ASSUME LockGranted(c) PROVE TypeOK'
      BY <2>5, ThrowTyped, QueryTyped
         DEF TypeOK, PgTypeOK, LockGranted, LockWon, InspectOwned, Answered, Healthy, AwaitPc,
             QueryPc, StmtKind
    <2>6. ASSUME LockBusy(c) PROVE TypeOK'
      BY <2>6, FaultTyped, ThrowTyped DEF TypeOK, PgTypeOK, LockBusy, ThrowOnly
    <2>7. ASSUME Created(c) PROVE TypeOK'
      BY <2>7
         DEF TypeOK, PgTypeOK, AwaitPc, QueryPc, StmtKind, Statement, Ownership, Created,
             QueryOnly, Query, Send, Goto, Answered, Healthy
    <2>8. ASSUME OidRead(c) PROVE TypeOK'
      <3>1. \A o \in OidsNamed(c, config[c]) : o \in Oid
        BY <2>8 DEF OidRead, OidsNamed, Rows, Row, Answered, Healthy, TypeOK, PgTypeOK
      <3>2. CASE OidsNamed(c, config[c]) = {} /\ Throw(c) /\ UNCHANGED <<owned, sources>>
        BY <2>8, <3>2, ThrowTyped DEF TypeOK, PgTypeOK, OidRead
      <3>3. ASSUME NEW o \in Oid, owned' = [owned EXCEPT ![c].oid = o] PROVE owned' \in [Context -> Ownership]
        <4>1. owned[c] \in Ownership BY DEF TypeOK
        <4>2. [owned[c] EXCEPT !.oid = o] \in Ownership BY <4>1 DEF Ownership
        <4>3. owned' = [owned EXCEPT ![c] = [owned[c] EXCEPT !.oid = o]] BY <3>3
        <4>. QED BY <4>2, <4>3, OwnedTyped
      <3>4. CASE \E o \in OidsNamed(c, config[c]) :
              /\ owned' = [owned EXCEPT ![c].oid = o]
              /\ sources' = [sources EXCEPT ![c] = @ \cup {Main}]
              /\ Goto(c, "init")
              /\ UNCHANGED <<busy, cleanupRequired>>
        <4>1. owned' \in [Context -> Ownership] BY <3>1, <3>3, <3>4
        <4>2. sources' \in [Context -> SUBSET Source] BY <3>4, ContextAssumption DEF TypeOK
        <4>3. pc' \in [Context -> AwaitPc \cup {"idle", "crashed"}] BY <3>4, GotoTyped DEF AwaitPc
        <4>. QED BY <2>8, <4>1, <4>2, <4>3, <3>4 DEF TypeOK, PgTypeOK, OidRead
      <3>. QED BY <2>8, <3>2, <3>4 DEF OidRead
    <2>9. ASSUME SourceInitialized(c) PROVE TypeOK'
      BY <2>9, GotoTyped, AttachTyped
         DEF TypeOK, PgTypeOK, SourceInitialized, Control, ControlOf, AwaitPc
    <2>10. ASSUME SourceFails(c) PROVE TypeOK'
      BY <2>10, FaultTyped, ThrowTyped DEF TypeOK, PgTypeOK, SourceFails, ThrowOnly
    <2>11. ASSUME SchemaReady(c) PROVE TypeOK'
      <3>1. testDataSource' \in [Context -> BOOLEAN] BY <2>11 DEF SchemaReady, TypeOK
      <3>2. CASE Healthy(c) BY <2>11, <3>1, <3>2, GotoTyped DEF SchemaReady, TypeOK, PgTypeOK
      <3>3. CASE ~Healthy(c) BY <2>11, <3>1, <3>3, ThrowTyped DEF SchemaReady, TypeOK, PgTypeOK
      <3>. QED BY <3>2, <3>3
    <2>12. ASSUME OwnershipAsserted(c) PROVE TypeOK'
      BY <2>12, ThrowTyped, GotoTyped DEF TypeOK, PgTypeOK, OwnershipAsserted, AwaitPc
    <2>13. ASSUME ClearAllowed(c) PROVE TypeOK'
      BY <2>13, ThrowTyped, GotoTyped DEF TypeOK, PgTypeOK, ClearAllowed, AwaitPc
    <2>14. ASSUME Truncate(c) PROVE TypeOK'
      BY <2>14
         DEF TypeOK, PgTypeOK, AwaitPc, QueryPc, StmtKind, Statement, Ownership, Truncate,
             EndOperation, Goto
    <2>15. ASSUME TargetQueryFails(c) PROVE TypeOK'
      BY <2>15, FaultTyped, ThrowTyped DEF TypeOK, PgTypeOK, TargetQueryFails, ThrowOnly
    <2>16. ASSUME SourcesFail(c) PROVE TypeOK'
      BY <2>16
         DEF TypeOK, PgTypeOK, AwaitPc, QueryPc, StmtKind, Statement, Ownership, SourcesFail,
             CloseAll, Detach, Client, Fault, EndOperation, Goto
    <2>17. ASSUME SourcesClosed(c) PROVE TypeOK'
      BY <2>17, ThrowTyped, QueryTyped, GotoTyped, DetachTyped
         DEF TypeOK, PgTypeOK, SourcesClosed, CloseAll, InspectOwned, Healthy, AwaitPc, QueryPc,
             StmtKind
    <2>18. ASSUME Inspected(c) PROVE TypeOK'
      <3>1. lease[c] # NoSession BY <2>18 DEF Inspected, Answered, Healthy
      <3>2. CASE owned' = [owned EXCEPT ![c].dropAttempted = TRUE] /\ Query(c, "drop", "drop") /\ UNCHANGED <<busy, cleanupRequired>>
        <4>1. owned' \in [Context -> Ownership]
          <5>1. owned[c] \in Ownership BY DEF TypeOK
          <5>2. [owned[c] EXCEPT !.dropAttempted = TRUE] \in Ownership BY <5>1 DEF Ownership
          <5>3. owned' = [owned EXCEPT ![c] = [owned[c] EXCEPT !.dropAttempted = TRUE]] BY <3>2
          <5>. QED BY <5>2, <5>3, OwnedTyped
        <4>. QED BY <2>18, <3>1, <3>2, <4>1, QueryTyped DEF Inspected, TypeOK, PgTypeOK, AwaitPc, QueryPc, StmtKind
      <3>3. CASE owned' = [owned EXCEPT ![c] = NotOwned] /\ Goto(c, "closeLease") /\ UNCHANGED <<stmtVars, busy, cleanupRequired>>
        <4>1. owned' \in [Context -> Ownership] BY <3>3, NotOwnedTyped DEF TypeOK
        <4>. QED BY <2>18, <3>3, <4>1, GotoTyped DEF Inspected, TypeOK, PgTypeOK, AwaitPc
      <3>4. CASE EndOperation(c) /\ UNCHANGED <<stmtVars, owned, cleanupRequired>>
        BY <2>18, <3>4, EndTyped DEF Inspected, TypeOK, PgTypeOK
      <3>. QED BY <2>18, <3>2, <3>3, <3>4 DEF Inspected
    <2>19. ASSUME Dropped(c) PROVE TypeOK'
      BY <2>19
         DEF TypeOK, PgTypeOK, AwaitPc, QueryPc, StmtKind, Statement, Ownership, Dropped,
             QueryOnly, Query, Send, Goto, Answered, Healthy
    <2>20. ASSUME Verified(c) PROVE TypeOK'
      <3>1. CASE owned' = [owned EXCEPT ![c] = NotOwned] /\ Goto(c, "closeLease") /\ UNCHANGED busy
        <4>1. owned' \in [Context -> Ownership] BY <3>1, NotOwnedTyped DEF TypeOK
        <4>. QED BY <2>20, <3>1, <4>1, GotoTyped DEF Verified, TypeOK, PgTypeOK, AwaitPc
      <3>2. CASE EndOperation(c) /\ UNCHANGED owned
        BY <2>20, <3>2, EndTyped DEF Verified, TypeOK, PgTypeOK
      <3>. QED BY <2>20, <3>1, <3>2 DEF Verified
    <2>21. ASSUME Reacquire(c) PROVE TypeOK'
      <3>0. lease[c] # NoSession BY <2>21 DEF Reacquire, Control, ControlOf
      <3>1. PICK end : Close(c, end) /\ (IF end = "closed" THEN Goto(c, "acquire") /\ UNCHANGED busy ELSE EndOperation(c))
        BY <2>21 DEF Reacquire
      <3>2. busy' \in [Context -> {"none", "setup", "clear", "close", "reset"}] /\ pc' \in [Context -> AwaitPc \cup {"idle", "crashed"}]
        BY <3>1, GotoTyped, EndTyped DEF TypeOK, AwaitPc
      <3>. QED BY <2>21, <3>0, <3>1, <3>2, CloseTyped DEF Reacquire, TypeOK, PgTypeOK
    <2>22. ASSUME CloseLease(c) PROVE TypeOK'
      <3>1. CASE lease[c] = NoSession /\ Finish(c) /\ UNCHANGED leaseVars /\ NoFault
        BY <2>22, <3>1, FinishTyped, FaultTyped DEF CloseLease, TypeOK, PgTypeOK
      <3>2. CASE lease[c] # NoSession /\ Close(c, "closed") /\ Finish(c)
        BY <2>22, <3>2, FinishTyped, CloseTyped DEF CloseLease, TypeOK, PgTypeOK
      <3>3. CASE /\ lease[c] # NoSession
            /\ \E end \in {"failed", "unconfirmed"} : Close(c, end)
            /\ EndOperation(c)
            /\ UNCHANGED <<config, cleanupRequired, testDataSource>>
        BY <2>22, <3>3, EndTyped, CloseTyped DEF CloseLease, TypeOK, PgTypeOK
      <3>. QED BY <2>22, <3>1, <3>2, <3>3 DEF CloseLease
    <2>23. ASSUME QueryFails(c) PROVE TypeOK'
      BY <2>23, FaultTyped, ThrowTyped, BudgetAssumption DEF TypeOK, PgTypeOK, QueryFails
    <2>24. ASSUME TargetReconnects(c) PROVE TypeOK'
      BY <2>24, AttachTyped DEF TypeOK, PgTypeOK, TargetReconnects, Control, ControlOf, AwaitPc
    <2>. QED BY <1>2, <2>1, <2>2, <2>3, <2>4, <2>5, <2>6, <2>7, <2>8, <2>9, <2>10, <2>11, <2>12,
               <2>13, <2>14, <2>15, <2>16, <2>17, <2>18, <2>19, <2>20, <2>21, <2>22, <2>23, <2>24 DEF Operation
  <1>3. ASSUME NEW c \in Context, LeaseLost(c) PROVE TypeOK'
    BY <1>3 DEF TypeOK, PgTypeOK, LeaseLost, Healthy, NoFault, Fault
  <1>4. ASSUME NEW c \in Context, Crash(c) PROVE TypeOK'
    BY <1>4
       DEF TypeOK, PgTypeOK, AwaitPc, QueryPc, StmtKind, Statement, Ownership, Crash, Fault,
           Goto
  <1>5. ASSUME NEW c \in Context, ServerNoticesTarget(c) PROVE TypeOK'
    BY <1>5 DEF TypeOK, PgTypeOK, ServerNoticesTarget, Detach
  <1>6. ASSUME NEW s \in Session, ServerExecutes(s) PROVE TypeOK'
    <2>1. ASSUME ExecConnect(s) PROVE TypeOK'
      BY <2>1, <1>6
         DEF TypeOK, PgTypeOK, ServerExecutes, ExecConnect, Running, Answer, OwnerOf, RowsOf,
             Row
    <2>2. ASSUME ExecIdentity(s) PROVE TypeOK'
      BY <2>2, <1>6
         DEF TypeOK, PgTypeOK, ServerExecutes, ExecIdentity, Running, Answer, OwnerOf, RowsOf,
             Row
    <2>3. ASSUME ExecLock(s) PROVE TypeOK'
      BY <2>3, <1>6, AnswerTyped DEF TypeOK, PgTypeOK, ServerExecutes, ExecLock
    <2>4. ASSUME ExecCreate(s) PROVE TypeOK'
      <3>1. OwnerOf(s) \in Actor BY DEF OwnerOf, Session
      <3>2. answer' \in [Session -> {"none", "pending", "ok", "refused", "error"}] BY <1>6, <2>4, AnswerTyped DEF ServerExecutes, ExecCreate
      <3>3. catalog' \in [Name -> Oid \cup {NoOid}] BY <1>6, <2>4 DEF ServerExecutes, ExecCreate, TypeOK, PgTypeOK
      <3>4. creator' \in [Oid -> Actor \cup {Nobody, Outsider}] BY <1>6, <2>4, <3>1 DEF ServerExecutes, ExecCreate, TypeOK, PgTypeOK
      <3>. QED BY <1>6, <2>4, <3>2, <3>3, <3>4 DEF ServerExecutes, ExecCreate, TypeOK, PgTypeOK
    <2>5. ASSUME ExecSelect(s) PROVE TypeOK'
      BY <2>5, <1>6
         DEF TypeOK, PgTypeOK, ServerExecutes, ExecSelect, Running, Answer, OwnerOf, RowsOf, Row
    <2>6. ASSUME ExecDrop(s) PROVE TypeOK'
      BY <2>6, <1>6, AnswerTyped DEF TypeOK, PgTypeOK, ServerExecutes, ExecDrop
    <2>. QED BY <1>6, <2>1, <2>2, <2>3, <2>4, <2>5, <2>6 DEF ServerExecutes, Execute
  <1>7. ASSUME NEW s \in Session, ServerNotices(s) PROVE TypeOK'
    BY <1>7 DEF TypeOK, PgTypeOK, ServerNotices, EndBackend
  <1>8. ASSUME NEW s \in Session, ServerDisconnects(s) PROVE TypeOK'
    BY <1>8 DEF TypeOK, PgTypeOK, ServerDisconnects, EndBackend, Fault
  <1>9. ASSUME NEW s \in Session, Recycle(s) PROVE TypeOK'
    BY <1>9
       DEF TypeOK, PgTypeOK, AwaitPc, QueryPc, StmtKind, Statement, Ownership, Recycle,
           RecycleBackend, NoStmt
  <1>10. ASSUME OutsideActs PROVE TypeOK'
    BY <1>10 DEF TypeOK, PgTypeOK, OutsideActs, OutsideDDL
  <1>11. CASE UNCHANGED vars
    BY <1>11 DEF TypeOK, PgTypeOK
  <1>12. ASSUME NEW c \in Context, TargetBreaks(c) PROVE TypeOK'
    BY <1>12, DetachTyped, FaultTyped DEF TypeOK, PgTypeOK, TargetBreaks
  <1>. QED
    BY <1>1, <1>2, <1>3, <1>4, <1>5, <1>6, <1>7, <1>8, <1>9, <1>10, <1>11, <1>12, ContextSession
       DEF Next, ContextStep, SessionStep

-----------------------------------------------------------------------------
(* Control *)

\* What a context holds at each await (setup, acquireLease, cleanup).
LEMMA ControlStep ==
  ASSUME TypeOK, TypeOK', Control, [Next]_vars
  PROVE  Control'
  <1>1. ASSUME NEW c \in Context, Call(c) PROVE Control'
    <2>1. ASSUME NEW n \in Name, ForTest(c, n) PROVE Control'
      BY <2>1 DEF TypeOK, Control, ControlOf, Owns, QueryPc, ForTest
    <2>2. ASSUME Setup(c) PROVE Control'
      BY <2>2 DEF TypeOK, Control, ControlOf, Owns, QueryPc, Setup, Goto
    <2>3. ASSUME Clear(c) PROVE Control'
      BY <2>3
         DEF TypeOK, Control, ControlOf, Owns, QueryPc, Clear, Initialized, QueryOnly, Query,
             Send, Goto, Answered, Healthy
    <2>4. ASSUME NEW kind \in {"close", "reset"}, Teardown(c, kind) PROVE Control'
      BY <2>4 DEF TypeOK, Control, ControlOf, Owns, QueryPc, Teardown, Goto
    <2>5. ASSUME NEW app \in Source \ {Main}, NestStart(c, app) PROVE Control'
      BY <2>5 DEF TypeOK, Control, ControlOf, Owns, QueryPc, NestStart, Healthy, Initialized
    <2>6. ASSUME NEW app \in Source \ {Main}, NestInitialized(c, app) PROVE Control'
      BY <2>6 DEF TypeOK, Control, ControlOf, Owns, QueryPc, NestInitialized, Fault, NoFault
    <2>7. ASSUME NEW app \in Source \ {Main}, AppShutdown(c, app) PROVE Control'
      BY <2>7 DEF Control, ControlOf, Owns, AppShutdown
    <2>. QED BY <1>1, <2>1, <2>2, <2>3, <2>4, <2>5, <2>6, <2>7 DEF Call
  <1>2. ASSUME NEW c \in Context, Operation(c) PROVE Control'
    <2>1. ASSUME OpenSession(c) PROVE Control'
      <3>1. PICK k \in SessionId : /\ lease' = [lease EXCEPT ![c] = <<c, k>>]
                                      /\ sess' = [sess EXCEPT ![<<c, k>>] = "open"]
        BY <2>1 DEF OpenSession
      <3>2. \A d \in Context \ {c} : lease[d] # NoSession => lease[d] # <<c, k>>
        BY DEF Control, ControlOf
      <3>3. lease'[c] = <<c, k>> /\ sess'[<<c, k>>] = "open" /\ <<c, k>> # NoSession
        BY <3>1, ContextSession, NoSessionIsNone DEF TypeOK
      <3>4. ASSUME NEW d \in Context PROVE ControlOf(d)'
        <4>1. CASE d = c
          BY <2>1, <3>3, <4>1, AbsentAssumption DEF OpenSession, Goto, TypeOK, Control, ControlOf, Owns, QueryPc
        <4>2. CASE d # c
          BY <2>1, <3>1, <3>2, <4>2 DEF OpenSession, Goto, TypeOK, Control, ControlOf, Owns, QueryPc
        <4>. QED BY <4>1, <4>2
      <3>. QED BY <3>4 DEF Control
    <2>2. ASSUME CreateSessionFails(c) PROVE Control'
      BY <2>2
         DEF TypeOK, Control, ControlOf, Owns, QueryPc, CreateSessionFails, ThrowOnly, Throw,
             EndOperation, Goto, NoFault, Fault
    <2>3. ASSUME Connected(c) PROVE Control'
      BY <2>3
         DEF TypeOK, Control, ControlOf, Owns, QueryPc, Connected, QueryOnly, Query, Send, Goto,
             Answered, Healthy
    <2>4. ASSUME IdentityRead(c) PROVE Control'
      BY <2>4
         DEF TypeOK, Control, ControlOf, Owns, QueryPc, IdentityRead, NoFault, Fault, ThrowOnly,
             Throw, EndOperation, QueryOnly, Query, Send, Goto, Answered, Healthy
    <2>5. ASSUME LockGranted(c) PROVE Control'
      BY <2>5
         DEF TypeOK, Control, ControlOf, Owns, QueryPc, NotOwned, Ownership, LockGranted,
             LockWon, InspectOwned, Throw, EndOperation, QueryOnly, Query, Send, Goto, Answered,
             Healthy
    <2>6. ASSUME LockBusy(c) PROVE Control'
      BY <2>6
         DEF TypeOK, Control, ControlOf, Owns, QueryPc, LockBusy, Answered, Healthy, ThrowOnly,
             Throw, EndOperation, Goto, NoFault, Fault
    <2>7. ASSUME Created(c) PROVE Control'
      BY <2>7
         DEF TypeOK, Control, ControlOf, Owns, QueryPc, NotOwned, Ownership, Created, QueryOnly,
             Query, Send, Goto, Answered, Healthy
    <2>8. ASSUME OidRead(c) PROVE Control'
      <3>1. CASE Throw(c) /\ UNCHANGED <<owned, sources>>
        BY <2>8, <3>1 DEF TypeOK, OidRead, Answered, Throw, EndOperation, Goto, Control, ControlOf, Owns, QueryPc
      <3>2. ASSUME NEW o, owned' = [owned EXCEPT ![c].oid = o], Goto(c, "init"), UNCHANGED <<busy, cleanupRequired>>
            PROVE Control'
        BY <2>8, <3>2 DEF TypeOK, OidRead, Answered, Goto, Control, ControlOf, Owns, QueryPc, Ownership
      <3>. QED BY <2>8, <3>1, <3>2 DEF OidRead
    <2>9. ASSUME SourceInitialized(c) PROVE Control'
      BY <2>9 DEF TypeOK, Control, ControlOf, Owns, QueryPc, SourceInitialized, Goto
    <2>10. ASSUME SourceFails(c) PROVE Control'
      BY <2>10
         DEF TypeOK, Control, ControlOf, Owns, QueryPc, SourceFails, ThrowOnly, Throw,
             EndOperation, Goto, NoFault, Fault
    <2>11. ASSUME SchemaReady(c) PROVE Control'
      BY <2>11
         DEF TypeOK, Control, ControlOf, Owns, QueryPc, SchemaReady, Healthy, Throw,
             EndOperation, Goto
    <2>12. ASSUME OwnershipAsserted(c) PROVE Control'
      <3>1. CASE Goto(c, "clearName") /\ UNCHANGED <<busy, cleanupRequired>>
        BY <2>12, <3>1 DEF TypeOK, OwnershipAsserted, Answered, Goto, Control, ControlOf, Owns, QueryPc
      <3>2. CASE Throw(c)
        BY <2>12, <3>2 DEF TypeOK, OwnershipAsserted, Answered, Throw, EndOperation, Goto, Control, ControlOf, Owns, QueryPc
      <3>. QED BY <2>12, <3>1, <3>2 DEF OwnershipAsserted
    <2>13. ASSUME ClearAllowed(c) PROVE Control'
      BY <2>13
         DEF TypeOK, Control, ControlOf, Owns, QueryPc, ClearAllowed, Healthy, Throw,
             EndOperation, Goto
    <2>14. ASSUME Truncate(c) PROVE Control'
      BY <2>14 DEF TypeOK, Control, ControlOf, Owns, QueryPc, Truncate, EndOperation, Goto
    <2>15. ASSUME TargetQueryFails(c) PROVE Control'
      BY <2>15
         DEF TypeOK, Control, ControlOf, Owns, QueryPc, TargetQueryFails, ThrowOnly, Throw,
             EndOperation, Goto, NoFault, Fault
    <2>16. ASSUME SourcesFail(c) PROVE Control'
      BY <2>16
         DEF TypeOK, Control, ControlOf, Owns, QueryPc, SourcesFail, CloseAll, Fault,
             EndOperation, Goto
    <2>17. ASSUME SourcesClosed(c) PROVE Control'
      BY <2>17
         DEF TypeOK, Control, ControlOf, Owns, QueryPc, NotOwned, Ownership, SourcesClosed,
             CloseAll, InspectOwned, Throw, EndOperation, QueryOnly, Query, Send, Goto,
             Answered, Healthy
    <2>18. ASSUME Inspected(c) PROVE Control'
      BY <2>18
         DEF TypeOK, Control, ControlOf, Owns, QueryPc, NotOwned, Ownership, Inspected,
             EndOperation, QueryOnly, Query, Send, Goto, Answered, Healthy
    <2>19. ASSUME Dropped(c) PROVE Control'
      BY <2>19
         DEF TypeOK, Control, ControlOf, Owns, QueryPc, Dropped, QueryOnly, Query, Send, Goto,
             Answered, Healthy
    <2>20. ASSUME Verified(c) PROVE Control'
      BY <2>20
         DEF TypeOK, Control, ControlOf, Owns, QueryPc, NotOwned, Ownership, Verified,
             EndOperation, Goto, Answered, Healthy
    <2>21. ASSUME Reacquire(c) PROVE Control'
      BY <2>21, NoSessionIsNone
         DEF TypeOK, Control, ControlOf, Owns, QueryPc, Reacquire, Close, NoFault, Fault,
             EndOperation, Goto
    <2>22. ASSUME CloseLease(c) PROVE Control'
      <3>1. CASE lease[c] = NoSession /\ Finish(c) /\ UNCHANGED leaseVars
        BY <2>22, <3>1 DEF TypeOK, CloseLease, Finish, EndOperation, Goto, Control, ControlOf, Owns, QueryPc
      <3>2. CASE lease[c] # NoSession /\ Close(c, "closed") /\ Finish(c)
        BY <2>22, <3>2, NoSessionIsNone DEF TypeOK, CloseLease, Close, Finish, EndOperation, Goto, Control, ControlOf, Owns, QueryPc
      <3>3. CASE /\ lease[c] # NoSession
                 /\ \E end \in {"failed", "unconfirmed"} : Close(c, end)
                 /\ EndOperation(c)
                 /\ UNCHANGED <<config, cleanupRequired, testDataSource>>
        BY <2>22, <3>3, NoSessionIsNone DEF TypeOK, CloseLease, Close, EndOperation, Goto, Control, ControlOf, Owns, QueryPc
      <3>. QED BY <2>22, <3>1, <3>2, <3>3 DEF CloseLease
    <2>23. ASSUME QueryFails(c) PROVE Control'
      BY <2>23
         DEF TypeOK, Control, ControlOf, Owns, QueryPc, QueryFails, SessionFailed, Throw,
             EndOperation, Goto, NoFault, Fault
    <2>24. ASSUME TargetReconnects(c) PROVE Control'
      BY <2>24 DEF Control, ControlOf, Owns, TargetReconnects
    <2>. QED BY <1>2, <2>1, <2>2, <2>3, <2>4, <2>5, <2>6, <2>7, <2>8, <2>9, <2>10, <2>11, <2>12,
               <2>13, <2>14, <2>15, <2>16, <2>17, <2>18, <2>19, <2>20, <2>21, <2>22, <2>23, <2>24 DEF Operation
  <1>3. ASSUME NEW c \in Context, LeaseLost(c) PROVE Control'
    BY <1>3 DEF TypeOK, Control, ControlOf, Owns, QueryPc, LeaseLost, Healthy, NoFault, Fault
  <1>4. ASSUME NEW c \in Context, Crash(c) PROVE Control'
    BY <1>4 DEF TypeOK, Control, ControlOf, Owns, QueryPc, Crash, Fault, Goto
  <1>5. ASSUME NEW c \in Context, ServerNoticesTarget(c) PROVE Control'
    BY <1>5 DEF Control, ControlOf, Owns, ServerNoticesTarget
  <1>6. ASSUME NEW s \in Session, ServerExecutes(s) PROVE Control'
    <2>1. ASSUME ExecConnect(s) PROVE Control'
      BY <2>1, <1>6 DEF Control, ControlOf, Owns, ServerExecutes, ExecConnect
    <2>2. ASSUME ExecIdentity(s) PROVE Control'
      BY <2>2, <1>6 DEF Control, ControlOf, Owns, ServerExecutes, ExecIdentity
    <2>3. ASSUME ExecLock(s) PROVE Control'
      BY <2>3, <1>6 DEF Control, ControlOf, Owns, ServerExecutes, ExecLock
    <2>4. ASSUME ExecCreate(s) PROVE Control'
      BY <2>4, <1>6 DEF Control, ControlOf, Owns, ServerExecutes, ExecCreate
    <2>5. ASSUME ExecSelect(s) PROVE Control'
      BY <2>5, <1>6 DEF Control, ControlOf, Owns, ServerExecutes, ExecSelect
    <2>6. ASSUME ExecDrop(s) PROVE Control'
      BY <2>6, <1>6 DEF Control, ControlOf, Owns, ServerExecutes, ExecDrop
    <2>. QED BY <1>6, <2>1, <2>2, <2>3, <2>4, <2>5, <2>6 DEF ServerExecutes, Execute
  <1>7. ASSUME NEW s \in Session, ServerNotices(s) PROVE Control'
    BY <1>7 DEF Control, ControlOf, Owns, ServerNotices
  <1>8. ASSUME NEW s \in Session, ServerDisconnects(s) PROVE Control'
    BY <1>8 DEF Control, ControlOf, Owns, ServerDisconnects, Fault
  <1>9. ASSUME NEW s \in Session, Recycle(s) PROVE Control'
    BY <1>9, NoSessionIsNone DEF TypeOK, Control, ControlOf, Owns, QueryPc, Recycle, NoStmt
  <1>10. ASSUME OutsideActs PROVE Control'
    BY <1>10 DEF Control, ControlOf, Owns, OutsideActs, OutsideDDL
  <1>11. CASE UNCHANGED vars
    BY <1>11 DEF Control, ControlOf, Owns
  <1>12. ASSUME NEW c \in Context, TargetBreaks(c) PROVE Control'
    BY <1>12 DEF Control, ControlOf, Owns, TargetBreaks
  <1>. QED
    BY <1>1, <1>2, <1>3, <1>4, <1>5, <1>6, <1>7, <1>8, <1>9, <1>10, <1>11, <1>12, ContextSession
       DEF Next, ContextStep, SessionStep

-----------------------------------------------------------------------------
(* Sessions *)

\* Dispatching a statement on the lease: the context then awaits that very
\* statement, and DDL is dispatched under the lock (adminQuery).
LEMMA QueryKeepsSessions ==
  ASSUME TypeOK, TypeOK', Control, Sessions, NEW c \in Context, lease[c] # NoSession,
         NEW p \in QueryPc, NEW kind, kind = KindAt(p), config[c] \in Name, Query(c, p, kind),
         UNCHANGED <<serverVars, config, lease, sess>>,
         backend[lease[c]] # "absent",
         backend[lease[c]] = "open" /\ kind \in {"create", "drop"} => lock[config[c]] = lease[c],
         \A d \in Context : leaseLocked'[d] =>
            leaseLocked[d] \/ (d = c /\ (backend[lease[c]] = "open" => lock[config[c]] = lease[c]))
  PROVE  Sessions'
  <1>. DEFINE s == lease[c]
  <1>1. s \in Session /\ s[1] = c BY LeaseIsOwn
  <1>2. /\ stmt'[s].kind = kind /\ stmt'[s].name = config[c] /\ answer'[s] = "pending" /\ pc'[c] = p
        /\ \A t \in Session \ {s} : stmt'[t] = stmt[t] /\ answer'[t] = answer[t]
        /\ \A d \in Context \ {c} : pc'[d] = pc[d]
    BY <1>1 DEF Query, Send, Goto, TypeOK, PgTypeOK
  <1>a. sess[s] # "unused" BY DEF Control, ControlOf
  <1>b. kind # "none" BY DEF KindAt, QueryPc
  <1>3. ASSUME NEW t \in Session PROVE SessionOf(t)'
    <2>1. CASE t = s BY <1>2, <1>a, <1>b, <2>1 DEF SessionOf
    <2>2. CASE t # s BY <1>2, <2>2 DEF SessionOf, Sessions
    <2>. QED BY <2>1, <2>2
  <1>4. ASSUME NEW d \in Context PROVE AwaitOf(d)'
    <2>1. CASE d = c BY <1>2, <2>1 DEF AwaitOf, Sessions
    <2>2. CASE d # c
      <3>1. pc[d] \in QueryPc \/ leaseLocked[d] => lease[d] # NoSession /\ lease[d] # s
        BY <2>2, <1>1 DEF Control, ControlOf
      <3>2. lease[d] # NoSession => lease[d] \in Session BY DEF TypeOK
      <3>. QED BY <1>2, <2>2, <3>1, <3>2 DEF AwaitOf, Sessions
    <2>. QED BY <2>1, <2>2
  <1>. QED BY <1>3, <1>4 DEF Sessions

\* A session and its backend agree, and a granted lock is kept while the backend
\* lives (acquireLease, leaseLocked).
LEMMA SessionsStep ==
  ASSUME TypeOK, TypeOK', Control, Control', Sessions, [Next]_vars
  PROVE  Sessions'
  <1>1. ASSUME NEW c \in Context, Call(c) PROVE Sessions'
    <2>1. ASSUME NEW n \in Name, ForTest(c, n) PROVE Sessions'
      BY <2>1
         DEF TypeOK, PgTypeOK, Control, ControlOf, QueryPc, Sessions, SessionOf, AwaitOf,
             KindAt, ForTest
    <2>2. ASSUME Setup(c) PROVE Sessions'
      BY <2>2
         DEF TypeOK, PgTypeOK, Control, ControlOf, QueryPc, Sessions, SessionOf, AwaitOf,
             KindAt, Setup, Goto
    <2>3. ASSUME Clear(c) PROVE Sessions'
      <3>1. lease[c] \in Session /\ testDataSource[c] /\ ~cleanupRequired[c] /\ Query(c, "clearOid", "oid")
        BY <2>3 DEF Clear, Healthy, TypeOK
      <3>2. config[c] \in Name /\ backend[lease[c]] # "absent"
        BY <3>1 DEF Control, ControlOf, Sessions, AwaitOf
      <3>. QED
        BY <2>3, <3>1, <3>2, NoSessionIsNone, QueryKeepsSessions DEF Clear, QueryPc, KindAt
    <2>4. ASSUME NEW kind \in {"close", "reset"}, Teardown(c, kind) PROVE Sessions'
      BY <2>4
         DEF TypeOK, PgTypeOK, Control, ControlOf, QueryPc, Sessions, SessionOf, AwaitOf,
             KindAt, Teardown, Goto
    <2>5. ASSUME NEW app \in Source \ {Main}, NestStart(c, app) PROVE Sessions'
      BY <2>5
         DEF TypeOK, PgTypeOK, Control, ControlOf, QueryPc, Sessions, SessionOf, AwaitOf,
             KindAt, NestStart, Healthy, Initialized
    <2>6. ASSUME NEW app \in Source \ {Main}, NestInitialized(c, app) PROVE Sessions'
      BY <2>6
         DEF TypeOK, PgTypeOK, Control, ControlOf, QueryPc, Sessions, SessionOf, AwaitOf,
             KindAt, NestInitialized, Attach, Fault, NoFault
    <2>7. ASSUME NEW app \in Source \ {Main}, AppShutdown(c, app) PROVE Sessions'
      BY <2>7
         DEF TypeOK, PgTypeOK, Control, ControlOf, QueryPc, Sessions, SessionOf, AwaitOf,
             KindAt, AppShutdown, Detach
    <2>. QED BY <1>1, <2>1, <2>2, <2>3, <2>4, <2>5, <2>6, <2>7 DEF Call
  <1>2. ASSUME NEW c \in Context, Operation(c) PROVE Sessions'
    <2>1. ASSUME OpenSession(c) PROVE Sessions'
      BY <2>1, ContextAssumption
         DEF TypeOK, PgTypeOK, Control, ControlOf, QueryPc, Sessions, SessionOf, AwaitOf,
             Session, KindAt, OpenSession, Send, Goto
    <2>2. ASSUME CreateSessionFails(c) PROVE Sessions'
      BY <2>2
         DEF TypeOK, PgTypeOK, Control, ControlOf, QueryPc, Sessions, SessionOf, AwaitOf,
             KindAt, CreateSessionFails, ThrowOnly, Throw, EndOperation, Goto, NoFault, Fault
    <2>3. ASSUME Connected(c) PROVE Sessions'
      <3>1. lease[c] \in Session /\ pc[c] = "connect" /\ answer[lease[c]] = "ok"
        BY <2>3 DEF Connected, Answered, Healthy, TypeOK
      <3>2. config[c] \in Name /\ backend[lease[c]] # "absent"
        BY <3>1 DEF Control, ControlOf, Sessions, SessionOf
      <3>3. Query(c, "identity", "identity")
        BY <2>3 DEF Connected, QueryOnly
      <3>. QED
        BY <2>3, <3>1, <3>2, <3>3, NoSessionIsNone, QueryKeepsSessions
           DEF Connected, QueryOnly, QueryPc, KindAt
    <2>4. ASSUME IdentityRead(c) PROVE Sessions'
      <3>1. lease[c] \in Session /\ pc[c] = "identity" /\ answer[lease[c]] = "ok"
        BY <2>4 DEF IdentityRead, Answered, Healthy, TypeOK
      <3>2. config[c] \in Name /\ backend[lease[c]] # "absent"
        BY <3>1 DEF Control, ControlOf, Sessions, SessionOf
      <3>3. CASE QueryOnly(c, "lock", "lock")
        BY <3>1, <3>2, <3>3, NoSessionIsNone, QueryKeepsSessions DEF QueryOnly, QueryPc, KindAt
      <3>4. CASE ThrowOnly(c)
        BY <3>4 DEF ThrowOnly, Throw, EndOperation, Goto, TypeOK, Sessions, SessionOf, AwaitOf, QueryPc, KindAt
      <3>. QED BY <2>4, <3>3, <3>4 DEF IdentityRead
    <2>5. ASSUME LockGranted(c) PROVE Sessions'
      <3>1. lease[c] \in Session /\ pc[c] = "lock" /\ answer[lease[c]] = "ok"
        BY <2>5 DEF LockGranted, LockWon, Answered, Healthy, TypeOK
      <3>2. /\ config[c] \in Name /\ backend[lease[c]] # "absent"
            /\ backend[lease[c]] = "open" => lock[config[c]] = lease[c]
        BY <3>1 DEF Control, ControlOf, Sessions, SessionOf, AwaitOf, QueryPc, KindAt
      <3>3. /\ \A d \in Context : leaseLocked'[d] => leaseLocked[d] \/ d = c
            /\ UNCHANGED <<serverVars, config, lease, sess>>
        BY <2>5 DEF LockGranted, TypeOK
      <3>4. CASE Query(c, "create", "create")
        BY <3>1, <3>2, <3>3, <3>4, NoSessionIsNone, QueryKeepsSessions DEF QueryPc, KindAt
      <3>5. CASE Query(c, "inspect", "inspect")
        BY <3>1, <3>2, <3>3, <3>5, NoSessionIsNone, QueryKeepsSessions DEF QueryPc, KindAt
      <3>6. CASE Throw(c) /\ UNCHANGED stmtVars
        BY <3>2, <3>3, <3>6 DEF Throw, EndOperation, Goto, TypeOK, Sessions, SessionOf, AwaitOf, QueryPc, KindAt
      <3>. QED BY <2>5, <3>4, <3>5, <3>6 DEF LockGranted, InspectOwned
    <2>6. ASSUME LockBusy(c) PROVE Sessions'
      BY <2>6
         DEF TypeOK, PgTypeOK, Control, ControlOf, QueryPc, Sessions, SessionOf, AwaitOf,
             KindAt, LockBusy, Answered, Healthy, ThrowOnly, Throw, EndOperation, Goto, NoFault,
             Fault
    <2>7. ASSUME Created(c) PROVE Sessions'
      <3>1. lease[c] \in Session /\ pc[c] = "create" /\ answer[lease[c]] = "ok"
        BY <2>7 DEF Created, Answered, Healthy, TypeOK
      <3>2. config[c] \in Name /\ backend[lease[c]] # "absent"
        BY <3>1 DEF Control, ControlOf, Sessions, SessionOf
      <3>3. Query(c, "oid", "oid")
        BY <2>7 DEF Created
      <3>. QED
        BY <2>7, <3>1, <3>2, <3>3, NoSessionIsNone, QueryKeepsSessions DEF Created, QueryPc, KindAt
    <2>8. ASSUME OidRead(c) PROVE Sessions'
      BY <2>8
         DEF TypeOK, PgTypeOK, Control, ControlOf, QueryPc, Sessions, SessionOf, AwaitOf,
             KindAt, OidRead, Throw, EndOperation, Goto, Answered, Healthy
    <2>9. ASSUME SourceInitialized(c) PROVE Sessions'
      BY <2>9
         DEF TypeOK, PgTypeOK, Control, ControlOf, QueryPc, Sessions, SessionOf, AwaitOf,
             KindAt, SourceInitialized, Attach, Goto
    <2>10. ASSUME SourceFails(c) PROVE Sessions'
      BY <2>10
         DEF TypeOK, PgTypeOK, Control, ControlOf, QueryPc, Sessions, SessionOf, AwaitOf,
             KindAt, SourceFails, ThrowOnly, Throw, EndOperation, Goto, NoFault, Fault
    <2>11. ASSUME SchemaReady(c) PROVE Sessions'
      BY <2>11
         DEF TypeOK, PgTypeOK, Control, ControlOf, QueryPc, Sessions, SessionOf, AwaitOf,
             KindAt, SchemaReady, Healthy, Throw, EndOperation, Goto
    <2>12. ASSUME OwnershipAsserted(c) PROVE Sessions'
      <3>1. CASE Goto(c, "clearName") /\ UNCHANGED <<busy, cleanupRequired>>
        BY <2>12, <3>1 DEF TypeOK, OwnershipAsserted, Answered, Goto, Sessions, SessionOf, AwaitOf, QueryPc
      <3>2. CASE Throw(c)
        BY <2>12, <3>2 DEF TypeOK, OwnershipAsserted, Answered, Throw, EndOperation, Goto, Sessions, SessionOf, AwaitOf, QueryPc
      <3>. QED BY <2>12, <3>1, <3>2 DEF OwnershipAsserted
    <2>13. ASSUME ClearAllowed(c) PROVE Sessions'
      BY <2>13
         DEF TypeOK, PgTypeOK, Control, ControlOf, QueryPc, Sessions, SessionOf, AwaitOf,
             KindAt, ClearAllowed, Healthy, Throw, EndOperation, Goto
    <2>14. ASSUME Truncate(c) PROVE Sessions'
      BY <2>14
         DEF TypeOK, PgTypeOK, Control, ControlOf, QueryPc, Sessions, SessionOf, AwaitOf,
             KindAt, Truncate, EndOperation, Goto
    <2>15. ASSUME TargetQueryFails(c) PROVE Sessions'
      BY <2>15
         DEF TypeOK, PgTypeOK, Control, ControlOf, QueryPc, Sessions, SessionOf, AwaitOf,
             KindAt, TargetQueryFails, ThrowOnly, Throw, EndOperation, Goto, NoFault, Fault
    <2>16. ASSUME SourcesFail(c) PROVE Sessions'
      BY <2>16
         DEF TypeOK, PgTypeOK, Control, ControlOf, QueryPc, Sessions, SessionOf, AwaitOf,
             KindAt, SourcesFail, CloseAll, Detach, Fault, EndOperation, Goto
    <2>17. ASSUME SourcesClosed(c) PROVE Sessions'
      <3>1. CASE Owns(c) /\ Healthy(c) /\ leaseLocked[c] /\ Query(c, "inspect", "inspect")
        <4>1. lease[c] \in Session /\ config[c] \in Name /\ backend[lease[c]] # "absent"
          BY <3>1 DEF Healthy, Owns, Ownership, TypeOK, Control, ControlOf, Sessions, AwaitOf
        <4>. QED
          BY <2>17, <3>1, <4>1, NoSessionIsNone, QueryKeepsSessions DEF SourcesClosed, QueryPc, KindAt
      <3>2. CASE Throw(c) /\ UNCHANGED stmtVars
        BY <2>17, <3>2
           DEF SourcesClosed, Throw, EndOperation, Goto, TypeOK, Sessions, SessionOf, AwaitOf, QueryPc, KindAt
      <3>3. CASE /\ Goto(c, IF ~Owns(c) THEN "closeLease"
                           ELSE IF lease[c] = NoSession THEN "acquire" ELSE "reacquire")
                 /\ UNCHANGED <<stmtVars, busy, cleanupRequired>>
        BY <2>17, <3>3 DEF SourcesClosed, Goto, TypeOK, Sessions, SessionOf, AwaitOf, QueryPc, KindAt
      <3>. QED BY <2>17, <3>1, <3>2, <3>3 DEF SourcesClosed, InspectOwned
    <2>18. ASSUME Inspected(c) PROVE Sessions'
      <3>1. lease[c] \in Session /\ pc[c] = "inspect" /\ answer[lease[c]] = "ok"
        BY <2>18 DEF Inspected, Answered, Healthy, TypeOK
      <3>2. /\ config[c] \in Name /\ backend[lease[c]] # "absent"
            /\ backend[lease[c]] = "open" => lock[config[c]] = lease[c]
        BY <3>1 DEF Control, ControlOf, Sessions, SessionOf, AwaitOf, QueryPc, KindAt
      <3>3. CASE Query(c, "drop", "drop")
        BY <2>18, <3>1, <3>2, <3>3, NoSessionIsNone, QueryKeepsSessions DEF Inspected, QueryPc, KindAt
      <3>4. CASE Goto(c, "closeLease") /\ UNCHANGED <<stmtVars, busy, cleanupRequired>>
        BY <2>18, <3>4 DEF Inspected, Goto, TypeOK, Sessions, SessionOf, AwaitOf, QueryPc, KindAt
      <3>5. CASE EndOperation(c) /\ UNCHANGED <<stmtVars, owned, cleanupRequired>>
        BY <2>18, <3>5 DEF Inspected, EndOperation, Goto, TypeOK, Sessions, SessionOf, AwaitOf, QueryPc, KindAt
      <3>. QED BY <2>18, <3>3, <3>4, <3>5 DEF Inspected
    <2>19. ASSUME Dropped(c) PROVE Sessions'
      <3>1. lease[c] \in Session /\ pc[c] = "drop" /\ answer[lease[c]] = "ok"
        BY <2>19 DEF Dropped, Answered, Healthy, TypeOK
      <3>2. config[c] \in Name /\ backend[lease[c]] # "absent"
        BY <3>1 DEF Control, ControlOf, Sessions, SessionOf
      <3>3. Query(c, "verify", "inspect")
        BY <2>19 DEF Dropped, QueryOnly
      <3>. QED
        BY <2>19, <3>1, <3>2, <3>3, NoSessionIsNone, QueryKeepsSessions
           DEF Dropped, QueryOnly, QueryPc, KindAt
    <2>20. ASSUME Verified(c) PROVE Sessions'
      BY <2>20
         DEF TypeOK, PgTypeOK, Control, ControlOf, QueryPc, Sessions, SessionOf, AwaitOf,
             KindAt, Verified, EndOperation, Goto, Answered, Healthy
    <2>21. ASSUME Reacquire(c) PROVE Sessions'
      BY <2>21, NoSessionIsNone
         DEF TypeOK, PgTypeOK, Control, ControlOf, QueryPc, Sessions, SessionOf, AwaitOf,
             KindAt, Reacquire, Close, NoFault, Fault, EndOperation, Goto
    <2>22. ASSUME CloseLease(c) PROVE Sessions'
      BY <2>22, NoSessionIsNone
         DEF TypeOK, PgTypeOK, Control, ControlOf, QueryPc, Sessions, SessionOf, AwaitOf,
             KindAt, CloseLease, Close, Finish, NoFault, Fault, EndOperation, Goto
    <2>23. ASSUME QueryFails(c) PROVE Sessions'
      BY <2>23
         DEF TypeOK, PgTypeOK, Control, ControlOf, QueryPc, Sessions, SessionOf, AwaitOf,
             KindAt, QueryFails, SessionFailed, Throw, EndOperation, Goto, NoFault, Fault
    <2>24. ASSUME TargetReconnects(c) PROVE Sessions'
      BY <2>24
         DEF TypeOK, PgTypeOK, Control, ControlOf, QueryPc, Sessions, SessionOf, AwaitOf,
             TargetReconnects, Attach
    <2>. QED BY <1>2, <2>1, <2>2, <2>3, <2>4, <2>5, <2>6, <2>7, <2>8, <2>9, <2>10, <2>11, <2>12,
               <2>13, <2>14, <2>15, <2>16, <2>17, <2>18, <2>19, <2>20, <2>21, <2>22, <2>23, <2>24 DEF Operation
  <1>3. ASSUME NEW c \in Context, LeaseLost(c) PROVE Sessions'
    BY <1>3
       DEF TypeOK, PgTypeOK, Control, ControlOf, QueryPc, Sessions, SessionOf, AwaitOf, KindAt,
           LeaseLost, Healthy, NoFault, Fault
  <1>4. ASSUME NEW c \in Context, Crash(c) PROVE Sessions'
    BY <1>4
       DEF TypeOK, PgTypeOK, Control, ControlOf, QueryPc, Sessions, SessionOf, AwaitOf, KindAt,
           Crash, Fault, Goto
  <1>5. ASSUME NEW c \in Context, ServerNoticesTarget(c) PROVE Sessions'
    BY <1>5
       DEF TypeOK, PgTypeOK, Control, ControlOf, QueryPc, Sessions, SessionOf, AwaitOf,
           ServerNoticesTarget, Detach
  <1>6. ASSUME NEW s \in Session, ServerExecutes(s) PROVE Sessions'
    <2>1. ASSUME ExecConnect(s) PROVE Sessions'
      BY <2>1, <1>6
         DEF TypeOK, PgTypeOK, Control, ControlOf, QueryPc, Sessions, SessionOf, AwaitOf,
             ServerExecutes, ExecConnect, Running, Answer
    <2>2. ASSUME ExecIdentity(s) PROVE Sessions'
      BY <2>2, <1>6
         DEF TypeOK, PgTypeOK, Control, ControlOf, QueryPc, Sessions, SessionOf, AwaitOf,
             ServerExecutes, ExecIdentity, Running, Answer
    <2>3. ASSUME ExecLock(s) PROVE Sessions'
      <3>1. /\ stmt[s].kind = "lock" /\ stmt[s].name \in Name /\ backend[s] = "open"
            /\ UNCHANGED <<pc, config, lease, leaseLocked, sess, backend, stmt>>
            /\ \A t \in Session \ {s} : answer'[t] = answer[t]
        BY <1>6, <2>3 DEF ServerExecutes, ExecLock, Running, Answer, Sessions, SessionOf, TypeOK, PgTypeOK
      <3>2. /\ \A t \in Session, n \in Name : lock[n] = t => lock'[n] = t
            /\ answer'[s] = "ok" => lock'[stmt[s].name] = s
        BY <2>3, <3>1, NoSessionIsNone DEF ExecLock, Answer, TypeOK, PgTypeOK
      <3>3. ASSUME NEW t \in Session PROVE SessionOf(t)'
        <4>1. stmt[t].kind # "none" => stmt[t].name \in Name
          BY DEF Sessions, SessionOf
        <4>. QED BY <3>1, <3>2, <4>1 DEF Sessions, SessionOf
      <3>4. ASSUME NEW d \in Context PROVE AwaitOf(d)'
        <4>1. leaseLocked[d] => lease[d] \in Session /\ config[d] \in Name
          BY DEF Control, ControlOf, TypeOK
        <4>. QED BY <3>1, <3>2, <4>1 DEF Sessions, AwaitOf
      <3>. QED BY <3>3, <3>4 DEF Sessions
    <2>4. ASSUME ExecCreate(s) PROVE Sessions'
      BY <2>4, <1>6
         DEF TypeOK, PgTypeOK, Control, ControlOf, QueryPc, Sessions, SessionOf, AwaitOf,
             ServerExecutes, ExecCreate, Running, Answer
    <2>5. ASSUME ExecSelect(s) PROVE Sessions'
      BY <2>5, <1>6
         DEF TypeOK, PgTypeOK, Control, ControlOf, QueryPc, Sessions, SessionOf, AwaitOf,
             ServerExecutes, ExecSelect, Running, Answer
    <2>6. ASSUME ExecDrop(s) PROVE Sessions'
      BY <2>6, <1>6
         DEF TypeOK, PgTypeOK, Control, ControlOf, QueryPc, Sessions, SessionOf, AwaitOf,
             ServerExecutes, ExecDrop, Running, Answer
    <2>. QED BY <1>6, <2>1, <2>2, <2>3, <2>4, <2>5, <2>6 DEF ServerExecutes, Execute
  <1>7. ASSUME NEW s \in Session, ServerNotices(s) PROVE Sessions'
    BY <1>7, NoSessionIsNone
       DEF TypeOK, PgTypeOK, Control, ControlOf, QueryPc, Sessions, SessionOf, AwaitOf,
           ServerNotices, EndBackend
  <1>8. ASSUME NEW s \in Session, ServerDisconnects(s) PROVE Sessions'
    BY <1>8, NoSessionIsNone
       DEF TypeOK, PgTypeOK, Control, ControlOf, QueryPc, Sessions, SessionOf, AwaitOf,
           ServerDisconnects, EndBackend, Fault
  <1>9. ASSUME NEW s \in Session, Recycle(s) PROVE Sessions'
    BY <1>9, NoSessionIsNone
       DEF TypeOK, PgTypeOK, Control, ControlOf, QueryPc, Sessions, SessionOf, AwaitOf, Recycle,
           RecycleBackend, NoStmt
  <1>10. ASSUME OutsideActs PROVE Sessions'
    BY <1>10
       DEF TypeOK, PgTypeOK, Control, ControlOf, QueryPc, Sessions, SessionOf, AwaitOf,
           OutsideActs, OutsideDDL
  <1>11. CASE UNCHANGED vars
    BY <1>11 DEF TypeOK, PgTypeOK, Control, ControlOf, QueryPc, Sessions, SessionOf, AwaitOf
  <1>12. ASSUME NEW c \in Context, TargetBreaks(c) PROVE Sessions'
    BY <1>12
       DEF TypeOK, PgTypeOK, Control, ControlOf, QueryPc, Sessions, SessionOf, AwaitOf,
           TargetBreaks, Detach
  <1>. QED
    BY <1>1, <1>2, <1>3, <1>4, <1>5, <1>6, <1>7, <1>8, <1>9, <1>10, <1>11, <1>12, ContextSession
       DEF Next, ContextStep, SessionStep

-----------------------------------------------------------------------------
(* Catalog *)

\* A step that sends nothing and does not touch the server keeps what is known
\* about the catalog (the continuations of setup, clear and cleanup).
LEMMA QuietKeepsCatalog ==
  ASSUME Catalog, UNCHANGED <<serverVars, stmtVars>>,
         \A d \in Context : pc'[d] = "oid" => pc[d] = "oid" /\ lease'[d] = lease[d] /\ config'[d] = config[d],
         \A d \in Context : owned'[d].oid \in {owned[d].oid, NoOid}
  PROVE  Catalog'
  <1>1. ASSUME NEW t \in Session PROVE CatalogOf(t)'
    BY DEF Catalog, CatalogOf, OwnTarget
  <1>2. ASSUME NEW d \in Context PROVE KnowledgeOf(d)'
    BY DEF Catalog, KnowledgeOf, OwnTarget
  <1>. QED BY <1>1, <1>2 DEF Catalog

\* So does the dispatch of a statement, provided that a DROP, or the read of a new
\* database's OID, is sent for a target of the context (setup, cleanup).
LEMMA QueryKeepsCatalog ==
  ASSUME TypeOK, Control, Catalog, NEW c \in Context, lease[c] # NoSession,
         NEW p, NEW kind, Query(c, p, kind), UNCHANGED <<serverVars, config, lease>>,
         \A d \in Context : owned'[d].oid \in {owned[d].oid, NoOid},
         (p = "oid" \/ kind = "drop") /\ backend[lease[c]] = "open" => OwnTarget(config[c], c)
  PROVE  Catalog'
  <1>. DEFINE s == lease[c]
  <1>1. s \in Session /\ s[1] = c BY LeaseIsOwn
  <1>2. /\ stmt'[s].kind = kind /\ stmt'[s].name = config[c] /\ answer'[s] = "pending" /\ pc'[c] = p
        /\ \A t \in Session \ {s} : stmt'[t] = stmt[t] /\ answer'[t] = answer[t] /\ rows'[t] = rows[t]
        /\ \A d \in Context \ {c} : pc'[d] = pc[d]
    BY <1>1 DEF Query, Send, Goto, TypeOK, PgTypeOK
  <1>3. ASSUME NEW t \in Session PROVE CatalogOf(t)'
    <2>1. CASE t = s BY <1>1, <1>2, <2>1 DEF CatalogOf, OwnTarget
    <2>2. CASE t # s BY <1>2, <2>2 DEF CatalogOf, Catalog, OwnTarget
    <2>. QED BY <2>1, <2>2
  <1>4. ASSUME NEW d \in Context PROVE KnowledgeOf(d)'
    <2>1. CASE d = c BY <1>2, <2>1 DEF KnowledgeOf, Catalog, OwnTarget
    <2>2. CASE d # c
      <3>1. pc[d] = "oid" => lease[d] \in Session \ {s}
        BY <1>1, <2>2 DEF Control, ControlOf, QueryPc, TypeOK
      <3>. QED BY <1>2, <2>2, <3>1 DEF KnowledgeOf, Catalog, OwnTarget
    <2>. QED BY <2>1, <2>2
  <1>. QED BY <1>3, <1>4 DEF Catalog

\* The end of a backend releases locks and makes statements moot (EndBackend).
LEMMA EndKeepsCatalog ==
  ASSUME TypeOK, Sessions, Catalog, NEW s, EndBackend(s), UNCHANGED <<pc, stateVars, lease, owned>>
  PROVE  Catalog'
  <1>1. \A t \in Session : backend'[t] = "open" => backend[t] = "open"
    BY DEF EndBackend, TypeOK, PgTypeOK
  <1>2. \A t \in Session, n \in Name : lock'[n] = t => lock[n] = t
    BY NoSessionIsNone DEF EndBackend
  <1>3. ASSUME NEW t \in Session PROVE CatalogOf(t)'
    <2>1. stmt[t].kind # "none" => stmt[t].name \in Name
      BY DEF Sessions, SessionOf
    <2>. QED BY <1>1, <1>2, <2>1 DEF EndBackend, Catalog, CatalogOf, OwnTarget
  <1>4. ASSUME NEW d \in Context PROVE KnowledgeOf(d)'
    BY <1>1 DEF EndBackend, Catalog, KnowledgeOf, OwnTarget
  <1>. QED BY <1>3, <1>4 DEF Catalog

\* A server step that leaves the names locked by others alone keeps what the
\* other sessions and contexts know (CREATE, DROP and outsiders' DDL).
LEMMA OthersKeepCatalog ==
  ASSUME TypeOK, Control, Sessions, Catalog, NEW s,
         UNCHANGED <<lock, backend, stmt, rows, pc, config, lease, owned>>,
         \A t \in Session \ {s} : answer'[t] = answer[t],
         \A o \in Oid : creator[o] # Nobody => creator'[o] = creator[o],
         \A n \in Name : lock[n] \notin {s, NoSession} => catalog'[n] = catalog[n]
  PROVE  /\ \A t \in Session \ {s} : CatalogOf(t)'
         /\ \A d \in Context : lease[d] # s => KnowledgeOf(d)'
  <1>0. ASSUME NEW n \in Name, NEW t \in Session \ {s}, NEW a \in Actor, lock[n] = t, OwnTarget(n, a)
        PROVE  OwnTarget(n, a)'
    <2>1. catalog'[n] = catalog[n] BY <1>0, NoSessionIsNone
    <2>2. catalog[n] \in Oid /\ creator[catalog[n]] # Nobody
      BY <1>0, ActorAssumption DEF OwnTarget, TypeOK, PgTypeOK
    <2>. QED BY <1>0, <2>1, <2>2 DEF OwnTarget
  <1>1. ASSUME NEW t \in Session \ {s} PROVE CatalogOf(t)'
    <2>1. stmt[t].kind # "none" => stmt[t].name \in Name
      BY DEF Sessions, SessionOf
    <2>2. stmt[t].kind \in {"create", "drop"} /\ backend[t] = "open" => lock[stmt[t].name] = t
      BY DEF Sessions, SessionOf
    <2>3. t[1] \in Actor BY DEF Session
    <2>4. stmt[t].kind # "none" /\ lock[stmt[t].name] = t => catalog'[stmt[t].name] = catalog[stmt[t].name]
      BY <2>1, NoSessionIsNone
    <2>5. CASE stmt[t].kind \in {"create", "drop"}
      BY <1>0, <2>1, <2>2, <2>3, <2>5 DEF Catalog, CatalogOf
    <2>6. CASE stmt[t].kind \in {"oid", "inspect"}
      <3>1. ASSUME answer[t] = "ok", backend[t] = "open", lock[stmt[t].name] = t, NEW r \in rows[t]
            PROVE  catalog'[r[1]] = r[2] \/ r[1] # stmt[t].name
        BY <2>4, <2>6, <3>1 DEF Catalog, CatalogOf
      <3>. QED BY <2>6, <3>1 DEF CatalogOf
    <2>. QED BY <2>5, <2>6 DEF CatalogOf
  <1>2. ASSUME NEW d \in Context, lease[d] # s PROVE KnowledgeOf(d)'
    <2>0. d \in Actor /\ d # Nobody BY ContextAssumption, ActorAssumption
    <2>1. pc[d] = "oid" => /\ lease[d] \in Session \ {s} /\ config[d] \in Name
                           /\ backend[lease[d]] = "open" => lock[config[d]] = lease[d]
      BY <1>2 DEF Control, ControlOf, QueryPc, TypeOK, Sessions, AwaitOf
    <2>2. \A o \in Oid : creator[o] = d => creator'[o] = d
      BY <2>0
    <2>3. pc[d] = "oid" /\ answer[lease[d]] = "pending" /\ backend[lease[d]] = "open"
          => OwnTarget(config[d], d)'
      BY <1>0, <2>0, <2>1 DEF Catalog, KnowledgeOf
    <2>4. pc[d] = "oid" /\ answer[lease[d]] = "ok"
          => \A r \in rows[lease[d]] : r[1] = config[d] => creator'[r[2]] = d
      BY <2>1, <2>2 DEF Catalog, KnowledgeOf, TypeOK, PgTypeOK, Row
    <2>5. owned[d].oid # NoOid => creator'[owned[d].oid] = d
      BY <2>2 DEF Catalog, KnowledgeOf, TypeOK, Ownership
    <2>. QED BY <2>1, <2>3, <2>4, <2>5 DEF KnowledgeOf
  <1>. QED BY <1>1, <1>2

\* Under the lock, what a context knows of its target stays true (cleanup's
\* inspection before DROP, databaseOid after CREATE).
LEMMA CatalogStep ==
  ASSUME TypeOK, TypeOK', Control, Control', Sessions, Sessions', Catalog, [Next]_vars
  PROVE  Catalog'
  <1>1. ASSUME NEW c \in Context, Call(c) PROVE Catalog'
    <2>1. ASSUME NEW n \in Name, ForTest(c, n) PROVE Catalog'
      BY <2>1, QuietKeepsCatalog DEF ForTest, TypeOK
    <2>2. ASSUME Setup(c) PROVE Catalog'
      BY <2>2, QuietKeepsCatalog DEF Setup, Goto, TypeOK
    <2>3. ASSUME Clear(c) PROVE Catalog'
      <3>. QED
        BY <2>3, QueryKeepsCatalog DEF Clear, Healthy
    <2>4. ASSUME NEW kind \in {"close", "reset"}, Teardown(c, kind) PROVE Catalog'
      BY <2>4, QuietKeepsCatalog DEF Teardown, Goto, TypeOK
    <2>5. ASSUME NEW app \in Source \ {Main}, NestStart(c, app) PROVE Catalog'
      BY <2>5, QuietKeepsCatalog DEF NestStart
    <2>6. ASSUME NEW app \in Source \ {Main}, NestInitialized(c, app) PROVE Catalog'
      BY <2>6, QuietKeepsCatalog DEF NestInitialized
    <2>7. ASSUME NEW app \in Source \ {Main}, AppShutdown(c, app) PROVE Catalog'
      BY <2>7, QuietKeepsCatalog DEF AppShutdown
    <2>. QED BY <1>1, <2>1, <2>2, <2>3, <2>4, <2>5, <2>6, <2>7 DEF Call
  <1>2. ASSUME NEW c \in Context, Operation(c) PROVE Catalog'
    <2>1. ASSUME OpenSession(c) PROVE Catalog'
      <3>1. PICK k \in SessionId :
              /\ Send(<<c, k>>, "connect", config[c], NoOid)
              /\ lease' = [lease EXCEPT ![c] = <<c, k>>]
        BY <2>1 DEF OpenSession
      <3>2. UNCHANGED <<catalog, creator, lock, backend, config, owned>> /\ pc' = [pc EXCEPT ![c] = "connect"]
        BY <2>1 DEF OpenSession, Goto
      <3>3. <<c, k>> \in Session
        BY ContextAssumption DEF Session
      <3>4. ASSUME NEW t \in Session PROVE CatalogOf(t)'
        BY <3>1, <3>2, <3>3 DEF Catalog, CatalogOf, OwnTarget, Send, TypeOK, PgTypeOK
      <3>5. ASSUME NEW d \in Context PROVE KnowledgeOf(d)'
        <4>1. pc'[d] = "oid" => d # c /\ pc[d] = "oid" /\ lease'[d] = lease[d]
          BY <3>1, <3>2 DEF TypeOK
        <4>2. pc[d] = "oid" => lease[d][1] = d
          BY DEF Control, ControlOf, QueryPc
        <4>3. pc'[d] = "oid" => answer'[lease[d]] = answer[lease[d]] /\ rows'[lease[d]] = rows[lease[d]]
          BY <3>1, <3>3, <4>1, <4>2 DEF Send, TypeOK, PgTypeOK
        <4>. QED BY <3>2, <4>1, <4>3 DEF Catalog, KnowledgeOf, OwnTarget
      <3>. QED BY <3>4, <3>5 DEF Catalog
    <2>2. ASSUME CreateSessionFails(c) PROVE Catalog'
      BY <2>2, QuietKeepsCatalog
         DEF CreateSessionFails, ThrowOnly, Throw, EndOperation, Goto, TypeOK
    <2>3. ASSUME Connected(c) PROVE Catalog'
      <3>. QED
        BY <2>3, QueryKeepsCatalog DEF Connected, QueryOnly, Answered, Healthy
    <2>4. ASSUME IdentityRead(c) PROVE Catalog'
      <3>1. CASE QueryOnly(c, "lock", "lock")
        BY <2>4, <3>1, QueryKeepsCatalog DEF IdentityRead, QueryOnly, Answered, Healthy
      <3>2. CASE ThrowOnly(c)
        BY <3>2, QuietKeepsCatalog DEF ThrowOnly, Throw, EndOperation, Goto, TypeOK
      <3>. QED BY <2>4, <3>1, <3>2 DEF IdentityRead
    <2>5. ASSUME LockGranted(c) PROVE Catalog'
      <3>1. lease[c] # NoSession /\ UNCHANGED <<serverVars, config, lease, owned>>
        BY <2>5 DEF LockGranted, LockWon, Answered, Healthy
      <3>2. ASSUME NEW kind \in {"create", "inspect"}, Query(c, kind, kind) PROVE Catalog'
        BY <3>1, <3>2, QueryKeepsCatalog
      <3>3. CASE Throw(c) /\ UNCHANGED stmtVars
        BY <3>1, <3>3, QuietKeepsCatalog DEF Throw, EndOperation, Goto, TypeOK
      <3>. QED BY <2>5, <3>2, <3>3 DEF LockGranted, InspectOwned
    <2>6. ASSUME LockBusy(c) PROVE Catalog'
      BY <2>6, QuietKeepsCatalog DEF LockBusy, ThrowOnly, Throw, EndOperation, Goto, TypeOK
    <2>7. ASSUME Created(c) PROVE Catalog'
      <3>1. lease[c] \in Session /\ pc[c] = "create" /\ answer[lease[c]] = "ok"
        BY <2>7 DEF Created, Answered, Healthy, TypeOK
      <3>2. backend[lease[c]] = "open" => OwnTarget(config[c], c)
        BY <3>1, LeaseIsOwn, NoSessionIsNone DEF Catalog, CatalogOf, Sessions, AwaitOf, QueryPc, KindAt
      <3>3. Query(c, "oid", "oid") /\ \A d \in Context : owned'[d].oid \in {owned[d].oid, NoOid}
        BY <2>7 DEF Created, TypeOK
      <3>. QED BY <2>7, <3>1, <3>2, <3>3, NoSessionIsNone, QueryKeepsCatalog DEF Created
    <2>8. ASSUME OidRead(c) PROVE Catalog'
      BY <2>8
         DEF TypeOK, PgTypeOK, Control, ControlOf, QueryPc, Sessions, SessionOf, AwaitOf,
             KindAt, Catalog, CatalogOf, KnowledgeOf, OwnTarget, Row, Ownership, OidRead,
             OidsNamed, Rows, Throw, EndOperation, Goto, Answered, Healthy
    <2>9. ASSUME SourceInitialized(c) PROVE Catalog'
      BY <2>9, QuietKeepsCatalog DEF SourceInitialized, Goto, TypeOK
    <2>10. ASSUME SourceFails(c) PROVE Catalog'
      BY <2>10, QuietKeepsCatalog DEF SourceFails, ThrowOnly, Throw, EndOperation, Goto, TypeOK
    <2>11. ASSUME SchemaReady(c) PROVE Catalog'
      BY <2>11, QuietKeepsCatalog DEF SchemaReady, Throw, EndOperation, Goto, TypeOK
    <2>12. ASSUME OwnershipAsserted(c) PROVE Catalog'
      <3>1. CASE Goto(c, "clearName") /\ UNCHANGED <<busy, cleanupRequired>>
        BY <2>12, <3>1, QuietKeepsCatalog DEF OwnershipAsserted, Goto, TypeOK
      <3>2. CASE Throw(c)
        BY <2>12, <3>2, QuietKeepsCatalog DEF OwnershipAsserted, Throw, EndOperation, Goto, TypeOK
      <3>. QED BY <2>12, <3>1, <3>2 DEF OwnershipAsserted
    <2>13. ASSUME ClearAllowed(c) PROVE Catalog'
      BY <2>13, QuietKeepsCatalog DEF ClearAllowed, Throw, EndOperation, Goto, TypeOK
    <2>14. ASSUME Truncate(c) PROVE Catalog'
      BY <2>14, QuietKeepsCatalog DEF Truncate, EndOperation, Goto, TypeOK
    <2>15. ASSUME TargetQueryFails(c) PROVE Catalog'
      BY <2>15, QuietKeepsCatalog
         DEF TargetQueryFails, ThrowOnly, Throw, EndOperation, Goto, TypeOK
    <2>16. ASSUME SourcesFail(c) PROVE Catalog'
      BY <2>16, QuietKeepsCatalog DEF SourcesFail, EndOperation, Goto, TypeOK
    <2>17. ASSUME SourcesClosed(c) PROVE Catalog'
      <3>1. CASE Healthy(c) /\ Query(c, "inspect", "inspect")
        BY <2>17, <3>1, QueryKeepsCatalog DEF SourcesClosed, Healthy
      <3>2. CASE Throw(c) /\ UNCHANGED stmtVars
        BY <2>17, <3>2, QuietKeepsCatalog DEF SourcesClosed, Throw, EndOperation, Goto, TypeOK
      <3>3. CASE /\ Goto(c, IF ~Owns(c) THEN "closeLease"
                           ELSE IF lease[c] = NoSession THEN "acquire" ELSE "reacquire")
                 /\ UNCHANGED <<stmtVars, busy, cleanupRequired>>
        BY <2>17, <3>3, QuietKeepsCatalog DEF SourcesClosed, Goto, TypeOK
      <3>. QED BY <2>17, <3>1, <3>2, <3>3 DEF SourcesClosed, InspectOwned
    <2>18. ASSUME Inspected(c) PROVE Catalog'
      <3>1. lease[c] \in Session /\ pc[c] = "inspect" /\ answer[lease[c]] = "ok"
        BY <2>18 DEF Inspected, Answered, Healthy, TypeOK
      <3>2. ASSUME ShowsOwned(c), backend[lease[c]] = "open" PROVE OwnTarget(config[c], c)
        <4>1. /\ owned[c].name = config[c] /\ leaseLocked[c]
              /\ stmt[lease[c]].kind = "inspect" /\ stmt[lease[c]].name = config[c]
          BY <3>1 DEF Control, ControlOf, Sessions, AwaitOf, QueryPc, KindAt
        <4>2. /\ <<owned[c].name, owned[c].oid>> \in rows[lease[c]]
              /\ rows[lease[c]] \subseteq Row
          BY <3>1, <3>2 DEF ShowsOwned, Rows, TypeOK, PgTypeOK
        <4>5. owned[c].oid \in Oid
          BY <4>2 DEF Row
        <4>3. lock[config[c]] = lease[c]
          BY <3>2, <4>1 DEF Sessions, AwaitOf
        <4>4. catalog[config[c]] = owned[c].oid
          <5>1. \A r \in rows[lease[c]] : catalog[r[1]] = r[2] \/ r[1] # config[c]
            BY <3>1, <3>2, <4>1, <4>3 DEF Catalog, CatalogOf
          <5>. QED BY <4>1, <4>2, <5>1
        <4>. QED BY <4>4, <4>5, AbsentAssumption DEF OwnTarget, Catalog, KnowledgeOf
      <3>3. CASE ShowsOwned(c) /\ owned' = [owned EXCEPT ![c].dropAttempted = TRUE] /\ Query(c, "drop", "drop")
        <4>1. \A d \in Context : owned'[d].oid = owned[d].oid
          BY <3>3 DEF TypeOK, Ownership
        <4>. QED BY <2>18, <3>1, <3>2, <3>3, <4>1, NoSessionIsNone, QueryKeepsCatalog DEF Inspected
      <3>4. CASE owned' = [owned EXCEPT ![c] = NotOwned] /\ Goto(c, "closeLease") /\ UNCHANGED stmtVars
        BY <2>18, <3>4, QuietKeepsCatalog DEF Inspected, NotOwned, Goto, TypeOK
      <3>5. CASE EndOperation(c) /\ UNCHANGED <<stmtVars, owned>>
        BY <2>18, <3>5, QuietKeepsCatalog DEF Inspected, EndOperation, Goto, TypeOK
      <3>. QED BY <2>18, <3>3, <3>4, <3>5 DEF Inspected
    <2>19. ASSUME Dropped(c) PROVE Catalog'
      <3>. QED
        BY <2>19, QueryKeepsCatalog DEF Dropped, QueryOnly, Answered, Healthy
    <2>20. ASSUME Verified(c) PROVE Catalog'
      BY <2>20, QuietKeepsCatalog DEF Verified, EndOperation, Goto, NotOwned, TypeOK
    <2>21. ASSUME Reacquire(c) PROVE Catalog'
      BY <2>21, QuietKeepsCatalog DEF Reacquire, Close, EndOperation, Goto, TypeOK
    <2>22. ASSUME CloseLease(c) PROVE Catalog'
      BY <2>22, QuietKeepsCatalog DEF CloseLease, Close, Finish, EndOperation, Goto, TypeOK
    <2>23. ASSUME QueryFails(c) PROVE Catalog'
      BY <2>23, QuietKeepsCatalog DEF QueryFails, Throw, EndOperation, Goto, TypeOK
    <2>24. ASSUME TargetReconnects(c) PROVE Catalog'
      BY <2>24, QuietKeepsCatalog DEF TargetReconnects
    <2>. QED BY <1>2, <2>1, <2>2, <2>3, <2>4, <2>5, <2>6, <2>7, <2>8, <2>9, <2>10, <2>11, <2>12,
               <2>13, <2>14, <2>15, <2>16, <2>17, <2>18, <2>19, <2>20, <2>21, <2>22, <2>23, <2>24 DEF Operation
  <1>3. ASSUME NEW c \in Context, LeaseLost(c) PROVE Catalog'
    BY <1>3, QuietKeepsCatalog DEF LeaseLost
  <1>4. ASSUME NEW c \in Context, Crash(c) PROVE Catalog'
    BY <1>4, QuietKeepsCatalog DEF Crash, Goto, TypeOK
  <1>5. ASSUME NEW c \in Context, ServerNoticesTarget(c) PROVE Catalog'
    BY <1>5, QuietKeepsCatalog DEF ServerNoticesTarget
  <1>6. ASSUME NEW s \in Session, ServerExecutes(s) PROVE Catalog'
    <2>1. ASSUME ExecConnect(s) PROVE Catalog'
      BY <2>1, <1>6
         DEF TypeOK, PgTypeOK, Control, ControlOf, QueryPc, Sessions, SessionOf, AwaitOf,
             KindAt, Catalog, CatalogOf, KnowledgeOf, OwnTarget, ServerExecutes, ExecConnect,
             Running, Answer, OwnerOf, Row
    <2>2. ASSUME ExecIdentity(s) PROVE Catalog'
      <3>1. /\ \A t \in Session \ {s} : answer'[t] = answer[t]
            /\ stmt[s].kind = "identity" /\ answer[s] = "pending"
            /\ UNCHANGED <<catalog, creator, lock, backend, stmt, rows, pc, config, lease, owned>>
        BY <1>6, <2>2 DEF ServerExecutes, ExecIdentity, Running, Answer, TypeOK, PgTypeOK
      <3>2. ASSUME NEW t \in Session PROVE CatalogOf(t)'
        BY <3>1 DEF CatalogOf, Catalog, OwnTarget
      <3>3. ASSUME NEW d \in Context PROVE KnowledgeOf(d)'
        <4>1. pc[d] = "oid" => lease[d] \in Session \ {s}
          BY <3>1 DEF Control, ControlOf, QueryPc, TypeOK, Sessions, AwaitOf, KindAt
        <4>. QED BY <3>1, <4>1 DEF KnowledgeOf, Catalog, OwnTarget
      <3>. QED BY <3>2, <3>3 DEF Catalog
    <2>3. ASSUME ExecLock(s) PROVE Catalog'
      <3>1. /\ \A t \in Session \ {s} : answer'[t] = answer[t]
            /\ stmt[s].kind = "lock" /\ stmt[s].name \in Name
            /\ \A t \in Session \ {s}, n \in Name : lock'[n] = t => lock[n] = t
        BY <1>6, <2>3 DEF ServerExecutes, ExecLock, Running, Answer, Sessions, SessionOf, TypeOK, PgTypeOK
      <3>2. ASSUME NEW t \in Session PROVE CatalogOf(t)'
        <4>1. CASE t = s BY <1>6, <2>3, <3>1, <4>1 DEF CatalogOf, ServerExecutes, ExecLock
        <4>2. CASE t # s
          <5>1. stmt[t].kind # "none" => stmt[t].name \in Name
            BY DEF Sessions, SessionOf
          <5>. QED BY <1>6, <2>3, <3>1, <4>2, <5>1 DEF CatalogOf, Catalog, ServerExecutes, ExecLock, OwnTarget
        <4>. QED BY <4>1, <4>2
      <3>3. ASSUME NEW d \in Context PROVE KnowledgeOf(d)'
        <4>1. pc[d] = "oid" => lease[d] \in Session \ {s}
          BY <3>1 DEF Control, ControlOf, QueryPc, TypeOK, Sessions, AwaitOf, KindAt
        <4>. QED BY <1>6, <2>3, <3>1, <4>1 DEF KnowledgeOf, Catalog, ServerExecutes, ExecLock, OwnTarget
      <3>. QED BY <3>2, <3>3 DEF Catalog
    <2>4. ASSUME ExecCreate(s) PROVE Catalog'
      <3>1. /\ lock[stmt[s].name] = s /\ stmt[s].name \in Name
            /\ \A t \in Session \ {s} : answer'[t] = answer[t]
            /\ \A o \in Oid : creator[o] # Nobody => creator'[o] = creator[o]
        BY <1>6, <2>4 DEF ServerExecutes, ExecCreate, Running, Answer, Sessions, SessionOf, TypeOK, PgTypeOK
      <3>2. \A n \in Name : lock[n] # s => catalog'[n] = catalog[n]
        BY <1>6, <2>4, <3>1 DEF ServerExecutes, ExecCreate, TypeOK, PgTypeOK
      <3>3. (\A t \in Session \ {s} : CatalogOf(t)') /\ (\A d \in Context : lease[d] # s => KnowledgeOf(d)')
        BY <1>6, <2>4, <3>1, <3>2, OthersKeepCatalog DEF ServerExecutes, ExecCreate
      <3>4. CatalogOf(s)'
        <4>1. stmt'[s].kind = "create" /\ stmt'[s].name = stmt[s].name
          BY <1>6, <2>4 DEF ServerExecutes, ExecCreate, Running
        <4>2. CASE answer'[s] = "error"
          BY <4>1, <4>2 DEF CatalogOf
        <4>3. ASSUME NEW o \in Oid, catalog' = [catalog EXCEPT ![stmt[s].name] = o],
                     creator' = [creator EXCEPT ![o] = OwnerOf(s)]
              PROVE  CatalogOf(s)'
          BY <3>1, <4>1, <4>3, AbsentAssumption DEF OwnerOf, CatalogOf, OwnTarget, TypeOK, PgTypeOK
        <4>. QED BY <1>6, <2>4, <4>2, <4>3 DEF ServerExecutes, ExecCreate, Answer, TypeOK, PgTypeOK
      <3>5. ASSUME NEW d \in Context, lease[d] = s PROVE KnowledgeOf(d)'
        <4>1. pc[d] # "oid" BY <1>6, <2>4, <3>5 DEF ServerExecutes, ExecCreate, Running, Sessions, AwaitOf, KindAt, QueryPc
        <4>2. \A o \in Oid : creator[o] = d => creator'[o] = d
          BY <3>1, ContextAssumption, ActorAssumption
        <4>a. owned[d].oid \in Oid \cup {NoOid}
          BY DEF TypeOK, Ownership
        <4>3. owned[d].oid # NoOid => creator'[owned[d].oid] = d
          BY <4>2, <4>a DEF Catalog, KnowledgeOf
        <4>. QED BY <1>6, <2>4, <4>1, <4>3 DEF KnowledgeOf, ServerExecutes, ExecCreate
      <3>. QED BY <3>3, <3>4, <3>5 DEF Catalog
    <2>5. ASSUME ExecSelect(s) PROVE Catalog'
      <3>1. /\ \A t \in Session \ {s} : answer'[t] = answer[t] /\ rows'[t] = rows[t]
            /\ answer[s] = "pending" /\ backend[s] = "open" /\ stmt[s].kind \in {"oid", "inspect"}
            /\ answer'[s] = "ok"
            /\ \A r \in rows'[s] : r \in Row /\ catalog[r[1]] = r[2]
        BY <1>6, <2>5 DEF ServerExecutes, ExecSelect, Running, Answer, RowsOf, TypeOK, PgTypeOK
      <3>2. ASSUME NEW t \in Session PROVE CatalogOf(t)'
        <4>1. CASE t = s BY <1>6, <2>5, <3>1, <4>1 DEF CatalogOf, ServerExecutes, ExecSelect
        <4>2. CASE t # s BY <1>6, <2>5, <3>1, <4>2 DEF CatalogOf, Catalog, ServerExecutes, ExecSelect, OwnTarget
        <4>. QED BY <4>1, <4>2
      <3>3. ASSUME NEW d \in Context PROVE KnowledgeOf(d)'
        <4>1. CASE pc[d] = "oid" /\ lease[d] = s
          <5>1. OwnTarget(config[d], d) BY <3>1, <4>1 DEF Catalog, KnowledgeOf
          <5>. QED BY <1>6, <2>5, <3>1, <4>1, <5>1 DEF KnowledgeOf, Catalog, ServerExecutes, ExecSelect, OwnTarget
        <4>2. CASE pc[d] # "oid" \/ lease[d] # s
          <5>1. pc[d] = "oid" => lease[d] \in Session \ {s}
            BY <4>2 DEF Control, ControlOf, QueryPc, TypeOK
          <5>. QED BY <1>6, <2>5, <3>1, <4>2, <5>1 DEF KnowledgeOf, Catalog, ServerExecutes, ExecSelect, OwnTarget
        <4>. QED BY <4>1, <4>2
      <3>. QED BY <3>2, <3>3 DEF Catalog
    <2>6. ASSUME ExecDrop(s) PROVE Catalog'
      <3>1. /\ lock[stmt[s].name] = s /\ stmt[s].name \in Name
            /\ \A t \in Session \ {s} : answer'[t] = answer[t]
            /\ answer'[s] # "pending" /\ stmt[s].kind = "drop"
        BY <1>6, <2>6 DEF ServerExecutes, ExecDrop, Running, Answer, Sessions, SessionOf, TypeOK, PgTypeOK
      <3>2. \A n \in Name : lock[n] # s => catalog'[n] = catalog[n]
        BY <1>6, <2>6, <3>1 DEF ServerExecutes, ExecDrop, TypeOK, PgTypeOK
      <3>3. (\A t \in Session \ {s} : CatalogOf(t)') /\ (\A d \in Context : lease[d] # s => KnowledgeOf(d)')
        BY <1>6, <2>6, <3>1, <3>2, OthersKeepCatalog DEF ServerExecutes, ExecDrop
      <3>4. CatalogOf(s)'
        BY <1>6, <2>6, <3>1 DEF ServerExecutes, ExecDrop, CatalogOf
      <3>5. ASSUME NEW d \in Context, lease[d] = s PROVE KnowledgeOf(d)'
        <4>1. pc[d] # "oid" BY <3>1, <3>5 DEF Sessions, AwaitOf, KindAt, QueryPc
        <4>. QED BY <1>6, <2>6, <4>1 DEF KnowledgeOf, ServerExecutes, ExecDrop, Catalog
      <3>. QED BY <3>3, <3>4, <3>5 DEF Catalog
    <2>. QED BY <1>6, <2>1, <2>2, <2>3, <2>4, <2>5, <2>6 DEF ServerExecutes, Execute
  <1>7. ASSUME NEW s \in Session, ServerNotices(s) PROVE Catalog'
    BY <1>7, EndKeepsCatalog DEF ServerNotices
  <1>8. ASSUME NEW s \in Session, ServerDisconnects(s) PROVE Catalog'
    BY <1>8, EndKeepsCatalog DEF ServerDisconnects
  <1>9. ASSUME NEW s \in Session, Recycle(s) PROVE Catalog'
    BY <1>9
       DEF TypeOK, PgTypeOK, Control, ControlOf, QueryPc, Sessions, SessionOf, AwaitOf, KindAt,
           Catalog, CatalogOf, KnowledgeOf, OwnTarget, Recycle, RecycleBackend, NoStmt
  <1>10. ASSUME OutsideActs PROVE Catalog'
    <2>1. /\ \A o \in Oid : creator[o] # Nobody => creator'[o] = creator[o]
          /\ \A n \in Name : lock[n] # NoSession => catalog'[n] = catalog[n]
      BY <1>10 DEF OutsideActs, OutsideDDL, TypeOK, PgTypeOK
    <2>2. (\A t \in Session \ {NoSession} : CatalogOf(t)') /\ (\A d \in Context : lease[d] # NoSession => KnowledgeOf(d)')
      BY <1>10, <2>1, OthersKeepCatalog DEF OutsideActs, OutsideDDL
    <2>3. ASSUME NEW d \in Context, lease[d] = NoSession PROVE KnowledgeOf(d)'
      <3>1. pc[d] # "oid" BY <2>3 DEF Control, ControlOf, QueryPc
      <3>2. \A o \in Oid : creator[o] = d => creator'[o] = d
        BY <2>1, ContextAssumption, ActorAssumption
      <3>a. owned[d].oid \in Oid \cup {NoOid}
        BY DEF TypeOK, Ownership
      <3>3. owned[d].oid # NoOid => creator'[owned[d].oid] = d
        BY <3>2, <3>a DEF Catalog, KnowledgeOf
      <3>. QED BY <1>10, <3>1, <3>3 DEF KnowledgeOf, OutsideActs, OutsideDDL
    <2>. QED BY <2>2, <2>3, NoSessionIsNone DEF Catalog
  <1>11. CASE UNCHANGED vars
    BY <1>11, QuietKeepsCatalog
  <1>12. ASSUME NEW c \in Context, TargetBreaks(c) PROVE Catalog'
    BY <1>12, QuietKeepsCatalog DEF TargetBreaks
  <1>. QED
    BY <1>1, <1>2, <1>3, <1>4, <1>5, <1>6, <1>7, <1>8, <1>9, <1>10, <1>11, <1>12, ContextSession
       DEF Next, ContextStep, SessionStep

-----------------------------------------------------------------------------
(* Theorems *)

\* The initial state of the statics satisfies the invariant.
LEMMA InitInvariant == Init => IInv
  <1>. SUFFICES ASSUME Init PROVE IInv
    OBVIOUS
  <1>1. TypeOK
    BY DEF Init, PgInit, TypeOK, PgTypeOK, NoStmt, Statement, StmtKind, NotOwned, Ownership
  <1>2. Control
    BY DEF Init, Control, ControlOf, Owns, NotOwned, QueryPc
  <1>3. Sessions
    BY DEF Init, PgInit, NoStmt, Sessions, SessionOf, AwaitOf, QueryPc
  <1>4. Catalog
    BY DEF Init, PgInit, NoStmt, NotOwned, Catalog, CatalogOf, KnowledgeOf
  <1>. QED BY <1>1, <1>2, <1>3, <1>4 DEF IInv

\* Every step of every participant preserves it.
LEMMA StepInvariant == IInv /\ [Next]_vars => IInv'
  <1>. SUFFICES ASSUME IInv, [Next]_vars PROVE IInv'
    OBVIOUS
  <1>1. TypeOK' BY TypeStep DEF IInv
  <1>2. Control' BY <1>1, ControlStep DEF IInv
  <1>3. Sessions' BY <1>1, <1>2, SessionsStep DEF IInv
  <1>4. Catalog' BY <1>1, <1>2, <1>3, CatalogStep DEF IInv
  <1>. QED BY <1>1, <1>2, <1>3, <1>4 DEF IInv

\* The inductive invariant holds in every reachable state of the lifecycle.
THEOREM Invariance == Spec => []IInv
  <1>. QED BY InitInvariant, StepInvariant, PTL DEF Spec

\* The state of the library and of the server stays well formed: in particular a
\* lease is a session, and an owned OID was read from the catalog (databaseOid).
THEOREM TypeCorrect == Spec => []TypeOK
  <1>1. IInv => TypeOK BY DEF IInv
  <1>. QED BY <1>1, Invariance, PTL

\* CREATE and DROP are executed only on the session that holds the target's lock,
\* for every number of processes, retries and lost sessions (acquireLease).
THEOREM DdlIsLocked == Spec => []DdlUnderLock
  <1>1. IInv => DdlUnderLock
    BY DEF IInv, Sessions, SessionOf, DdlUnderLock, Running
  <1>. QED BY <1>1, Invariance, PTL

\* A DROP that can still be executed finds the database its own process created:
\* no replacement and no other process's database is dropped (cleanup).
THEOREM DropsAreOwn == Spec => []DropsOnlyItsOwn
  <1>1. IInv => DropsOnlyItsOwn
    BY DEF IInv, Catalog, CatalogOf, OwnTarget, DropsOnlyItsOwn, Running, OwnerOf
  <1>. QED BY <1>1, Invariance, PTL
=============================================================================
