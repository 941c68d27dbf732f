------------------------- MODULE TestDatabaseUseProofs -------------------------
(***************************************************************************)
(* Using and giving up a target, for every number of contexts, sessions,   *)
(* sources, names and OIDs: the invariant of TestDatabaseUse is inductive, *)
(* hence nothing escapes cleanup, a target offered for use is the one its  *)
(* context created, and ownership ends only when the database is gone.     *)
(*                                                                         *)
(* A context's step touches only what is that context's own (ContextFrame),*)
(* so each part of the invariant is shown for the context that moved, and  *)
(* for the server's steps separately.                                      *)
(***************************************************************************)
EXTENDS TestDatabaseProofs, TestDatabaseUse

USE DEF vars, pgVars, serverVars, stmtVars, stateVars, leaseVars, envVars

-----------------------------------------------------------------------------
(* Frames *)

\* Nothing of context d changed.
Unmoved(d) ==
  /\ pc'[d] = pc[d] /\ config'[d] = config[d] /\ cleanupRequired'[d] = cleanupRequired[d]
  /\ testDataSource'[d] = testDataSource[d] /\ sources'[d] = sources[d]
  /\ initializing'[d] = initializing[d] /\ lease'[d] = lease[d]
  /\ leaseLocked'[d] = leaseLocked[d] /\ owned'[d] = owned[d]
SessionUnmoved(s) ==
  sess'[s] = sess[s] /\ stmt'[s] = stmt[s] /\ answer'[s] = answer[s] /\ rows'[s] = rows[s]

\* The target connections of a context are connections of the server (DataSource).
LEMMA ContextClient ==
  ASSUME NEW c \in Context, NEW src \in Source
  PROVE  <<c, src>> \in Client
  BY ContextAssumption DEF Client

\* What one process does leaves the static state of every other alone
\* (the static members of SharedDatabaseModule).
LEMMA ContextFrame ==
  ASSUME TypeOK, Control, NEW c \in Context, ContextStep(c), NEW d \in Context \ {c}
  PROVE  Unmoved(d)
<1>1. CASE Call(c)
  <2>1. ASSUME NEW n \in Name, ForTest(c, n) PROVE Unmoved(d)
    BY <2>1
       DEF TypeOK, Unmoved, ForTest
  <2>2. ASSUME Setup(c) PROVE Unmoved(d)
    BY <2>2
       DEF TypeOK, Unmoved, Setup, Goto
  <2>3. ASSUME Clear(c) PROVE Unmoved(d)
    BY <2>3
       DEF TypeOK, Unmoved, Clear, Query, Send, Goto, Healthy
  <2>4. ASSUME NEW kind \in {"close", "reset"}, Teardown(c, kind) PROVE Unmoved(d)
    BY <2>4
       DEF TypeOK, Unmoved, Teardown, Goto
  <2>5. ASSUME NEW app \in Source \ {Main}, NestStart(c, app) PROVE Unmoved(d)
    BY <2>5
       DEF TypeOK, Unmoved, NestStart, Healthy
  <2>6. ASSUME NEW app \in Source \ {Main}, NestInitialized(c, app) PROVE Unmoved(d)
    BY <2>6
       DEF TypeOK, Unmoved, NestInitialized, Attach, Fault, NoFault
  <2>7. ASSUME NEW app \in Source \ {Main}, AppShutdown(c, app) PROVE Unmoved(d)
    BY <2>7
       DEF TypeOK, Unmoved, AppShutdown, Detach
  <2>. QED
    BY <1>1, <2>1, <2>2, <2>3, <2>4, <2>5, <2>6, <2>7 DEF Call
<1>2. CASE Operation(c)
  <2>1. ASSUME OpenSession(c) PROVE Unmoved(d)
    BY <2>1
       DEF TypeOK, Unmoved, OpenSession, Send, Goto
  <2>2. ASSUME CreateSessionFails(c) PROVE Unmoved(d)
    BY <2>2
       DEF TypeOK, Unmoved, CreateSessionFails, ThrowOnly, Throw, EndOperation, Goto, Fault, NoFault
  <2>3. ASSUME Connected(c) PROVE Unmoved(d)
    BY <2>3
       DEF TypeOK, Unmoved, Connected, QueryOnly, Query, Send, Goto, Answered, Healthy
  <2>4. ASSUME IdentityRead(c) PROVE Unmoved(d)
    BY <2>4
       DEF TypeOK, Unmoved, IdentityRead, ThrowOnly, Throw, EndOperation, QueryOnly, Query, Send,
           Goto, Answered, Healthy, Fault, NoFault
  <2>5. ASSUME LockGranted(c) PROVE Unmoved(d)
    BY <2>5
       DEF TypeOK, Unmoved, LockGranted, LockWon, InspectOwned, Throw, EndOperation, Query, Send,
           Goto, Answered, Healthy
  <2>6. ASSUME LockBusy(c) PROVE Unmoved(d)
    BY <2>6
       DEF TypeOK, Unmoved, LockBusy, ThrowOnly, Throw, EndOperation, Goto, Answered, Healthy
  <2>7. ASSUME Created(c) PROVE Unmoved(d)
    BY <2>7
       DEF TypeOK, Unmoved, Created, Query, Send, Goto, Answered, Healthy
  <2>8. ASSUME OidRead(c) PROVE Unmoved(d)
    BY <2>8
       DEF TypeOK, Unmoved, OidRead, OidsNamed, Rows, Throw, EndOperation, Goto, Answered, Healthy
  <2>9. ASSUME SourceInitialized(c) PROVE Unmoved(d)
    BY <2>9
       DEF TypeOK, Unmoved, SourceInitialized, Attach, Goto
  <2>10. ASSUME SourceFails(c) PROVE Unmoved(d)
    BY <2>10
       DEF TypeOK, Unmoved, SourceFails, ThrowOnly, Throw, EndOperation, Goto, Fault, NoFault
  <2>11. ASSUME SchemaReady(c) PROVE Unmoved(d)
    BY <2>11
       DEF TypeOK, Unmoved, SchemaReady, Healthy, Throw, EndOperation, Goto
  <2>12. ASSUME OwnershipAsserted(c) PROVE Unmoved(d)
    BY <2>12
       DEF TypeOK, Unmoved, OwnershipAsserted, Throw, EndOperation, Goto, Answered, Healthy
  <2>13. ASSUME ClearAllowed(c) PROVE Unmoved(d)
    BY <2>13
       DEF TypeOK, Unmoved, ClearAllowed, Healthy, Throw, EndOperation, Goto
  <2>14. ASSUME Truncate(c) PROVE Unmoved(d)
    BY <2>14
       DEF TypeOK, Unmoved, Truncate, EndOperation, Goto
  <2>15. ASSUME TargetQueryFails(c) PROVE Unmoved(d)
    BY <2>15
       DEF TypeOK, Unmoved, TargetQueryFails, ThrowOnly, Throw, EndOperation, Goto, Fault, NoFault
  <2>16. ASSUME TargetReconnects(c) PROVE Unmoved(d)
    BY <2>16
       DEF TypeOK, Unmoved, TargetReconnects, Attach
  <2>17. ASSUME SourcesFail(c) PROVE Unmoved(d)
    BY <2>17
       DEF TypeOK, Unmoved, SourcesFail, CloseAll, Detach, Fault, EndOperation, Goto
  <2>18. ASSUME SourcesClosed(c) PROVE Unmoved(d)
    BY <2>18
       DEF TypeOK, Unmoved, SourcesClosed, CloseAll, Detach, InspectOwned, Throw, EndOperation,
           Query, Send, Goto, Healthy
  <2>19. ASSUME Inspected(c) PROVE Unmoved(d)
    BY <2>19
       DEF TypeOK, Unmoved, Inspected, EndOperation, Query, Send, Goto, Answered, Healthy
  <2>20. ASSUME Dropped(c) PROVE Unmoved(d)
    BY <2>20
       DEF TypeOK, Unmoved, Dropped, QueryOnly, Query, Send, Goto, Answered, Healthy
  <2>21. ASSUME Verified(c) PROVE Unmoved(d)
    BY <2>21
       DEF TypeOK, Unmoved, Verified, EndOperation, Goto, Answered, Healthy
  <2>22. ASSUME Reacquire(c) PROVE Unmoved(d)
    BY <2>22
       DEF TypeOK, Unmoved, Reacquire, Close, Fault, NoFault, EndOperation, Goto
  <2>23. ASSUME CloseLease(c) PROVE Unmoved(d)
    BY <2>23
       DEF TypeOK, Unmoved, CloseLease, Close, Finish, Fault, NoFault, EndOperation, Goto
  <2>24. ASSUME QueryFails(c) PROVE Unmoved(d)
    BY <2>24
       DEF TypeOK, Unmoved, QueryFails, SessionFailed, Throw, EndOperation, Goto, Fault, NoFault
  <2>. QED
    BY <1>2, <2>1, <2>2, <2>3, <2>4, <2>5, <2>6, <2>7, <2>8, <2>9, <2>10, <2>11, <2>12, <2>13,
       <2>14, <2>15, <2>16, <2>17, <2>18, <2>19, <2>20, <2>21, <2>22, <2>23, <2>24 DEF Operation
<1>3. CASE LeaseLost(c)
  BY <1>3
     DEF TypeOK, Unmoved, LeaseLost, Healthy, Fault, NoFault
<1>4. CASE Crash(c)
  BY <1>4
     DEF TypeOK, Unmoved, Crash, Fault, Goto
<1>5. CASE TargetBreaks(c)
  BY <1>5
     DEF TypeOK, Unmoved, TargetBreaks, Detach, Fault
<1>6. CASE ServerNoticesTarget(c)
  BY <1>6
     DEF TypeOK, Unmoved, ServerNoticesTarget, Detach
<1>. QED BY <1>1, <1>2, <1>3, <1>4, <1>5, <1>6 DEF ContextStep

\* It sends statements on, and changes the client side of, its own sessions only.
LEMMA SessionFrame ==
  ASSUME TypeOK, Control, NEW c \in Context, ContextStep(c), NEW s \in Session, s[1] # c
  PROVE  SessionUnmoved(s)
  <1>. lease[c] # NoSession => lease[c][1] = c
    BY DEF Control, ControlOf
  <1>. \A k \in SessionId : <<c, k>> # s
    OBVIOUS
<1>1. CASE Call(c)
  <2>1. ASSUME NEW n \in Name, ForTest(c, n) PROVE SessionUnmoved(s)
    BY <2>1
       DEF TypeOK, PgTypeOK, Control, ControlOf, QueryPc, SessionUnmoved, ForTest
  <2>2. ASSUME Setup(c) PROVE SessionUnmoved(s)
    BY <2>2
       DEF TypeOK, PgTypeOK, Control, ControlOf, QueryPc, SessionUnmoved, Setup, Goto
  <2>3. ASSUME Clear(c) PROVE SessionUnmoved(s)
    BY <2>3
       DEF TypeOK, PgTypeOK, Control, ControlOf, QueryPc, SessionUnmoved, Clear, Query, Send, Goto,
           Healthy
  <2>4. ASSUME NEW kind \in {"close", "reset"}, Teardown(c, kind) PROVE SessionUnmoved(s)
    BY <2>4
       DEF TypeOK, PgTypeOK, Control, ControlOf, QueryPc, SessionUnmoved, Teardown, Goto
  <2>5. ASSUME NEW app \in Source \ {Main}, NestStart(c, app) PROVE SessionUnmoved(s)
    BY <2>5
       DEF TypeOK, PgTypeOK, Control, ControlOf, QueryPc, SessionUnmoved, NestStart, Healthy
  <2>6. ASSUME NEW app \in Source \ {Main}, NestInitialized(c, app) PROVE SessionUnmoved(s)
    BY <2>6
       DEF TypeOK, PgTypeOK, Control, ControlOf, QueryPc, SessionUnmoved, NestInitialized, Attach,
           Fault, NoFault
  <2>7. ASSUME NEW app \in Source \ {Main}, AppShutdown(c, app) PROVE SessionUnmoved(s)
    BY <2>7
       DEF TypeOK, PgTypeOK, Control, ControlOf, QueryPc, SessionUnmoved, AppShutdown, Detach
  <2>. QED
    BY <1>1, <2>1, <2>2, <2>3, <2>4, <2>5, <2>6, <2>7 DEF Call
<1>2. CASE Operation(c)
  <2>1. ASSUME OpenSession(c) PROVE SessionUnmoved(s)
    BY <2>1
       DEF TypeOK, PgTypeOK, Control, ControlOf, QueryPc, SessionUnmoved, OpenSession, Send, Goto
  <2>2. ASSUME CreateSessionFails(c) PROVE SessionUnmoved(s)
    BY <2>2
       DEF TypeOK, PgTypeOK, Control, ControlOf, QueryPc, SessionUnmoved, CreateSessionFails,
           ThrowOnly, Throw, EndOperation, Goto, Fault, NoFault
  <2>3. ASSUME Connected(c) PROVE SessionUnmoved(s)
    BY <2>3
       DEF TypeOK, PgTypeOK, Control, ControlOf, QueryPc, SessionUnmoved, Connected, QueryOnly,
           Query, Send, Goto, Answered, Healthy
  <2>4. ASSUME IdentityRead(c) PROVE SessionUnmoved(s)
    BY <2>4
       DEF TypeOK, PgTypeOK, Control, ControlOf, QueryPc, SessionUnmoved, IdentityRead, ThrowOnly,
           Throw, EndOperation, QueryOnly, Query, Send, Goto, Answered, Healthy, Fault, NoFault
  <2>5. ASSUME LockGranted(c) PROVE SessionUnmoved(s)
    BY <2>5
       DEF TypeOK, PgTypeOK, Control, ControlOf, QueryPc, SessionUnmoved, LockGranted, LockWon,
           InspectOwned, Throw, EndOperation, Query, Send, Goto, Answered, Healthy
  <2>6. ASSUME LockBusy(c) PROVE SessionUnmoved(s)
    BY <2>6
       DEF TypeOK, PgTypeOK, Control, ControlOf, QueryPc, SessionUnmoved, LockBusy, ThrowOnly,
           Throw, EndOperation, Goto, Answered, Healthy
  <2>7. ASSUME Created(c) PROVE SessionUnmoved(s)
    BY <2>7
       DEF TypeOK, PgTypeOK, Control, ControlOf, QueryPc, SessionUnmoved, Created, Query, Send,
           Goto, Answered, Healthy
  <2>8. ASSUME OidRead(c) PROVE SessionUnmoved(s)
    BY <2>8
       DEF TypeOK, PgTypeOK, Control, ControlOf, QueryPc, SessionUnmoved, OidRead, OidsNamed, Rows,
           Throw, EndOperation, Goto, Answered, Healthy
  <2>9. ASSUME SourceInitialized(c) PROVE SessionUnmoved(s)
    BY <2>9
       DEF TypeOK, PgTypeOK, Control, ControlOf, QueryPc, SessionUnmoved, SourceInitialized, Attach,
           Goto
  <2>10. ASSUME SourceFails(c) PROVE SessionUnmoved(s)
    BY <2>10
       DEF TypeOK, PgTypeOK, Control, ControlOf, QueryPc, SessionUnmoved, SourceFails, ThrowOnly,
           Throw, EndOperation, Goto, Fault, NoFault
  <2>11. ASSUME SchemaReady(c) PROVE SessionUnmoved(s)
    BY <2>11
       DEF TypeOK, PgTypeOK, Control, ControlOf, QueryPc, SessionUnmoved, SchemaReady, Healthy,
           Throw, EndOperation, Goto
  <2>12. ASSUME OwnershipAsserted(c) PROVE SessionUnmoved(s)
    BY <2>12
       DEF TypeOK, PgTypeOK, Control, ControlOf, QueryPc, SessionUnmoved, OwnershipAsserted, Throw,
           EndOperation, Goto, Answered, Healthy
  <2>13. ASSUME ClearAllowed(c) PROVE SessionUnmoved(s)
    BY <2>13
       DEF TypeOK, PgTypeOK, Control, ControlOf, QueryPc, SessionUnmoved, ClearAllowed, Healthy,
           Throw, EndOperation, Goto
  <2>14. ASSUME Truncate(c) PROVE SessionUnmoved(s)
    BY <2>14
       DEF TypeOK, PgTypeOK, Control, ControlOf, QueryPc, SessionUnmoved, Truncate, EndOperation,
           Goto
  <2>15. ASSUME TargetQueryFails(c) PROVE SessionUnmoved(s)
    BY <2>15
       DEF TypeOK, PgTypeOK, Control, ControlOf, QueryPc, SessionUnmoved, TargetQueryFails,
           ThrowOnly, Throw, EndOperation, Goto, Fault, NoFault
  <2>16. ASSUME TargetReconnects(c) PROVE SessionUnmoved(s)
    BY <2>16
       DEF TypeOK, PgTypeOK, Control, ControlOf, QueryPc, SessionUnmoved, TargetReconnects, Attach
  <2>17. ASSUME SourcesFail(c) PROVE SessionUnmoved(s)
    BY <2>17
       DEF TypeOK, PgTypeOK, Control, ControlOf, QueryPc, SessionUnmoved, SourcesFail, CloseAll,
           Detach, Fault, EndOperation, Goto
  <2>18. ASSUME SourcesClosed(c) PROVE SessionUnmoved(s)
    BY <2>18
       DEF TypeOK, PgTypeOK, Control, ControlOf, QueryPc, SessionUnmoved, SourcesClosed, CloseAll,
           Detach, InspectOwned, Throw, EndOperation, Query, Send, Goto, Healthy
  <2>19. ASSUME Inspected(c) PROVE SessionUnmoved(s)
    BY <2>19
       DEF TypeOK, PgTypeOK, Control, ControlOf, QueryPc, SessionUnmoved, Inspected, EndOperation,
           Query, Send, Goto, Answered, Healthy
  <2>20. ASSUME Dropped(c) PROVE SessionUnmoved(s)
    BY <2>20
       DEF TypeOK, PgTypeOK, Control, ControlOf, QueryPc, SessionUnmoved, Dropped, QueryOnly, Query,
           Send, Goto, Answered, Healthy
  <2>21. ASSUME Verified(c) PROVE SessionUnmoved(s)
    BY <2>21
       DEF TypeOK, PgTypeOK, Control, ControlOf, QueryPc, SessionUnmoved, Verified, EndOperation,
           Goto, Answered, Healthy
  <2>22. ASSUME Reacquire(c) PROVE SessionUnmoved(s)
    BY <2>22
       DEF TypeOK, PgTypeOK, Control, ControlOf, QueryPc, SessionUnmoved, Reacquire, Close, Fault,
           NoFault, EndOperation, Goto
  <2>23. ASSUME CloseLease(c) PROVE SessionUnmoved(s)
    BY <2>23
       DEF TypeOK, PgTypeOK, Control, ControlOf, QueryPc, SessionUnmoved, CloseLease, Close, Finish,
           Fault, NoFault, EndOperation, Goto
  <2>24. ASSUME QueryFails(c) PROVE SessionUnmoved(s)
    BY <2>24
       DEF TypeOK, PgTypeOK, Control, ControlOf, QueryPc, SessionUnmoved, QueryFails, SessionFailed,
           Throw, EndOperation, Goto, Fault, NoFault
  <2>. QED
    BY <1>2, <2>1, <2>2, <2>3, <2>4, <2>5, <2>6, <2>7, <2>8, <2>9, <2>10, <2>11, <2>12, <2>13,
       <2>14, <2>15, <2>16, <2>17, <2>18, <2>19, <2>20, <2>21, <2>22, <2>23, <2>24 DEF Operation
<1>3. CASE LeaseLost(c)
  BY <1>3
     DEF TypeOK, PgTypeOK, Control, ControlOf, QueryPc, SessionUnmoved, LeaseLost, Healthy, Fault,
         NoFault
<1>4. CASE Crash(c)
  BY <1>4
     DEF TypeOK, PgTypeOK, Control, ControlOf, QueryPc, SessionUnmoved, Crash, Fault, Goto
<1>5. CASE TargetBreaks(c)
  BY <1>5
     DEF TypeOK, PgTypeOK, Control, ControlOf, QueryPc, SessionUnmoved, TargetBreaks, Detach, Fault
<1>6. CASE ServerNoticesTarget(c)
  BY <1>6
     DEF TypeOK, PgTypeOK, Control, ControlOf, QueryPc, SessionUnmoved, ServerNoticesTarget, Detach
<1>. QED BY <1>1, <1>2, <1>3, <1>4, <1>5, <1>6 DEF ContextStep

\* It opens and closes its own target connections only.
LEMMA ConnFrame ==
  ASSUME TypeOK, NEW c \in Context, ContextStep(c), NEW d \in Context \ {c}, NEW src \in Source
  PROVE  conn'[<<d, src>>] = conn[<<d, src>>]
  <1>. <<d, src>> \in Client
    BY ContextClient
<1>1. CASE Call(c)
  <2>1. ASSUME NEW n \in Name, ForTest(c, n) PROVE conn'[<<d, src>>] = conn[<<d, src>>]
    BY <2>1
       DEF TypeOK, PgTypeOK, ForTest
  <2>2. ASSUME Setup(c) PROVE conn'[<<d, src>>] = conn[<<d, src>>]
    BY <2>2
       DEF TypeOK, PgTypeOK, Setup, Goto
  <2>3. ASSUME Clear(c) PROVE conn'[<<d, src>>] = conn[<<d, src>>]
    BY <2>3
       DEF TypeOK, PgTypeOK, Clear, Query, Send, Goto, Healthy
  <2>4. ASSUME NEW kind \in {"close", "reset"}, Teardown(c, kind) PROVE conn'[<<d, src>>] = conn[<<d, src>>]
    BY <2>4
       DEF TypeOK, PgTypeOK, Teardown, Goto
  <2>5. ASSUME NEW app \in Source \ {Main}, NestStart(c, app) PROVE conn'[<<d, src>>] = conn[<<d, src>>]
    BY <2>5
       DEF TypeOK, PgTypeOK, NestStart, Healthy
  <2>6. ASSUME NEW app \in Source \ {Main}, NestInitialized(c, app) PROVE conn'[<<d, src>>] = conn[<<d, src>>]
    BY <2>6
       DEF TypeOK, PgTypeOK, NestInitialized, Attach, Fault, NoFault
  <2>7. ASSUME NEW app \in Source \ {Main}, AppShutdown(c, app) PROVE conn'[<<d, src>>] = conn[<<d, src>>]
    BY <2>7
       DEF TypeOK, PgTypeOK, AppShutdown, Detach
  <2>. QED
    BY <1>1, <2>1, <2>2, <2>3, <2>4, <2>5, <2>6, <2>7 DEF Call
<1>2. CASE Operation(c)
  <2>1. ASSUME OpenSession(c) PROVE conn'[<<d, src>>] = conn[<<d, src>>]
    BY <2>1
       DEF TypeOK, PgTypeOK, OpenSession, Send, Goto
  <2>2. ASSUME CreateSessionFails(c) PROVE conn'[<<d, src>>] = conn[<<d, src>>]
    BY <2>2
       DEF TypeOK, PgTypeOK, CreateSessionFails, ThrowOnly, Throw, EndOperation, Goto, Fault,
           NoFault
  <2>3. ASSUME Connected(c) PROVE conn'[<<d, src>>] = conn[<<d, src>>]
    BY <2>3
       DEF TypeOK, PgTypeOK, Connected, QueryOnly, Query, Send, Goto, Answered, Healthy
  <2>4. ASSUME IdentityRead(c) PROVE conn'[<<d, src>>] = conn[<<d, src>>]
    BY <2>4
       DEF TypeOK, PgTypeOK, IdentityRead, ThrowOnly, Throw, EndOperation, QueryOnly, Query, Send,
           Goto, Answered, Healthy, Fault, NoFault
  <2>5. ASSUME LockGranted(c) PROVE conn'[<<d, src>>] = conn[<<d, src>>]
    BY <2>5
       DEF TypeOK, PgTypeOK, LockGranted, LockWon, InspectOwned, Throw, EndOperation, Query, Send,
           Goto, Answered, Healthy
  <2>6. ASSUME LockBusy(c) PROVE conn'[<<d, src>>] = conn[<<d, src>>]
    BY <2>6
       DEF TypeOK, PgTypeOK, LockBusy, ThrowOnly, Throw, EndOperation, Goto, Answered, Healthy
  <2>7. ASSUME Created(c) PROVE conn'[<<d, src>>] = conn[<<d, src>>]
    BY <2>7
       DEF TypeOK, PgTypeOK, Created, Query, Send, Goto, Answered, Healthy
  <2>8. ASSUME OidRead(c) PROVE conn'[<<d, src>>] = conn[<<d, src>>]
    BY <2>8
       DEF TypeOK, PgTypeOK, OidRead, OidsNamed, Rows, Throw, EndOperation, Goto, Answered, Healthy
  <2>9. ASSUME SourceInitialized(c) PROVE conn'[<<d, src>>] = conn[<<d, src>>]
    BY <2>9
       DEF TypeOK, PgTypeOK, SourceInitialized, Attach, Goto
  <2>10. ASSUME SourceFails(c) PROVE conn'[<<d, src>>] = conn[<<d, src>>]
    BY <2>10
       DEF TypeOK, PgTypeOK, SourceFails, ThrowOnly, Throw, EndOperation, Goto, Fault, NoFault
  <2>11. ASSUME SchemaReady(c) PROVE conn'[<<d, src>>] = conn[<<d, src>>]
    BY <2>11
       DEF TypeOK, PgTypeOK, SchemaReady, Healthy, Throw, EndOperation, Goto
  <2>12. ASSUME OwnershipAsserted(c) PROVE conn'[<<d, src>>] = conn[<<d, src>>]
    BY <2>12
       DEF TypeOK, PgTypeOK, OwnershipAsserted, Throw, EndOperation, Goto, Answered, Healthy
  <2>13. ASSUME ClearAllowed(c) PROVE conn'[<<d, src>>] = conn[<<d, src>>]
    BY <2>13
       DEF TypeOK, PgTypeOK, ClearAllowed, Healthy, Throw, EndOperation, Goto
  <2>14. ASSUME Truncate(c) PROVE conn'[<<d, src>>] = conn[<<d, src>>]
    BY <2>14
       DEF TypeOK, PgTypeOK, Truncate, EndOperation, Goto
  <2>15. ASSUME TargetQueryFails(c) PROVE conn'[<<d, src>>] = conn[<<d, src>>]
    BY <2>15
       DEF TypeOK, PgTypeOK, TargetQueryFails, ThrowOnly, Throw, EndOperation, Goto, Fault, NoFault
  <2>16. ASSUME TargetReconnects(c) PROVE conn'[<<d, src>>] = conn[<<d, src>>]
    BY <2>16
       DEF TypeOK, PgTypeOK, TargetReconnects, Attach
  <2>17. ASSUME SourcesFail(c) PROVE conn'[<<d, src>>] = conn[<<d, src>>]
    BY <2>17
       DEF TypeOK, PgTypeOK, SourcesFail, CloseAll, Detach, Fault, EndOperation, Goto
  <2>18. ASSUME SourcesClosed(c) PROVE conn'[<<d, src>>] = conn[<<d, src>>]
    BY <2>18
       DEF TypeOK, PgTypeOK, SourcesClosed, CloseAll, Detach, InspectOwned, Throw, EndOperation,
           Query, Send, Goto, Healthy
  <2>19. ASSUME Inspected(c) PROVE conn'[<<d, src>>] = conn[<<d, src>>]
    BY <2>19
       DEF TypeOK, PgTypeOK, Inspected, EndOperation, Query, Send, Goto, Answered, Healthy
  <2>20. ASSUME Dropped(c) PROVE conn'[<<d, src>>] = conn[<<d, src>>]
    BY <2>20
       DEF TypeOK, PgTypeOK, Dropped, QueryOnly, Query, Send, Goto, Answered, Healthy
  <2>21. ASSUME Verified(c) PROVE conn'[<<d, src>>] = conn[<<d, src>>]
    BY <2>21
       DEF TypeOK, PgTypeOK, Verified, EndOperation, Goto, Answered, Healthy
  <2>22. ASSUME Reacquire(c) PROVE conn'[<<d, src>>] = conn[<<d, src>>]
    BY <2>22
       DEF TypeOK, PgTypeOK, Reacquire, Close, Fault, NoFault, EndOperation, Goto
  <2>23. ASSUME CloseLease(c) PROVE conn'[<<d, src>>] = conn[<<d, src>>]
    BY <2>23
       DEF TypeOK, PgTypeOK, CloseLease, Close, Finish, Fault, NoFault, EndOperation, Goto
  <2>24. ASSUME QueryFails(c) PROVE conn'[<<d, src>>] = conn[<<d, src>>]
    BY <2>24
       DEF TypeOK, PgTypeOK, QueryFails, SessionFailed, Throw, EndOperation, Goto, Fault, NoFault
  <2>. QED
    BY <1>2, <2>1, <2>2, <2>3, <2>4, <2>5, <2>6, <2>7, <2>8, <2>9, <2>10, <2>11, <2>12, <2>13,
       <2>14, <2>15, <2>16, <2>17, <2>18, <2>19, <2>20, <2>21, <2>22, <2>23, <2>24 DEF Operation
<1>3. CASE LeaseLost(c)
  BY <1>3
     DEF TypeOK, PgTypeOK, LeaseLost, Healthy, Fault, NoFault
<1>4. CASE Crash(c)
  BY <1>4
     DEF TypeOK, PgTypeOK, Crash, Fault, Goto
<1>5. CASE TargetBreaks(c)
  BY <1>5
     DEF TypeOK, PgTypeOK, TargetBreaks, Detach, Fault
<1>6. CASE ServerNoticesTarget(c)
  BY <1>6
     DEF TypeOK, PgTypeOK, ServerNoticesTarget, Detach
<1>. QED BY <1>1, <1>2, <1>3, <1>4, <1>5, <1>6 DEF ContextStep

\* The library talks to the server through statements and never changes it directly.
LEMMA ServerFrame ==
  ASSUME NEW c \in Context, ContextStep(c)
  PROVE  UNCHANGED serverVars
<1>1. CASE Call(c)
  <2>1. ASSUME NEW n \in Name, ForTest(c, n) PROVE UNCHANGED serverVars
    BY <2>1
       DEF ForTest
  <2>2. ASSUME Setup(c) PROVE UNCHANGED serverVars
    BY <2>2
       DEF Setup, Goto
  <2>3. ASSUME Clear(c) PROVE UNCHANGED serverVars
    BY <2>3
       DEF Clear, Query, Send, Goto, Healthy
  <2>4. ASSUME NEW kind \in {"close", "reset"}, Teardown(c, kind) PROVE UNCHANGED serverVars
    BY <2>4
       DEF Teardown, Goto
  <2>5. ASSUME NEW app \in Source \ {Main}, NestStart(c, app) PROVE UNCHANGED serverVars
    BY <2>5
       DEF NestStart, Healthy
  <2>6. ASSUME NEW app \in Source \ {Main}, NestInitialized(c, app) PROVE UNCHANGED serverVars
    BY <2>6
       DEF NestInitialized, Attach, Fault, NoFault
  <2>7. ASSUME NEW app \in Source \ {Main}, AppShutdown(c, app) PROVE UNCHANGED serverVars
    BY <2>7
       DEF AppShutdown, Detach
  <2>. QED
    BY <1>1, <2>1, <2>2, <2>3, <2>4, <2>5, <2>6, <2>7 DEF Call
<1>2. CASE Operation(c)
  <2>1. ASSUME OpenSession(c) PROVE UNCHANGED serverVars
    BY <2>1
       DEF OpenSession, Send, Goto
  <2>2. ASSUME CreateSessionFails(c) PROVE UNCHANGED serverVars
    BY <2>2
       DEF CreateSessionFails, ThrowOnly, Throw, EndOperation, Goto, Fault, NoFault
  <2>3. ASSUME Connected(c) PROVE UNCHANGED serverVars
    BY <2>3
       DEF Connected, QueryOnly, Query, Send, Goto, Answered, Healthy
  <2>4. ASSUME IdentityRead(c) PROVE UNCHANGED serverVars
    BY <2>4
       DEF IdentityRead, ThrowOnly, Throw, EndOperation, QueryOnly, Query, Send, Goto, Answered,
           Healthy, Fault, NoFault
  <2>5. ASSUME LockGranted(c) PROVE UNCHANGED serverVars
    BY <2>5
       DEF LockGranted, LockWon, InspectOwned, Throw, EndOperation, Query, Send, Goto, Answered,
           Healthy
  <2>6. ASSUME LockBusy(c) PROVE UNCHANGED serverVars
    BY <2>6
       DEF LockBusy, ThrowOnly, Throw, EndOperation, Goto, Answered, Healthy
  <2>7. ASSUME Created(c) PROVE UNCHANGED serverVars
    BY <2>7
       DEF Created, Query, Send, Goto, Answered, Healthy
  <2>8. ASSUME OidRead(c) PROVE UNCHANGED serverVars
    BY <2>8
       DEF OidRead, OidsNamed, Rows, Throw, EndOperation, Goto, Answered, Healthy
  <2>9. ASSUME SourceInitialized(c) PROVE UNCHANGED serverVars
    BY <2>9
       DEF SourceInitialized, Attach, Goto
  <2>10. ASSUME SourceFails(c) PROVE UNCHANGED serverVars
    BY <2>10
       DEF SourceFails, ThrowOnly, Throw, EndOperation, Goto, Fault, NoFault
  <2>11. ASSUME SchemaReady(c) PROVE UNCHANGED serverVars
    BY <2>11
       DEF SchemaReady, Healthy, Throw, EndOperation, Goto
  <2>12. ASSUME OwnershipAsserted(c) PROVE UNCHANGED serverVars
    BY <2>12
       DEF OwnershipAsserted, Throw, EndOperation, Goto, Answered, Healthy
  <2>13. ASSUME ClearAllowed(c) PROVE UNCHANGED serverVars
    BY <2>13
       DEF ClearAllowed, Healthy, Throw, EndOperation, Goto
  <2>14. ASSUME Truncate(c) PROVE UNCHANGED serverVars
    BY <2>14
       DEF Truncate, EndOperation, Goto
  <2>15. ASSUME TargetQueryFails(c) PROVE UNCHANGED serverVars
    BY <2>15
       DEF TargetQueryFails, ThrowOnly, Throw, EndOperation, Goto, Fault, NoFault
  <2>16. ASSUME TargetReconnects(c) PROVE UNCHANGED serverVars
    BY <2>16
       DEF TargetReconnects, Attach
  <2>17. ASSUME SourcesFail(c) PROVE UNCHANGED serverVars
    BY <2>17
       DEF SourcesFail, CloseAll, Detach, Fault, EndOperation, Goto
  <2>18. ASSUME SourcesClosed(c) PROVE UNCHANGED serverVars
    BY <2>18
       DEF SourcesClosed, CloseAll, Detach, InspectOwned, Throw, EndOperation, Query, Send, Goto,
           Healthy
  <2>19. ASSUME Inspected(c) PROVE UNCHANGED serverVars
    BY <2>19
       DEF Inspected, EndOperation, Query, Send, Goto, Answered, Healthy
  <2>20. ASSUME Dropped(c) PROVE UNCHANGED serverVars
    BY <2>20
       DEF Dropped, QueryOnly, Query, Send, Goto, Answered, Healthy
  <2>21. ASSUME Verified(c) PROVE UNCHANGED serverVars
    BY <2>21
       DEF Verified, EndOperation, Goto, Answered, Healthy
  <2>22. ASSUME Reacquire(c) PROVE UNCHANGED serverVars
    BY <2>22
       DEF Reacquire, Close, Fault, NoFault, EndOperation, Goto
  <2>23. ASSUME CloseLease(c) PROVE UNCHANGED serverVars
    BY <2>23
       DEF CloseLease, Close, Finish, Fault, NoFault, EndOperation, Goto
  <2>24. ASSUME QueryFails(c) PROVE UNCHANGED serverVars
    BY <2>24
       DEF QueryFails, SessionFailed, Throw, EndOperation, Goto, Fault, NoFault
  <2>. QED
    BY <1>2, <2>1, <2>2, <2>3, <2>4, <2>5, <2>6, <2>7, <2>8, <2>9, <2>10, <2>11, <2>12, <2>13,
       <2>14, <2>15, <2>16, <2>17, <2>18, <2>19, <2>20, <2>21, <2>22, <2>23, <2>24 DEF Operation
<1>3. CASE LeaseLost(c)
  BY <1>3
     DEF LeaseLost, Healthy, Fault, NoFault
<1>4. CASE Crash(c)
  BY <1>4
     DEF Crash, Fault, Goto
<1>5. CASE TargetBreaks(c)
  BY <1>5
     DEF TargetBreaks, Detach, Fault
<1>6. CASE ServerNoticesTarget(c)
  BY <1>6
     DEF ServerNoticesTarget, Detach
<1>. QED BY <1>1, <1>2, <1>3, <1>4, <1>5, <1>6 DEF ContextStep

-----------------------------------------------------------------------------
(* Tracking *)

\* A context's own step keeps track of its connections and sessions (trackSource,
\* closeSources, acquireLease, closeLease).
LEMMA TrackingOwnStep ==
  ASSUME TypeOK, Control, Control', Tracking, NEW c \in Context, ContextStep(c)
  PROVE  TrackingOf(c)'
  <1>. TrackingOf(c) /\ ControlOf(c) /\ ControlOf(c)'
    BY DEF Tracking, Control
  <1>. \A k \in SessionId : <<c, k>> \in Session
    BY ContextSession
  <1>. \A src \in Source : <<c, src>> \in Client
    BY ContextClient
  <1>. Main \in Source
    BY ContextAssumption
<1>1. CASE Call(c)
  <2>1. ASSUME NEW n \in Name, ForTest(c, n) PROVE TrackingOf(c)'
    BY <2>1
       DEF TypeOK, PgTypeOK, TrackingOf, ControlOf, InUse, SetupPc, ClearPc, ReleasePc, QueryPc,
           ForTest
  <2>2. ASSUME Setup(c) PROVE TrackingOf(c)'
    BY <2>2
       DEF TypeOK, PgTypeOK, TrackingOf, ControlOf, InUse, SetupPc, ClearPc, ReleasePc, QueryPc,
           Setup, Goto
  <2>3. ASSUME Clear(c) PROVE TrackingOf(c)'
    BY <2>3
       DEF TypeOK, PgTypeOK, TrackingOf, ControlOf, InUse, SetupPc, ClearPc, ReleasePc, QueryPc,
           Clear, Query, Send, Goto, Healthy
  <2>4. ASSUME NEW kind \in {"close", "reset"}, Teardown(c, kind) PROVE TrackingOf(c)'
    BY <2>4
       DEF TypeOK, PgTypeOK, TrackingOf, ControlOf, InUse, SetupPc, ClearPc, ReleasePc, QueryPc,
           Teardown, Goto
  <2>5. ASSUME NEW app \in Source \ {Main}, NestStart(c, app) PROVE TrackingOf(c)'
    BY <2>5
       DEF TypeOK, PgTypeOK, TrackingOf, ControlOf, InUse, SetupPc, ClearPc, ReleasePc, QueryPc,
           NestStart, Healthy
  <2>6. ASSUME NEW app \in Source \ {Main}, NestInitialized(c, app) PROVE TrackingOf(c)'
    BY <2>6
       DEF TypeOK, PgTypeOK, TrackingOf, ControlOf, InUse, SetupPc, ClearPc, ReleasePc, QueryPc,
           NestInitialized, Attach, Fault, NoFault
  <2>7. ASSUME NEW app \in Source \ {Main}, AppShutdown(c, app) PROVE TrackingOf(c)'
    BY <2>7
       DEF TypeOK, PgTypeOK, TrackingOf, ControlOf, InUse, SetupPc, ClearPc, ReleasePc, QueryPc,
           AppShutdown, Detach
  <2>. QED
    BY <1>1, <2>1, <2>2, <2>3, <2>4, <2>5, <2>6, <2>7 DEF Call
<1>2. CASE Operation(c)
  <2>1. ASSUME OpenSession(c) PROVE TrackingOf(c)'
    <3>1. PICK k \in SessionId : /\ sess' = [sess EXCEPT ![<<c, k>>] = "open"]
                                 /\ lease' = [lease EXCEPT ![c] = <<c, k>>]
      BY <2>1 DEF OpenSession
    <3>2. lease[c] = NoSession /\ lease'[c] = <<c, k>>
      BY <2>1, <3>1 DEF OpenSession, ControlOf, TypeOK
    <3>3. \A j \in SessionId : <<c, j>> # lease'[c] => sess'[<<c, j>>] \in {"unused", "disposed"}
      <4>1. \A j \in SessionId : sess[<<c, j>>] \in {"unused", "disposed"}
        BY <3>2, NoSessionIsNone DEF TrackingOf
      <4>. QED BY <3>1, <3>2, <4>1 DEF TypeOK
    <3>. QED
      BY <2>1, <3>3
         DEF OpenSession, Goto, TypeOK, TrackingOf, InUse, ClearPc, ReleasePc
  <2>2. ASSUME CreateSessionFails(c) PROVE TrackingOf(c)'
    BY <2>2
       DEF TypeOK, PgTypeOK, TrackingOf, ControlOf, InUse, SetupPc, ClearPc, ReleasePc, QueryPc,
           CreateSessionFails, ThrowOnly, Throw, EndOperation, Goto, Fault, NoFault
  <2>3. ASSUME Connected(c) PROVE TrackingOf(c)'
    BY <2>3
       DEF TypeOK, PgTypeOK, TrackingOf, ControlOf, InUse, SetupPc, ClearPc, ReleasePc, QueryPc,
           Connected, QueryOnly, Query, Send, Goto, Answered, Healthy
  <2>4. ASSUME IdentityRead(c) PROVE TrackingOf(c)'
    BY <2>4
       DEF TypeOK, PgTypeOK, TrackingOf, ControlOf, InUse, SetupPc, ClearPc, ReleasePc, QueryPc,
           IdentityRead, ThrowOnly, Throw, EndOperation, QueryOnly, Query, Send, Goto, Answered,
           Healthy, Fault, NoFault
  <2>5. ASSUME LockGranted(c) PROVE TrackingOf(c)'
    BY <2>5
       DEF TypeOK, PgTypeOK, TrackingOf, ControlOf, InUse, SetupPc, ClearPc, ReleasePc, QueryPc,
           LockGranted, LockWon, InspectOwned, Throw, EndOperation, Query, Send, Goto, Answered, Healthy
  <2>6. ASSUME LockBusy(c) PROVE TrackingOf(c)'
    BY <2>6
       DEF TypeOK, PgTypeOK, TrackingOf, ControlOf, InUse, SetupPc, ClearPc, ReleasePc, QueryPc,
           LockBusy, ThrowOnly, Throw, EndOperation, Goto, Answered, Healthy
  <2>7. ASSUME Created(c) PROVE TrackingOf(c)'
    BY <2>7
       DEF TypeOK, PgTypeOK, TrackingOf, ControlOf, InUse, SetupPc, ClearPc, ReleasePc, QueryPc,
           Created, Query, Send, Goto, Answered, Healthy
  <2>8. ASSUME OidRead(c) PROVE TrackingOf(c)'
    BY <2>8
       DEF TypeOK, PgTypeOK, TrackingOf, ControlOf, InUse, SetupPc, ClearPc, ReleasePc, QueryPc,
           OidRead, OidsNamed, Rows, Throw, EndOperation, Goto, Answered, Healthy
  <2>9. ASSUME SourceInitialized(c) PROVE TrackingOf(c)'
    BY <2>9
       DEF TypeOK, PgTypeOK, TrackingOf, ControlOf, InUse, SetupPc, ClearPc, ReleasePc, QueryPc,
           SourceInitialized, Attach, Goto
  <2>10. ASSUME SourceFails(c) PROVE TrackingOf(c)'
    BY <2>10
       DEF TypeOK, PgTypeOK, TrackingOf, ControlOf, InUse, SetupPc, ClearPc, ReleasePc, QueryPc,
           SourceFails, ThrowOnly, Throw, EndOperation, Goto, Fault, NoFault
  <2>11. ASSUME SchemaReady(c) PROVE TrackingOf(c)'
    BY <2>11
       DEF TypeOK, PgTypeOK, TrackingOf, ControlOf, InUse, SetupPc, ClearPc, ReleasePc, QueryPc,
           SchemaReady, Healthy, Throw, EndOperation, Goto
  <2>12. ASSUME OwnershipAsserted(c) PROVE TrackingOf(c)'
    BY <2>12
       DEF TypeOK, PgTypeOK, TrackingOf, ControlOf, InUse, SetupPc, ClearPc, ReleasePc, QueryPc,
           OwnershipAsserted, Throw, EndOperation, Goto, Answered, Healthy
  <2>13. ASSUME ClearAllowed(c) PROVE TrackingOf(c)'
    BY <2>13
       DEF TypeOK, PgTypeOK, TrackingOf, ControlOf, InUse, SetupPc, ClearPc, ReleasePc, QueryPc,
           ClearAllowed, Healthy, Throw, EndOperation, Goto
  <2>14. ASSUME Truncate(c) PROVE TrackingOf(c)'
    BY <2>14
       DEF TypeOK, PgTypeOK, TrackingOf, ControlOf, InUse, SetupPc, ClearPc, ReleasePc, QueryPc,
           Truncate, EndOperation, Goto
  <2>15. ASSUME TargetQueryFails(c) PROVE TrackingOf(c)'
    BY <2>15
       DEF TypeOK, PgTypeOK, TrackingOf, ControlOf, InUse, SetupPc, ClearPc, ReleasePc, QueryPc,
           TargetQueryFails, ThrowOnly, Throw, EndOperation, Goto, Fault, NoFault
  <2>16. ASSUME TargetReconnects(c) PROVE TrackingOf(c)'
    BY <2>16
       DEF TypeOK, PgTypeOK, TrackingOf, ControlOf, InUse, SetupPc, ClearPc, ReleasePc, QueryPc,
           TargetReconnects, Attach
  <2>17. ASSUME SourcesFail(c) PROVE TrackingOf(c)'
    BY <2>17
       DEF TypeOK, PgTypeOK, TrackingOf, ControlOf, InUse, SetupPc, ClearPc, ReleasePc, QueryPc,
           SourcesFail, CloseAll, Detach, Fault, EndOperation, Goto
  <2>18. ASSUME SourcesClosed(c) PROVE TrackingOf(c)'
    BY <2>18
       DEF TypeOK, PgTypeOK, TrackingOf, ControlOf, InUse, SetupPc, ClearPc, ReleasePc, QueryPc,
           SourcesClosed, CloseAll, Detach, InspectOwned, Throw, EndOperation, Query, Send, Goto,
           Healthy
  <2>19. ASSUME Inspected(c) PROVE TrackingOf(c)'
    BY <2>19
       DEF TypeOK, PgTypeOK, TrackingOf, ControlOf, InUse, SetupPc, ClearPc, ReleasePc, QueryPc,
           Inspected, EndOperation, Query, Send, Goto, Answered, Healthy
  <2>20. ASSUME Dropped(c) PROVE TrackingOf(c)'
    BY <2>20
       DEF TypeOK, PgTypeOK, TrackingOf, ControlOf, InUse, SetupPc, ClearPc, ReleasePc, QueryPc,
           Dropped, QueryOnly, Query, Send, Goto, Answered, Healthy
  <2>21. ASSUME Verified(c) PROVE TrackingOf(c)'
    BY <2>21
       DEF TypeOK, PgTypeOK, TrackingOf, ControlOf, InUse, SetupPc, ClearPc, ReleasePc, QueryPc,
           Verified, EndOperation, Goto, Answered, Healthy
  <2>22. ASSUME Reacquire(c) PROVE TrackingOf(c)'
    BY <2>22
       DEF TypeOK, PgTypeOK, TrackingOf, ControlOf, InUse, SetupPc, ClearPc, ReleasePc, QueryPc,
           Reacquire, Close, Fault, NoFault, EndOperation, Goto
  <2>23. ASSUME CloseLease(c) PROVE TrackingOf(c)'
    <3>1. /\ pc[c] = "closeLease" /\ pc' = [pc EXCEPT ![c] = "idle"]
          /\ UNCHANGED <<conn, sources, initializing>>
      BY <2>23 DEF CloseLease, Finish, EndOperation, Goto
    <3>2. cleanupRequired[c] /\ sources[c] = {} /\ initializing[c] = {}
      BY <3>1 DEF ControlOf, TrackingOf, ReleasePc
    <3>3. testDataSource'[c] => cleanupRequired'[c]
      BY <2>23, <3>2 DEF CloseLease, Finish, TypeOK
    <3>4. \A k \in SessionId : <<c, k>> # lease'[c] => sess'[<<c, k>>] \in {"unused", "disposed"}
      BY <2>23, NoSessionIsNone DEF CloseLease, Close, TypeOK, TrackingOf
    <3>. QED
      BY <3>1, <3>2, <3>3, <3>4 DEF TypeOK, TrackingOf, InUse, ClearPc, ReleasePc
  <2>24. ASSUME QueryFails(c) PROVE TrackingOf(c)'
    BY <2>24
       DEF TypeOK, PgTypeOK, TrackingOf, ControlOf, InUse, SetupPc, ClearPc, ReleasePc, QueryPc,
           QueryFails, SessionFailed, Throw, EndOperation, Goto, Fault, NoFault
  <2>. QED
    BY <1>2, <2>1, <2>2, <2>3, <2>4, <2>5, <2>6, <2>7, <2>8, <2>9, <2>10, <2>11, <2>12, <2>13,
       <2>14, <2>15, <2>16, <2>17, <2>18, <2>19, <2>20, <2>21, <2>22, <2>23, <2>24 DEF Operation
<1>3. CASE LeaseLost(c)
  BY <1>3
     DEF TypeOK, PgTypeOK, TrackingOf, ControlOf, InUse, SetupPc, ClearPc, ReleasePc, QueryPc,
         LeaseLost, Healthy, Fault, NoFault
<1>4. CASE Crash(c)
  BY <1>4
     DEF TypeOK, PgTypeOK, TrackingOf, ControlOf, InUse, SetupPc, ClearPc, ReleasePc, QueryPc,
         Crash, Fault, Goto
<1>5. CASE TargetBreaks(c)
  BY <1>5
     DEF TypeOK, PgTypeOK, TrackingOf, ControlOf, InUse, SetupPc, ClearPc, ReleasePc, QueryPc,
         TargetBreaks, Detach, Fault
<1>6. CASE ServerNoticesTarget(c)
  BY <1>6
     DEF TypeOK, PgTypeOK, TrackingOf, ControlOf, InUse, SetupPc, ClearPc, ReleasePc, QueryPc,
         ServerNoticesTarget, Detach
<1>. QED BY <1>1, <1>2, <1>3, <1>4, <1>5, <1>6 DEF ContextStep

\* No step of any process, of the server or of an outsider loses track of a
\* connection or a session.
LEMMA TrackingStep ==
  ASSUME TypeOK, Control, Control', Tracking, [Next]_vars
  PROVE  Tracking'
  <1>1. ASSUME NEW c \in Context, ContextStep(c) PROVE Tracking'
    <2>1. ASSUME NEW d \in Context \ {c} PROVE TrackingOf(d)'
      <3>1. TrackingOf(d) /\ Unmoved(d)
        BY <1>1, ContextFrame DEF Tracking
      <3>2. \A k \in SessionId : sess'[<<d, k>>] = sess[<<d, k>>]
        BY <1>1, SessionFrame, ContextSession DEF SessionUnmoved
      <3>3. \A src \in Source : conn'[<<d, src>>] = conn[<<d, src>>]
        BY <1>1, ConnFrame
      <3>. QED BY <3>1, <3>2, <3>3 DEF Unmoved, TrackingOf, InUse
    <2>. QED BY <1>1, <2>1, TrackingOwnStep DEF Tracking
  <1>2. ASSUME NEW s \in Session, ServerExecutes(s) \/ ServerNotices(s) \/ ServerDisconnects(s)
        PROVE  Tracking'
    BY <1>2 DEF ServerExecutes, Execute, ExecConnect, ExecIdentity, ExecLock, ExecCreate, ExecSelect,
                ExecDrop, ServerNotices, ServerDisconnects, EndBackend, Tracking, TrackingOf, InUse
  <1>3. ASSUME NEW s \in Session, Recycle(s) PROVE Tracking'
    BY <1>3 DEF Recycle, RecycleBackend, TypeOK, Tracking, TrackingOf, InUse
  <1>4. CASE OutsideActs
    BY <1>4 DEF OutsideActs, OutsideDDL, Tracking, TrackingOf, InUse
  <1>5. CASE UNCHANGED vars
    BY <1>5 DEF Tracking, TrackingOf, InUse
  <1>. QED BY <1>1, <1>2, <1>3, <1>4, <1>5, ContextSession DEF Next, SessionStep


-----------------------------------------------------------------------------
(* Custody *)

\* Dispatching a statement on the lease of a context (adminQuery).
LEMMA QuerySent ==
  ASSUME TypeOK, Control, NEW c \in Context, lease[c] # NoSession, NEW p, NEW kind, Query(c, p, kind)
  PROVE  /\ pc' = [pc EXCEPT ![c] = p]
         /\ stmt'[lease[c]].kind = kind
         /\ stmt'[lease[c]].oid = IF kind = "inspect" THEN owned[c].oid ELSE NoOid
         /\ answer'[lease[c]] = "pending"
  BY LeaseIsOwn DEF Query, Send, Goto, TypeOK, PgTypeOK

\* An exception gives up nothing: it only leads into cleanup or to the caller.
LEMMA ThrowKeepsCustody ==
  ASSUME TypeOK, NEW c \in Context, CustodyOf(c), Throw(c),
         UNCHANGED <<serverVars, stmtVars, config, lease, leaseLocked, owned, testDataSource>>
  PROVE  CustodyOf(c)'
  <1>1. /\ pc'[c] \in {"idle", "closeSources"}
        /\ cleanupRequired[c] => cleanupRequired'[c]
    BY DEF Throw, EndOperation, Goto, TypeOK
  <1>. QED BY <1>1 DEF CustodyOf, Owns, InUse, ClearPc, SetupPc

\* A context's own step keeps what it owns and what it knows of it (setup, cleanup).
LEMMA CustodyOwnStep ==
  ASSUME IInv, Tracking, Custody, NEW c \in Context, ContextStep(c)
  PROVE  CustodyOf(c)'
  <1>. TrackingOf(c) /\ ControlOf(c) /\ CustodyOf(c) /\ AwaitOf(c) /\ TypeOK /\ Control
    BY DEF Tracking, Control, Custody, IInv, Sessions
  <1>. UNCHANGED serverVars
    BY ServerFrame
  <1>. lease[c] # NoSession => lease[c] \in Session
    BY DEF TypeOK
<1>1. CASE Call(c)
  <2>1. ASSUME NEW n \in Name, ForTest(c, n) PROVE CustodyOf(c)'
    BY <2>1, QuerySent, NoSessionIsNone
       DEF TypeOK, PgTypeOK, TrackingOf, CustodyOf, ControlOf, Owns, NotOwned, InUse, SetupPc,
           ClearPc, ReleasePc, QueryPc, ForTest
  <2>2. ASSUME Setup(c) PROVE CustodyOf(c)'
    BY <2>2, QuerySent, NoSessionIsNone
       DEF TypeOK, PgTypeOK, TrackingOf, CustodyOf, ControlOf, Owns, NotOwned, InUse, SetupPc,
           ClearPc, ReleasePc, QueryPc, Setup, Goto
  <2>3. ASSUME Clear(c) PROVE CustodyOf(c)'
    BY <2>3, QuerySent, NoSessionIsNone
       DEF TypeOK, PgTypeOK, TrackingOf, CustodyOf, ControlOf, Owns, NotOwned, InUse, SetupPc,
           ClearPc, ReleasePc, QueryPc, Clear, Query, Send, Goto, Healthy
  <2>4. ASSUME NEW kind \in {"close", "reset"}, Teardown(c, kind) PROVE CustodyOf(c)'
    BY <2>4, QuerySent, NoSessionIsNone
       DEF TypeOK, PgTypeOK, TrackingOf, CustodyOf, ControlOf, Owns, NotOwned, InUse, SetupPc,
           ClearPc, ReleasePc, QueryPc, Teardown, Goto
  <2>5. ASSUME NEW app \in Source \ {Main}, NestStart(c, app) PROVE CustodyOf(c)'
    BY <2>5, QuerySent, NoSessionIsNone
       DEF TypeOK, PgTypeOK, TrackingOf, CustodyOf, ControlOf, Owns, NotOwned, InUse, SetupPc,
           ClearPc, ReleasePc, QueryPc, NestStart, Healthy
  <2>6. ASSUME NEW app \in Source \ {Main}, NestInitialized(c, app) PROVE CustodyOf(c)'
    BY <2>6, QuerySent, NoSessionIsNone
       DEF TypeOK, PgTypeOK, TrackingOf, CustodyOf, ControlOf, Owns, NotOwned, InUse, SetupPc,
           ClearPc, ReleasePc, QueryPc, NestInitialized, Attach, Fault, NoFault
  <2>7. ASSUME NEW app \in Source \ {Main}, AppShutdown(c, app) PROVE CustodyOf(c)'
    BY <2>7, QuerySent, NoSessionIsNone
       DEF TypeOK, PgTypeOK, TrackingOf, CustodyOf, ControlOf, Owns, NotOwned, InUse, SetupPc,
           ClearPc, ReleasePc, QueryPc, AppShutdown, Detach
  <2>. QED
    BY <1>1, <2>1, <2>2, <2>3, <2>4, <2>5, <2>6, <2>7 DEF Call
<1>2. CASE Operation(c)
  <2>1. ASSUME OpenSession(c) PROVE CustodyOf(c)'
    BY <2>1, QuerySent, NoSessionIsNone
       DEF TypeOK, PgTypeOK, TrackingOf, CustodyOf, ControlOf, Owns, NotOwned, InUse, SetupPc,
           ClearPc, ReleasePc, QueryPc, OpenSession, Send, Goto
  <2>2. ASSUME CreateSessionFails(c) PROVE CustodyOf(c)'
    BY <2>2, QuerySent, NoSessionIsNone
       DEF TypeOK, PgTypeOK, TrackingOf, CustodyOf, ControlOf, Owns, NotOwned, InUse, SetupPc,
           ClearPc, ReleasePc, QueryPc, CreateSessionFails, ThrowOnly, Throw, EndOperation, Goto, Fault,
           NoFault
  <2>3. ASSUME Connected(c) PROVE CustodyOf(c)'
    BY <2>3, QuerySent, NoSessionIsNone
       DEF TypeOK, PgTypeOK, TrackingOf, CustodyOf, ControlOf, Owns, NotOwned, InUse, SetupPc,
           ClearPc, ReleasePc, QueryPc, Connected, QueryOnly, Query, Send, Goto, Answered, Healthy
  <2>4. ASSUME IdentityRead(c) PROVE CustodyOf(c)'
    <3>1. CASE QueryOnly(c, "lock", "lock")
      <4>1. lease[c] # NoSession /\ pc[c] = "identity"
        BY <2>4 DEF IdentityRead, Answered, Healthy
      <4>2. pc'[c] = "lock"
        BY <3>1, <4>1, QuerySent DEF QueryOnly, TypeOK
      <4>3. owned[c].oid # NoOid => cleanupRequired[c]
        BY <4>1 DEF CustodyOf, ControlOf, SetupPc, Owns
      <4>. QED
        BY <3>1, <4>1, <4>2, <4>3 DEF QueryOnly, CustodyOf, InUse, ClearPc, SetupPc, Owns
    <3>2. CASE ThrowOnly(c)
      BY <3>2, ThrowKeepsCustody DEF ThrowOnly
    <3>. QED BY <2>4, <3>1, <3>2 DEF IdentityRead
  <2>5. ASSUME LockGranted(c) PROVE CustodyOf(c)'
    BY <2>5, QuerySent, NoSessionIsNone
       DEF TypeOK, PgTypeOK, TrackingOf, CustodyOf, ControlOf, Owns, NotOwned, InUse, SetupPc,
           ClearPc, ReleasePc, QueryPc, LockGranted, LockWon, InspectOwned, Throw, EndOperation, Query,
           Send, Goto, Answered, Healthy
  <2>6. ASSUME LockBusy(c) PROVE CustodyOf(c)'
    BY <2>6, QuerySent, NoSessionIsNone
       DEF TypeOK, PgTypeOK, TrackingOf, CustodyOf, ControlOf, Owns, NotOwned, InUse, SetupPc,
           ClearPc, ReleasePc, QueryPc, LockBusy, ThrowOnly, Throw, EndOperation, Goto, Answered,
           Healthy
  <2>7. ASSUME Created(c) PROVE CustodyOf(c)'
    BY <2>7, QuerySent, NoSessionIsNone
       DEF TypeOK, PgTypeOK, TrackingOf, CustodyOf, ControlOf, Owns, NotOwned, InUse, SetupPc,
           ClearPc, ReleasePc, QueryPc, Created, Query, Send, Goto, Answered, Healthy
  <2>8. ASSUME OidRead(c) PROVE CustodyOf(c)'
    <3>1. /\ pc[c] = "oid" /\ lease[c] # NoSession /\ answer[lease[c]] = "ok"
          /\ UNCHANGED <<stmtVars, config, lease, leaseLocked, testDataSource>>
      BY <2>8 DEF OidRead, Answered, Healthy
    <3>2. CASE Throw(c) /\ UNCHANGED owned
      BY <3>1, <3>2, ThrowKeepsCustody
    <3>3. ASSUME NEW o \in OidsNamed(c, config[c]), owned' = [owned EXCEPT ![c].oid = o],
                 Goto(c, "init"), UNCHANGED cleanupRequired
          PROVE  CustodyOf(c)'
      <4>1. PICK r \in rows[lease[c]] : r[1] = config[c] /\ r[2] = o
        BY DEF OidsNamed, Rows
      <4>2. /\ o \in Oid
            /\ stmt[lease[c]].kind = "oid" /\ stmt[lease[c]].name = config[c]
            /\ leaseLocked[c] /\ Owns(c)
        BY <3>1, <4>1 DEF TypeOK, PgTypeOK, Row, AwaitOf, QueryPc, KindAt, ControlOf
      <4>3. backend[lease[c]] = "open" => catalog[config[c]] = o
        <5>. SUFFICES ASSUME backend[lease[c]] = "open" PROVE catalog[config[c]] = o
          OBVIOUS
        <5>1. lock[stmt[lease[c]].name] = lease[c]
          BY <4>2 DEF AwaitOf
        <5>. QED BY <3>1, <4>1, <4>2, <5>1 DEF IInv, Catalog, CatalogOf
      <4>4. owned'[c].oid = o /\ owned'[c].name = owned[c].name
        BY <3>3 DEF TypeOK, Ownership
      <4>5. pc'[c] = "init" /\ o # NoOid
        BY <3>3, <4>2, AbsentAssumption DEF Goto, TypeOK
      <4>. QED
        BY <3>1, <3>3, <4>2, <4>3, <4>4, <4>5 DEF CustodyOf, Owns, SetupPc
    <3>. QED BY <2>8, <3>2, <3>3 DEF OidRead
  <2>9. ASSUME SourceInitialized(c) PROVE CustodyOf(c)'
    BY <2>9, QuerySent, NoSessionIsNone
       DEF TypeOK, PgTypeOK, TrackingOf, CustodyOf, ControlOf, Owns, NotOwned, InUse, SetupPc,
           ClearPc, ReleasePc, QueryPc, SourceInitialized, Attach, Goto
  <2>10. ASSUME SourceFails(c) PROVE CustodyOf(c)'
    BY <2>10, QuerySent, NoSessionIsNone
       DEF TypeOK, PgTypeOK, TrackingOf, CustodyOf, ControlOf, Owns, NotOwned, InUse, SetupPc,
           ClearPc, ReleasePc, QueryPc, SourceFails, ThrowOnly, Throw, EndOperation, Goto, Fault,
           NoFault
  <2>11. ASSUME SchemaReady(c) PROVE CustodyOf(c)'
    BY <2>11, QuerySent, NoSessionIsNone
       DEF TypeOK, PgTypeOK, TrackingOf, CustodyOf, ControlOf, Owns, NotOwned, InUse, SetupPc,
           ClearPc, ReleasePc, QueryPc, SchemaReady, Healthy, Throw, EndOperation, Goto
  <2>12. ASSUME OwnershipAsserted(c) PROVE CustodyOf(c)'
    BY <2>12, QuerySent, NoSessionIsNone
       DEF TypeOK, PgTypeOK, TrackingOf, CustodyOf, ControlOf, Owns, NotOwned, InUse, SetupPc,
           ClearPc, ReleasePc, QueryPc, OwnershipAsserted, Throw, EndOperation, Goto, Answered, Healthy
  <2>13. ASSUME ClearAllowed(c) PROVE CustodyOf(c)'
    BY <2>13, QuerySent, NoSessionIsNone
       DEF TypeOK, PgTypeOK, TrackingOf, CustodyOf, ControlOf, Owns, NotOwned, InUse, SetupPc,
           ClearPc, ReleasePc, QueryPc, ClearAllowed, Healthy, Throw, EndOperation, Goto
  <2>14. ASSUME Truncate(c) PROVE CustodyOf(c)'
    BY <2>14, QuerySent, NoSessionIsNone
       DEF TypeOK, PgTypeOK, TrackingOf, CustodyOf, ControlOf, Owns, NotOwned, InUse, SetupPc,
           ClearPc, ReleasePc, QueryPc, Truncate, EndOperation, Goto
  <2>15. ASSUME TargetQueryFails(c) PROVE CustodyOf(c)'
    BY <2>15, QuerySent, NoSessionIsNone
       DEF TypeOK, PgTypeOK, TrackingOf, CustodyOf, ControlOf, Owns, NotOwned, InUse, SetupPc,
           ClearPc, ReleasePc, QueryPc, TargetQueryFails, ThrowOnly, Throw, EndOperation, Goto, Fault,
           NoFault
  <2>16. ASSUME TargetReconnects(c) PROVE CustodyOf(c)'
    BY <2>16, QuerySent, NoSessionIsNone
       DEF TypeOK, PgTypeOK, TrackingOf, CustodyOf, ControlOf, Owns, NotOwned, InUse, SetupPc,
           ClearPc, ReleasePc, QueryPc, TargetReconnects, Attach
  <2>17. ASSUME SourcesFail(c) PROVE CustodyOf(c)'
    BY <2>17, QuerySent, NoSessionIsNone
       DEF TypeOK, PgTypeOK, TrackingOf, CustodyOf, ControlOf, Owns, NotOwned, InUse, SetupPc,
           ClearPc, ReleasePc, QueryPc, SourcesFail, CloseAll, Detach, Fault, EndOperation, Goto
  <2>18. ASSUME SourcesClosed(c) PROVE CustodyOf(c)'
    BY <2>18, QuerySent, NoSessionIsNone
       DEF TypeOK, PgTypeOK, TrackingOf, CustodyOf, ControlOf, Owns, NotOwned, InUse, SetupPc,
           ClearPc, ReleasePc, QueryPc, SourcesClosed, CloseAll, Detach, InspectOwned, Throw,
           EndOperation, Query, Send, Goto, Healthy
  <2>19. ASSUME Inspected(c) PROVE CustodyOf(c)'
    <3>1. /\ pc[c] = "inspect" /\ lease[c] # NoSession
          /\ UNCHANGED <<config, lease, leaseLocked, testDataSource, cleanupRequired>>
      BY <2>19 DEF Inspected, Answered, Healthy, EndOperation
    <3>2. cleanupRequired[c] /\ Owns(c) /\ owned[c].oid # NoOid
      BY <3>1 DEF ControlOf, CustodyOf
    <3>3. CASE owned' = [owned EXCEPT ![c].dropAttempted = TRUE] /\ Query(c, "drop", "drop")
      <4>1. owned'[c].oid = owned[c].oid /\ owned'[c].name = owned[c].name
        BY <3>3 DEF TypeOK, Ownership
      <4>2. pc'[c] = "drop"
        BY <3>1, <3>3, QuerySent DEF TypeOK
      <4>. QED BY <3>1, <3>2, <4>1, <4>2 DEF CustodyOf, Owns, InUse, ClearPc, SetupPc
    <3>4. CASE owned' = [owned EXCEPT ![c] = NotOwned] /\ Goto(c, "closeLease")
      BY <3>1, <3>2, <3>4 DEF Goto, TypeOK, CustodyOf, Owns, NotOwned, InUse, ClearPc, SetupPc
    <3>5. CASE EndOperation(c) /\ UNCHANGED <<stmtVars, owned>>
      BY <3>1, <3>2, <3>5 DEF EndOperation, Goto, TypeOK, CustodyOf, Owns, InUse, ClearPc, SetupPc
    <3>. QED BY <2>19, <3>3, <3>4, <3>5 DEF Inspected
  <2>20. ASSUME Dropped(c) PROVE CustodyOf(c)'
    BY <2>20, QuerySent, NoSessionIsNone
       DEF TypeOK, PgTypeOK, TrackingOf, CustodyOf, ControlOf, Owns, NotOwned, InUse, SetupPc,
           ClearPc, ReleasePc, QueryPc, Dropped, QueryOnly, Query, Send, Goto, Answered, Healthy
  <2>21. ASSUME Verified(c) PROVE CustodyOf(c)'
    <3>1. /\ pc[c] = "verify"
          /\ UNCHANGED <<config, stmtVars, lease, leaseLocked, testDataSource, cleanupRequired>>
      BY <2>21 DEF Verified, Answered
    <3>2. cleanupRequired[c] /\ Owns(c)
      BY <3>1 DEF ControlOf
    <3>3. CASE owned' = [owned EXCEPT ![c] = NotOwned] /\ Goto(c, "closeLease")
      BY <3>1, <3>2, <3>3 DEF Goto, TypeOK, CustodyOf, Owns, NotOwned, InUse, ClearPc, SetupPc
    <3>4. CASE EndOperation(c) /\ UNCHANGED owned
      BY <3>1, <3>2, <3>4 DEF EndOperation, Goto, TypeOK, CustodyOf, Owns, InUse, ClearPc, SetupPc
    <3>. QED BY <2>21, <3>3, <3>4 DEF Verified
  <2>22. ASSUME Reacquire(c) PROVE CustodyOf(c)'
    BY <2>22, QuerySent, NoSessionIsNone
       DEF TypeOK, PgTypeOK, TrackingOf, CustodyOf, ControlOf, Owns, NotOwned, InUse, SetupPc,
           ClearPc, ReleasePc, QueryPc, Reacquire, Close, Fault, NoFault, EndOperation, Goto
  <2>23. ASSUME CloseLease(c) PROVE CustodyOf(c)'
    BY <2>23, QuerySent, NoSessionIsNone
       DEF TypeOK, PgTypeOK, TrackingOf, CustodyOf, ControlOf, Owns, NotOwned, InUse, SetupPc,
           ClearPc, ReleasePc, QueryPc, CloseLease, Close, Finish, Fault, NoFault, EndOperation, Goto
  <2>24. ASSUME QueryFails(c) PROVE CustodyOf(c)'
    BY <2>24, QuerySent, NoSessionIsNone
       DEF TypeOK, PgTypeOK, TrackingOf, CustodyOf, ControlOf, Owns, NotOwned, InUse, SetupPc,
           ClearPc, ReleasePc, QueryPc, QueryFails, SessionFailed, Throw, EndOperation, Goto, Fault,
           NoFault
  <2>. QED
    BY <1>2, <2>1, <2>2, <2>3, <2>4, <2>5, <2>6, <2>7, <2>8, <2>9, <2>10, <2>11, <2>12, <2>13,
       <2>14, <2>15, <2>16, <2>17, <2>18, <2>19, <2>20, <2>21, <2>22, <2>23, <2>24 DEF Operation
<1>3. CASE LeaseLost(c)
  BY <1>3, QuerySent, NoSessionIsNone
     DEF TypeOK, PgTypeOK, TrackingOf, CustodyOf, ControlOf, Owns, NotOwned, InUse, SetupPc,
         ClearPc, ReleasePc, QueryPc, LeaseLost, Healthy, Fault, NoFault
<1>4. CASE Crash(c)
  BY <1>4, QuerySent, NoSessionIsNone
     DEF TypeOK, PgTypeOK, TrackingOf, CustodyOf, ControlOf, Owns, NotOwned, InUse, SetupPc,
         ClearPc, ReleasePc, QueryPc, Crash, Fault, Goto
<1>5. CASE TargetBreaks(c)
  BY <1>5, QuerySent, NoSessionIsNone
     DEF TypeOK, PgTypeOK, TrackingOf, CustodyOf, ControlOf, Owns, NotOwned, InUse, SetupPc,
         ClearPc, ReleasePc, QueryPc, TargetBreaks, Detach, Fault
<1>6. CASE ServerNoticesTarget(c)
  BY <1>6, QuerySent, NoSessionIsNone
     DEF TypeOK, PgTypeOK, TrackingOf, CustodyOf, ControlOf, Owns, NotOwned, InUse, SetupPc,
         ClearPc, ReleasePc, QueryPc, ServerNoticesTarget, Detach
<1>. QED BY <1>1, <1>2, <1>3, <1>4, <1>5, <1>6 DEF ContextStep

-----------------------------------------------------------------------------
(* What the server and the outsiders may do to a target *)

ServerStep == (\E s \in Session : SessionStep(s)) \/ OutsideActs

\* The server and the outsiders do not touch the static state of a process.
LEMMA ServerKeepsContexts ==
  ASSUME ServerStep
  PROVE  UNCHANGED <<pc, stateVars, lease, leaseLocked, owned, conn>>
  BY DEF ServerStep, SessionStep, ServerExecutes, Execute, ExecConnect, ExecIdentity, ExecLock,
         ExecCreate, ExecSelect, ExecDrop, ServerNotices, ServerDisconnects, EndBackend, Recycle,
         RecycleBackend, OutsideActs, OutsideDDL

\* A leased session is not recycled: its statement stays what the context sent.
LEMMA LeaseKept ==
  ASSUME TypeOK, Control, ServerStep, NEW c \in Context, lease[c] # NoSession
  PROVE  stmt'[lease[c]] = stmt[lease[c]]
  <1>1. sess[lease[c]] # "disposed" /\ lease[c] \in Session
    BY DEF Control, ControlOf, TypeOK
  <1>2. ASSUME NEW s \in Session, Recycle(s) PROVE stmt'[lease[c]] = stmt[lease[c]]
    BY <1>1, <1>2 DEF Recycle, RecycleBackend, TypeOK, PgTypeOK
  <1>. QED
    BY <1>2 DEF ServerStep, SessionStep, ServerExecutes, Execute, ExecConnect, ExecIdentity, ExecLock,
       ExecCreate, ExecSelect, ExecDrop, ServerNotices, ServerDisconnects, EndBackend, OutsideActs, OutsideDDL

\* The three ways in which the catalog changes: CREATE and DROP, each under the
\* lock of its session, and outsiders, who leave locked and used targets alone.
LEMMA CatalogChanges ==
  ASSUME IInv, ServerStep
  PROVE  \/ UNCHANGED <<catalog, creator>>
         \/ \E s \in Session : ExecCreate(s) /\ stmt[s].name \in Name /\ lock[stmt[s].name] = s
         \/ \E s \in Session : ExecDrop(s) /\ stmt[s].name \in Name /\ lock[stmt[s].name] = s
         \/ OutsideDDL
  <1>1. \A s \in Session : stmt[s].kind # "none" => stmt[s].name \in Name
    BY DEF IInv, Sessions, SessionOf
  <1>2. \A s \in Session : stmt[s].kind \in {"create", "drop"} /\ backend[s] = "open" => lock[stmt[s].name] = s
    BY DEF IInv, Sessions, SessionOf
  <1>3. ASSUME NEW s \in Session, ExecCreate(s) PROVE stmt[s].name \in Name /\ lock[stmt[s].name] = s
    BY <1>1, <1>2, <1>3 DEF ExecCreate, Running
  <1>4. ASSUME NEW s \in Session, ExecDrop(s) PROVE stmt[s].name \in Name /\ lock[stmt[s].name] = s
    BY <1>1, <1>2, <1>4 DEF ExecDrop, Running
  <1>. QED
    BY <1>3, <1>4 DEF ServerStep, SessionStep, ServerExecutes, Execute, ExecConnect, ExecIdentity,
       ExecLock, ExecSelect, ServerNotices, ServerDisconnects, EndBackend, Recycle, RecycleBackend,
       OutsideActs

\* An OID is issued once: who created it never changes, and a database that left
\* the catalog does not come back under any name.
LEMMA OidsAreHistory ==
  ASSUME IInv, ServerStep, NEW o \in Oid, creator[o] # Nobody
  PROVE  /\ creator'[o] = creator[o]
         /\ (\A n \in Name : catalog[n] # o) => (\A n \in Name : catalog'[n] # o)
  <1>. TypeOK /\ o # NoOid
    BY AbsentAssumption DEF IInv
  <1>1. CASE UNCHANGED <<catalog, creator>>
    BY <1>1
  <1>2. ASSUME NEW s \in Session, ExecCreate(s)
        PROVE  /\ creator'[o] = creator[o]
               /\ (\A n \in Name : catalog[n] # o) => (\A n \in Name : catalog'[n] # o)
    BY <1>2 DEF ExecCreate, TypeOK, PgTypeOK
  <1>3. ASSUME NEW s \in Session, ExecDrop(s)
        PROVE  /\ creator'[o] = creator[o]
               /\ (\A n \in Name : catalog[n] # o) => (\A n \in Name : catalog'[n] # o)
    BY <1>3 DEF ExecDrop, TypeOK, PgTypeOK
  <1>4. CASE OutsideDDL
    BY <1>4 DEF OutsideDDL, TypeOK, PgTypeOK
  <1>. QED BY <1>1, <1>2, <1>3, <1>4, CatalogChanges

\* A name whose database somebody is connected to keeps that database (DROP fails
\* then, and so does CREATE; outsiders wait for the connections to go).
LEMMA ConnectionPins ==
  ASSUME IInv, ServerStep, NEW k \in Client, NEW n \in Name, catalog[n] # NoOid, conn[k] = catalog[n]
  PROVE  catalog'[n] = catalog[n]
  <1>. TypeOK
    BY DEF IInv
  <1>2. ASSUME NEW s \in Session, ExecCreate(s) PROVE catalog'[n] = catalog[n]
    BY <1>2 DEF ExecCreate, TypeOK, PgTypeOK
  <1>3. ASSUME NEW s \in Session, ExecDrop(s) PROVE catalog'[n] = catalog[n]
    BY <1>3 DEF ExecDrop, TypeOK, PgTypeOK
  <1>4. CASE OutsideDDL
    BY <1>4 DEF OutsideDDL, TypeOK, PgTypeOK
  <1>. QED BY <1>2, <1>3, <1>4, CatalogChanges

\* A name whose lock is held by a session with no DDL on its way keeps its database.
LEMMA LockPins ==
  ASSUME IInv, ServerStep, NEW s \in Session, NEW n \in Name, lock[n] = s,
         stmt[s].kind \notin {"create", "drop"}
  PROVE  catalog'[n] = catalog[n]
  <1>. TypeOK
    BY DEF IInv
  <1>2. ASSUME NEW t \in Session, ExecCreate(t), lock[stmt[t].name] = t PROVE catalog'[n] = catalog[n]
    BY <1>2 DEF ExecCreate, Running, TypeOK, PgTypeOK
  <1>3. ASSUME NEW t \in Session, ExecDrop(t), lock[stmt[t].name] = t PROVE catalog'[n] = catalog[n]
    BY <1>3 DEF ExecDrop, Running, TypeOK, PgTypeOK
  <1>4. CASE OutsideDDL
    BY <1>4, NoSessionIsNone DEF OutsideDDL, TypeOK, PgTypeOK
  <1>. QED BY <1>2, <1>3, <1>4, CatalogChanges

\* A session that was granted the lock is not connected anew.
LEMMA LockedBackend ==
  ASSUME IInv, ServerStep, NEW c \in Context, leaseLocked[c], backend'[lease[c]] = "open"
  PROVE  backend[lease[c]] = "open"
  <1>. /\ backend[lease[c]] # "absent" /\ lease[c] \in Session
       /\ backend \in [Session -> {"absent", "open", "closed"}]
    BY DEF IInv, Sessions, AwaitOf, Control, ControlOf, TypeOK, PgTypeOK
  <1>1. ASSUME NEW s \in Session, SessionStep(s) PROVE backend[lease[c]] = "open"
    <2>1. CASE ServerExecutes(s)
      BY <2>1 DEF ServerExecutes, Execute, ExecConnect, ExecIdentity, ExecLock, ExecCreate, ExecSelect, ExecDrop
    <2>2. CASE ServerNotices(s) \/ ServerDisconnects(s)
      BY <2>2 DEF ServerNotices, ServerDisconnects, EndBackend
    <2>3. CASE Recycle(s)
      BY <2>3 DEF Recycle, RecycleBackend
    <2>. QED BY <1>1, <2>1, <2>2, <2>3 DEF SessionStep
  <1>2. CASE OutsideActs
    BY <1>2 DEF OutsideActs, OutsideDDL
  <1>. QED BY <1>1, <1>2 DEF ServerStep

\* What a context owns and knows is not disturbed by anybody else.
LEMMA CustodyStep ==
  ASSUME IInv, Tracking, Custody, [Next]_vars
  PROVE  Custody'
  <1>. TypeOK /\ Control
    BY DEF IInv
  <1>1. ASSUME NEW c \in Context, ContextStep(c) PROVE Custody'
    <2>1. ASSUME NEW d \in Context \ {c} PROVE CustodyOf(d)'
      <3>1. CustodyOf(d) /\ ControlOf(d) /\ Unmoved(d) /\ UNCHANGED serverVars
        BY <1>1, ContextFrame, ServerFrame DEF Custody, Control
      <3>2. lease[d] # NoSession => stmt'[lease[d]] = stmt[lease[d]]
        BY <1>1, LeaseIsOwn, SessionFrame DEF SessionUnmoved
      <3>. QED BY <3>1, <3>2 DEF Unmoved, CustodyOf, ControlOf, QueryPc, InUse, Owns
    <2>. QED BY <1>1, <2>1, CustodyOwnStep DEF Custody
  <1>2. ASSUME ServerStep, NEW c \in Context PROVE CustodyOf(c)'
    <2>1. /\ CustodyOf(c) /\ ControlOf(c)
          /\ UNCHANGED <<pc, stateVars, lease, leaseLocked, owned>>
      BY <1>2, ServerKeepsContexts DEF Custody, Control
    <2>2. lease[c] # NoSession => stmt'[lease[c]] = stmt[lease[c]] /\ lease[c] \in Session
      BY <1>2, LeaseKept DEF TypeOK
    <2>3. ASSUME owned[c].oid # NoOid, ~cleanupRequired[c], backend'[lease[c]] = "open"
          PROVE  catalog'[config[c]] = owned[c].oid
      <3>1. /\ leaseLocked[c] /\ stmt[lease[c]].kind = "oid" /\ lease[c] \in Session
            /\ config[c] \in Name
        BY <2>1, <2>2, <2>3 DEF CustodyOf, ControlOf, Owns, TypeOK
      <3>2. backend[lease[c]] = "open"
        BY <1>2, <2>3, <3>1, LockedBackend
      <3>3. lock[config[c]] = lease[c] /\ catalog[config[c]] = owned[c].oid
        BY <2>1, <2>3, <3>1, <3>2 DEF IInv, Sessions, AwaitOf, CustodyOf
      <3>. QED BY <1>2, <3>1, <3>3, LockPins
    <2>. QED BY <2>1, <2>2, <2>3 DEF CustodyOf, ControlOf, QueryPc, InUse, Owns
  <1>3. CASE UNCHANGED vars
    BY <1>3 DEF Custody, CustodyOf, InUse, Owns
  <1>. QED BY <1>1, <1>2, <1>3, ContextSession DEF Next, ServerStep, Custody


-----------------------------------------------------------------------------
(* Absence *)

\* What a context can have done to one of its sessions: nothing the inspection
\* cares about, or it sent a statement, which if it is an inspection asks for
\* the OID that the context owns (InspectOwned, verification after DROP).
SentOrKept(c, s) ==
  \/ UNCHANGED <<stmt[s], answer[s], rows[s]>>
  \/ /\ answer'[s] = "pending"
     /\ stmt'[s].kind = "inspect" => stmt'[s].oid = owned[c].oid /\ owned[c].oid # NoOid

LEMMA SentByContext ==
  ASSUME TypeOK, Control, Tracking, Custody, NEW c \in Context, ContextStep(c),
         NEW s \in Session, s[1] = c
  PROVE  SentOrKept(c, s)
  <1>. CustodyOf(c)
    BY DEF Custody
  <1>a. ASSUME NEW p, NEW kind, Query(c, p, kind), lease[c] # NoSession,
               kind = "inspect" => owned[c].oid # NoOid
        PROVE  SentOrKept(c, s)
    BY <1>a, LeaseIsOwn DEF Query, Send, SentOrKept, TypeOK, PgTypeOK
  <1>b. UNCHANGED stmtVars => SentOrKept(c, s)
    BY DEF SentOrKept
  <1>1. CASE Call(c)
    BY <1>1, <1>a, <1>b DEF Call, ForTest, Setup, Clear, Healthy, Teardown, NestStart, NestInitialized, AppShutdown
  <1>2. CASE Operation(c)
    <2>1. CASE OpenSession(c)
      BY <2>1, <1>a, <1>b DEF OpenSession, Send, SentOrKept, TypeOK, PgTypeOK
    <2>2. CASE Connected(c)
      BY <2>2, <1>a, <1>b DEF Connected, QueryOnly, Answered, Healthy
    <2>3. CASE IdentityRead(c)
      BY <2>3, <1>a, <1>b DEF IdentityRead, QueryOnly, ThrowOnly, Answered, Healthy
    <2>4. CASE LockGranted(c)
      BY <2>4, <1>a, <1>b DEF LockGranted, LockWon, InspectOwned, Answered, Healthy
    <2>5. CASE Created(c)
      BY <2>5, <1>a, <1>b DEF Created, Answered, Healthy
    <2>6. CASE SourcesClosed(c)
      BY <2>6, <1>a, <1>b DEF SourcesClosed, InspectOwned, Healthy
    <2>7. CASE Inspected(c)
      BY <2>7, <1>a, <1>b DEF Inspected, Answered, Healthy
    <2>8. CASE Dropped(c)
      BY <2>8, <1>a, <1>b DEF Dropped, QueryOnly, Answered, Healthy, CustodyOf
    <2>9. CASE CreateSessionFails(c) \/ LockBusy(c) \/ OidRead(c) \/ SourceInitialized(c)
               \/ SourceFails(c) \/ SchemaReady(c) \/ OwnershipAsserted(c) \/ ClearAllowed(c)
               \/ Truncate(c) \/ TargetQueryFails(c) \/ TargetReconnects(c) \/ SourcesFail(c)
               \/ Verified(c) \/ Reacquire(c) \/ CloseLease(c) \/ QueryFails(c)
      BY <2>9, <1>b
         DEF CreateSessionFails, LockBusy, OidRead, SourceInitialized, SourceFails, SchemaReady,
             OwnershipAsserted, ClearAllowed, Truncate, TargetQueryFails, TargetReconnects, SourcesFail,
             Verified, Reacquire, CloseLease, QueryFails, ThrowOnly
    <2>. QED BY <1>2, <2>1, <2>2, <2>3, <2>4, <2>5, <2>6, <2>7, <2>8, <2>9 DEF Operation
  <1>3. CASE LeaseLost(c) \/ Crash(c) \/ TargetBreaks(c) \/ ServerNoticesTarget(c)
    BY <1>3, <1>b DEF LeaseLost, Crash, TargetBreaks, ServerNoticesTarget
  <1>. QED BY <1>1, <1>2, <1>3 DEF ContextStep

\* An inspection that found no row keeps being right (cleanup).
LEMMA AbsenceStep ==
  ASSUME IInv, Tracking, Custody, Absence, [Next]_vars
  PROVE  Absence'
  <1>. TypeOK /\ Control
    BY DEF IInv
  <1>1. ASSUME NEW c \in Context, ContextStep(c), NEW s \in Session PROVE AbsenceOf(s)'
    <2>1. AbsenceOf(s) /\ UNCHANGED serverVars
      BY <1>1, ServerFrame DEF Absence
    <2>2. CASE UNCHANGED <<stmt[s], answer[s], rows[s]>>
      BY <2>1, <2>2 DEF AbsenceOf
    <2>3. CASE s[1] # c
      BY <1>1, <2>2, <2>3, SessionFrame DEF SessionUnmoved
    <2>4. CASE /\ answer'[s] = "pending"
               /\ stmt'[s].kind = "inspect" => stmt'[s].oid = owned[c].oid /\ owned[c].oid # NoOid
      <3>1. owned[c].oid # NoOid => owned[c].oid \in Oid /\ creator[owned[c].oid] = c /\ c # Nobody
        BY ContextAssumption, ActorAssumption DEF IInv, Catalog, KnowledgeOf, TypeOK, Ownership
      <3>. QED BY <2>1, <2>4, <3>1 DEF AbsenceOf
    <2>. QED BY <1>1, <2>2, <2>3, <2>4, SentByContext DEF SentOrKept
  <1>2. ASSUME ServerStep, NEW s \in Session PROVE AbsenceOf(s)'
    <2>. AbsenceOf(s)
      BY DEF Absence
    <2>1. CASE UNCHANGED <<stmt[s], answer[s], rows[s]>>
      BY <1>2, <2>1, OidsAreHistory DEF AbsenceOf
    <2>2. CASE stmt'[s].kind # "inspect"
      BY <2>2 DEF AbsenceOf
    <2>3. CASE ExecSelect(s)
      <3>1. /\ UNCHANGED <<stmt, catalog, creator>>
            /\ rows'[s] = RowsOf(stmt[s].name, stmt[s].oid)
        BY <2>3 DEF ExecSelect, TypeOK, PgTypeOK
      <3>2. ASSUME NEW n \in Name, stmt[s].oid \in Oid, catalog[n] = stmt[s].oid PROVE rows'[s] # {}
        <4>1. <<n, stmt[s].oid>> \in RowsOf(stmt[s].name, stmt[s].oid)
          BY <3>2 DEF RowsOf, Row
        <4>. QED BY <3>1, <4>1
      <3>. QED BY <3>1, <3>2 DEF AbsenceOf
    <2>5. ASSUME NEW t \in Session, SessionStep(t)
          PROVE  \/ UNCHANGED <<stmt[s], answer[s], rows[s]>>
                 \/ stmt'[s].kind # "inspect"
                 \/ ExecSelect(s)
      <3>1. CASE ServerExecutes(t)
        BY <3>1 DEF ServerExecutes, Execute, ExecConnect, ExecIdentity, ExecLock, ExecCreate,
                    ExecSelect, ExecDrop, Running, Answer, TypeOK, PgTypeOK
      <3>2. CASE ServerNotices(t) \/ ServerDisconnects(t)
        BY <3>2 DEF ServerNotices, ServerDisconnects, EndBackend
      <3>3. CASE Recycle(t)
        BY <3>3 DEF Recycle, RecycleBackend, NoStmt, TypeOK, PgTypeOK
      <3>. QED BY <2>5, <3>1, <3>2, <3>3 DEF SessionStep
    <2>6. OutsideActs => UNCHANGED <<stmt[s], answer[s], rows[s]>>
      BY DEF OutsideActs, OutsideDDL
    <2>. QED BY <1>2, <2>1, <2>2, <2>3, <2>5, <2>6 DEF ServerStep
  <1>3. CASE UNCHANGED vars
    BY <1>3 DEF Absence, AbsenceOf
  <1>. QED BY <1>1, <1>2, <1>3, ContextSession DEF Next, ServerStep, Absence

-----------------------------------------------------------------------------
(* Attachment *)

\* A context's own step attaches only to what carries its name now, and forgets
\* the name only when nothing is attached (initialize, TargetReconnects, reset).
LEMMA AttachmentOwnStep ==
  ASSUME IInv, Tracking, Attachment, NEW c \in Context, ContextStep(c)
  PROVE  AttachmentOf(c)'
  <1>. TrackingOf(c) /\ ControlOf(c) /\ AttachmentOf(c) /\ TypeOK /\ Control
    BY DEF Tracking, Control, Attachment, IInv
  <1>. UNCHANGED catalog
    BY ServerFrame
  <1>. \A src \in Source : <<c, src>> \in Client
    BY ContextClient
  <1>. Main \in Source
    BY ContextAssumption
  <1>. NoName \notin Name
    BY AbsentAssumption
<1>1. CASE Call(c)
  <2>1. ASSUME NEW n \in Name, ForTest(c, n) PROVE AttachmentOf(c)'
    BY <2>1, QuerySent, NoSessionIsNone
       DEF TypeOK, PgTypeOK, TrackingOf, AttachmentOf, ControlOf, QueryPc, ClearPc, ReleasePc,
           ForTest
  <2>2. ASSUME Setup(c) PROVE AttachmentOf(c)'
    BY <2>2, QuerySent, NoSessionIsNone
       DEF TypeOK, PgTypeOK, TrackingOf, AttachmentOf, ControlOf, QueryPc, ClearPc, ReleasePc,
           Setup, Goto
  <2>3. ASSUME Clear(c) PROVE AttachmentOf(c)'
    BY <2>3, QuerySent, NoSessionIsNone
       DEF TypeOK, PgTypeOK, TrackingOf, AttachmentOf, ControlOf, QueryPc, ClearPc, ReleasePc,
           Clear, Query, Send, Goto, Healthy
  <2>4. ASSUME NEW kind \in {"close", "reset"}, Teardown(c, kind) PROVE AttachmentOf(c)'
    BY <2>4, QuerySent, NoSessionIsNone
       DEF TypeOK, PgTypeOK, TrackingOf, AttachmentOf, ControlOf, QueryPc, ClearPc, ReleasePc,
           Teardown, Goto
  <2>5. ASSUME NEW app \in Source \ {Main}, NestStart(c, app) PROVE AttachmentOf(c)'
    BY <2>5, QuerySent, NoSessionIsNone
       DEF TypeOK, PgTypeOK, TrackingOf, AttachmentOf, ControlOf, QueryPc, ClearPc, ReleasePc,
           NestStart, Healthy
  <2>6. ASSUME NEW app \in Source \ {Main}, NestInitialized(c, app) PROVE AttachmentOf(c)'
    <3>1. /\ UNCHANGED <<pc, config, lease, stmtVars>>
          /\ conn' = [conn EXCEPT ![<<c, app>>] = catalog[config[c]]] \/ UNCHANGED conn
      BY <2>6 DEF NestInitialized, Attach
    <3>2. conn'[<<c, Main>>] = conn[<<c, Main>>]
      BY <3>1 DEF TypeOK, PgTypeOK
    <3>3. ASSUME NEW src \in Source PROVE conn'[<<c, src>>] \in {conn[<<c, src>>], catalog[config[c]]}
      BY <3>1 DEF TypeOK, PgTypeOK
    <3>. QED BY <3>1, <3>2, <3>3 DEF AttachmentOf
  <2>7. ASSUME NEW app \in Source \ {Main}, AppShutdown(c, app) PROVE AttachmentOf(c)'
    <3>1. UNCHANGED <<pc, config, lease, stmtVars>>
      BY <2>7 DEF AppShutdown
    <3>2. ASSUME NEW src \in Source PROVE conn'[<<c, src>>] \in {conn[<<c, src>>], NoOid}
      BY <2>7 DEF AppShutdown, Detach
    <3>. QED BY <3>1, <3>2 DEF AttachmentOf
  <2>. QED
    BY <1>1, <2>1, <2>2, <2>3, <2>4, <2>5, <2>6, <2>7 DEF Call
<1>2. CASE Operation(c)
  <2>1. ASSUME OpenSession(c) PROVE AttachmentOf(c)'
    BY <2>1, QuerySent, NoSessionIsNone
       DEF TypeOK, PgTypeOK, TrackingOf, AttachmentOf, ControlOf, QueryPc, ClearPc, ReleasePc,
           OpenSession, Send, Goto
  <2>2. ASSUME CreateSessionFails(c) PROVE AttachmentOf(c)'
    BY <2>2, QuerySent, NoSessionIsNone
       DEF TypeOK, PgTypeOK, TrackingOf, AttachmentOf, ControlOf, QueryPc, ClearPc, ReleasePc,
           CreateSessionFails, ThrowOnly, Throw, EndOperation, Goto, Fault, NoFault
  <2>3. ASSUME Connected(c) PROVE AttachmentOf(c)'
    BY <2>3, QuerySent, NoSessionIsNone
       DEF TypeOK, PgTypeOK, TrackingOf, AttachmentOf, ControlOf, QueryPc, ClearPc, ReleasePc,
           Connected, QueryOnly, Query, Send, Goto, Answered, Healthy
  <2>4. ASSUME IdentityRead(c) PROVE AttachmentOf(c)'
    BY <2>4, QuerySent, NoSessionIsNone
       DEF TypeOK, PgTypeOK, TrackingOf, AttachmentOf, ControlOf, QueryPc, ClearPc, ReleasePc,
           IdentityRead, ThrowOnly, Throw, EndOperation, QueryOnly, Query, Send, Goto, Answered,
           Healthy, Fault, NoFault
  <2>5. ASSUME LockGranted(c) PROVE AttachmentOf(c)'
    BY <2>5, QuerySent, NoSessionIsNone
       DEF TypeOK, PgTypeOK, TrackingOf, AttachmentOf, ControlOf, QueryPc, ClearPc, ReleasePc,
           LockGranted, LockWon, InspectOwned, Throw, EndOperation, Query, Send, Goto, Answered, Healthy
  <2>6. ASSUME LockBusy(c) PROVE AttachmentOf(c)'
    BY <2>6, QuerySent, NoSessionIsNone
       DEF TypeOK, PgTypeOK, TrackingOf, AttachmentOf, ControlOf, QueryPc, ClearPc, ReleasePc,
           LockBusy, ThrowOnly, Throw, EndOperation, Goto, Answered, Healthy
  <2>7. ASSUME Created(c) PROVE AttachmentOf(c)'
    BY <2>7, QuerySent, NoSessionIsNone
       DEF TypeOK, PgTypeOK, TrackingOf, AttachmentOf, ControlOf, QueryPc, ClearPc, ReleasePc,
           Created, Query, Send, Goto, Answered, Healthy
  <2>8. ASSUME OidRead(c) PROVE AttachmentOf(c)'
    BY <2>8, QuerySent, NoSessionIsNone
       DEF TypeOK, PgTypeOK, TrackingOf, AttachmentOf, ControlOf, QueryPc, ClearPc, ReleasePc,
           OidRead, OidsNamed, Rows, Throw, EndOperation, Goto, Answered, Healthy
  <2>9. ASSUME SourceInitialized(c) PROVE AttachmentOf(c)'
    BY <2>9, QuerySent, NoSessionIsNone
       DEF TypeOK, PgTypeOK, TrackingOf, AttachmentOf, ControlOf, QueryPc, ClearPc, ReleasePc,
           SourceInitialized, Attach, Goto
  <2>10. ASSUME SourceFails(c) PROVE AttachmentOf(c)'
    BY <2>10, QuerySent, NoSessionIsNone
       DEF TypeOK, PgTypeOK, TrackingOf, AttachmentOf, ControlOf, QueryPc, ClearPc, ReleasePc,
           SourceFails, ThrowOnly, Throw, EndOperation, Goto, Fault, NoFault
  <2>11. ASSUME SchemaReady(c) PROVE AttachmentOf(c)'
    BY <2>11, QuerySent, NoSessionIsNone
       DEF TypeOK, PgTypeOK, TrackingOf, AttachmentOf, ControlOf, QueryPc, ClearPc, ReleasePc,
           SchemaReady, Healthy, Throw, EndOperation, Goto
  <2>12. ASSUME OwnershipAsserted(c) PROVE AttachmentOf(c)'
    BY <2>12, QuerySent, NoSessionIsNone
       DEF TypeOK, PgTypeOK, TrackingOf, AttachmentOf, ControlOf, QueryPc, ClearPc, ReleasePc,
           OwnershipAsserted, Throw, EndOperation, Goto, Answered, Healthy
  <2>13. ASSUME ClearAllowed(c) PROVE AttachmentOf(c)'
    BY <2>13, QuerySent, NoSessionIsNone
       DEF TypeOK, PgTypeOK, TrackingOf, AttachmentOf, ControlOf, QueryPc, ClearPc, ReleasePc,
           ClearAllowed, Healthy, Throw, EndOperation, Goto
  <2>14. ASSUME Truncate(c) PROVE AttachmentOf(c)'
    BY <2>14, QuerySent, NoSessionIsNone
       DEF TypeOK, PgTypeOK, TrackingOf, AttachmentOf, ControlOf, QueryPc, ClearPc, ReleasePc,
           Truncate, EndOperation, Goto
  <2>15. ASSUME TargetQueryFails(c) PROVE AttachmentOf(c)'
    BY <2>15, QuerySent, NoSessionIsNone
       DEF TypeOK, PgTypeOK, TrackingOf, AttachmentOf, ControlOf, QueryPc, ClearPc, ReleasePc,
           TargetQueryFails, ThrowOnly, Throw, EndOperation, Goto, Fault, NoFault
  <2>16. ASSUME TargetReconnects(c) PROVE AttachmentOf(c)'
    BY <2>16, QuerySent, NoSessionIsNone
       DEF TypeOK, PgTypeOK, TrackingOf, AttachmentOf, ControlOf, QueryPc, ClearPc, ReleasePc,
           TargetReconnects, Attach
  <2>17. ASSUME SourcesFail(c) PROVE AttachmentOf(c)'
    BY <2>17, QuerySent, NoSessionIsNone
       DEF TypeOK, PgTypeOK, TrackingOf, AttachmentOf, ControlOf, QueryPc, ClearPc, ReleasePc,
           SourcesFail, CloseAll, Detach, Fault, EndOperation, Goto
  <2>18. ASSUME SourcesClosed(c) PROVE AttachmentOf(c)'
    BY <2>18, QuerySent, NoSessionIsNone
       DEF TypeOK, PgTypeOK, TrackingOf, AttachmentOf, ControlOf, QueryPc, ClearPc, ReleasePc,
           SourcesClosed, CloseAll, Detach, InspectOwned, Throw, EndOperation, Query, Send, Goto,
           Healthy
  <2>19. ASSUME Inspected(c) PROVE AttachmentOf(c)'
    BY <2>19, QuerySent, NoSessionIsNone
       DEF TypeOK, PgTypeOK, TrackingOf, AttachmentOf, ControlOf, QueryPc, ClearPc, ReleasePc,
           Inspected, EndOperation, Query, Send, Goto, Answered, Healthy
  <2>20. ASSUME Dropped(c) PROVE AttachmentOf(c)'
    BY <2>20, QuerySent, NoSessionIsNone
       DEF TypeOK, PgTypeOK, TrackingOf, AttachmentOf, ControlOf, QueryPc, ClearPc, ReleasePc,
           Dropped, QueryOnly, Query, Send, Goto, Answered, Healthy
  <2>21. ASSUME Verified(c) PROVE AttachmentOf(c)'
    BY <2>21, QuerySent, NoSessionIsNone
       DEF TypeOK, PgTypeOK, TrackingOf, AttachmentOf, ControlOf, QueryPc, ClearPc, ReleasePc,
           Verified, EndOperation, Goto, Answered, Healthy
  <2>22. ASSUME Reacquire(c) PROVE AttachmentOf(c)'
    BY <2>22, QuerySent, NoSessionIsNone
       DEF TypeOK, PgTypeOK, TrackingOf, AttachmentOf, ControlOf, QueryPc, ClearPc, ReleasePc,
           Reacquire, Close, Fault, NoFault, EndOperation, Goto
  <2>23. ASSUME CloseLease(c) PROVE AttachmentOf(c)'
    BY <2>23, QuerySent, NoSessionIsNone
       DEF TypeOK, PgTypeOK, TrackingOf, AttachmentOf, ControlOf, QueryPc, ClearPc, ReleasePc,
           CloseLease, Close, Finish, Fault, NoFault, EndOperation, Goto
  <2>24. ASSUME QueryFails(c) PROVE AttachmentOf(c)'
    BY <2>24, QuerySent, NoSessionIsNone
       DEF TypeOK, PgTypeOK, TrackingOf, AttachmentOf, ControlOf, QueryPc, ClearPc, ReleasePc,
           QueryFails, SessionFailed, Throw, EndOperation, Goto, Fault, NoFault
  <2>. QED
    BY <1>2, <2>1, <2>2, <2>3, <2>4, <2>5, <2>6, <2>7, <2>8, <2>9, <2>10, <2>11, <2>12, <2>13,
       <2>14, <2>15, <2>16, <2>17, <2>18, <2>19, <2>20, <2>21, <2>22, <2>23, <2>24 DEF Operation
<1>3. CASE LeaseLost(c)
  BY <1>3, QuerySent, NoSessionIsNone
     DEF TypeOK, PgTypeOK, TrackingOf, AttachmentOf, ControlOf, QueryPc, ClearPc, ReleasePc,
         LeaseLost, Healthy, Fault, NoFault
<1>4. CASE Crash(c)
  BY <1>4, QuerySent, NoSessionIsNone
     DEF TypeOK, PgTypeOK, TrackingOf, AttachmentOf, ControlOf, QueryPc, ClearPc, ReleasePc, Crash,
         Fault, Goto
<1>5. CASE TargetBreaks(c)
  BY <1>5, QuerySent, NoSessionIsNone
     DEF TypeOK, PgTypeOK, TrackingOf, AttachmentOf, ControlOf, QueryPc, ClearPc, ReleasePc,
         TargetBreaks, Detach, Fault
<1>6. CASE ServerNoticesTarget(c)
  BY <1>6, QuerySent, NoSessionIsNone
     DEF TypeOK, PgTypeOK, TrackingOf, AttachmentOf, ControlOf, QueryPc, ClearPc, ReleasePc,
         ServerNoticesTarget, Detach
<1>. QED BY <1>1, <1>2, <1>3, <1>4, <1>5, <1>6 DEF ContextStep

\* While a connection lasts, its name keeps standing for the database it found.
LEMMA AttachmentStep ==
  ASSUME IInv, Tracking, Attachment, [Next]_vars
  PROVE  Attachment'
  <1>. TypeOK /\ Control
    BY DEF IInv
  <1>. Main \in Source
    BY ContextAssumption
  <1>1. ASSUME NEW c \in Context, ContextStep(c) PROVE Attachment'
    <2>1. ASSUME NEW d \in Context \ {c} PROVE AttachmentOf(d)'
      <3>1. AttachmentOf(d) /\ ControlOf(d) /\ Unmoved(d) /\ UNCHANGED serverVars
        BY <1>1, ContextFrame, ServerFrame DEF Attachment, Control
      <3>2. lease[d] # NoSession => SessionUnmoved(lease[d])
        BY <1>1, LeaseIsOwn, SessionFrame
      <3>3. \A src \in Source : conn'[<<d, src>>] = conn[<<d, src>>]
        BY <1>1, ConnFrame
      <3>. QED BY <3>1, <3>2, <3>3 DEF Unmoved, SessionUnmoved, AttachmentOf, ControlOf, QueryPc
    <2>. QED BY <1>1, <2>1, AttachmentOwnStep DEF Attachment
  <1>2. ASSUME ServerStep, NEW c \in Context PROVE AttachmentOf(c)'
    <2>1. /\ TrackingOf(c) /\ AttachmentOf(c) /\ UNCHANGED <<pc, stateVars, lease, conn>>
      BY <1>2, ServerKeepsContexts DEF Tracking, Attachment
    <2>2. ASSUME NEW src \in Source, conn[<<c, src>>] # NoOid
          PROVE  /\ config[c] \in Name /\ catalog[config[c]] = conn[<<c, src>>]
                 /\ catalog'[config[c]] = conn[<<c, src>>]
      <3>1. config[c] \in Name /\ catalog[config[c]] = conn[<<c, src>>]
        BY <2>1, <2>2 DEF TrackingOf, AttachmentOf
      <3>. QED BY <1>2, <2>2, <3>1, ContextClient, ConnectionPins
    <2>3. ASSUME pc[c] = "clearOid", answer'[lease[c]] = "ok", conn[<<c, Main>>] # NoOid,
                 NEW r \in rows'[lease[c]], r[1] = config[c]
          PROVE  r[2] = conn[<<c, Main>>]
      <3>1. lease[c] \in Session
        BY <2>3 DEF Control, ControlOf, QueryPc, TypeOK
      <3>2. \/ answer[lease[c]] = "ok" /\ rows'[lease[c]] = rows[lease[c]]
            \/ ExecSelect(lease[c])
            \/ rows'[lease[c]] = {}
        <4>0. stmt[lease[c]].kind = "oid"
          BY <2>3 DEF IInv, Sessions, AwaitOf, QueryPc, KindAt
        <4>1. ASSUME NEW t \in Session, ServerExecutes(t)
              PROVE  \/ answer[lease[c]] = "ok" /\ rows'[lease[c]] = rows[lease[c]]
                     \/ ExecSelect(lease[c])
          BY <2>3, <3>1, <4>0, <4>1
             DEF ServerExecutes, Execute, ExecConnect, ExecIdentity, ExecLock, ExecCreate, ExecSelect,
                 ExecDrop, Running, Answer, TypeOK, PgTypeOK
        <4>2. ASSUME NEW t \in Session, Recycle(t)
              PROVE  \/ answer[lease[c]] = "ok" /\ rows'[lease[c]] = rows[lease[c]]
                     \/ rows'[lease[c]] = {}
          BY <2>3, <3>1, <4>2 DEF Recycle, RecycleBackend, TypeOK, PgTypeOK
        <4>3. ASSUME NEW t \in Session, ServerNotices(t) \/ ServerDisconnects(t)
              PROVE  answer[lease[c]] = "ok" /\ rows'[lease[c]] = rows[lease[c]]
          BY <2>3, <4>3 DEF ServerNotices, ServerDisconnects, EndBackend
        <4>4. OutsideActs => answer[lease[c]] = "ok" /\ rows'[lease[c]] = rows[lease[c]]
          BY <2>3 DEF OutsideActs, OutsideDDL
        <4>. QED BY <1>2, <4>1, <4>2, <4>3, <4>4 DEF ServerStep, SessionStep
      <3>3. CASE ExecSelect(lease[c])
        <4>1. catalog[r[1]] = r[2]
          BY <2>3, <3>1, <3>3 DEF ExecSelect, RowsOf, TypeOK, PgTypeOK
        <4>. QED BY <2>2, <2>3, <4>1
      <3>. QED BY <2>1, <2>3, <3>2, <3>3 DEF AttachmentOf
    <2>. QED BY <2>1, <2>2, <2>3 DEF AttachmentOf
  <1>3. CASE UNCHANGED vars
    BY <1>3 DEF Attachment, AttachmentOf
  <1>. QED BY <1>1, <1>2, <1>3, ContextSession DEF Next, ServerStep, Attachment

-----------------------------------------------------------------------------
(* Theorems *)

\* Nothing is in use before anything ran (forTest).
LEMMA InitUse == Init => Use
  <1>. SUFFICES ASSUME Init PROVE Use
    OBVIOUS
  <1>. Main \in Source /\ (\A c \in Context, src \in Source : <<c, src>> \in Client)
       /\ (\A c \in Context, k \in SessionId : <<c, k>> \in Session)
    BY ContextAssumption, ContextClient, ContextSession
  <1>1. Tracking
    BY DEF Init, PgInit, Tracking, TrackingOf, InUse, ClearPc, ReleasePc
  <1>2. Custody
    BY DEF Init, PgInit, Custody, CustodyOf, InUse, ClearPc, SetupPc, Owns, NotOwned
  <1>3. Absence
    BY DEF Init, PgInit, Absence, AbsenceOf, NoStmt
  <1>4. Attachment
    BY DEF Init, PgInit, Attachment, AttachmentOf
  <1>. QED BY <1>1, <1>2, <1>3, <1>4 DEF Use

\* Every step keeps it, given what the lifecycle's own invariant says.
LEMMA StepUse == IInv /\ IInv' /\ Use /\ [Next]_vars => Use'
  <1>. SUFFICES ASSUME IInv, IInv', Use, [Next]_vars PROVE Use'
    OBVIOUS
  <1>1. Tracking'
    BY TrackingStep DEF IInv, Use
  <1>2. Custody'
    BY CustodyStep DEF Use
  <1>3. Absence'
    BY AbsenceStep DEF Use
  <1>4. Attachment'
    BY AttachmentStep DEF Use
  <1>. QED BY <1>1, <1>2, <1>3, <1>4 DEF Use

\* What use and cleanup rely on holds in every reachable state (trackSource,
\* assertOwnership, cleanup, teardown).
THEOREM UseHolds == Spec => []Use
  <1>. QED BY InitUse, StepUse, Invariance, PTL DEF Spec

\* No connection and no session of a context is ever outside the static state that
\* cleanup works from, however an operation failed (sources, lease).
THEOREM Tracked == Spec => []NothingUntracked
  <1>1. Use => NothingUntracked
    BY DEF Use, Tracking, TrackingOf, NothingUntracked
  <1>. QED BY <1>1, UseHolds, PTL

\* A target offered for use is locked by its context and is still the database
\* that context created, for every number of processes and outsiders.
THEOREM UseIsLocked == Spec => []UsedUnderLock
  <1>1. ASSUME IInv, Use, NEW c \in Context, Ready(c), backend[lease[c]] = "open"
        PROVE  /\ lock[config[c]] = lease[c]
               /\ catalog[config[c]] = owned[c].oid
               /\ creator[owned[c].oid] = c
    <2>1. ControlOf(c) /\ AwaitOf(c) /\ KnowledgeOf(c) /\ CustodyOf(c)
      BY <1>1 DEF IInv, Control, Sessions, Catalog, Use, Custody
    <2>2. leaseLocked[c] /\ owned[c].oid # NoOid
      BY <1>1, <2>1 DEF Ready, ControlOf, CustodyOf, InUse
    <2>. QED BY <1>1, <2>1, <2>2 DEF Ready, AwaitOf, KnowledgeOf, CustodyOf
  <1>2. IInv /\ Use => UsedUnderLock
    BY <1>1 DEF UsedUnderLock
  <1>. QED BY <1>2, Invariance, UseHolds, PTL

\* An inspection without rows is proof that the owned database left the catalog
\* (cleanup, before and after DROP).
LEMMA EmptyMeansGone ==
  ASSUME IInv, Use, NEW c \in Context, pc[c] \in {"inspect", "verify"},
         Answered(c, pc[c], "ok"), Rows(c) = {}
  PROVE  \A n \in Name : catalog[n] # owned[c].oid
  <1>1. /\ lease[c] \in Session /\ answer[lease[c]] = "ok" /\ rows[lease[c]] = {}
        /\ stmt[lease[c]].kind = "inspect" /\ stmt[lease[c]].oid = owned[c].oid
    BY DEF Answered, Healthy, Rows, IInv, TypeOK, Sessions, AwaitOf, QueryPc, KindAt, Use, Custody, CustodyOf
  <1>. QED BY <1>1 DEF Use, Absence, AbsenceOf

\* The ownership of a database ends only in one of the two inspections.
LEMMA StepReleases ==
  ASSUME IInv, Use, [Next]_vars, NEW c \in Context,
         owned[c].oid # NoOid, owned'[c].oid # owned[c].oid
  PROVE  \A n \in Name : catalog[n] # owned[c].oid
  <1>. /\ TypeOK /\ Control /\ ControlOf(c) /\ CustodyOf(c) /\ TrackingOf(c)
    BY DEF IInv, Control, Use, Custody, Tracking
  <1>1. CASE Operation(c)
    <2>1. CASE Created(c)
      BY <2>1 DEF Created, Answered, ControlOf, CustodyOf, TrackingOf, SetupPc, Owns
    <2>2. CASE OidRead(c)
      BY <2>2 DEF OidRead, Answered, CustodyOf
    <2>3. CASE Inspected(c)
      <3>1. pc[c] = "inspect" /\ Answered(c, pc[c], "ok")
        BY <2>3 DEF Inspected, Answered
      <3>2. CASE owned' = [owned EXCEPT ![c].dropAttempted = TRUE]
        BY <3>2 DEF TypeOK, Ownership
      <3>3. CASE AlreadyDropped(c)
        BY <3>1, <3>3, EmptyMeansGone DEF AlreadyDropped
      <3>. QED BY <2>3, <3>2, <3>3 DEF Inspected
    <2>4. CASE Verified(c)
      <3>1. pc[c] = "verify" /\ Answered(c, pc[c], "ok")
        BY <2>4 DEF Verified, Answered
      <3>. QED BY <2>4, <3>1, EmptyMeansGone DEF Verified
    <2>5. CASE OpenSession(c) \/ CreateSessionFails(c) \/ Connected(c) \/ IdentityRead(c)
               \/ LockGranted(c) \/ LockBusy(c) \/ SourceInitialized(c) \/ SourceFails(c)
               \/ SchemaReady(c) \/ OwnershipAsserted(c) \/ ClearAllowed(c) \/ Truncate(c)
               \/ TargetQueryFails(c) \/ TargetReconnects(c) \/ SourcesFail(c)
               \/ SourcesClosed(c) \/ Dropped(c) \/ Reacquire(c) \/ CloseLease(c)
               \/ QueryFails(c)
      BY <2>5
         DEF OpenSession, CreateSessionFails, Connected, IdentityRead, LockGranted, LockBusy,
             SourceInitialized, SourceFails, SchemaReady, OwnershipAsserted, ClearAllowed, Truncate,
             TargetQueryFails, TargetReconnects, SourcesFail, SourcesClosed, Dropped, Reacquire,
             CloseLease, QueryFails, QueryOnly, ThrowOnly
    <2>. QED BY <1>1, <2>1, <2>2, <2>3, <2>4, <2>5 DEF Operation
  <1>2. CASE Call(c)
    BY <1>2 DEF Call, ForTest, Setup, Clear, Teardown, NestStart, NestInitialized, AppShutdown
  <1>3. CASE LeaseLost(c) \/ Crash(c) \/ TargetBreaks(c) \/ ServerNoticesTarget(c)
    BY <1>3 DEF LeaseLost, Crash, TargetBreaks, ServerNoticesTarget
  <1>4. ASSUME NEW d \in Context, d # c, ContextStep(d) PROVE FALSE
    BY <1>4, ContextFrame DEF Unmoved
  <1>5. CASE ServerStep
    BY <1>5, ServerKeepsContexts
  <1>6. CASE UNCHANGED vars
    BY <1>6
  <1>. QED BY <1>1, <1>2, <1>3, <1>4, <1>5, <1>6, ContextSession DEF Next, ContextStep, ServerStep

\* A context gives up the ownership of a database only when no name in the catalog
\* stands for it any more: a database it created is never leaked by a cleanup that
\* reports success (the verification after DROP).
THEOREM ReleaseIsHonest == Spec => ReleasedOnlyWhenGone
  <1>1. IInv /\ Use /\ [Next]_vars =>
          [\A c \in Context :
             owned[c].oid # NoOid /\ owned'[c].oid # owned[c].oid =>
               \A n \in Name : catalog[n] # owned[c].oid]_vars
    BY StepReleases
  <1>. QED BY <1>1, Invariance, UseHolds, PTL DEF Spec, ReleasedOnlyWhenGone

\* Only the end of a cleanup clears cleanupRequired, or the captured configuration.
LEMMA StepForgets ==
  ASSUME IInv, Use, Tracking', [Next]_vars, NEW c \in Context,
         (cleanupRequired[c] /\ ~cleanupRequired'[c]) \/ (config[c] # NoName /\ config'[c] # config[c])
  PROVE  /\ \A src \in Source : conn'[<<c, src>>] = NoOid
         /\ \A k \in SessionId : sess'[<<c, k>>] \in {"unused", "disposed"}
         /\ owned'[c] = NotOwned /\ sources'[c] = {} /\ lease'[c] = NoSession
  <1>. /\ TypeOK /\ Control /\ ControlOf(c) /\ CustodyOf(c) /\ TrackingOf(c) /\ TrackingOf(c)'
    BY DEF IInv, Control, Use, Custody, Tracking
  <1>1. CASE CloseLease(c)
    <2>1. pc[c] = "closeLease" /\ UNCHANGED <<sources, owned>>
      BY <1>1 DEF CloseLease
    <2>2. sources'[c] = {} /\ owned'[c] = NotOwned
      BY <2>1 DEF ControlOf, TrackingOf, CustodyOf, ReleasePc
    <2>3. lease'[c] = NoSession
      BY <1>1 DEF CloseLease, Close, EndOperation, TypeOK
    <2>4. \A k \in SessionId : <<c, k>> # lease'[c]
      BY <2>3, ContextSession, NoSessionIsNone
    <2>. QED BY <2>2, <2>3, <2>4 DEF TrackingOf
  <1>2. CASE OpenSession(c) \/ CreateSessionFails(c) \/ Connected(c) \/ IdentityRead(c)
             \/ LockGranted(c) \/ LockBusy(c) \/ Created(c) \/ OidRead(c)
             \/ SourceInitialized(c) \/ SourceFails(c) \/ SchemaReady(c)
             \/ OwnershipAsserted(c) \/ ClearAllowed(c) \/ Truncate(c) \/ TargetQueryFails(c)
             \/ TargetReconnects(c) \/ SourcesFail(c) \/ SourcesClosed(c) \/ Inspected(c)
             \/ Dropped(c) \/ Verified(c) \/ Reacquire(c) \/ QueryFails(c)
    BY <1>2
       DEF OpenSession, CreateSessionFails, Connected, IdentityRead, LockGranted, LockBusy, Created,
           OidRead, SourceInitialized, SourceFails, SchemaReady, OwnershipAsserted, ClearAllowed,
           Truncate, TargetQueryFails, TargetReconnects, SourcesFail, SourcesClosed, Inspected, Dropped,
           Verified, Reacquire, QueryFails, QueryOnly, ThrowOnly, Throw, EndOperation, InspectOwned,
           TypeOK
  <1>3. CASE Call(c)
    BY <1>3 DEF Call, ForTest, Setup, Clear, Teardown, NestStart, NestInitialized, AppShutdown, TypeOK
  <1>4. CASE LeaseLost(c) \/ Crash(c) \/ TargetBreaks(c) \/ ServerNoticesTarget(c)
    BY <1>4 DEF LeaseLost, Crash, TargetBreaks, ServerNoticesTarget
  <1>5. ASSUME NEW d \in Context, d # c, ContextStep(d) PROVE FALSE
    BY <1>5, ContextFrame DEF Unmoved
  <1>6. CASE ServerStep
    BY <1>6, ServerKeepsContexts
  <1>7. CASE UNCHANGED vars
    BY <1>7
  <1>. QED
    BY <1>1, <1>2, <1>3, <1>4, <1>5, <1>6, <1>7, ContextSession DEF Next, ContextStep, Operation, ServerStep

\* Cleanup is over, and reset forgets the captured configuration, only when no
\* target connection, no session and no ownership is left (cleanup, teardown).
THEOREM ForgetsClean == Spec => ForgetsOnlyWhenClean
  <1>1. IInv /\ Use /\ Use' /\ [Next]_vars =>
          [\A c \in Context :
             (cleanupRequired[c] /\ ~cleanupRequired'[c]) \/ (config[c] # NoName /\ config'[c] # config[c]) =>
               /\ \A src \in Source : conn'[<<c, src>>] = NoOid
               /\ \A k \in SessionId : sess'[<<c, k>>] \in {"unused", "disposed"}
               /\ owned'[c] = NotOwned /\ sources'[c] = {} /\ lease'[c] = NoSession]_vars
    BY StepForgets DEF Use
  <1>. QED BY <1>1, Invariance, UseHolds, PTL DEF Spec, ForgetsOnlyWhenClean

\* Between the last check of the lease and TRUNCATE, a context that the server
\* still lets hold its lock is connected to the database it created.
TruncatesOwn ==
  \A c \in Context :
    pc[c] = "truncate" /\ backend[lease[c]] = "open" /\ conn[<<c, Main>>] # NoOid =>
      conn[<<c, Main>>] = owned[c].oid /\ creator[conn[<<c, Main>>]] = c

\* The check of the OID, the lock and the connection together say so
\* (clearTestDatabase after assertOwnership).
LEMMA TruncateFindsOwn == IInv /\ Use => TruncatesOwn
  <1>. SUFFICES ASSUME IInv, Use, NEW c \in Context, pc[c] = "truncate", backend[lease[c]] = "open",
                       conn[<<c, Main>>] # NoOid
                PROVE  conn[<<c, Main>>] = owned[c].oid /\ creator[conn[<<c, Main>>]] = c
    BY DEF TruncatesOwn
  <1>1. /\ CustodyOf(c) /\ TrackingOf(c) /\ KnowledgeOf(c) /\ AttachmentOf(c) /\ Main \in Source
    BY ContextAssumption DEF IInv, Catalog, Use, Custody, Tracking, Attachment
  <1>2. owned[c].oid # NoOid /\ ~cleanupRequired[c]
    BY <1>1 DEF CustodyOf, TrackingOf, InUse, ClearPc
  <1>. QED BY <1>1, <1>2 DEF CustodyOf, KnowledgeOf, AttachmentOf

\* The OID that assertOwnership read is the OID of the connection that clears.
LEMMA AssertFindsOwn ==
  ASSUME IInv, Use, [Next]_vars, NEW c \in Context, pc[c] # "clearName", pc'[c] = "clearName",
         conn'[<<c, Main>>] # NoOid
  PROVE  conn'[<<c, Main>>] = owned'[c].oid /\ creator'[conn'[<<c, Main>>]] = c
  <1>. /\ TypeOK /\ Control /\ CustodyOf(c) /\ AttachmentOf(c) /\ KnowledgeOf(c)
    BY DEF IInv, Catalog, Use, Custody, Attachment
  <1>1. CASE OwnershipAsserted(c)
    <2>1. /\ pc[c] = "clearOid" /\ answer[lease[c]] = "ok"
          /\ OidsNamed(c, config[c]) = {owned[c].oid}
          /\ UNCHANGED <<conn, owned, creator>>
      BY <1>1 DEF OwnershipAsserted, Answered, Throw, EndOperation, Goto, TypeOK
    <2>2. PICK r \in rows[lease[c]] : r[1] = config[c] /\ r[2] = owned[c].oid
      BY <2>1 DEF OidsNamed, Rows
    <2>3. conn[<<c, Main>>] = owned[c].oid
      BY <2>1, <2>2 DEF AttachmentOf
    <2>. QED BY <2>1, <2>3 DEF KnowledgeOf
  <1>2. CASE OpenSession(c) \/ CreateSessionFails(c) \/ Connected(c) \/ IdentityRead(c)
             \/ LockGranted(c) \/ LockBusy(c) \/ Created(c) \/ OidRead(c)
             \/ SourceInitialized(c) \/ SourceFails(c) \/ SchemaReady(c) \/ ClearAllowed(c)
             \/ Truncate(c) \/ TargetQueryFails(c) \/ TargetReconnects(c) \/ SourcesFail(c)
             \/ SourcesClosed(c) \/ Inspected(c) \/ Dropped(c) \/ Verified(c) \/ Reacquire(c)
             \/ CloseLease(c) \/ QueryFails(c)
    BY <1>2
       DEF OpenSession, CreateSessionFails, Connected, IdentityRead, LockGranted, LockBusy, Created,
           OidRead, SourceInitialized, SourceFails, SchemaReady, ClearAllowed, Truncate,
           TargetQueryFails, TargetReconnects, SourcesFail, SourcesClosed, Inspected, Dropped, Verified,
           Reacquire, CloseLease, QueryFails, QueryOnly, Query, ThrowOnly, Throw, EndOperation, Finish,
           Goto, InspectOwned, TypeOK
  <1>3. CASE Call(c)
    BY <1>3 DEF Call, ForTest, Setup, Clear, Teardown, NestStart, NestInitialized, AppShutdown, Query, Goto, TypeOK
  <1>4. CASE LeaseLost(c) \/ Crash(c) \/ TargetBreaks(c) \/ ServerNoticesTarget(c)
    BY <1>4 DEF LeaseLost, Crash, Goto, TargetBreaks, ServerNoticesTarget, TypeOK
  <1>5. ASSUME NEW d \in Context, d # c, ContextStep(d) PROVE FALSE
    BY <1>5, ContextFrame DEF Unmoved
  <1>6. CASE ServerStep
    BY <1>6, ServerKeepsContexts
  <1>7. CASE UNCHANGED vars
    BY <1>7
  <1>. QED
    BY <1>1, <1>2, <1>3, <1>4, <1>5, <1>6, <1>7, ContextSession DEF Next, ContextStep, Operation, ServerStep

\* clearTestDatabase clears only the database its context created, although it
\* connects by name and not on the session that holds the lock.
THEOREM ClearsOwn == Spec => ClearsOnlyItsOwn
  <1>1. IInv /\ Use /\ TruncatesOwn' /\ [Next]_vars =>
          [\A c \in Context :
             /\ conn'[<<c, Main>>] # NoOid
             /\ \/ pc[c] # "clearName" /\ pc'[c] = "clearName"
                \/ pc'[c] = "truncate" /\ backend'[lease'[c]] = "open"
             => conn'[<<c, Main>>] = owned'[c].oid /\ creator'[conn'[<<c, Main>>]] = c]_vars
    <2>. SUFFICES ASSUME IInv, Use, TruncatesOwn', [Next]_vars, NEW c \in Context, conn'[<<c, Main>>] # NoOid,
                         \/ pc[c] # "clearName" /\ pc'[c] = "clearName"
                         \/ pc'[c] = "truncate" /\ backend'[lease'[c]] = "open"
                  PROVE  conn'[<<c, Main>>] = owned'[c].oid /\ creator'[conn'[<<c, Main>>]] = c
      OBVIOUS
    <2>1. CASE pc[c] # "clearName" /\ pc'[c] = "clearName"
      BY <2>1, AssertFindsOwn
    <2>2. CASE pc'[c] = "truncate" /\ backend'[lease'[c]] = "open"
      BY <2>2 DEF TruncatesOwn
    <2>. QED BY <2>1, <2>2
  <1>. QED BY <1>1, TruncateFindsOwn, Invariance, UseHolds, PTL DEF Spec, ClearsOnlyItsOwn
=============================================================================
