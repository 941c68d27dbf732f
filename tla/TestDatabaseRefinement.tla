----------------------- MODULE TestDatabaseRefinement -----------------------
(***************************************************************************)
(* TestDatabase implements ExclusiveTarget: every step of the processes,   *)
(* the server and the outsiders is a step of the abstract targets or       *)
(* leaves them alone.  What makes a CREATE or a DROP legal there is the    *)
(* inductive invariant: the statement still runs on the lock's holder, and *)
(* a DROP finds what its own process created.                              *)
(***************************************************************************)
EXTENDS TestDatabaseProofs

USE DEF vars, pgVars, serverVars, stmtVars, stateVars, leaseVars, envVars, Exclusive!vars

\* The lock, the catalog and the creators before anything ran (forTest).
LEMMA InitRefines == Init => Exclusive!Init
  <1>. SUFFICES ASSUME Init PROVE Exclusive!Init
    OBVIOUS
  <1>1. catalog = [n \in Name |-> NoOid]
    BY DEF Init, PgInit
  <1>. QED BY <1>1 DEF Init, PgInit, Exclusive!Init

\* What the library does between two awaits changes no target: it only sends
\* statements and closes connections (every method of SharedDatabaseModule).
LEMMA ContextStutters ==
  ASSUME NEW c \in Context, ContextStep(c)
  PROVE  UNCHANGED <<catalog, creator, lock>>
  <1>1. CASE Call(c)
    BY <1>1 DEF Call, ForTest, Setup, Clear, Teardown, NestStart, NestInitialized, AppShutdown,
                QueryOnly, ThrowOnly
  <1>2. CASE Operation(c)
    <2>1. CASE OpenSession(c) \/ CreateSessionFails(c) \/ Connected(c) \/ IdentityRead(c)
               \/ LockGranted(c) \/ LockBusy(c)
      BY <2>1 DEF OpenSession, CreateSessionFails, Connected, IdentityRead, LockGranted, LockBusy,
                  QueryOnly, ThrowOnly
    <2>2. CASE Created(c) \/ OidRead(c) \/ SourceInitialized(c) \/ SourceFails(c) \/ SchemaReady(c)
      BY <2>2 DEF Created, OidRead, SourceInitialized, SourceFails, SchemaReady, QueryOnly, ThrowOnly
    <2>3. CASE OwnershipAsserted(c) \/ ClearAllowed(c) \/ Truncate(c) \/ TargetQueryFails(c)
               \/ TargetReconnects(c)
      BY <2>3 DEF OwnershipAsserted, ClearAllowed, Truncate, TargetQueryFails, TargetReconnects, ThrowOnly
    <2>4. CASE SourcesFail(c) \/ SourcesClosed(c) \/ Inspected(c) \/ Dropped(c) \/ Verified(c)
      BY <2>4 DEF SourcesFail, SourcesClosed, Inspected, Dropped, Verified, QueryOnly
    <2>5. CASE Reacquire(c) \/ CloseLease(c) \/ QueryFails(c)
      BY <2>5 DEF Reacquire, CloseLease, QueryFails
    <2>. QED BY <1>2, <2>1, <2>2, <2>3, <2>4, <2>5 DEF Operation
  <1>3. CASE LeaseLost(c) \/ Crash(c) \/ TargetBreaks(c) \/ ServerNoticesTarget(c)
    BY <1>3 DEF LeaseLost, Crash, TargetBreaks, ServerNoticesTarget
  <1>. QED BY <1>1, <1>2, <1>3 DEF ContextStep

\* A statement of a session is a step of that session on its target, or none
\* (acquireLease, createLockedDatabase, cleanup).
LEMMA ExecuteRefines ==
  ASSUME IInv, NEW s \in Session, Execute(s)
  PROVE  [Exclusive!Next]_(Exclusive!vars)
  <1>1. CASE ExecConnect(s) \/ ExecIdentity(s) \/ ExecSelect(s)
    BY <1>1 DEF ExecConnect, ExecIdentity, ExecSelect
  <1>2. CASE ExecLock(s)
    <2>1. stmt[s].name \in Name
      BY <1>2 DEF ExecLock, Running, IInv, Sessions, SessionOf
    <2>2. CASE lock[stmt[s].name] = NoSession
      <3>1. Exclusive!Acquire(s, stmt[s].name)
        BY <1>2, <2>2 DEF ExecLock, Exclusive!Acquire
      <3>. QED BY <2>1, <3>1 DEF Exclusive!Next, Exclusive!Session, Session
    <2>3. CASE lock[stmt[s].name] = s
      <3>1. lock' = lock
        BY <1>2, <2>1, <2>3 DEF ExecLock, IInv, TypeOK, PgTypeOK
      <3>. QED BY <1>2, <3>1 DEF ExecLock
    <2>4. CASE lock[stmt[s].name] \notin {NoSession, s}
      BY <1>2, <2>4 DEF ExecLock
    <2>. QED BY <2>2, <2>3, <2>4
  <1>3. CASE ExecCreate(s)
    <2>1. stmt[s].name \in Name /\ lock[stmt[s].name] = s
      BY <1>3 DEF ExecCreate, Running, IInv, Sessions, SessionOf
    <2>2. CASE UNCHANGED <<catalog, creator>>
      BY <1>3, <2>2 DEF ExecCreate
    <2>3. CASE ~UNCHANGED <<catalog, creator>>
      <3>1. Exclusive!Create(s, stmt[s].name)
        BY <1>3, <2>1, <2>3 DEF ExecCreate, OwnerOf, Exclusive!Create
      <3>. QED BY <2>1, <3>1 DEF Exclusive!Next, Exclusive!Session, Session
    <2>. QED BY <2>2, <2>3
  <1>4. CASE ExecDrop(s)
    <2>1. stmt[s].name \in Name /\ lock[stmt[s].name] = s
      BY <1>4 DEF ExecDrop, Running, IInv, Sessions, SessionOf
    <2>2. OwnTarget(stmt[s].name, s[1])
      BY <1>4 DEF ExecDrop, Running, IInv, Catalog, CatalogOf
    <2>3. CASE UNCHANGED catalog
      BY <1>4, <2>3 DEF ExecDrop
    <2>4. CASE ~UNCHANGED catalog
      <3>1. Exclusive!Drop(s, stmt[s].name)
        BY <1>4, <2>1, <2>2, <2>4 DEF ExecDrop, OwnTarget, Exclusive!Drop
      <3>. QED BY <2>1, <3>1 DEF Exclusive!Next, Exclusive!Session, Session
    <2>. QED BY <2>3, <2>4
  <1>. QED BY <1>1, <1>2, <1>3, <1>4 DEF Execute

\* The end of a backend releases what its session held.
LEMMA EndRefines ==
  ASSUME NEW s \in Session, EndBackend(s)
  PROVE  [Exclusive!Next]_(Exclusive!vars)
  <1>1. Exclusive!Release(s)
    BY DEF EndBackend, Exclusive!Release
  <1>. QED BY <1>1 DEF Exclusive!Next, Exclusive!Session, Session

\* Outsiders change only targets nobody holds (the exclusive control that the
\* documents ask of them).
LEMMA OutsideRefines ==
  ASSUME IInv, OutsideDDL
  PROVE  [Exclusive!Next]_(Exclusive!vars)
  <1>1. catalog \in [Name -> Oid \cup {NoOid}] /\ creator \in [Oid -> Actor \cup {Nobody, Outsider}]
    BY DEF IInv, TypeOK, PgTypeOK
  <1>2. PICK n \in Name :
          /\ lock[n] = NoSession
          /\ \/ catalog[n] # NoOid /\ catalog' = [catalog EXCEPT ![n] = NoOid] /\ UNCHANGED creator
             \/ \E o \in Oid :
                  /\ creator[o] = Nobody
                  /\ catalog' = [catalog EXCEPT ![n] = o]
                  /\ creator' = [creator EXCEPT ![o] = Outsider]
             \/ \E m \in Name \ {n} :
                  /\ catalog[n] # NoOid /\ catalog[m] = NoOid /\ lock[m] = NoSession
                  /\ catalog' = [catalog EXCEPT ![n] = NoOid, ![m] = catalog[n]]
                  /\ UNCHANGED creator
    BY DEF OutsideDDL
  <1>3. \A m \in Name : lock[m] # NoSession => catalog'[m] = catalog[m]
    BY <1>1, <1>2
  <1>4. \A o \in Oid : creator'[o] = creator[o] \/ (creator[o] = Nobody /\ creator'[o] = Outsider)
    BY <1>1, <1>2
  <1>5. Exclusive!Outside
    BY <1>3, <1>4 DEF OutsideDDL, Exclusive!Outside
  <1>. QED BY <1>5 DEF Exclusive!Next

\* Every step of the lifecycle is a step of the exclusive target, or none.
LEMMA StepRefines == IInv /\ [Next]_vars => [Exclusive!Next]_(Exclusive!vars)
  <1>. SUFFICES ASSUME IInv, [Next]_vars PROVE [Exclusive!Next]_(Exclusive!vars)
    OBVIOUS
  <1>1. ASSUME NEW c \in Context, ContextStep(c) PROVE [Exclusive!Next]_(Exclusive!vars)
    BY <1>1, ContextStutters
  <1>2. ASSUME NEW s \in Session, SessionStep(s) PROVE [Exclusive!Next]_(Exclusive!vars)
    <2>1. CASE ServerExecutes(s)
      BY <2>1, ExecuteRefines DEF ServerExecutes
    <2>2. CASE ServerNotices(s)
      BY <2>2, EndRefines DEF ServerNotices
    <2>3. CASE ServerDisconnects(s)
      BY <2>3, EndRefines DEF ServerDisconnects
    <2>4. CASE Recycle(s)
      BY <2>4 DEF Recycle, RecycleBackend
    <2>. QED BY <1>2, <2>1, <2>2, <2>3, <2>4 DEF SessionStep
  <1>3. CASE OutsideActs
    BY <1>3, OutsideRefines DEF OutsideActs
  <1>4. CASE UNCHANGED vars
    BY <1>4
  <1>. QED BY <1>1, <1>2, <1>3, <1>4, ContextSession DEF Next

\* The processes together implement a target with one holder at a time, which
\* alone creates it and drops it, and drops only what it created (acquireLease,
\* createLockedDatabase, cleanup).
THEOREM ImplementsExclusiveTarget == Spec => TargetIsExclusive
  <1>. QED
    BY InitRefines, StepRefines, Invariance, PTL DEF Spec, TargetIsExclusive, Exclusive!Spec
=============================================================================
