# Verification of @lyrolab/nest-shared

TLA+ models of the library's stateful parts, checked with TLC on small instances and proved with
TLAPS for every instance where that is possible. The library is a set of NestJS modules shared by
several services. Much of it wires third-party packages. The part with the most protocol of its own, with
processes, sessions, locks, deadlines and partial failures, is `src/src/database`; the others that keep
state across an await are the guards of a request (`auth`, `rate-limit`), the Keycloak client and the
queues. Each has its model here.

Every definition is translated from the source. `PROJECT.json` names, for every definition that
stands for code, the file and the lines, and lists the hazards that the properties are aimed at.

## 1. Inventory

### 1.1 Test databases (`src/src/database`)

**SharedDatabaseModule** (`shared-database.module.ts`). Gives a test process a database of its own.
State: static fields, one set per process: the running operation, the captured options and
configuration (name, base URL, invocation), `owned` (name, OID, `dropAttempted`), the lease
(a `TestDatabaseSession`) with `leaseLocked`, the set of tracked `DataSource`s, the number that is
initializing, `testDataSource`, `cleanupRequired`.
Operations: `forTest`, `setupTestDatabase`, the data source factory and shutdown hook of the Nest
modules, `clearTestDatabase`, `closeTestConnection`, `resetTestDatabase`.
Interactions: one administration session on the base database holds a session advisory lock from
before `CREATE DATABASE` until after `DROP DATABASE`; any number of target connections attach by
name; other processes and outsiders act on the same server.
Hard: every await is a point where the session dies, the answer is lost, the catalog changes or the
process is killed; cleanup is retried on a new session.
Correct means: DDL only under the lock; drops only what this process created; nothing the process
opened escapes its state; state is forgotten only when everything is gone; retries converge.

**TestDatabaseSession** (`helpers/test-database-session.ts`). One `pg` client with its socket.
State: broken, the running operation, the memoised close promise, the failures already reported.
Operations: `create`, `query`, `healthy`, `close`, the socket's events.
Hard: any failure, an SQL error included, interrupts the session; `close` has a graceful and a forced
half, and remembers a rejection for ever. Correct means: a closed session is really closed or the
close rejects, and a session that failed never looks healthy again.

**Identity** (`helpers/test-database-identity.ts`). Name and lock key from namespace, worker,
process and invocation: pure. Correct means: bounded length, distinct inputs distinct names up to
the hash.

**Recovery** (`recover-test-database.ts`, `internal/*`). Deletes one exact retained database from a
fresh process, by way of a supervised child. Parent: result, outcome, failures, permission, timers,
pending sends, exit and disconnection of the child. Child: state, session, permit promise, fence
timer, messages sent. Engine: connect, lock, inspect, drop, verify. They exchange `ready`, `start`,
`phase`, `request-drop`, `permit`, `cancel`, `close`, `closing`, `finish`, `result`.
Hard: deadlines of both sides, cancellation crossing the permit, exit and channel loss at any point,
sixteen messages at most. Correct means: at most one permit; `not-attempted` means no DROP was or will
be executed; success means the database is verified absent, the child gone and nothing pending; the
call always settles; the kill fence is never postponed.

**Recovery input** (`helpers/test-database-recovery-input.ts`). Validates untrusted options into a
frozen record, within one time budget. Pure.

**Exception filter, CLI data source, main path.** Stateless.

### 1.2 The rest

| Part | State | Operations and interactions | Hard | Correct means |
|---|---|---|---|---|
| Rate limiting (`rate-limit`) | Redis counter and block key per client and rule | Lua script `increment`; guard `canActivate` over the rules in order | many replicas, expiry between steps, a block shorter than its window, storage failure half way | never more than `limit` hits let through in a window; a block lasts its duration; failure policy respected |
| Keycloak administration (`keycloak-admin`) | cached token, shared token request | `adminRequest` with one resend after 401; `updateUser` reads, merges, writes | requests that share one token request; a 401 for an older token | at most one resend; a fresh token is not discarded; an update keeps the other attributes |
| Queue (`queue`) | job registry; schedulers in Redis | load, `addBulk`, `syncSchedulers`, `process`, `shouldProcessJob` | several processes at start-up; two active repeats | stale schedulers go, current ones stay; a non-concurrent job runs once at a time, and runs |
| Authentication (`auth`) | provisioning cache; key client per issuer | guard, strategy, roles | a slow provisioning overwrites a newer one | a user from the cache is the caller, and no older than the lifetime of an entry and the time of provisioning |
| Storage (`storage`) | objects | put, get, delete, list in memory and on S3 | little | the memory service behaves as the S3 one |
| AI (`ai`) | cache | `wrapGenerate` | stream errors | only complete answers are cached |
| Telemetry (`observability`) | memoised shutdown | bounded shutdown | timeout against completion | settles once, within the bound |
| Redis, cache, BullMQ, CASL, configuration, bootstrap, health | none of their own | wiring | - | - |
| Lint rules (`eslint`, `oxlint`) | none | static checks of sources | - | - |

## 2. Plan

Order: what can destroy data first, then what several requests or processes share.

1. **Lifecycle of a test database** (done): `Postgres`, `TestDatabase`, `ExclusiveTarget`, and the
   proofs.
2. **Recovery** (done): `Recovery` (parent, child, channel and engine), the abstract
   `RecoveryOutcome` (what a caller may conclude from `removed`, `already-absent`, `not-attempted`,
   `unknown`) and the refinement between them. Left: the composition of a recovering actor with the
   contexts of `TestDatabase` over one `Postgres`, in place of the participants that `PeerActs` stands for.
3. **Identity, recovery input and transport** (done): `TestIdentity` and `Session`, the abstract
   `SessionPromise` (what the lifecycle and the recovery rely on in a session) and the refinement
   between them.
4. **The way of a request through the guards** (done): `RateLimit`, and `Access` over it.
5. **Keycloak** (done): `KeycloakAdmin`, with the stub as an operator that the service is compared with.
   **Queues** (done): `Queues`.
6. Left: the in-memory and S3 storage against each other, and the bounded shutdown of the telemetry.

Theorems: every safety invariant and every action property that a run checks is proved, with the inductive
invariant it needs (section 5), and so are the steps of the three refinements (`ExclusiveTarget`,
`RecoveryOutcome`, `SessionPromise`). Left for proofs: what the composition above will claim. Liveness stays with TLC.

## 3. Modules

| Module | Models |
|---|---|
| `Postgres` | the server, external: catalog, advisory locks, backends, statements sent, executed and answered, target connections, outsiders |
| `TestDatabase` | SharedDatabaseModule in several processes, with the client's view of its sessions; EXTENDS `Postgres` |
| `ExclusiveTarget` | the abstract promise: one holder per target, which alone creates and drops it, and drops only its own |
| `MCTestDatabase` | symmetry sets; five configurations |
| `TestDatabaseInvariant` | the inductive invariant `IInv`: typing, control, sessions, catalog |
| `TestDatabaseProofs` | its proof and the theorems that follow |
| `TestDatabaseUse`, `TestDatabaseUseProofs` | the second half of the invariant, `Use`, with its proof: tracking, custody, absence, attachment |
| `TestDatabaseRefinement` | the proof that `TestDatabase` implements `ExclusiveTarget` |
| `Recovery` | one call of `recoverTestDatabase`: parent, child, channel, engine; EXTENDS `Postgres` |
| `RecoveryOutcome` | the abstract promise: what the reported outcome says of the server, now and later |
| `RecoveryInvariant`, `RecoveryProofs` | the inductive invariant of the recovery, and its proofs |
| `MCRecovery` | where others act besides the call; the retained database of the liveness run; two configurations |
| `TestIdentity` | the capture of invocation, identity, configuration and options, the name, and `captureRecoveryInput` |
| `Session` | `TestDatabaseSession`: creation, the events of the socket and of pg's client, operations, close; EXTENDS `TestIdentity`, whose capture decides which session is made |
| `SessionPromise` | the abstract promise: a failure makes a session unhealthy for good; close ends once; disposed means nothing is under way |
| `SessionInvariant`, `SessionProofs` | the inductive invariant of the capture and the session, and its proofs |
| `MCSession` | URLs, options and deviations of a recovery's options |
| `RateLimit` | `RedisThrottlerStorage`'s script over expiring keys, and the resolution of rules |
| `Access` | the guards of overlapping requests, the issuer registry, key clients, provisioning cache and Redis failures; EXTENDS `RateLimit` |
| `AccessInvariant`, `AccessProofs` | the inductive invariant of the guards and the counters, and its proofs |
| `MCAccess` | five applications; two configurations |
| `KeycloakAdmin` | `KeycloakAdminService`, Keycloak (external), and `StubOutcome` for `KeycloakAdminStubService` |
| `KeycloakAdminInvariant`, `KeycloakAdminProofs` | the inductive invariant of the shared token and the calls, and its proofs |
| `MCKeycloakAdmin` | two users and four kinds of call |
| `Queues` | `SharedQueueModule` in several processes of several releases; BullMQ's schedulers and jobs (external) |
| `QueuesInvariant`, `QueuesProofs` | the inductive invariant of synchronisations, schedulers and jobs, and its proofs |
| `MCQueues` | three releases and three starting points |

How they compose. `Session` is to `TestDatabase` and `Recovery` what the transport is to its users: both
see a session only as healthy or not, an operation that is answered or fails, and a close that ends in
success, in a failure that is disposed all the same, or in one that is not (`sess` is `open`, `broken`,
`disposed`, `stuck`). That is `SessionPromise`, which `Session` implements. `Access` runs the guards in the
order in which an application registers them, so that the rate limit counts by the caller that the strategy
has established.

### 3.1 State

| Variable | Code |
|---|---|
| `pc[c]`, `busy[c]` | the await the running operation is in, and `operation` |
| `config[c]` | `testOptions` and `configuration`, reduced to the captured database name |
| `owned[c]` | `owned` (`{name, oid, dropAttempted}`; no name: undefined) |
| `lease[c]`, `leaseLocked[c]` | `lease`, `leaseLocked` |
| `sources[c]`, `initializing[c]`, `testDataSource[c]`, `cleanupRequired[c]` | the fields of the same names (`initializing` is a count in the code) |
| `sess[s]` | the client's session: `open` (healthy), `broken`, `disposed` (closed and confirmed), `stuck` (close could not be confirmed) |
| `stmt[s]`, `answer[s]`, `rows[s]` | the last statement, what became of it, the catalog rows in its answer |
| `catalog`, `creator`, `lock`, `backend`, `conn` | the server; `creator` is history, to state ownership |
| `faults`, `outside` | spent budgets (`MaxFaults`, `MaxOutside`) |

Of `Recovery`:

| Variable | Code |
|---|---|
| `call` | the promise of `superviseRecovery`; `crashed` when its process is gone |
| `phase`, `outcome`, `ready`, `requested`, `permitted`, `closing`, `terminal`, `childClosing`, `pendingSends`, `exited`, `disconnected` | the parent's variables of the same names (`childClosing` is a set of at most one observation) |
| `primary`, `closeFailed` | `failures`: its first member besides `CLOSE_FAILED`, and whether that one is in it |
| `late`, `closeTimer` | the work deadline has passed; which of `forceTimer` and `finalTimer` is next |
| `toChild`, `toParent`, `connected` | the IPC channel |
| `child`, `cpc` | the process; the await `executeRecovery` or `finishWork` is in |
| `stopReason`, `allocated`, `closeReceived`, `childLate` | `controller.signal.reason`, `gracefulUntil` given, `closeReceived`, `workUntil` has passed |
| `condemned` | SIGKILL is sent, or the child's `fence` is armed |
| `observation`, `session` | what the engine reports; the client's administration session |
| `dropped` | history: the server has executed a DROP of this call |

Of `Session` and `TestIdentity`:

| Variable | Code |
|---|---|
| `invocation`, `identity`, `configuration`, `testOptions` | the static fields of the same names |
| `env`, `reported` | the environment (DATABASE_URL, worker pool id); history: what `getTestDatabaseInfo` has returned last |
| `input`, `stage`, `todo`, `file`, `aborted` | the captured record, and the await of `create`: certificates still to be read, the open one, the signal |
| `stopping`, `lost`, `confirmed` | the fields of the same names (`confirmed` is what `disposed` answers) |
| `connected`, `socket`, `ended`, `ending` | connect was called; the socket from `new` to `closed`; pg's `end` event; the promise of `client.end()` |
| `call[o]`, `promise[o]`, `until[o]` | what the caller of an operation knows, pg's own promise (a member of `pending` until it settles), the timeout |
| `closing`, `failed`, `began`, `budget` | the half that close is in, whether it will reject, its start and `timeoutMs` |

Of `Access` and `RateLimit`:

| Variable | Code |
|---|---|
| `app` | the options and routes of the application, chosen once |
| `registry`, `clients`, `resolved` | what `resolveIssuer` answers now; the strategy's map of key clients; the configuration kept for each request |
| `cache` | the provisioning cache with its expiries |
| `req[r]` | the guard a request is in, what it has established so far, and its answer |
| `hits`, `blocks` | the two Redis keys of a bucket |
| `late` | commands that Redis may still execute for requests that wait no longer |
| `window`, `vouched` | history: the window's start, approvals and promised block; every key URI the resolver ever gave |

Of `KeycloakAdmin`:

| Variable | Code |
|---|---|
| `token`, `tokenRequest` | `token`, `pendingToken` |
| `call[i]` | the await of a call: its step (read, main), attempt, token and deadline, the profile it read, its result |
| `users`, `issued`, `reply` | Keycloak: profiles, tokens, the answer to each call's request |
| `executed` | history: how often Keycloak did what a call asked for |

Of `Queues`:

| Variable | Code |
|---|---|
| `release[p]` | the options and registered processors of a process, or `Down` |
| `sync[p][q]` | where `syncSchedulers` of a queue's processor is, and the names left |
| `schedulers`, `jobs` | BullMQ's keys in Redis |
| `run[p][i]` | `process` of a job: its check for an active repeat, or the processor itself |
| `disturbed`, `at`, `by` | history: whose synchronisation may have been undone; who dropped and who put a job |

### 3.2 Actions

An action is what one context does from one await to the next: it reads the answer, changes the static
state and dispatches the next statement. A statement is sent, executed and answered in three steps, so
that the client may give up on a statement the server still executes, or lose the answer of one it has.

| Code | Actions |
|---|---|
| `forTest`, `setupTestDatabase` | `ForTest`, `Setup` |
| `acquireLease` | `OpenSession`, `CreateSessionFails`, `Connected`, `IdentityRead`, `LockGranted`, `LockBusy`, and `Reacquire` for the close that precedes it in a retry |
| `setup` | `Created`, `OidRead`, `SourceInitialized`, `SourceFails`, `SchemaReady`; its catch is `Throw` |
| the data source factory and `TestDatabaseShutdown` | `NestStart`, `NestInitialized`, `AppShutdown` |
| `clearTestDatabase`, `assertOwnership` | `Clear`, `OwnershipAsserted`, `ClearAllowed`, `Truncate`, `TargetQueryFails`; the pool: `TargetBreaks`, `TargetReconnects` |
| `teardown` and `cleanup` | `Teardown`, `SourcesClosed`, `SourcesFail`, `Inspected`, `Dropped`, `Verified`, `CloseLease`, `Finish` |
| `TestDatabaseSession` | `Query`, `QueryFails`, `LeaseLost`, `Close` |
| server and surroundings | `ServerExecutes`, `ServerNotices`, `ServerDisconnects`, `ServerNoticesTarget`, `Recycle`, `Crash`, `OutsideActs` |

Of `Recovery`:

| Code | Actions |
|---|---|
| parent's `onMessage` | `OnMessage`, with `OnReady`, `OnPhase`, `OnRequestDrop`, `OnClosing`, `OnResult` |
| parent's timers, signal, sends | `DeadlinePasses`, `WorkTimer`, `ForceTimer`, `FinalTimer`, `Abort`, `SendSettles` |
| parent's `onError`, `onExit`, `onDisconnect`, `onClose` | `SpawnFails`, `OnExit`, `OnDisconnect`, `OnClose` |
| child's start and `onMessage` | `ChildBoots`; `ChildReads`, with `OnStart`, `OnPermit`, `OnCancel`, `OnCloseMessage`, `OnFinish` |
| child's timers, `disconnect`, fence, exit | `ChildDeadlinePasses`, `ChildWorkTimer`, `ChildDisconnects`, `ChildKilled`, `ChildExits` |
| `executeRecovery` | `SessionCreated`, `IdentityRead`, `LockGranted`, `LockBusy`, `Inspected`, `Rechecked`, `Confirmed`, `Dropped`, `Verified`; its catch is `EngineFails` and `Interrupted` |
| `finishWork` after the allocation | `SessionClosed` |
| server and surroundings | `ServerExecutes`, `ServerEnds`, `SessionLost`, `ParentCrash`, `OthersAct` |

Of the others:

| Code | Actions |
|---|---|
| `initializeTestInvocation`, `forTest`, `getTestDatabaseInfo`, `resetTestDatabase` | `InitializeTestInvocation`, `ForTest`, `GetTestDatabaseInfo`, `Reset`; `EnvChanges` |
| `TestDatabaseSession.create`, for the lease or a recovery | `Lease`, `Recover`, `OpenFile`, `ReadFile`, `Made`, `Abort` |
| its operations | `Connect`, `Query`, `Answers`, `Rejects`, `TimesOut`, `Interrupt` |
| its socket and client events | `SocketBreaks`, `SocketCloses`, `ClientEnds` |
| its close | `BeginClose`, `EndFails`, `HalfTimer`, `Confirms`, `FinalTimer` |
| `JwtAuthGuard`, `JwtStrategy` | `Arrive`, `ResolverAnswers`, `KeyAnswers`, `AuthFails`; the surroundings: `RegistryChanges` |
| provisioning guard | `CacheAnswers`, `Provisions`, `CacheStores`, `ProvisioningFails`; `Evicts` |
| `RolesGuard` | `Guarded`, part of the step that precedes it |
| `RateLimitGuard` | `RecordArrives`, `ScriptFails`, `StorageFails`; Redis: `RedisExecutes`, `LateCommand` |
| `getToken`, `requestToken` | `GetToken` (part of the step that asks for it), `TokenArrives`, `TokenFails`, `TokenTimeout` |
| the operations of `KeycloakAdminService` | `Start`, `ProfileRead`, `Unauthorized`, `Completes`, `Malformed`, `ConnectionBreaks`, `TimesOut` |
| Keycloak | `Mint`, `Revoke`, `Serves`, `Unauthenticated`, `Refuses` |
| module and registry of the queues | `Boot`, `LoadFails`, `Exits` |
| `syncSchedulers` | `Lists`, `Removes`, `RemovesSettle`, `Upserts`, `UpsertFails`, `Synced` |
| `QueueService`, the worker's `process` | `Add`, `Takes`, `Checks`, `Finishes`; BullMQ: `Fires`, `Stalls` |

### 3.3 Choices a reader should know

- A close that is confirmed by the client does not release the lock: the server notices later
  (`ServerNotices`). The README of the database module says so itself ("Local socket closure also does
  not prove immediate server lock release").
- A session name is given again (`Recycle`) once it is over on both sides, so that a small `SessionId`
  covers any number of retries. `sess = "stuck"` is never recycled: `close()` keeps its rejected promise.
- All tracked sources are closed in one step, with any subset failing. The code closes them one after the other
  and collects the failures; whatever fails, the others are closed as well, and nothing in between reads the set.
- `OutsideDDL` acts only on targets that nobody has locked and nobody is connected to. The library
  cannot exclude outsiders that ignore the lock, and its documentation demands exclusive control.
- A target connection stays attached to the OID it was opened on. The pool of the factory's source, on which
  `clearTestDatabase` runs, may lose its connection without anyone noticing and opens another one by name for the
  next query (`TargetBreaks`, `TargetReconnects`). TRUNCATE is therefore only safe under the lock: when the server has ended
  the lease, the client has not noticed, the target connection broke as well, and an outsider replaces the database
  between the check of the OID and the TRUNCATE, the replacement is cleared. `ClearsOnlyItsOwn` is stated up to
  that, and the documentation demands exclusive control. The pools of Nest sources are not followed: a
  broken one is as good as a closed one for a DROP, and a DROP that meets a new connection fails and is retried.
- In `Recovery` a deadline is a boolean that becomes true at some time, in each process on its own: the
  code compares clocks of two processes. A timer fires at any time after its deadline, so a result may
  arrive after the deadline and before the timer. The values of deadlines are not modelled there, so that
  it is not shown that a fence is never postponed. The halves of a session's own close budget are modelled, and
  shown to add up to no more than the budget, in `Session`.
- The connection, the timeouts it sets and the identity of the base session are one exchange, as are the
  import of the engine and the creation of the session: nothing else can happen between them that could not
  happen before or after.
- The event of the child's exit may come before its last messages; the end of the channel comes after
  them. A child that is killed may have written less than it said (`ChildKilled` keeps a prefix).
- Absence is final for one inspection only: an outsider, or another participant, may create the name again
  right after it. `SuccessIsClean` therefore speaks of the OID, under any name.
- Not modelled in `Recovery`: the refusals before the child is spawned, a message that does not parse and
  the limit of sixteen messages (a child that follows the protocol says eight, and is sent six at most), an
  exception thrown by the send itself, and an error event of a child that is running.
- Names, OIDs and sessions are model values in the lifecycle and the recovery. Options, URL and invocation
  are captured together there and are reduced to one name; `TestIdentity` has them one by one.
- A base name is the offsets at which its characters end in UTF-8; a name is such a base name, cut within 63 bytes, and a digest that is
  as good as its inputs: collisions of the hash are left out. Certificates and URLs are verdicts of each value.
- `ReportedIsRecoverable` says exactly which reported identities a recovery refuses (`NotTaken`), and that it takes
  every other one. It refuses a URL that `captureTestDatabaseBase` refuses: another protocol, no host or role, a port out of range, a fragment, a query
  key that is unknown or there twice, an unknown `sslmode`. `getTestDatabaseInfo` reports under such a URL, since it asks only for
  the base name; no lease is opened under it either, because the session captures the same base. It refuses a URL over
  16,384 bytes, a role over 63 bytes, and a namespace or worker id that UTF-8 does not keep (a lone surrogate) or over 65,536 bytes,
  all of which the capture accepts. It refuses a URL that names certificate files, which serves a lease: a recovery
  takes certificates in memory, and its caller rewrites the URL. And a base name that starts with `pg_`
  yields test databases that recovery then refuses as `UNSAFE_TARGET`.
- `Session` follows the capture until a session is made, and then that one session (`CaptureEnds`): the
  session reads nothing of it again.
- A key of Redis is there until the tick after the one it expires at, where `PTTL` is 0. In that tick a rule
  with `blockDuration: 0` makes the script's `SET` with `PX 0` an error, after the hit was counted; under the
  policy `allow` the request over the limit is then let through as after any storage failure.
- The key client of an issuer is made with the first configuration that the resolver gave and stays for the
  life of the process. That keys and roles come from one decision is therefore false, and a finding (`VerifiedAsResolved`,
  section 4). What holds is `TrustIsPerIssuer`: the keys were given for the caller's own issuer at some time, never for
  another's, and roles are trusted only under the configuration of this very request.
- A rule of a route overrides the registered one with every field that it has. A field that it has as `undefined` counts (`Undefined`),
  and undoes a registered block or key; one that it does not have (`Absent`) leaves the registered value.
- A user of the provisioning cache may be older than its entry by the time that provisioning takes, since a
  slow answer is stored after a newer one: `UserIsCurrent` allows the lifetime plus that time (`Slow`).
- In `KeycloakAdmin` the profile is fields and attributes over a few values, and a body says for each what
  is written, emptied or left out. An update of attributes reads the profile and writes it whole, so that
  what another writer did in between is lost; `StubAgrees` is claimed for a profile that has not changed.
- A token response that is not JSON, or whose body is cut off by the timeout, rejects with an error of its
  own (`untyped` in the model), not with one of the service's classes.
- In `Queues` a release with another cron pattern or another queue for a job replaces its scheduler. One that
  drops the pattern of a job, or the job, leaves the scheduler in Redis, and its workers drop what it
  fires. `SchedulersSettle` says nothing of those names. Two repeats of a job that start together
  may see each other and both be skipped: `JobsRunApart` is exclusion, and no liveness is claimed.

## 4. What TLC checks

| Run | Instance | Shows |
|---|---|---|
| `lifecycle` | one process, two sources, two sessions, two names, two OIDs, two faults, one outside change | typing; `Use`, the second half of the inductive invariant; DDL under lock; own drops; a strayed connection is found, and under the lease clear hits only the own database; nothing untracked; ownership given up only when the database is gone; state forgotten only when clean; refinement of `ExclusiveTarget` |
| `contention` | two processes, one name, one session name each, two OIDs, one fault, one outside change | use under lock between processes; the first half of the inductive invariant, which implies typing, DDL under lock and own drops; no deadlock |
| `retry` | one process that retries cleanup, with fairness | every operation settles and cleanup converges, unless TypeORM never answers |
| `recovery` | two names, two OIDs, one delayed send callback, one fault, or two changes by other participants or outsiders | parent and child never misread each other; refinement of `RecoveryOutcome`; the fence of the inductive invariant; only the acquired database is dropped; success means that no name stands for it, with a clean end and nothing pending |
| `recovery_settles` | one name, one OID, one fault, with fairness | the inductive invariant; the call settles; no child survives |
| `session` | nine URLs, two workers, three namespaces; one session with connect and two queries, two close budgets | the inductive invariant; what is reported can be recovered; close tells the truth within its budget; refinement of `SessionPromise` |
| `access` | five applications, two or three requests, two issuers with a subject of the same name, one change of the registry, one failure, three ticks | the inductive invariant; whoever is admitted passed every guard; keys are of the caller's issuer and roles of the configuration resolved for it; the user is the caller's and current; limits and blocks hold, also when two routes count in one bucket under different limits; every request is answered |
| `keycloak` | two calls of four kinds on two users, one fault, four ticks | the inductive invariant; outcomes are true and nothing is executed twice; a resend never carries the refused token; no token in use has expired; service and stub agree; every call settles |
| `queues` | two processes, three releases, two cron jobs, two queues, two jobs, four events | the inductive invariant; schedulers settle on the release that runs; repeats run apart and jobs are dropped only by another release |
| `lost_create` | as `lifecycle`, without sources of applications | a finding, below |
| `lease_loss` | as `lifecycle`, small | a finding, below |
| `key_rotation` | as `access` | a finding, below |

**Bounds** of the lifecycle. `lifecycle` and `retry` allow two faults, `contention` and the findings
of the lifecycle one: enough for every single failure at every await, and for a failed attempt whose retry fails again;
what follows a fault without being one itself (the server noticing, the statement failing on a lost
session, a stuck session rejecting again) costs nothing. One outside change covers replacement between
any two statements: a drop, a new database under the name, a rename away. Two OIDs are the own database
and another one under the same name; with both issued, `CREATE` fails as if there were no room. Two
names are needed for a rename and for a second configuration after reset; two processes for one name are
the contention. Two sessions let a new session meet the lock of an old one that the server has not
noticed to be gone. The theorems below do not depend on these bounds.

**Bounds** of the recovery. There is one call, one child and one session, as in the code. One fault, in
addition to cancellation, both deadlines, late timers and kills, which cost nothing, is every single
failure at every step; one delayed callback keeps the call pending after the child is gone. Two OIDs are
the acquired database and one that took its name; two names and two outside changes are a rename away
with a replacement, and a participant that takes the lock and then creates. To keep the run exhaustive its action constraint `OthersApart`
lets others act only where nothing failed and no pipe is full; a second act of theirs, and a fault, happen only where no
connection keeps the recovery out; the theorems have none of these limits. In `recovery_settles` the database is
there and nobody is connected to it, so that the longest way, up to the verification, is the one that is
taken.

**Bounds** of the others. `session`: the clock has room for connect, a statement and the longest close one after
the other; a budget of 0 is the edge where both halves end at once, and an odd one is halved unevenly. The
URLs are one without and one with TLS, one whose base name starts with `pg_`, one with certificate files, one with
a key that is refused, an improper and an invalid one, one that is too long, and one whose role is; of the namespaces and workers one
each is not kept by UTF-8. The base name is longer than its room, which it fills to the last byte. `access`: rules of one hit make the second request the one over the limit and
the third one meet the block, and a window of one or two ticks ends while requests are under way; a window shorter
and one longer than its block are both there. Two routes of the third application have the rule under one name
with different overrides, so that the request of one meets a counter that the other has opened. The applications differ in the mode, the cache, the policy
and the rules, because one with all of them at once would be too large. `keycloak`: two calls are a
token shared, discarded and replaced; a lifetime of four ticks with a margin of two lets one token be
refreshed for the margin alone. `TimeAssumption` asks for a margin of at least two timeouts and at most half a lifetime,
which holds for the defaults of the code (30 s and 10 s) and tokens of a minute and more. `queues`: `MaxEvents` bounds process
starts, new jobs and failures together. Four, from each of three starting points (nothing; nothing and
no room for jobs; the first release settled on both processes), are a rollout over a crash and two jobs that meet in it.

**Fairness of the lifecycle.** `FairSpec` assumes that an operation that waits for its session can take its next step:
`TestDatabaseSession` bounds its creation, each statement and its close with a timeout, whose expiry is `QueryFails`, `CreateSessionFails`
or an end of `Close`. Of TypeORM it assumes nothing: `connectionOptions` sets no timeout, so `initialize`, the migrations,
`synchronize`, `destroy` and the queries of `clear` may never return (`InTypeOrm`), and both liveness properties say so: a context
settles, or cleanup converges, unless it waits for TypeORM for ever. `FairSpec` assumes that the server executes what
it is sent and in the end notices that a client is gone. `RetrySpec` adds the caller that repeats a failed close, as the README of
the module asks. No fairness is assumed of outsiders, crashes, lost sessions or the sources of applications.

**Fairness of the recovery.** `Fairness` assumes what Node and the system do for the parent: its timers
fire, its deadline passes, the events of its child are delivered and its send callbacks are called. Of
the child it assumes that a process that was started runs, reads its channel or notices the end of it,
and that one that was sent SIGKILL dies. It assumes nothing of the engine and of the server: a statement
may stay unanswered and a close may never end, and `CallSettles` holds by the parent's timers and the
kill alone.

**Fairness of the others.** `session`: only timers, which the event loop fires; nothing of the server, the
socket and pg, so that close settles by its budget alone. `access`: the resolver, the key client, the cache and
the provisioner, which the application supplies, answer in the end; nothing is assumed of the Redis of the limits, and
`RequestsSettle` holds by `commandTimeout` (the action `StorageFails`). `keycloak`: timers fire and an answer that has arrived is read;
Keycloak may never answer. `queues` has no liveness property: BullMQ's retries and the deployments decide whether a job runs.

**Deadlock** is checked in `contention`. In the others it is not, because the only process may crash, the
call or the requests have settled, or the clock or the events are spent, after which nothing has to happen.

**Convergence has a limit that the model states** (`Recoverable`): a context whose session could not be
confirmed closed, or that owns a database whose OID it never read, or whose database was replaced, is
refused for ever, by design of the code.

### Findings

- `lost_create`: ownership is recorded after `CREATE DATABASE` has answered. If the answer is lost, cleanup
  owns nothing and succeeds, and the database stays. The documentation says that a successful close leaves
  nothing and that setup can recreate the database; it fails on the name.
- `lease_loss`: the lease is not looked at between the end of `source.initialize()` and the migrations,
  so schema work starts on a lease that is known to be lost. The design document says that setup stops.
- `key_rotation`: the key client of an issuer keeps the `jwksUri` of the first configuration. After the registry gave the issuer
  another one, a token signed with the old keys is accepted, with the roles of the new configuration. The README of the module and
  the comment of the strategy say that the signature is verified against the keys of the resolved issuer, the current ones. (New keys
  under the same `jwksUri` are followed, by `kid`.)

## 5. What is proved

All theorems are about `Spec` of their module for arbitrary values of the constants: no set of processes,
sessions, sources, names, OIDs, calls, requests, issuers, queues, jobs or operations needs to be finite,
and no pipe, list of rules or base name has a length that matters. They assume only what the modules' named ASSUMEs state:

- absent values (`NoOid`, `Missing`, `Undefined`, ...) are not elements of the sets they complement; nobody and
  outsiders are not processes; contexts are processes; the factory's source is a source; budgets and clocks are numbers.
- `KeycloakAdmin`: `TimeAssumption` (a margin of two timeouts and more, a lifetime of two margins and more), and that
  lower case is lower case.
- `TestIdentity`: a character takes one to four bytes; `Access`: an application's tokens and routes are tokens and routes.
- The clocks of `Session`, `KeycloakAdmin` and `Access` do not pass a timer that is due: the event loop is not blocked
  for a tick. This is part of `Tick`, so `CloseHonesty` and `Unexpired` speak of a process whose loop runs.

| Module | Theorem | States |
|---|---|---|
| `TestDatabaseProofs` | `Invariance` | `Spec => []IInv` |
| | `TypeCorrect`, `DdlIsLocked`, `DropsAreOwn` | `TypeOK`, `DdlUnderLock`, `DropsOnlyItsOwn` |
| `TestDatabaseUseProofs` | `UseHolds` | `Spec => []Use` |
| | `Tracked`, `UseIsLocked` | `NothingUntracked`, `UsedUnderLock` |
| | `ReleaseIsHonest`, `ForgetsClean`, `ClearsOwn` | the action properties `ReleasedOnlyWhenGone`, `ForgetsOnlyWhenClean`, `ClearsOnlyItsOwn` |
| `TestDatabaseRefinement` | `ImplementsExclusiveTarget` | `Spec => TargetIsExclusive` |
| `RecoveryProofs` | `Invariance`, `TypeCorrect` | `IInv`, `TypeOK` |
| | `FenceHolds`, `PermissionHolds`, `AgreementHolds`, `EndingHolds` | the parts of `IInv` |
| | `DropIsFenced`, `ProtocolIsFollowed`, `SuccessLeavesNothing` | `DropsOnlyTarget`, `PeersAgree`, `SuccessIsClean` |
| | `OutcomeHonesty` | `Spec => OutcomeIsHonest`, the refinement of `RecoveryOutcome` |
| `KeycloakAdminProofs` | `Invariance`, `TypeCorrect` | `IInv`, `TypeOK` |
| | `Honesty`, `FreshResend`, `Unexpired` | `OutcomeIsTrue`, `ResendIsFresh`, `UnexpiredInUse` |
| | `StubIsFaithful` | the action property `StubAgrees` |
| `AccessProofs` | `Invariance`, `TypeCorrect` | `IInv`, `TypeOK` |
| | `AdmissionIsChecked`, `TrustHolds`, `ServedIsCurrent` | `AdmittedWasChecked`, `TrustIsPerIssuer`, `UserIsCurrent` |
| | `LimitIsHeld` | the action property `LimitHolds` |
| `QueuesProofs` | `Invariance`, `TypeCorrect` | `IInv`, `TypeOK` |
| | `SchedulersAreRight`, `JobsStayApart` | `SchedulersSettle`, `JobsRunApart` |
| `SessionProofs` | `Invariance`, `TypeCorrect` | `IInv`, `TypeOK` |
| | `CloseHonesty`, `ReportsAreRecoverable` | `CloseIsHonest`, `ReportedIsRecoverable` |
| | `ImplementsPromise` | `KeepsSteps`: the initial states and steps of `SessionPromise` |

Every proof has one lemma per action, or per action and part of the invariant, with the typing of the next state as
a step of its own, and the theorems at the end of the module.

### 5.1 The lifecycle

`DdlUnderLock` and `DropsOnlyItsOwn` are not inductive: they speak of a statement that was
sent some steps ago, on a session that a later attempt may no longer use. `IInv` has four parts, each
preserved given the ones before it.

- `TypeOK`. It needs `Control` to be preserved: a source attaches under a captured name.
- `Control`: what a context holds at each await. The heart is `leaseLocked[c]`: it is set only by a granted
  lock and cleared by every close, so no attempt inherits it from a session that is gone; the awaits of
  DDL imply it.
- `Sessions`: the lease's last statement is the one the context awaits, for its own name; and a session that was
  granted a lock, or was sent `CREATE` or `DROP`, holds that lock as long as its backend lives. This is
  where a statement that outlives its attempt is covered: the session it runs on either still holds
  the lock or can execute nothing.
- `Catalog`: under the lock what was read stays true. A `DROP` that is pending was sent after an
  inspection whose single row carried the owned name and OID, and only the lock's holder changes that
  name since; an owned OID was created by the owner.

What the context may still believe while it uses the database and gives it up is in `Use`, inductive given `IInv`:

- `Tracking`: a connection is in `sources`, a session that is not the lease is over, and cleanup reaches the catalog only with
  `sources` empty. `NothingUntracked` is a part of it; `ForgetsOnlyWhenClean` reads it at the step that forgets.
- `Custody`: from the OID's arrival to the first step of cleanup the lease's last statement is that `oid` query and
  no DDL is on its way, so that while the backend lives the name keeps standing for the owned OID: `UsedUnderLock`.
- `Absence`: an inspection asks for an OID that was issued, and OIDs are not issued twice, so an answer without it is
  final for the OID: `ReleasedOnlyWhenGone`.
- `Attachment`: a connection pins the database its name stands for, so the rows that `assertOwnership` asked for speak
  of the connection that clears: `ClearsOnlyItsOwn`.

The refinement maps `catalog`, `creator` and `lock` to themselves. A granted lock is `Acquire`, an
executed `CREATE` or `DROP` is `Create` or `Drop`, the end of a backend is `Release`, and outsiders are
`Outside`; every step of a context stutters. That an executed `CREATE` or `DROP` satisfies the abstract
guards is `Sessions` and `Catalog`.

### 5.2 The recovery

The two processes know each other only by what is in the pipes, so the invariant speaks of pipes of any length.

- `Fence`: from the granted lock to the end of the backend the lock is held, the inspection stays true under it,
  and an OID without a name never gets one again. It gives `DropsOnlyTarget`, also for a child that is stopped or dead.
- `Permission`: no `DROP` is sent, executed or reported without a permission that the parent has recorded before it
  wrote the message.
- `Agreement` has four parts. `Conversation` says that what is unread in the parent's pipe continues, message by message, what the
  parent has read, and ends where the child is; `Order` and `Inbox` say the same of the parent's flags and of the other direction.
  They give `PeersAgree`. `Reporting` says that every report, in the engine, in the pipe and in the parent's record, is
  the same and true when it is made, and stays true.
- `Ending`: a call that concluded knows both ends of its child, and every irregular end is in its failures.

`SuccessIsClean` follows from `Reporting` and `Ending`: success needs the regular exit, the child exits regularly only
after `finish`, and its report of absence is final for the OID. The refinement maps `verdict` to the outcome of the settled call,
`permitted` and `dropped` to themselves: the parent's answer to `request-drop` is `Permit`, an executed
`DROP` is `Drop`, also after the call, and `conclude` is `Conclude`, whose guards are `Permission` and `Reporting`.

### 5.3 Keycloak

`RequestOf` is the reason why a resend is fresh: the token that is on its way was issued after every token that any
call uses or was refused, since the cached token is discarded before it is asked for. `CachedOf` and
`RequestOf` carry the margin: a cached token is forgotten a timeout before it expires, and one on its way expires no earlier than
a lifetime after its request began; with `TimeAssumption` no token expires under a call (`Unexpired`). `CallOf`
says what a call holds at each await and that Keycloak has executed it once exactly when it has answered 200 to the main
request; from it follows `Honesty`. `UsersOf` (names and addresses are unique, in lower case) and `ProfileOf` (the
profile that is written whole was read) make the effect of Keycloak equal to `StubOutcome`.

### 5.4 The guards

A request is what it has established at each await (`Known`, `Passed`): whatever the other
requests do, its token, user and passed rules are its own. What it reads from the others is described by what they left:
`Clients` (the memoised key client was an answer of the resolver), `Cached` (an entry is of the caller its key
names, and not older than its lifetime and the time of provisioning), `Counted` (the hits key lives exactly for the
window and counts at least its approvals; the block key is the promise that was made), `Sent` (a command that Redis executes
late was sent for a rule that its request had resolved). `LimitHolds` is then a property of one execution of
the script: if the counter is at most the limit, so are the approvals.

### 5.5 The queues

`SchedulersSettle` says something of the end of any number of synchronisations that overlap. What is kept at each of their
steps is `MovedIsRemoved` (after the listing a scheduler of a job that moved is gone or about to be removed)
and `UpsertedIsThere`: what a process has upserted is there, or was removed by another process of its release, which listed
the queue before and will upsert it as well (`Pending`). When all processes are ready nothing is pending. `SchedulerIsOfRelease`
and `JobIsRouted` tell what a scheduler and a job have from the release that put them there, so that a job is
dropped only across releases. That the first provider with a name decides (`Job`) needs the least index of a
sequence, which is proved from the well-foundedness of the subsets of a finite interval, since induction is not at hand.

### 5.6 The session

A capture is `Faithful`: a valid URL, a usable namespace, and the name that is computed from both. A recovery whose
options follow a faithful report passes every check of `captureRecoveryInput` (`FaithfulIsTaken`), but for the identities
of `NotTaken`, each of which fails one (`ExceptionIsRefused`). That the
name fits is `PrefixIsLongest`: among the prefixes of whole characters that leave room for the suffix there is
always a longest one, for a base name of any length (the greatest member of a bounded set of numbers, by well-foundedness again).
`CloseStops` says that a session that closes is not used again and is confirmed only as the close settles; with it `CloseIsHonest`
is inductive. The refinement maps `healthy` to `Healthy`, `disposed` to `confirmed`, and both halves of
close to `closing`; creation, the events of the socket and `Tick` are `Break` or stutter.

### 5.7 What the proofs changed in the models

- `LimitHolds` was too strong in two points. Retry-After was compared with the block that holds when the answer arrives;
  it is the block at the time of the script. And the window's history was kept by the rule of each hit; routes that share a bucket
  may have different windows, and the one that opened the counter decides. The instance now has two such routes.
- The model of `StubOutcome` and of the protocol checks used CASE with conditions that overlap; they are ordered conditions and implications now,
  in the order of the code.
- Commands that Redis executes late were limited to rules 1 and 2; they are of any rule of the route.
- A scheduler's "nothing there" had to be told apart from a release.

### 5.8 Only model-checked

Fairness and ENABLED are beyond the prover, so the liveness properties stay with TLC: `OperationsSettle`, `CleanupConverges`,
`CallSettles`, `NoOrphan`, `RequestsSettle`, `CallsSettle`, and the part of `KeepsPromise` that says that closing and
operations settle. The three findings are counterexamples of TLC.

## 6. Not modelled

- **Storage, AI, telemetry.** Each operation is one call of a store, a model or an SDK. The state in the
  process is a map used by tests, a cache written after the call, and a memoised shutdown with a time limit.
- **Exception filter, CLI data source, main path, lint rules, and the wiring** of Redis, cache, BullMQ, CASL,
  configuration, bootstrap and health: no transitions.
- **Of the recovery**, what 3.3 lists: malformed messages, the limit of sixteen, an exception of the send, the values of
  the deadlines. The recovering call is not yet composed with the contexts of `TestDatabase`
  over one server: its participants are `OthersAct`.
- **Of the recovery's refusals**, those by the owner and the template flag in the inspections (the model drops in more cases than the
  code), and the `INVALID_INPUT` of a TLS configuration that the library refuses as the session is created, which the parent accepts
  from its child in that one place (a database failure here: no property depends on the code of the failure).
- **Of the lifecycle**, `forRoot` and the production configuration (no state), the contents of migrations, and the refusal
  by owner and template flag before a DROP (again the model drops in more cases).
- **Of the Keycloak stub**, its test helpers (`seedUser`, the recorded calls), credentials, and the flags
  `enabled` and `emailVerified`. Service and stub are compared by the status of a conflict, not by its class, which differs when
  Keycloak names both fields.
- **Of the guards**, the parsing of forwarded headers and of the claims of a token, which are values of a request here,
  and the application's `identify` hook, which replaces the key that a caller is counted under.
- **Of the queues**, the options that only parameterise a worker (concurrency, telemetry, logging),
  a registered job whose instance is missing, and a process that takes a job again which it lost the lock of and still runs.
