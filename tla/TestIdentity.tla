---------------------------- MODULE TestIdentity ----------------------------
(***************************************************************************)
(* Which database a test process works on, and which one a recovery is      *)
(* asked to remove: the invocation, identity and configuration that         *)
(* SharedDatabaseModule captures once (src/database), the name computed     *)
(* from them, and captureRecoveryInput, which a later process runs on the   *)
(* identity that the first one has reported.                                *)
(***************************************************************************)
EXTENDS Integers, Sequences

CONSTANTS
  Url,          \* values of DATABASE_URL
  Namespace, Worker, TestOptions,
  Unusable,     \* namespaces that are empty or hold a NUL
  Unfaithful,   \* namespaces and worker ids that UTF-8 does not keep, or over 65,536 bytes
  LongRole,     \* roles over 63 bytes
  Deviation,    \* fields in which a recovery's options differ from what was reported
  MaxOid, MaxTimeout, MaxCloseTimeout,
  Missing

\* A URL: valid, with a base name that can be decoded; proper, of PostgreSQL with a host, a port, a
\* role and a password that are usable, no hash, and no key twice; long, over 16,384 bytes.  A base
\* name is given by the offsets at which its characters end in UTF-8.
Base == [kind : {"base"}, ends : Seq(Nat), pg : BOOLEAN]
EndOf(ends, k) == IF k = 0 THEN 0 ELSE ends[k]
ASSUME UrlAssumption ==
  /\ Url \subseteq [valid : BOOLEAN, proper : BOOLEAN, long : BOOLEAN,
                    base : Base, role : STRING, keys : SUBSET STRING, mode : STRING]
  /\ \A url \in Url : LET ends == url.base.ends IN
       \A k \in DOMAIN ends : ends[k] - EndOf(ends, k - 1) \in 1..4
ASSUME NamespaceAssumption == Unusable \subseteq Namespace /\ Unfaithful \subseteq Namespace \cup Worker
ASSUME DeviationAssumption == \A d \in Deviation : "url" \in DOMAIN d => d.url \in Url
ASSUME OptionsAssumption == TestOptions \subseteq [migrationsRun : BOOLEAN, synchronize : BOOLEAN, migrations : BOOLEAN]
ASSUME BoundsAssumption == {MaxOid, MaxTimeout, MaxCloseTimeout} \subseteq Nat \ {0}

VARIABLES
  env,            \* the environment: DATABASE_URL and the pool id of the worker
  invocation, identity, configuration, testOptions,
  reported        \* what getTestDatabaseInfo has returned last, with the URL it was asked under

identityVars == <<env, invocation, identity, configuration, testOptions, reported>>

-----------------------------------------------------------------------------
(* Names: a prefix of whole characters of the base name, and a digest, which is as good as its inputs *)

SuffixBytes == 38
MaxBytes == 63
NameBytes(name) == EndOf(name.prefix, Len(name.prefix)) + SuffixBytes

\* The characters of the base name up to the first that does not fit.
PrefixOf(ends) ==
  LET fits == {k \in 0..Len(ends) : EndOf(ends, k) + SuffixBytes <= MaxBytes} IN
  SubSeq(ends, 1, CHOOSE k \in fits : \A l \in fits : l <= k)

TestDatabaseName(base, id) ==
  [kind |-> "test", prefix |-> PrefixOf(base.ends),
   digest |-> <<base, id.namespace, id.processId, id.workerId>>]

-----------------------------------------------------------------------------
(* Recovery input *)

TlsKeys == {"sslmode", "sslcert", "sslkey", "sslrootcert"}
TlsModes == {"none", "disable", "require", "verify-ca", "verify-full"}

\* captureTestDatabaseBase
BaseRefused(url, expectedRole) ==
  ~url.valid \/ ~url.proper \/ url.role # expectedRole \/ ~(url.keys \subseteq TlsKeys) \/ url.mode \notin TlsModes

\* A text that is not empty, holds no NUL and is what UTF-8 makes of it.
ValidText(namespace) == namespace \notin Unusable \cup Unfaithful

Budget(value, maximum) == value = Missing \/ value \in 1..maximum

\* captureTls: PEM blocks only, and a certificate with its key or neither.
TlsRefused(tls) == tls \in {"malformed", "half"}

UnsafeTarget(o) ==
  \/ o.databaseName \in {o.url.base, [kind |-> "system"]}
  \/ o.databaseName.kind = "test" /\ o.databaseName.digest[1].pg

\* captureRecoveryInput: the first failure decides, and nothing else is told.
Refusal(o) ==
  IF \/ ~o.plain \/ ~o.exclusive \/ TlsRefused(o.tls)
     \/ o.url.long \/ o.expectedRole \in LongRole
     \/ ~ValidText(o.namespace) \/ o.workerId \in Unfaithful  \* which may be empty
     \/ o.databaseName.kind = "test" /\ NameBytes(o.databaseName) > MaxBytes
     \/ o.processId <= 0 \/ o.acquiredOid \notin 1..MaxOid
     \/ ~Budget(o.timeoutMs, MaxTimeout) \/ ~Budget(o.closeTimeoutMs, MaxCloseTimeout)
     \/ BaseRefused(o.url, o.expectedRole)
     \/ ~(o.url.keys \subseteq {"sslmode"})
     \/ IF o.tls = "none" THEN o.url.mode \notin {"none", "disable"} ELSE o.url.mode = "disable"
  THEN "INVALID_INPUT"
  ELSE IF UnsafeTarget(o) THEN "UNSAFE_TARGET"
  ELSE IF o.databaseName # TestDatabaseName(o.url.base, o) THEN "IDENTITY_MISMATCH"
  ELSE "none"

Or(value, fallback) == IF value = Missing THEN fallback ELSE value

\* The record that is frozen, and sent to the child.
Captured(o) ==
  [databaseUrl |-> o.url, tls |-> o.tls, baseName |-> o.url.base, expectedRole |-> o.expectedRole,
   databaseName |-> o.databaseName, acquiredOid |-> o.acquiredOid,
   timeoutMs |-> Or(o.timeoutMs, MaxTimeout), closeTimeoutMs |-> Or(o.closeTimeoutMs, 1)]

\* validInput of the child.
ValidInput(input) ==
  /\ DOMAIN input \subseteq {"databaseUrl", "tls", "baseName", "expectedRole", "databaseName",
                             "acquiredOid", "timeoutMs", "closeTimeoutMs"}
  /\ input.acquiredOid \in 1..MaxOid
  /\ input.timeoutMs \in 1..MaxTimeout /\ input.closeTimeoutMs \in 1..MaxCloseTimeout

\* The options of a recovery that was told of r.
OptionsOf(r) ==
  [plain |-> TRUE, exclusive |-> TRUE, url |-> r.url, expectedRole |-> r.url.role,
   tls |-> IF r.url.mode \in {"none", "disable"} THEN "none" ELSE "valid",
   namespace |-> r.info.namespace, workerId |-> r.info.workerId, processId |-> r.info.processId,
   databaseName |-> r.info.databaseName, acquiredOid |-> 1, timeoutMs |-> Missing, closeTimeoutMs |-> Missing]
\* The same with other values in some fields.
Deviating(deviation, o) ==
  [field \in DOMAIN o |-> IF field \in DOMAIN deviation THEN deviation[field] ELSE o[field]]

-----------------------------------------------------------------------------
(* Capture *)

ProcessId == 1
Environment == [url : Url, worker : Worker]
Identity == [workerId : Worker, processId : {ProcessId}]
ASSUME MissingAssumption == Missing \notin Namespace \cup Environment \cup Identity

IdentityTypeOK ==
  /\ env \in Environment \cup {Missing}
  /\ invocation \in (Namespace \ Unusable) \cup {Missing} /\ identity \in Identity \cup {Missing}
  /\ invocation = Missing <=> identity = Missing
  /\ configuration # Missing =>
       invocation = configuration.info.namespace /\ identity.workerId = configuration.info.workerId
  /\ testOptions \in TestOptions \cup {Missing}

IdentityInit ==
  /\ env \in Environment
  /\ invocation = Missing /\ identity = Missing /\ configuration = Missing /\ testOptions = Missing
  /\ reported = Missing

\* The environment is read again by every new ConfigService.
EnvChanges ==
  /\ env' \in Environment /\ env' # env
  /\ UNCHANGED <<invocation, identity, configuration, testOptions, reported>>

\* Mutant of Captures: the last call decides.
CapturesAgain(namespace) ==
  invocation' = namespace /\ identity' = [workerId |-> env.worker, processId |-> ProcessId]
\* What initializeTestInvocation leaves when it was not called before.
Captures(namespace) ==
  IF invocation = Missing
  THEN invocation' = namespace /\ identity' = [workerId |-> env.worker, processId |-> ProcessId]
  ELSE UNCHANGED <<invocation, identity>>

\* A different namespace, or one that is not usable, throws.
InitializeTestInvocation(namespace) ==
  /\ namespace \notin Unusable /\ invocation \in {Missing, namespace}
  /\ Captures(namespace)
  /\ UNCHANGED <<env, configuration, testOptions, reported>>

\* forTest captures the options of its first call; other ones throw, and so do migrationsRun
\* without migrations or with synchronize.
ForTest(options, random) ==
  /\ Captures(random)
  /\ testOptions' = IF \/ options.migrationsRun /\ (options.synchronize \/ ~options.migrations)
                       \/ testOptions # Missing
                    THEN testOptions ELSE options
  /\ UNCHANGED <<env, configuration, reported>>

\* Whether getTestDatabaseInfo throws: for a DATABASE_URL that has changed, or an invalid one.
\* Mutant of InfoThrows: the configuration answers whatever DATABASE_URL says.
InfoThrowsOnce == configuration = Missing /\ ~env.url.valid
InfoThrows == IF configuration # Missing THEN configuration.url # env.url ELSE ~env.url.valid

\* It captures the invocation even so.
GetTestDatabaseInfo(random) ==
  /\ Captures(random)
  /\ IF InfoThrows THEN UNCHANGED <<configuration, reported>>
     ELSE LET id == [namespace |-> invocation', workerId |-> identity'.workerId,
                     processId |-> identity'.processId]
              info == [databaseName |-> TestDatabaseName(env.url.base, id), namespace |-> id.namespace,
                       workerId |-> id.workerId, processId |-> id.processId] IN
          /\ configuration' = IF configuration # Missing THEN configuration
                              ELSE [url |-> env.url, info |-> info]
          /\ reported' = [url |-> env.url, info |-> configuration'.info]
  /\ UNCHANGED <<env, testOptions>>

\* teardown of resetTestDatabase, once everything is closed.
Reset ==
  /\ testOptions' = Missing /\ configuration' = Missing /\ identity' = Missing /\ invocation' = Missing
  /\ UNCHANGED <<env, reported>>
=============================================================================
