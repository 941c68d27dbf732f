--------------------------- MODULE SessionProofs ---------------------------
(***************************************************************************)
(* Proofs about TestIdentity and Session.  First the name of a test         *)
(* database and what a recovery refuses; then that IInv holds; and that a   *)
(* session takes only the steps that SessionPromise allows.                 *)
(***************************************************************************)
EXTENDS SessionInvariant, FiniteSetTheorems, TLAPS

-----------------------------------------------------------------------------
(* The name *)

\* A set of naturals that is not empty and has a bound has a greatest member: the interval from it
\* to the bound is minimal among those from a member.
LEMMA GreatestMember ==
  ASSUME NEW n \in Nat, NEW S \in SUBSET (0..n), S # {}
  PROVE  \E k \in S : \A l \in S : l <= k
<1> DEFINE T == {k..n : k \in S}
<1>1. T \subseteq FiniteSubsetsOf(Nat) /\ T # {}
  <2>1. ASSUME NEW k \in S PROVE k..n \in SUBSET Nat /\ IsFiniteSet(k..n)
    BY FS_Interval
  <2> QED BY <2>1 DEF FiniteSubsetsOf
<1> HIDE DEF T
<1>2. PICK x \in T : \A y \in T : <<y, x>> \notin StrictSubsetOrdering(Nat)
  <2> DEFINE W == FiniteSubsetsOf(Nat)
             R == StrictSubsetOrdering(Nat)
  <2>1. IsWellFoundedOn(R, W) /\ T \subseteq W /\ T # {}
    BY <1>1, FS_StrictSubsetOrderingWellFounded
  <2> HIDE DEF W, R
  <2>2. \E x \in T : \A y \in T : <<y, x>> \notin R
    BY <2>1, WFMin, Zenon
  <2> QED BY <2>2 DEF R
<1>3. PICK k \in S : x = k..n
  BY DEF T
<1>4. ASSUME NEW l \in S, k < l PROVE FALSE
  <2>1. l..n \in T /\ l..n \subseteq Nat /\ k..n \subseteq Nat
    BY DEF T
  <2>2. l..n \subseteq k..n /\ k \in k..n /\ k \notin l..n
    BY <1>4
  <2>3. <<l..n, k..n>> \in StrictSubsetOrdering(Nat)
    BY <2>1, <2>2 DEF StrictSubsetOrdering
  <2> QED BY <1>2, <1>3, <2>1, <2>3
<1> QED BY <1>4

\* The prefix of a name is the longest of whole characters that leaves room for the suffix.
LEMMA PrefixIsLongest ==
  ASSUME NEW ends \in Seq(Nat)
  PROVE  \E k \in 0..Len(ends) :
           /\ PrefixOf(ends) = SubSeq(ends, 1, k)
           /\ EndOf(ends, k) + SuffixBytes <= MaxBytes
           /\ \A l \in 0..Len(ends) : EndOf(ends, l) + SuffixBytes <= MaxBytes => l <= k
<1> DEFINE fits == {k \in 0..Len(ends) : EndOf(ends, k) + SuffixBytes <= MaxBytes}
           Last(k) == \A l \in fits : l <= k
<1>1. 0 \in fits /\ fits \in SUBSET (0..Len(ends)) /\ Len(ends) \in Nat
  BY DEF EndOf, SuffixBytes, MaxBytes
<1>2. \E k \in fits : Last(k)
  BY <1>1, GreatestMember
<1>3. (CHOOSE k \in fits : Last(k)) \in fits /\ Last(CHOOSE k \in fits : Last(k))
  BY <1>2, Zenon
<1>4. PrefixOf(ends) = SubSeq(ends, 1, CHOOSE k \in fits : Last(k))
  BY DEF PrefixOf
<1> QED BY <1>3, <1>4

\* A name fits into the 63 bytes of an identifier of the server.
LEMMA NameFits ==
  ASSUME NEW base \in Base, NEW id
  PROVE  /\ NameBytes(TestDatabaseName(base, id)) \in Nat
         /\ NameBytes(TestDatabaseName(base, id)) <= MaxBytes
<1>1. base.ends \in Seq(Nat)
  BY DEF Base
<1>2. PICK k \in 0..Len(base.ends) : /\ PrefixOf(base.ends) = SubSeq(base.ends, 1, k)
                                     /\ EndOf(base.ends, k) + SuffixBytes <= MaxBytes
  BY <1>1, PrefixIsLongest
<1> DEFINE prefix == SubSeq(base.ends, 1, k)
<1>3. prefix \in Seq(Nat) /\ Len(prefix) = k /\ (k # 0 => prefix[k] = base.ends[k])
  BY <1>1
<1>4. EndOf(prefix, Len(prefix)) = EndOf(base.ends, k) /\ EndOf(base.ends, k) \in Nat
  BY <1>1, <1>3 DEF EndOf
<1> HIDE DEF prefix
<1>5. NameBytes(TestDatabaseName(base, id)) = EndOf(base.ends, k) + SuffixBytes
  BY <1>2, <1>4 DEF NameBytes, TestDatabaseName, prefix
<1> QED BY <1>2, <1>4, <1>5 DEF SuffixBytes

\* What a recovery takes is the name computed from its options: it fits, and is not the base.
LEMMA TakenIsSafe ==
  ASSUME NEW o, o.url \in Url, Refusal(o) = "none"
  PROVE  /\ Captured(o).databaseName # Captured(o).baseName
         /\ NameBytes(Captured(o).databaseName) <= MaxBytes
<1>1. ~UnsafeTarget(o) /\ o.databaseName = TestDatabaseName(o.url.base, o)
  BY DEF Refusal
<1>2. o.url.base \in Base
  BY UrlAssumption
<1>3. NameBytes(o.databaseName) <= MaxBytes
  BY <1>1, <1>2, NameFits
<1>4. o.databaseName # o.url.base
  BY <1>1 DEF UnsafeTarget
<1> QED BY <1>3, <1>4 DEF Captured

\* The exceptions are refused, each for its own reason.
LEMMA ExceptionIsRefused ==
  ASSUME NEW t, Faithful(t), NotTaken(t)
  PROVE  Refusal(OptionsOf(t)) # "none"
<1> DEFINE o == OptionsOf(t)
<1>1. /\ o.url = t.url /\ o.expectedRole = t.url.role
      /\ o.namespace = t.info.namespace /\ o.workerId = t.info.workerId
      /\ o.databaseName = t.info.databaseName
  BY DEF OptionsOf
<1>2. o.databaseName.kind = "test" /\ o.databaseName.digest[1] = t.url.base
  BY <1>1 DEF Faithful, TestDatabaseName
<1> SUFFICES Refusal(o) # "none"
  OBVIOUS
<1> HIDE DEF o
<1>3. CASE t.url.base.pg
  <2>1. UnsafeTarget(o)
    BY <1>2, <1>3 DEF UnsafeTarget
  <2> QED BY <2>1 DEF Refusal
<1>4. CASE BaseRefused(t.url, t.url.role)
  <2>1. BaseRefused(o.url, o.expectedRole)
    BY <1>1, <1>4
  <2> QED BY <2>1 DEF Refusal
<1>5. CASE t.info.namespace \in Unfaithful
  <2>1. ~ValidText(o.namespace)
    BY <1>1, <1>5 DEF ValidText
  <2> QED BY <2>1 DEF Refusal
<1>6. CASE \/ t.url.long \/ t.url.role \in LongRole
           \/ ~(t.url.keys \subseteq {"sslmode"}) \/ t.info.workerId \in Unfaithful
  <2>1. \/ o.url.long \/ o.expectedRole \in LongRole
        \/ ~(o.url.keys \subseteq {"sslmode"}) \/ o.workerId \in Unfaithful
    BY <1>1, <1>6
  <2> QED BY <2>1 DEF Refusal
<1> QED BY <1>3, <1>4, <1>5, <1>6 DEF NotTaken

\* What was captured faithfully a recovery takes but for the exceptions, and so does its child.
LEMMA FaithfulIsTaken ==
  ASSUME NEW t, Faithful(t)
  PROVE  Recoverable(t)
<1> SUFFICES ASSUME ~NotTaken(t)
             PROVE  Refusal(OptionsOf(t)) = "none" /\ ValidInput(Captured(OptionsOf(t)))
  BY ExceptionIsRefused DEF Recoverable
<1> DEFINE o == OptionsOf(t)
<1>0. /\ ~t.url.base.pg /\ ~BaseRefused(t.url, t.url.role) /\ t.url.keys \subseteq {"sslmode"}
      /\ ~t.url.long /\ t.url.role \notin LongRole
      /\ t.info.namespace \notin Unfaithful /\ t.info.workerId \notin Unfaithful
  BY DEF NotTaken
<1>1. /\ o.plain /\ o.exclusive /\ o.url = t.url /\ o.expectedRole = t.url.role
      /\ o.tls = IF t.url.mode \in {"none", "disable"} THEN "none" ELSE "valid"
      /\ o.namespace = t.info.namespace /\ o.workerId = t.info.workerId /\ o.processId = 1
      /\ o.databaseName = t.info.databaseName /\ o.acquiredOid = 1
      /\ o.timeoutMs = Missing /\ o.closeTimeoutMs = Missing
  BY DEF OptionsOf, Faithful, ProcessId
<1>2. t.url.base \in Base /\ t.url.base.kind = "base"
  BY UrlAssumption DEF Faithful, Base
<1>3. o.databaseName = TestDatabaseName(t.url.base, o)
  BY <1>1 DEF Faithful, TestDatabaseName, ProcessId
<1>4. /\ o.databaseName.kind = "test" /\ o.databaseName.digest[1] = t.url.base
  BY <1>3 DEF TestDatabaseName
<1>5. NameBytes(o.databaseName) \in Nat /\ NameBytes(o.databaseName) <= MaxBytes
  BY <1>2, <1>3, NameFits
<1>6. MaxOid \in Nat \ {0} /\ MaxTimeout \in Nat \ {0} /\ MaxCloseTimeout \in Nat \ {0}
  BY BoundsAssumption
<1> HIDE DEF o
<1>7. ~UnsafeTarget(o)
  <2>1. o.databaseName # t.url.base
    BY <1>2, <1>4
  <2>2. o.databaseName # [kind |-> "system"]
    BY <1>4
  <2> QED BY <1>0, <1>1, <1>4, <2>1, <2>2 DEF UnsafeTarget
<1>8. Refusal(o) = "none"
  <2>1. ValidText(o.namespace)
    BY <1>0, <1>1 DEF ValidText, Faithful
  <2>2. ~TlsRefused(o.tls)
    BY <1>1 DEF TlsRefused
  <2>3. Budget(o.timeoutMs, MaxTimeout) /\ Budget(o.closeTimeoutMs, MaxCloseTimeout)
    BY <1>1 DEF Budget
  <2>4. ~(o.databaseName.kind = "test" /\ NameBytes(o.databaseName) > MaxBytes)
    BY <1>5 DEF MaxBytes
  <2>5. ~(o.processId <= 0 \/ o.acquiredOid \notin 1..MaxOid)
    BY <1>1, <1>6
  <2>6. ~(IF o.tls = "none" THEN o.url.mode \notin {"none", "disable"} ELSE o.url.mode = "disable")
    BY <1>1
  <2>7. /\ ~BaseRefused(o.url, o.expectedRole) /\ o.url.keys \subseteq {"sslmode"}
        /\ ~o.url.long /\ o.expectedRole \notin LongRole /\ o.workerId \notin Unfaithful
    BY <1>0, <1>1
  <2> QED BY <1>1, <1>3, <1>7, <2>1, <2>2, <2>3, <2>4, <2>5, <2>6, <2>7 DEF Refusal
<1>9. ValidInput(Captured(o))
  <2> DEFINE c == Captured(o)
  <2>1. /\ c.acquiredOid = 1 /\ c.timeoutMs = MaxTimeout /\ c.closeTimeoutMs = 1
        /\ DOMAIN c = {"databaseUrl", "tls", "baseName", "expectedRole", "databaseName",
                       "acquiredOid", "timeoutMs", "closeTimeoutMs"}
    BY <1>1 DEF Captured, Or
  <2> HIDE DEF c
  <2> QED BY <1>6, <2>1 DEF ValidInput, c
<1> QED BY <1>8, <1>9 DEF o

-----------------------------------------------------------------------------
(* The capture *)

\* What a process captures when it is called for the first time.
LEMMA CapturesTyped ==
  ASSUME IdentityTypeOK, env \in Environment, NEW ns \in Namespace \ Unusable, Captures(ns)
  PROVE  /\ invocation' \in Namespace \ Unusable /\ identity' \in Identity
         /\ invocation # Missing => UNCHANGED <<invocation, identity>>
<1>1. CASE invocation = Missing
  BY <1>1 DEF Captures, Environment, Identity
<1>2. CASE invocation # Missing
  BY <1>2 DEF Captures, IdentityTypeOK
<1> QED BY <1>1, <1>2

\* The module was told nothing before it was called.
LEMMA UncapturedIsUnconfigured ==
  ASSUME IdentityTypeOK, CapturedIsFaithful, invocation = Missing
  PROVE  configuration = Missing
BY MissingAssumption DEF IdentityTypeOK, CapturedIsFaithful, Faithful

\* Calls that capture an invocation, and no configuration.
LEMMA CaptureFrame ==
  ASSUME IdentityTypeOK, CapturedIsFaithful, env \in Environment, NEW ns \in Namespace \ Unusable, Captures(ns),
         testOptions' \in TestOptions \cup {Missing}, UNCHANGED <<env, configuration, reported, stage>>
  PROVE  IdentityTypeOK' /\ CapturedIsFaithful'
<1>1. /\ invocation' \in Namespace \ Unusable /\ identity' \in Identity
      /\ invocation # Missing => UNCHANGED <<invocation, identity>>
  BY CapturesTyped
<1>2. configuration # Missing => invocation # Missing
  BY UncapturedIsUnconfigured
<1>3. IdentityTypeOK'
  BY <1>1, <1>2, MissingAssumption DEF IdentityTypeOK
<1>4. CapturedIsFaithful'
  BY DEF CapturedIsFaithful, Faithful
<1> QED BY <1>3, <1>4

\* getTestDatabaseInfo reports the configuration, which it captures from the environment if it has to.
LEMMA InfoKeeps ==
  ASSUME IdentityTypeOK, CapturedIsFaithful, env \in Environment, NEW ns \in Namespace \ Unusable,
         GetTestDatabaseInfo(ns), UNCHANGED stage
  PROVE  IdentityTypeOK' /\ CapturedIsFaithful'
<1>1. Captures(ns) /\ UNCHANGED <<env, testOptions>>
  BY DEF GetTestDatabaseInfo
<1>2. /\ invocation' \in Namespace \ Unusable /\ identity' \in Identity
      /\ invocation # Missing => UNCHANGED <<invocation, identity>>
  BY <1>1, CapturesTyped
<1>3. configuration # Missing => invocation # Missing
  BY UncapturedIsUnconfigured
<1>4. CASE InfoThrows
  BY <1>1, <1>4, CaptureFrame DEF GetTestDatabaseInfo, IdentityTypeOK
<1>5. CASE ~InfoThrows /\ configuration # Missing
  <2>1. /\ configuration' = configuration /\ env.url = configuration.url
        /\ reported' = [url |-> env.url, info |-> configuration.info]
    BY <1>5 DEF GetTestDatabaseInfo, InfoThrows
  <2>2. Faithful(reported')
    <3>1. reported'.url = configuration.url /\ reported'.info = configuration.info
      BY <2>1
    <3>2. Faithful(configuration)
      BY <1>5 DEF CapturedIsFaithful
    <3> QED BY <3>1, <3>2 DEF Faithful
  <2>3. IdentityTypeOK'
    BY <1>1, <1>2, <1>3, <1>5, <2>1, MissingAssumption DEF IdentityTypeOK
  <2> QED BY <1>1, <2>1, <2>2, <2>3 DEF CapturedIsFaithful
<1>6. CASE ~InfoThrows /\ configuration = Missing
  <2> DEFINE id == [namespace |-> invocation', workerId |-> identity'.workerId, processId |-> identity'.processId]
             info == [databaseName |-> TestDatabaseName(env.url.base, id), namespace |-> id.namespace,
                      workerId |-> id.workerId, processId |-> id.processId]
             told == [url |-> env.url, info |-> info]
  <2>1. env.url.valid /\ env.url \in Url
    BY <1>6 DEF InfoThrows, Environment
  <2>2. configuration' = told /\ reported' = [url |-> env.url, info |-> told.info]
    BY <1>6 DEF GetTestDatabaseInfo
  <2>3. reported' = told
    BY <2>2
  <2>4. /\ info.namespace = invocation' /\ info.workerId = identity'.workerId
        /\ info.processId = ProcessId /\ info.databaseName = TestDatabaseName(env.url.base, info)
    BY <1>2 DEF TestDatabaseName, Identity
  <2>5. told.url = env.url /\ told.info = info
    OBVIOUS
  <2> HIDE DEF id, info, told
  <2>6. Faithful(told)
    BY <1>2, <2>1, <2>4, <2>5 DEF Faithful
  <2>7. IdentityTypeOK'
    BY <1>1, <1>2, <2>2, <2>4, <2>5, MissingAssumption DEF IdentityTypeOK
  <2> QED BY <1>1, <2>2, <2>3, <2>6, <2>7 DEF CapturedIsFaithful
<1> QED BY <1>4, <1>5, <1>6

\* Nothing is captured but what is faithful, in whatever order the module is called.
LEMMA CaptureKeeps ==
  ASSUME IInv, CaptureNext
  PROVE  IInv'
<1> USE DEF IInv
<1>1. stage = "none" /\ UNCHANGED sessionVars /\ IdentityTypeOK /\ env \in Environment
  BY DEF CaptureNext, TypeOK, CapturedIsFaithful
<1>2. IdentityTypeOK' /\ CapturedIsFaithful'
  <2>1. CASE EnvChanges
    BY <1>1, <2>1 DEF EnvChanges, IdentityTypeOK, CapturedIsFaithful, Faithful
  <2>2. CASE Reset
    BY <1>1, <2>2 DEF Reset, IdentityTypeOK, CapturedIsFaithful, Faithful
  <2>3. ASSUME NEW ns \in Namespace, InitializeTestInvocation(ns) PROVE IdentityTypeOK' /\ CapturedIsFaithful'
    BY <1>1, <2>3, CaptureFrame DEF InitializeTestInvocation, IdentityTypeOK, sessionVars, creationVars
  <2>4. ASSUME NEW ns \in Namespace \ (Unusable \cup Unfaithful), GetTestDatabaseInfo(ns)
        PROVE  IdentityTypeOK' /\ CapturedIsFaithful'
    BY <1>1, <2>4, InfoKeeps DEF sessionVars, creationVars
  <2>5. ASSUME NEW ns \in Namespace \ (Unusable \cup Unfaithful), NEW options \in TestOptions,
               ForTest(options, ns)
        PROVE  IdentityTypeOK' /\ CapturedIsFaithful'
    <3>1. testOptions' \in TestOptions \cup {Missing}
      BY <1>1, <2>5 DEF ForTest, IdentityTypeOK
    <3> QED BY <1>1, <2>5, <3>1, CaptureFrame DEF ForTest, sessionVars, creationVars
  <2> QED BY <2>1, <2>2, <2>3, <2>4, <2>5 DEF CaptureNext
<1>3. TypeOK'
  BY <1>1, <1>2 DEF TypeOK, sessionVars, creationVars, flagVars, opVars, closeVars
<1>4. CloseStops' /\ CloseIsHonest'
  BY <1>1 DEF CloseStops, CloseIsHonest, sessionVars, flagVars, opVars, closeVars
<1>5. ReportedIsRecoverable'
  <2>1. input' = input
    BY <1>1 DEF sessionVars, creationVars
  <2>2. reported' # Missing => Faithful(reported')
    BY <1>2 DEF CapturedIsFaithful, Faithful
  <2>3. reported' # Missing => Recoverable(reported')
    BY <2>2, FaithfulIsTaken
  <2> QED BY <2>1, <2>3 DEF ReportedIsRecoverable
<1> QED BY <1>2, <1>3, <1>4, <1>5

-----------------------------------------------------------------------------
(* The session *)

\* Steps that have nothing to do with the capture.
LEMMA IdentityFrame ==
  ASSUME IdentityTypeOK, CapturedIsFaithful, ReportedIsRecoverable,
         UNCHANGED identityVars, stage' = "none" => stage = "none", input' \in {input, Missing}
  PROVE  IdentityTypeOK' /\ CapturedIsFaithful' /\ ReportedIsRecoverable'
<1>1. IdentityTypeOK' /\ CapturedIsFaithful'
  BY DEF IdentityTypeOK, CapturedIsFaithful, Faithful, identityVars
<1>2. ReportedIsRecoverable'
  BY DEF ReportedIsRecoverable, identityVars
<1> QED BY <1>1, <1>2

\* A session is made for the captured identity: the capture is followed no further.
LEMMA CreationFrame ==
  ASSUME CaptureEnds, stage' # "none"
  PROVE  IdentityTypeOK' /\ CapturedIsFaithful'
BY DEF CaptureEnds, IdentityTypeOK, CapturedIsFaithful

\* Every certificate that is read is one that a URL may name.
LEMMA LeaseKeeps ==
  ASSUME IInv, Lease
  PROVE  IInv'
<1> USE DEF IInv
<1>1. stage' \in {"config", "refused"} /\ todo' \subseteq TlsKeys /\ CaptureEnds /\ stage = "none"
  BY DEF Lease, BaseRefused, Files, TypeOK
<1>2. IdentityTypeOK' /\ CapturedIsFaithful'
  BY <1>1, CreationFrame
<1>3. TypeOK'
  BY <1>1, <1>2 DEF TypeOK, Lease, flagVars, opVars, closeVars
<1>4. CloseStops' /\ CloseIsHonest'
  BY DEF CloseStops, CloseIsHonest, Lease, flagVars, opVars, closeVars
<1>5. ReportedIsRecoverable'
  BY <1>1 DEF ReportedIsRecoverable, Lease, CaptureEnds
<1> QED BY <1>2, <1>3, <1>4, <1>5

\* A recovery that is not refused removes a name computed for it.
LEMMA RecoverKeeps ==
  ASSUME IInv, NEW deviation \in Deviation, Recover(deviation)
  PROVE  IInv'
<1> USE DEF IInv
<1> DEFINE o == Deviating(deviation, OptionsOf(reported))
<1>1. o.url \in Url
  <2>1. reported.url \in Url
    BY DEF Recover, CapturedIsFaithful, Faithful
  <2>2. "url" \in DOMAIN OptionsOf(reported) /\ OptionsOf(reported)["url"] = reported.url
    BY DEF OptionsOf
  <2>3. o["url"] = IF "url" \in DOMAIN deviation THEN deviation["url"] ELSE OptionsOf(reported)["url"]
    BY <2>2 DEF Deviating
  <2> QED BY <2>1, <2>2, <2>3, DeviationAssumption
<1>2. \/ stage' = "refused" /\ UNCHANGED input
      \/ Refusal(o) = "none" /\ input' = Captured(o) /\ stage' \in {"config", "refused"}
  BY DEF Recover, RecoveryConfig
<1>3. CaptureEnds /\ stage' # "none" /\ UNCHANGED <<now, todo, file, aborted, connected, flagVars, socket, ended, ending, opVars, closeVars>>
  BY <1>2 DEF Recover
<1> HIDE DEF o
<1>4. input' # Missing => input'.databaseName # input'.baseName /\ NameBytes(input'.databaseName) <= MaxBytes
  BY <1>1, <1>2, TakenIsSafe DEF ReportedIsRecoverable
<1>5. IdentityTypeOK' /\ CapturedIsFaithful'
  BY <1>3, CreationFrame
<1>6. TypeOK'
  <2>1. stage = "none" /\ stage' \in {"config", "refused"}
    BY <1>2 DEF Recover
  <2> QED BY <1>3, <1>5, <2>1 DEF TypeOK, flagVars, opVars, closeVars
<1>7. CloseStops' /\ CloseIsHonest'
  BY <1>3 DEF CloseStops, CloseIsHonest, flagVars, opVars, closeVars
<1>8. ReportedIsRecoverable'
  BY <1>3, <1>4 DEF ReportedIsRecoverable, CaptureEnds
<1> QED BY <1>5, <1>6, <1>7, <1>8

\* A certificate is opened, or there is none.
LEMMA OpenFileKeeps ==
  ASSUME IInv, NEW key \in TlsKeys, OpenFile(key)
  PROVE  IInv'
<1> USE DEF IInv
<1>1. UNCHANGED identityVars /\ (stage' = "none" => stage = "none") /\ input' \in {input, Missing}
  BY DEF OpenFile, creationVars
<1>2. IdentityTypeOK' /\ CapturedIsFaithful' /\ ReportedIsRecoverable'
  BY <1>1, IdentityFrame DEF TypeOK
<1>3. TypeOK'
  BY <1>2, SessionAssumption DEF TypeOK, OpenFile, creationVars, flagVars, opVars, closeVars
<1>4. CloseStops' /\ CloseIsHonest'
  BY SessionAssumption DEF TypeOK, CloseStops, CloseIsHonest, OpenFile, creationVars, flagVars, opVars, closeVars
<1> QED BY <1>2, <1>3, <1>4

\* It is read and closed.
LEMMA ReadFileKeeps ==
  ASSUME IInv, ReadFile
  PROVE  IInv'
<1> USE DEF IInv
<1>1. UNCHANGED identityVars /\ (stage' = "none" => stage = "none") /\ input' \in {input, Missing}
  BY DEF ReadFile, creationVars
<1>2. IdentityTypeOK' /\ CapturedIsFaithful' /\ ReportedIsRecoverable'
  BY <1>1, IdentityFrame DEF TypeOK
<1>3. TypeOK'
  BY <1>2, SessionAssumption DEF TypeOK, ReadFile, creationVars, flagVars, opVars, closeVars
<1>4. CloseStops' /\ CloseIsHonest'
  BY SessionAssumption DEF TypeOK, CloseStops, CloseIsHonest, ReadFile, creationVars, flagVars, opVars, closeVars
<1> QED BY <1>2, <1>3, <1>4

\* The session is there, unless its owner has given it up meanwhile.
LEMMA MadeKeeps ==
  ASSUME IInv, Made
  PROVE  IInv'
<1> USE DEF IInv
<1>1. UNCHANGED identityVars /\ (stage' = "none" => stage = "none") /\ input' \in {input, Missing}
  BY DEF Made, creationVars
<1>2. IdentityTypeOK' /\ CapturedIsFaithful' /\ ReportedIsRecoverable'
  BY <1>1, IdentityFrame DEF TypeOK
<1>3. TypeOK'
  BY <1>2, SessionAssumption DEF TypeOK, Made, creationVars, flagVars, opVars, closeVars
<1>4. CloseStops' /\ CloseIsHonest'
  BY SessionAssumption DEF TypeOK, CloseStops, CloseIsHonest, Made, creationVars, flagVars, opVars, closeVars
<1> QED BY <1>2, <1>3, <1>4

\* The owner gives the session up.
LEMMA InterruptKeeps ==
  ASSUME IInv, Interrupt
  PROVE  IInv'
<1> USE DEF IInv
<1>1. UNCHANGED identityVars /\ (stage' = "none" => stage = "none") /\ input' \in {input, Missing}
  BY DEF Interrupt, creationVars
<1>2. IdentityTypeOK' /\ CapturedIsFaithful' /\ ReportedIsRecoverable'
  BY <1>1, IdentityFrame DEF TypeOK
<1>3. TypeOK'
  BY <1>2, SessionAssumption DEF TypeOK, Interrupt, Interrupted, Destroyed, creationVars, flagVars, opVars, closeVars
<1>4. CloseStops' /\ CloseIsHonest'
  BY SessionAssumption DEF TypeOK, CloseStops, CloseIsHonest, Interrupt, Interrupted, Destroyed, creationVars, flagVars, opVars, closeVars
<1> QED BY <1>2, <1>3, <1>4

\* The signal of a recovery is aborted.
LEMMA AbortKeeps ==
  ASSUME IInv, Abort
  PROVE  IInv'
<1> USE DEF IInv
<1>1. UNCHANGED identityVars /\ (stage' = "none" => stage = "none") /\ input' \in {input, Missing}
  BY DEF Abort, creationVars
<1>2. IdentityTypeOK' /\ CapturedIsFaithful' /\ ReportedIsRecoverable'
  BY <1>1, IdentityFrame DEF TypeOK
<1>3. TypeOK'
  BY <1>2, SessionAssumption DEF TypeOK, Abort, creationVars, flagVars, opVars, closeVars
<1>4. CloseStops' /\ CloseIsHonest'
  BY SessionAssumption DEF TypeOK, CloseStops, CloseIsHonest, Abort, creationVars, flagVars, opVars, closeVars
<1> QED BY <1>2, <1>3, <1>4

\* The socket breaks.
LEMMA SocketBreaksKeeps ==
  ASSUME IInv, SocketBreaks
  PROVE  IInv'
<1> USE DEF IInv
<1>1. UNCHANGED identityVars /\ (stage' = "none" => stage = "none") /\ input' \in {input, Missing}
  BY DEF SocketBreaks, creationVars
<1>2. IdentityTypeOK' /\ CapturedIsFaithful' /\ ReportedIsRecoverable'
  BY <1>1, IdentityFrame DEF TypeOK
<1>3. TypeOK'
  BY <1>2, SessionAssumption DEF TypeOK, SocketBreaks, creationVars, flagVars, opVars, closeVars
<1>4. CloseStops' /\ CloseIsHonest'
  BY SessionAssumption DEF TypeOK, CloseStops, CloseIsHonest, SocketBreaks, creationVars, flagVars, opVars, closeVars
<1> QED BY <1>2, <1>3, <1>4

\* The socket has closed, which a disposed session's has before.
LEMMA SocketClosesKeeps ==
  ASSUME IInv, SocketCloses
  PROVE  IInv'
<1> USE DEF IInv
<1>1. UNCHANGED identityVars /\ (stage' = "none" => stage = "none") /\ input' \in {input, Missing}
  BY DEF SocketCloses, creationVars
<1>2. IdentityTypeOK' /\ CapturedIsFaithful' /\ ReportedIsRecoverable'
  BY <1>1, IdentityFrame DEF TypeOK
<1>3. TypeOK'
  BY <1>2, SessionAssumption DEF TypeOK, SocketCloses, creationVars, flagVars, opVars, closeVars
<1>4. CloseStops' /\ CloseIsHonest'
  BY SessionAssumption DEF TypeOK, CloseStops, CloseIsHonest, SocketCloses, creationVars, flagVars, opVars, closeVars
<1> QED BY <1>2, <1>3, <1>4

\* The client of pg has ended.
LEMMA ClientEndsKeeps ==
  ASSUME IInv, ClientEnds
  PROVE  IInv'
<1> USE DEF IInv
<1>1. UNCHANGED identityVars /\ (stage' = "none" => stage = "none") /\ input' \in {input, Missing}
  BY DEF ClientEnds, creationVars
<1>2. IdentityTypeOK' /\ CapturedIsFaithful' /\ ReportedIsRecoverable'
  BY <1>1, IdentityFrame DEF TypeOK
<1>3. TypeOK'
  BY <1>2, SessionAssumption DEF TypeOK, ClientEnds, creationVars, flagVars, opVars, closeVars
<1>4. CloseStops' /\ CloseIsHonest'
  BY SessionAssumption DEF TypeOK, CloseStops, CloseIsHonest, ClientEnds, creationVars, flagVars, opVars, closeVars
<1> QED BY <1>2, <1>3, <1>4

\* Only a session that is not closing connects.
LEMMA ConnectKeeps ==
  ASSUME IInv, Connect
  PROVE  IInv'
<1> USE DEF IInv
<1>1. UNCHANGED identityVars /\ (stage' = "none" => stage = "none") /\ input' \in {input, Missing}
  BY DEF Connect, creationVars
<1>2. IdentityTypeOK' /\ CapturedIsFaithful' /\ ReportedIsRecoverable'
  BY <1>1, IdentityFrame DEF TypeOK
<1>3. TypeOK'
  BY <1>2, SessionAssumption DEF TypeOK, Connect, Dispatch, Healthy, creationVars, flagVars, opVars, closeVars
<1>4. CloseStops' /\ CloseIsHonest'
  BY SessionAssumption DEF TypeOK, CloseStops, CloseIsHonest, Connect, Dispatch, Healthy, creationVars, flagVars, opVars, closeVars
<1> QED BY <1>2, <1>3, <1>4

\* Nothing is sent once a session closes.
LEMMA QueryKeeps ==
  ASSUME IInv, NEW o \in Op, Query(o)
  PROVE  IInv'
<1> USE DEF IInv
<1>1. UNCHANGED identityVars /\ (stage' = "none" => stage = "none") /\ input' \in {input, Missing}
  BY DEF Query, creationVars
<1>2. IdentityTypeOK' /\ CapturedIsFaithful' /\ ReportedIsRecoverable'
  BY <1>1, IdentityFrame DEF TypeOK
<1>3. TypeOK'
  BY <1>2, SessionAssumption DEF TypeOK, Query, Dispatch, Healthy, creationVars, flagVars, opVars, closeVars
<1>4. CloseStops' /\ CloseIsHonest'
  BY SessionAssumption DEF TypeOK, CloseStops, CloseIsHonest, Query, Dispatch, Healthy, creationVars, flagVars, opVars, closeVars
<1> QED BY <1>2, <1>3, <1>4

\* The server has answered.
LEMMA AnswersKeeps ==
  ASSUME IInv, NEW o \in Op, Answers(o)
  PROVE  IInv'
<1> USE DEF IInv
<1>1. UNCHANGED identityVars /\ (stage' = "none" => stage = "none") /\ input' \in {input, Missing}
  BY DEF Answers, creationVars
<1>2. IdentityTypeOK' /\ CapturedIsFaithful' /\ ReportedIsRecoverable'
  BY <1>1, IdentityFrame DEF TypeOK
<1>3. TypeOK'
  BY <1>2, SessionAssumption DEF TypeOK, Answers, creationVars, flagVars, opVars, closeVars
<1>4. CloseStops' /\ CloseIsHonest'
  BY SessionAssumption DEF TypeOK, CloseStops, CloseIsHonest, Answers, creationVars, flagVars, opVars, closeVars
<1> QED BY <1>2, <1>3, <1>4

\* An operation has failed.
LEMMA RejectsKeeps ==
  ASSUME IInv, NEW o \in Op, Rejects(o)
  PROVE  IInv'
<1> USE DEF IInv
<1>1. UNCHANGED identityVars /\ (stage' = "none" => stage = "none") /\ input' \in {input, Missing}
  BY DEF Rejects, creationVars
<1>2. IdentityTypeOK' /\ CapturedIsFaithful' /\ ReportedIsRecoverable'
  BY <1>1, IdentityFrame DEF TypeOK
<1>3. TypeOK'
  BY <1>2, SessionAssumption DEF TypeOK, Rejects, Throws, Interrupted, Destroyed, creationVars, flagVars, opVars, closeVars
<1>4. CloseStops' /\ CloseIsHonest'
  BY SessionAssumption DEF TypeOK, CloseStops, CloseIsHonest, Rejects, Throws, Interrupted, Destroyed, creationVars, flagVars, opVars, closeVars
<1> QED BY <1>2, <1>3, <1>4

\* An operation has run out of time.
LEMMA TimesOutKeeps ==
  ASSUME IInv, NEW o \in Op, TimesOut(o)
  PROVE  IInv'
<1> USE DEF IInv
<1>1. UNCHANGED identityVars /\ (stage' = "none" => stage = "none") /\ input' \in {input, Missing}
  BY DEF TimesOut, creationVars
<1>2. IdentityTypeOK' /\ CapturedIsFaithful' /\ ReportedIsRecoverable'
  BY <1>1, IdentityFrame DEF TypeOK
<1>3. TypeOK'
  BY <1>2, SessionAssumption DEF TypeOK, TimesOut, Throws, Interrupted, Destroyed, creationVars, flagVars, opVars, closeVars
<1>4. CloseStops' /\ CloseIsHonest'
  BY SessionAssumption DEF TypeOK, CloseStops, CloseIsHonest, TimesOut, Throws, Interrupted, Destroyed, creationVars, flagVars, opVars, closeVars
<1> QED BY <1>2, <1>3, <1>4

\* The close begins.
LEMMA BeginCloseKeeps ==
  ASSUME IInv, NEW ms \in Budgets, BeginClose(ms)
  PROVE  IInv'
<1> USE DEF IInv
<1>1. UNCHANGED identityVars /\ (stage' = "none" => stage = "none") /\ input' \in {input, Missing}
  BY DEF BeginClose, creationVars
<1>2. IdentityTypeOK' /\ CapturedIsFaithful' /\ ReportedIsRecoverable'
  BY <1>1, IdentityFrame DEF TypeOK
<1>3. TypeOK'
  BY <1>2, SessionAssumption DEF TypeOK, BeginClose, Healthy, Destroyed, creationVars, flagVars, opVars, closeVars
<1>4. CloseStops' /\ CloseIsHonest'
  BY SessionAssumption DEF TypeOK, CloseStops, CloseIsHonest, BeginClose, Healthy, Destroyed, creationVars, flagVars, opVars, closeVars
<1> QED BY <1>2, <1>3, <1>4

\* The client cannot be ended.
LEMMA EndFailsKeeps ==
  ASSUME IInv, EndFails
  PROVE  IInv'
<1> USE DEF IInv
<1>1. UNCHANGED identityVars /\ (stage' = "none" => stage = "none") /\ input' \in {input, Missing}
  BY DEF EndFails, creationVars
<1>2. IdentityTypeOK' /\ CapturedIsFaithful' /\ ReportedIsRecoverable'
  BY <1>1, IdentityFrame DEF TypeOK
<1>3. TypeOK'
  BY <1>2, SessionAssumption DEF TypeOK, EndFails, Destroyed, Listening, creationVars, flagVars, opVars, closeVars
<1>4. CloseStops' /\ CloseIsHonest'
  BY SessionAssumption DEF TypeOK, CloseStops, CloseIsHonest, EndFails, Destroyed, Listening, creationVars, flagVars, opVars, closeVars
<1> QED BY <1>2, <1>3, <1>4

\* The close is confirmed: the session is disposed of.
LEMMA ConfirmsKeeps ==
  ASSUME IInv, Confirms
  PROVE  IInv'
<1> USE DEF IInv
<1>1. UNCHANGED identityVars /\ (stage' = "none" => stage = "none") /\ input' \in {input, Missing}
  BY DEF Confirms, creationVars
<1>2. IdentityTypeOK' /\ CapturedIsFaithful' /\ ReportedIsRecoverable'
  BY <1>1, IdentityFrame DEF TypeOK
<1>3. TypeOK'
  BY <1>2, SessionAssumption DEF TypeOK, Confirms, Confirmed, creationVars, flagVars, opVars, closeVars
<1>4. CloseStops' /\ CloseIsHonest'
  BY SessionAssumption DEF TypeOK, CloseStops, CloseIsHonest, Confirms, Confirmed, creationVars, flagVars, opVars, closeVars
<1> QED BY <1>2, <1>3, <1>4

\* Half of the budget is spent: the close goes on by force.
LEMMA HalfTimerKeeps ==
  ASSUME IInv, HalfTimer
  PROVE  IInv'
<1> USE DEF IInv
<1>1. UNCHANGED identityVars /\ (stage' = "none" => stage = "none") /\ input' \in {input, Missing}
  BY DEF HalfTimer, creationVars
<1>2. IdentityTypeOK' /\ CapturedIsFaithful' /\ ReportedIsRecoverable'
  BY <1>1, IdentityFrame DEF TypeOK
<1>3. TypeOK'
  BY <1>2, SessionAssumption DEF TypeOK, HalfTimer, Destroyed, creationVars, flagVars, opVars, closeVars
<1>4. CloseStops' /\ CloseIsHonest'
  BY SessionAssumption DEF TypeOK, CloseStops, CloseIsHonest, HalfTimer, Destroyed, creationVars, flagVars, opVars, closeVars
<1> QED BY <1>2, <1>3, <1>4

\* The budget is spent.
LEMMA FinalTimerKeeps ==
  ASSUME IInv, FinalTimer
  PROVE  IInv'
<1> USE DEF IInv
<1>1. UNCHANGED identityVars /\ (stage' = "none" => stage = "none") /\ input' \in {input, Missing}
  BY DEF FinalTimer, creationVars
<1>2. IdentityTypeOK' /\ CapturedIsFaithful' /\ ReportedIsRecoverable'
  BY <1>1, IdentityFrame DEF TypeOK
<1>3. TypeOK'
  BY <1>2, SessionAssumption DEF TypeOK, FinalTimer, Destroyed, creationVars, flagVars, opVars, closeVars
<1>4. CloseStops' /\ CloseIsHonest'
  BY SessionAssumption DEF TypeOK, CloseStops, CloseIsHonest, FinalTimer, Destroyed, creationVars, flagVars, opVars, closeVars
<1> QED BY <1>2, <1>3, <1>4

\* Time goes on, up to a timer that is due.
LEMMA TickKeeps ==
  ASSUME IInv, Tick
  PROVE  IInv'
<1> USE DEF IInv
<1>1. UNCHANGED identityVars /\ (stage' = "none" => stage = "none") /\ input' \in {input, Missing}
  BY DEF Tick, creationVars
<1>2. IdentityTypeOK' /\ CapturedIsFaithful' /\ ReportedIsRecoverable'
  BY <1>1, IdentityFrame DEF TypeOK
<1>3. TypeOK'
  BY <1>2, SessionAssumption DEF TypeOK, Tick, Due, HalfAt, DeadlineAt, creationVars, flagVars, opVars, closeVars
<1>4. CloseStops' /\ CloseIsHonest'
  <2>1. began \in Nat /\ budget \in Nat /\ now \in Nat /\ now' = now + 1
    BY SessionAssumption DEF TypeOK, Tick
  <2>2. budget \div 2 <= budget /\ budget \div 2 \in Nat
    BY <2>1
  <2>3. closing \in {"graceful", "forced"} => now' <= began + budget
    BY <2>1, <2>2 DEF Tick, Due, HalfAt, DeadlineAt
  <2> QED BY <2>3 DEF CloseStops, CloseIsHonest, Tick, creationVars, flagVars, opVars, closeVars
<1> QED BY <1>2, <1>3, <1>4
-----------------------------------------------------------------------------
(* Theorems *)

\* The invariant holds at first.
LEMMA InvariantInit == Init => IInv
<1> SUFFICES ASSUME Init PROVE IInv
  OBVIOUS
<1>1. IdentityTypeOK /\ CapturedIsFaithful
  BY DEF Init, IdentityInit, IdentityTypeOK, CapturedIsFaithful
<1>2. TypeOK
  <2>1. {aborted, connected, stopping, lost, confirmed, ended, failed} \subseteq BOOLEAN
    BY DEF Init
  <2>2. /\ call \in [Op -> {"none", "waiting", "ok", "failed"}] /\ promise \in [Op -> {"none", "pending", "settled"}]
        /\ until \in [Op -> Nat] /\ \A o \in Op : call[o] # "waiting"
    BY DEF Init
  <2>3. now = 0 /\ now \in 0..MaxTime /\ began \in 0..now /\ budget \in Budgets \cup {0}
    BY SessionAssumption DEF Init
  <2> QED BY <1>1, <2>1, <2>2, <2>3 DEF Init, TypeOK
<1>3. CloseStops /\ CloseIsHonest /\ ReportedIsRecoverable
  BY DEF Init, IdentityInit, CloseStops, CloseIsHonest, ReportedIsRecoverable
<1> QED BY <1>1, <1>2, <1>3 DEF IInv

\* Every step keeps it.
LEMMA InvariantNext == IInv /\ [Next]_vars => IInv'
<1> SUFFICES ASSUME IInv, [Next]_vars PROVE IInv'
  OBVIOUS
<1>1. CASE CaptureNext \/ Lease \/ ReadFile \/ Made
  BY <1>1, CaptureKeeps, LeaseKeeps, ReadFileKeeps, MadeKeeps
<1>2. ASSUME NEW deviation \in Deviation, Recover(deviation) PROVE IInv'
  BY <1>2, RecoverKeeps
<1>3. ASSUME NEW key \in TlsKeys, OpenFile(key) PROVE IInv'
  BY <1>3, OpenFileKeeps
<1>4. CASE Interrupt \/ Abort \/ SocketBreaks \/ SocketCloses \/ ClientEnds \/ Connect
  BY <1>4, InterruptKeeps, AbortKeeps, SocketBreaksKeeps, SocketClosesKeeps, ClientEndsKeeps, ConnectKeeps
<1>5. ASSUME NEW o \in Op, Query(o) \/ Answers(o) \/ Rejects(o) \/ TimesOut(o) PROVE IInv'
  BY <1>5, QueryKeeps, AnswersKeeps, RejectsKeeps, TimesOutKeeps
<1>6. ASSUME NEW ms \in Budgets, BeginClose(ms) PROVE IInv'
  BY <1>6, BeginCloseKeeps
<1>7. CASE EndFails \/ Confirms \/ HalfTimer \/ FinalTimer \/ Tick
  BY <1>7, EndFailsKeeps, ConfirmsKeeps, HalfTimerKeeps, FinalTimerKeeps, TickKeeps
<1>8. CASE UNCHANGED vars
  <2> USE <1>8 DEF IInv, vars, sessionVars, creationVars, flagVars, opVars, closeVars
  <2>1. IdentityTypeOK' /\ CapturedIsFaithful' /\ ReportedIsRecoverable'
    BY IdentityFrame DEF TypeOK
  <2>2. TypeOK'
    BY <2>1 DEF TypeOK
  <2>3. CloseStops' /\ CloseIsHonest'
    BY DEF CloseStops, CloseIsHonest
  <2> QED BY <2>1, <2>2, <2>3
<1> QED BY <1>1, <1>2, <1>3, <1>4, <1>5, <1>6, <1>7, <1>8 DEF Next, Timers

\* The invariant holds in every reachable state, for any URLs, namespaces, operations and budgets.
THEOREM Invariance == Spec => []IInv
BY InvariantInit, InvariantNext, PTL DEF Spec

\* The fields of the model have their types.
THEOREM TypeCorrect == Spec => []TypeOK
<1>1. IInv => TypeOK
  BY DEF IInv
<1> QED BY <1>1, Invariance, PTL

\* A close that succeeds has left nothing under way, and every close settles by the end of its budget.
THEOREM CloseHonesty == Spec => []CloseIsHonest
<1>1. IInv => CloseIsHonest
  BY DEF IInv
<1> QED BY <1>1, Invariance, PTL

\* What a test process reports of its database is what a recovery takes, with exactly the exceptions
\* of NotTaken, each of which is refused (captureRecoveryInput); and what a recovery takes is a name
\* that fits and is not the base: for every base name, since a prefix of whole characters that leaves
\* room for the suffix always exists.
THEOREM ReportsAreRecoverable == Spec => []ReportedIsRecoverable
<1>1. IInv => ReportedIsRecoverable
  BY DEF IInv
<1> QED BY <1>1, Invariance, PTL

\* A session takes only steps of SessionPromise: it begins healthy and open.
LEMMA PromiseInit == Init => Promise!Init
BY DEF Init, Promise!Init, Healthy

\* Steps of the session that SessionPromise does not see, or sees as a break.
LEMMA PromiseBreaks ==
  ASSUME Healthy' => Healthy, UNCHANGED <<call, confirmed, closing>>
  PROVE  [Promise!Next]_(Promise!vars)
<1>1. CASE Healthy' = Healthy
  BY <1>1 DEF Promise!vars, Healthy
<1>2. CASE ~Healthy'
  <2>1. Promise!Break
    BY <1>2 DEF Promise!Break, Healthy
  <2> QED BY <2>1 DEF Promise!Next
<1> QED BY <1>1, <1>2 DEF Healthy

\* An operation is sent, or refused when the session is not healthy.
LEMMA PromiseDispatches ==
  ASSUME NEW o \in Op, call \in [Op -> {"none", "waiting", "ok", "failed"}], Dispatch(o),
         UNCHANGED <<stopping, lost, confirmed, closing>>
  PROVE  Promise!Next
<1>1. Promise!Dispatch(o)
  BY DEF Dispatch, Promise!Dispatch, Promise!Becomes, Healthy
<1> QED BY <1>1 DEF Promise!Next

\* An operation that throws leaves a session that is not healthy.
LEMMA PromiseFails ==
  ASSUME NEW o \in Op, call[o] = "waiting", Throws(o), UNCHANGED <<confirmed, closing>>
  PROVE  Promise!Next
<1>1. Promise!Fail(o)
  BY DEF Throws, Interrupted, Promise!Fail, Promise!Becomes, Healthy
<1> QED BY <1>1 DEF Promise!Next

\* Every step of the session is one of the promise, or none.
LEMMA PromiseNext == IInv /\ [Next]_vars => [Promise!Next]_(Promise!vars)
<1> SUFFICES ASSUME IInv, [Next]_vars PROVE [Promise!Next]_(Promise!vars)
  OBVIOUS
<1> USE DEF creationVars, flagVars, opVars, closeVars
<1>0. /\ call \in [Op -> {"none", "waiting", "ok", "failed"}]
      /\ {stopping, lost, confirmed} \subseteq BOOLEAN
      /\ \A o \in Op : call[o] = "waiting" => promise[o] = "pending"
      /\ closing \in {"no", "graceful", "forced", "ok", "failed"}
      /\ closing # "no" => stopping
      /\ confirmed => closing \in {"ok", "failed"}
  BY DEF IInv, TypeOK, CloseStops
<1>1. CASE CaptureNext
  BY <1>1, PromiseBreaks DEF CaptureNext, sessionVars, Healthy
<1>2. CASE Lease \/ \E deviation \in Deviation : Recover(deviation)
  BY <1>2, PromiseBreaks DEF Lease, Recover, Healthy
<1>3. CASE (\E key \in TlsKeys : OpenFile(key)) \/ ReadFile \/ Made
  BY <1>3, PromiseBreaks DEF OpenFile, ReadFile, Made, Healthy
<1>4. CASE Interrupt \/ Abort \/ SocketBreaks
  BY <1>4, PromiseBreaks DEF Interrupt, Interrupted, Abort, SocketBreaks, Healthy
<1>5. CASE SocketCloses \/ ClientEnds
  BY <1>5, PromiseBreaks DEF SocketCloses, ClientEnds, Healthy
<1>6. CASE Connect
  BY <1>0, <1>6, PromiseDispatches, SessionAssumption DEF Connect
<1>7. ASSUME NEW o \in Op, Query(o) PROVE [Promise!Next]_(Promise!vars)
  BY <1>0, <1>7, PromiseDispatches DEF Query
<1>8. ASSUME NEW o \in Op, Answers(o) PROVE [Promise!Next]_(Promise!vars)
  <2>1. CASE call[o] = "waiting"
    <3>1. Promise!Succeed(o)
      BY <1>0, <1>8, <2>1 DEF Answers, Promise!Succeed, Promise!Becomes, Healthy
    <3> QED BY <3>1 DEF Promise!Next
  <2>2. CASE call[o] # "waiting"
    <3>1. call' = call
      BY <1>0, <1>8, <2>2 DEF Answers
    <3> QED BY <1>8, <3>1, PromiseBreaks DEF Answers, Healthy
  <2> QED BY <2>1, <2>2
<1>9. ASSUME NEW o \in Op, Rejects(o) PROVE [Promise!Next]_(Promise!vars)
  <2>1. CASE call[o] = "waiting"
    BY <1>9, <2>1, PromiseFails DEF Rejects
  <2>2. CASE call[o] # "waiting"
    BY <1>9, <2>2, PromiseBreaks DEF Rejects, Healthy
  <2> QED BY <2>1, <2>2
<1>10. ASSUME NEW o \in Op, TimesOut(o) PROVE [Promise!Next]_(Promise!vars)
  BY <1>10, PromiseFails DEF TimesOut
<1>11. ASSUME NEW ms \in Budgets, BeginClose(ms) PROVE [Promise!Next]_(Promise!vars)
  <2>1. Promise!BeginClose
    BY <1>11 DEF BeginClose, Promise!BeginClose, Healthy
  <2> QED BY <2>1 DEF Promise!Next
<1>12. CASE EndFails
  BY <1>12, PromiseBreaks DEF EndFails, Healthy
<1>13. CASE Confirms
  <2>1. \A o \in Op : call[o] # "waiting"
    BY <1>0, <1>13 DEF Confirms, Confirmed
  <2>2. Promise!Settle
    BY <1>0, <1>13, <2>1 DEF Confirms, Promise!Settle, Healthy
  <2> QED BY <2>2 DEF Promise!Next
<1>14. CASE HalfTimer
  BY <1>0, <1>14 DEF HalfTimer, Promise!vars, Healthy
<1>15. CASE FinalTimer
  <2>1. Promise!Settle
    BY <1>0, <1>15 DEF FinalTimer, Promise!Settle, Healthy
  <2> QED BY <2>1 DEF Promise!Next
<1>16. CASE Tick
  BY <1>16, PromiseBreaks DEF Tick, Healthy
<1>17. CASE UNCHANGED vars
  BY <1>17 DEF vars, sessionVars, Promise!vars, Healthy
<1> QED
  BY <1>1, <1>2, <1>3, <1>4, <1>5, <1>6, <1>7, <1>8, <1>9, <1>10, <1>11, <1>12, <1>13, <1>14, <1>15,
     <1>16, <1>17 DEF Next, Timers

\* The session implements the steps of SessionPromise, on which the lifecycle and the recovery are
\* built: a statement that fails makes it unhealthy for good, it closes once, and is disposed of
\* only with nothing under way.
THEOREM ImplementsPromise == Spec => KeepsSteps
BY PromiseInit, PromiseNext, Invariance, PTL DEF Spec, KeepsSteps
=============================================================================
