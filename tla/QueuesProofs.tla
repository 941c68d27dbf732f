--------------------------- MODULE QueuesProofs ---------------------------
(***************************************************************************)
(* Proofs about Queues.  What getJob answers; then that IInv holds, by one  *)
(* lemma for each action; from it what the schedulers and the jobs promise. *)
(***************************************************************************)
EXTENDS QueuesInvariant, FiniteSetTheorems, TLAPS

-----------------------------------------------------------------------------
(* The registry *)

\* A set of naturals that is not empty has a least member: the interval up to it is minimal among
\* the finite intervals up to a member.
LEMMA LeastMember ==
  ASSUME NEW S \in SUBSET Nat, S # {}
  PROVE  \E k \in S : \A l \in S : k <= l
<1> DEFINE T == {1..k : k \in S}
<1>1. T \subseteq FiniteSubsetsOf(Nat) /\ T # {}
  <2>1. ASSUME NEW k \in S PROVE 1..k \in SUBSET Nat /\ IsFiniteSet(1..k)
    BY FS_Interval
  <2> QED BY <2>1 DEF FiniteSubsetsOf
<1> HIDE DEF T
<1>2. PICK x \in T : \A y \in T : <<y, x>> \notin StrictSubsetOrdering(Nat)
  <2> DEFINE W == FiniteSubsetsOf(Nat)
             R == StrictSubsetOrdering(Nat)
  <2>1. IsWellFoundedOn(R, W) /\ T \subseteq W /\ T # {}
    BY <1>1, FS_StrictSubsetOrderingWellFounded
  <2> HIDE DEF W, R
  <2>2. \E x \in T : \A y \in T : <<y, x>> \notin R
    BY <2>1, WFMin, Zenon
  <2> QED BY <2>2 DEF R
<1>3. PICK k \in S : x = 1..k
  BY DEF T
<1>4. ASSUME NEW l \in S, l < k PROVE FALSE
  <2>1. 1..l \in T /\ 1..l \subseteq Nat /\ 1..k \subseteq Nat
    BY DEF T
  <2>2. 1..l \subseteq 1..k /\ k \in 1..k /\ k \notin 1..l
    BY <1>4
  <2>3. <<1..l, 1..k>> \in StrictSubsetOrdering(Nat)
    BY <2>1, <2>2 DEF StrictSubsetOrdering
  <2> QED BY <1>2, <1>3, <2>1, <2>3
<1> QED BY <1>4

\* getJob of a registered name is a provider of that name, the first one.
LEMMA JobIsFirst ==
  ASSUME NEW r \in Release, NEW n \in Registered(r)
  PROVE  \E k \in DOMAIN r.providers :
           /\ Job(r, n) = r.providers[k] /\ r.providers[k].name = n
           /\ \A l \in 1..(k - 1) : r.providers[l].name # n
<1> DEFINE S == {k \in DOMAIN r.providers : r.providers[k].name = n}
           First(k) == r.providers[k].name = n /\ \A l \in 1..(k - 1) : r.providers[l].name # n
<1>1. r.providers \in Seq(ProviderOf)
  BY ReleaseAssumption
<1>2. DOMAIN r.providers = 1..Len(r.providers) /\ Len(r.providers) \in Nat
  BY <1>1
<1>3. S \in SUBSET Nat /\ S # {}
  BY <1>2 DEF Registered, Range
<1>4. PICK k \in S : \A l \in S : k <= l
  BY <1>3, LeastMember
<1>5. k \in DOMAIN r.providers /\ First(k)
  BY <1>2, <1>4
<1>6. (CHOOSE m \in DOMAIN r.providers : First(m)) \in DOMAIN r.providers
      /\ First(CHOOSE m \in DOMAIN r.providers : First(m))
  BY <1>5, Zenon
<1> QED BY <1>6 DEF Job

\* What getJob answers is typed and has the name it was asked for.
LEMMA JobTyped ==
  ASSUME NEW r \in Release, NEW n \in Registered(r)
  PROVE  Job(r, n) \in ProviderOf /\ Job(r, n).name = n /\ n \in JobName
<1>1. r.providers \in Seq(ProviderOf)
  BY ReleaseAssumption
<1>2. PICK k \in DOMAIN r.providers : Job(r, n) = r.providers[k] /\ r.providers[k].name = n
  BY JobIsFirst
<1>3. r.providers[k] \in ProviderOf
  BY <1>1
<1> QED BY <1>2, <1>3 DEF ProviderOf

\* A cron job has a pattern and a queue.
LEMMA CronTyped ==
  ASSUME NEW r \in Release, NEW q \in QueueName, NEW n \in CronJobs(r, q)
  PROVE  n \in JobName /\ n \in Registered(r) /\ Job(r, n).queue = q /\ Job(r, n).cron \in STRING
<1>1. n \in Registered(r) /\ Job(r, n).queue = q /\ Job(r, n).cron # NoCron
  BY DEF CronJobs
<1> QED BY <1>1, JobTyped DEF ProviderOf

\* A new job is put on a queue, registered or not.
LEMMA ResolveTyped ==
  ASSUME NEW r \in Release, NEW n \in JobName
  PROVE  ResolveQueueName(r, n) \in QueueName
<1>1. CASE n \in Registered(r)
  BY <1>1, JobTyped DEF ResolveQueueName, ProviderOf
<1>2. CASE n \notin Registered(r)
  BY <1>2, QueueAssumption DEF ResolveQueueName
<1> QED BY <1>1, <1>2

-----------------------------------------------------------------------------
(* Frames *)

\* Steps that leave the processes and the schedulers alone.
LEMMA SyncFrame ==
  ASSUME IInv, UNCHANGED <<release, sync, schedulers, disturbed>>
  PROVE  UpsertsOwn' /\ SchedulerIsOfRelease' /\ MovedIsRemoved' /\ UpsertedIsThere'
<1>1. UpsertsOwn' /\ SchedulerIsOfRelease'
  BY DEF IInv, UpsertsOwn, SchedulerIsOfRelease
<1>2. MovedIsRemoved'
  BY DEF IInv, MovedIsRemoved, Fresh, Running
<1>3. UpsertedIsThere'
  BY DEF IInv, UpsertedIsThere, Fresh, Running, Upserted, Pending
<1> QED BY <1>1, <1>2, <1>3

\* Steps that leave the jobs alone and start no worker.
LEMMA JobFrame ==
  ASSUME IInv, UNCHANGED jobs,
         \A p \in Process, i \in JobId : run'[p][i] \in {run[p][i], "none"}
  PROVE  JobIsRouted' /\ JobsRunApart'
<1>1. JobIsRouted'
  BY DEF IInv, JobIsRouted
<1>2. JobsRunApart'
  BY DEF IInv, JobsRunApart, TypeOK
<1> QED BY <1>1, <1>2

\* A step of one queue's synchronisation changes that one only.
LEMMA EntersFrame ==
  ASSUME TypeOK, NEW p \in Process, NEW q \in QueueName,
         NEW pc \in {"off", "list", "remove", "upsert", "ready"}, NEW names \in SUBSET JobName,
         Enters(p, q, pc, names)
  PROVE  /\ sync' \in [Process -> [QueueName -> SyncState]]
         /\ sync'[p][q].pc = pc /\ sync'[p][q].names = names
         /\ \A o \in Process, k \in QueueName : o # p \/ k # q => sync'[o][k] = sync[o][k]
BY DEF TypeOK, SyncState, Enters

-----------------------------------------------------------------------------
(* Start-up *)

\* The invariant holds at first.
LEMMA InvariantInit == Init => IInv
<1> SUFFICES ASSUME Init PROVE IInv
  OBVIOUS
<1>1. TypeOK
  BY QueueBounds, NoneAssumption DEF Init, TypeOK, Idle, NoJob, JobState, SyncState
<1>2. DownIsIdle /\ UpsertsOwn
  BY DEF Init, DownIsIdle, UpsertsOwn, Idle
<1>3. SchedulerIsOfRelease /\ MovedIsRemoved
  BY DEF Init, SchedulerIsOfRelease, MovedIsRemoved, Idle
<1>4. UpsertedIsThere
  BY DEF Init, UpsertedIsThere, Fresh, Running
<1>5. JobIsRouted /\ JobsRunApart
  <2>1. \A i \in JobId : jobs[i] = NoJob
    BY DEF Init
  <2>2. NoJob.state = "none" /\ NoJob.name = Nothing
    BY DEF NoJob
  <2> QED BY <2>1, <2>2, NoneAssumption DEF JobIsRouted, JobsRunApart, NoJob
<1> QED BY <1>1, <1>2, <1>3, <1>4, <1>5 DEF IInv

\* A process boots: it has no more done than the others know, and nothing has come in between.
LEMMA BootKeeps ==
  ASSUME IInv, NEW p \in Process, NEW r \in Release, Boot(p, r)
  PROVE  IInv'
<1> USE DEF IInv
<1>1. /\ release' = [release EXCEPT ![p] = r] /\ release[p] = Down
      /\ sync' = [sync EXCEPT ![p] = Processors(r)]
      /\ \A q \in QueueName : sync'[p][q].pc \in {"off", "list"} /\ sync'[p][q] \in SyncState
      /\ \A o \in Process \ {p} : sync'[o] = sync[o] /\ release'[o] = release[o]
      /\ release'[p] = r /\ disturbed' = disturbed \ {p}
      /\ UNCHANGED <<schedulers, jobs, run>>
  BY DEF Boot, TypeOK, Processors, Idle, SyncState, Running
<1>2. TypeOK'
  <2>1. Processors(r) \in [QueueName -> SyncState]
    BY DEF Processors, Idle, SyncState
  <2>2. events' \in 0..MaxEvents
    BY QueueBounds DEF Boot, Counted, TypeOK
  <2> QED BY <1>1, <2>1, <2>2 DEF TypeOK
<1>3. DownIsIdle' /\ UpsertsOwn' /\ SchedulerIsOfRelease'
  BY <1>1, NoneAssumption DEF DownIsIdle, UpsertsOwn, SchedulerIsOfRelease, Running
<1>4. MovedIsRemoved'
  BY <1>1 DEF MovedIsRemoved, Fresh, Running
<1>5. UpsertedIsThere'
  <2> SUFFICES ASSUME NEW o \in Process, NEW q \in QueueName, Fresh(o)',
                      NEW n \in CronJobs(release[o], q)', Upserted(o, q, n)'
               PROVE  (\/ schedulers[q][n] # Nothing /\ schedulers[q][n].cron = Job(release[o], n).cron
                       \/ Pending(release[o], q, n))'
    BY DEF UpsertedIsThere
  <2>1. /\ o # p /\ Fresh(o) /\ Upserted(o, q, n) /\ release'[o] = release[o]
        /\ n \in CronJobs(release[o], q)
    BY <1>1 DEF Fresh, Running, Upserted
  <2>2. CASE Pending(release[o], q, n)
    <3>1. PICK k \in Process : /\ release[k] = release[o]
                               /\ \/ sync[k][q].pc = "remove"
                                  \/ sync[k][q].pc = "upsert" /\ n \in sync[k][q].names
      BY <2>2 DEF Pending
    <3>2. k # p
      BY <1>1, <2>1, <3>1 DEF Fresh, Running
    <3> QED BY <1>1, <2>1, <3>1, <3>2 DEF Pending
  <2> QED BY <1>1, <2>1, <2>2 DEF UpsertedIsThere
<1>6. JobIsRouted' /\ JobsRunApart'
  BY <1>1, JobFrame DEF TypeOK
<1> QED BY <1>2, <1>3, <1>4, <1>5, <1>6

\* A process ends: it takes with it what it had still to upsert, and who relied on that is disturbed.
LEMMA StopKeeps ==
  ASSUME IInv, NEW p \in Process, Stop(p), events' \in 0..MaxEvents
  PROVE  IInv'
<1> USE DEF IInv
<1>1. /\ release' = [release EXCEPT ![p] = Down] /\ release'[p] = Down
      /\ \A q \in QueueName : sync'[p][q].pc = "off"
      /\ \A i \in JobId : run'[p][i] = "none"
      /\ \A o \in Process \ {p} : sync'[o] = sync[o] /\ release'[o] = release[o] /\ run'[o] = run[o]
      /\ disturbed \subseteq disturbed' /\ disturbed' \subseteq Process
      /\ (\E q \in QueueName : sync[p][q].pc \in {"remove", "upsert"}) => Process \ {p} \subseteq disturbed'
      /\ UNCHANGED <<schedulers, jobs>>
  BY DEF Stop, TypeOK, Idle, Others
<1>2. TypeOK'
  BY <1>1 DEF TypeOK, Stop, SyncState, Idle
<1>3. DownIsIdle' /\ UpsertsOwn' /\ SchedulerIsOfRelease'
  BY <1>1 DEF DownIsIdle, UpsertsOwn, SchedulerIsOfRelease, Running
<1>4. MovedIsRemoved'
  BY <1>1 DEF MovedIsRemoved, Fresh, Running
<1>5. UpsertedIsThere'
  <2> SUFFICES ASSUME NEW o \in Process, NEW q \in QueueName, Fresh(o)',
                      NEW n \in CronJobs(release[o], q)', Upserted(o, q, n)'
               PROVE  (\/ schedulers[q][n] # Nothing /\ schedulers[q][n].cron = Job(release[o], n).cron
                       \/ Pending(release[o], q, n))'
    BY DEF UpsertedIsThere
  <2>1. /\ o # p /\ Fresh(o) /\ Upserted(o, q, n) /\ release'[o] = release[o]
        /\ n \in CronJobs(release[o], q)
    BY <1>1 DEF Fresh, Running, Upserted
  <2>2. CASE Pending(release[o], q, n)
    <3>1. PICK k \in Process : /\ release[k] = release[o]
                               /\ \/ sync[k][q].pc = "remove"
                                  \/ sync[k][q].pc = "upsert" /\ n \in sync[k][q].names
      BY <2>2 DEF Pending
    <3>2. k # p
      BY <1>1, <2>1, <3>1 DEF Fresh
    <3> QED BY <1>1, <2>1, <3>1, <3>2 DEF Pending
  <2> QED BY <1>1, <2>1, <2>2 DEF UpsertedIsThere
<1>6. JobIsRouted' /\ JobsRunApart'
  BY <1>1, JobFrame DEF TypeOK
<1> QED BY <1>2, <1>3, <1>4, <1>5, <1>6

\* Whoever synchronises runs, a typed release.
LEMMA SynchroniserRuns ==
  ASSUME IInv, NEW p \in Process, NEW q \in QueueName, sync[p][q].pc # "off"
  PROVE  Running(p) /\ release[p] \in Release /\ sync[p][q] \in SyncState
BY DEF IInv, DownIsIdle, TypeOK, Running

\* A queue is listed: what is stale is going to be removed.
LEMMA ListsKeeps ==
  ASSUME IInv, NEW p \in Process, NEW q \in QueueName, Lists(p, q)
  PROVE  IInv'
<1> USE DEF IInv
<1> DEFINE stale == {n \in JobName : schedulers[q][n] # Nothing /\ Stale(release[p], q, n, schedulers[q][n])}
<1>1. /\ sync[p][q].pc = "list" /\ Enters(p, q, "remove", stale) /\ stale \in SUBSET JobName
      /\ UNCHANGED <<release, schedulers, jobs, run, disturbed, events>>
  BY DEF Lists
<1>2. /\ sync' \in [Process -> [QueueName -> SyncState]]
      /\ sync'[p][q].pc = "remove" /\ sync'[p][q].names = stale
      /\ \A o \in Process, k \in QueueName : o # p \/ k # q => sync'[o][k] = sync[o][k]
  BY <1>1, EntersFrame, Zenon
<1>3. \A n \in JobName : schedulers[q][n] # Nothing /\ n \in Registered(release[p]) /\ Job(release[p], n).queue # q
                        => n \in stale
  BY DEF Stale
<1> HIDE DEF stale
<1>4. TypeOK' /\ DownIsIdle' /\ UpsertsOwn' /\ SchedulerIsOfRelease'
  <2>1. Running(p) /\ release[p] \in Release
    BY <1>1, SynchroniserRuns
  <2>2. TypeOK'
    BY <1>1, <1>2 DEF TypeOK
  <2>3. DownIsIdle'
    BY <1>1, <1>2, <2>1 DEF DownIsIdle, Running
  <2>4. UpsertsOwn'
    BY <1>1, <1>2 DEF UpsertsOwn
  <2>5. SchedulerIsOfRelease'
    BY <1>1 DEF SchedulerIsOfRelease
  <2> QED BY <2>2, <2>3, <2>4, <2>5
<1>5. MovedIsRemoved'
  BY <1>1, <1>2, <1>3 DEF MovedIsRemoved, Fresh, Running
<1>6. UpsertedIsThere'
  BY <1>1, <1>2 DEF UpsertedIsThere, Fresh, Running, Upserted, Pending
<1>7. JobIsRouted' /\ JobsRunApart'
  BY <1>1, JobFrame DEF TypeOK
<1> QED BY <1>4, <1>5, <1>6, <1>7

\* A stale scheduler is removed, which its process will make good, or is not.
LEMMA RemovesKeeps ==
  ASSUME IInv, NEW p \in Process, NEW q \in QueueName, NEW n \in JobName, Removes(p, q, n)
  PROVE  IInv'
<1> USE DEF IInv
<1>1. /\ sync[p][q].pc = "remove" /\ n \in sync[p][q].names
      /\ Enters(p, q, "remove", sync[p][q].names \ {n}) /\ sync[p][q].names \ {n} \in SUBSET JobName
      /\ UNCHANGED <<release, jobs, run>>
  BY DEF Removes, TypeOK, SyncState
<1>2. /\ sync' \in [Process -> [QueueName -> SyncState]]
      /\ sync'[p][q].pc = "remove" /\ sync'[p][q].names = sync[p][q].names \ {n}
      /\ \A o \in Process, k \in QueueName : o # p \/ k # q => sync'[o][k] = sync[o][k]
  BY <1>1, EntersFrame, Zenon
<1>3. Running(p) /\ release[p] \in Release
  BY <1>1, SynchroniserRuns
<1>4. /\ schedulers' \in [QueueName -> [JobName -> Scheduler \cup {Nothing}]]
      /\ disturbed \subseteq disturbed' /\ disturbed' \subseteq Process
      /\ events' \in 0..MaxEvents
      /\ \A k \in QueueName, m \in JobName :
           schedulers'[k][m] # schedulers[k][m] => k = q /\ m = n /\ schedulers'[k][m] = Nothing
      /\ \/ disturbed' = Process
         \/ /\ schedulers'[q][n] = Nothing
            /\ \A o \in Process \ disturbed' : release[o] = release[p]
  <2>1. CASE schedulers' = [schedulers EXCEPT ![q][n] = Nothing] /\ Disturbs(p) /\ UNCHANGED events
    BY <2>1 DEF Disturbs, TypeOK
  <2>2. CASE Counted /\ disturbed' = Process /\ UNCHANGED schedulers
    BY <2>2, QueueBounds DEF Counted, TypeOK
  <2> QED BY <2>1, <2>2 DEF Removes
<1>5. TypeOK' /\ DownIsIdle' /\ UpsertsOwn'
  <2>1. Running(p) /\ release[p] \in Release
    BY <1>1, SynchroniserRuns
  <2>2. TypeOK'
    BY <1>1, <1>2, <1>3, <1>4 DEF TypeOK
  <2>3. DownIsIdle'
    BY <1>1, <1>2, <2>1 DEF DownIsIdle, Running
  <2>4. UpsertsOwn'
    BY <1>1, <1>2, <1>3, <1>4 DEF UpsertsOwn
  <2> QED BY <2>2, <2>3, <2>4
<1>6. SchedulerIsOfRelease'
  BY <1>1, <1>4 DEF SchedulerIsOfRelease
<1>7. MovedIsRemoved'
  <2> SUFFICES ASSUME NEW o \in Process, NEW k \in QueueName, NEW m \in JobName,
                      Fresh(o)', m \in Registered(release'[o]), Job(release'[o], m).queue # k,
                      schedulers'[k][m] # Nothing
               PROVE  (\/ sync[o][k].pc \in {"off", "list"}
                       \/ sync[o][k].pc = "remove" /\ m \in sync[o][k].names)'
    BY DEF MovedIsRemoved
  <2>1. Fresh(o) /\ schedulers[k][m] # Nothing /\ release'[o] = release[o]
    BY <1>1, <1>4 DEF Fresh, Running
  <2>2. \/ sync[o][k].pc \in {"off", "list"}
        \/ sync[o][k].pc = "remove" /\ m \in sync[o][k].names
    BY <2>1 DEF MovedIsRemoved
  <2>3. disturbed' # Process
    BY DEF Fresh
  <2>4. k # q \/ m # n
    BY <1>4, <2>3
  <2> QED BY <1>1, <1>2, <2>2, <2>4
<1>8. UpsertedIsThere'
  <2> SUFFICES ASSUME NEW o \in Process, NEW k \in QueueName, Fresh(o)',
                      NEW m \in CronJobs(release[o], k)', Upserted(o, k, m)'
               PROVE  (\/ schedulers[k][m] # Nothing /\ schedulers[k][m].cron = Job(release[o], m).cron
                       \/ Pending(release[o], k, m))'
    BY DEF UpsertedIsThere
  <2>1. /\ Fresh(o) /\ release[o] = release[p] /\ Upserted(o, k, m) /\ m \in CronJobs(release[o], k)
        /\ release[o] \in Release /\ m \in JobName
    <3>1. Fresh(o) /\ release[o] = release[p] /\ m \in CronJobs(release[o], k)
      BY <1>1, <1>4 DEF Fresh, Running
    <3>2. m \in JobName
      BY <1>3, <3>1, CronTyped
    <3>3. Upserted(o, k, m)
      BY <1>1, <1>2, <3>2 DEF Upserted
    <3> QED BY <1>3, <3>1, <3>2, <3>3
  <2>2. CASE k = q
    BY <1>1, <1>2, <2>1, <2>2 DEF Pending
  <2>3. CASE k # q
    BY <1>1, <1>2, <1>4, <2>1, <2>3 DEF UpsertedIsThere, Pending
  <2> QED BY <2>2, <2>3
<1>9. JobIsRouted' /\ JobsRunApart'
  BY <1>1, JobFrame DEF TypeOK
<1> QED BY <1>5, <1>6, <1>7, <1>8, <1>9

\* All removals are settled, and the cron jobs of the queue are next.
LEMMA RemovesSettleKeeps ==
  ASSUME IInv, NEW p \in Process, NEW q \in QueueName, RemovesSettle(p, q)
  PROVE  IInv'
<1> USE DEF IInv
<1>1. /\ sync[p][q].pc = "remove" /\ sync[p][q].names = {} /\ Enters(p, q, "upsert", CronJobs(release[p], q))
      /\ UNCHANGED <<release, schedulers, jobs, run, disturbed, events>>
  BY DEF RemovesSettle
<1>2. Running(p) /\ release[p] \in Release
  BY <1>1, SynchroniserRuns
<1>3. CronJobs(release[p], q) \in SUBSET JobName
  BY <1>2, CronTyped
<1>4. /\ sync' \in [Process -> [QueueName -> SyncState]]
      /\ sync'[p][q].pc = "upsert" /\ sync'[p][q].names = CronJobs(release[p], q)
      /\ \A o \in Process, k \in QueueName : o # p \/ k # q => sync'[o][k] = sync[o][k]
  BY <1>1, <1>3, EntersFrame, Zenon
<1>5. TypeOK' /\ DownIsIdle' /\ UpsertsOwn' /\ SchedulerIsOfRelease'
  <2>1. Running(p) /\ release[p] \in Release
    BY <1>1, SynchroniserRuns
  <2>2. TypeOK'
    BY <1>1, <1>2, <1>4 DEF TypeOK
  <2>3. DownIsIdle'
    BY <1>1, <1>2, <1>4, <2>1 DEF DownIsIdle, Running
  <2>4. UpsertsOwn'
    BY <1>1, <1>2, <1>4 DEF UpsertsOwn
  <2>5. SchedulerIsOfRelease'
    BY <1>1 DEF SchedulerIsOfRelease
  <2> QED BY <2>2, <2>3, <2>4, <2>5
<1>6. MovedIsRemoved'
  BY <1>1, <1>4 DEF MovedIsRemoved, Fresh, Running
<1>7. UpsertedIsThere'
  <2> SUFFICES ASSUME NEW o \in Process, NEW k \in QueueName, Fresh(o)',
                      NEW m \in CronJobs(release[o], k)', Upserted(o, k, m)'
               PROVE  (\/ schedulers[k][m] # Nothing /\ schedulers[k][m].cron = Job(release[o], m).cron
                       \/ Pending(release[o], k, m))'
    BY DEF UpsertedIsThere
  <2>1. Fresh(o) /\ m \in CronJobs(release[o], k)
    BY <1>1 DEF Fresh, Running
  <2>2. Upserted(o, k, m)
    BY <1>1, <1>4, <2>1 DEF Upserted
  <2>3. CASE Pending(release[o], k, m)
    BY <1>1, <1>4, <2>1, <2>3 DEF Pending
  <2> QED BY <1>1, <2>1, <2>2, <2>3 DEF UpsertedIsThere
<1>8. JobIsRouted' /\ JobsRunApart'
  BY <1>1, JobFrame DEF TypeOK
<1> QED BY <1>5, <1>6, <1>7, <1>8

\* A cron job is upserted: the processes of the release that are fresh expect just that.
LEMMA UpsertsKeeps ==
  ASSUME IInv, NEW p \in Process, NEW q \in QueueName, NEW n \in JobName, Upserts(p, q, n)
  PROVE  IInv'
<1> USE DEF IInv
<1> DEFINE scheduler == [cron |-> Job(release[p], n).cron, by |-> release[p]]
<1>1. /\ sync[p][q].pc = "upsert" /\ n \in sync[p][q].names
      /\ Enters(p, q, "upsert", sync[p][q].names \ {n}) /\ sync[p][q].names \ {n} \in SUBSET JobName
      /\ schedulers' = [schedulers EXCEPT ![q][n] = scheduler]
      /\ disturbed' = disturbed \cup {o \in Process : release[o] # release[p]}
      /\ UNCHANGED <<release, jobs, run, events>>
  BY DEF Upserts, TypeOK, SyncState, Disturbs
<1>2. /\ sync' \in [Process -> [QueueName -> SyncState]]
      /\ sync'[p][q].pc = "upsert" /\ sync'[p][q].names = sync[p][q].names \ {n}
      /\ \A o \in Process, k \in QueueName : o # p \/ k # q => sync'[o][k] = sync[o][k]
  BY <1>1, EntersFrame, Zenon
<1>3. Running(p) /\ release[p] \in Release
  BY <1>1, SynchroniserRuns
<1>4. n \in CronJobs(release[p], q) /\ Job(release[p], n).queue = q /\ scheduler \in Scheduler
  <2>1. n \in CronJobs(release[p], q)
    BY <1>1 DEF UpsertsOwn
  <2> QED BY <1>3, <2>1, CronTyped DEF Scheduler
<1>5. /\ schedulers' \in [QueueName -> [JobName -> Scheduler \cup {Nothing}]]
      /\ schedulers'[q][n] = scheduler
      /\ \A k \in QueueName, m \in JobName : k # q \/ m # n => schedulers'[k][m] = schedulers[k][m]
  BY <1>1, <1>4 DEF TypeOK
<1>6. scheduler.cron = Job(release[p], n).cron /\ scheduler.by = release[p] /\ scheduler # Nothing
  BY <1>4, NoneAssumption
<1> HIDE DEF scheduler
<1>7. TypeOK' /\ DownIsIdle' /\ UpsertsOwn'
  <2>1. Running(p) /\ release[p] \in Release
    BY <1>1, SynchroniserRuns
  <2>2. TypeOK'
    BY <1>1, <1>2, <1>3, <1>5 DEF TypeOK
  <2>3. DownIsIdle'
    BY <1>1, <1>2, <1>3, <1>5, <2>1 DEF DownIsIdle, Running
  <2>4. UpsertsOwn'
    BY <1>1, <1>2, <1>3, <1>5 DEF UpsertsOwn
  <2> QED BY <2>2, <2>3, <2>4
<1>8. SchedulerIsOfRelease'
  BY <1>4, <1>5, <1>6 DEF SchedulerIsOfRelease
<1>9. MovedIsRemoved'
  <2> SUFFICES ASSUME NEW o \in Process, NEW k \in QueueName, NEW m \in JobName,
                      Fresh(o)', m \in Registered(release'[o]), Job(release'[o], m).queue # k,
                      schedulers'[k][m] # Nothing
               PROVE  (\/ sync[o][k].pc \in {"off", "list"}
                       \/ sync[o][k].pc = "remove" /\ m \in sync[o][k].names)'
    BY DEF MovedIsRemoved
  <2>1. Fresh(o) /\ release[o] = release[p]
    BY <1>1 DEF Fresh, Running
  <2>2. k # q \/ m # n
    BY <1>1, <1>4, <2>1
  <2> QED BY <1>1, <1>2, <1>5, <2>1, <2>2 DEF MovedIsRemoved
<1>10. UpsertedIsThere'
  <2> SUFFICES ASSUME NEW o \in Process, NEW k \in QueueName, Fresh(o)',
                      NEW m \in CronJobs(release[o], k)', Upserted(o, k, m)'
               PROVE  (\/ schedulers[k][m] # Nothing /\ schedulers[k][m].cron = Job(release[o], m).cron
                       \/ Pending(release[o], k, m))'
    BY DEF UpsertedIsThere
  <2>1. Fresh(o) /\ release[o] = release[p] /\ m \in CronJobs(release[o], k)
    BY <1>1 DEF Fresh, Running
  <2>2. m \in JobName
    BY <1>3, <2>1, CronTyped
  <2>3. CASE k = q /\ m = n
    BY <1>1, <1>5, <1>6, <2>1, <2>3
  <2>4. CASE k # q \/ m # n
    <3>1. Upserted(o, k, m)
      BY <1>1, <1>2, <2>4 DEF Upserted
    <3>2. CASE Pending(release[o], k, m)
      BY <1>1, <1>2, <2>4, <3>2 DEF Pending
    <3>3. CASE schedulers[k][m] # Nothing /\ schedulers[k][m].cron = Job(release[o], m).cron
      BY <1>1, <1>5, <2>2, <2>4, <3>3
    <3> QED BY <2>1, <3>1, <3>2, <3>3 DEF UpsertedIsThere
  <2> QED BY <2>3, <2>4
<1>11. JobIsRouted' /\ JobsRunApart'
  BY <1>1, JobFrame DEF TypeOK
<1> QED BY <1>7, <1>8, <1>9, <1>10, <1>11

\* The last one was upserted, and the queue is ready.
LEMMA SyncedKeeps ==
  ASSUME IInv, NEW p \in Process, NEW q \in QueueName, Synced(p, q)
  PROVE  IInv'
<1> USE DEF IInv
<1>1. /\ sync[p][q].pc = "upsert" /\ sync[p][q].names = {} /\ Enters(p, q, "ready", {})
      /\ UNCHANGED <<release, schedulers, jobs, run, disturbed, events>>
  BY DEF Synced
<1>2. /\ sync' \in [Process -> [QueueName -> SyncState]]
      /\ sync'[p][q].pc = "ready" /\ sync'[p][q].names = {}
      /\ \A o \in Process, k \in QueueName : o # p \/ k # q => sync'[o][k] = sync[o][k]
  BY <1>1, EntersFrame
<1>3. TypeOK' /\ DownIsIdle' /\ UpsertsOwn' /\ SchedulerIsOfRelease'
  <2>1. Running(p) /\ release[p] \in Release
    BY <1>1, SynchroniserRuns
  <2>2. TypeOK'
    BY <1>1, <1>2 DEF TypeOK
  <2>3. DownIsIdle'
    BY <1>1, <1>2, <2>1 DEF DownIsIdle, Running
  <2>4. UpsertsOwn'
    BY <1>1, <1>2 DEF UpsertsOwn
  <2>5. SchedulerIsOfRelease'
    BY <1>1 DEF SchedulerIsOfRelease
  <2> QED BY <2>2, <2>3, <2>4, <2>5
<1>4. MovedIsRemoved'
  BY <1>1, <1>2 DEF MovedIsRemoved, Fresh, Running
<1>5. UpsertedIsThere'
  BY <1>1, <1>2 DEF UpsertedIsThere, Fresh, Running, Upserted, Pending
<1>6. JobIsRouted' /\ JobsRunApart'
  BY <1>1, JobFrame DEF TypeOK
<1> QED BY <1>3, <1>4, <1>5, <1>6

-----------------------------------------------------------------------------
(* Jobs *)

\* A job is put on the queue that the release of whoever puts it there registers its name for.
LEMMA PutsKeeps ==
  ASSUME IInv, NEW i \in JobId, NEW name \in JobName, NEW q \in QueueName, NEW repeat \in BOOLEAN,
         NEW r \in Release, Puts(i, name, q, repeat, r),
         name \in Registered(r) => Job(r, name).queue = q,
         UNCHANGED <<release, sync, schedulers, run, disturbed>>
  PROVE  IInv'
<1> USE DEF IInv
<1> DEFINE job == [state |-> "waiting", name |-> name, queue |-> q, repeat |-> repeat,
                   by |-> r, lock |-> Nothing, at |-> Nothing]
<1>1. jobs' = [jobs EXCEPT ![i] = job] /\ events' \in 0..MaxEvents
  BY QueueBounds DEF Puts, Counted, TypeOK
<1>2. job \in JobState
  BY DEF JobState
<1>3. jobs'[i] = job /\ \A k \in JobId \ {i} : jobs'[k] = jobs[k]
  BY <1>1 DEF TypeOK
<1>4. job.state = "waiting" /\ job.name = name /\ job.queue = q /\ job.by = r /\ job.lock = Nothing
  OBVIOUS
<1> HIDE DEF job
<1>5. TypeOK'
  BY <1>1, <1>2, <1>3, <1>4, NoneAssumption DEF TypeOK
<1>6. DownIsIdle'
  BY DEF DownIsIdle, Running
<1>7. JobIsRouted'
  BY <1>3, <1>4 DEF JobIsRouted
<1>8. JobsRunApart'
  BY <1>3, <1>4 DEF JobsRunApart
<1> QED BY <1>5, <1>6, <1>7, <1>8, SyncFrame

\* add keeps the invariant.
LEMMA AddKeeps ==
  ASSUME IInv, NEW p \in Process, NEW i \in JobId, NEW n \in JobName, Add(p, i, n)
  PROVE  IInv'
<1>1. release[p] \in Release
  BY DEF IInv, TypeOK, Add, Running
<1>2. ResolveQueueName(release[p], n) \in QueueName
  BY <1>1, ResolveTyped
<1>3. n \in Registered(release[p]) => Job(release[p], n).queue = ResolveQueueName(release[p], n)
  BY DEF ResolveQueueName
<1> QED BY <1>1, <1>2, <1>3, PutsKeeps DEF Add

\* So does a scheduler that fires: it is on the queue of its job.
LEMMA FiresKeeps ==
  ASSUME IInv, NEW i \in JobId, NEW q \in QueueName, NEW n \in JobName, Fires(i, q, n)
  PROVE  IInv'
<1> DEFINE r == schedulers[q][n].by
<1>1. r \in Release
  BY DEF IInv, TypeOK, Fires, Scheduler
<1>2. n \in CronJobs(r, q)
  BY DEF IInv, SchedulerIsOfRelease, Fires
<1>3. Job(r, n).queue = q
  BY <1>1, <1>2, CronTyped
<1>4. Puts(i, n, q, TRUE, r) /\ UNCHANGED <<release, sync, schedulers, run, disturbed>>
  BY DEF Fires
<1> HIDE DEF r
<1> QED BY <1>1, <1>3, <1>4, PutsKeeps

\* What becomes of a job: one job changes its state, its lock and the release that dropped it, one
\* worker what it does; nothing is processed that was not, and a job is dropped with good reason.
LEMMA JobMoves ==
  ASSUME IInv, NEW i \in JobId, NEW p \in Process, UNCHANGED <<release, sync, schedulers, disturbed>>,
         NEW job \in JobState, NEW does \in {"none", "check", "process"},
         jobs' = [jobs EXCEPT ![i] = job], run' = [run EXCEPT ![p][i] = does],
         events' \in 0..MaxEvents,
         job.name = jobs[i].name, job.queue = jobs[i].queue, job.repeat = jobs[i].repeat, job.by = jobs[i].by,
         job.state # "none" => jobs[i].state # "none", (job.state = "active") <=> job.lock \in Process,
         does # "none" => Running(p),
         job.state = "dropped" /\ jobs[i].state # "dropped"
           => job.at # job.by \/ job.name \notin Registered(job.by),
         job.state = "dropped" /\ jobs[i].state = "dropped" => job.at = jobs[i].at,
         job.state = "active" /\ job.repeat /\ run'[job.lock][i] = "process"
           => \/ jobs[i].state = "active" /\ run[jobs[i].lock][i] = "process"
              \/ ShouldProcess(i)
  PROVE  IInv'
<1> USE DEF IInv
<1>1. jobs'[i] = job /\ \A k \in JobId \ {i} : jobs'[k] = jobs[k]
  BY DEF TypeOK
<1>2. /\ run'[p][i] = does
      /\ \A o \in Process, k \in JobId : o # p \/ k # i => run'[o][k] = run[o][k]
  BY DEF TypeOK
<1>3. TypeOK'
  BY <1>1 DEF TypeOK
<1>4. DownIsIdle'
  BY <1>2 DEF DownIsIdle, Running
<1>5. JobIsRouted'
  BY <1>1 DEF JobIsRouted
<1>6. JobsRunApart'
  <2> DEFINE processed(x) == jobs[x].state = "active" /\ jobs[x].repeat /\ run[jobs[x].lock][x] = "process"
             processedNow(x) == jobs'[x].state = "active" /\ jobs'[x].repeat /\ run'[jobs'[x].lock][x] = "process"
  <2>1. ASSUME NEW x \in JobId \ {i}
        PROVE  processedNow(x) => processed(x)
    BY <1>1, <1>2 DEF TypeOK
  <2>2. processedNow(i) => processed(i) \/ ShouldProcess(i)
    BY <1>1
  <2>3. ASSUME NEW x \in JobId \ {i}, ShouldProcess(i), processed(x)
        PROVE  jobs[i].name # jobs[x].name \/ jobs[i].queue # jobs[x].queue
    BY <2>3 DEF ShouldProcess, OtherActive
  <2>4. \A x \in JobId : jobs'[x].name = jobs[x].name /\ jobs'[x].queue = jobs[x].queue
    BY <1>1
  <2>5. ASSUME NEW x \in JobId, NEW y \in JobId, x # y, processedNow(x), processedNow(y)
        PROVE  jobs'[x].name # jobs'[y].name \/ jobs'[x].queue # jobs'[y].queue
    <3>1. \A a, b \in JobId : a # b /\ processed(a) /\ processed(b) =>
            jobs[a].name # jobs[b].name \/ jobs[a].queue # jobs[b].queue
      BY DEF JobsRunApart
    <3> HIDE DEF processed, processedNow
    <3> QED BY <2>1, <2>2, <2>3, <2>4, <2>5, <3>1
  <2>6. \A x \in JobId : jobs'[x].state = "dropped" =>
          jobs'[x].at # jobs'[x].by \/ jobs'[x].name \notin Registered(jobs'[x].by)
    BY <1>1 DEF JobsRunApart
  <2> QED BY <2>5, <2>6 DEF JobsRunApart
<1> QED BY <1>3, <1>4, <1>5, <1>6, SyncFrame

\* A worker takes a job: a scheduled one it checks first, and it drops only what its release does
\* not know at this queue, which the release that put it there does not either.
LEMMA TakesKeeps ==
  ASSUME IInv, NEW p \in Process, NEW i \in JobId, Takes(p, i)
  PROVE  IInv'
<1> DEFINE j == jobs[i]
           r == release[p]
<1>1. /\ Running(p) /\ r \in Release /\ j.state = "waiting" /\ run[p][i] = "none" /\ j \in JobState
      /\ UNCHANGED <<release, sync, schedulers, disturbed, events>> /\ events' \in 0..MaxEvents
      /\ j.lock \notin Process
  BY DEF IInv, TypeOK, Takes, Running
<1>2. run = [run EXCEPT ![p][i] = "none"]
  BY <1>1 DEF IInv, TypeOK
<1>3. CASE LoadThrows(r) /\ jobs' = [jobs EXCEPT ![i].state = "failed"] /\ UNCHANGED run
  <2> DEFINE job == [j EXCEPT !.state = "failed"]
  <2>1. job \in JobState /\ jobs' = [jobs EXCEPT ![i] = job] /\ run' = [run EXCEPT ![p][i] = "none"]
    BY <1>1, <1>2, <1>3 DEF JobState, IInv, TypeOK
  <2>2. /\ job.name = j.name /\ job.queue = j.queue /\ job.repeat = j.repeat /\ job.by = j.by
        /\ job.lock = j.lock /\ job.state = "failed"
    BY <1>1 DEF JobState
  <2> HIDE DEF job
  <2> QED BY <1>1, <2>1, <2>2, JobMoves
<1>4. CASE /\ jobs' = [jobs EXCEPT ![i].state = "dropped", ![i].at = r] /\ UNCHANGED run
           /\ ~(j.name \in Registered(r) /\ Job(r, j.name).queue = j.queue)
  <2> DEFINE job == [j EXCEPT !.state = "dropped", !.at = r]
  <2>1. job \in JobState /\ jobs' = [jobs EXCEPT ![i] = job] /\ run' = [run EXCEPT ![p][i] = "none"]
    <3>1. job \in JobState
      BY <1>1 DEF JobState
    <3>2. jobs' = [jobs EXCEPT ![i] = job]
      BY <1>4
    <3> QED BY <1>2, <1>4, <3>1, <3>2
  <2>2. /\ job.name = j.name /\ job.queue = j.queue /\ job.repeat = j.repeat /\ job.by = j.by
        /\ job.lock = j.lock /\ job.state = "dropped" /\ job.at = r
    BY <1>1 DEF JobState
  <2>3. j.by = r => j.name \notin Registered(r)
    BY <1>1, <1>4 DEF IInv, JobIsRouted
  <2> HIDE DEF job
  <2> QED BY <1>1, <2>1, <2>2, <2>3, JobMoves
<1>5. CASE /\ jobs' = [jobs EXCEPT ![i].state = "active", ![i].lock = p]
           /\ run' = [run EXCEPT ![p][i] = IF j.repeat THEN "check" ELSE "process"]
  <2> DEFINE job == [j EXCEPT !.state = "active", !.lock = p]
             does == IF j.repeat THEN "check" ELSE "process"
  <2>1. job \in JobState /\ jobs' = [jobs EXCEPT ![i] = job] /\ run' = [run EXCEPT ![p][i] = does]
    BY <1>1, <1>5 DEF JobState, IInv, TypeOK
  <2>2. /\ job.name = j.name /\ job.queue = j.queue /\ job.repeat = j.repeat /\ job.by = j.by
        /\ job.lock = p /\ job.state = "active" /\ does \in {"none", "check", "process"}
    BY <1>1 DEF JobState
  <2>3. j.repeat => run'[p][i] = "check"
    BY <2>1 DEF IInv, TypeOK
  <2> HIDE DEF job, does
  <2> QED BY <1>1, <2>1, <2>2, <2>3, JobMoves
<1> QED BY <1>3, <1>4, <1>5 DEF Takes

\* A worker is done with a job, which ends so only if the lock is still its own.
LEMMA EndsKeeps ==
  ASSUME IInv, NEW p \in Process, NEW i \in JobId, NEW state \in {"waiting", "done", "skipped", "failed"},
         Ends(p, i, state), UNCHANGED <<release, sync, schedulers, disturbed>>, events' \in 0..MaxEvents
  PROVE  IInv'
<1>1. jobs[i] \in JobState /\ run' = [run EXCEPT ![p][i] = "none"]
  BY DEF IInv, TypeOK, Ends
<1>2. CASE jobs[i].lock = p
  <2> DEFINE job == [jobs[i] EXCEPT !.state = state, !.lock = Nothing]
  <2>1. job \in JobState /\ jobs' = [jobs EXCEPT ![i] = job]
    BY <1>1, <1>2 DEF JobState, IInv, TypeOK, Ends
  <2>2. /\ job.name = jobs[i].name /\ job.queue = jobs[i].queue /\ job.repeat = jobs[i].repeat
        /\ job.by = jobs[i].by /\ job.lock = Nothing /\ job.state = state
    BY <1>1 DEF JobState
  <2>3. jobs[i].state = "active"
    BY <1>2 DEF IInv, TypeOK
  <2> HIDE DEF job
  <2> QED BY <1>1, <2>1, <2>2, <2>3, NoneAssumption, JobMoves
<1>3. CASE jobs[i].lock # p
  <2>1. jobs' = [jobs EXCEPT ![i] = jobs[i]]
    BY <1>3 DEF IInv, TypeOK, Ends
  <2>2. (jobs[i].state = "active") <=> jobs[i].lock \in Process
    BY DEF IInv, TypeOK
  <2>3. jobs[i].lock \in Process => run'[jobs[i].lock][i] = run[jobs[i].lock][i]
    BY <1>1, <1>3 DEF IInv, TypeOK
  <2>4. jobs[i].state = "dropped" => jobs[i].at = jobs[i].at
    OBVIOUS
  <2> QED BY <1>1, <2>1, <2>2, <2>3, JobMoves
<1> QED BY <1>2, <1>3

\* A scheduled job is processed only when no other one of its name is active in its queue.
LEMMA ChecksKeeps ==
  ASSUME IInv, NEW p \in Process, NEW i \in JobId, Checks(p, i)
  PROVE  IInv'
<1>1. /\ run[p][i] = "check" /\ UNCHANGED <<release, sync, schedulers, disturbed, events>>
      /\ events' \in 0..MaxEvents /\ Running(p) /\ jobs[i] \in JobState
  BY DEF IInv, TypeOK, DownIsIdle, Checks
<1>2. CASE ShouldProcess(i) /\ run' = [run EXCEPT ![p][i] = "process"] /\ UNCHANGED jobs
  <2>1. jobs' = [jobs EXCEPT ![i] = jobs[i]]
    BY <1>2 DEF IInv, TypeOK
  <2>2. (jobs[i].state = "active") <=> jobs[i].lock \in Process
    BY DEF IInv, TypeOK
  <2> QED BY <1>1, <1>2, <2>1, <2>2, JobMoves
<1>3. CASE Ends(p, i, "skipped")
  BY <1>1, <1>3, EndsKeeps
<1> QED BY <1>2, <1>3 DEF Checks

\* The processor returns or throws.
LEMMA FinishesKeeps ==
  ASSUME IInv, NEW p \in Process, NEW i \in JobId, Finishes(p, i)
  PROVE  IInv'
<1>1. UNCHANGED <<release, sync, schedulers, disturbed>>
  BY DEF Finishes
<1>2. CASE Ends(p, i, "done") /\ UNCHANGED events
  BY <1>1, <1>2, EndsKeeps DEF IInv, TypeOK
<1>3. ASSUME NEW state \in {"waiting", "failed"}, Ends(p, i, state), Counted
      PROVE  IInv'
  <2>1. events' \in 0..MaxEvents
    BY <1>3, QueueBounds DEF Counted, IInv, TypeOK
  <2> QED BY <1>1, <1>3, <2>1, EndsKeeps
<1> QED BY <1>2, <1>3 DEF Finishes

\* A lock is lost.
LEMMA StallsKeeps ==
  ASSUME IInv, NEW i \in JobId, Stalls(i)
  PROVE  IInv'
<1> DEFINE p == jobs[i].lock
           job == [jobs[i] EXCEPT !.state = "waiting", !.lock = Nothing]
<1>1. /\ p \in Process /\ jobs[i] \in JobState /\ jobs[i].state = "active"
      /\ UNCHANGED <<release, sync, schedulers, run, disturbed>>
  BY DEF IInv, TypeOK, Stalls
<1>2. events' \in 0..MaxEvents
  BY QueueBounds DEF Stalls, Counted, IInv, TypeOK
<1>3. job \in JobState /\ jobs' = [jobs EXCEPT ![i] = job]
  BY <1>1 DEF JobState, IInv, TypeOK, Stalls
<1>4. /\ job.name = jobs[i].name /\ job.queue = jobs[i].queue /\ job.repeat = jobs[i].repeat
      /\ job.by = jobs[i].by /\ job.lock = Nothing /\ job.state = "waiting"
  BY <1>1 DEF JobState
<1>5. /\ run' = [run EXCEPT ![p][i] = run[p][i]] /\ run[p][i] \in {"none", "check", "process"}
      /\ run[p][i] # "none" => Running(p)
  <2>1. run \in [Process -> [JobId -> {"none", "check", "process"}]] /\ run' = run
    BY <1>1 DEF IInv, TypeOK
  <2>2. run[p] = [run[p] EXCEPT ![i] = run[p][i]]
    BY <1>1, <2>1
  <2>3. run = [run EXCEPT ![p] = [run[p] EXCEPT ![i] = run[p][i]]]
    BY <1>1, <2>1, <2>2
  <2> QED BY <1>1, <2>1, <2>3 DEF IInv, DownIsIdle
<1> HIDE DEF p, job
<1> QED BY <1>1, <1>2, <1>3, <1>4, <1>5, NoneAssumption, JobMoves

-----------------------------------------------------------------------------
(* Theorems *)

\* Every step keeps the invariant.
LEMMA InvariantNext == IInv /\ [Next]_vars => IInv'
<1> SUFFICES ASSUME IInv, [Next]_vars PROVE IInv'
  OBVIOUS
<1>1. ASSUME NEW p \in Process, NEW r \in Release, Boot(p, r) PROVE IInv'
  BY <1>1, BootKeeps
<1>2. ASSUME NEW p \in Process,
             \/ Exits(p)
             \/ \E q \in QueueName : LoadFails(p, q) \/ UpsertFails(p, q)
      PROVE  IInv'
  <2>1. Stop(p) /\ events' \in 0..MaxEvents
    BY <1>2, QueueBounds DEF Exits, LoadFails, UpsertFails, Counted, IInv, TypeOK
  <2> QED BY <2>1, StopKeeps
<1>3. ASSUME NEW p \in Process, NEW q \in QueueName, Lists(p, q) \/ RemovesSettle(p, q) \/ Synced(p, q)
      PROVE  IInv'
  BY <1>3, ListsKeeps, RemovesSettleKeeps, SyncedKeeps
<1>4. ASSUME NEW p \in Process, NEW q \in QueueName, NEW n \in JobName, Removes(p, q, n) \/ Upserts(p, q, n)
      PROVE  IInv'
  BY <1>4, RemovesKeeps, UpsertsKeeps
<1>5. ASSUME NEW p \in Process, NEW i \in JobId, Takes(p, i) \/ Checks(p, i) \/ Finishes(p, i)
      PROVE  IInv'
  BY <1>5, TakesKeeps, ChecksKeeps, FinishesKeeps
<1>6. ASSUME NEW p \in Process, NEW i \in JobId, NEW n \in JobName, Add(p, i, n) PROVE IInv'
  BY <1>6, AddKeeps
<1>7. ASSUME NEW i \in JobId, Stalls(i) PROVE IInv'
  BY <1>7, StallsKeeps
<1>8. ASSUME NEW i \in JobId, NEW q \in QueueName, NEW n \in JobName, Fires(i, q, n) PROVE IInv'
  BY <1>8, FiresKeeps
<1>9. CASE UNCHANGED vars
  <2>1. TypeOK' /\ DownIsIdle'
    BY <1>9 DEF vars, IInv, TypeOK, DownIsIdle, Running
  <2>2. \A p \in Process, i \in JobId : run'[p][i] \in {run[p][i], "none"}
    BY <1>9 DEF vars
  <2> QED BY <1>9, <2>1, <2>2, SyncFrame, JobFrame DEF vars, IInv
<1> QED BY <1>1, <1>2, <1>3, <1>4, <1>5, <1>6, <1>7, <1>8, <1>9 DEF Next

\* The invariant holds in every reachable state, for any releases, processes, queues and jobs.
THEOREM Invariance == Spec => []IInv
BY InvariantInit, InvariantNext, PTL DEF Spec

\* The fields of the model have their types.
THEOREM TypeCorrect == Spec => []TypeOK
<1>1. IInv => TypeOK
  BY DEF IInv
<1> QED BY <1>1, Invariance, PTL

\* Scheduled jobs of a name do not overlap on a queue while their locks hold, and a job is dropped in
\* silence only across releases, however many workers take, check, retry and lose jobs.
THEOREM JobsStayApart == Spec => []JobsRunApart
<1>1. IInv => JobsRunApart
  BY DEF IInv
<1> QED BY <1>1, Invariance, PTL

\* Once the processes of a release are up, and not all of them were disturbed, the schedulers are the
\* ones of the release, however the synchronisations overlapped: an undisturbed process has removed
\* what moved away, and what it upserted is there, for nobody is left who would still upsert it.
THEOREM SchedulersAreRight == Spec => []SchedulersSettle
<1>1. ASSUME IInv PROVE SchedulersSettle
  <2> USE <1>1 DEF IInv
  <2> SUFFICES ASSUME NEW r \in Release, NEW p \in Process, Fresh(p),
                      \A o \in Process : Running(o) =>
                        release[o] = r /\ \A k \in Queues(r) : sync[o][k].pc = "ready",
                      NEW n \in Registered(r), NEW q \in Queues(r)
               PROVE  /\ n \in CronJobs(r, q) =>
                           schedulers[q][n] # Nothing /\ schedulers[q][n].cron = Job(r, n).cron
                      /\ Job(r, n).queue # q => schedulers[q][n] = Nothing
    BY DEF SchedulersSettle, Fresh
  <2>1. release[p] = r /\ sync[p][q].pc = "ready" /\ r # Down
    BY DEF Fresh, Running
  <2>2. q \in QueueName /\ n \in JobName
    BY JobTyped, ReleaseAssumption, QueueAssumption DEF Queues, Range
  <2>3. ~Pending(r, q, n)
    BY <2>1 DEF Pending, Running
  <2>4. n \in CronJobs(r, q) => schedulers[q][n] # Nothing /\ schedulers[q][n].cron = Job(r, n).cron
    BY <2>1, <2>2, <2>3 DEF UpsertedIsThere, Upserted
  <2>5. Job(r, n).queue # q => schedulers[q][n] = Nothing
    BY <2>1, <2>2 DEF MovedIsRemoved
  <2> QED BY <2>4, <2>5
<1> QED BY <1>1, Invariance, PTL
=============================================================================
