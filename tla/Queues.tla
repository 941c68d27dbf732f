------------------------------- MODULE Queues -------------------------------
(***************************************************************************)
(* SharedQueueModule (src/queue) in several processes of one or more        *)
(* releases over one Redis: the job registry, the synchronisation of the    *)
(* job schedulers at start-up, the routing of new jobs and the processing   *)
(* of a job by the worker of its queue, with crashes, lost locks, failed    *)
(* commands and retries.                                                    *)
(***************************************************************************)
EXTENDS Integers, SequencesExt

CONSTANTS
  Process, QueueName, DefaultQueue, JobName, JobId,
  Release,      \* options.queues, and the providers with @JobProcessor in their order
  Down,         \* a process that is not running
  NoCron, Nothing,
  MaxEvents     \* bound on the starts of a process, the new jobs and the faults together

ProviderOf == [name : JobName, cron : STRING \cup {NoCron}, queue : QueueName]
Scheduler == [cron : STRING, by : Release]
ASSUME ReleaseAssumption == Release \subseteq [queues : Seq(QueueName), providers : Seq(ProviderOf)]
ASSUME QueueAssumption == DefaultQueue \in QueueName
ASSUME NoneAssumption == Down \notin Release /\ Nothing \notin Scheduler \cup Process \cup Release
ASSUME QueueBounds == MaxEvents \in Nat

VARIABLES
  release,      \* of each process
  sync,         \* where each of its queue processors is, and the names it has still to deal with
  schedulers,   \* of each queue, by key, which is the job name
  jobs,         \* by: the release that put it there; at (history): the one that dropped it
  run,          \* what a worker does with a job
  disturbed,    \* history: processes whose synchronisation may have been undone
  events

vars == <<release, sync, schedulers, jobs, run, disturbed, events>>

-----------------------------------------------------------------------------
(* A release: module and registry *)

\* validateQueueDefinitions
Builds(r) == DefaultQueue \notin Range(r.queues) /\ IsInjective(r.queues)
Queues(r) == Range(r.queues) \cup {DefaultQueue}

\* load of JobRegistryService: an undeclared queue, or a name on two queues, throws; of several
\* providers of a name the first is registered.
LoadThrows(r) ==
  LET ps == Range(r.providers) IN
  \/ \E x \in ps : x.queue \notin Queues(r)
  \/ \E x, y \in ps : x.name = y.name /\ x.queue # y.queue
Registered(r) == {x.name : x \in Range(r.providers)}
\* getJob
Job(r, name) == r.providers[CHOOSE k \in DOMAIN r.providers :
                              /\ r.providers[k].name = name
                              /\ \A l \in 1..(k - 1) : r.providers[l].name # name]
ResolveQueueName(r, name) == IF name \in Registered(r) THEN Job(r, name).queue ELSE DefaultQueue
CronJobs(r, q) == {n \in Registered(r) : Job(r, n).queue = q /\ Job(r, n).cron # NoCron}

-----------------------------------------------------------------------------
Running(p) == release[p] # Down
Idle == [pc |-> "off", names |-> {}]
NoJob == [state |-> "none", name |-> Nothing, queue |-> Nothing, repeat |-> FALSE, by |-> Nothing, lock |-> Nothing, at |-> Nothing]

SyncState == [pc : {"off", "list", "remove", "upsert", "ready"}, names : SUBSET JobName]
JobState ==
  [state : {"none", "waiting", "active", "done", "skipped", "dropped", "failed"},
   name : JobName \cup {Nothing}, queue : QueueName \cup {Nothing}, repeat : BOOLEAN,
   by : Release \cup {Nothing}, lock : Process \cup {Nothing}, at : Release \cup {Nothing}]

TypeOK ==
  /\ release \in [Process -> Release \cup {Down}]
  /\ sync \in [Process -> [QueueName -> SyncState]]
  /\ schedulers \in [QueueName -> [JobName -> Scheduler \cup {Nothing}]]
  /\ jobs \in [JobId -> JobState]
  /\ \A i \in JobId :
       /\ jobs[i].state # "none" => jobs[i].name \in JobName /\ jobs[i].queue \in QueueName
       /\ (jobs[i].state = "active") <=> jobs[i].lock \in Process
  /\ run \in [Process -> [JobId -> {"none", "check", "process"}]]
  /\ disturbed \subseteq Process /\ events \in 0..MaxEvents

Init ==
  /\ release = [p \in Process |-> Down]
  /\ sync = [p \in Process |-> [q \in QueueName |-> Idle]]
  /\ schedulers = [q \in QueueName |-> [n \in JobName |-> Nothing]]
  /\ jobs = [i \in JobId |-> NoJob]
  /\ run = [p \in Process |-> [i \in JobId |-> "none"]]
  /\ disturbed = {} /\ events \in 0..MaxEvents

Counted == events < MaxEvents /\ events' = events + 1
Others(p) == Process \ {p}

-----------------------------------------------------------------------------
(* Start-up *)

\* A processor for each queue.
Processors(r) ==
  [q \in QueueName |-> IF q \in Queues(r) THEN [Idle EXCEPT !.pc = "list"] ELSE Idle]

\* forRoot builds the module; each processor synchronises on its own.
Boot(p, r) ==
  /\ ~Running(p) /\ Builds(r) /\ Counted
  /\ release' = [release EXCEPT ![p] = r]
  /\ sync' = [sync EXCEPT ![p] = Processors(r)]
  /\ disturbed' = disturbed \ {p}
  /\ UNCHANGED <<schedulers, jobs, run>>

\* The process ends, wherever it is: its jobs stay active in Redis.
Stop(p) ==
  /\ release' = [release EXCEPT ![p] = Down]
  /\ sync' = [sync EXCEPT ![p] = [q \in QueueName |-> Idle]]
  /\ run' = [run EXCEPT ![p] = [i \in JobId |-> "none"]]
  /\ disturbed' = IF \E q \in QueueName : sync[p][q].pc \in {"remove", "upsert"}
                  THEN disturbed \cup Others(p) ELSE disturbed
  /\ UNCHANGED <<schedulers, jobs>>
Exits(p) == Running(p) /\ Stop(p) /\ UNCHANGED events

\* Whether a scheduler of a queue is stale for this release.
Stale(r, q, name, scheduler) ==
  /\ name \in Registered(r)
  /\ \/ Job(r, name).queue # q
     \/ Job(r, name).cron # NoCron /\ scheduler.cron # Job(r, name).cron

Enters(p, q, pc, names) == sync' = [sync EXCEPT ![p][q] = [pc |-> pc, names |-> names]]

\* getJobSchedulers answers; the registry is loaded here at the latest.
Lists(p, q) ==
  /\ sync[p][q].pc = "list" /\ ~LoadThrows(release[p])
  /\ LET r == release[p] IN
     Enters(p, q, "remove", {n \in JobName : schedulers[q][n] # Nothing /\ Stale(r, q, n, schedulers[q][n])})
  /\ UNCHANGED <<release, schedulers, jobs, run, disturbed, events>>
LoadFails(p, q) ==
  sync[p][q].pc = "list" /\ LoadThrows(release[p]) /\ Stop(p) /\ UNCHANGED events

\* Whoever runs another release has to expect this change of a scheduler.
Disturbs(p) == disturbed' = disturbed \cup {o \in Process : release[o] # release[p]}

\* removeJobScheduler of one of them; a failure is not looked at.
Removes(p, q, n) ==
  /\ sync[p][q].pc = "remove" /\ n \in sync[p][q].names
  /\ Enters(p, q, "remove", sync[p][q].names \ {n})
  /\ \/ schedulers' = [schedulers EXCEPT ![q][n] = Nothing] /\ Disturbs(p) /\ UNCHANGED events
     \/ Counted /\ disturbed' = Process /\ UNCHANGED schedulers
  /\ UNCHANGED <<release, jobs, run>>
\* Promise.allSettled
RemovesSettle(p, q) ==
  /\ sync[p][q].pc = "remove" /\ sync[p][q].names = {}
  /\ Enters(p, q, "upsert", CronJobs(release[p], q))
  /\ UNCHANGED <<release, schedulers, jobs, run, disturbed, events>>

\* Mutant of Upserts: the first answer ends the wait for all of them.
UpsertsMissing(p, q, n) ==
  /\ sync[p][q].pc = "upsert" /\ n \in sync[p][q].names
  /\ Enters(p, q, "upsert", {})
  /\ schedulers' = [schedulers EXCEPT ![q][n] = [cron |-> Job(release[p], n).cron, by |-> release[p]]]
  /\ Disturbs(p)
  /\ UNCHANGED <<release, jobs, run, events>>
\* upsertJobScheduler of one of them.
Upserts(p, q, n) ==
  /\ sync[p][q].pc = "upsert" /\ n \in sync[p][q].names
  /\ Enters(p, q, "upsert", sync[p][q].names \ {n})
  /\ schedulers' = [schedulers EXCEPT ![q][n] = [cron |-> Job(release[p], n).cron, by |-> release[p]]]
  /\ Disturbs(p)
  /\ UNCHANGED <<release, jobs, run, events>>
\* A failure of one rejects onModuleInit, and the process does not come up.
UpsertFails(p, q) ==
  /\ sync[p][q].pc = "upsert" /\ sync[p][q].names # {} /\ Stop(p) /\ Counted
Synced(p, q) ==
  /\ sync[p][q].pc = "upsert" /\ sync[p][q].names = {}
  /\ Enters(p, q, "ready", {})
  /\ UNCHANGED <<release, schedulers, jobs, run, disturbed, events>>

-----------------------------------------------------------------------------
(* Jobs *)

Puts(i, name, q, repeat, by) ==
  /\ Counted /\ jobs[i].state = "none" /\ \A k \in JobId : k < i => jobs[k].state # "none"
  /\ jobs' = [jobs EXCEPT ![i] = [state |-> "waiting", name |-> name, queue |-> q, repeat |-> repeat,
                                  by |-> by, lock |-> Nothing, at |-> Nothing]]

\* add of QueueService, and POST /queue/add.  addBulk groups by queue and adds each group on its own.
Add(p, i, name) ==
  /\ Running(p) /\ ~LoadThrows(release[p])
  /\ Puts(i, name, ResolveQueueName(release[p], name), FALSE, release[p])
  /\ UNCHANGED <<release, sync, schedulers, run, disturbed>>
\* A scheduler's time has come.
Fires(i, q, n) ==
  /\ schedulers[q][n] # Nothing /\ Puts(i, n, q, TRUE, schedulers[q][n].by)
  /\ UNCHANGED <<release, sync, schedulers, run, disturbed>>

\* A worker of the queue takes the job: process finds it active.
Takes(p, i) ==
  /\ Running(p) /\ jobs[i].state = "waiting" /\ jobs[i].queue \in Queues(release[p])
  /\ run[p][i] = "none"
  /\ LET r == release[p]
         known == jobs[i].name \in Registered(r) /\ Job(r, jobs[i].name).queue = jobs[i].queue IN
     \/ /\ LoadThrows(r) /\ jobs' = [jobs EXCEPT ![i].state = "failed"] /\ UNCHANGED run
     \/ /\ ~LoadThrows(r) /\ ~known
        /\ jobs' = [jobs EXCEPT ![i].state = "dropped", ![i].at = r] /\ UNCHANGED run
     \/ /\ ~LoadThrows(r) /\ known
        /\ jobs' = [jobs EXCEPT ![i].state = "active", ![i].lock = p]
        /\ run' = [run EXCEPT ![p][i] = IF jobs[i].repeat THEN "check" ELSE "process"]
  /\ UNCHANGED <<release, sync, schedulers, disturbed, events>>

\* Mutant of Ends: the job keeps its lock.
EndsLocked(p, i, state) ==
  /\ run' = [run EXCEPT ![p][i] = "none"]
  /\ jobs' = IF jobs[i].lock = p THEN [jobs EXCEPT ![i].state = state] ELSE jobs
Ends(p, i, state) ==
  /\ run' = [run EXCEPT ![p][i] = "none"]
  /\ jobs' = IF jobs[i].lock = p THEN [jobs EXCEPT ![i].state = state, ![i].lock = Nothing] ELSE jobs

\* shouldProcessJob: getActive of this queue answers.
OtherActive(i) ==
  \E k \in JobId \ {i} : jobs[k].state = "active" /\ jobs[k].queue = jobs[i].queue /\ jobs[k].name = jobs[i].name
\* Mutant of ShouldProcess: the jobs that are being processed, and not the active ones.
ShouldProcessUnstarted(i) ==
  ~\E k \in JobId \ {i}, p \in Process : run[p][k] = "process" /\ jobs[k].name = jobs[i].name /\ ~jobs[k].repeat
ShouldProcess(i) == ~OtherActive(i)
Checks(p, i) ==
  /\ run[p][i] = "check"
  /\ IF ShouldProcess(i) THEN run' = [run EXCEPT ![p][i] = "process"] /\ UNCHANGED jobs
     ELSE Ends(p, i, "skipped")
  /\ UNCHANGED <<release, sync, schedulers, disturbed, events>>

\* The processor returns; or throws, which is rethrown for BullMQ to retry, to give up or, after
\* DelayedError, to run the job later.  A failed getActive is the same.
Finishes(p, i) ==
  /\ \/ run[p][i] = "process" /\ Ends(p, i, "done") /\ UNCHANGED events
     \/ run[p][i] \in {"check", "process"} /\ \E state \in {"waiting", "failed"} : Ends(p, i, state) /\ Counted
  /\ UNCHANGED <<release, sync, schedulers, disturbed>>

\* BullMQ: a lock that was not renewed in time, by a process that is dead or too busy, makes the job wait again.
Stalls(i) ==
  /\ jobs[i].state = "active"
  /\ IF run[jobs[i].lock][i] # "none" THEN Counted ELSE UNCHANGED events
  /\ jobs' = [jobs EXCEPT ![i].state = "waiting", ![i].lock = Nothing]
  /\ UNCHANGED <<release, sync, schedulers, run, disturbed>>

-----------------------------------------------------------------------------
Next ==
  \/ \E p \in Process :
       \/ (\E r \in Release : Boot(p, r)) \/ Exits(p)
       \/ \E q \in QueueName :
            \/ Lists(p, q) \/ LoadFails(p, q) \/ RemovesSettle(p, q) \/ UpsertFails(p, q) \/ Synced(p, q)
            \/ \E n \in JobName : Removes(p, q, n) \/ Upserts(p, q, n)
       \/ \E i \in JobId :
            Takes(p, i) \/ Checks(p, i) \/ Finishes(p, i) \/ \E n \in JobName : Add(p, i, n)
  \/ \E i \in JobId : Stalls(i) \/ \E q \in QueueName, n \in JobName : Fires(i, q, n)

Spec == Init /\ [][Next]_vars

-----------------------------------------------------------------------------
(* Properties *)

\* When the processes that run are of one release and have come up, every cron job has its one
\* scheduler, on its queue and with its pattern, and no other queue of the release has one,
\* however their synchronisations overlapped: unless one of another release, or one that died or
\* failed halfway, has come in between, and none has started since.
SchedulersSettle ==
  \A r \in Release :
    LET up == {p \in Process : Running(p)} IN
    /\ up # {} /\ ~(up \subseteq disturbed)
    /\ \A p \in up : release[p] = r /\ \A q \in Queues(r) : sync[p][q].pc = "ready"
    => \A n \in Registered(r), q \in Queues(r) :
         /\ n \in CronJobs(r, q) => schedulers[q][n] # Nothing /\ schedulers[q][n].cron = Job(r, n).cron
         /\ Job(r, n).queue # q => schedulers[q][n] = Nothing

\* Of the scheduled jobs of a name on a queue at most one is being processed under its lock,
\* whatever is retried, stalled or restarted; and a job is dropped in silence only by another
\* release than the one that put it there, or when that one does not know its name either.
JobsRunApart ==
  /\ \A i, k \in JobId :
       LET processed(x) == jobs[x].state = "active" /\ jobs[x].repeat /\ run[jobs[x].lock][x] = "process" IN
       i # k /\ processed(i) /\ processed(k) => jobs[i].name # jobs[k].name \/ jobs[i].queue # jobs[k].queue
  /\ \A i \in JobId : jobs[i].state = "dropped" =>
       jobs[i].at # jobs[i].by \/ jobs[i].name \notin Registered(jobs[i].by)
=============================================================================
