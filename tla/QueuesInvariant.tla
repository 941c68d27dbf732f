-------------------------- MODULE QueuesInvariant --------------------------
(***************************************************************************)
(* The inductive invariant of Queues: what the synchronisation of a queue   *)
(* has done when it is at a given place, and what a scheduler and a job     *)
(* know of the release that put them there.                                 *)
(***************************************************************************)
EXTENDS Queues

\* A running process that nothing has come in between of.
Fresh(p) == Running(p) /\ p \notin disturbed

\* A process that is down synchronises and processes nothing.
DownIsIdle ==
  \A p \in Process : ~Running(p) =>
    (\A q \in QueueName : sync[p][q].pc = "off") /\ (\A i \in JobId : run[p][i] = "none")

\* What is still to be upserted are cron jobs of the queue.
UpsertsOwn ==
  \A p \in Process, q \in QueueName :
    sync[p][q].pc = "upsert" => sync[p][q].names \subseteq CronJobs(release[p], q)

\* A scheduler is what the release that put it there registers.
SchedulerIsOfRelease ==
  \A q \in QueueName, n \in JobName : schedulers[q][n] # Nothing =>
    LET s == schedulers[q][n] IN n \in CronJobs(s.by, q) /\ s.cron = Job(s.by, n).cron

\* Once the queue was listed, a scheduler of a job of another queue is gone or is being removed.
MovedIsRemoved ==
  \A p \in Process, q \in QueueName, n \in JobName :
    /\ Fresh(p) /\ n \in Registered(release[p]) /\ Job(release[p], n).queue # q
    /\ schedulers[q][n] # Nothing
    => \/ sync[p][q].pc \in {"off", "list"}
       \/ sync[p][q].pc = "remove" /\ n \in sync[p][q].names

\* A process of the release is still going to upsert the scheduler.
Pending(r, q, n) ==
  \E p \in Process :
    /\ release[p] = r
    /\ \/ sync[p][q].pc = "remove"
       \/ sync[p][q].pc = "upsert" /\ n \in sync[p][q].names
Upserted(p, q, n) ==
  sync[p][q].pc = "ready" \/ (sync[p][q].pc = "upsert" /\ n \notin sync[p][q].names)

\* What was upserted is there, unless a process of the same release, which listed the queue before,
\* has removed it; that one will upsert it too.
UpsertedIsThere ==
  \A p \in Process, q \in QueueName : Fresh(p) => \A n \in CronJobs(release[p], q) :
    Upserted(p, q, n) =>
      \/ schedulers[q][n] # Nothing /\ schedulers[q][n].cron = Job(release[p], n).cron
      \/ Pending(release[p], q, n)

\* A job that its release registers is on the queue that it registers it for.
JobIsRouted ==
  \A i \in JobId :
    LET j == jobs[i] IN
    j.by \in Release /\ j.name \in Registered(j.by) => j.queue = Job(j.by, j.name).queue

IInv ==
  /\ TypeOK /\ DownIsIdle /\ UpsertsOwn /\ SchedulerIsOfRelease
  /\ MovedIsRemoved /\ UpsertedIsThere /\ JobIsRouted /\ JobsRunApart
=============================================================================
