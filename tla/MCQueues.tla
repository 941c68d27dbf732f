------------------------------ MODULE MCQueues ------------------------------
(***************************************************************************)
(* Two processes over one Redis, with a release, its successor that gives   *)
(* one cron job a new pattern and moves another to a queue of its own, and  *)
(* a release whose registry refuses to load: from nothing without new jobs, *)
(* and with jobs from a settled first release.                              *)
(***************************************************************************)
EXTENDS QueuesInvariant, TLC

MCName == {"digest", "sweep"}
MCId == 1..2

Provider(name, cron, queue) == [name |-> name, cron |-> cron, queue |-> queue]
First == [queues |-> <<"heavy">>,
          providers |-> <<Provider("digest", "hourly", "default"), Provider("sweep", "daily", "default")>>]
Second == [queues |-> <<"heavy">>,
           providers |-> <<Provider("digest", "daily", "default"), Provider("sweep", "daily", "heavy")>>]
Broken == [queues |-> <<>>, providers |-> <<Provider("digest", "hourly", "heavy")>>]
MCRelease == {First, Second, Broken}

\* No process yet, and all jobs done long ago.
MCDeployments ==
  /\ release = [p \in Process |-> Down] /\ sync = [p \in Process |-> [q \in QueueName |-> Idle]]
  /\ schedulers = [q \in QueueName |-> [n \in JobName |-> Nothing]]
  /\ jobs = [i \in JobId |-> [NoJob EXCEPT !.state = "done", !.name = "digest", !.queue = "default"]]
  /\ run = [p \in Process |-> [i \in JobId |-> "none"]] /\ disturbed = {} /\ events = 0
\* The first release is up on every process.
MCSettled ==
  /\ release = [p \in Process |-> First]
  /\ sync = [p \in Process |-> [q \in QueueName |-> [pc |-> "ready", names |-> {}]]]
  /\ schedulers = [q \in QueueName |-> [n \in JobName |->
       IF q = "default" THEN [cron |-> Job(First, n).cron, by |-> First] ELSE Nothing]]
  /\ jobs = [i \in JobId |-> NoJob]
  /\ run = [p \in Process |-> [i \in JobId |-> "none"]] /\ disturbed = {} /\ events = 1
MCSpec == ((Init /\ events = 1) \/ MCDeployments \/ MCSettled) /\ [][Next]_vars
MCSymmetry == Permutations(Process)
=============================================================================
