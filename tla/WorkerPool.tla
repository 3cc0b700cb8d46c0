----------------------------- MODULE WorkerPool -----------------------------
(***************************************************************************)
(* The two pools of pkg/worker_pool/worker_pool.go.                        *)
(*                                                                         *)
(* In the "channel" pool (Pool) the workers read a channel that holds as   *)
(* many jobs as there are workers.  In the "dispatch" pool (WorkerPool) a  *)
(* goroutine takes one job at a time from an unbuffered channel, then      *)
(* waits for a worker that has registered, and hands the job over.         *)
(*                                                                         *)
(* A job may itself call Submit or SubmitAndWait on its pool.  It keeps    *)
(* its worker meanwhile.                                                   *)
(***************************************************************************)
EXTENDS Integers, Sequences, FiniteSets

CONSTANTS
  Jobs,        \* the jobs
  PoolSizes,   \* the numbers of workers to look at
  NoJob

ASSUME PoolBounds ==
  PoolSizes \subseteq Nat \ {0} /\ NoJob \notin Jobs /\ IsFiniteSet(Jobs)

VARIABLES
  style,       \* "channel" or "dispatch"
  maxWorkers,  \* maxWorkers, workerLen
  jobs,        \* per job: where it stands
  nested,      \* per job: the job it is submitting, and whether it waits for its end
  buffer,      \* the buffer of the channel jobs
  inHand,      \* the job the dispatcher holds
  registered   \* workers in WorkerQueue

poolVars == <<style, maxWorkers, jobs, nested, buffer, inHand, registered>>

In(s) == {j \in Jobs : jobs[j] = s}
Busy == In("running") \cup In("submitting")

NoChild == [job |-> NoJob, until |-> "taken"]

PoolInit ==
  /\ style \in {"channel", "dispatch"}
  /\ maxWorkers \in PoolSizes
  /\ jobs = [j \in Jobs |-> "new"]
  /\ nested = [j \in Jobs |-> NoChild]
  /\ buffer = << >>
  /\ inHand = NoJob
  /\ registered = 0

\* Submit or SubmitAndWait from outside the pool: a send on the channel.
SubmitJob(j) ==
  /\ jobs[j] = "new"
  /\ jobs' = [jobs EXCEPT ![j] = "sending"]
  /\ UNCHANGED <<style, maxWorkers, nested, buffer, inHand, registered>>

\* A running job calls Submit (until the job is taken) or SubmitAndWait (until
\* it is done; the dispatch pool has no such call).
SubmitFromJob(i, j, until) ==
  /\ jobs[i] = "running"
  /\ jobs[j] = "new"
  /\ until = "done" => style = "channel"
  /\ jobs' = [jobs EXCEPT ![i] = "submitting", ![j] = "sending"]
  /\ nested' = [nested EXCEPT ![i] = [job |-> j, until |-> until]]
  /\ UNCHANGED <<style, maxWorkers, buffer, inHand, registered>>

\* The buffer of the channel has room for a send.
ChannelAccepts(j) ==
  /\ style = "channel"
  /\ jobs[j] = "sending"
  /\ Len(buffer) < maxWorkers
  /\ buffer' = Append(buffer, j)
  /\ jobs' = [jobs EXCEPT ![j] = "queued"]
  /\ UNCHANGED <<style, maxWorkers, nested, inHand, registered>>

\* A worker of the channel pool that has no job receives one.
WorkerReceives(j) ==
  /\ style = "channel"
  /\ buffer # << >>
  /\ j = Head(buffer)
  /\ Cardinality(Busy) < maxWorkers
  /\ buffer' = Tail(buffer)
  /\ jobs' = [jobs EXCEPT ![j] = "running"]
  /\ UNCHANGED <<style, maxWorkers, nested, inHand, registered>>

\* The dispatcher receives a job.
DispatcherTakes(j) ==
  /\ style = "dispatch"
  /\ inHand = NoJob
  /\ jobs[j] = "sending"
  /\ inHand' = j
  /\ jobs' = [jobs EXCEPT ![j] = "queued"]
  /\ UNCHANGED <<style, maxWorkers, nested, buffer, registered>>

\* A worker of the dispatch pool puts its channel into WorkerQueue; there is
\* room for all.
Register ==
  /\ style = "dispatch"
  /\ registered + Cardinality(Busy) < maxWorkers
  /\ registered' = registered + 1
  /\ UNCHANGED <<style, maxWorkers, jobs, nested, buffer, inHand>>

\* The dispatcher hands its job to a registered worker.
DispatcherHands(j) ==
  /\ inHand = j
  /\ registered > 0
  /\ inHand' = NoJob
  /\ registered' = registered - 1
  /\ jobs' = [jobs EXCEPT ![j] = "running"]
  /\ UNCHANGED <<style, maxWorkers, nested, buffer>>

\* The call a job made to its pool may return.
MayReturn(i) ==
  LET child == nested[i]
  IN  IF child.until = "done" THEN jobs[child.job] = "done"
                              ELSE jobs[child.job] # "sending"

CallReturnsTo(i) ==
  /\ jobs[i] = "submitting"
  /\ MayReturn(i)
  /\ jobs' = [jobs EXCEPT ![i] = "running"]
  /\ nested' = [nested EXCEPT ![i] = NoChild]
  /\ UNCHANGED <<style, maxWorkers, buffer, inHand, registered>>

\* Fault: the worker does not read the channel again.
JobEndsForGood(j) ==
  /\ jobs[j] = "running"
  /\ jobs' = [jobs EXCEPT ![j] = "done"]
  /\ maxWorkers' = maxWorkers - 1
  /\ UNCHANGED <<style, nested, buffer, inHand, registered>>

\* The function returns, and the worker goes round its loop.
JobEnds(j) ==
  /\ jobs[j] = "running"
  /\ jobs' = [jobs EXCEPT ![j] = "done"]
  /\ UNCHANGED <<style, maxWorkers, nested, buffer, inHand, registered>>

PoolStep(j) ==
  \/ ChannelAccepts(j) \/ WorkerReceives(j)
  \/ DispatcherTakes(j) \/ DispatcherHands(j)
  \/ CallReturnsTo(j) \/ JobEnds(j)

\* What goroutines do by themselves, and jobs that come to their end.
PoolProgress == Register \/ \E j \in Jobs : PoolStep(j)

PoolNext ==
  \/ PoolProgress
  \/ \E j \in Jobs : SubmitJob(j)
  \/ \E i, j \in Jobs, until \in {"taken", "done"} : SubmitFromJob(i, j, until)

-----------------------------------------------------------------------------
(* Properties.                                                             *)

\* Every worker is inside a call that its job makes to the pool, and none of
\* the calls can get anywhere: what they wait for needs a worker.
Jammed ==
  /\ In("submitting") # {} /\ Cardinality(In("submitting")) = maxWorkers
  /\ \A i \in In("submitting") : ~MayReturn(i)
  /\ IF style = "channel" THEN In("sending") = {} \/ Len(buffer) = maxWorkers
                          ELSE inHand # NoJob

\* Every job that is submitted is done in the end, or the pool is jammed by
\* jobs that submit to it (Submit, SubmitAndWait).  Nothing else holds a job
\* up: not a full channel, not the dispatcher that holds a job while it
\* waits.
Unfinished == {j \in Jobs : jobs[j] \notin {"new", "done"}}
JobDoneOrJammed == Unfinished # {} ~> Unfinished = {} \/ Jammed

=============================================================================
