------------------------------- MODULE GoPool -------------------------------
(***************************************************************************)
(* The goroutine pool of pkg/gopool: CtxGo (pool.go) and the loop of its   *)
(* workers (worker.go).                                                    *)
(*                                                                         *)
(* CtxGo links the task into the list under taskLock; everything after     *)
(* that (the counter of tasks, the decision whether a worker is needed,    *)
(* the counter of workers) is done without the lock, by separate atomic    *)
(* loads and adds.  A worker takes a task, or finds none and leaves, under *)
(* the lock.  The question is whether a task can be left in the list with  *)
(* nobody to run it.                                                       *)
(*                                                                         *)
(* Every task is submitted by a goroutine of its own, and as a call of     *)
(* CtxGo starts at most one worker the workers are named by the tasks      *)
(* whose submission started them.                                          *)
(***************************************************************************)
EXTENDS Integers, FiniteSets, SequencesExt

CONSTANTS
  Tasks,      \* the functions handed to CtxGo
  Caps,       \* the capacities the pool is given (NewPool, SetCap)
  Threshold,  \* Config.ScaleThreshold
  NoTask      \* a worker that runs nothing

ASSUME TasksAssumption == IsFiniteSet(Tasks)
ASSUME CapsAssumption == Caps \subseteq Int
ASSUME ThresholdAssumption == Threshold \in Int
ASSUME NoTaskAssumption == NoTask \notin Tasks

VARIABLES
  cap,         \* pool.cap
  queue,       \* the list taskHead .. taskTail
  taskCount,   \* pool.taskCount
  workerCount, \* pool.workerCount
  goPc,        \* where CtxGo of each task stands
  wk,          \* each worker: "off", "loop" or "run"
  job,         \* the task a worker runs
  finished,    \* tasks whose function has ended
  dead,        \* the panic handler panicked: the process is gone
  overlapped   \* two calls of CtxGo were under way at once, or SetCap was called

counters == <<taskCount, workerCount>>
workers  == <<wk, job, finished>>
goVars   == <<cap, queue, counters, goPc, workers, dead, overlapped>>

\* CtxGo between its unlock and its return.
Submitting == {"count", "threshold", "cap", "none", "inc"}

GoTypeOK ==
  /\ cap \in Caps
  /\ queue \in Seq(Tasks)
  /\ taskCount \in Int
  /\ workerCount \in Int
  /\ goPc \in [Tasks -> {"idle", "done"} \cup Submitting]
  /\ wk \in [Tasks -> {"off", "loop", "run"}]
  /\ job \in [Tasks -> Tasks \cup {NoTask}]
  /\ finished \in SUBSET Tasks
  /\ dead \in BOOLEAN
  /\ overlapped \in BOOLEAN
  /\ \A w \in Tasks : job[w] # NoTask <=> wk[w] = "run"

\* NewPool.
GoInit ==
  /\ cap \in Caps
  /\ queue = << >>
  /\ taskCount = 0
  /\ workerCount = 0
  /\ goPc = [t \in Tasks |-> "idle"]
  /\ wk = [t \in Tasks |-> "off"]
  /\ job = [t \in Tasks |-> NoTask]
  /\ finished = {}
  /\ dead = FALSE
  /\ overlapped = FALSE

-----------------------------------------------------------------------------
(* CtxGo.                                                                  *)

\* The task is linked into the list, under taskLock.
Enqueue(t) ==
  /\ ~dead
  /\ goPc[t] = "idle"
  /\ queue' = Append(queue, t)
  /\ goPc' = [goPc EXCEPT ![t] = "count"]
  /\ overlapped' = (overlapped \/ \E u \in Tasks : goPc[u] \in Submitting)
  /\ UNCHANGED <<cap, counters, workers, dead>>

\* atomic.AddInt32(&p.taskCount, 1): a worker may have taken the task before.
CountTask(t) ==
  /\ ~dead
  /\ goPc[t] = "count"
  /\ taskCount' = taskCount + 1
  /\ goPc' = [goPc EXCEPT ![t] = "threshold"]
  /\ UNCHANGED <<cap, queue, workerCount, workers, dead, overlapped>>

\* Fault: below the threshold no worker is needed.
CheckThresholdOnly(t) ==
  /\ ~dead
  /\ goPc[t] = "threshold"
  /\ goPc' = [goPc EXCEPT ![t] = IF taskCount >= Threshold THEN "cap" ELSE "done"]
  /\ UNCHANGED <<cap, queue, counters, workers, dead, overlapped>>

\* taskCount >= ScaleThreshold, the first operand of the condition.
CheckThreshold(t) ==
  /\ ~dead
  /\ goPc[t] = "threshold"
  /\ goPc' = [goPc EXCEPT ![t] = IF taskCount >= Threshold THEN "cap" ELSE "none"]
  /\ UNCHANGED <<cap, queue, counters, workers, dead, overlapped>>

\* Fault: one worker too many.
CheckCapOff(t) ==
  /\ ~dead
  /\ goPc[t] = "cap"
  /\ goPc' = [goPc EXCEPT ![t] = IF workerCount <= cap THEN "inc" ELSE "none"]
  /\ UNCHANGED <<cap, queue, counters, workers, dead, overlapped>>

\* WorkerCount() < cap, the second one.
CheckCap(t) ==
  /\ ~dead
  /\ goPc[t] = "cap"
  /\ goPc' = [goPc EXCEPT ![t] = IF workerCount < cap THEN "inc" ELSE "none"]
  /\ UNCHANGED <<cap, queue, counters, workers, dead, overlapped>>

\* WorkerCount() == 0, the third one.
CheckNone(t) ==
  /\ ~dead
  /\ goPc[t] = "none"
  /\ goPc' = [goPc EXCEPT ![t] = IF workerCount = 0 THEN "inc" ELSE "done"]
  /\ UNCHANGED <<cap, queue, counters, workers, dead, overlapped>>

\* incWorkerCount and worker.run: the new goroutine is at the head of its loop.
IncWorker(t) ==
  /\ ~dead
  /\ goPc[t] = "inc"
  /\ workerCount' = workerCount + 1
  /\ wk' = [wk EXCEPT ![t] = "loop"]
  /\ goPc' = [goPc EXCEPT ![t] = "done"]
  /\ UNCHANGED <<cap, queue, taskCount, job, finished, dead, overlapped>>

-----------------------------------------------------------------------------
(* worker.run.                                                             *)

\* Fault: taskHead is read before the lock is taken.
WorkerTakesStale(w) ==
  /\ ~dead
  /\ wk[w] = "loop"
  /\ queue # << >>
  /\ job' = [job EXCEPT ![w] = Head(queue)]
  /\ queue' \in {queue, Tail(queue)}
  /\ taskCount' = taskCount - 1
  /\ wk' = [wk EXCEPT ![w] = "run"]
  /\ UNCHANGED <<cap, workerCount, goPc, finished, dead, overlapped>>

\* Fault: the counter of tasks is forgotten.
WorkerTakesUncounted(w) ==
  /\ ~dead
  /\ wk[w] = "loop"
  /\ queue # << >>
  /\ job' = [job EXCEPT ![w] = Head(queue)]
  /\ queue' = Tail(queue)
  /\ wk' = [wk EXCEPT ![w] = "run"]
  /\ UNCHANGED <<cap, counters, goPc, finished, dead, overlapped>>

\* Under taskLock: the head of the list is taken.
WorkerTakes(w) ==
  /\ ~dead
  /\ wk[w] = "loop"
  /\ queue # << >>
  /\ job' = [job EXCEPT ![w] = Head(queue)]
  /\ queue' = Tail(queue)
  /\ taskCount' = taskCount - 1
  /\ wk' = [wk EXCEPT ![w] = "run"]
  /\ UNCHANGED <<cap, workerCount, goPc, finished, dead, overlapped>>

\* Under taskLock: the list is empty, the worker leaves.
WorkerExits(w) ==
  /\ ~dead
  /\ wk[w] = "loop"
  /\ queue = << >>
  /\ workerCount' = workerCount - 1
  /\ wk' = [wk EXCEPT ![w] = "off"]
  /\ UNCHANGED <<cap, queue, taskCount, goPc, job, finished, dead, overlapped>>

\* Fault: a panic of the task ends its worker.
TaskEndsWorker(w) ==
  /\ ~dead
  /\ wk[w] = "run"
  /\ finished' = finished \cup {job[w]}
  /\ job' = [job EXCEPT ![w] = NoTask]
  /\ wk' \in {[wk EXCEPT ![w] = "loop"], [wk EXCEPT ![w] = "off"]}
  /\ UNCHANGED <<cap, queue, counters, goPc, dead, overlapped>>

\* The function returns, or panics and the deferred function recovers; a
\* panic of the panic handler itself is not recovered.
TaskEnds(w) ==
  /\ ~dead
  /\ wk[w] = "run"
  /\ \/ /\ finished' = finished \cup {job[w]}
        /\ job' = [job EXCEPT ![w] = NoTask]
        /\ wk' = [wk EXCEPT ![w] = "loop"]
        /\ UNCHANGED dead
     \/ /\ dead' = TRUE
        /\ UNCHANGED workers
  /\ UNCHANGED <<cap, queue, counters, goPc, overlapped>>

\* SetCap.
SetCap ==
  /\ ~dead
  /\ cap' \in Caps \ {cap}
  /\ overlapped' = TRUE
  /\ UNCHANGED <<queue, counters, goPc, workers, dead>>

Submit(t) == \/ CountTask(t) \/ CheckThreshold(t) \/ CheckCap(t)
             \/ CheckNone(t) \/ IncWorker(t)

Work(w) == WorkerTakes(w) \/ WorkerExits(w) \/ TaskEnds(w)

GoNext == \/ \E t \in Tasks : Enqueue(t) \/ Submit(t) \/ Work(t)
          \/ SetCap

GoSpec == GoInit /\ [][GoNext]_goVars

\* Goroutines run, and the functions come to an end.
GoProgress == \E t \in Tasks : Submit(t) \/ Work(t)
GoFairSpec == GoSpec /\ WF_goVars(GoProgress)

-----------------------------------------------------------------------------
(* Properties.                                                             *)

\* The counter of workers is exact; the counter of tasks is behind the list
\* by the calls of CtxGo that have linked their task and not yet counted it,
\* and may be negative.
CountersMatch ==
  /\ workerCount = Cardinality({w \in Tasks : wk[w] # "off"})
  /\ taskCount = Len(queue) - Cardinality({t \in Tasks : goPc[t] = "count"})

\* While tasks wait there is a worker, or a call of CtxGo that has not yet
\* decided about starting one: a worker that leaves and a caller that counts
\* on it cannot miss each other.
NoTaskStranded ==
  queue # << >> =>
    \/ \E w \in Tasks : wk[w] # "off"
    \/ \E t \in Tasks : goPc[t] \in Submitting

\* A task that was submitted is in one place: in the list, with one worker,
\* or finished.
Waiting(t) == t \in ToSet(queue)
Running(t) == \E w \in Tasks : job[w] = t
OnePlace ==
  /\ IsInjective(queue)
  /\ \A t \in Tasks :
       /\ goPc[t] # "idle" <=> Waiting(t) \/ Running(t) \/ t \in finished
       /\ ~(Waiting(t) /\ Running(t))
       /\ t \in finished => ~Waiting(t) /\ ~Running(t)
  /\ \A v, w \in Tasks : job[v] = job[w] /\ job[v] # NoTask => v = w

\* The capacity can be exceeded only by calls of CtxGo that overlap (each
\* sees room for one more) or after SetCap; the first worker is always let in.
OvershootByOverlap ==
  ~overlapped => workerCount <= (IF cap > 1 THEN cap ELSE 1)

\* Every task that is submitted is run, unless the process dies.
Unrun == {t \in Tasks : goPc[t] # "idle"} \ finished
EventuallyRun == Unrun # {} ~> Unrun = {} \/ dead

=============================================================================
