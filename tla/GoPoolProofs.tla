---------------------------- MODULE GoPoolProofs ----------------------------
(***************************************************************************)
(* Theorems about GoPool, for every finite set of tasks and every capacity *)
(* and threshold.                                                          *)
(***************************************************************************)
EXTENDS GoPool, SequenceLemmas, FiniteSetTheorems

-----------------------------------------------------------------------------
(* The inductive invariant: a call of CtxGo that has not returned has not   *)
(* started its worker, and the counters are what they should be.           *)

Unstarted == \A t \in Tasks : goPc[t] # "done" => wk[t] = "off"

LiveWorkers == {w \in Tasks : wk[w] # "off"}
Uncounted   == {t \in Tasks : goPc[t] = "count"}

Inv == GoTypeOK /\ Unstarted /\ CountersMatch /\ NoTaskStranded

\* NewPool satisfies the invariant.
LEMMA InitInv == GoInit => Inv
<1> SUFFICES ASSUME GoInit PROVE Inv
  OBVIOUS
<1>1. GoTypeOK /\ Unstarted /\ NoTaskStranded
  <2>1. queue \in Seq(Tasks)
    BY DEF GoInit
  <2>2. /\ cap \in Caps
        /\ taskCount \in Int
        /\ workerCount \in Int
        /\ finished \in SUBSET Tasks
    BY DEF GoInit
  <2>3. dead \in BOOLEAN /\ overlapped \in BOOLEAN
    BY Zenon DEF GoInit
  <2>4. goPc \in [Tasks -> {"idle", "done"} \cup Submitting]
    BY DEF GoInit, Submitting
  <2>5. wk \in [Tasks -> {"off", "loop", "run"}]
    BY DEF GoInit
  <2>6. job \in [Tasks -> Tasks \cup {NoTask}]
    BY DEF GoInit
  <2>7. \A w \in Tasks : job[w] # NoTask <=> wk[w] = "run"
    BY DEF GoInit
  <2>8. GoTypeOK
    BY <2>1, <2>2, <2>3, <2>4, <2>5, <2>6, <2>7 DEF GoTypeOK
  <2>9. Unstarted
    BY DEF GoInit, Unstarted
  <2>10. NoTaskStranded
    BY DEF GoInit, NoTaskStranded
  <2>11. QED
    BY <2>8, <2>9, <2>10
<1>2. {w \in Tasks : wk[w] # "off"} = {} /\ {t \in Tasks : goPc[t] = "count"} = {}
  BY DEF GoInit
<1>3. Len(queue) = 0 /\ taskCount = 0 /\ workerCount = 0
  BY DEF GoInit
<1>4. CountersMatch
  <2>1. Cardinality({}) = 0
    BY FS_EmptySet
  <2>2. Cardinality({w \in Tasks : wk[w] # "off"}) = 0
    BY <1>2, <2>1
  <2>3. Cardinality({t \in Tasks : goPc[t] = "count"}) = 0
    BY <1>2, <2>1
  <2>4. QED
    BY <1>3, <2>2, <2>3 DEF CountersMatch
<1>5. QED
  BY <1>1, <1>4 DEF Inv

\* The two sets that are counted are finite.
LEMMA CountedFinite ==
  /\ IsFiniteSet(LiveWorkers)
  /\ IsFiniteSet(Uncounted)
  /\ Cardinality(LiveWorkers) \in Nat
  /\ Cardinality(Uncounted) \in Nat
<1>1. LiveWorkers \subseteq Tasks /\ Uncounted \subseteq Tasks
  BY DEF LiveWorkers, Uncounted
<1>2. IsFiniteSet(LiveWorkers) /\ IsFiniteSet(Uncounted)
  BY <1>1, TasksAssumption, FS_Subset
<1>3. QED
  BY <1>2, FS_CardinalityType

\* CtxGo links its task: nobody waits unseen, for the call goes on.
LEMMA EnqueueInv ==
  ASSUME Inv, NEW t \in Tasks, Enqueue(t)
  PROVE  Inv'
<1>1. /\ queue' \in Seq(Tasks)
      /\ Len(queue) \in Nat
      /\ Len(queue') = Len(queue) + 1
  BY ElemsAppend, LenProperties DEF Enqueue, Inv, GoTypeOK
<1>2. GoTypeOK'
  BY <1>1 DEF Enqueue, Inv, GoTypeOK, Submitting, counters, workers
<1>3. Unstarted'
  BY DEF Enqueue, Inv, GoTypeOK, Unstarted, workers
<1>4. NoTaskStranded'
  <2>1. goPc'[t] \in Submitting
    BY DEF Enqueue, Inv, GoTypeOK, Submitting
  <2>2. QED
    BY <2>1 DEF NoTaskStranded
<1>5. LiveWorkers' = LiveWorkers
  BY DEF Enqueue, LiveWorkers, workers
<1>6. Uncounted' = Uncounted \cup {t} /\ t \notin Uncounted
  BY DEF Enqueue, Inv, GoTypeOK, Uncounted
<1>7. Cardinality(Uncounted') = Cardinality(Uncounted) + 1
  BY <1>6, CountedFinite, FS_AddElement
<1>8. CountersMatch'
  <2>1. taskCount' = Len(queue') - Cardinality(Uncounted')
    BY <1>1, <1>7, CountedFinite DEF Enqueue, Inv, CountersMatch, Uncounted, counters
  <2>2. workerCount' = Cardinality(LiveWorkers')
    BY <1>5 DEF Enqueue, Inv, CountersMatch, LiveWorkers, counters
  <2>3. QED
    BY <2>1, <2>2 DEF CountersMatch, Uncounted, LiveWorkers
<1>9. QED
  BY <1>2, <1>3, <1>4, <1>8 DEF Inv

\* CtxGo counts its task.
LEMMA CountTaskInv ==
  ASSUME Inv, NEW t \in Tasks, CountTask(t)
  PROVE  Inv'
<1>1. GoTypeOK'
  BY DEF CountTask, Inv, GoTypeOK, Submitting, workers
<1>2. Unstarted'
  BY DEF CountTask, Inv, GoTypeOK, Unstarted, workers
<1>3. NoTaskStranded'
  <2>1. goPc'[t] \in Submitting
    BY DEF CountTask, Inv, GoTypeOK, Submitting
  <2>2. QED
    BY <2>1 DEF NoTaskStranded
<1>4. LiveWorkers' = LiveWorkers
  BY DEF CountTask, LiveWorkers, workers
<1>5. Uncounted' = Uncounted \ {t} /\ t \in Uncounted
  BY DEF CountTask, Inv, GoTypeOK, Uncounted
<1>6. Cardinality(Uncounted') = Cardinality(Uncounted) - 1
  BY <1>5, CountedFinite, FS_RemoveElement
<1>7. CountersMatch'
  <2>1. Len(queue) \in Nat
    BY LenProperties DEF Inv, GoTypeOK
  <2>2. taskCount' = Len(queue') - Cardinality(Uncounted')
    BY <1>6, <2>1, CountedFinite DEF CountTask, Inv, CountersMatch, Uncounted
  <2>3. workerCount' = Cardinality(LiveWorkers')
    BY <1>4 DEF CountTask, Inv, CountersMatch, LiveWorkers
  <2>4. QED
    BY <2>2, <2>3 DEF CountersMatch, Uncounted, LiveWorkers
<1>8. QED
  BY <1>1, <1>2, <1>3, <1>7 DEF Inv

\* The three loads of the condition change nothing but the place of the
\* call; CtxGo returns without a worker only if it has seen one, and the
\* counter it has read is exact.
LEMMA CheckInv ==
  ASSUME Inv, NEW t \in Tasks, CheckThreshold(t) \/ CheckCap(t) \/ CheckNone(t)
  PROVE  Inv'
<1>1. /\ goPc[t] \in {"threshold", "cap", "none"}
      /\ UNCHANGED <<cap, queue, counters, workers, dead, overlapped>>
      /\ \E p \in {"cap", "none", "inc", "done"} :
           /\ goPc' = [goPc EXCEPT ![t] = p]
           /\ p = "done" => workerCount # 0
  BY DEF CheckThreshold, CheckCap, CheckNone
<1>2. PICK p \in {"cap", "none", "inc", "done"} :
           /\ goPc' = [goPc EXCEPT ![t] = p]
           /\ p = "done" => workerCount # 0
  BY <1>1
<1>3. GoTypeOK'
  BY <1>1, <1>2 DEF Inv, GoTypeOK, Submitting, counters, workers
<1>4. Unstarted'
  BY <1>1, <1>2 DEF Inv, GoTypeOK, Unstarted, workers
<1>5. Uncounted' = Uncounted /\ LiveWorkers' = LiveWorkers
  BY <1>1, <1>2 DEF Inv, GoTypeOK, Uncounted, LiveWorkers, workers
<1>6. CountersMatch'
  BY <1>1, <1>5 DEF Inv, CountersMatch, Uncounted, LiveWorkers, counters
<1>7. NoTaskStranded'
  <2>1. CASE p = "done"
    <3>1. Cardinality(LiveWorkers) # 0
      BY <1>2, <2>1 DEF Inv, CountersMatch, LiveWorkers
    <3>2. LiveWorkers # {}
      BY <3>1, FS_EmptySet
    <3>3. QED
      BY <1>5, <3>2 DEF NoTaskStranded, LiveWorkers
  <2>2. CASE p # "done"
    <3>1. goPc'[t] \in Submitting
      BY <1>2, <2>2 DEF Inv, GoTypeOK, Submitting
    <3>2. QED
      BY <3>1 DEF NoTaskStranded
  <2>3. QED
    BY <2>1, <2>2
<1>8. QED
  BY <1>3, <1>4, <1>6, <1>7 DEF Inv

\* CtxGo starts a worker.
LEMMA IncWorkerInv ==
  ASSUME Inv, NEW t \in Tasks, IncWorker(t)
  PROVE  Inv'
<1>1. wk[t] = "off" /\ goPc[t] = "inc"
  BY DEF IncWorker, Inv, Unstarted
<1>2. GoTypeOK'
  BY <1>1 DEF IncWorker, Inv, GoTypeOK, Submitting
<1>3. Unstarted'
  BY DEF IncWorker, Inv, GoTypeOK, Unstarted
<1>4. LiveWorkers' = LiveWorkers \cup {t} /\ t \notin LiveWorkers
  BY <1>1 DEF IncWorker, Inv, GoTypeOK, LiveWorkers
<1>5. Cardinality(LiveWorkers') = Cardinality(LiveWorkers) + 1
  BY <1>4, CountedFinite, FS_AddElement
<1>6. Uncounted' = Uncounted
  BY <1>1 DEF IncWorker, Inv, GoTypeOK, Uncounted
<1>7. CountersMatch'
  <2>1. workerCount' = Cardinality(LiveWorkers')
    BY <1>5 DEF IncWorker, Inv, CountersMatch, LiveWorkers
  <2>2. taskCount' = Len(queue') - Cardinality(Uncounted')
    BY <1>6 DEF IncWorker, Inv, CountersMatch, Uncounted
  <2>3. QED
    BY <2>1, <2>2 DEF CountersMatch, Uncounted, LiveWorkers
<1>8. NoTaskStranded'
  BY <1>4 DEF NoTaskStranded, LiveWorkers
<1>9. QED
  BY <1>2, <1>3, <1>7, <1>8 DEF Inv

\* A worker takes a task.
LEMMA WorkerTakesInv ==
  ASSUME Inv, NEW w \in Tasks, WorkerTakes(w)
  PROVE  Inv'
<1>1. /\ Head(queue) \in Tasks
      /\ queue' \in Seq(Tasks)
      /\ Len(queue) \in Nat
      /\ Len(queue') = Len(queue) - 1
  BY HeadTailProperties, LenProperties DEF WorkerTakes, Inv, GoTypeOK
<1>2. GoTypeOK'
  BY <1>1, NoTaskAssumption DEF WorkerTakes, Inv, GoTypeOK
<1>3. Unstarted'
  BY DEF WorkerTakes, Inv, GoTypeOK, Unstarted
<1>4. LiveWorkers' = LiveWorkers /\ Uncounted' = Uncounted /\ w \in LiveWorkers
  BY DEF WorkerTakes, Inv, GoTypeOK, LiveWorkers, Uncounted
<1>5. CountersMatch'
  <2>1. taskCount' = Len(queue') - Cardinality(Uncounted')
    BY <1>1, <1>4, CountedFinite DEF WorkerTakes, Inv, CountersMatch, Uncounted
  <2>2. workerCount' = Cardinality(LiveWorkers')
    BY <1>4 DEF WorkerTakes, Inv, CountersMatch, LiveWorkers
  <2>3. QED
    BY <2>1, <2>2 DEF CountersMatch, Uncounted, LiveWorkers
<1>6. NoTaskStranded'
  BY <1>4 DEF NoTaskStranded, LiveWorkers
<1>7. QED
  BY <1>2, <1>3, <1>5, <1>6 DEF Inv

\* A worker leaves: the list is empty, nobody is left behind.
LEMMA WorkerExitsInv ==
  ASSUME Inv, NEW w \in Tasks, WorkerExits(w)
  PROVE  Inv'
<1>1. GoTypeOK'
  BY DEF WorkerExits, Inv, GoTypeOK
<1>2. Unstarted'
  BY DEF WorkerExits, Inv, GoTypeOK, Unstarted
<1>3. LiveWorkers' = LiveWorkers \ {w} /\ w \in LiveWorkers /\ Uncounted' = Uncounted
  BY DEF WorkerExits, Inv, GoTypeOK, LiveWorkers, Uncounted
<1>4. Cardinality(LiveWorkers') = Cardinality(LiveWorkers) - 1
  BY <1>3, CountedFinite, FS_RemoveElement
<1>5. CountersMatch'
  <2>1. workerCount' = Cardinality(LiveWorkers')
    BY <1>4 DEF WorkerExits, Inv, CountersMatch, LiveWorkers
  <2>2. taskCount' = Len(queue') - Cardinality(Uncounted')
    BY <1>3 DEF WorkerExits, Inv, CountersMatch, Uncounted
  <2>3. QED
    BY <2>1, <2>2 DEF CountersMatch, Uncounted, LiveWorkers
<1>6. NoTaskStranded'
  BY DEF WorkerExits, NoTaskStranded
<1>7. QED
  BY <1>1, <1>2, <1>5, <1>6 DEF Inv

\* A task ends: its worker goes on, or the process dies.
LEMMA TaskEndsInv ==
  ASSUME Inv, NEW w \in Tasks, TaskEnds(w)
  PROVE  Inv'
<1>1. GoTypeOK'
  <2>1. job[w] \in Tasks
    BY DEF TaskEnds, Inv, GoTypeOK
  <2>2. CASE UNCHANGED workers /\ dead' = TRUE
    BY <2>2 DEF TaskEnds, Inv, GoTypeOK, counters, workers
  <2>3. CASE /\ finished' = finished \cup {job[w]}
             /\ job' = [job EXCEPT ![w] = NoTask]
             /\ wk' = [wk EXCEPT ![w] = "loop"]
             /\ UNCHANGED dead
    <3>1. finished' \in SUBSET Tasks
      BY <2>1, <2>3 DEF Inv, GoTypeOK
    <3>2. /\ job' \in [Tasks -> Tasks \cup {NoTask}]
          /\ wk' \in [Tasks -> {"off", "loop", "run"}]
      BY <2>3 DEF Inv, GoTypeOK
    <3>3. \A v \in Tasks : job'[v] # NoTask <=> wk'[v] = "run"
      BY <2>3 DEF Inv, GoTypeOK
    <3>4. UNCHANGED <<cap, queue, counters, goPc, overlapped, dead>>
      BY <2>3 DEF TaskEnds
    <3>5. QED
      BY <3>1, <3>2, <3>3, <3>4 DEF Inv, GoTypeOK, counters
  <2>4. QED
    BY <2>2, <2>3 DEF TaskEnds
<1>2. Unstarted'
  BY DEF TaskEnds, Inv, GoTypeOK, Unstarted, workers
<1>3. LiveWorkers' = LiveWorkers /\ Uncounted' = Uncounted /\ w \in LiveWorkers
  BY DEF TaskEnds, Inv, GoTypeOK, LiveWorkers, Uncounted, workers
<1>4. CountersMatch'
  BY <1>3 DEF TaskEnds, Inv, CountersMatch, LiveWorkers, Uncounted, counters
<1>5. NoTaskStranded'
  BY <1>3 DEF NoTaskStranded, LiveWorkers
<1>6. QED
  BY <1>1, <1>2, <1>4, <1>5 DEF Inv

\* SetCap, and a step that changes nothing.
LEMMA SetCapInv ==
  ASSUME Inv, SetCap \/ UNCHANGED goVars
  PROVE  Inv'
<1>1. UNCHANGED <<queue, counters, goPc, workers, dead>>
      /\ cap' \in Caps /\ overlapped' \in BOOLEAN
  BY DEF SetCap, goVars, Inv, GoTypeOK
<1>2. QED
  BY <1>1 DEF Inv, GoTypeOK, Unstarted, CountersMatch, NoTaskStranded, counters, workers

\* Every step keeps the invariant.
LEMMA StepInv ==
  ASSUME Inv, [GoNext]_goVars
  PROVE  Inv'
<1>1. ASSUME NEW t \in Tasks, Enqueue(t) \/ Submit(t) \/ Work(t)
      PROVE  Inv'
  BY <1>1, EnqueueInv, CountTaskInv, CheckInv, IncWorkerInv, WorkerTakesInv,
     WorkerExitsInv, TaskEndsInv DEF Submit, Work
<1>2. CASE SetCap \/ UNCHANGED goVars
  BY <1>2, SetCapInv
<1>3. QED
  BY <1>1, <1>2 DEF GoNext

\* The invariant holds in every reachable state.
THEOREM Invariance == GoSpec => []Inv
<1>1. GoInit => Inv
  BY InitInv
<1>2. Inv /\ [GoNext]_goVars => Inv'
  BY StepInv
<1>3. QED
  BY <1>1, <1>2, PTL DEF GoSpec

\* Every variable keeps its type, and a worker has a task exactly while it
\* runs one (worker.run).
THEOREM TypeCorrect == GoSpec => []GoTypeOK
<1>1. Inv => GoTypeOK
  BY DEF Inv
<1>2. QED
  BY <1>1, Invariance, PTL

\* The counters of the pool are exact up to the tasks not yet counted.
THEOREM Counters == GoSpec => []CountersMatch
<1>1. Inv => CountersMatch
  BY DEF Inv
<1>2. QED
  BY <1>1, Invariance, PTL

\* No task waits without a worker or a call of CtxGo that will look.
THEOREM NotStranded == GoSpec => []NoTaskStranded
<1>1. Inv => NoTaskStranded
  BY DEF Inv
<1>2. QED
  BY <1>1, Invariance, PTL

-----------------------------------------------------------------------------
(* Where a task is.  OnePlace needs no strengthening but the types.        *)

\* Linking, taking and ending move a task from one place to the next.
LEMMA EnqueueMoves ==
  ASSUME Inv, OnePlace, NEW t \in Tasks, Enqueue(t)
  PROVE  OnePlace'
<1>1. t \notin ToSet(queue) /\ ~Running(t) /\ t \notin finished
  BY DEF Enqueue, OnePlace, Waiting
<1>2. IsInjective(queue') /\ ToSet(queue') = ToSet(queue) \cup {t}
  BY <1>1, ElemsAppend, InjectiveAppend DEF Enqueue, OnePlace, Inv, GoTypeOK
<1>3. \A u \in Tasks : goPc'[u] = IF u = t THEN "count" ELSE goPc[u]
  BY DEF Enqueue, Inv, GoTypeOK
<1>4. UNCHANGED <<job, finished>>
  BY DEF Enqueue, workers
<1>5. \A u \in Tasks : /\ Waiting(u)' <=> Waiting(u) \/ u = t
                       /\ Running(u)' <=> Running(u)
  BY <1>2, <1>4 DEF Waiting, Running
<1>6. QED
  BY <1>1, <1>2, <1>3, <1>4, <1>5 DEF OnePlace

LEMMA WorkerTakesMoves ==
  ASSUME Inv, OnePlace, NEW w \in Tasks, WorkerTakes(w)
  PROVE  OnePlace'
<1> DEFINE h == Head(queue)
<1>1. /\ h \in Tasks /\ h \notin ToSet(queue') /\ IsInjective(queue')
      /\ ToSet(queue) = ToSet(queue') \cup {h}
  BY ElemsHeadTail, InjectiveTail DEF WorkerTakes, OnePlace, Inv, GoTypeOK
<1>2. /\ job[w] = NoTask
      /\ \A v \in Tasks : job'[v] = IF v = w THEN h ELSE job[v]
  BY DEF WorkerTakes, Inv, GoTypeOK
<1>3. UNCHANGED <<goPc, finished>>
  BY DEF WorkerTakes
<1> HIDE DEF h
<1>4. Waiting(h) /\ ~Running(h) /\ h \notin finished
  BY <1>1 DEF OnePlace, Waiting
<1>5. \A u \in Tasks : /\ Waiting(u)' <=> Waiting(u) /\ u # h
                       /\ Running(u)' <=> Running(u) \/ u = h
  BY <1>1, <1>2, NoTaskAssumption DEF Waiting, Running
<1>6. \A v \in Tasks : job[v] # h
  BY <1>4 DEF Running
<1>7. \A v, u \in Tasks : job'[v] = job'[u] /\ job'[v] # NoTask => v = u
  BY <1>2, <1>6 DEF OnePlace
<1>8. QED
  BY <1>1, <1>3, <1>4, <1>5, <1>7 DEF OnePlace

LEMMA TaskEndsMoves ==
  ASSUME Inv, OnePlace, NEW w \in Tasks, TaskEnds(w)
  PROVE  OnePlace'
<1>1. CASE UNCHANGED workers
  BY <1>1 DEF TaskEnds, OnePlace, Waiting, Running, workers
<1>2. CASE /\ finished' = finished \cup {job[w]}
           /\ job' = [job EXCEPT ![w] = NoTask]
  <2> DEFINE j == job[w]
  <2>1. j \in Tasks /\ finished' = finished \cup {j}
    BY <1>2 DEF TaskEnds, Inv, GoTypeOK
  <2>2. \A v \in Tasks : job'[v] = IF v = w THEN NoTask ELSE job[v]
    BY <1>2 DEF Inv, GoTypeOK
  <2>3. UNCHANGED <<goPc, queue>>
    BY DEF TaskEnds
  <2>4. Running(j) /\ \A v \in Tasks : job[v] = j => v = w
    BY <2>1, NoTaskAssumption DEF Running, OnePlace
  <2>5. \A u \in Tasks : /\ Waiting(u)' <=> Waiting(u)
                         /\ Running(u)' <=> Running(u) /\ u # j
    BY <2>2, <2>3, <2>4, NoTaskAssumption DEF Waiting, Running
  <2> HIDE DEF j
  <2>6. \A v, u \in Tasks : job'[v] = job'[u] /\ job'[v] # NoTask => v = u
    BY <2>2 DEF OnePlace
  <2>7. \A u \in Tasks : u \in finished' <=> u \in finished \/ u = j
    BY <2>1
  <2>8. ~Waiting(j)
    BY <2>1, <2>4 DEF OnePlace
  <2>9. QED
    BY <2>1, <2>3, <2>4, <2>5, <2>6, <2>7, <2>8 DEF OnePlace
<1>3. QED
  BY <1>1, <1>2 DEF TaskEnds

\* Every other step leaves the tasks where they are.
LEMMA OnePlaceStep ==
  ASSUME Inv, OnePlace, [GoNext]_goVars
  PROVE  OnePlace'
<1>1. ASSUME NEW t \in Tasks, Submit(t) \/ WorkerExits(t)
      PROVE  OnePlace'
  <2>1. UNCHANGED <<queue, job, finished>>
    BY <1>1 DEF Submit, CountTask, CheckThreshold, CheckCap, CheckNone, IncWorker, WorkerExits, workers
  <2>2. \A u \in Tasks : goPc'[u] # "idle" <=> goPc[u] # "idle"
    BY <1>1 DEF Submit, CountTask, CheckThreshold, CheckCap, CheckNone, IncWorker, WorkerExits,
                Inv, GoTypeOK
  <2>3. QED
    BY <2>1, <2>2 DEF OnePlace, Waiting, Running
<1>2. CASE SetCap \/ UNCHANGED goVars
  BY <1>2 DEF SetCap, goVars, OnePlace, Waiting, Running, workers
<1>3. QED
  BY <1>1, <1>2, EnqueueMoves, WorkerTakesMoves, TaskEndsMoves DEF GoNext, Work

\* A task that was handed to CtxGo is never lost and never run twice: it is in
\* the list, with one worker or finished.
THEOREM TaskInOnePlace == GoSpec => []OnePlace
<1>1. GoInit => OnePlace
  <2> SUFFICES ASSUME GoInit PROVE OnePlace
    OBVIOUS
  <2>1. queue = << >> /\ finished = {}
    BY DEF GoInit
  <2>2. ToSet(queue) = {} /\ IsInjective(queue)
    BY <2>1 DEF ToSet, IsInjective
  <2>3. \A t \in Tasks : goPc[t] = "idle" /\ job[t] = NoTask
    BY DEF GoInit
  <2>4. QED
    BY <2>1, <2>2, <2>3, NoTaskAssumption DEF OnePlace, Waiting, Running
<1>2. Inv /\ OnePlace /\ [GoNext]_goVars => OnePlace'
  BY OnePlaceStep
<1>3. QED
  BY <1>1, <1>2, Invariance, PTL DEF GoSpec

-----------------------------------------------------------------------------
(* The capacity.  As long as no two calls of CtxGo overlap, the room that  *)
(* a call has seen is still there when it starts its worker: meanwhile     *)
(* workers only leave.                                                     *)

Room == IF cap > 1 THEN cap ELSE 1

Alone ==
  ~overlapped =>
    /\ \A t, u \in Tasks : goPc[t] \in Submitting /\ goPc[u] \in Submitting => t = u
    /\ \A t \in Tasks : goPc[t] = "inc" => workerCount < Room
    /\ workerCount <= Room

\* A call begins, or passes its checks.
LEMMA SubmitAlone ==
  ASSUME Inv, Alone, ~overlapped', NEW t \in Tasks,
         \/ Enqueue(t) \/ CountTask(t) \/ CheckThreshold(t) \/ CheckCap(t) \/ CheckNone(t)
  PROVE  Alone'
<1>1. ~overlapped /\ workerCount' = workerCount /\ Room' = Room /\ workerCount \in Int /\ cap \in Int
  BY CapsAssumption DEF Enqueue, CountTask, CheckThreshold, CheckCap, CheckNone, counters, Room, Inv, GoTypeOK
<1>2. PICK p \in {"count", "threshold", "cap", "none", "inc", "done"} :
        /\ \A u \in Tasks : goPc'[u] = IF u = t THEN p ELSE goPc[u]
        /\ p = "inc" => workerCount < Room
  BY <1>1 DEF Enqueue, CountTask, CheckThreshold, CheckCap, CheckNone, Room, Inv, GoTypeOK
<1>3. \A u \in Tasks : goPc[u] \in Submitting => u = t
  BY <1>1 DEF Enqueue, CountTask, CheckThreshold, CheckCap, CheckNone, Alone, Submitting
<1>4. \A u \in Tasks : goPc'[u] \in Submitting => u = t
  BY <1>2, <1>3
<1>5. \A u \in Tasks : goPc'[u] = "inc" => workerCount < Room
  BY <1>1, <1>2 DEF Alone
<1>6. QED
  BY <1>1, <1>4, <1>5 DEF Alone

\* The worker is started, one runs out of work, or neither.
LEMMA OthersAlone ==
  ASSUME Inv, Alone, ~overlapped', NEW t \in Tasks,
         IncWorker(t) \/ Work(t)
  PROVE  Alone'
<1>1. ~overlapped /\ cap' = cap /\ Room' = Room /\ workerCount \in Int /\ Room \in Int
  BY CapsAssumption DEF IncWorker, Work, WorkerTakes, WorkerExits, TaskEnds, Room, Inv, GoTypeOK
<1>2. CASE IncWorker(t)
  <2>1. /\ workerCount < Room /\ workerCount' = workerCount + 1
        /\ \A u \in Tasks : goPc'[u] = IF u = t THEN "done" ELSE goPc[u]
        /\ \A u \in Tasks : goPc[u] \in Submitting => u = t
    BY <1>1, <1>2 DEF IncWorker, Alone, Inv, GoTypeOK, Submitting
  <2>2. \A u \in Tasks : goPc'[u] \notin Submitting /\ goPc'[u] # "inc"
    BY <2>1 DEF Submitting
  <2>3. QED
    BY <1>1, <2>1, <2>2 DEF Alone
<1>3. CASE ~IncWorker(t)
  <2>1. goPc' = goPc /\ workerCount' \in Int /\ workerCount' <= workerCount
    BY <1>1, <1>3 DEF Work, WorkerTakes, WorkerExits, TaskEnds, counters
  <2>2. QED
    BY <1>1, <2>1 DEF Alone
<1>4. QED
  BY <1>2, <1>3

\* Calls of CtxGo that come one after the other never start more workers than
\* the capacity allows, the first worker excepted (pool.go).
THEOREM OnlyOverlapOvershoots == GoSpec => []OvershootByOverlap
<1>1. GoInit => Alone
  BY CapsAssumption DEF GoInit, Alone, Room, Submitting
<1>2. ASSUME Inv, Alone, [GoNext]_goVars
      PROVE  Alone'
  <2>1. CASE overlapped'
    BY <2>1 DEF Alone
  <2>2. CASE ~overlapped'
    <3>1. ASSUME SetCap \/ UNCHANGED goVars
          PROVE  Alone'
      <4>1. UNCHANGED goVars
        BY <2>2, <3>1 DEF SetCap
      <4>2. QED
        BY <1>2, <4>1 DEF goVars, counters, Alone, Room
    <3>2. QED
      BY <1>2, <2>2, <3>1, SubmitAlone, OthersAlone DEF GoNext, Submit
  <2>3. QED
    BY <2>1, <2>2
<1>3. Alone => OvershootByOverlap
  BY DEF Alone, OvershootByOverlap, Room
<1>4. QED
  BY <1>1, <1>2, <1>3, Invariance, PTL DEF GoSpec

=============================================================================
