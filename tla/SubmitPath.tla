----------------------------- MODULE SubmitPath -----------------------------
(***************************************************************************)
(* The fire-and-forget submission path of the scheduler SDK:               *)
(* Client.EnqueueTask, the in-memory submitBuffer (L1), the on-disk        *)
(* submitSpool (L2) and the goroutine runBufferRetryLoop that resends what *)
(* they hold (pkg/scheduler/submit_buffer.go, submit_spool.go; New, Start  *)
(* and Stop of client.go as far as they touch this path).                  *)
(*                                                                         *)
(* Every task is submitted by a goroutine of its own; pc[t] is where that  *)
(* call of EnqueueTask stands and, once it has returned, what it returned: *)
(* "sent" (FALSE, nil), "queued" (TRUE, nil), "refused" (a permanent       *)
(* error), "full" (ErrLocalBufferFull), "dead" (the process died).  Calls  *)
(* that return before they touch any state (buffer disabled, empty         *)
(* JobName) are not steps of the model.                                    *)
(*                                                                         *)
(* Stop waits for the stream and for the handlers, never for the retry     *)
(* loop, and the loop reads c.rootCtx anew in every round: a loop that is  *)
(* still busy when the client is started again goes on next to the new     *)
(* one.  Hence a set of retry workers and not one.                         *)
(***************************************************************************)
EXTENDS Integers, FiniteSets, SequencesExt

CONSTANTS
  Tasks,        \* the tasks the application submits
  Size,         \* Size[t]: bytes of the JSON file of t
  Rejected,     \* the tasks the scheduler refuses with a permanent error
  Workers,      \* slots for goroutines that run runBufferRetryLoop
  Capacity,     \* Config.LocalBufferCapacity
  RetryBatch,   \* Config.LocalBufferRetryBatch
  Limits,       \* the values of LocalBufferDiskSpillMaxBytes in use
  Leftover,     \* files an earlier process may have left in the directory
  MaxNow,       \* bound on the clock value a restarted spool may read
  DiskFaults,   \* whether file operations may fail
  Nobody        \* no holder of submitSpool.mu

\* One JSON file of the spool: the number in its name and the task in it.
File == [seq : Nat, task : Tasks]

ASSUME SizeAssumption == Size \in [Tasks -> Nat \ {0}]
ASSUME RejectedAssumption == Rejected \subseteq Tasks
ASSUME CapacityAssumption == Capacity \in Nat \ {0}
ASSUME BatchAssumption == RetryBatch \in Nat \ {0}
ASSUME LimitsAssumption == Limits \subseteq Nat \ {0}
ASSUME LeftoverAssumption ==
  /\ Leftover \subseteq File
  /\ IsFiniteSet(Leftover)
  /\ \A f, g \in Leftover : f # g => f.seq # g.seq /\ f.task # g.task
ASSUME ClockAssumption == MaxNow \in Nat
ASSUME FaultsAssumption == DiskFaults \in BOOLEAN
ASSUME NobodyAssumption == Nobody \notin Tasks

VARIABLES
  phase,        \* "down" (no process), "new", "running", "stopped"
  up,           \* the scheduler answers
  pc,           \* EnqueueTask of each task
  queue,        \* submitBuffer.queue
  notify,       \* a token lies in submitBuffer.notify
  diskSpill,    \* c.localSpool is not nil
  maxBytes,     \* submitSpool.maxBytes
  files,        \* submitSpool.files
  currentBytes, \* submitSpool.currentBytes
  nextSeq,      \* submitSpool.nextSeq
  spoolLock,    \* the call of push that holds submitSpool.mu
  disk,         \* the .json files in the spool directory
  wAt,          \* where each retry worker stands
  wMem,         \* what is left of its batch from the queue
  wSpool,       \* what is left of its batch from the spool
  deliveries,   \* how often the scheduler took the task (2: twice or more)
  lostBy,       \* why a task that was held is held no more
  excused       \* tasks for which a second delivery has a cause

proc   == <<phase, diskSpill, maxBytes>>
buffer == <<queue, notify>>
index  == <<files, currentBytes, nextSeq>>
retry  == <<wAt, wMem, wSpool>>
ghost  == <<deliveries, lostBy, excused>>
vars   == <<proc, up, pc, buffer, index, spoolLock, disk, retry, ghost>>

CallPC == {"idle", "push", "spill", "evict",
           "sent", "queued", "refused", "full", "dead"}
Calling == {"push", "spill", "evict"}
WorkerPC == {"off", "select", "mem", "putback", "drain", "spool", "ack"}

\* The sum of the sizes of a sequence of files.
Bytes(s) == MapThenSumSet(LAMBDA f : Size[f.task], ToSet(s))

\* What is left of s without its first n elements.
DropFirst(s, n) == SubSeq(s, n + 1, Len(s))

TypeOK ==
  /\ phase \in {"down", "new", "running", "stopped"}
  /\ up \in BOOLEAN
  /\ pc \in [Tasks -> CallPC]
  /\ queue \in Seq(Tasks)
  /\ notify \in BOOLEAN
  /\ diskSpill \in BOOLEAN
  /\ maxBytes \in Limits
  /\ files \in Seq(File)
  /\ currentBytes \in Int
  /\ nextSeq \in Nat
  /\ spoolLock \in Tasks \cup {Nobody}
  /\ disk \in SUBSET File
  /\ IsFiniteSet(disk)
  /\ wAt \in [Workers -> WorkerPC]
  /\ wMem \in [Workers -> Seq(Tasks)]
  /\ wSpool \in [Workers -> Seq(File)]
  /\ deliveries \in [Tasks -> 0..2]
  /\ lostBy \in [Tasks -> {"no", "trimmed", "evicted", "crashed", "removed"}]
  /\ excused \in SUBSET Tasks
  /\ \A w \in Workers :
       /\ wMem[w] # << >> <=> wAt[w] \in {"mem", "putback"}
       /\ wSpool[w] # << >> <=> wAt[w] \in {"spool", "ack"}

\* No process runs; what an earlier one spilled lies in the directory.
Init ==
  /\ phase = "down"
  /\ up = TRUE
  /\ disk \in SUBSET Leftover
  /\ pc = [t \in Tasks |-> IF \E f \in disk : f.task = t THEN "queued" ELSE "idle"]
  /\ queue = << >>
  /\ notify = FALSE
  /\ diskSpill \in BOOLEAN
  /\ maxBytes \in Limits
  /\ files = << >>
  /\ currentBytes = 0
  /\ nextSeq = 0
  /\ spoolLock = Nobody
  /\ wAt = [w \in Workers |-> "off"]
  /\ wMem = [w \in Workers |-> << >>]
  /\ wSpool = [w \in Workers |-> << >>]
  /\ deliveries = [t \in Tasks |-> 0]
  /\ lostBy = [t \in Tasks |-> "no"]
  /\ excused = {}

-----------------------------------------------------------------------------
(* The call SubmitTask makes to the scheduler.  After Stop the connection  *)
(* is closed and the call fails with codes.Canceled, which is retriable.   *)

\* A retriable error may hide that the scheduler took the task: "lost".
Outcomes(t) ==
  IF phase = "running" /\ up
  THEN {IF t \in Rejected THEN "reject" ELSE "ok"}
  ELSE {"unreached"} \cup (IF phase = "running" THEN {"lost"} ELSE {})

isRetriableSubmitErr(r) == r \in {"unreached", "lost"}

\* What a call for t that ends with r does on the scheduler's side.
SchedulerTakes(t, r) ==
  /\ deliveries' = [deliveries EXCEPT ![t] =
       IF r \in {"ok", "lost"} /\ t \notin Rejected /\ @ < 2 THEN @ + 1 ELSE @]
  /\ excused' = IF r = "lost" THEN excused \cup {t} ELSE excused

\* A permanent refusal is recorded as nothing: the task is known to be bad.
Resolved(t) == deliveries[t] > 0 \/ t \in Rejected

-----------------------------------------------------------------------------
(* EnqueueTask.                                                            *)

\* EnqueueTask of a client that was started: the direct call; only a
\* connectivity error leads to the buffer.
SubmitDirect(t) ==
  /\ phase \in {"running", "stopped"}
  /\ pc[t] = "idle"
  /\ \E r \in Outcomes(t) :
       /\ SchedulerTakes(t, r)
       /\ pc' = [pc EXCEPT ![t] = CASE r = "ok"     -> "sent"
                                    [] r = "reject" -> "refused"
                                    [] isRetriableSubmitErr(r) -> "push"]
  /\ UNCHANGED <<proc, up, buffer, index, spoolLock, disk, retry, lostBy>>

\* enqueueBufferedTask: submitBuffer.push, and the way on when it is full.
\* Before Start there is no client to call and EnqueueTask begins here.
PushMem(t) ==
  /\ pc[t] = "push" \/ (pc[t] = "idle" /\ phase = "new")
  /\ \/ /\ Len(queue) < Capacity
        /\ queue' = Append(queue, t)
        /\ notify' = TRUE
        /\ pc' = [pc EXCEPT ![t] = "queued"]
     \/ /\ Len(queue) >= Capacity
        /\ pc' = [pc EXCEPT ![t] = IF diskSpill THEN "spill" ELSE "full"]
        /\ UNCHANGED buffer
  /\ UNCHANGED <<proc, up, index, spoolLock, disk, retry, ghost>>

\* submitSpool.push up to the first size check: the sequence number is used
\* up even when the task is refused.
SpillBegin(t) ==
  /\ pc[t] = "spill"
  /\ spoolLock = Nobody
  /\ nextSeq' = nextSeq + 1
  /\ \/ /\ Size[t] > maxBytes
        /\ pc' = [pc EXCEPT ![t] = "full"]
        /\ UNCHANGED spoolLock
     \/ /\ Size[t] <= maxBytes
        /\ spoolLock' = t
        /\ pc' = [pc EXCEPT ![t] = "evict"]
  /\ UNCHANGED <<proc, up, buffer, files, currentBytes, disk, retry, ghost>>

\* push returns an error; what was evicted before stays evicted.
SpillFails(t) ==
  /\ pc' = [pc EXCEPT ![t] = "full"]
  /\ spoolLock' = Nobody
  /\ UNCHANGED <<files, currentBytes, disk, lostBy>>

\* One turn of the loop that makes room by removing the oldest file.
SpillEvict(t) ==
  /\ pc[t] = "evict"
  /\ currentBytes + Size[t] > maxBytes
  /\ files # << >>
  /\ \/ /\ currentBytes' = currentBytes - Size[Head(files).task]
        /\ files' = Tail(files)
        /\ disk' = disk \ {Head(files)}
        /\ lostBy' = [lostBy EXCEPT ![Head(files).task] = "evicted"]
        /\ UNCHANGED <<pc, spoolLock>>
     \/ DiskFaults /\ SpillFails(t)
  /\ UNCHANGED <<proc, up, buffer, nextSeq, retry, deliveries, excused>>

\* The temporary file is written and renamed; only then is it in the index.
\* The holder of the lock took the number nextSeq - 1.
SpillWrite(t) ==
  /\ pc[t] = "evict"
  /\ currentBytes + Size[t] <= maxBytes \/ files = << >>
  /\ LET f == [seq |-> nextSeq - 1, task |-> t] IN
     \/ /\ currentBytes + Size[t] <= maxBytes
        /\ files' = Append(files, f)
        /\ disk' = disk \cup {f}
        /\ currentBytes' = currentBytes + Size[t]
        /\ pc' = [pc EXCEPT ![t] = "queued"]
        /\ spoolLock' = Nobody
        /\ UNCHANGED lostBy
     \/ (DiskFaults \/ currentBytes + Size[t] > maxBytes) /\ SpillFails(t)
  /\ UNCHANGED <<proc, up, buffer, nextSeq, retry, deliveries, excused>>

-----------------------------------------------------------------------------
(* The retry loop.                                                         *)

\* submitBuffer.drain: how many of n entries one round takes.
BatchOf(n) == IF RetryBatch > n THEN n ELSE RetryBatch

\* Fault: drain hands out copies and leaves the tasks in the queue.
WakeKeepsQueue(w) ==
  /\ wAt[w] = "select"
  /\ notify' \in {notify, FALSE}
  /\ LET n == BatchOf(Len(queue)) IN
     /\ wMem' = [wMem EXCEPT ![w] = SubSeq(queue, 1, n)]
     /\ wAt' = [wAt EXCEPT ![w] = IF n = 0 THEN "drain" ELSE "mem"]
  /\ UNCHANGED <<proc, up, pc, queue, index, spoolLock, disk, wSpool, ghost>>

\* The select of runBufferRetryLoop fires on the ticker or on notify (also
\* when rootCtx is done: select picks any ready case) and flushBufferOnce
\* drains the queue.
Wake(w) ==
  /\ wAt[w] = "select"
  /\ notify' \in {notify, FALSE}
  /\ LET n == BatchOf(Len(queue)) IN
     /\ wMem' = [wMem EXCEPT ![w] = SubSeq(queue, 1, n)]
     /\ queue' = DropFirst(queue, n)
     /\ wAt' = [wAt EXCEPT ![w] = IF n = 0 THEN "drain" ELSE "mem"]
  /\ UNCHANGED <<proc, up, pc, index, spoolLock, disk, wSpool, ghost>>

\* <-c.rootCtx.Done(): the loop returns.
RetryExit(w) ==
  /\ wAt[w] = "select"
  /\ phase = "stopped"
  /\ wAt' = [wAt EXCEPT ![w] = "off"]
  /\ UNCHANGED <<proc, up, pc, buffer, index, spoolLock, disk, wMem, wSpool, ghost>>

\* Fault: only the tasks after the one that failed are put back.
FlushMemForgetsFailed(w) ==
  /\ wAt[w] = "mem"
  /\ LET t == Head(wMem[w]) IN
     \E r \in Outcomes(t) :
       /\ SchedulerTakes(t, r)
       /\ wMem' = [wMem EXCEPT ![w] = Tail(@)]
       /\ wAt' = [wAt EXCEPT ![w] =
                    IF Tail(wMem[w]) = << >> THEN "drain"
                    ELSE IF isRetriableSubmitErr(r) THEN "putback" ELSE "mem"]
  /\ UNCHANGED <<proc, up, pc, buffer, index, spoolLock, disk, wSpool, lostBy>>

\* flushBufferOnce sends the next task of its batch; a permanent error
\* drops the task like a success does.
FlushMem(w) ==
  /\ wAt[w] = "mem"
  /\ LET t == Head(wMem[w]) IN
     \E r \in Outcomes(t) :
       /\ SchedulerTakes(t, r)
       /\ IF isRetriableSubmitErr(r)
          THEN /\ wAt' = [wAt EXCEPT ![w] = "putback"]
               /\ UNCHANGED wMem
          ELSE /\ wMem' = [wMem EXCEPT ![w] = Tail(@)]
               /\ wAt' = [wAt EXCEPT ![w] =
                            IF Tail(wMem[w]) = << >> THEN "drain" ELSE "mem"]
  /\ UNCHANGED <<proc, up, pc, buffer, index, spoolLock, disk, wSpool, lostBy>>

\* Fault: putBack without the protection of the capacity.
PutBackUnbounded(w) ==
  /\ wAt[w] = "putback"
  /\ queue' = wMem[w] \o queue
  /\ wMem' = [wMem EXCEPT ![w] = << >>]
  /\ wAt' = [wAt EXCEPT ![w] = "select"]
  /\ UNCHANGED <<proc, up, pc, notify, index, spoolLock, disk, wSpool, ghost>>

\* submitBuffer.putBack: failed and untried tasks go to the front, and what
\* exceeds the capacity is cut off at the front.
PutBack(w) ==
  /\ wAt[w] = "putback"
  /\ LET merged == wMem[w] \o queue
         over   == IF Len(merged) > Capacity THEN Len(merged) - Capacity ELSE 0
     IN /\ queue' = DropFirst(merged, over)
        /\ lostBy' = [t \in Tasks |->
             IF t \in ToSet(SubSeq(merged, 1, over)) THEN "trimmed" ELSE lostBy[t]]
  /\ wMem' = [wMem EXCEPT ![w] = << >>]
  /\ wAt' = [wAt EXCEPT ![w] = "select"]
  /\ UNCHANGED <<proc, up, pc, notify, index, spoolLock, disk, wSpool,
                 deliveries, excused>>

\* Tasks some other worker took from the spool and has not finished with.
HeldByOthers(w) == {f.task : f \in UNION {ToSet(wSpool[v]) : v \in Workers \ {w}}}

\* submitSpool.drain: a file of the batch that cannot be read fails it all.
DrainSpool(w) ==
  /\ wAt[w] = "drain"
  /\ spoolLock = Nobody
  /\ LET batch == SubSeq(files, 1, BatchOf(Len(files)))
         empty == ~diskSpill \/ batch = << >> \/ ~(ToSet(batch) \subseteq disk)
     IN /\ wSpool' = [wSpool EXCEPT ![w] = IF empty THEN << >> ELSE batch]
        /\ wAt' = [wAt EXCEPT ![w] = IF empty THEN "select" ELSE "spool"]
        /\ excused' = IF empty THEN excused
                      ELSE excused \cup ({f.task : f \in ToSet(batch)}
                                           \cap HeldByOthers(w))
  /\ UNCHANGED <<proc, up, pc, buffer, index, spoolLock, disk, wMem,
                 deliveries, lostBy>>

\* Fault: the file is acknowledged whatever the scheduler answers.
FlushSpoolAcksAll(w) ==
  /\ wAt[w] = "spool"
  /\ \E r \in Outcomes(Head(wSpool[w]).task) : SchedulerTakes(Head(wSpool[w]).task, r)
  /\ wAt' = [wAt EXCEPT ![w] = "ack"]
  /\ UNCHANGED <<proc, up, pc, buffer, index, spoolLock, disk, wMem, wSpool, lostBy>>

\* Fault: a round of the spool that met an error never ends.
FlushSpoolHangs(w) ==
  /\ wAt[w] = "spool"
  /\ \E r \in Outcomes(Head(wSpool[w]).task) :
       /\ SchedulerTakes(Head(wSpool[w]).task, r)
       /\ wAt' = [wAt EXCEPT ![w] = IF isRetriableSubmitErr(r) THEN "off" ELSE "ack"]
       /\ wSpool' = [wSpool EXCEPT ![w] = IF isRetriableSubmitErr(r) THEN << >> ELSE @]
  /\ UNCHANGED <<proc, up, pc, buffer, index, spoolLock, disk, wMem, lostBy>>

\* flushSpoolOnce sends the next file; a retriable error ends the round.
FlushSpool(w) ==
  /\ wAt[w] = "spool"
  /\ LET t == Head(wSpool[w]).task IN
     \E r \in Outcomes(t) :
       /\ SchedulerTakes(t, r)
       /\ IF isRetriableSubmitErr(r)
          THEN /\ wSpool' = [wSpool EXCEPT ![w] = << >>]
               /\ wAt' = [wAt EXCEPT ![w] = "select"]
          ELSE /\ wAt' = [wAt EXCEPT ![w] = "ack"]
               /\ UNCHANGED wSpool
  /\ UNCHANGED <<proc, up, pc, buffer, index, spoolLock, disk, wMem, lostBy>>

\* The rest of a round of the spool after an ack.
NextFile(w) ==
  /\ wSpool' = [wSpool EXCEPT ![w] = Tail(@)]
  /\ wAt' = [wAt EXCEPT ![w] = IF Tail(wSpool[w]) = << >> THEN "select" ELSE "spool"]
  /\ UNCHANGED <<proc, up, pc, buffer, nextSeq, spoolLock, wMem, deliveries, lostBy>>

\* Fault: the entry leaves the index although its file could not be removed.
AckForgetsFile(w) ==
  /\ wAt[w] = "ack"
  /\ spoolLock = Nobody
  /\ LET f == Head(wSpool[w]) IN
     /\ \E i \in DOMAIN files : files[i] = f /\ files' = RemoveAt(files, i)
     /\ currentBytes' = currentBytes - Size[f.task]
     /\ excused' = excused \cup {f.task}
  /\ UNCHANGED disk
  /\ NextFile(w)

\* Fault: the bytes are given back even if the entry is gone already.
AckTwice(w) ==
  /\ wAt[w] = "ack"
  /\ spoolLock = Nobody
  /\ LET f == Head(wSpool[w]) IN
     /\ IF f \in ToSet(files)
        THEN \E i \in DOMAIN files : files[i] = f /\ files' = RemoveAt(files, i)
        ELSE UNCHANGED files
     /\ disk' = disk \ {f}
     /\ currentBytes' = currentBytes - Size[f.task]
  /\ UNCHANGED excused
  /\ NextFile(w)

\* submitSpool.ack by sequence number; its error is ignored by the caller.
AckSpool(w) ==
  /\ wAt[w] = "ack"
  /\ spoolLock = Nobody
  /\ LET f     == Head(wSpool[w])
         found == {i \in DOMAIN files : files[i].seq = f.seq}
     IN \/ /\ found = {}
           /\ UNCHANGED <<files, disk, currentBytes, excused>>
        \/ \E i \in found :
             /\ files' = RemoveAt(files, i)
             /\ disk' = disk \ {files[i]}
             /\ currentBytes' = currentBytes - Size[files[i].task]
             /\ UNCHANGED excused
        \/ /\ DiskFaults
           /\ found # {}
           /\ excused' = excused \cup {f.task}
           /\ UNCHANGED <<files, disk, currentBytes>>
  /\ NextFile(w)

-----------------------------------------------------------------------------
(* The life of the client and its surroundings.                            *)

\* Start connects and starts one more retry loop.
Start ==
  /\ phase \in {"new", "stopped"}
  /\ \E w \in Workers :
       /\ wAt[w] = "off"
       /\ wAt' = [wAt EXCEPT ![w] = "select"]
  /\ phase' = "running"
  /\ UNCHANGED <<diskSpill, maxBytes, up, pc, buffer, index, spoolLock, disk,
                 wMem, wSpool, ghost>>

\* Stop cancels rootCtx and closes the connection; schedCli stays set.
Stop ==
  /\ phase = "running"
  /\ phase' = "stopped"
  /\ UNCHANGED <<diskSpill, maxBytes, up, pc, buffer, index, spoolLock, disk,
                 retry, ghost>>

InMemory(t) == t \in ToSet(queue) \/ \E w \in Workers : t \in ToSet(wMem[w])
OnDisk(t)   == \E f \in disk : f.task = t

\* The process dies: only the directory survives.  A push under way has
\* either renamed its file or left a .tmp file that no one reads.
Crash ==
  /\ phase # "down"
  /\ phase' = "down"
  /\ pc' = [t \in Tasks |-> IF pc[t] \in Calling THEN "dead" ELSE pc[t]]
  /\ lostBy' = [t \in Tasks |-> IF InMemory(t) THEN "crashed" ELSE lostBy[t]]
  /\ excused' = excused \cup {t \in Tasks : OnDisk(t) /\ deliveries[t] > 0}
  /\ queue' = << >>
  /\ notify' = FALSE
  /\ files' = << >>
  /\ currentBytes' = 0
  /\ spoolLock' = Nobody
  /\ wAt' = [w \in Workers |-> "off"]
  /\ wMem' = [w \in Workers |-> << >>]
  /\ wSpool' = [w \in Workers |-> << >>]
  /\ UNCHANGED <<diskSpill, maxBytes, up, nextSeq, disk, deliveries>>

\* The files of the directory in the order of their sequence numbers.
Orderings(S) ==
  {s \in [1..Cardinality(S) -> S] :
     /\ \A i, j \in DOMAIN s : i < j => s[i].seq < s[j].seq
     /\ ToSet(s) = S}

\* reloadLocked removes the oldest file while the rest exceeds the limit.
ExceedsBefore(s, limit, k) == \A j \in 0..(k - 1) : Bytes(DropFirst(s, j)) > limit

\* Fault: the numbers of the files found are not looked at.
maxSeqIgnored(s) == 0

\* The greatest sequence number of a directory, 0 when there is none.
maxSeq(s) == IF s = << >> THEN 0 ELSE s[Len(s)].seq

Removed(s, k) == {f.task : f \in ToSet(SubSeq(s, 1, k))}

\* New after a crash, perhaps with other settings; newSubmitSpool takes the
\* clock for its first sequence number unless a file has a greater one.
NewClient ==
  /\ phase = "down"
  /\ \E spill \in BOOLEAN, limit \in Limits :
       /\ diskSpill' = spill
       /\ maxBytes' = limit
       /\ \/ /\ ~spill
             /\ phase' = "new"
             /\ UNCHANGED <<index, disk, lostBy>>
          \/ /\ spill
             /\ \E s \in Orderings(disk), now \in 0..MaxNow :
                \E k \in 0..Len(s), total \in 0..limit :
                  /\ ExceedsBefore(s, limit, k)
                  /\ total = Bytes(DropFirst(s, k))
                  /\ nextSeq' = IF maxSeq(s) >= now THEN maxSeq(s) + 1 ELSE now
                  /\ files' = DropFirst(s, k)
                  /\ currentBytes' = total
                  /\ disk' = disk \ ToSet(SubSeq(s, 1, k))
                  /\ lostBy' = [t \in Tasks |->
                       IF t \in Removed(s, k) THEN "evicted" ELSE lostBy[t]]
             /\ phase' = "new"
          \/ \* the removal of the next file fails: New returns the error
             /\ spill
             /\ DiskFaults
             /\ \E s \in Orderings(disk) :
                \E k \in 0..Len(s) :
                  /\ ExceedsBefore(s, limit, k + 1)
                  /\ disk' = disk \ ToSet(SubSeq(s, 1, k))
                  /\ lostBy' = [t \in Tasks |->
                       IF t \in Removed(s, k) THEN "evicted" ELSE lostBy[t]]
             /\ UNCHANGED <<phase, index>>
  /\ UNCHANGED <<up, pc, buffer, spoolLock, retry, deliveries, excused>>

\* The scheduler goes away and comes back.
SchedulerFlips ==
  /\ up' = ~up
  /\ UNCHANGED <<proc, pc, buffer, index, spoolLock, disk, retry, ghost>>

\* Someone else removes a file: the default directory lies below
\* os.TempDir() and is shared by every client that does not name its own.
FileVanishes ==
  /\ DiskFaults
  /\ \E f \in disk :
       /\ disk' = disk \ {f}
       /\ lostBy' = [lostBy EXCEPT ![f.task] = "removed"]
  /\ UNCHANGED <<proc, up, pc, buffer, index, spoolLock, retry, deliveries, excused>>

Enqueuing(t) == \/ SubmitDirect(t) \/ PushMem(t) \/ SpillBegin(t)
                \/ SpillEvict(t) \/ SpillWrite(t)

Retrying(w) == \/ Wake(w) \/ RetryExit(w) \/ FlushMem(w) \/ PutBack(w)
               \/ DrainSpool(w) \/ FlushSpool(w) \/ AckSpool(w)

Next == \/ \E t \in Tasks : Enqueuing(t)
        \/ \E w \in Workers : Retrying(w)
        \/ Start \/ Stop \/ Crash \/ NewClient
        \/ SchedulerFlips \/ FileVanishes

Spec == Init /\ [][Next]_vars

\* Goroutines that can run do run, and the ticker keeps ticking; nothing is
\* assumed of the application, of the scheduler or of the disk.
FairSpec ==
  /\ Spec
  /\ \A t \in Tasks : WF_vars(pc[t] # "idle" /\ Enqueuing(t))
  /\ \A w \in Workers : WF_vars(Retrying(w))

-----------------------------------------------------------------------------
(* Properties.                                                             *)

\* EnqueueTask returned queued=true: from then on the task is in the queue,
\* in the batch of a retry worker, on disk or answered by the scheduler, or
\* it was lost at a point the code knows of (putBack over capacity, eviction
\* from the spool, death of the process, removal of the file by others).
Accounted(t) == InMemory(t) \/ OnDisk(t) \/ Resolved(t) \/ lostBy[t] # "no"
NoSilentLoss == \A t \in Tasks : pc[t] = "queued" => Accounted(t)

\* drain takes out of the queue what it hands to a worker and putBack returns
\* it: no task is held twice in memory, nor in memory and on disk, however
\* the workers and the callers of EnqueueTask interleave.
SingleCustody ==
  /\ IsInjective(queue)
  /\ \A w \in Workers : IsInjective(wMem[w])
  /\ \A w \in Workers : ToSet(wMem[w]) \cap ToSet(queue) = {}
  /\ \A v, w \in Workers : v # w => ToSet(wMem[v]) \cap ToSet(wMem[w]) = {}
  /\ \A t \in Tasks : InMemory(t) => ~OnDisk(t)

\* A task reaches the scheduler a second time only if there was a cause: the
\* reply to the first call was lost, its file could not be removed, the
\* process died between the reply and the removal, or two retry loops had
\* read the same file.
TwiceOnlyIfExcused == \A t \in Tasks : deliveries[t] = 2 => t \in excused

\* The queue keeps its bound although putBack returns a batch that callers
\* may have replaced meanwhile, and the spool keeps its byte budget, also
\* when the budget shrinks at a restart.
WithinBudget ==
  /\ Len(queue) <= Capacity
  /\ currentBytes <= maxBytes

\* The running total of the spool is the size of the files of its index,
\* although an ack may come for a file that push has evicted meanwhile.
BytesMatchIndex == currentBytes = Bytes(files)

\* The index of a running client lists every file of the directory in the
\* order of the sequence numbers, all of them below the next one: a file
\* that is not listed would be neither replayed nor evicted.
Increasing(s) == \A i, j \in DOMAIN s : i < j => s[i].seq < s[j].seq
IndexCoversDisk ==
  phase # "down" /\ diskSpill =>
    /\ Increasing(files)
    /\ \A i \in DOMAIN files : files[i].seq < nextSeq
    /\ disk \subseteq ToSet(files)

\* A task leaves the disk only when the scheduler has answered for it, when
\* it is evicted for space or when others remove it; never by a crash.
SpoolDurable ==
  [][\A t \in Tasks : OnDisk(t) /\ ~OnDisk(t)' =>
       Resolved(t)' \/ lostBy'[t] \in {"evicted", "removed"}]_vars

\* A file that appears has a greater number than every file on disk, also
\* after a restart with a clock that went back: replay is in push order.
SpoolFIFO ==
  [][\A f \in disk' \ disk : \A g \in disk : g.seq < f.seq]_vars

\* Once the scheduler stays up and the client stays started with its spool,
\* every queued task is answered or was lost at a known point: the retry
\* loop comes to an end of the memory queue and then of the spool.
EventuallyResent ==
  <>[](up /\ phase = "running" /\ diskSpill) =>
     \A t \in Tasks :
       pc[t] = "queued" ~> Resolved(t) \/ lostBy[t] # "no"

\* What the comments of EnqueueTask and LocalBufferDiskSpillEnabled say: with
\* the disk spill on, a task that finds the memory full goes to disk, and an
\* outage of the scheduler loses no task.
OutageLosesNothing ==
  diskSpill => \A t \in Tasks : lostBy[t] # "trimmed"

=============================================================================
