-------------------------- MODULE SubmitPathProofs --------------------------
(***************************************************************************)
(* Theorems about SubmitPath, for every set of tasks and of retry workers  *)
(* and every capacity, batch size and byte limit.                          *)
(***************************************************************************)
EXTENDS SubmitPath, SequenceLemmas, FiniteSetTheorems

-----------------------------------------------------------------------------
(* Type correctness.                                                       *)

\* A batch is never longer than what it is taken from.
LEMMA BatchBound ==
  ASSUME NEW n \in Nat
  PROVE  /\ BatchOf(n) \in 0..n
         /\ BatchOf(n) = 0 <=> n = 0
BY BatchAssumption DEF BatchOf

\* The part of a sequence that follows its first n elements.
LEMMA DropFirstType ==
  ASSUME NEW S, NEW s \in Seq(S), NEW n \in 0..Len(s)
  PROVE  /\ SubSeq(s, 1, n) \in Seq(S)
         /\ DropFirst(s, n) \in Seq(S)
         /\ Len(SubSeq(s, 1, n)) = n
         /\ Len(DropFirst(s, n)) = Len(s) - n
         /\ \A i \in 1..n : SubSeq(s, 1, n)[i] = s[i]
         /\ \A i \in 1..(Len(s) - n) : DropFirst(s, n)[i] = s[n + i]
         /\ ToSet(s) = ToSet(SubSeq(s, 1, n)) \cup ToSet(DropFirst(s, n))
BY ElemsSplit DEF DropFirst

\* Any two steps of the scheduler keep the types of what it records.
LEMMA TakesType ==
  ASSUME TypeOK, NEW t \in Tasks, NEW r, SchedulerTakes(t, r)
  PROVE  deliveries' \in [Tasks -> 0..2] /\ excused' \in SUBSET Tasks
BY DEF TypeOK, SchedulerTakes

\* Removing an element at i leaves a sequence.
LEMMA RemoveAtType ==
  ASSUME NEW S, NEW s \in Seq(S), NEW i \in 1..Len(s)
  PROVE  RemoveAt(s, i) \in Seq(S)
<1>1. Len(s) \in Nat
  BY LenProperties
<1>2. SubSeq(s, 1, i - 1) \in Seq(S)
  BY <1>1, i - 1 \in 0..Len(s), ElemsSplit
<1>3. SubSeq(s, i + 1, Len(s)) \in Seq(S)
  BY <1>1, i \in 0..Len(s), ElemsSplit
<1>4. QED
  BY <1>2, <1>3, ConcatProperties DEF RemoveAt

-----------------------------------------------------------------------------
(* The inductive invariant.                                                *)

\* A dead process has no calls and no workers, and without the spool nobody
\* is in it.
Quiet ==
  /\ phase = "down" =>
       /\ \A t \in Tasks : pc[t] \notin Calling
       /\ \A w \in Workers : wAt[w] = "off"
       /\ currentBytes = 0
       /\ files = << >>
  /\ ~diskSpill =>
       /\ \A t \in Tasks : pc[t] \notin {"spill", "evict"}
       /\ files = << >>

\* The lock has one holder, which has taken a sequence number.
Locked ==
  /\ \A t \in Tasks : pc[t] = "evict" => spoolLock = t
  /\ spoolLock # Nobody => nextSeq > 0 /\ phase # "down"

\* The numbers below Fresh may be in use, the others are not.
Fresh == IF spoolLock = Nobody THEN nextSeq ELSE nextSeq - 1

Ordered ==
  /\ Increasing(files)
  /\ \A f \in ToSet(files) : f.seq < Fresh

\* The index lists the whole directory.
Covered == phase # "down" /\ diskSpill => disk \subseteq ToSet(files)

\* What a worker took from the spool is still what the index has under that
\* number, although others may have evicted it and pushed more.
Batched ==
  \A w \in Workers : \A f \in ToSet(wSpool[w]) :
    /\ f.seq < Fresh
    /\ \A g \in ToSet(files) : g.seq = f.seq => g = f

\* An ack is only under way for a task the scheduler has answered for.
Answered == \A w \in Workers : wAt[w] = "ack" => Resolved(Head(wSpool[w]).task)

Inv == /\ TypeOK /\ Quiet /\ Locked /\ Ordered /\ Covered /\ Batched
       /\ Answered /\ WithinBudget /\ NoSilentLoss

\* A fresh installation satisfies the invariant.
LEMMA InitInv == Init => Inv
<1> SUFFICES ASSUME Init PROVE Inv
  OBVIOUS
<1>1. disk \in SUBSET File /\ IsFiniteSet(disk)
  BY LeftoverAssumption, FS_Subset DEF Init
<1>2. TypeOK
  <2>1. /\ pc \in [Tasks -> CallPC]
        /\ wAt \in [Workers -> WorkerPC]
        /\ wMem \in [Workers -> Seq(Tasks)]
        /\ wSpool \in [Workers -> Seq(File)]
        /\ deliveries \in [Tasks -> 0..2]
        /\ lostBy \in [Tasks -> {"no", "trimmed", "evicted", "crashed", "removed"}]
    BY DEF Init, CallPC, WorkerPC
  <2>2. \A w \in Workers :
          /\ wMem[w] # << >> <=> wAt[w] \in {"mem", "putback"}
          /\ wSpool[w] # << >> <=> wAt[w] \in {"spool", "ack"}
    BY DEF Init
  <2>3. phase \in {"down", "new", "running", "stopped"} /\ up \in BOOLEAN
        /\ notify \in BOOLEAN
    BY DEF Init
  <2>4. QED
    BY <1>1, <2>1, <2>2, <2>3 DEF Init, TypeOK
<1>3. Quiet /\ Locked /\ Covered /\ Answered
  <2>1. Quiet
    BY DEF Init, Quiet, Calling
  <2>2. \A t \in Tasks : pc[t] \in {"idle", "queued"}
    BY DEF Init
  <2>3. Locked
    BY <2>2 DEF Init, Locked
  <2>4. Covered
    BY DEF Init, Covered
  <2>5. Answered
    BY DEF Init, Answered
  <2>6. QED
    BY <2>1, <2>3, <2>4, <2>5
<1>4. Ordered /\ Batched
  BY DEF Init, Ordered, Batched, Increasing, ToSet
<1>5. WithinBudget
  BY CapacityAssumption, LimitsAssumption DEF Init, WithinBudget
<1>6. NoSilentLoss
  BY DEF Init, NoSilentLoss, Accounted, OnDisk
<1>7. QED
  BY <1>2, <1>3, <1>4, <1>5, <1>6 DEF Inv

\* A step that leaves the spool and its users alone, and adds neither calls
\* nor workers to a dead process, keeps the parts about the spool.
LEMMA SpoolUntouched ==
  ASSUME Inv, TypeOK',
         UNCHANGED <<phase, diskSpill, maxBytes, files, currentBytes, nextSeq,
                     spoolLock, wSpool>>,
         disk' \subseteq disk,
         phase = "down" => UNCHANGED <<pc, wAt>>,
         \A t \in Tasks : pc'[t] = "evict" => pc[t] = "evict",
         ~diskSpill => \A t \in Tasks : pc'[t] = "spill" => pc[t] = "spill"
  PROVE  Quiet' /\ Locked' /\ Ordered' /\ Covered' /\ Batched'
<1>1. Quiet'
  BY DEF Inv, Quiet, Calling
<1>2. Locked'
  BY DEF Inv, Locked
<1>3. Ordered'
  BY DEF Inv, Ordered, Fresh, Increasing
<1>4. Covered'
  BY DEF Inv, Covered
<1>5. Batched'
  BY DEF Inv, Batched, Fresh
<1>6. QED
  BY <1>1, <1>2, <1>3, <1>4, <1>5

\* The scheduler forgets no delivery, and after a final answer the task is
\* resolved.
LEMMA TakesResolve ==
  ASSUME TypeOK, NEW t \in Tasks, NEW r \in Outcomes(t), SchedulerTakes(t, r)
  PROVE  /\ deliveries' \in [Tasks -> 0..2]
         /\ excused' \in SUBSET Tasks
         /\ r \in {"ok", "reject", "unreached", "lost"}
         /\ \A u \in Tasks : Resolved(u) => Resolved(u)'
         /\ ~isRetriableSubmitErr(r) => Resolved(t)'
<1>1. /\ r \in {"ok", "reject", "unreached", "lost"}
      /\ r = "ok" => t \notin Rejected
      /\ r = "reject" => t \in Rejected
  BY DEF Outcomes
<1>2. /\ deliveries' \in [Tasks -> 0..2]
      /\ excused' \in SUBSET Tasks
      /\ \A u \in Tasks : deliveries[u] > 0 => deliveries'[u] > 0
      /\ r = "ok" => deliveries'[t] > 0
  BY <1>1 DEF TypeOK, SchedulerTakes
<1>3. QED
  BY <1>1, <1>2 DEF Resolved, isRetriableSubmitErr

\* Where a task may be when a step moved it.
LEMMA AccountsKept ==
  ASSUME TypeOK, NoSilentLoss,
         \A t \in Tasks : pc'[t] = "queued" =>
           \/ pc[t] = "queued" /\ (Accounted(t) => Accounted(t)')
           \/ Accounted(t)'
  PROVE  NoSilentLoss'
BY DEF NoSilentLoss

-----------------------------------------------------------------------------
(* EnqueueTask keeps the invariant.                                        *)

\* What the index and the batches hold are files.
LEMMA FilesListed ==
  ASSUME TypeOK
  PROVE  /\ \A f \in ToSet(files) : f \in File /\ f.seq \in Nat /\ f.task \in Tasks
         /\ \A w \in Workers : \A f \in ToSet(wSpool[w]) :
              f \in File /\ f.seq \in Nat /\ f.task \in Tasks
<1>1. ToSet(files) \subseteq File
  BY ElemsType DEF TypeOK
<1>2. \A w \in Workers : ToSet(wSpool[w]) \subseteq File
  <2>1. ASSUME NEW w \in Workers PROVE wSpool[w] \in Seq(File)
    BY DEF TypeOK
  <2>2. QED
    BY <2>1, ElemsType
<1>3. \A f \in File : f.seq \in Nat /\ f.task \in Tasks
  BY DEF File
<1>4. QED
  BY <1>1, <1>2, <1>3

\* The file a worker is about to send or to acknowledge.
LEMMA HeadOfBatch ==
  ASSUME TypeOK, NEW w \in Workers, wAt[w] \in {"spool", "ack"}
  PROVE  /\ Head(wSpool[w]) \in ToSet(wSpool[w])
         /\ Head(wSpool[w]) \in File
         /\ Head(wSpool[w]).task \in Tasks
         /\ Tail(wSpool[w]) \in Seq(File)
         /\ ToSet(Tail(wSpool[w])) \subseteq ToSet(wSpool[w])
<1>1. wSpool[w] \in Seq(File) /\ wSpool[w] # << >>
  BY DEF TypeOK
<1>2. /\ Head(wSpool[w]) \in File
      /\ Tail(wSpool[w]) \in Seq(File)
      /\ ToSet(wSpool[w]) = ToSet(Tail(wSpool[w])) \cup {Head(wSpool[w])}
  BY <1>1, ElemsHeadTail
<1>3. QED
  BY <1>2 DEF File

\* A step of the scheduler that moves no worker keeps the acks answered.
LEMMA AnsweredKept ==
  ASSUME TypeOK, Answered, UNCHANGED wSpool,
         \A w \in Workers : wAt'[w] = "ack" => wAt[w] = "ack",
         \A u \in Tasks : Resolved(u) => Resolved(u)'
  PROVE  Answered'
<1> SUFFICES ASSUME NEW w \in Workers, wAt'[w] = "ack"
             PROVE  Resolved(Head(wSpool[w]).task)'
  BY DEF Answered
<1>1. wAt[w] = "ack" /\ Resolved(Head(wSpool[w]).task)
  BY DEF Answered
<1>2. Head(wSpool[w]).task \in Tasks
  BY <1>1, HeadOfBatch
<1>3. QED
  BY <1>1, <1>2

\* The direct call of EnqueueTask.
LEMMA SubmitDirectInv ==
  ASSUME Inv, NEW t \in Tasks, SubmitDirect(t)
  PROVE  Inv'
<1>0. TypeOK /\ NoSilentLoss
  BY DEF Inv
<1>1. PICK r \in Outcomes(t) :
        /\ SchedulerTakes(t, r)
        /\ pc' = [pc EXCEPT ![t] = CASE r = "ok"     -> "sent"
                                     [] r = "reject" -> "refused"
                                     [] isRetriableSubmitErr(r) -> "push"]
  BY DEF SubmitDirect
<1>2. /\ deliveries' \in [Tasks -> 0..2]
      /\ excused' \in SUBSET Tasks
      /\ r \in {"ok", "reject", "unreached", "lost"}
      /\ \A u \in Tasks : Resolved(u) => Resolved(u)'
  BY <1>0, <1>1, TakesResolve
<1>3. /\ pc' \in [Tasks -> CallPC]
      /\ \A u \in Tasks : pc'[u] # pc[u] =>
           u = t /\ pc'[u] \in {"sent", "refused", "push"}
  BY <1>0, <1>1, <1>2 DEF TypeOK, isRetriableSubmitErr, CallPC
<1>4. /\ UNCHANGED <<proc, up, buffer, index, spoolLock, disk, retry, lostBy>>
      /\ phase # "down"
  BY DEF SubmitDirect
<1>5. TypeOK'
  BY <1>0, <1>2, <1>3, <1>4 DEF TypeOK, proc, buffer, index, retry
<1>6. Quiet' /\ Locked' /\ Ordered' /\ Covered' /\ Batched'
  BY <1>3, <1>4, <1>5, SpoolUntouched DEF proc, index, retry
<1>7. Answered'
  BY <1>0, <1>2, <1>4, AnsweredKept DEF Inv, retry
<1>8. WithinBudget'
  BY <1>4 DEF Inv, WithinBudget, proc, buffer, index
<1>9. NoSilentLoss'
  <2>1. \A u \in Tasks : Accounted(u) => Accounted(u)'
    BY <1>2, <1>4 DEF Accounted, InMemory, OnDisk, buffer, retry
  <2>2. QED
    BY <2>1, <1>0, <1>3, AccountsKept
<1>10. QED
  BY <1>5, <1>6, <1>7, <1>8, <1>9 DEF Inv

\* submitBuffer.push: a queued task is in the queue.
LEMMA PushMemInv ==
  ASSUME Inv, NEW t \in Tasks, PushMem(t)
  PROVE  Inv'
<1>0. TypeOK /\ NoSilentLoss /\ Answered
  BY DEF Inv
<1>1. UNCHANGED <<proc, up, index, spoolLock, disk, retry, ghost>>
  BY DEF PushMem
<1>2. phase # "down"
  BY DEF PushMem, Inv, Quiet, Calling
<1>3. /\ pc' \in [Tasks -> CallPC]
      /\ \A u \in Tasks : pc'[u] # pc[u] =>
           u = t /\ pc'[u] \in {"queued", "spill", "full"}
      /\ ~diskSpill => pc'[t] # "spill"
  BY <1>0 DEF TypeOK, PushMem, CallPC
<1>4. /\ queue' \in Seq(Tasks) /\ notify' \in BOOLEAN
      /\ Len(queue') <= Capacity
      /\ ToSet(queue) \subseteq ToSet(queue')
      /\ pc'[t] = "queued" => t \in ToSet(queue')
  <2>1. queue \in Seq(Tasks) /\ Len(queue) \in Nat /\ notify \in BOOLEAN
    BY <1>0 DEF TypeOK
  <2>2. CASE Len(queue) < Capacity /\ queue' = Append(queue, t) /\ notify' = TRUE
    BY <2>1, <2>2, ElemsAppend, CapacityAssumption
  <2>3. CASE UNCHANGED buffer /\ pc' = [pc EXCEPT ![t] = IF diskSpill THEN "spill" ELSE "full"]
    <3>1. pc'[t] # "queued"
      BY <1>0, <2>3 DEF TypeOK
    <3>2. QED
      BY <2>1, <2>3, <3>1 DEF buffer, Inv, WithinBudget
  <2>4. QED
    BY <2>2, <2>3 DEF PushMem
<1>5. TypeOK'
  BY <1>0, <1>1, <1>3, <1>4 DEF TypeOK, proc, index, retry, ghost
<1>6. Quiet' /\ Locked' /\ Ordered' /\ Covered' /\ Batched'
  BY <1>1, <1>2, <1>3, <1>5, SpoolUntouched DEF proc, index, retry
<1>7. Answered'
  BY <1>0, <1>1, AnsweredKept DEF retry, ghost, Resolved
<1>8. WithinBudget'
  BY <1>1, <1>4 DEF Inv, WithinBudget, proc, index
<1>9. NoSilentLoss'
  <2>1. \A u \in Tasks : Accounted(u) => Accounted(u)'
    BY <1>1, <1>4 DEF Accounted, InMemory, OnDisk, Resolved, retry, ghost
  <2>2. pc'[t] = "queued" => Accounted(t)'
    BY <1>4 DEF Accounted, InMemory
  <2>3. QED
    BY <2>1, <2>2, <1>0, <1>3, AccountsKept
<1>10. QED
  BY <1>5, <1>6, <1>7, <1>8, <1>9 DEF Inv

\* submitSpool.push takes its number and the lock.
LEMMA SpillBeginInv ==
  ASSUME Inv, NEW t \in Tasks, SpillBegin(t)
  PROVE  Inv'
<1>0. TypeOK /\ NoSilentLoss /\ Answered
  BY DEF Inv
<1>1. /\ UNCHANGED <<proc, up, buffer, files, currentBytes, disk, retry, ghost>>
      /\ nextSeq' = nextSeq + 1
      /\ spoolLock = Nobody
      /\ pc[t] = "spill"
  BY DEF SpillBegin
<1>2. phase # "down" /\ diskSpill
  BY <1>0, <1>1 DEF Inv, Quiet, Calling, TypeOK
<1>3. /\ pc' \in [Tasks -> CallPC]
      /\ \A u \in Tasks : pc'[u] # pc[u] => u = t /\ pc'[u] \in {"evict", "full"}
      /\ \A u \in Tasks : pc'[u] = "evict" /\ u = t => spoolLock' = t
      /\ spoolLock' \in {t, Nobody}
  BY <1>0, <1>1 DEF TypeOK, SpillBegin, CallPC
<1>4. \A u \in Tasks : pc[u] # "evict"
  BY <1>1, NobodyAssumption DEF Inv, Locked
<1>5. TypeOK'
  BY <1>0, <1>1, <1>3 DEF TypeOK, proc, buffer, retry, ghost
<1>6. Quiet'
  BY <1>1, <1>2 DEF Inv, Quiet, proc
<1>7. Locked'
  BY <1>0, <1>1, <1>2, <1>3, <1>4 DEF Locked, TypeOK, proc
<1>8. Fresh' \in Int /\ Fresh \in Int /\ Fresh <= Fresh'
  BY <1>0, <1>1 DEF Fresh, TypeOK
<1>9. Ordered'
  <2>1. \A f \in ToSet(files) : f.seq \in Nat
    BY <1>0, FilesListed
  <2>2. QED
    BY <1>1, <1>8, <2>1 DEF Inv, Ordered, Increasing
<1>10. Covered'
  BY <1>1 DEF Inv, Covered, proc
<1>11. Batched'
  <2>1. \A w \in Workers : \A f \in ToSet(wSpool[w]) : f.seq \in Nat
    BY <1>0, FilesListed
  <2>2. QED
    BY <1>1, <1>8, <2>1 DEF Inv, Batched, retry
<1>12. Answered'
  BY <1>0, <1>1, AnsweredKept DEF retry, ghost, Resolved
<1>13. WithinBudget'
  BY <1>1 DEF Inv, WithinBudget, proc, buffer
<1>14. NoSilentLoss'
  <2>1. \A u \in Tasks : Accounted(u) => Accounted(u)'
    BY <1>1 DEF Accounted, InMemory, OnDisk, Resolved, buffer, retry, ghost
  <2>2. QED
    BY <2>1, <1>0, <1>3, AccountsKept
<1>15. QED
  BY <1>5, <1>6, <1>7, <1>9, <1>10, <1>11, <1>12, <1>13, <1>14 DEF Inv

\* A push that returns an error leaves the spool as it is.
LEMMA SpillFailsInv ==
  ASSUME Inv, NEW t \in Tasks, pc[t] = "evict", SpillFails(t),
         UNCHANGED <<proc, up, buffer, nextSeq, retry, deliveries, excused>>
  PROVE  Inv'
<1>0. TypeOK /\ NoSilentLoss /\ Answered
  BY DEF Inv
<1>1. /\ UNCHANGED <<files, currentBytes, disk, lostBy>>
      /\ spoolLock' = Nobody
      /\ spoolLock = t
      /\ pc' \in [Tasks -> CallPC]
      /\ \A u \in Tasks : pc'[u] # pc[u] => u = t /\ pc'[u] = "full"
  BY <1>0 DEF SpillFails, Inv, Locked, TypeOK, CallPC
<1>2. phase # "down"
  BY DEF Inv, Quiet, Calling
<1>3. TypeOK'
  BY <1>0, <1>1 DEF TypeOK, proc, buffer, retry
<1>4. Quiet'
  BY <1>1, <1>2 DEF Inv, Quiet, proc
<1>5. Locked'
  <2>1. \A u \in Tasks : pc[u] = "evict" => u = t
    BY <1>1 DEF Inv, Locked
  <2>2. pc'[t] # "evict"
    BY <1>0 DEF SpillFails, TypeOK
  <2>3. QED
    BY <1>1, <2>1, <2>2 DEF Locked
<1>6. Fresh' \in Int /\ Fresh \in Int /\ Fresh <= Fresh'
  BY <1>0, <1>1, NobodyAssumption DEF Fresh, TypeOK
<1>7. Ordered'
  <2>1. \A f \in ToSet(files) : f.seq \in Nat
    BY <1>0, FilesListed
  <2>2. QED
    BY <1>1, <1>6, <2>1 DEF Inv, Ordered, Increasing
<1>8. Covered'
  BY <1>1 DEF Inv, Covered, proc
<1>9. Batched'
  <2>1. \A w \in Workers : \A f \in ToSet(wSpool[w]) : f.seq \in Nat
    BY <1>0, FilesListed
  <2>2. QED
    BY <1>1, <1>6, <2>1 DEF Inv, Batched, retry
<1>10. Answered'
  BY <1>0, AnsweredKept DEF retry, Resolved
<1>11. WithinBudget'
  BY <1>1 DEF Inv, WithinBudget, proc, buffer
<1>12. NoSilentLoss'
  <2>1. \A u \in Tasks : Accounted(u) => Accounted(u)'
    BY <1>1 DEF Accounted, InMemory, OnDisk, Resolved, buffer, retry
  <2>2. QED
    BY <2>1, <1>0, <1>1, AccountsKept
<1>13. QED
  BY <1>3, <1>4, <1>5, <1>7, <1>8, <1>9, <1>10, <1>11, <1>12 DEF Inv

\* Cutting off the oldest files keeps the order.
LEMMA IncreasingDrop ==
  ASSUME NEW s \in Seq(File), Increasing(s), NEW n \in 0..Len(s)
  PROVE  Increasing(DropFirst(s, n))
<1> DEFINE d == DropFirst(s, n)
<1>1. /\ d \in Seq(File) /\ Len(d) = Len(s) - n /\ Len(s) \in Nat
      /\ \A i \in 1..(Len(s) - n) : d[i] = s[n + i]
  BY DropFirstType, LenProperties
<1> HIDE DEF d
<1>2. DOMAIN d = 1..(Len(s) - n) /\ DOMAIN s = 1..Len(s)
  BY <1>1, LenProperties
<1>3. ASSUME NEW i \in DOMAIN d, NEW j \in DOMAIN d, i < j
      PROVE  d[i].seq < d[j].seq
  <2>1. n + i \in DOMAIN s /\ n + j \in DOMAIN s /\ n + i < n + j
    BY <1>1, <1>2, <1>3
  <2>2. d[i] = s[n + i] /\ d[j] = s[n + j]
    BY <1>1, <1>2
  <2>3. QED
    BY <2>1, <2>2 DEF Increasing
<1>4. Increasing(d)
  BY <1>3 DEF Increasing
<1>5. QED
  BY <1>4 DEF d

\* So does dropping the head of the index.
LEMMA IncreasingTail ==
  ASSUME NEW s \in Seq(File), s # << >>, Increasing(s)
  PROVE  Increasing(Tail(s)) /\ ToSet(Tail(s)) = ToSet(s) \ {Head(s)}
<1> DEFINE d == Tail(s)
<1>1. /\ d \in Seq(File) /\ Len(d) = Len(s) - 1 /\ Len(s) \in Nat \ {0}
      /\ \A i \in 1..Len(d) : d[i] = s[i + 1]
      /\ Head(s) = s[1]
      /\ ToSet(s) = ToSet(d) \cup {Head(s)}
  BY HeadTailProperties, ElemsHeadTail, EmptySeq
<1> HIDE DEF d
<1>2. DOMAIN d = 1..(Len(s) - 1) /\ DOMAIN s = 1..Len(s)
  BY <1>1, LenProperties
<1>3. ASSUME NEW i \in DOMAIN d, NEW j \in DOMAIN d, i < j
      PROVE  d[i].seq < d[j].seq
  <2>1. i + 1 \in DOMAIN s /\ j + 1 \in DOMAIN s /\ i + 1 < j + 1
    BY <1>1, <1>2, <1>3
  <2>2. QED
    BY <1>1, <1>2, <2>1 DEF Increasing
<1>4. Head(s) \notin ToSet(d)
  <2>1. ASSUME NEW i \in DOMAIN d, d[i] = Head(s) PROVE FALSE
    <3>1. i + 1 \in DOMAIN s /\ 1 \in DOMAIN s /\ 1 < i + 1
      BY <1>1, <1>2
    <3>2. s[1].seq < s[i + 1].seq /\ s[i + 1] = s[1]
      BY <1>1, <1>2, <2>1, <3>1 DEF Increasing
    <3>3. s[1].seq \in Nat
      <4>1. s[1] \in File
        BY <3>1, <1>2, ElementOfSeq
      <4>2. QED
        BY <4>1 DEF File
    <3>4. QED
      BY <3>2, <3>3
  <2>2. QED
    BY <2>1 DEF ToSet
<1>5. Increasing(d) /\ ToSet(d) = ToSet(s) \ {Head(s)}
  BY <1>1, <1>3, <1>4 DEF Increasing
<1>6. QED
  BY <1>5 DEF d

\* A new file with a number that is not in use goes to the end.
LEMMA IncreasingAppend ==
  ASSUME NEW s \in Seq(File), Increasing(s), NEW f \in File,
         \A g \in ToSet(s) : g.seq < f.seq
  PROVE  Increasing(Append(s, f))
<1> DEFINE d == Append(s, f)
<1>1. /\ d \in Seq(File) /\ Len(d) = Len(s) + 1 /\ Len(s) \in Nat
      /\ \A i \in 1..Len(s) : d[i] = s[i]
      /\ d[Len(s) + 1] = f
  BY AppendProperties, LenProperties
<1> HIDE DEF d
<1>2. DOMAIN d = 1..(Len(s) + 1) /\ DOMAIN s = 1..Len(s)
  BY <1>1, LenProperties
<1>3. ASSUME NEW i \in DOMAIN d, NEW j \in DOMAIN d, i < j
      PROVE  d[i].seq < d[j].seq
  <2>1. i \in DOMAIN s /\ d[i] = s[i]
    BY <1>1, <1>2, <1>3
  <2>2. CASE j \in DOMAIN s
    BY <1>1, <1>2, <1>3, <2>1, <2>2 DEF Increasing
  <2>3. CASE j = Len(s) + 1
    BY <1>1, <2>1, <2>3 DEF ToSet
  <2>4. QED
    BY <1>1, <1>2, <2>2, <2>3
<1>4. Increasing(d)
  BY <1>3 DEF Increasing
<1>5. QED
  BY <1>4 DEF d

\* Taking one file out of the middle keeps the order and the other files.
LEMMA IncreasingRemove ==
  ASSUME NEW s \in Seq(File), Increasing(s), NEW k \in DOMAIN s
  PROVE  /\ RemoveAt(s, k) \in Seq(File)
         /\ Increasing(RemoveAt(s, k))
         /\ ToSet(RemoveAt(s, k)) \subseteq ToSet(s)
         /\ ToSet(s) \subseteq ToSet(RemoveAt(s, k)) \cup {s[k]}
<1> DEFINE a == SubSeq(s, 1, k - 1)
           b == SubSeq(s, k + 1, Len(s))
           d == RemoveAt(s, k)
<1>1. Len(s) \in Nat /\ DOMAIN s = 1..Len(s) /\ k \in 1..Len(s)
  BY LenProperties
<1>2. /\ a \in Seq(File) /\ Len(a) = k - 1
      /\ \A i \in 1..(k - 1) : a[i] = s[i]
  BY <1>1, k - 1 \in 0..Len(s), ElemsSplit
<1>3. /\ b \in Seq(File) /\ Len(b) = Len(s) - k
      /\ \A i \in 1..(Len(s) - k) : b[i] = s[k + i]
  BY <1>1, k \in 0..Len(s), ElemsSplit
<1>4. d = a \o b
  BY DEF RemoveAt
<1> HIDE DEF a, b, d
<1>5. /\ d \in Seq(File)
      /\ Len(d) = Len(s) - 1
      /\ \A i \in 1..(Len(s) - 1) : d[i] = IF i <= k - 1 THEN a[i] ELSE b[i - (k - 1)]
  <2>1. Len(a) + Len(b) = Len(s) - 1
    BY <1>1, <1>2, <1>3
  <2>2. QED
    BY ONLY <1>2, <1>3, <1>4, <2>1, ConcatProperties, SMTT(30)
<1>6. DOMAIN d = 1..(Len(s) - 1)
  BY <1>5, LenProperties
<1>7. \A i \in 1..(Len(s) - 1) : d[i] = IF i < k THEN s[i] ELSE s[i + 1]
  <2>1. ASSUME NEW i \in 1..(Len(s) - 1)
        PROVE  d[i] = IF i < k THEN s[i] ELSE s[i + 1]
    <3>1. CASE i < k
      <4>1. i <= k - 1 /\ i \in 1..(k - 1)
        BY <1>1, <3>1
      <4>2. QED
        BY <1>2, <1>5, <3>1, <4>1
    <3>2. CASE ~(i < k)
      <4>1. ~(i <= k - 1) /\ i - (k - 1) \in 1..(Len(s) - k) /\ k + (i - (k - 1)) = i + 1
        BY <1>1, <3>2
      <4>2. QED
        BY <1>3, <1>5, <3>2, <4>1
    <3>3. QED
      BY <3>1, <3>2
  <2>2. QED
    BY <2>1
<1>8. Increasing(d)
  <2>1. ASSUME NEW i \in 1..(Len(s) - 1), NEW j \in 1..(Len(s) - 1), i < j
        PROVE  d[i].seq < d[j].seq
    <3> DEFINE x == IF i < k THEN i ELSE i + 1
               y == IF j < k THEN j ELSE j + 1
    <3>1. x \in DOMAIN s /\ y \in DOMAIN s /\ x < y
      BY <1>1, <2>1
    <3>2. d[i] = s[x] /\ d[j] = s[y]
      BY <1>7
    <3>3. QED
      BY <3>1, <3>2 DEF Increasing
  <2>2. QED
    BY <1>6, <2>1 DEF Increasing
<1>9. ToSet(d) \subseteq ToSet(s)
  <2>1. ASSUME NEW i \in 1..(Len(s) - 1) PROVE d[i] \in ToSet(s)
    <3>1. i \in DOMAIN s /\ i + 1 \in DOMAIN s
      BY <1>1
    <3>2. QED
      BY <1>7, <3>1 DEF ToSet
  <2>2. QED
    BY <1>6, <2>1 DEF ToSet
<1>10. ToSet(s) \subseteq ToSet(d) \cup {s[k]}
  <2>1. ASSUME NEW i \in DOMAIN s, i # k PROVE s[i] \in ToSet(d)
    <3>1. CASE i < k
      <4>1. i \in DOMAIN d /\ d[i] = s[i]
        BY <1>1, <1>6, <1>7, <3>1
      <4>2. QED
        BY <4>1 DEF ToSet
    <3>2. CASE i > k
      <4>1. i - 1 \in DOMAIN d /\ ~(i - 1 < k) /\ (i - 1) + 1 = i
        BY <1>1, <1>6, <3>2
      <4>2. d[i - 1] = s[i]
        BY <1>6, <1>7, <4>1
      <4>3. QED
        BY <4>1, <4>2 DEF ToSet
    <3>3. QED
      BY <1>1, <2>1, <3>1, <3>2
  <2>2. QED
    BY <2>1 DEF ToSet
<1>11. QED
  BY <1>5, <1>8, <1>9, <1>10 DEF d

\* An index that only loses entries keeps what is known of its order and of
\* the batches taken from it.
LEMMA IndexShrinks ==
  ASSUME Inv, UNCHANGED <<nextSeq, spoolLock>>,
         Increasing(files'), ToSet(files') \subseteq ToSet(files),
         \A w \in Workers : ToSet(wSpool'[w]) \subseteq ToSet(wSpool[w])
  PROVE  Ordered' /\ Batched'
BY DEF Inv, Ordered, Batched, Fresh, Increasing

\* The eviction loop of submitSpool.push.
LEMMA SpillEvictInv ==
  ASSUME Inv, NEW t \in Tasks, SpillEvict(t)
  PROVE  Inv'
<1>0. TypeOK /\ NoSilentLoss /\ Answered
  BY DEF Inv
<1>1. /\ UNCHANGED <<proc, up, buffer, nextSeq, retry, deliveries, excused>>
      /\ pc[t] = "evict"
      /\ files # << >>
  BY DEF SpillEvict
<1>2. CASE SpillFails(t)
  BY <1>1, <1>2, SpillFailsInv
<1>3. CASE /\ currentBytes' = currentBytes - Size[Head(files).task]
           /\ files' = Tail(files)
           /\ disk' = disk \ {Head(files)}
           /\ lostBy' = [lostBy EXCEPT ![Head(files).task] = "evicted"]
           /\ UNCHANGED <<pc, spoolLock>>
  <2>1. files \in Seq(File)
    BY <1>0 DEF TypeOK
  <2>2. /\ Head(files) \in File
        /\ Tail(files) \in Seq(File)
        /\ Increasing(Tail(files))
        /\ ToSet(Tail(files)) = ToSet(files) \ {Head(files)}
    BY <1>1, <2>1, IncreasingTail, HeadTailProperties DEF Inv, Ordered
  <2>3. Head(files).task \in Tasks /\ Size[Head(files).task] \in Nat
    BY <2>2, SizeAssumption DEF File
  <2>4. IsFiniteSet(disk')
    BY <1>0, <1>3, FS_RemoveElement DEF TypeOK
  <2>5. lostBy' \in [Tasks -> {"no", "trimmed", "evicted", "crashed", "removed"}]
    BY <1>0, <1>3 DEF TypeOK
  <2>6. TypeOK'
    BY <1>0, <1>1, <1>3, <2>2, <2>3, <2>4, <2>5 DEF TypeOK, proc, buffer, retry
  <2>7. phase # "down" /\ diskSpill
    BY <1>0, <1>1 DEF Inv, Quiet, Calling, TypeOK
  <2>8. Quiet' /\ Locked'
    BY <1>1, <1>3, <2>7 DEF Inv, Quiet, Locked, proc
  <2>9. Ordered' /\ Batched'
    BY <1>1, <1>3, <2>2, IndexShrinks DEF retry
  <2>10. Covered'
    BY <1>1, <1>3, <2>2 DEF Inv, Covered, proc
  <2>11. Answered'
    BY <1>0, <1>1, AnsweredKept DEF retry, Resolved
  <2>12. WithinBudget'
    BY <1>0, <1>1, <1>3, <2>3, LimitsAssumption DEF Inv, WithinBudget, TypeOK, proc, buffer
  <2>13. NoSilentLoss'
    <3>1. \A u \in Tasks : lostBy[u] # "no" => lostBy'[u] # "no"
      BY <1>0, <1>3 DEF TypeOK
    <3>2. lostBy'[Head(files).task] # "no"
      BY <1>0, <1>3, <2>3 DEF TypeOK
    <3>3. \A u \in Tasks : OnDisk(u) => OnDisk(u)' \/ lostBy'[u] # "no"
      BY <1>3, <3>2 DEF OnDisk
    <3>4. \A u \in Tasks : Accounted(u) => Accounted(u)'
      BY <1>1, <3>1, <3>3 DEF Accounted, InMemory, Resolved, buffer, retry
    <3>5. QED
      BY <1>0, <1>3, <3>4, AccountsKept
  <2>14. QED
    BY <2>6, <2>8, <2>9, <2>10, <2>11, <2>12, <2>13 DEF Inv
<1>4. QED
  BY <1>2, <1>3 DEF SpillEvict

\* submitSpool.push renames the file: a queued task is on disk.
LEMMA SpillWriteInv ==
  ASSUME Inv, NEW t \in Tasks, SpillWrite(t)
  PROVE  Inv'
<1> DEFINE f == [seq |-> nextSeq - 1, task |-> t]
<1>0. TypeOK /\ NoSilentLoss /\ Answered
  BY DEF Inv
<1>1. /\ UNCHANGED <<proc, up, buffer, nextSeq, retry, deliveries, excused>>
      /\ pc[t] = "evict"
  BY DEF SpillWrite
<1>2. CASE SpillFails(t)
  BY <1>1, <1>2, SpillFailsInv
<1>3. CASE /\ currentBytes + Size[t] <= maxBytes
           /\ files' = Append(files, f)
           /\ disk' = disk \cup {f}
           /\ currentBytes' = currentBytes + Size[t]
           /\ pc' = [pc EXCEPT ![t] = "queued"]
           /\ spoolLock' = Nobody
           /\ UNCHANGED lostBy
  <2>1. spoolLock = t /\ nextSeq > 0 /\ phase # "down" /\ diskSpill
    BY <1>0, <1>1, NobodyAssumption DEF Inv, Quiet, Locked, TypeOK
  <2>2. f \in File /\ f.seq = nextSeq - 1 /\ f.task = t
    BY <1>0, <2>1 DEF File, TypeOK
  <2>3. Fresh = f.seq /\ Fresh' = f.seq + 1 /\ f.seq \in Nat
    BY <1>0, <1>1, <1>3, <2>1, <2>2, NobodyAssumption DEF Fresh, TypeOK
  <2> HIDE DEF f
  <2>4. /\ files \in Seq(File)
        /\ Increasing(files)
        /\ \A g \in ToSet(files) : g.seq < f.seq /\ g.seq \in Nat
    BY <1>0, <2>3, FilesListed DEF Inv, Ordered, TypeOK
  <2>5. /\ files' \in Seq(File)
        /\ Increasing(files')
        /\ ToSet(files') = ToSet(files) \cup {f}
    BY <1>3, <2>2, <2>4, IncreasingAppend, ElemsAppend
  <2>6. IsFiniteSet(disk')
    BY <1>0, <1>3, FS_AddElement DEF TypeOK
  <2>7. pc' \in [Tasks -> CallPC] /\ \A u \in Tasks : pc'[u] # pc[u] => u = t
    BY <1>0, <1>3 DEF TypeOK, CallPC
  <2>8. TypeOK'
    BY <1>0, <1>1, <1>3, <2>2, <2>5, <2>6, <2>7, SizeAssumption
    DEF TypeOK, proc, buffer, retry
  <2>9. Quiet'
    BY <1>1, <2>1 DEF Quiet, proc
  <2>10. Locked'
    <3>1. \A u \in Tasks : pc[u] = "evict" => u = t
      BY <2>1 DEF Inv, Locked
    <3>2. pc'[t] # "evict"
      BY <1>0, <1>3 DEF TypeOK
    <3>3. QED
      BY <1>3, <2>7, <3>1, <3>2 DEF Locked
  <2>11. Ordered'
    BY <2>3, <2>4, <2>5 DEF Ordered, Increasing
  <2>12. Covered'
    BY <1>1, <1>3, <2>1, <2>5 DEF Inv, Covered, proc
  <2>13. Batched'
    <3>1. \A w \in Workers : \A g \in ToSet(wSpool[w]) : g.seq \in Nat /\ g.seq < f.seq
      BY <1>0, <2>3, FilesListed DEF Inv, Batched
    <3>2. ASSUME NEW w \in Workers, NEW g \in ToSet(wSpool[w])
          PROVE  /\ g.seq < Fresh'
                 /\ \A h \in ToSet(files') : h.seq = g.seq => h = g
      <4>1. g.seq \in Nat /\ g.seq < f.seq
        BY <3>1
      <4>2. \A h \in ToSet(files) : h.seq = g.seq => h = g
        BY DEF Inv, Batched
      <4>3. QED
        BY <2>3, <2>5, <4>1, <4>2
    <3>3. QED
      BY <1>1, <3>2 DEF Batched, retry
  <2>14. Answered'
    BY <1>0, <1>1, AnsweredKept DEF retry, Resolved
  <2>15. WithinBudget'
    BY <1>1, <1>3 DEF Inv, WithinBudget, proc, buffer
  <2>16. NoSilentLoss'
    <3>1. \A u \in Tasks : Accounted(u) => Accounted(u)'
      BY <1>1, <1>3 DEF Accounted, InMemory, OnDisk, Resolved, buffer, retry
    <3>2. Accounted(t)'
      BY <1>3, <2>2 DEF Accounted, OnDisk
    <3>3. QED
      BY <1>0, <2>7, <3>1, <3>2, AccountsKept
  <2>17. QED
    BY <2>8, <2>9, <2>10, <2>11, <2>12, <2>13, <2>14, <2>15, <2>16 DEF Inv
<1>4. QED
  BY <1>2, <1>3 DEF SpillWrite

-----------------------------------------------------------------------------
(* The retry loop keeps the invariant.                                     *)

\* A worker that is not off works for a live process.
LEMMA WorkerLive ==
  ASSUME Inv, NEW w \in Workers, wAt[w] # "off"
  PROVE  phase # "down"
BY DEF Inv, Quiet

\* submitBuffer.drain moves tasks from the queue to the batch.
LEMMA WakeInv ==
  ASSUME Inv, NEW w \in Workers, Wake(w)
  PROVE  Inv'
<1> DEFINE n == BatchOf(Len(queue))
<1>0. TypeOK /\ NoSilentLoss /\ Answered
  BY DEF Inv
<1>1. /\ UNCHANGED <<proc, up, pc, index, spoolLock, disk, wSpool, ghost>>
      /\ wAt[w] = "select"
      /\ notify' \in {notify, FALSE}
      /\ wMem' = [wMem EXCEPT ![w] = SubSeq(queue, 1, n)]
      /\ queue' = DropFirst(queue, n)
      /\ wAt' = [wAt EXCEPT ![w] = IF n = 0 THEN "drain" ELSE "mem"]
  BY DEF Wake
<1>2. queue \in Seq(Tasks) /\ Len(queue) \in Nat /\ n \in 0..Len(queue)
  BY <1>0, BatchBound, LenProperties DEF TypeOK
<1> HIDE DEF n
<1>3. /\ SubSeq(queue, 1, n) \in Seq(Tasks)
      /\ queue' \in Seq(Tasks)
      /\ Len(SubSeq(queue, 1, n)) = n
      /\ Len(queue') = Len(queue) - n
      /\ ToSet(queue) = ToSet(SubSeq(queue, 1, n)) \cup ToSet(queue')
  BY <1>1, <1>2, DropFirstType
<1>4. SubSeq(queue, 1, n) # << >> <=> n # 0
  <2>1. Len(SubSeq(queue, 1, n)) = 0 <=> SubSeq(queue, 1, n) = << >>
    BY <1>3, EmptySeq
  <2>2. QED
    BY <1>3, <2>1
<1>5. /\ wMem' \in [Workers -> Seq(Tasks)]
      /\ wAt' \in [Workers -> WorkerPC]
      /\ \A v \in Workers : v # w => wMem'[v] = wMem[v] /\ wAt'[v] = wAt[v]
      /\ wMem'[w] = SubSeq(queue, 1, n)
      /\ wAt'[w] = IF n = 0 THEN "drain" ELSE "mem"
  BY <1>0, <1>1, <1>3 DEF TypeOK, WorkerPC
<1>6. \A v \in Workers :
        /\ wMem'[v] # << >> <=> wAt'[v] \in {"mem", "putback"}
        /\ wSpool'[v] # << >> <=> wAt'[v] \in {"spool", "ack"}
  BY <1>0, <1>1, <1>4, <1>5 DEF TypeOK
<1>7. TypeOK'
  BY <1>0, <1>1, <1>3, <1>5, <1>6 DEF TypeOK, proc, index, ghost
<1>8. phase # "down"
  BY <1>1, WorkerLive
<1>9. Quiet' /\ Locked' /\ Ordered' /\ Covered' /\ Batched'
  BY <1>1, <1>7, <1>8, SpoolUntouched DEF proc, index
<1>10. Answered'
  BY <1>0, <1>1, <1>5, AnsweredKept DEF Resolved, ghost
<1>11. WithinBudget'
  BY <1>1, <1>2, <1>3, CapacityAssumption DEF Inv, WithinBudget, proc, index
<1>12. NoSilentLoss'
  <2>1. wMem[w] = << >>
    BY <1>0, <1>1 DEF TypeOK
  <2>2. ToSet(wMem[w]) = {}
    BY <2>1 DEF ToSet
  <2>3. \A u \in Tasks : InMemory(u) => InMemory(u)'
    BY <1>3, <1>5, <2>2 DEF InMemory
  <2>4. \A u \in Tasks : Accounted(u) => Accounted(u)'
    BY <1>1, <2>3 DEF Accounted, OnDisk, Resolved, ghost
  <2>5. QED
    BY <1>0, <1>1, <2>4, AccountsKept
<1>13. QED
  BY <1>7, <1>9, <1>10, <1>11, <1>12 DEF Inv

\* The retry loop ends.
LEMMA RetryExitInv ==
  ASSUME Inv, NEW w \in Workers, RetryExit(w)
  PROVE  Inv'
<1>0. TypeOK /\ NoSilentLoss /\ Answered
  BY DEF Inv
<1>1. /\ UNCHANGED <<proc, up, pc, buffer, index, spoolLock, disk, wMem, wSpool, ghost>>
      /\ wAt[w] = "select"
      /\ phase # "down"
      /\ wAt' = [wAt EXCEPT ![w] = "off"]
  BY DEF RetryExit
<1>2. /\ wAt' \in [Workers -> WorkerPC]
      /\ \A v \in Workers : v # w => wAt'[v] = wAt[v]
      /\ wAt'[w] = "off"
  BY <1>0, <1>1 DEF TypeOK, WorkerPC
<1>3. TypeOK'
  BY <1>0, <1>1, <1>2 DEF TypeOK, proc, buffer, index, ghost
<1>4. Quiet' /\ Locked' /\ Ordered' /\ Covered' /\ Batched'
  BY <1>1, <1>3, SpoolUntouched DEF proc, index
<1>5. Answered'
  BY <1>0, <1>1, <1>2, AnsweredKept DEF Resolved, ghost
<1>6. WithinBudget'
  BY <1>1 DEF Inv, WithinBudget, proc, buffer, index
<1>7. NoSilentLoss'
  <2>1. \A u \in Tasks : Accounted(u) => Accounted(u)'
    BY <1>1 DEF Accounted, InMemory, OnDisk, Resolved, buffer, ghost
  <2>2. QED
    BY <1>0, <1>1, <2>1, AccountsKept
<1>8. QED
  BY <1>3, <1>4, <1>5, <1>6, <1>7 DEF Inv

\* flushBufferOnce keeps the task that failed in its batch.
LEMMA FlushMemInv ==
  ASSUME Inv, NEW w \in Workers, FlushMem(w)
  PROVE  Inv'
<1>0. TypeOK /\ NoSilentLoss /\ Answered
  BY DEF Inv
<1>1. /\ UNCHANGED <<proc, up, pc, buffer, index, spoolLock, disk, wSpool, lostBy>>
      /\ wAt[w] = "mem"
  BY DEF FlushMem
<1>2. wMem[w] \in Seq(Tasks) /\ wMem[w] # << >>
  BY <1>0, <1>1 DEF TypeOK
<1>3. PICK t \in Tasks :
        /\ t = Head(wMem[w])
        /\ Tail(wMem[w]) \in Seq(Tasks)
        /\ ToSet(wMem[w]) = ToSet(Tail(wMem[w])) \cup {t}
  BY <1>2, ElemsHeadTail
<1>4. PICK r \in Outcomes(t) :
        /\ SchedulerTakes(t, r)
        /\ IF isRetriableSubmitErr(r)
           THEN /\ wAt' = [wAt EXCEPT ![w] = "putback"]
                /\ UNCHANGED wMem
           ELSE /\ wMem' = [wMem EXCEPT ![w] = Tail(@)]
                /\ wAt' = [wAt EXCEPT ![w] =
                             IF Tail(wMem[w]) = << >> THEN "drain" ELSE "mem"]
  BY <1>3 DEF FlushMem
<1>5. /\ deliveries' \in [Tasks -> 0..2]
      /\ excused' \in SUBSET Tasks
      /\ \A u \in Tasks : Resolved(u) => Resolved(u)'
      /\ ~isRetriableSubmitErr(r) => Resolved(t)'
  BY <1>0, <1>4, TakesResolve
<1>6. /\ wMem' \in [Workers -> Seq(Tasks)]
      /\ wAt' \in [Workers -> WorkerPC]
      /\ \A v \in Workers : v # w => wMem'[v] = wMem[v] /\ wAt'[v] = wAt[v]
      /\ \/ /\ isRetriableSubmitErr(r)
            /\ wMem'[w] = wMem[w]
            /\ wAt'[w] = "putback"
         \/ /\ ~isRetriableSubmitErr(r)
            /\ wMem'[w] = Tail(wMem[w])
            /\ wAt'[w] = IF Tail(wMem[w]) = << >> THEN "drain" ELSE "mem"
  <2>1. CASE isRetriableSubmitErr(r)
    BY <1>0, <1>4, <2>1 DEF TypeOK, WorkerPC
  <2>2. CASE ~isRetriableSubmitErr(r)
    <3>1. /\ wMem' = [wMem EXCEPT ![w] = Tail(wMem[w])]
          /\ wAt' = [wAt EXCEPT ![w] =
                       IF Tail(wMem[w]) = << >> THEN "drain" ELSE "mem"]
      BY <1>0, <1>4, <2>2 DEF TypeOK
    <3>2. wMem \in [Workers -> Seq(Tasks)] /\ wAt \in [Workers -> WorkerPC]
      BY <1>0 DEF TypeOK
    <3>3. QED
      BY <1>3, <2>2, <3>1, <3>2 DEF WorkerPC
  <2>3. QED
    BY <2>1, <2>2
<1>7. \A v \in Workers :
        /\ wMem'[v] # << >> <=> wAt'[v] \in {"mem", "putback"}
        /\ wSpool'[v] # << >> <=> wAt'[v] \in {"spool", "ack"}
  BY <1>0, <1>1, <1>2, <1>6 DEF TypeOK
<1>8. TypeOK'
  BY <1>0, <1>1, <1>5, <1>6, <1>7 DEF TypeOK, proc, buffer, index
<1>9. phase # "down"
  BY <1>1, WorkerLive
<1>10. Quiet' /\ Locked' /\ Ordered' /\ Covered' /\ Batched'
  BY <1>1, <1>8, <1>9, SpoolUntouched DEF proc, index
<1>11. Answered'
  <2>1. \A v \in Workers : wAt'[v] = "ack" => wAt[v] = "ack"
    BY <1>6
  <2>2. QED
    BY <1>0, <1>1, <1>5, <2>1, AnsweredKept
<1>12. WithinBudget'
  BY <1>1 DEF Inv, WithinBudget, proc, buffer, index
<1>13. NoSilentLoss'
  <2>1. ASSUME NEW u \in Tasks, InMemory(u) PROVE InMemory(u)' \/ Resolved(u)'
    <3>1. CASE u \in ToSet(queue)
      BY <1>1, <3>1 DEF InMemory, buffer
    <3>2. CASE \E v \in Workers : v # w /\ u \in ToSet(wMem[v])
      BY <1>6, <3>2 DEF InMemory
    <3>3. CASE u \in ToSet(wMem[w])
      <4>1. u \in ToSet(wMem'[w]) \/ Resolved(u)'
        BY <1>3, <1>5, <1>6, <3>3
      <4>2. QED
        BY <4>1 DEF InMemory
    <3>4. QED
      BY <2>1, <3>1, <3>2, <3>3 DEF InMemory
  <2>2. \A u \in Tasks : Accounted(u) => Accounted(u)'
    BY <1>1, <1>5, <2>1 DEF Accounted, OnDisk
  <2>3. QED
    BY <1>0, <1>1, <2>2, AccountsKept
<1>14. QED
  BY <1>8, <1>10, <1>11, <1>12, <1>13 DEF Inv

\* submitBuffer.putBack: what is cut off is recorded.
LEMMA PutBackInv ==
  ASSUME Inv, NEW w \in Workers, PutBack(w)
  PROVE  Inv'
<1> DEFINE merged == wMem[w] \o queue
           over   == IF Len(merged) > Capacity THEN Len(merged) - Capacity ELSE 0
<1>0. TypeOK /\ NoSilentLoss /\ Answered
  BY DEF Inv
<1>1. /\ UNCHANGED <<proc, up, pc, notify, index, spoolLock, disk, wSpool,
                     deliveries, excused>>
      /\ wAt[w] = "putback"
      /\ queue' = DropFirst(merged, over)
      /\ lostBy' = [t \in Tasks |->
           IF t \in ToSet(SubSeq(merged, 1, over)) THEN "trimmed" ELSE lostBy[t]]
      /\ wMem' = [wMem EXCEPT ![w] = << >>]
      /\ wAt' = [wAt EXCEPT ![w] = "select"]
  BY DEF PutBack
<1>2. /\ merged \in Seq(Tasks)
      /\ ToSet(merged) = ToSet(wMem[w]) \cup ToSet(queue)
  <2>1. wMem[w] \in Seq(Tasks) /\ queue \in Seq(Tasks)
    BY <1>0 DEF TypeOK
  <2>2. QED
    BY <2>1, ElemsConcat
<1> HIDE DEF merged
<1>3. Len(merged) \in Nat /\ over \in 0..Len(merged) /\ Len(merged) - over <= Capacity
  <2>1. Len(merged) \in Nat
    BY <1>2, LenProperties
  <2>2. QED
    BY <2>1, CapacityAssumption
<1> HIDE DEF over
<1>4. /\ queue' \in Seq(Tasks)
      /\ Len(queue') = Len(merged) - over
      /\ ToSet(merged) = ToSet(SubSeq(merged, 1, over)) \cup ToSet(queue')
  BY <1>1, <1>2, <1>3, DropFirstType
<1>5. /\ wMem' \in [Workers -> Seq(Tasks)]
      /\ wAt' \in [Workers -> WorkerPC]
      /\ \A v \in Workers : v # w => wMem'[v] = wMem[v] /\ wAt'[v] = wAt[v]
      /\ wMem'[w] = << >>
      /\ wAt'[w] = "select"
  BY <1>0, <1>1 DEF TypeOK, WorkerPC
<1>6. /\ lostBy' \in [Tasks -> {"no", "trimmed", "evicted", "crashed", "removed"}]
      /\ \A u \in Tasks : lostBy[u] # "no" => lostBy'[u] # "no"
      /\ \A u \in Tasks : u \in ToSet(SubSeq(merged, 1, over)) => lostBy'[u] # "no"
  BY <1>0, <1>1 DEF TypeOK
<1>7. \A v \in Workers :
        /\ wMem'[v] # << >> <=> wAt'[v] \in {"mem", "putback"}
        /\ wSpool'[v] # << >> <=> wAt'[v] \in {"spool", "ack"}
  BY <1>0, <1>1, <1>5 DEF TypeOK
<1>8. TypeOK'
  BY <1>0, <1>1, <1>4, <1>5, <1>6, <1>7 DEF TypeOK, proc, index
<1>9. phase # "down"
  BY <1>1, WorkerLive
<1>10. Quiet' /\ Locked' /\ Ordered' /\ Covered' /\ Batched'
  BY <1>1, <1>8, <1>9, SpoolUntouched DEF proc, index
<1>11. Answered'
  <2>1. \A v \in Workers : wAt'[v] = "ack" => wAt[v] = "ack"
    BY <1>5
  <2>2. QED
    BY <1>0, <1>1, <2>1, AnsweredKept DEF Resolved
<1>12. WithinBudget'
  BY <1>1, <1>3, <1>4 DEF Inv, WithinBudget, proc, index
<1>13. NoSilentLoss'
  <2>1. \A u \in Tasks : InMemory(u) => InMemory(u)' \/ lostBy'[u] # "no"
    BY <1>2, <1>4, <1>5, <1>6 DEF InMemory
  <2>2. \A u \in Tasks : Accounted(u) => Accounted(u)'
    BY <1>1, <1>6, <2>1 DEF Accounted, OnDisk, Resolved
  <2>3. QED
    BY <1>0, <1>1, <2>2, AccountsKept
<1>14. QED
  BY <1>8, <1>10, <1>11, <1>12, <1>13 DEF Inv

\* submitSpool.drain copies the front of the index.
LEMMA DrainSpoolInv ==
  ASSUME Inv, NEW w \in Workers, DrainSpool(w)
  PROVE  Inv'
<1> DEFINE n     == BatchOf(Len(files))
           batch == SubSeq(files, 1, n)
           empty == ~diskSpill \/ batch = << >> \/ ~(ToSet(batch) \subseteq disk)
<1>0. TypeOK /\ NoSilentLoss /\ Answered
  BY DEF Inv
<1>1. /\ UNCHANGED <<proc, up, pc, buffer, index, spoolLock, disk, wMem,
                     deliveries, lostBy>>
      /\ wAt[w] = "drain"
      /\ wSpool' = [wSpool EXCEPT ![w] = IF empty THEN << >> ELSE batch]
      /\ wAt' = [wAt EXCEPT ![w] = IF empty THEN "select" ELSE "spool"]
      /\ excused' = IF empty THEN excused
                    ELSE excused \cup ({f.task : f \in ToSet(batch)}
                                         \cap HeldByOthers(w))
  BY DEF DrainSpool
<1>2. batch \in Seq(File) /\ ToSet(batch) \subseteq ToSet(files)
  <2>1. files \in Seq(File) /\ Len(files) \in Nat
    BY <1>0, LenProperties DEF TypeOK
  <2>2. n \in 0..Len(files)
    BY <2>1, BatchBound
  <2>3. QED
    BY <2>1, <2>2, DropFirstType
<1>3. empty \in BOOLEAN /\ (~empty => batch # << >>)
  OBVIOUS
<1> HIDE DEF batch, empty
<1>4. excused' \in SUBSET Tasks
  <2>1. \A f \in ToSet(batch) : f.task \in Tasks
    BY <1>0, <1>2, FilesListed
  <2>2. excused \in SUBSET Tasks
    BY <1>0 DEF TypeOK
  <2>3. QED
    BY <1>1, <2>1, <2>2
<1>5. /\ wSpool' \in [Workers -> Seq(File)]
      /\ wAt' \in [Workers -> WorkerPC]
      /\ \A v \in Workers : v # w => wSpool'[v] = wSpool[v] /\ wAt'[v] = wAt[v]
      /\ wSpool'[w] = IF empty THEN << >> ELSE batch
      /\ wAt'[w] = IF empty THEN "select" ELSE "spool"
  <2>1. wSpool \in [Workers -> Seq(File)] /\ wAt \in [Workers -> WorkerPC]
    BY <1>0 DEF TypeOK
  <2>2. QED
    BY <1>1, <1>2, <2>1 DEF WorkerPC
<1>6. \A v \in Workers :
        /\ wMem'[v] # << >> <=> wAt'[v] \in {"mem", "putback"}
        /\ wSpool'[v] # << >> <=> wAt'[v] \in {"spool", "ack"}
  BY <1>0, <1>1, <1>3, <1>5 DEF TypeOK
<1>7. TypeOK'
  BY <1>0, <1>1, <1>4, <1>5, <1>6 DEF TypeOK, proc, buffer, index
<1>8. phase # "down"
  BY <1>1, WorkerLive
<1>9. Quiet' /\ Locked'
  BY <1>1, <1>8 DEF Inv, Quiet, Locked, proc, index
<1>10. Ordered' /\ Covered'
  BY <1>1 DEF Inv, Ordered, Covered, Fresh, Increasing, proc, index
<1>11. Batched'
  <2>1. ASSUME NEW v \in Workers, NEW f \in ToSet(wSpool'[v])
        PROVE  /\ f.seq < Fresh
               /\ \A g \in ToSet(files) : g.seq = f.seq => g = f
    <3>1. CASE f \in ToSet(wSpool[v])
      BY <3>1 DEF Inv, Batched
    <3>2. CASE f \notin ToSet(wSpool[v])
      <4>1. v = w /\ ~empty /\ f \in ToSet(batch)
        <5>1. v = w
          BY <1>5, <2>1, <3>2
        <5>2. ~empty
          BY <1>5, <2>1, <5>1 DEF ToSet
        <5>3. QED
          BY <1>5, <2>1, <5>1, <5>2
      <4>2. f \in ToSet(files)
        BY <1>2, <4>1
      <4>3. f.seq < Fresh
        BY <4>2 DEF Inv, Ordered
      <4>4. ASSUME NEW g \in ToSet(files), g.seq = f.seq PROVE g = f
        <5>1. PICK i \in DOMAIN files, j \in DOMAIN files : f = files[i] /\ g = files[j]
          BY <4>2 DEF ToSet
        <5>2. f.seq \in Nat /\ g.seq \in Nat
          BY <1>0, <4>2, FilesListed
        <5>3. i \in Nat /\ j \in Nat
          BY <1>0, LenProperties DEF TypeOK
        <5>4. ~(i < j) /\ ~(j < i)
          BY <4>4, <5>1, <5>2 DEF Inv, Ordered, Increasing
        <5>5. QED
          BY <5>1, <5>3, <5>4
      <4>5. QED
        BY <4>3, <4>4
    <3>3. QED
      BY <3>1, <3>2
  <2>2. UNCHANGED <<Fresh, files>>
    BY <1>1 DEF Fresh, index
  <2>3. QED
    BY <2>1, <2>2 DEF Batched
<1>12. Answered'
  <2>1. ASSUME NEW v \in Workers, wAt'[v] = "ack"
        PROVE  Resolved(Head(wSpool'[v]).task)
    <3>1. v # w /\ wAt[v] = "ack" /\ wSpool'[v] = wSpool[v]
      BY <1>5, <2>1
    <3>2. QED
      BY <1>0, <3>1 DEF Answered
  <2>2. QED
    BY <1>1, <2>1 DEF Answered, Resolved
<1>13. WithinBudget'
  BY <1>1 DEF Inv, WithinBudget, proc, buffer, index
<1>14. NoSilentLoss'
  <2>1. \A u \in Tasks : Accounted(u) => Accounted(u)'
    BY <1>1 DEF Accounted, InMemory, OnDisk, Resolved, buffer
  <2>2. QED
    BY <1>0, <1>1, <2>1, AccountsKept
<1>15. QED
  BY <1>7, <1>9, <1>10, <1>11, <1>12, <1>13, <1>14 DEF Inv

\* flushSpoolOnce goes on to the ack only with an answer.
LEMMA FlushSpoolInv ==
  ASSUME Inv, NEW w \in Workers, FlushSpool(w)
  PROVE  Inv'
<1>0. TypeOK /\ NoSilentLoss /\ Answered
  BY DEF Inv
<1>1. /\ UNCHANGED <<proc, up, pc, buffer, index, spoolLock, disk, wMem, lostBy>>
      /\ wAt[w] = "spool"
  BY DEF FlushSpool
<1>2. PICK t \in Tasks : t = Head(wSpool[w]).task
  BY <1>0, <1>1, HeadOfBatch
<1>3. PICK r \in Outcomes(t) :
        /\ SchedulerTakes(t, r)
        /\ IF isRetriableSubmitErr(r)
           THEN /\ wSpool' = [wSpool EXCEPT ![w] = << >>]
                /\ wAt' = [wAt EXCEPT ![w] = "select"]
           ELSE /\ wAt' = [wAt EXCEPT ![w] = "ack"]
                /\ UNCHANGED wSpool
  BY <1>2 DEF FlushSpool
<1>4. /\ deliveries' \in [Tasks -> 0..2]
      /\ excused' \in SUBSET Tasks
      /\ \A u \in Tasks : Resolved(u) => Resolved(u)'
      /\ ~isRetriableSubmitErr(r) => Resolved(t)'
  BY <1>0, <1>3, TakesResolve
<1>5. /\ wSpool' \in [Workers -> Seq(File)]
      /\ wAt' \in [Workers -> WorkerPC]
      /\ \A v \in Workers : v # w => wSpool'[v] = wSpool[v] /\ wAt'[v] = wAt[v]
      /\ \/ /\ isRetriableSubmitErr(r)
            /\ wSpool'[w] = << >>
            /\ wAt'[w] = "select"
         \/ /\ ~isRetriableSubmitErr(r)
            /\ wSpool'[w] = wSpool[w]
            /\ wAt'[w] = "ack"
  <2>1. wSpool \in [Workers -> Seq(File)] /\ wAt \in [Workers -> WorkerPC]
    BY <1>0 DEF TypeOK
  <2>2. CASE isRetriableSubmitErr(r)
    <3>1. /\ wSpool' = [wSpool EXCEPT ![w] = << >>]
          /\ wAt' = [wAt EXCEPT ![w] = "select"]
      BY <1>3, <2>2
    <3>2. << >> \in Seq(File)
      BY EmptySeq
    <3>3. wSpool' \in [Workers -> Seq(File)] /\ wAt' \in [Workers -> WorkerPC]
      BY <2>1, <3>1, <3>2 DEF WorkerPC
    <3>4. QED
      BY <2>1, <2>2, <3>1, <3>3
  <2>3. CASE ~isRetriableSubmitErr(r)
    BY <1>3, <2>1, <2>3 DEF WorkerPC
  <2>4. QED
    BY <2>2, <2>3
<1>6. \A v \in Workers :
        /\ wMem'[v] # << >> <=> wAt'[v] \in {"mem", "putback"}
        /\ wSpool'[v] # << >> <=> wAt'[v] \in {"spool", "ack"}
  BY <1>0, <1>1, <1>5 DEF TypeOK
<1>7. TypeOK'
  BY <1>0, <1>1, <1>4, <1>5, <1>6 DEF TypeOK, proc, buffer, index
<1>8. phase # "down"
  BY <1>1, WorkerLive
<1>9. Quiet' /\ Locked' /\ Covered'
  BY <1>1, <1>8 DEF Inv, Quiet, Locked, Covered, proc, index
<1>10. Ordered' /\ Batched'
  <2>1. \A v \in Workers : ToSet(wSpool'[v]) \subseteq ToSet(wSpool[v])
    BY <1>5 DEF ToSet
  <2>2. Increasing(files')
    BY <1>1 DEF Inv, Ordered, index, Increasing
  <2>3. QED
    BY <1>1, <2>1, <2>2, IndexShrinks DEF index
<1>11. Answered'
  <2>1. ASSUME NEW v \in Workers, wAt'[v] = "ack"
        PROVE  \/ deliveries'[Head(wSpool'[v]).task] > 0
               \/ Head(wSpool'[v]).task \in Rejected
    <3>1. CASE v = w
      <4>1. Head(wSpool'[v]).task = t /\ Resolved(t)'
        BY <1>2, <1>4, <1>5, <2>1, <3>1
      <4>2. QED
        BY <4>1 DEF Resolved
    <3>2. CASE v # w
      <4>1. wAt[v] = "ack" /\ wSpool'[v] = wSpool[v]
        BY <1>5, <2>1, <3>2
      <4>2. PICK u \in Tasks : u = Head(wSpool[v]).task
        BY <1>0, <4>1, HeadOfBatch
      <4>3. Resolved(u)
        BY <1>0, <4>1, <4>2 DEF Answered
      <4>4. Resolved(u)'
        BY <1>4, <4>3
      <4>5. QED
        BY <4>1, <4>2, <4>4 DEF Resolved
    <3>3. QED
      BY <3>1, <3>2
  <2>2. QED
    BY <2>1 DEF Answered, Resolved
<1>12. WithinBudget'
  BY <1>1 DEF Inv, WithinBudget, proc, buffer, index
<1>13. NoSilentLoss'
  <2>1. \A u \in Tasks : Accounted(u) => Accounted(u)'
    BY <1>1, <1>4 DEF Accounted, InMemory, OnDisk, buffer
  <2>2. QED
    BY <1>0, <1>1, <2>1, AccountsKept
<1>14. QED
  BY <1>7, <1>9, <1>10, <1>11, <1>12, <1>13 DEF Inv

\* submitSpool.ack removes what was answered.
LEMMA AckSpoolInv ==
  ASSUME Inv, NEW w \in Workers, AckSpool(w)
  PROVE  Inv'
<1>0. TypeOK /\ NoSilentLoss /\ Answered
  BY DEF Inv
<1>1. /\ UNCHANGED <<proc, up, pc, buffer, nextSeq, spoolLock, wMem, deliveries, lostBy>>
      /\ wAt[w] = "ack"
      /\ wSpool' = [wSpool EXCEPT ![w] = Tail(@)]
      /\ wAt' = [wAt EXCEPT ![w] = IF Tail(wSpool[w]) = << >> THEN "select" ELSE "spool"]
  BY DEF AckSpool, NextFile
<1>2. PICK f \in File :
        /\ f = Head(wSpool[w])
        /\ f \in ToSet(wSpool[w])
        /\ f.task \in Tasks
        /\ Resolved(f.task)
        /\ Tail(wSpool[w]) \in Seq(File)
        /\ ToSet(Tail(wSpool[w])) \subseteq ToSet(wSpool[w])
  BY <1>0, <1>1, HeadOfBatch DEF Answered
<1>3. \/ UNCHANGED <<files, disk, currentBytes>> /\ excused' \in SUBSET Tasks
      \/ \E i \in DOMAIN files :
           /\ files[i].seq = f.seq
           /\ files' = RemoveAt(files, i)
           /\ disk' = disk \ {files[i]}
           /\ currentBytes' = currentBytes - Size[files[i].task]
           /\ UNCHANGED excused
  BY <1>0, <1>2 DEF AckSpool, TypeOK
<1>4. /\ files' \in Seq(File)
      /\ Increasing(files')
      /\ ToSet(files') \subseteq ToSet(files)
      /\ disk' \subseteq disk
      /\ IsFiniteSet(disk')
      /\ \A g \in disk : g \notin disk' => g = f
      /\ \A g \in ToSet(files) : g \in ToSet(files') \/ g \notin disk'
      /\ currentBytes' \in Int
      /\ currentBytes' <= currentBytes
      /\ excused' \in SUBSET Tasks
  <2>1. /\ files \in Seq(File) /\ Increasing(files) /\ currentBytes \in Int
        /\ disk \in SUBSET File /\ IsFiniteSet(disk) /\ excused \in SUBSET Tasks
    BY <1>0 DEF Inv, Ordered, TypeOK
  <2>2. CASE UNCHANGED <<files, disk, currentBytes>> /\ excused' \in SUBSET Tasks
    BY <2>1, <2>2 DEF Increasing
  <2>3. CASE \E i \in DOMAIN files :
               /\ files[i].seq = f.seq
               /\ files' = RemoveAt(files, i)
               /\ disk' = disk \ {files[i]}
               /\ currentBytes' = currentBytes - Size[files[i].task]
               /\ UNCHANGED excused
    <3>1. PICK i \in DOMAIN files :
            /\ files[i].seq = f.seq
            /\ files' = RemoveAt(files, i)
            /\ disk' = disk \ {files[i]}
            /\ currentBytes' = currentBytes - Size[files[i].task]
            /\ UNCHANGED excused
      BY <2>3
    <3>2. /\ files' \in Seq(File)
          /\ Increasing(files')
          /\ ToSet(files') \subseteq ToSet(files)
          /\ ToSet(files) \subseteq ToSet(files') \cup {files[i]}
      BY <2>1, <3>1, IncreasingRemove
    <3>3. files[i] \in ToSet(files)
      BY <3>1 DEF ToSet
    <3>4. files[i] = f
      BY <1>2, <3>1, <3>3 DEF Inv, Batched
    <3>5. IsFiniteSet(disk')
      BY <2>1, <3>1, FS_RemoveElement
    <3>6. Size[files[i].task] \in Nat
      BY <1>2, <3>4, SizeAssumption
    <3>7. QED
      BY <2>1, <3>1, <3>2, <3>4, <3>5, <3>6
  <2>4. QED
    BY <1>3, <2>2, <2>3
<1>5. /\ wSpool' \in [Workers -> Seq(File)]
      /\ wAt' \in [Workers -> WorkerPC]
      /\ \A v \in Workers : v # w => wSpool'[v] = wSpool[v] /\ wAt'[v] = wAt[v]
      /\ wSpool'[w] = Tail(wSpool[w])
      /\ wAt'[w] = IF Tail(wSpool[w]) = << >> THEN "select" ELSE "spool"
  <2>1. wSpool \in [Workers -> Seq(File)] /\ wAt \in [Workers -> WorkerPC]
    BY <1>0 DEF TypeOK
  <2>2. wSpool' = [wSpool EXCEPT ![w] = Tail(wSpool[w])]
    BY <1>1
  <2>3. QED
    BY <1>1, <1>2, <2>1, <2>2 DEF WorkerPC
<1>6. \A v \in Workers :
        /\ wMem'[v] # << >> <=> wAt'[v] \in {"mem", "putback"}
        /\ wSpool'[v] # << >> <=> wAt'[v] \in {"spool", "ack"}
  BY <1>0, <1>1, <1>5 DEF TypeOK
<1>7. TypeOK'
  BY <1>0, <1>1, <1>4, <1>5, <1>6 DEF TypeOK, proc, buffer
<1>8. phase # "down"
  BY <1>1, WorkerLive
<1>9. Quiet'
  <2>1. ~diskSpill => files' = << >>
    <3>1. ASSUME ~diskSpill PROVE files' = << >>
      <4>1. files = << >>
        BY <3>1 DEF Inv, Quiet
      <4>2. ToSet(files') = {}
        BY <1>4, <4>1 DEF ToSet
      <4>3. QED
        BY <1>4, <4>2, LenProperties, EmptySeq DEF ToSet
    <3>2. QED
      BY <3>1
  <2>2. QED
    BY <1>1, <1>8, <2>1 DEF Inv, Quiet, proc
<1>10. Locked'
  BY <1>1 DEF Inv, Locked, proc
<1>11. Ordered' /\ Batched'
  <2>1. \A v \in Workers : ToSet(wSpool'[v]) \subseteq ToSet(wSpool[v])
    BY <1>2, <1>5
  <2>2. QED
    BY <1>1, <1>4, <2>1, IndexShrinks
<1>12. Covered'
  BY <1>1, <1>4 DEF Inv, Covered, proc
<1>13. Answered'
  <2>1. ASSUME NEW v \in Workers, wAt'[v] = "ack"
        PROVE  \/ deliveries[Head(wSpool'[v]).task] > 0
               \/ Head(wSpool'[v]).task \in Rejected
    <3>1. wAt[v] = "ack" /\ wSpool'[v] = wSpool[v]
      BY <1>5, <2>1
    <3>2. QED
      BY <1>0, <3>1 DEF Answered, Resolved
  <2>2. QED
    BY <1>1, <2>1 DEF Answered, Resolved
<1>14. WithinBudget'
  BY <1>0, <1>1, <1>4, LimitsAssumption DEF Inv, WithinBudget, TypeOK, proc, buffer
<1>15. NoSilentLoss'
  <2>1. \A u \in Tasks : OnDisk(u) => OnDisk(u)' \/ u = f.task
    BY <1>4 DEF OnDisk
  <2>2. \A u \in Tasks : Accounted(u) => Accounted(u)'
    BY <1>1, <1>2, <2>1 DEF Accounted, InMemory, Resolved, buffer
  <2>3. QED
    BY <1>0, <1>1, <2>2, AccountsKept
<1>16. QED
  BY <1>7, <1>9, <1>10, <1>11, <1>12, <1>13, <1>14, <1>15 DEF Inv

-----------------------------------------------------------------------------
(* Starting, stopping, dying and the surroundings keep the invariant.      *)

\* Steps that only start or stop the client or the scheduler.
LEMMA StartStopInv ==
  ASSUME Inv, Start \/ Stop \/ SchedulerFlips
  PROVE  Inv'
<1>0. TypeOK /\ NoSilentLoss /\ Answered
  BY DEF Inv
<1>1. /\ UNCHANGED <<diskSpill, maxBytes, pc, buffer, index, spoolLock, disk,
                     wMem, wSpool, ghost>>
      /\ phase' \in {"down", "new", "running", "stopped"}
      /\ phase' = "down" => phase = "down" /\ UNCHANGED wAt
      /\ phase = "down" => phase' = "down"
      /\ up' \in BOOLEAN
      /\ wAt' \in [Workers -> WorkerPC]
      /\ \A v \in Workers : wAt'[v] # wAt[v] => wAt[v] = "off" /\ wAt'[v] = "select"
  BY <1>0 DEF TypeOK, Start, Stop, SchedulerFlips, proc, retry, WorkerPC
<1>2. TypeOK'
  BY <1>0, <1>1 DEF TypeOK, buffer, index, ghost
<1>3. Quiet' /\ Locked'
  BY <1>1 DEF Inv, Quiet, Locked, index, Calling
<1>4. Ordered' /\ Covered' /\ Batched'
  BY <1>1 DEF Inv, Ordered, Covered, Batched, Fresh, Increasing, index
<1>5. Answered'
  BY <1>0, <1>1, AnsweredKept DEF Resolved, ghost
<1>6. WithinBudget'
  BY <1>1 DEF Inv, WithinBudget, buffer, index
<1>7. NoSilentLoss'
  <2>1. \A u \in Tasks : Accounted(u) => Accounted(u)'
    BY <1>1 DEF Accounted, InMemory, OnDisk, Resolved, buffer, ghost
  <2>2. QED
    BY <1>0, <1>1, <2>1, AccountsKept
<1>8. QED
  BY <1>2, <1>3, <1>4, <1>5, <1>6, <1>7 DEF Inv

\* Others may only remove files.
LEMMA FileVanishesInv ==
  ASSUME Inv, FileVanishes
  PROVE  Inv'
<1>0. TypeOK /\ NoSilentLoss /\ Answered
  BY DEF Inv
<1>1. PICK f \in disk :
        /\ disk' = disk \ {f}
        /\ lostBy' = [lostBy EXCEPT ![f.task] = "removed"]
        /\ UNCHANGED <<proc, up, pc, buffer, index, spoolLock, retry, deliveries, excused>>
  BY DEF FileVanishes
<1>2. f.task \in Tasks
  BY <1>0 DEF TypeOK, File
<1>3. IsFiniteSet(disk')
  BY <1>0, <1>1, FS_RemoveElement DEF TypeOK
<1>4. /\ lostBy' \in [Tasks -> {"no", "trimmed", "evicted", "crashed", "removed"}]
      /\ \A u \in Tasks : lostBy[u] # "no" => lostBy'[u] # "no"
      /\ lostBy'[f.task] # "no"
  BY <1>0, <1>1, <1>2 DEF TypeOK
<1>5. TypeOK'
  BY <1>0, <1>1, <1>3, <1>4 DEF TypeOK, proc, buffer, index, retry
<1>6. Quiet' /\ Locked' /\ Ordered' /\ Covered' /\ Batched'
  BY <1>1, <1>5, SpoolUntouched DEF proc, index, retry
<1>7. Answered'
  BY <1>0, <1>1, AnsweredKept DEF retry, Resolved
<1>8. WithinBudget'
  BY <1>1 DEF Inv, WithinBudget, proc, buffer, index
<1>9. NoSilentLoss'
  <2>1. \A u \in Tasks : OnDisk(u) => OnDisk(u)' \/ u = f.task
    BY <1>1 DEF OnDisk
  <2>2. \A u \in Tasks : Accounted(u) => Accounted(u)'
    BY <1>1, <1>4, <2>1 DEF Accounted, InMemory, Resolved, buffer, retry
  <2>3. QED
    BY <1>0, <1>1, <2>2, AccountsKept
<1>10. QED
  BY <1>5, <1>6, <1>7, <1>8, <1>9 DEF Inv

\* A crash records what the memory held.
LEMMA CrashInv ==
  ASSUME Inv, Crash
  PROVE  Inv'
<1>0. TypeOK /\ NoSilentLoss
  BY DEF Inv
<1>1. /\ phase' = "down"
      /\ queue' = << >> /\ notify' = FALSE /\ files' = << >>
      /\ currentBytes' = 0 /\ spoolLock' = Nobody
      /\ wAt' = [w \in Workers |-> "off"]
      /\ wMem' = [w \in Workers |-> << >>]
      /\ wSpool' = [w \in Workers |-> << >>]
      /\ pc' = [t \in Tasks |-> IF pc[t] \in Calling THEN "dead" ELSE pc[t]]
      /\ lostBy' = [t \in Tasks |-> IF InMemory(t) THEN "crashed" ELSE lostBy[t]]
      /\ excused' = excused \cup {t \in Tasks : OnDisk(t) /\ deliveries[t] > 0}
      /\ UNCHANGED <<diskSpill, maxBytes, up, nextSeq, disk, deliveries>>
  BY DEF Crash
<1>2. /\ pc' \in [Tasks -> CallPC]
      /\ \A t \in Tasks : pc'[t] \notin Calling
      /\ \A t \in Tasks : pc'[t] = "queued" => pc[t] = "queued"
  BY <1>0, <1>1 DEF TypeOK, CallPC, Calling
<1>3. /\ lostBy' \in [Tasks -> {"no", "trimmed", "evicted", "crashed", "removed"}]
      /\ \A u \in Tasks : lostBy[u] # "no" => lostBy'[u] # "no"
      /\ \A u \in Tasks : InMemory(u) => lostBy'[u] # "no"
  BY <1>0, <1>1 DEF TypeOK
<1>4. /\ wAt' \in [Workers -> WorkerPC]
      /\ wMem' \in [Workers -> Seq(Tasks)]
      /\ wSpool' \in [Workers -> Seq(File)]
      /\ \A w \in Workers : wAt'[w] = "off" /\ wMem'[w] = << >> /\ wSpool'[w] = << >>
  BY <1>1, EmptySeq DEF WorkerPC
<1>5. TypeOK'
  <2>1. excused' \in SUBSET Tasks
    BY <1>0, <1>1 DEF TypeOK
  <2>2. queue' \in Seq(Tasks) /\ files' \in Seq(File)
    BY <1>1, EmptySeq
  <2>3. \A w \in Workers :
          /\ wMem'[w] # << >> <=> wAt'[w] \in {"mem", "putback"}
          /\ wSpool'[w] # << >> <=> wAt'[w] \in {"spool", "ack"}
    BY <1>4
  <2>4. notify' \in BOOLEAN /\ phase' \in {"down", "new", "running", "stopped"}
    BY <1>1
  <2>5. QED
    BY <1>0, <1>1, <1>2, <1>3, <1>4, <2>1, <2>2, <2>3, <2>4 DEF TypeOK
<1>6. Quiet'
  BY <1>1, <1>2, <1>4 DEF Quiet, Calling
<1>7. Locked'
  BY <1>1, <1>2 DEF Locked, Calling
<1>8. Ordered' /\ Batched'
  BY <1>1, <1>4 DEF Ordered, Batched, Increasing, ToSet
<1>9. Covered' /\ Answered'
  BY <1>1, <1>4 DEF Covered, Answered
<1>10. WithinBudget'
  BY <1>0, <1>1, CapacityAssumption, LimitsAssumption DEF WithinBudget, TypeOK
<1>11. NoSilentLoss'
  <2>1. \A u \in Tasks : Accounted(u) => Accounted(u)'
    BY <1>1, <1>3 DEF Accounted, OnDisk, Resolved
  <2>2. QED
    BY <1>0, <1>2, <2>1, AccountsKept
<1>12. QED
  BY <1>5, <1>6, <1>7, <1>8, <1>9, <1>10, <1>11 DEF Inv

\* A listing of a finite directory is a sequence of files in order.
LEMMA OrderingType ==
  ASSUME NEW S \in SUBSET File, IsFiniteSet(S), NEW s \in Orderings(S)
  PROVE  s \in Seq(File) /\ Increasing(s) /\ ToSet(s) = S
<1>1. Cardinality(S) \in Nat
  BY FS_CardinalityType
<1>2. s \in [1..Cardinality(S) -> S]
  BY DEF Orderings
<1>3. s \in Seq(File)
  BY <1>1, <1>2
<1>4. QED
  BY <1>3 DEF Orderings, Increasing

\* newSubmitSpool rebuilds the index from the directory.
LEMMA NewClientInv ==
  ASSUME Inv, NewClient
  PROVE  Inv'
<1>0. TypeOK /\ NoSilentLoss /\ Answered
  BY DEF Inv
<1>1. /\ phase = "down"
      /\ diskSpill' \in BOOLEAN
      /\ maxBytes' \in Limits
      /\ UNCHANGED <<up, pc, buffer, spoolLock, retry, deliveries, excused>>
  BY DEF NewClient
<1>2. /\ \A t \in Tasks : pc[t] \notin Calling
      /\ \A w \in Workers : wAt[w] = "off" /\ wSpool[w] = << >>
      /\ currentBytes = 0 /\ files = << >> /\ spoolLock = Nobody
  BY <1>0, <1>1 DEF Inv, Quiet, Locked, TypeOK
<1>3. CASE \/ /\ ~diskSpill'
              /\ phase' = "new"
              /\ UNCHANGED <<index, disk, lostBy>>
           \/ /\ UNCHANGED <<phase, index>>
              /\ \E s \in Orderings(disk) : \E k \in 0..Len(s) :
                   /\ disk' = disk \ ToSet(SubSeq(s, 1, k))
                   /\ lostBy' = [t \in Tasks |->
                        IF t \in Removed(s, k) THEN "evicted" ELSE lostBy[t]]
  <2>1. /\ disk' \subseteq disk
        /\ IsFiniteSet(disk')
        /\ lostBy' \in [Tasks -> {"no", "trimmed", "evicted", "crashed", "removed"}]
        /\ \A u \in Tasks : lostBy[u] # "no" => lostBy'[u] # "no"
        /\ \A f \in disk : f \in disk' \/ lostBy'[f.task] # "no"
        /\ phase' \in {"down", "new"} /\ (phase' # "down" => ~diskSpill')
        /\ UNCHANGED index
    <3>1. lostBy \in [Tasks -> {"no", "trimmed", "evicted", "crashed", "removed"}]
          /\ disk \in SUBSET File /\ IsFiniteSet(disk)
      BY <1>0 DEF TypeOK
    <3>2. CASE ~diskSpill' /\ phase' = "new" /\ UNCHANGED <<index, disk, lostBy>>
      BY <3>1, <3>2
    <3>3. ASSUME UNCHANGED <<phase, index>>,
                 NEW s \in Orderings(disk), NEW k \in 0..Len(s),
                 disk' = disk \ ToSet(SubSeq(s, 1, k)),
                 lostBy' = [t \in Tasks |->
                        IF t \in Removed(s, k) THEN "evicted" ELSE lostBy[t]]
          PROVE  /\ disk' \subseteq disk
                 /\ IsFiniteSet(disk')
                 /\ lostBy' \in [Tasks -> {"no", "trimmed", "evicted", "crashed", "removed"}]
                 /\ \A u \in Tasks : lostBy[u] # "no" => lostBy'[u] # "no"
                 /\ \A f \in disk : f \in disk' \/ lostBy'[f.task] # "no"
                 /\ phase' = "down"
                 /\ UNCHANGED index
      <4>1. disk' \subseteq disk /\ IsFiniteSet(disk')
        BY <3>1, <3>3, FS_Subset
      <4>2. \A f \in disk : f \in disk' \/ (f.task \in Tasks /\ f.task \in Removed(s, k))
        BY <3>1, <3>3 DEF Removed, File
      <4>3. QED
        BY <1>1, <3>1, <3>3, <4>1, <4>2
    <3>4. QED
      BY <1>3, <3>2, <3>3
  <2>2. TypeOK'
    BY <1>0, <1>1, <2>1 DEF TypeOK, buffer, index, retry
  <2>3. Quiet' /\ Locked'
    BY <1>1, <1>2, <2>1 DEF Quiet, Locked, index, retry, Calling
  <2>4. Ordered' /\ Covered' /\ Batched'
    BY <1>1, <2>1 DEF Inv, Ordered, Covered, Batched, Fresh, Increasing, index, retry
  <2>5. Answered'
    BY <1>0, <1>1, AnsweredKept DEF retry, Resolved
  <2>6. WithinBudget'
    <3>1. maxBytes' \in Nat
      BY <1>1, LimitsAssumption
    <3>2. currentBytes' = 0
      BY <1>2, <2>1 DEF index
    <3>3. Len(queue') <= Capacity
      BY <1>1 DEF Inv, WithinBudget, buffer
    <3>4. QED
      BY <3>1, <3>2, <3>3 DEF WithinBudget
  <2>7. NoSilentLoss'
    <3>1. \A u \in Tasks : OnDisk(u) => OnDisk(u)' \/ lostBy'[u] # "no"
      BY <2>1 DEF OnDisk
    <3>2. \A u \in Tasks : Accounted(u) => Accounted(u)'
      BY <1>1, <2>1, <3>1 DEF Accounted, InMemory, Resolved, buffer, retry
    <3>3. QED
      BY <1>0, <1>1, <3>2, AccountsKept
  <2>8. QED
    BY <2>2, <2>3, <2>4, <2>5, <2>6, <2>7 DEF Inv
<1>4. ASSUME phase' = "new", diskSpill',
             NEW s \in Orderings(disk), NEW now \in 0..MaxNow,
             NEW k \in 0..Len(s), NEW total \in 0..maxBytes',
             nextSeq' = IF maxSeq(s) >= now THEN maxSeq(s) + 1 ELSE now,
             files' = DropFirst(s, k),
             currentBytes' = total,
             disk' = disk \ ToSet(SubSeq(s, 1, k)),
             lostBy' = [t \in Tasks |->
                          IF t \in Removed(s, k) THEN "evicted" ELSE lostBy[t]]
      PROVE  Inv'
  <2>1. /\ lostBy \in [Tasks -> {"no", "trimmed", "evicted", "crashed", "removed"}]
        /\ disk \in SUBSET File /\ IsFiniteSet(disk)
    BY <1>0 DEF TypeOK
  <2>2. s \in Seq(File) /\ Increasing(s) /\ ToSet(s) = disk
    BY <2>1, OrderingType
  <2>3. /\ files' \in Seq(File)
        /\ Increasing(files')
        /\ ToSet(s) = ToSet(SubSeq(s, 1, k)) \cup ToSet(files')
    BY <1>4, <2>2, DropFirstType, IncreasingDrop
  <2>4. /\ disk' \subseteq ToSet(files')
        /\ disk' \subseteq disk /\ IsFiniteSet(disk')
    BY <1>4, <2>1, <2>2, <2>3, FS_Subset
  <2>5. maxSeq(s) \in Nat /\ \A f \in ToSet(s) : f.seq \in Nat /\ f.seq <= maxSeq(s)
    <3>1. Len(s) \in Nat /\ DOMAIN s = 1..Len(s)
      BY <2>2, LenProperties
    <3>2. CASE s = << >>
      BY <3>2 DEF maxSeq, ToSet
    <3>3. CASE s # << >>
      <4>1. Len(s) \in DOMAIN s
        BY <2>2, <3>1, <3>3, EmptySeq
      <4>2. \A i \in DOMAIN s : s[i].seq \in Nat
        <5>1. \A i \in DOMAIN s : s[i] \in File
          BY <2>2, <3>1, ElementOfSeq
        <5>2. QED
          BY <5>1 DEF File
      <4>3. \A i \in DOMAIN s : s[i].seq <= s[Len(s)].seq
        BY <2>2, <3>1, <4>1, <4>2 DEF Increasing
      <4>4. maxSeq(s) = s[Len(s)].seq
        BY <3>3 DEF maxSeq
      <4>5. QED
        BY <4>1, <4>2, <4>3, <4>4 DEF ToSet
    <3>4. QED
      BY <3>2, <3>3
  <2>6. nextSeq' \in Nat /\ maxSeq(s) < nextSeq'
    BY <1>4, <2>5, ClockAssumption
  <2>7. /\ lostBy' \in [Tasks -> {"no", "trimmed", "evicted", "crashed", "removed"}]
        /\ \A u \in Tasks : lostBy[u] # "no" => lostBy'[u] # "no"
    BY <1>4, <2>1
  <2>8. \A f \in disk : f \in disk' \/ lostBy'[f.task] # "no"
    <3>1. \A f \in disk : f \in disk' \/ (f.task \in Tasks /\ f.task \in Removed(s, k))
      BY <1>4, <2>1 DEF Removed, File
    <3>2. QED
      BY <1>4, <3>1
  <2>9. TypeOK'
    <3>1. total \in Int /\ phase' \in {"down", "new", "running", "stopped"}
      BY <1>1, <1>4, LimitsAssumption
    <3>2. QED
      BY <1>0, <1>1, <1>4, <2>1, <2>3, <2>4, <2>6, <2>7, <3>1 DEF TypeOK, buffer, retry
  <2>10. Quiet' /\ Locked'
    BY <1>1, <1>2, <1>4 DEF Quiet, Locked, Calling
  <2>11. Ordered'
    <3>1. Fresh' = nextSeq'
      BY <1>1, <1>2 DEF Fresh
    <3>2. \A f \in ToSet(files') : f.seq < nextSeq'
      BY <2>3, <2>5, <2>6
    <3>3. QED
      BY <2>3, <3>1, <3>2 DEF Ordered, Increasing
  <2>12. Covered'
    BY <2>4 DEF Covered
  <2>13. Batched' /\ Answered'
    BY <1>1, <1>2 DEF Batched, Answered, ToSet, retry
  <2>14. WithinBudget'
    BY <1>1, <1>4, LimitsAssumption DEF Inv, WithinBudget, buffer
  <2>15. NoSilentLoss'
    <3>1. \A u \in Tasks : OnDisk(u) => OnDisk(u)' \/ lostBy'[u] # "no"
      BY <2>8 DEF OnDisk
    <3>2. \A u \in Tasks : Accounted(u) => Accounted(u)'
      BY <1>1, <2>7, <3>1 DEF Accounted, InMemory, Resolved, buffer, retry
    <3>3. QED
      BY <1>0, <1>1, <3>2, AccountsKept
  <2>16. QED
    BY <2>9, <2>10, <2>11, <2>12, <2>13, <2>14, <2>15 DEF Inv
<1>5. QED
  BY <1>1, <1>3, <1>4 DEF NewClient

-----------------------------------------------------------------------------
(* The theorems.                                                           *)

\* The outside world: the scheduler goes away and comes back.
LEMMA SchedulerFlipsInv ==
  ASSUME Inv, SchedulerFlips
  PROVE  Inv'
<1>1. UNCHANGED <<proc, pc, buffer, index, spoolLock, disk, retry, ghost>>
      /\ up' = ~up
  BY DEF SchedulerFlips
<1>2. TypeOK'
  BY <1>1 DEF Inv, TypeOK, proc, buffer, index, retry, ghost
<1>3. QED
  BY <1>1, <1>2 DEF Inv, Quiet, Locked, Ordered, Covered, Batched, Answered,
     WithinBudget, NoSilentLoss, Accounted, InMemory, OnDisk, Resolved, Fresh,
     Increasing, proc, buffer, index, retry, ghost

\* A stuttering step keeps the invariant.
LEMMA StutterInv ==
  ASSUME Inv, UNCHANGED vars
  PROVE  Inv'
BY DEF Inv, TypeOK, Quiet, Locked, Ordered, Covered, Batched, Answered,
     WithinBudget, NoSilentLoss, Accounted, InMemory, OnDisk, Resolved, Fresh,
     Increasing, vars, proc, buffer, index, retry, ghost

\* Every step keeps the invariant.
LEMMA StepInv ==
  ASSUME Inv, [Next]_vars
  PROVE  Inv'
<1>1. ASSUME NEW t \in Tasks, Enqueuing(t)
      PROVE  Inv'
  BY <1>1, SubmitDirectInv, PushMemInv, SpillBeginInv, SpillEvictInv, SpillWriteInv
     DEF Enqueuing
<1>2. ASSUME NEW w \in Workers, Retrying(w)
      PROVE  Inv'
  BY <1>2, WakeInv, RetryExitInv, FlushMemInv, PutBackInv, DrainSpoolInv,
     FlushSpoolInv, AckSpoolInv
     DEF Retrying
<1>3. CASE Start \/ Stop
  BY <1>3, StartStopInv
<1>4. CASE Crash
  BY <1>4, CrashInv
<1>5. CASE NewClient
  BY <1>5, NewClientInv
<1>6. CASE SchedulerFlips
  BY <1>6, SchedulerFlipsInv
<1>7. CASE FileVanishes
  BY <1>7, FileVanishesInv
<1>8. CASE UNCHANGED vars
  BY <1>8, StutterInv
<1>9. QED
  BY <1>1, <1>2, <1>3, <1>4, <1>5, <1>6, <1>7, <1>8 DEF Next

\* The invariant holds in every reachable state.
THEOREM Invariance == Spec => []Inv
<1>1. Init => Inv
  BY InitInv
<1>2. Inv /\ [Next]_vars => Inv'
  BY StepInv
<1>3. QED
  BY <1>1, <1>2, PTL DEF Spec

\* Type correctness of the submission path.
THEOREM TypeCorrect == Spec => []TypeOK
<1>1. Inv => TypeOK
  BY DEF Inv
<1>2. QED
  BY <1>1, Invariance, PTL

\* A task for which EnqueueTask returned queued=true is held somewhere,
\* answered, or lost at one of the four points the code knows of.
THEOREM NoLoss == Spec => []NoSilentLoss
<1>1. Inv => NoSilentLoss
  BY DEF Inv
<1>2. QED
  BY <1>1, Invariance, PTL

\* The queue of submitBuffer keeps its capacity and submitSpool its bytes.
THEOREM Budget == Spec => []WithinBudget
<1>1. Inv => WithinBudget
  BY DEF Inv
<1>2. QED
  BY <1>1, Invariance, PTL

\* The index of submitSpool is the directory, in the order of the numbers.
THEOREM IndexIsComplete == Spec => []IndexCoversDisk
<1>1. Inv => IndexCoversDisk
  <2> SUFFICES ASSUME Inv, phase # "down", diskSpill
               PROVE  /\ Increasing(files)
                      /\ \A i \in DOMAIN files : files[i].seq < nextSeq
                      /\ disk \subseteq ToSet(files)
    BY DEF IndexCoversDisk
  <2>1. Increasing(files) /\ disk \subseteq ToSet(files)
    BY DEF Inv, Ordered, Covered
  <2>2. nextSeq \in Nat
    BY DEF Inv, TypeOK
  <2>3. \A i \in DOMAIN files : files[i] \in ToSet(files) /\ files[i] \in File
    BY ElementOfSeq, LenProperties DEF Inv, TypeOK, ToSet
  <2>4. \A i \in DOMAIN files : files[i].seq \in Nat /\ files[i].seq < Fresh
    BY <2>3 DEF Inv, Ordered, File
  <2>5. QED
    BY <2>1, <2>2, <2>4 DEF Fresh
<1>2. QED
  BY <1>1, Invariance, PTL

-----------------------------------------------------------------------------
(* What a step may do to the directory.                                    *)

\* The steps that touch the spool directory.
LEMMA DiskSteps ==
  ASSUME [Next]_vars
  PROVE  \/ UNCHANGED disk
         \/ \E t \in Tasks : SpillEvict(t) \/ SpillWrite(t)
         \/ \E w \in Workers : AckSpool(w)
         \/ NewClient
         \/ FileVanishes
<1>1. ASSUME NEW t \in Tasks, SubmitDirect(t) \/ PushMem(t) \/ SpillBegin(t)
      PROVE  UNCHANGED disk
  BY <1>1 DEF SubmitDirect, PushMem, SpillBegin
<1>2. ASSUME NEW w \in Workers,
             \/ Wake(w) \/ RetryExit(w) \/ FlushMem(w) \/ PutBack(w)
             \/ DrainSpool(w) \/ FlushSpool(w)
      PROVE  UNCHANGED disk
  BY <1>2 DEF Wake, RetryExit, FlushMem, PutBack, DrainSpool, FlushSpool
<1>3. Start \/ Stop \/ Crash \/ SchedulerFlips \/ UNCHANGED vars => UNCHANGED disk
  BY DEF Start, Stop, Crash, SchedulerFlips, vars
<1>4. QED
  BY <1>1, <1>2, <1>3 DEF Next, Enqueuing, Retrying

\* NewClient only removes files, and records them as evicted.
LEMMA NewClientDisk ==
  ASSUME Inv, NewClient
  PROVE  /\ disk' \subseteq disk
         /\ \A f \in disk : f \notin disk' => lostBy'[f.task] = "evicted"
<1>1. \/ UNCHANGED disk
      \/ \E s \in Orderings(disk) : \E k \in 0..Len(s) :
           /\ disk' = disk \ ToSet(SubSeq(s, 1, k))
           /\ lostBy' = [t \in Tasks |->
                IF t \in Removed(s, k) THEN "evicted" ELSE lostBy[t]]
  BY DEF NewClient
<1>2. ASSUME NEW s, NEW k,
             disk' = disk \ ToSet(SubSeq(s, 1, k)),
             lostBy' = [t \in Tasks |->
                IF t \in Removed(s, k) THEN "evicted" ELSE lostBy[t]]
      PROVE  \A f \in disk : f \notin disk' => lostBy'[f.task] = "evicted"
  <2>1. \A f \in disk : f.task \in Tasks
    BY DEF Inv, TypeOK, File
  <2>2. \A f \in disk : f \notin disk' => f.task \in Removed(s, k)
    BY <1>2 DEF Removed
  <2>3. QED
    BY <1>2, <2>1, <2>2
<1>3. QED
  BY <1>1, <1>2

\* SpillEvict removes at most the oldest file, and records it.
LEMMA SpillEvictDisk ==
  ASSUME Inv, NEW t \in Tasks, SpillEvict(t)
  PROVE  /\ disk' \subseteq disk
         /\ \A f \in disk : f \notin disk' => lostBy'[f.task] = "evicted"
<1>1. CASE /\ disk' = disk \ {Head(files)}
           /\ lostBy' = [lostBy EXCEPT ![Head(files).task] = "evicted"]
  <2>1. \A f \in disk : f.task \in Tasks
    BY DEF Inv, TypeOK, File
  <2>2. DOMAIN lostBy = Tasks
    BY DEF Inv, TypeOK
  <2>3. QED
    BY <1>1, <2>1, <2>2
<1>2. CASE UNCHANGED disk
  BY <1>2
<1>3. QED
  BY <1>1, <1>2 DEF SpillEvict, SpillFails

\* AckSpool removes the file the scheduler has answered for, also when the
\* index was changed by others since the worker read it.
LEMMA AckSpoolDisk ==
  ASSUME Inv, NEW w \in Workers, AckSpool(w)
  PROVE  /\ disk' \subseteq disk
         /\ \A f \in disk : f \notin disk' => Resolved(f.task)'
<1>1. UNCHANGED deliveries
  BY DEF AckSpool, NextFile
<1>2. Resolved(Head(wSpool[w]).task) /\ Head(wSpool[w]) \in ToSet(wSpool[w])
  <2>1. wSpool[w] \in Seq(File) /\ wSpool[w] # << >>
    BY DEF AckSpool, Inv, TypeOK
  <2>2. QED
    BY <2>1, ElemsHeadTail DEF AckSpool, Inv, Answered
<1>3. CASE UNCHANGED disk
  BY <1>3
<1>4. ASSUME NEW i \in DOMAIN files, files[i].seq = Head(wSpool[w]).seq,
             disk' = disk \ {files[i]}
      PROVE  \A f \in disk : f \notin disk' => Resolved(f.task)'
  <2>1. files[i] \in ToSet(files)
    BY <1>4 DEF ToSet
  <2>2. files[i] = Head(wSpool[w])
    BY <1>2, <1>4, <2>1 DEF Inv, Batched
  <2>3. QED
    BY <1>1, <1>2, <1>4, <2>2 DEF Resolved
<1>5. UNCHANGED disk \/ \E i \in DOMAIN files :
        files[i].seq = Head(wSpool[w]).seq /\ disk' = disk \ {files[i]}
  BY DEF AckSpool
<1>6. QED
  BY <1>3, <1>4, <1>5

\* SpillWrite adds at most a file with a greater number than all others.
LEMMA SpillWriteDisk ==
  ASSUME Inv, NEW t \in Tasks, SpillWrite(t)
  PROVE  /\ disk \subseteq disk'
         /\ \A f \in disk' \ disk : \A g \in disk : g.seq < f.seq
<1>1. pc[t] = "evict" /\ spoolLock = t /\ spoolLock # Nobody
  BY NobodyAssumption DEF SpillWrite, Inv, Locked
<1>2. phase # "down" /\ diskSpill /\ Fresh = nextSeq - 1
  BY <1>1 DEF Inv, Quiet, Locked, Calling, Fresh
<1>3. \A g \in disk : g.seq < nextSeq - 1
  BY <1>2 DEF Inv, Covered, Ordered
<1>4. CASE UNCHANGED disk
  BY <1>4
<1>5. CASE disk' = disk \cup {[seq |-> nextSeq - 1, task |-> t]}
  BY <1>3, <1>5
<1>6. QED
  BY <1>4, <1>5 DEF SpillWrite, SpillFails

\* FileVanishes removes a file and records it.
LEMMA FileVanishesDisk ==
  ASSUME Inv, FileVanishes
  PROVE  /\ disk' \subseteq disk
         /\ \A f \in disk : f \notin disk' => lostBy'[f.task] = "removed"
<1>1. \A f \in disk : f.task \in Tasks
  BY DEF Inv, TypeOK, File
<1>2. DOMAIN lostBy = Tasks
  BY DEF Inv, TypeOK
<1>3. QED
  BY <1>1, <1>2 DEF FileVanishes

\* Replay is in push order: a new file has the greatest number, also after a
\* restart with a clock that went back.
THEOREM FIFO == Spec => SpoolFIFO
<1>1. ASSUME Inv, [Next]_vars
      PROVE  \A f \in disk' \ disk : \A g \in disk : g.seq < f.seq
  BY <1>1, DiskSteps, SpillEvictDisk, SpillWriteDisk, AckSpoolDisk,
     NewClientDisk, FileVanishesDisk
<1>2. Inv /\ [Next]_vars =>
        [\A f \in disk' \ disk : \A g \in disk : g.seq < f.seq]_vars
  BY <1>1
<1>3. QED
  BY <1>2, Invariance, PTL DEF Spec, SpoolFIFO

\* A spilled task leaves the disk only answered, evicted or removed by others.
THEOREM Durable == Spec => SpoolDurable
<1>1. ASSUME Inv, [Next]_vars, NEW f \in disk, f \notin disk'
      PROVE  Resolved(f.task)' \/ lostBy'[f.task] \in {"evicted", "removed"}
  BY <1>1, DiskSteps, SpillEvictDisk, SpillWriteDisk, AckSpoolDisk,
     NewClientDisk, FileVanishesDisk
<1>2. ASSUME Inv, [Next]_vars, NEW t \in Tasks, OnDisk(t), ~OnDisk(t)'
      PROVE  Resolved(t)' \/ lostBy'[t] \in {"evicted", "removed"}
  BY <1>1, <1>2 DEF OnDisk
<1>3. Inv /\ [Next]_vars =>
        [\A t \in Tasks : OnDisk(t) /\ ~OnDisk(t)' =>
           Resolved(t)' \/ lostBy'[t] \in {"evicted", "removed"}]_vars
  BY <1>2
<1>4. QED
  BY <1>3, Invariance, PTL DEF Spec, SpoolDurable

-----------------------------------------------------------------------------
(* Who holds a task.  A task is handed to the buffer once, so it has one   *)
(* place in memory or one file, and neither before EnqueueTask accepted it. *)

\* The tasks in memory have one place each, and their calls have returned.
MemoryOnce ==
  /\ IsInjective(queue)
  /\ \A w \in Workers : IsInjective(wMem[w])
  /\ \A w \in Workers : ToSet(wMem[w]) \cap ToSet(queue) = {}
  /\ \A v, w \in Workers : v # w => ToSet(wMem[v]) \cap ToSet(wMem[w]) = {}
  /\ \A t \in Tasks : InMemory(t) => pc[t] = "queued"

\* The files somebody knows of: on disk, in the index or in a batch.
AllFiles == disk \cup ToSet(files) \cup UNION {ToSet(wSpool[w]) : w \in Workers}

FilesOnce ==
  /\ \A f \in AllFiles : pc[f.task] = "queued" /\ ~InMemory(f.task)
  /\ \A f, g \in AllFiles : f.task = g.task => f = g
  /\ \A w \in Workers : wSpool[w] # << >> => diskSpill

Custody == MemoryOnce /\ FilesOnce

\* An empty sequence has no elements, and none twice.
LEMMA EmptyElems == ToSet(<< >>) = {} /\ IsInjective(<< >>)
BY DEF ToSet, IsInjective

\* The known files are files.
LEMMA AllFilesType ==
  ASSUME TypeOK
  PROVE  \A f \in AllFiles : f \in File /\ f.task \in Tasks
<1>1. disk \subseteq File
  BY DEF TypeOK
<1>2. \A f \in disk : f.task \in Tasks
  BY <1>1 DEF File
<1>3. QED
  BY <1>1, <1>2, FilesListed DEF AllFiles

\* Whatever only moves tasks within the memory, or out of it.
LEMMA MemoryShrinks ==
  ASSUME MemoryOnce, queue' = queue,
         \A w \in Workers : IsInjective(wMem'[w]) /\ ToSet(wMem'[w]) \subseteq ToSet(wMem[w]),
         \A t \in Tasks : pc[t] = "queued" => pc'[t] = "queued"
  PROVE  MemoryOnce' /\ \A t \in Tasks : InMemory(t)' => InMemory(t)
<1>1. \A t \in Tasks : InMemory(t)' => InMemory(t)
  BY DEF InMemory
<1>2. QED
  BY <1>1 DEF MemoryOnce

\* A call that was accepted stays accepted.
LEMMA QueuedStays ==
  ASSUME Inv, [Next]_vars
  PROVE  \A t \in Tasks : pc[t] = "queued" => pc'[t] = "queued"
<1>1. ASSUME NEW u \in Tasks, Enqueuing(u)
      PROVE  \A t \in Tasks : pc[t] = "queued" => pc'[t] = "queued"
  <2>1. pc[u] # "queued" /\ \A t \in Tasks \ {u} : pc'[t] = pc[t]
    BY <1>1 DEF Enqueuing, SubmitDirect, PushMem, SpillBegin, SpillEvict, SpillWrite, SpillFails,
                Inv, TypeOK
  <2>2. QED
    BY <2>1
<1>2. ASSUME NEW w \in Workers, Retrying(w)
      PROVE  pc' = pc
  BY <1>2 DEF Retrying, Wake, RetryExit, FlushMem, PutBack, DrainSpool, FlushSpool, AckSpool, NextFile
<1>3. Start \/ Stop \/ NewClient \/ SchedulerFlips \/ FileVanishes \/ UNCHANGED vars => pc' = pc
  BY DEF Start, Stop, NewClient, SchedulerFlips, FileVanishes, vars
<1>4. Crash => \A t \in Tasks : pc[t] = "queued" => pc'[t] = "queued"
  BY DEF Crash, Calling, Inv, TypeOK
<1>5. QED
  BY <1>1, <1>2, <1>3, <1>4 DEF Next

\* The steps that touch the queue or a batch from it.
LEMMA MemorySteps ==
  ASSUME [Next]_vars
  PROVE  \/ UNCHANGED <<queue, wMem>>
         \/ \E t \in Tasks : PushMem(t)
         \/ \E w \in Workers : Wake(w) \/ FlushMem(w) \/ PutBack(w)
         \/ Crash
<1>1. ASSUME NEW t \in Tasks, SubmitDirect(t) \/ SpillBegin(t) \/ SpillEvict(t) \/ SpillWrite(t)
      PROVE  UNCHANGED <<queue, wMem>>
  BY <1>1 DEF SubmitDirect, SpillBegin, SpillEvict, SpillWrite, buffer, retry
<1>2. ASSUME NEW w \in Workers, RetryExit(w) \/ DrainSpool(w) \/ FlushSpool(w) \/ AckSpool(w)
      PROVE  UNCHANGED <<queue, wMem>>
  BY <1>2 DEF RetryExit, DrainSpool, FlushSpool, AckSpool, NextFile, buffer
<1>3. Start \/ Stop \/ NewClient \/ SchedulerFlips \/ FileVanishes \/ UNCHANGED vars
        => UNCHANGED <<queue, wMem>>
  BY DEF Start, Stop, NewClient, SchedulerFlips, FileVanishes, vars, buffer, retry
<1>4. QED
  BY <1>1, <1>2, <1>3 DEF Next, Enqueuing, Retrying

\* submitBuffer.push takes a task that nobody holds.
LEMMA PushMemOnce ==
  ASSUME Inv, MemoryOnce, NEW t \in Tasks, PushMem(t)
  PROVE  /\ MemoryOnce'
         /\ \A u \in Tasks : InMemory(u)' => InMemory(u) \/ (u = t /\ pc[t] # "queued")
<1>1. /\ wMem' = wMem /\ pc[t] # "queued" /\ ~InMemory(t)
      /\ \A u \in Tasks \ {t} : pc'[u] = pc[u]
  BY DEF PushMem, retry, MemoryOnce, Inv, TypeOK
<1>2. CASE queue' = Append(queue, t) /\ pc' = [pc EXCEPT ![t] = "queued"]
  <2>1. t \notin ToSet(queue) /\ \A w \in Workers : t \notin ToSet(wMem[w])
    BY <1>1 DEF InMemory
  <2>2. IsInjective(queue') /\ ToSet(queue') = ToSet(queue) \cup {t}
    BY <1>2, <2>1, ElemsAppend, InjectiveAppend DEF Inv, TypeOK, MemoryOnce
  <2>3. pc'[t] = "queued"
    BY <1>2 DEF Inv, TypeOK
  <2>4. \A u \in Tasks : InMemory(u)' <=> InMemory(u) \/ u = t
    BY <1>1, <2>2 DEF InMemory
  <2>5. \A u \in Tasks : InMemory(u)' => pc'[u] = "queued"
    BY <1>1, <2>3, <2>4 DEF MemoryOnce
  <2>6. \A w \in Workers : ToSet(wMem'[w]) \cap ToSet(queue') = {}
    BY <1>1, <2>1, <2>2 DEF MemoryOnce
  <2>7. QED
    BY <1>1, <2>2, <2>4, <2>5, <2>6 DEF MemoryOnce
<1>3. CASE UNCHANGED buffer
  <2>1. \A u \in Tasks : pc[u] = "queued" => pc'[u] = "queued"
    BY <1>1
  <2>2. \A u \in Tasks : InMemory(u)' <=> InMemory(u)
    BY <1>1, <1>3 DEF InMemory, buffer
  <2>3. QED
    BY <1>1, <1>3, <2>1, <2>2 DEF MemoryOnce, buffer
<1>4. QED
  BY <1>2, <1>3 DEF PushMem

\* submitBuffer.drain hands the front of the queue over.
LEMMA WakeOnce ==
  ASSUME Inv, MemoryOnce, NEW w \in Workers, Wake(w)
  PROVE  MemoryOnce' /\ \A u \in Tasks : InMemory(u)' => InMemory(u)
<1> DEFINE n == BatchOf(Len(queue))
<1>1. /\ pc' = pc /\ wMem[w] = << >>
      /\ wMem' = [wMem EXCEPT ![w] = SubSeq(queue, 1, n)]
      /\ queue' = DropFirst(queue, n)
  BY DEF Wake, Inv, TypeOK
<1>2. queue \in Seq(Tasks) /\ n \in 0..Len(queue) /\ IsInjective(queue)
  BY BatchBound, LenProperties DEF Inv, TypeOK, MemoryOnce
<1> DEFINE b == SubSeq(queue, 1, n)
<1>3. /\ IsInjective(b) /\ IsInjective(queue')
      /\ ToSet(b) \cap ToSet(queue') = {}
      /\ ToSet(queue) = ToSet(b) \cup ToSet(queue')
  BY <1>1, <1>2, InjectiveSplit, DropFirstType DEF DropFirst
<1>4. \A v \in Workers : wMem'[v] = IF v = w THEN b ELSE wMem[v]
  BY <1>1 DEF Inv, TypeOK
<1> HIDE DEF n, b
<1>5. \A u \in Tasks : InMemory(u)' => InMemory(u)
  BY <1>3, <1>4 DEF InMemory
<1>6. \A v \in Workers :
        /\ IsInjective(wMem'[v])
        /\ v # w => ToSet(wMem'[v]) = ToSet(wMem[v])
        /\ v = w => ToSet(wMem'[v]) = ToSet(b)
        /\ ToSet(wMem[v]) \cap ToSet(queue) = {}
  BY <1>3, <1>4 DEF MemoryOnce
<1>7. \A v \in Workers : ToSet(wMem'[v]) \cap ToSet(queue') = {}
  BY <1>3, <1>6
<1>8. \A v, x \in Workers : v # x => ToSet(wMem'[v]) \cap ToSet(wMem'[x]) = {}
  BY <1>3, <1>6 DEF MemoryOnce
<1>9. \A u \in Tasks : InMemory(u)' => pc'[u] = "queued"
  BY <1>1, <1>5 DEF MemoryOnce
<1>10. QED
  BY <1>3, <1>5, <1>6, <1>7, <1>8, <1>9 DEF MemoryOnce

\* A batch gets shorter.
LEMMA FlushMemOnce ==
  ASSUME Inv, MemoryOnce, NEW w \in Workers, FlushMem(w)
  PROVE  /\ MemoryOnce'
         /\ \A u \in Tasks : InMemory(u)' => InMemory(u)
         /\ \E h \in Tasks :
              h = Head(wMem[w]) /\ InMemory(h) /\ (wMem' = wMem \/ ~InMemory(h)')
<1>1. /\ queue' = queue /\ pc' = pc
      /\ wMem[w] \in Seq(Tasks) /\ wMem[w] # << >>
      /\ wMem' = wMem \/ wMem' = [wMem EXCEPT ![w] = Tail(@)]
  BY DEF FlushMem, buffer, Inv, TypeOK
<1>2. PICK h \in Tasks :
        /\ h = Head(wMem[w])
        /\ ToSet(wMem[w]) = ToSet(Tail(wMem[w])) \cup {h}
        /\ IsInjective(Tail(wMem[w])) /\ h \notin ToSet(Tail(wMem[w]))
  BY <1>1, ElemsHeadTail, InjectiveTail DEF MemoryOnce
<1>3. InMemory(h)
  BY <1>2 DEF InMemory
<1>4. CASE wMem' = wMem
  <2>1. \A v \in Workers : IsInjective(wMem'[v]) /\ ToSet(wMem'[v]) \subseteq ToSet(wMem[v])
    BY <1>4 DEF MemoryOnce
  <2>2. QED
    BY <1>1, <1>2, <1>3, <1>4, <2>1, MemoryShrinks
<1>5. CASE wMem' = [wMem EXCEPT ![w] = Tail(@)]
  <2>1. \A v \in Workers : wMem'[v] = IF v = w THEN Tail(wMem[w]) ELSE wMem[v]
    BY <1>5 DEF Inv, TypeOK
  <2>2. \A v \in Workers : IsInjective(wMem'[v]) /\ ToSet(wMem'[v]) \subseteq ToSet(wMem[v])
    BY <1>2, <2>1 DEF MemoryOnce
  <2>3. h \notin ToSet(queue) /\ \A v \in Workers : h \notin ToSet(wMem'[v])
    BY <1>2, <2>1 DEF MemoryOnce
  <2>4. ~InMemory(h)'
    BY <1>1, <2>3 DEF InMemory
  <2>5. QED
    BY <1>1, <1>2, <1>3, <2>2, <2>4, MemoryShrinks
<1>6. QED
  BY <1>1, <1>4, <1>5

\* submitBuffer.putBack joins the batch and the queue, and cuts at the front.
LEMMA PutBackOnce ==
  ASSUME Inv, MemoryOnce, NEW w \in Workers, PutBack(w)
  PROVE  MemoryOnce' /\ \A u \in Tasks : InMemory(u)' => InMemory(u)
<1> DEFINE merged == wMem[w] \o queue
           over   == IF Len(merged) > Capacity THEN Len(merged) - Capacity ELSE 0
<1>1. /\ pc' = pc
      /\ queue' = DropFirst(merged, over)
      /\ wMem' = [wMem EXCEPT ![w] = << >>]
  BY DEF PutBack
<1>2. /\ merged \in Seq(Tasks) /\ IsInjective(merged)
      /\ ToSet(merged) = ToSet(wMem[w]) \cup ToSet(queue)
  <2>1. wMem[w] \in Seq(Tasks) /\ queue \in Seq(Tasks)
    BY DEF Inv, TypeOK
  <2>2. QED
    BY <2>1, ElemsConcat, InjectiveConcat DEF MemoryOnce
<1> HIDE DEF merged
<1>3. over \in 0..Len(merged)
  <2>1. Len(merged) \in Nat
    BY <1>2, LenProperties
  <2>2. QED
    BY <2>1, CapacityAssumption
<1> HIDE DEF over
<1>4. IsInjective(queue') /\ ToSet(queue') \subseteq ToSet(merged)
  BY <1>1, <1>2, <1>3, InjectiveSplit, DropFirstType DEF DropFirst
<1>5. \A v \in Workers : wMem'[v] = IF v = w THEN << >> ELSE wMem[v]
  BY <1>1 DEF Inv, TypeOK
<1>6. \A v \in Workers :
        /\ IsInjective(wMem'[v])
        /\ v # w => ToSet(wMem'[v]) = ToSet(wMem[v])
        /\ v = w => ToSet(wMem'[v]) = {}
  BY <1>5, EmptyElems DEF MemoryOnce
<1>7. \A u \in Tasks : InMemory(u)' => InMemory(u)
  BY <1>2, <1>4, <1>6 DEF InMemory
<1>8. \A v \in Workers : ToSet(wMem'[v]) \cap ToSet(queue') = {}
  BY <1>2, <1>4, <1>6 DEF MemoryOnce
<1>9. \A v, x \in Workers : v # x => ToSet(wMem'[v]) \cap ToSet(wMem'[x]) = {}
  BY <1>6 DEF MemoryOnce
<1>10. \A u \in Tasks : InMemory(u)' => pc'[u] = "queued"
  BY <1>1, <1>7 DEF MemoryOnce
<1>11. QED
  BY <1>4, <1>6, <1>7, <1>8, <1>9, <1>10 DEF MemoryOnce

\* A crash empties the memory.
LEMMA CrashForgets ==
  ASSUME Crash
  PROVE  MemoryOnce' /\ \A u \in Tasks : ~InMemory(u)'
<1>1. queue' = << >> /\ \A w \in Workers : wMem'[w] = << >>
  BY DEF Crash
<1>2. \A u \in Tasks : ~InMemory(u)'
  BY <1>1, EmptyElems DEF InMemory
<1>3. QED
  BY <1>1, <1>2, EmptyElems DEF MemoryOnce

\* Every step keeps the memory in order, and only push brings a task in.
LEMMA MemoryStep ==
  ASSUME Inv, MemoryOnce, [Next]_vars
  PROVE  /\ MemoryOnce'
         /\ \A u \in Tasks : InMemory(u)' => InMemory(u) \/ (PushMem(u) /\ pc[u] # "queued")
<1>1. CASE UNCHANGED <<queue, wMem>>
  <2>1. \A v \in Workers : IsInjective(wMem'[v]) /\ ToSet(wMem'[v]) \subseteq ToSet(wMem[v])
    BY <1>1 DEF MemoryOnce
  <2>2. QED
    BY <1>1, <2>1, MemoryShrinks, QueuedStays
<1>2. ASSUME NEW t \in Tasks, PushMem(t)
      PROVE  /\ MemoryOnce'
             /\ \A u \in Tasks : InMemory(u)' => InMemory(u) \/ (PushMem(u) /\ pc[u] # "queued")
  BY <1>2, PushMemOnce
<1>3. QED
  BY <1>1, <1>2, WakeOnce, FlushMemOnce, PutBackOnce, CrashForgets, MemorySteps

\* Files are copied from the directory to the index and from the index to a
\* batch; they come into being in SpillWrite only.
LEMMA FilesCopied ==
  ASSUME disk' \subseteq disk,
         ToSet(files') \subseteq ToSet(files) \cup disk,
         \A w \in Workers : ToSet(wSpool'[w]) \subseteq ToSet(wSpool[w]) \cup ToSet(files)
  PROVE  AllFiles' \subseteq AllFiles
BY DEF AllFiles

LEMMA SpoolFiles ==
  ASSUME Inv, NEW w \in Workers, DrainSpool(w) \/ FlushSpool(w)
  PROVE  AllFiles' \subseteq AllFiles
<1>1. disk' = disk /\ files' = files
  BY DEF DrainSpool, FlushSpool, index
<1>2. CASE DrainSpool(w)
  <2> DEFINE b == SubSeq(files, 1, BatchOf(Len(files)))
  <2>1. ToSet(b) \subseteq ToSet(files)
    <3>1. files \in Seq(File) /\ BatchOf(Len(files)) \in 0..Len(files)
      BY BatchBound, LenProperties DEF Inv, TypeOK
    <3>2. QED
      BY <3>1, ElemsSplit
  <2>2. \A v \in Workers : wSpool'[v] = wSpool[v] \/ wSpool'[v] = << >> \/ wSpool'[v] = b
    BY <1>2 DEF DrainSpool, Inv, TypeOK
  <2>3. QED
    BY <1>1, <2>1, <2>2, EmptyElems, FilesCopied
<1>3. CASE FlushSpool(w)
  <2>1. \A v \in Workers : wSpool'[v] = wSpool[v] \/ wSpool'[v] = << >>
    BY <1>3 DEF FlushSpool, Inv, TypeOK
  <2>2. QED
    BY <1>1, <2>1, EmptyElems, FilesCopied
<1>4. QED
  BY <1>2, <1>3

LEMMA AckFiles ==
  ASSUME Inv, NEW w \in Workers, AckSpool(w)
  PROVE  AllFiles' \subseteq AllFiles
<1>1. \A v \in Workers : wSpool'[v] = IF v = w THEN Tail(wSpool[w]) ELSE wSpool[v]
  BY DEF AckSpool, NextFile, Inv, TypeOK
<1>2. \A v \in Workers : ToSet(wSpool'[v]) \subseteq ToSet(wSpool[v])
  BY <1>1, HeadOfBatch DEF AckSpool, Inv
<1>3. ToSet(files') \subseteq ToSet(files) /\ disk' \subseteq disk
  BY IncreasingRemove DEF AckSpool, Inv, TypeOK, Ordered
<1>4. QED
  BY <1>2, <1>3, FilesCopied

LEMMA NewClientFiles ==
  ASSUME Inv, NewClient
  PROVE  AllFiles' \subseteq AllFiles
<1>1. disk' \subseteq disk /\ wSpool' = wSpool
  BY NewClientDisk DEF NewClient, retry
<1>2. files' = files \/ \E s \in Orderings(disk) : \E k \in 0..Len(s) : files' = DropFirst(s, k)
  BY DEF NewClient, index
<1>3. ASSUME NEW s \in Orderings(disk), NEW k \in 0..Len(s), files' = DropFirst(s, k)
      PROVE  ToSet(files') \subseteq disk
  <2>1. s \in Seq(File) /\ ToSet(s) = disk
    BY OrderingType DEF Inv, TypeOK
  <2>2. QED
    BY <1>3, <2>1, DropFirstType
<1>4. QED
  BY <1>1, <1>2, <1>3, FilesCopied

LEMMA FilesStep ==
  ASSUME Inv, [Next]_vars
  PROVE  \/ AllFiles' \subseteq AllFiles
         \/ \E t \in Tasks :
              /\ SpillWrite(t) /\ pc[t] = "evict" /\ pc'[t] = "queued"
              /\ AllFiles' \subseteq AllFiles \cup {[seq |-> nextSeq - 1, task |-> t]}
<1>1. CASE UNCHANGED <<disk, files, wSpool>>
  BY <1>1, FilesCopied
<1>2. ASSUME NEW t \in Tasks, SpillEvict(t)
      PROVE  AllFiles' \subseteq AllFiles
  <2>1. disk' \subseteq disk /\ wSpool' = wSpool /\ files # << >>
        /\ (files' = files \/ files' = Tail(files))
    BY <1>2, SpillEvictDisk DEF SpillEvict, SpillFails, retry
  <2>2. ToSet(Tail(files)) \subseteq ToSet(files)
    BY <2>1, ElemsHeadTail DEF Inv, TypeOK
  <2>3. QED
    BY <2>1, <2>2, FilesCopied
<1>3. ASSUME NEW t \in Tasks, SpillWrite(t)
      PROVE  \/ AllFiles' \subseteq AllFiles
             \/ /\ pc[t] = "evict" /\ pc'[t] = "queued"
                /\ AllFiles' \subseteq AllFiles \cup {[seq |-> nextSeq - 1, task |-> t]}
  <2>1. CASE SpillFails(t)
    BY <1>3, <2>1, FilesCopied DEF SpillFails, SpillWrite, retry
  <2> DEFINE f == [seq |-> nextSeq - 1, task |-> t]
  <2>2. CASE /\ files' = Append(files, f)
             /\ disk' = disk \cup {f}
             /\ pc' = [pc EXCEPT ![t] = "queued"]
    <3>1. f \in File
      BY <1>3, NobodyAssumption DEF SpillWrite, Inv, Locked, TypeOK, File
    <3>2. ToSet(files') = ToSet(files) \cup {f}
      BY <2>2, <3>1, ElemsAppend DEF Inv, TypeOK
    <3>3. wSpool' = wSpool /\ pc[t] = "evict" /\ pc'[t] = "queued"
      BY <1>3, <2>2 DEF SpillWrite, retry, Inv, TypeOK
    <3> HIDE DEF f
    <3>4. AllFiles' \subseteq AllFiles \cup {f}
      BY <2>2, <3>2, <3>3 DEF AllFiles
    <3>5. QED
      BY <3>3, <3>4 DEF f
  <2>3. QED
    BY <1>3, <2>1, <2>2 DEF SpillWrite
<1>4. CASE Crash
  <2>1. disk' = disk /\ files' = << >> /\ \A w \in Workers : wSpool'[w] = << >>
    BY <1>4 DEF Crash
  <2>2. QED
    BY <2>1, EmptyElems, FilesCopied
<1>5. CASE FileVanishes
  BY <1>5, FileVanishesDisk, FilesCopied DEF FileVanishes, index, retry
<1>6. ASSUME NEW t \in Tasks, SubmitDirect(t) \/ PushMem(t) \/ SpillBegin(t)
      PROVE  UNCHANGED <<disk, files, wSpool>>
  BY <1>6 DEF SubmitDirect, PushMem, SpillBegin, index, retry
<1>7. ASSUME NEW w \in Workers, Wake(w) \/ RetryExit(w) \/ FlushMem(w) \/ PutBack(w)
      PROVE  UNCHANGED <<disk, files, wSpool>>
  BY <1>7 DEF Wake, RetryExit, FlushMem, PutBack, index
<1>8. Start \/ Stop \/ SchedulerFlips \/ UNCHANGED vars => UNCHANGED <<disk, files, wSpool>>
  BY DEF Start, Stop, SchedulerFlips, vars, index, retry
<1>9. QED
  BY <1>1, <1>2, <1>3, <1>4, <1>5, <1>6, <1>7, <1>8, SpoolFiles, AckFiles, NewClientFiles
     DEF Next, Enqueuing, Retrying

\* A batch from the spool is only taken while the client spills.
LEMMA BatchNeedsSpill ==
  ASSUME Inv, FilesOnce, [Next]_vars
  PROVE  \A w \in Workers : wSpool'[w] # << >> => diskSpill'
<1>1. CASE UNCHANGED <<wSpool, diskSpill>>
  BY <1>1 DEF FilesOnce
<1>2. ASSUME NEW t \in Tasks, Enqueuing(t)
      PROVE  UNCHANGED <<wSpool, diskSpill>>
  BY <1>2 DEF Enqueuing, SubmitDirect, PushMem, SpillBegin, SpillEvict, SpillWrite, retry, proc
<1>3. ASSUME NEW w \in Workers, Wake(w) \/ RetryExit(w) \/ FlushMem(w) \/ PutBack(w)
      PROVE  UNCHANGED <<wSpool, diskSpill>>
  BY <1>3 DEF Wake, RetryExit, FlushMem, PutBack, proc
<1>4. Start \/ Stop \/ SchedulerFlips \/ FileVanishes \/ UNCHANGED vars
        => UNCHANGED <<wSpool, diskSpill>>
  BY DEF Start, Stop, SchedulerFlips, FileVanishes, vars, retry, proc
<1>5. ASSUME NEW w \in Workers, DrainSpool(w) \/ FlushSpool(w) \/ AckSpool(w)
      PROVE  \A v \in Workers : wSpool'[v] # << >> => diskSpill'
  <2>1. diskSpill' = diskSpill /\ \A v \in Workers \ {w} : wSpool'[v] = wSpool[v]
    BY <1>5 DEF DrainSpool, FlushSpool, AckSpool, NextFile, proc, Inv, TypeOK
  <2>2. CASE DrainSpool(w)
    BY <2>1, <2>2 DEF DrainSpool, FilesOnce, Inv, TypeOK
  <2>3. CASE FlushSpool(w) \/ AckSpool(w)
    BY <2>1, <2>3 DEF FlushSpool, AckSpool, FilesOnce, Inv, TypeOK
  <2>4. QED
    BY <1>5, <2>2, <2>3
<1>6. Crash => \A w \in Workers : wSpool'[w] = << >>
  BY DEF Crash
<1>7. NewClient => \A w \in Workers : wSpool'[w] = << >>
  BY DEF NewClient, retry, Inv, Quiet, TypeOK
<1>8. QED
  BY <1>1, <1>2, <1>3, <1>4, <1>5, <1>6, <1>7 DEF Next, Retrying

\* Every step keeps what is known of the holders.
LEMMA CustodyStep ==
  ASSUME Inv, Custody, [Next]_vars
  PROVE  Custody'
<1>1. /\ MemoryOnce'
      /\ \A u \in Tasks : InMemory(u)' => InMemory(u) \/ (PushMem(u) /\ pc[u] # "queued")
  BY MemoryStep DEF Custody
<1>2. \A u \in Tasks : pc[u] = "queued" => pc'[u] = "queued"
  BY QueuedStays
<1>3. \A f \in AllFiles : f.task \in Tasks /\ pc[f.task] = "queued" /\ ~InMemory(f.task)
  BY AllFilesType DEF Inv, Custody, FilesOnce
<1>4. \A f \in AllFiles : pc'[f.task] = "queued" /\ ~InMemory(f.task)'
  BY <1>1, <1>2, <1>3
<1>5. \A w \in Workers : wSpool'[w] # << >> => diskSpill'
  BY BatchNeedsSpill DEF Custody
<1>6. CASE AllFiles' \subseteq AllFiles
  BY <1>1, <1>4, <1>5, <1>6 DEF Custody, FilesOnce
<1>7. ASSUME NEW t \in Tasks, SpillWrite(t), pc[t] = "evict", pc'[t] = "queued",
             AllFiles' \subseteq AllFiles \cup {[seq |-> nextSeq - 1, task |-> t]}
      PROVE  Custody'
  <2>1. PICK n \in {nextSeq - 1} : AllFiles' \subseteq AllFiles \cup {[seq |-> n, task |-> t]}
    BY <1>7
  <2>2. ~InMemory(t)'
    <3>1. ~InMemory(t)
      BY <1>7 DEF Custody, MemoryOnce
    <3>2. UNCHANGED <<queue, wMem>>
      BY <1>7 DEF SpillWrite, buffer, retry
    <3>3. QED
      BY <3>1, <3>2 DEF InMemory
  <2>3. \A f \in AllFiles : f.task # t
    BY <1>3, <1>7
  <2>4. \A f \in AllFiles' : f \in AllFiles \/ (f = [seq |-> n, task |-> t] /\ f.task = t)
    BY <2>1
  <2>5. \A f \in AllFiles' : pc'[f.task] = "queued" /\ ~InMemory(f.task)'
    BY <1>4, <1>7, <2>2, <2>4
  <2>6. \A f, g \in AllFiles' : f.task = g.task => f = g
    BY <2>3, <2>4 DEF Custody, FilesOnce
  <2>7. QED
    BY <1>1, <1>5, <2>5, <2>6 DEF Custody, FilesOnce
<1>8. QED
  BY <1>6, <1>7, FilesStep

\* What an earlier process left in the directory has one holder too.
LEMMA CustodyInit ==
  ASSUME Init
  PROVE  Custody
<1>1. queue = << >> /\ files = << >> /\ \A w \in Workers : wMem[w] = << >> /\ wSpool[w] = << >>
  BY DEF Init
<1>2. \A t \in Tasks : ~InMemory(t)
  BY <1>1, EmptyElems DEF InMemory
<1>3. MemoryOnce
  BY <1>1, <1>2, EmptyElems DEF MemoryOnce
<1>4. AllFiles = disk
  BY <1>1, EmptyElems DEF AllFiles
<1>5. \A f \in disk : f.task \in Tasks /\ pc[f.task] = "queued"
  BY LeftoverAssumption DEF Init, File
<1>6. \A f, g \in disk : f.task = g.task => f = g
  BY LeftoverAssumption DEF Init
<1>7. QED
  BY <1>1, <1>2, <1>3, <1>4, <1>5, <1>6 DEF Custody, FilesOnce

\* In every reachable state a task has one place in memory or one file, and
\* only after EnqueueTask has returned queued=true.
THEOREM CustodyInvariance == Spec => []Custody
<1>1. Init => Custody
  BY CustodyInit
<1>2. Inv /\ Custody /\ [Next]_vars => Custody'
  BY CustodyStep
<1>3. QED
  BY <1>1, <1>2, Invariance, PTL DEF Spec

\* No task is held twice in memory, nor in memory and on disk, however many
\* retry loops and callers of EnqueueTask there are (submitBuffer.drain and
\* putBack).
THEOREM HeldOnce == Spec => []SingleCustody
<1>1. Custody => SingleCustody
  <2> SUFFICES ASSUME Custody PROVE SingleCustody
    OBVIOUS
  <2>1. \A t \in Tasks : OnDisk(t) => ~InMemory(t)
    BY DEF Custody, FilesOnce, AllFiles, OnDisk
  <2>2. QED
    BY <2>1 DEF Custody, MemoryOnce, SingleCustody
<1>2. QED
  BY <1>1, CustodyInvariance, PTL

-----------------------------------------------------------------------------
(* How often a task reaches the scheduler.                                 *)

\* The scheduler has the task, and nothing excuses a second delivery.
Settled(t) == deliveries[t] > 0 /\ t \notin excused

Acks(w, f) == wAt[w] = "ack" /\ Head(wSpool[w]) = f

\* Such a task is held by no one who would send it: it is not in memory, its
\* call has returned, and its file is only in the hands of the worker that
\* sent it and is about to remove it.
OutOfHands(t) ==
  /\ deliveries[t] = 1
  /\ ~InMemory(t) /\ pc[t] \notin Calling \cup {"idle"}
  /\ \A w \in Workers : \A f \in ToSet(wSpool[w]) : f.task = t => Acks(w, f)
  /\ \A f \in disk : f.task = t => \E w \in Workers : Acks(w, f)

SentOnce == \A t \in Tasks : Settled(t) => OutOfHands(t)

\* Two workers that read the same file have an excuse, and one worker reads it
\* once.
Shared ==
  /\ \A w \in Workers : IsInjective(wSpool[w])
  /\ \A v, w \in Workers : v # w =>
       \A f \in ToSet(wSpool[v]) \cap ToSet(wSpool[w]) : f.task \in excused

Delivery == SentOnce /\ Shared

\* A task that left the hands of its caller and the memory does not return.
LEMMA SettledStays ==
  ASSUME Inv, Custody, [Next]_vars,
         NEW t \in Tasks, ~InMemory(t), pc[t] \notin Calling \cup {"idle"}
  PROVE  ~InMemory(t)' /\ pc'[t] \notin Calling \cup {"idle"}
<1>1. ~PushMem(t)
  BY DEF PushMem, Calling
<1>2. ~InMemory(t)'
  BY <1>1, MemoryStep DEF Custody
<1>3. pc'[t] = pc[t] \/ pc'[t] = "dead"
  <2>1. ASSUME NEW u \in Tasks, Enqueuing(u)
        PROVE  pc'[t] = pc[t]
    <3>1. pc[u] \in Calling \cup {"idle"} /\ \A x \in Tasks \ {u} : pc'[x] = pc[x]
      BY <2>1 DEF Enqueuing, SubmitDirect, PushMem, SpillBegin, SpillEvict, SpillWrite,
                  SpillFails, Inv, TypeOK, Calling
    <3>2. QED
      BY <3>1
  <2>2. ASSUME NEW w \in Workers, Retrying(w)
        PROVE  pc' = pc
    BY <2>2 DEF Retrying, Wake, RetryExit, FlushMem, PutBack, DrainSpool, FlushSpool, AckSpool,
                NextFile
  <2>3. Start \/ Stop \/ NewClient \/ SchedulerFlips \/ FileVanishes \/ UNCHANGED vars => pc' = pc
    BY DEF Start, Stop, NewClient, SchedulerFlips, FileVanishes, vars
  <2>4. Crash => pc'[t] = pc[t] \/ pc'[t] = "dead"
    BY DEF Crash, Inv, TypeOK
  <2>5. QED
    BY <2>1, <2>2, <2>3, <2>4 DEF Next
<1>4. QED
  BY <1>2, <1>3 DEF Calling

\* Steps that send nothing and move no file between workers.
LEMMA DeliveryQuiet ==
  ASSUME Inv, Custody, Delivery, [Next]_vars,
         UNCHANGED <<deliveries, excused, wSpool>>,
         \A w \in Workers : wAt'[w] = "ack" <=> wAt[w] = "ack",
         \A f \in disk' : f \in disk \/ pc[f.task] \in Calling
  PROVE  Delivery'
<1>1. \A w \in Workers : \A f : Acks(w, f)' <=> Acks(w, f)
  BY DEF Acks
<1>2. ASSUME NEW t \in Tasks, Settled(t)'
      PROVE  OutOfHands(t)'
  <2>1. OutOfHands(t)
    BY <1>2 DEF Settled, Delivery, SentOnce
  <2>2. \A f \in disk' : f.task = t => f \in disk
    BY <2>1 DEF OutOfHands
  <2>3. ~InMemory(t)' /\ pc'[t] \notin Calling \cup {"idle"}
    BY <2>1, SettledStays DEF OutOfHands
  <2>4. QED
    BY <1>1, <2>1, <2>2, <2>3 DEF OutOfHands
<1>3. Shared'
  BY DEF Delivery, Shared
<1>4. QED
  BY <1>2, <1>3 DEF Delivery, SentOnce

\* What a call to the scheduler does to the record of deliveries.
LEMMA TakesOnce ==
  ASSUME TypeOK, NEW t \in Tasks, NEW r \in Outcomes(t), SchedulerTakes(t, r)
  PROVE  /\ r \in {"ok", "reject", "unreached", "lost"}
         /\ excused \subseteq excused'
         /\ \A u \in Tasks : u # t => (Settled(u)' <=> Settled(u)) /\ deliveries'[u] = deliveries[u]
         /\ Settled(t)' => \/ Settled(t) /\ deliveries'[t] \in {deliveries[t], 2}
                           \/ r = "ok" /\ deliveries'[t] = 1
<1>1. r \in {"ok", "reject", "unreached", "lost"}
  BY DEF Outcomes
<1>2. \A u \in Tasks : u # t => deliveries'[u] = deliveries[u] /\ (u \in excused' <=> u \in excused)
  BY DEF TypeOK, SchedulerTakes
<1>3. deliveries[t] \in 0..2 /\ (r = "lost" => t \in excused') /\ (r # "lost" => excused' = excused)
  BY DEF TypeOK, SchedulerTakes
<1>4. \/ deliveries'[t] = deliveries[t]
      \/ r \in {"ok", "lost"} /\ deliveries[t] < 2 /\ deliveries'[t] = deliveries[t] + 1
  BY DEF TypeOK, SchedulerTakes
<1>5. excused \subseteq excused'
  BY DEF SchedulerTakes
<1>6. Settled(t)' => \/ Settled(t) /\ deliveries'[t] \in {deliveries[t], 2}
                     \/ r = "ok" /\ deliveries'[t] = 1
  BY <1>3, <1>4 DEF Settled
<1>7. QED
  BY <1>1, <1>2, <1>5, <1>6 DEF Settled

\* A settled task that this step is not about stays out of everybody's hands.
LEMMA OutOfHandsStays ==
  ASSUME Inv, Custody, [Next]_vars, NEW u \in Tasks, OutOfHands(u), deliveries'[u] = deliveries[u],
         \A w \in Workers : \A f \in ToSet(wSpool'[w]) : f.task = u => Acks(w, f)',
         \A f \in disk' : f.task = u => \E w \in Workers : Acks(w, f)'
  PROVE  OutOfHands(u)'
<1>1. ~InMemory(u)' /\ pc'[u] \notin Calling \cup {"idle"}
  BY SettledStays DEF OutOfHands
<1>2. QED
  BY <1>1 DEF OutOfHands

\* The files of a task whose call is under way, or that is in memory: none.
LEMMA NoFileYet ==
  ASSUME Custody, NEW t \in Tasks, pc[t] # "queued" \/ InMemory(t)
  PROVE  /\ \A w \in Workers : \A f \in ToSet(wSpool[w]) : f.task # t
         /\ \A f \in disk : f.task # t
BY DEF Custody, FilesOnce, AllFiles

\* EnqueueTask calls the scheduler itself.
LEMMA SubmitDirectDelivery ==
  ASSUME Inv, Custody, Delivery, [Next]_vars, NEW t \in Tasks, SubmitDirect(t)
  PROVE  Delivery'
<1>1. PICK r \in Outcomes(t) :
        /\ SchedulerTakes(t, r)
        /\ r = "ok" => pc' = [pc EXCEPT ![t] = "sent"]
  <2>1. PICK r \in Outcomes(t) :
          /\ SchedulerTakes(t, r)
          /\ pc' = [pc EXCEPT ![t] = CASE r = "ok"     -> "sent"
                                       [] r = "reject" -> "refused"
                                       [] isRetriableSubmitErr(r) -> "push"]
    BY Zenon DEF SubmitDirect
  <2>2. r = "ok" => pc' = [pc EXCEPT ![t] = "sent"]
    BY <2>1 DEF isRetriableSubmitErr
  <2>3. QED
    BY <2>1, <2>2, Zenon
<1>2. UNCHANGED <<disk, wAt, wSpool, queue, wMem>> /\ pc[t] = "idle"
  BY DEF SubmitDirect, retry, buffer
<1>3. \A w \in Workers : \A f : Acks(w, f)' <=> Acks(w, f)
  BY <1>2 DEF Acks
<1>4. ASSUME NEW u \in Tasks, Settled(u)'
      PROVE  OutOfHands(u)'
  <2>1. CASE u # t
    <3>1. OutOfHands(u) /\ deliveries'[u] = deliveries[u]
      BY <1>1, <1>4, <2>1, TakesOnce DEF Inv, Delivery, SentOnce
    <3>2. QED
      BY <1>2, <1>3, <3>1, OutOfHandsStays DEF OutOfHands
  <2>2. CASE u = t
    <3>1. ~Settled(t)
      BY <1>2 DEF Delivery, SentOnce, OutOfHands
    <3>2. r = "ok" /\ deliveries'[t] = 1
      BY <1>1, <1>4, <2>2, <3>1, TakesOnce DEF Inv
    <3>3. pc'[t] = "sent" /\ ~InMemory(t)'
      BY <1>1, <1>2, <3>2 DEF Inv, TypeOK, Custody, MemoryOnce, InMemory
    <3>4. QED
      BY <1>2, <2>2, <3>2, <3>3, NoFileYet DEF OutOfHands, Calling
  <2>3. QED
    BY <2>1, <2>2
<1>5. Shared'
  BY <1>1, <1>2, TakesOnce DEF Inv, Delivery, Shared
<1>6. QED
  BY <1>4, <1>5 DEF Delivery, SentOnce

\* A retry worker sends a task of its batch from the queue.
LEMMA FlushMemDelivery ==
  ASSUME Inv, Custody, Delivery, [Next]_vars, NEW w \in Workers, FlushMem(w)
  PROVE  Delivery'
<1>1. PICK t \in Tasks :
        t = Head(wMem[w]) /\ InMemory(t) /\ (wMem' = wMem \/ ~InMemory(t)')
  BY FlushMemOnce DEF Custody
<1>2. PICK r \in Outcomes(t) :
        /\ SchedulerTakes(t, r)
        /\ r = "ok" => wMem' = [wMem EXCEPT ![w] = Tail(@)]
  BY <1>1 DEF FlushMem, isRetriableSubmitErr
<1>3. UNCHANGED <<disk, wSpool, pc>> /\ \A v \in Workers : wAt'[v] = "ack" <=> wAt[v] = "ack"
  BY DEF FlushMem, Inv, TypeOK
<1>4. \A v \in Workers : \A f : Acks(v, f)' <=> Acks(v, f)
  BY <1>3 DEF Acks
<1>5. ASSUME NEW u \in Tasks, Settled(u)'
      PROVE  OutOfHands(u)'
  <2>1. CASE u # t
    <3>1. OutOfHands(u) /\ deliveries'[u] = deliveries[u]
      BY <1>2, <1>5, <2>1, TakesOnce DEF Inv, Delivery, SentOnce
    <3>2. QED
      BY <1>3, <1>4, <3>1, OutOfHandsStays DEF OutOfHands
  <2>2. CASE u = t
    <3>1. ~Settled(t)
      BY <1>1 DEF Delivery, SentOnce, OutOfHands
    <3>2. r = "ok" /\ deliveries'[t] = 1
      BY <1>2, <1>5, <2>2, <3>1, TakesOnce DEF Inv
    <3>3. wMem' # wMem
      <4>1. wMem[w] \in Seq(Tasks) /\ wMem[w] # << >> /\ wMem'[w] = Tail(wMem[w])
        BY <1>2, <3>2 DEF FlushMem, Inv, TypeOK
      <4>2. Tail(wMem[w]) # wMem[w]
        <5>1. Len(Tail(wMem[w])) = Len(wMem[w]) - 1 /\ Len(wMem[w]) \in Nat
          BY <4>1, HeadTailProperties, LenProperties
        <5>2. Len(Tail(wMem[w])) # Len(wMem[w])
          BY <5>1
        <5>3. QED
          BY <5>2, Zenon
      <4>3. QED
        BY <4>1, <4>2
    <3>4. ~InMemory(t)' /\ pc'[t] = "queued"
      BY <1>1, <1>3, <3>3 DEF Custody, MemoryOnce
    <3>5. QED
      BY <1>1, <1>3, <2>2, <3>2, <3>4, NoFileYet DEF OutOfHands, Calling
  <2>3. QED
    BY <2>1, <2>2
<1>6. Shared'
  BY <1>2, <1>3, TakesOnce DEF Inv, Delivery, Shared
<1>7. QED
  BY <1>5, <1>6 DEF Delivery, SentOnce

\* A retry worker sends a file.
LEMMA FlushSpoolDelivery ==
  ASSUME Inv, Custody, Delivery, [Next]_vars, NEW w \in Workers, FlushSpool(w)
  PROVE  Delivery'
<1>1. PICK f \in File : f = Head(wSpool[w]) /\ f \in ToSet(wSpool[w]) /\ f.task \in Tasks
  BY HeadOfBatch DEF FlushSpool, Inv
<1>2. PICK t \in Tasks : t = f.task
  BY <1>1
<1>3. PICK r \in Outcomes(t) :
        /\ SchedulerTakes(t, r)
        /\ r \in {"unreached", "lost"} =>
             /\ wSpool' = [wSpool EXCEPT ![w] = << >>]
             /\ wAt' = [wAt EXCEPT ![w] = "select"]
        /\ r \notin {"unreached", "lost"} =>
             wAt' = [wAt EXCEPT ![w] = "ack"] /\ wSpool' = wSpool
  BY <1>1, <1>2 DEF FlushSpool, isRetriableSubmitErr
<1>4. /\ UNCHANGED <<disk, queue, wMem, pc>> /\ wAt[w] = "spool"
      /\ \A v \in Workers : v # w => wAt'[v] = wAt[v] /\ wSpool'[v] = wSpool[v]
      /\ \A v \in Workers : ToSet(wSpool'[v]) \subseteq ToSet(wSpool[v]) /\ IsInjective(wSpool'[v])
  <2>1. UNCHANGED <<disk, queue, wMem, pc>> /\ wAt[w] = "spool"
    BY DEF FlushSpool, buffer
  <2>2. /\ \A v \in Workers : v # w => wAt'[v] = wAt[v] /\ wSpool'[v] = wSpool[v]
        /\ wSpool'[w] = << >> \/ wSpool'[w] = wSpool[w]
    BY <1>3 DEF Inv, TypeOK
  <2>3. QED
    BY <2>1, <2>2, EmptyElems DEF Delivery, Shared
<1>5. \A v \in Workers : \A g : v # w => (Acks(v, g)' <=> Acks(v, g))
  BY <1>4 DEF Acks
<1>6. \A g : ~Acks(w, g)
  BY <1>4 DEF Acks
<1>7. ASSUME NEW u \in Tasks, Settled(u)'
      PROVE  OutOfHands(u)'
  <2>1. CASE u # t
    <3>1. OutOfHands(u) /\ deliveries'[u] = deliveries[u]
      BY <1>3, <1>7, <2>1, TakesOnce DEF Inv, Delivery, SentOnce
    <3>2. \A v \in Workers : \A g \in ToSet(wSpool'[v]) : g.task = u => Acks(v, g)'
      BY <1>4, <1>5, <1>6, <3>1 DEF OutOfHands
    <3>3. \A g \in disk' : g.task = u => \E v \in Workers : Acks(v, g)'
      BY <1>4, <1>5, <1>6, <3>1 DEF OutOfHands
    <3>4. QED
      BY <3>1, <3>2, <3>3, OutOfHandsStays
  <2>2. CASE u = t
    <3>1. ~Settled(t)
      BY <1>1, <1>2, <1>6 DEF Delivery, SentOnce, OutOfHands
    <3>2. r = "ok" /\ deliveries'[t] = 1 /\ t \notin excused
      <4>1. r = "ok" /\ deliveries'[t] = 1
        BY <1>3, <1>7, <2>2, <3>1, TakesOnce DEF Inv
      <4>2. t \notin excused
        BY <1>3, <1>7, <2>2, TakesOnce DEF Inv, Settled
      <4>3. QED
        BY <4>1, <4>2
    <3>3. wSpool' = wSpool /\ wAt'[w] = "ack" /\ Acks(w, f)'
      BY <1>1, <1>3, <3>2 DEF Acks, Inv, TypeOK
    <3>4. f \in AllFiles /\ pc[t] = "queued" /\ ~InMemory(t)
      BY <1>1, <1>2 DEF AllFiles, Custody, FilesOnce
    <3>5. \A g \in AllFiles : g.task = t => g = f
      BY <1>2, <3>4 DEF Custody, FilesOnce
    <3>6. \A v \in Workers : \A g \in ToSet(wSpool[v]) : g.task = t => g = f /\ v = w
      <4>1. ASSUME NEW v \in Workers, NEW g \in ToSet(wSpool[v]), g.task = t
            PROVE  g = f /\ v = w
        <5>1. g = f
          BY <3>5, <4>1 DEF AllFiles
        <5>2. v # w => t \in excused
          BY <1>1, <1>2, <5>1 DEF Delivery, Shared
        <5>3. QED
          BY <3>2, <5>1, <5>2
      <4>2. QED
        BY <4>1
    <3>7. \A g \in disk : g.task = t => g = f
      BY <3>5 DEF AllFiles
    <3>8. ~InMemory(t)' /\ pc'[t] \notin Calling \cup {"idle"}
      BY <1>4, <3>4 DEF InMemory, Calling
    <3>9. /\ \A v \in Workers : \A g \in ToSet(wSpool'[v]) : g.task = t => Acks(v, g)'
          /\ \A g \in disk' : g.task = t => \E v \in Workers : Acks(v, g)'
      BY <1>4, <3>3, <3>6, <3>7
    <3>10. QED
      BY <2>2, <3>2, <3>8, <3>9 DEF OutOfHands
  <2>3. QED
    BY <2>1, <2>2
<1>8. Shared'
  BY <1>3, <1>4, TakesOnce DEF Inv, Delivery, Shared
<1>9. QED
  BY <1>7, <1>8 DEF Delivery, SentOnce

\* An index in order lists no file twice.
LEMMA IncreasingInjective ==
  ASSUME NEW s \in Seq(File), Increasing(s)
  PROVE  IsInjective(s)
<1>1. Len(s) \in Nat /\ DOMAIN s = 1..Len(s) /\ \A i \in 1..Len(s) : s[i] \in File
  BY LenProperties, ElementOfSeq
<1>2. \A i \in 1..Len(s) : s[i].seq \in Nat
  BY <1>1 DEF File
<1>3. ASSUME NEW i \in 1..Len(s), NEW j \in 1..Len(s), s[i] = s[j], i # j
      PROVE  FALSE
  <2>1. i < j \/ j < i
    BY <1>1, <1>3
  <2>2. s[i].seq < s[j].seq \/ s[j].seq < s[i].seq
    BY <1>1, <2>1 DEF Increasing
  <2>3. QED
    BY <1>2, <1>3, <2>2
<1>4. QED
  BY <1>1, <1>3 DEF IsInjective

\* submitSpool.drain hands out copies: the ones another worker has too are
\* excused.
LEMMA DrainDelivery ==
  ASSUME Inv, Custody, Delivery, [Next]_vars, NEW w \in Workers, DrainSpool(w)
  PROVE  Delivery'
<1> DEFINE b == SubSeq(files, 1, BatchOf(Len(files)))
<1>1. PICK c \in {b, << >>} :
        /\ wSpool' = [wSpool EXCEPT ![w] = c]
        /\ wAt' = [wAt EXCEPT ![w] = IF c = << >> THEN "select" ELSE "spool"]
        /\ ToSet(c) \subseteq disk
        /\ excused' = excused \cup ({f.task : f \in ToSet(c)} \cap HeldByOthers(w))
  <2> DEFINE empty == ~diskSpill \/ b = << >> \/ ~(ToSet(b) \subseteq disk)
  <2>1. /\ wSpool' = [wSpool EXCEPT ![w] = IF empty THEN << >> ELSE b]
        /\ wAt' = [wAt EXCEPT ![w] = IF empty THEN "select" ELSE "spool"]
        /\ excused' = IF empty THEN excused
                      ELSE excused \cup ({f.task : f \in ToSet(b)} \cap HeldByOthers(w))
    BY DEF DrainSpool
  <2>2. CASE empty
    <3>1. excused' = excused \cup ({f.task : f \in ToSet(<< >>)} \cap HeldByOthers(w))
      BY <2>1, <2>2, EmptyElems
    <3>2. wSpool' = [wSpool EXCEPT ![w] = << >>] /\ wAt' = [wAt EXCEPT ![w] = "select"]
      BY <2>1, <2>2
    <3>3. QED
      BY <3>1, <3>2, EmptyElems
  <2>3. CASE ~empty
    BY <2>1, <2>3
  <2>4. QED
    BY <2>2, <2>3
<1>2. UNCHANGED <<disk, deliveries>> /\ wAt[w] = "drain"
  BY DEF DrainSpool
<1>3. IsInjective(c)
  <2>1. files \in Seq(File) /\ IsInjective(files) /\ BatchOf(Len(files)) \in 0..Len(files)
    BY IncreasingInjective, BatchBound, LenProperties DEF Inv, TypeOK, Ordered
  <2>2. QED
    BY <2>1, InjectiveSplit, EmptyElems
<1> HIDE DEF b
<1>4. /\ \A v \in Workers : wSpool'[v] = IF v = w THEN c ELSE wSpool[v]
      /\ \A v \in Workers : v # w => wAt'[v] = wAt[v]
  BY <1>1 DEF Inv, TypeOK
<1>5. \A v \in Workers : \A g : v # w => (Acks(v, g)' <=> Acks(v, g))
  BY <1>4 DEF Acks
<1>6. \A g : ~Acks(w, g)
  BY <1>2 DEF Acks
<1>7. \A v \in Workers, g \in ToSet(c) : v # w /\ g \in ToSet(wSpool[v]) => g.task \in excused'
  <2>1. ASSUME NEW v \in Workers, NEW g \in ToSet(c), v # w, g \in ToSet(wSpool[v])
        PROVE  g.task \in excused'
    <3>1. g \in UNION {ToSet(wSpool[x]) : x \in Workers \ {w}}
      BY <2>1
    <3>2. g.task \in HeldByOthers(w)
      BY <3>1 DEF HeldByOthers
    <3>3. QED
      BY <1>1, <3>2
  <2>2. QED
    BY <2>1
<1>8. ASSUME NEW u \in Tasks, Settled(u)'
      PROVE  OutOfHands(u)'
  <2>1. OutOfHands(u) /\ u \notin excused'
    BY <1>1, <1>2, <1>8 DEF Settled, Delivery, SentOnce
  <2>2. \A g \in disk : g.task = u => \E v \in Workers : v # w /\ Acks(v, g)
    BY <1>6, <2>1 DEF OutOfHands
  <2>3. \A g \in ToSet(c) : g.task # u
    <3>1. ASSUME NEW g \in ToSet(c), g.task = u
          PROVE  FALSE
      <4>1. PICK v \in Workers : v # w /\ Acks(v, g)
        BY <1>1, <2>2, <3>1
      <4>2. g \in ToSet(wSpool[v])
        BY <4>1, HeadOfBatch DEF Acks, Inv
      <4>3. QED
        BY <1>7, <2>1, <3>1, <4>1, <4>2
    <3>2. QED
      BY <3>1
  <2>4. \A v \in Workers : \A g \in ToSet(wSpool'[v]) : g.task = u => Acks(v, g)'
    BY <1>4, <1>5, <2>1, <2>3 DEF OutOfHands
  <2>5. \A g \in disk' : g.task = u => \E v \in Workers : Acks(v, g)'
    BY <1>2, <1>5, <2>2
  <2>6. QED
    BY <1>2, <2>1, <2>4, <2>5, OutOfHandsStays
<1>9. Shared'
  <2>1. excused \subseteq excused'
    BY <1>1
  <2>2. ASSUME NEW x \in Workers, NEW v \in Workers, v # x,
               NEW f \in ToSet(wSpool'[x]) \cap ToSet(wSpool'[v])
        PROVE  f.task \in excused'
    BY <1>4, <1>7, <2>1, <2>2 DEF Delivery, Shared
  <2>3. \A v \in Workers : IsInjective(wSpool'[v])
    BY <1>3, <1>4 DEF Delivery, Shared
  <2>4. QED
    BY <2>2, <2>3 DEF Shared
<1>10. QED
  BY <1>8, <1>9 DEF Delivery, SentOnce

\* submitSpool.ack: the file is gone, or the failure excuses the task.
LEMMA AckDelivery ==
  ASSUME Inv, Custody, Delivery, [Next]_vars, NEW w \in Workers, AckSpool(w)
  PROVE  Delivery'
<1>1. PICK f \in File : f = Head(wSpool[w]) /\ f \in ToSet(wSpool[w]) /\ f.task \in Tasks
  BY HeadOfBatch DEF AckSpool, Inv
<1>2. /\ deliveries' = deliveries /\ excused \subseteq excused' /\ disk' \subseteq disk
      /\ wAt[w] = "ack"
      /\ \A v \in Workers : wSpool'[v] = IF v = w THEN Tail(wSpool[w]) ELSE wSpool[v]
      /\ \A v \in Workers : v # w => wAt'[v] = wAt[v]
  <2>1. excused \subseteq excused' /\ disk' \subseteq disk
    BY DEF AckSpool
  <2>2. /\ deliveries' = deliveries /\ wAt[w] = "ack"
        /\ \A v \in Workers : wSpool'[v] = IF v = w THEN Tail(wSpool[w]) ELSE wSpool[v]
        /\ \A v \in Workers : v # w => wAt'[v] = wAt[v]
    BY DEF AckSpool, NextFile, Inv, TypeOK
  <2>3. QED
    BY <2>1, <2>2
<1>3. f \notin disk' \/ f.task \in excused'
  <2>1. CASE {i \in DOMAIN files : files[i].seq = f.seq} = {} /\ UNCHANGED disk
    <3>1. f \notin ToSet(files)
      BY <2>1 DEF ToSet
    <3>2. phase # "down" /\ diskSpill
      BY <1>2, WorkerLive DEF Custody, FilesOnce, Inv, TypeOK
    <3>3. QED
      BY <2>1, <3>1, <3>2 DEF Inv, Covered
  <2>2. ASSUME NEW i \in DOMAIN files, files[i].seq = f.seq, disk' = disk \ {files[i]}
        PROVE  f \notin disk'
    <3>1. files[i] \in ToSet(files)
      BY <2>2 DEF ToSet
    <3>2. files[i] = f
      BY <1>1, <2>2, <3>1 DEF Inv, Batched
    <3>3. QED
      BY <2>2, <3>2
  <2>3. CASE excused' = excused \cup {f.task}
    BY <2>3
  <2>4. QED
    BY <1>1, <2>1, <2>2, <2>3 DEF AckSpool
<1>4. /\ ToSet(wSpool[w]) = ToSet(Tail(wSpool[w])) \cup {f}
      /\ f \notin ToSet(Tail(wSpool[w])) /\ IsInjective(Tail(wSpool[w]))
  <2>1. wSpool[w] \in Seq(File) /\ wSpool[w] # << >> /\ IsInjective(wSpool[w])
    BY <1>2 DEF Inv, TypeOK, Delivery, Shared
  <2>2. QED
    BY <1>1, <2>1, ElemsHeadTail, InjectiveTail
<1>5. \A v \in Workers : \A g : v # w => (Acks(v, g)' <=> Acks(v, g))
  BY <1>2 DEF Acks
<1>6. \A v \in Workers : ToSet(wSpool'[v]) \subseteq ToSet(wSpool[v]) /\ IsInjective(wSpool'[v])
  BY <1>2, <1>4 DEF Delivery, Shared
<1>7. ASSUME NEW u \in Tasks, Settled(u)'
      PROVE  OutOfHands(u)'
  <2>1. OutOfHands(u) /\ u \notin excused'
    BY <1>2, <1>7 DEF Settled, Delivery, SentOnce
  <2>2. \A v \in Workers : \A g \in ToSet(wSpool'[v]) : g.task = u => Acks(v, g)'
    <3>1. ASSUME NEW g \in ToSet(wSpool'[w]), g.task = u
          PROVE  FALSE
      <4>1. g \in ToSet(wSpool[w]) /\ g # f
        BY <1>2, <1>4, <3>1
      <4>2. Acks(w, g)
        BY <2>1, <3>1, <4>1 DEF OutOfHands
      <4>3. QED
        BY <1>1, <4>1, <4>2 DEF Acks
    <3>2. QED
      BY <1>5, <1>6, <2>1, <3>1 DEF OutOfHands
  <2>3. \A g \in disk' : g.task = u => \E v \in Workers : Acks(v, g)'
    <3>1. ASSUME NEW g \in disk', g.task = u
          PROVE  \E v \in Workers : Acks(v, g)'
      <4>1. PICK v \in Workers : Acks(v, g)
        BY <1>2, <2>1, <3>1 DEF OutOfHands
      <4>2. v # w
        BY <1>1, <1>3, <2>1, <3>1, <4>1 DEF Acks
      <4>3. QED
        BY <1>5, <4>1, <4>2
    <3>2. QED
      BY <3>1
  <2>4. QED
    BY <1>2, <2>1, <2>2, <2>3, OutOfHandsStays
<1>8. Shared'
  BY <1>2, <1>6 DEF Delivery, Shared
<1>9. QED
  BY <1>7, <1>8 DEF Delivery, SentOnce

\* A crash between the reply and the removal of the file is an excuse.
LEMMA CrashDelivery ==
  ASSUME Inv, Custody, Delivery, [Next]_vars, Crash
  PROVE  Delivery'
<1>1. /\ UNCHANGED <<deliveries, disk>>
      /\ excused' = excused \cup {t \in Tasks : OnDisk(t) /\ deliveries[t] > 0}
      /\ \A w \in Workers : wSpool'[w] = << >>
  BY DEF Crash
<1>2. \A w \in Workers : ToSet(wSpool'[w]) = {} /\ IsInjective(wSpool'[w])
  BY <1>1, EmptyElems
<1>3. ASSUME NEW u \in Tasks, Settled(u)'
      PROVE  OutOfHands(u)'
  <2>1. OutOfHands(u)
    BY <1>1, <1>3 DEF Settled, Delivery, SentOnce
  <2>2. \A g \in disk' : g.task # u
    BY <1>1, <1>3 DEF Settled, OnDisk
  <2>3. QED
    BY <1>1, <1>2, <2>1, <2>2, OutOfHandsStays
<1>4. Shared'
  BY <1>2 DEF Shared
<1>5. QED
  BY <1>3, <1>4 DEF Delivery, SentOnce

\* Everything else sends nothing.
LEMMA OthersDelivery ==
  ASSUME Inv, Custody, Delivery, [Next]_vars,
         \/ \E t \in Tasks : PushMem(t) \/ SpillBegin(t) \/ SpillEvict(t) \/ SpillWrite(t)
         \/ \E w \in Workers : Wake(w) \/ RetryExit(w) \/ PutBack(w)
         \/ Start \/ Stop \/ NewClient \/ SchedulerFlips \/ FileVanishes \/ UNCHANGED vars
  PROVE  Delivery'
<1>1. UNCHANGED <<deliveries, excused, wSpool>>
  BY DEF PushMem, SpillBegin, SpillEvict, SpillWrite, Wake, RetryExit, PutBack, Start, Stop, NewClient,
         SchedulerFlips, FileVanishes, vars, ghost, retry
<1>2. \A w \in Workers : wAt'[w] = "ack" <=> wAt[w] = "ack"
  <2>1. wAt' = wAt \/ \E w \in Workers : Wake(w) \/ RetryExit(w) \/ PutBack(w) \/ Start
    BY DEF PushMem, SpillBegin, SpillEvict, SpillWrite, Stop, NewClient, SchedulerFlips, FileVanishes,
           vars, retry, Start
  <2>2. ASSUME NEW w \in Workers, Wake(w) \/ RetryExit(w) \/ PutBack(w)
        PROVE  \A v \in Workers : wAt'[v] = "ack" <=> wAt[v] = "ack"
    BY <2>2 DEF Wake, RetryExit, PutBack, Inv, TypeOK
  <2>3. Start => \A v \in Workers : wAt'[v] = "ack" <=> wAt[v] = "ack"
    BY DEF Start, Inv, TypeOK
  <2>4. QED
    BY <2>1, <2>2, <2>3
<1>3. \A f \in disk' : f \in disk \/ pc[f.task] \in Calling
  <2>1. ASSUME NEW t \in Tasks, SpillWrite(t)
        PROVE  \A f \in disk' : f \in disk \/ pc[f.task] \in Calling
    BY <2>1 DEF SpillWrite, SpillFails, Calling
  <2>2. ASSUME NEW w \in Workers, AckSpool(w)
        PROVE  disk' \subseteq disk
    BY <2>2 DEF AckSpool
  <2>3. QED
    BY <2>1, <2>2, DiskSteps, SpillEvictDisk, NewClientDisk, FileVanishesDisk
<1>4. QED
  BY <1>1, <1>2, <1>3, DeliveryQuiet

\* Every step keeps it.
LEMMA DeliveryStep ==
  ASSUME Inv, Custody, Delivery, [Next]_vars
  PROVE  Delivery'
BY SubmitDirectDelivery, FlushMemDelivery, FlushSpoolDelivery, DrainDelivery, AckDelivery,
   CrashDelivery, OthersDelivery
   DEF Next, Enqueuing, Retrying

\* A second delivery always has a cause: a lost reply, a file that could not
\* be removed, a crash before its removal, or two retry loops that had read
\* it (flushBufferOnce, flushSpoolOnce, submitSpool.ack).
THEOREM NoNeedlessResend == Spec => []TwiceOnlyIfExcused
<1>1. Init => Delivery
  <2> SUFFICES ASSUME Init PROVE Delivery
    OBVIOUS
  <2>1. \A t \in Tasks : ~Settled(t)
    BY DEF Init, Settled
  <2>2. \A w \in Workers : ToSet(wSpool[w]) = {} /\ IsInjective(wSpool[w])
    BY EmptyElems DEF Init
  <2>3. QED
    BY <2>1, <2>2 DEF Delivery, SentOnce, Shared
<1>2. Inv /\ Custody /\ Delivery /\ [Next]_vars => Delivery'
  BY DeliveryStep
<1>3. Delivery => TwiceOnlyIfExcused
  BY DEF Delivery, SentOnce, OutOfHands, Settled, TwiceOnlyIfExcused
<1>4. QED
  BY <1>1, <1>2, <1>3, Invariance, CustodyInvariance, PTL DEF Spec

-----------------------------------------------------------------------------
(* The running total of the spool.                                         *)
(*                                                                         *)
(* Bytes is a sum over a set, which MapThenSumSet computes by a function   *)
(* that takes the elements off one by one, in an order nobody knows.  The  *)
(* sum is therefore compared with a number that has no order: the          *)
(* cardinality of Units(S), a set with one element for each byte of each   *)
(* file of S.  That the two agree, for every set of files, is shown with a *)
(* smallest set for which they would not.                                  *)

\* Among sets of elements of a finite set there is one without another one
\* as a part.
LEMMA SmallestSet ==
  ASSUME NEW S, IsFiniteSet(S), NEW T \in SUBSET SUBSET S, T # {}
  PROVE  \E x \in T : \A y \in T : y \subseteq x => y = x
<1>1. T \subseteq FiniteSubsetsOf(S)
  BY FS_FiniteSubsetsOfFinite
<1>2. PICK x \in T : \A y \in T : ~(<<y, x>> \in StrictSubsetOrdering(S))
  BY <1>1, FS_StrictSubsetOrderingWellFounded, WFMin, Zenon
<1>3. ASSUME NEW y \in T, y \subseteq x PROVE y = x
  BY <1>2, <1>3 DEF StrictSubsetOrdering
<1> QED
  BY <1>3

\* The bytes of the files of S, numbered in each file.
Units(S) == {p \in S \X Nat : p[2] \in 1..Size[p[1].task]}
Volume(S) == Cardinality(Units(S))

\* One file has as many bytes as its size says.
LEMMA VolumeOfOne ==
  ASSUME NEW f \in File
  PROVE  IsFiniteSet(Units({f})) /\ Volume({f}) = Size[f.task]
<1> DEFINE n == Size[f.task]
           h == [i \in 1..n |-> <<f, i>>]
<1>1. n \in Nat
  BY SizeAssumption DEF File
<1>2. Units({f}) = {<<f, i>> : i \in 1..n}
  BY <1>1 DEF Units
<1>3. h \in Bijection(1..n, Units({f}))
  BY <1>2 DEF Bijection, Injection, Surjection, IsInjective
<1>4. IsFiniteSet(1..n) /\ Cardinality(1..n) = n
  <2>1. IsFiniteSet(1..n) /\ Cardinality(1..n) = IF 1 > n THEN 0 ELSE n - 1 + 1
    BY <1>1, 1 \in Int, n \in Int, FS_Interval, Zenon
  <2> QED
    BY <1>1, <2>1
<1> QED
  BY <1>3, <1>4, FS_Bijection DEF ExistsBijection, Volume

\* The bytes of a set are those of one file and those of the others.
LEMMA VolumeStep ==
  ASSUME NEW S \in SUBSET File, NEW f \in S, IsFiniteSet(Units(S \ {f}))
  PROVE  IsFiniteSet(Units(S)) /\ Volume(S) = Size[f.task] + Volume(S \ {f})
<1>1. Units(S) = Units({f}) \cup Units(S \ {f}) /\ Units({f}) \cap Units(S \ {f}) = {}
  BY DEF Units
<1>2. IsFiniteSet(Units({f})) /\ Volume({f}) = Size[f.task] /\ Size[f.task] \in Nat
  BY VolumeOfOne, SizeAssumption DEF File
<1>3. Volume(S \ {f}) \in Nat
  BY FS_CardinalityType DEF Volume
<1> QED
  <2>1. /\ IsFiniteSet(Units({f}) \cup Units(S \ {f}))
        /\ Cardinality(Units({f}) \cup Units(S \ {f}))
             = Volume({f}) + Volume(S \ {f}) - Cardinality(Units({f}) \cap Units(S \ {f}))
    BY <1>2, FS_Union, Zenon DEF Volume
  <2>2. IsFiniteSet(Units(S)) /\ Volume(S) = Size[f.task] + Volume(S \ {f}) - 0
    BY <1>1, <1>2, <2>1, FS_EmptySet DEF Volume
  <2> QED
    BY <1>2, <1>3, <2>2

\* A finite set of files has finitely many bytes.  A smallest set without
\* this property would, less a file, have it.
LEMMA VolumeFinite ==
  ASSUME NEW S \in SUBSET File, IsFiniteSet(S)
  PROVE  IsFiniteSet(Units(S))
<1> DEFINE Bad == {U \in SUBSET S : ~IsFiniteSet(Units(U))}
<1> SUFFICES ASSUME ~IsFiniteSet(Units(S)) PROVE FALSE
  BY DEF IsFiniteSet
<1>1. S \in Bad
  OBVIOUS
<1>2. PICK U \in Bad : \A V \in Bad : V \subseteq U => V = U
  <2>1. Bad \in SUBSET SUBSET S /\ Bad # {}
    BY <1>1
  <2> HIDE DEF Bad
  <2> QED
    BY <2>1, SmallestSet
<1>3. U # {}
  <2>1. Units({}) = {}
    BY DEF Units
  <2> QED
    BY <2>1, FS_EmptySet
<1>4. PICK f \in U : TRUE
  BY <1>3
<1>5. U \ {f} \notin Bad
  BY <1>2, <1>4
<1> QED
  BY <1>4, <1>5, VolumeStep

\* g is a function that MapThenSumSet may use for the files in R.
Sums(g, R) ==
  g = [u \in SUBSET R |-> IF u = {} THEN 0
         ELSE Size[(CHOOSE x \in u : TRUE).task] + g[u \ {CHOOSE x \in u : TRUE}]]

\* What MapThenSumSet says of Bytes.
LEMMA BytesSum ==
  ASSUME NEW s
  PROVE  Bytes(s) = (CHOOSE g : Sums(g, ToSet(s)))[ToSet(s)]
BY Zenon DEF Bytes, MapThenSumSet, MapThenFoldSet, Sums

\* There is such a function: the cardinality is one.
LEMMA VolumeSums ==
  ASSUME NEW R \in SUBSET File, IsFiniteSet(R)
  PROVE  Sums([u \in SUBSET R |-> Volume(u)], R)
<1> DEFINE g == [u \in SUBSET R |-> Volume(u)]
<1>1. ASSUME NEW u \in SUBSET R, u = {} PROVE g[u] = 0
  <2>1. Units({}) = {}
    BY DEF Units
  <2> QED
    BY <1>1, <2>1, FS_EmptySet DEF Volume
<1>2. ASSUME NEW u \in SUBSET R, u # {}
      PROVE  g[u] = Size[(CHOOSE x \in u : TRUE).task] + g[u \ {CHOOSE x \in u : TRUE}]
  <2> DEFINE f == CHOOSE x \in u : TRUE
  <2>1. f \in u
    BY <1>2
  <2> HIDE DEF f
  <2>2. u \in SUBSET File /\ u \ {f} \in SUBSET File /\ u \ {f} \in SUBSET R
    OBVIOUS
  <2>3. IsFiniteSet(Units(u \ {f}))
    BY <2>2, FS_Subset, VolumeFinite
  <2>4. g[u] = Size[f.task] + g[u \ {f}]
    BY <2>1, <2>2, <2>3, VolumeStep
  <2> QED
    BY <2>4 DEF f
<1> QED
  BY <1>1, <1>2 DEF Sums

\* And every such function is the cardinality.
LEMMA SumsVolume ==
  ASSUME NEW R \in SUBSET File, IsFiniteSet(R), NEW g, Sums(g, R)
  PROVE  g[R] = Volume(R)
<1> DEFINE Bad == {u \in SUBSET R : g[u] # Volume(u)}
<1> SUFFICES ASSUME g[R] # Volume(R) PROVE FALSE
  OBVIOUS
<1>1. R \in Bad
  OBVIOUS
<1>2. PICK u \in Bad : \A v \in Bad : v \subseteq u => v = u
  <2>1. Bad \in SUBSET SUBSET R /\ Bad # {}
    BY <1>1
  <2> HIDE DEF Bad
  <2> QED
    BY <2>1, SmallestSet
<1> DEFINE f == CHOOSE x \in u : TRUE
           v == [w \in SUBSET R |-> Volume(w)]
<1>3. g[u] = IF u = {} THEN 0 ELSE Size[f.task] + g[u \ {f}]
  BY DEF Sums
<1>4. v[u] = IF u = {} THEN 0 ELSE Size[f.task] + v[u \ {f}]
  <2>1. Sums(v, R)
    BY VolumeSums
  <2> HIDE DEF v
  <2> QED
    BY <2>1 DEF Sums
<1>5. u # {} /\ f \in u
  BY <1>3, <1>4
<1> HIDE DEF f
<1>6. u \ {f} \notin Bad
  BY <1>2, <1>5
<1> QED
  BY <1>3, <1>4, <1>5, <1>6

\* Bytes adds up the sizes, whatever the order MapThenSumSet chooses.
LEMMA BytesVolume ==
  ASSUME NEW s \in Seq(File)
  PROVE  /\ ToSet(s) \in SUBSET File /\ IsFiniteSet(ToSet(s))
         /\ Bytes(s) = Volume(ToSet(s))
<1>1. ToSet(s) \in SUBSET File
  BY ElemsType
<1>2. IsFiniteSet(ToSet(s))
  <2>1. Len(s) \in Nat /\ s \in Surjection(1..Len(s), ToSet(s))
    BY LenProperties DEF Surjection, ToSet
  <2> QED
    BY <2>1, FS_NatSurjection DEF ExistsSurjection
<1>3. \E g : Sums(g, ToSet(s))
  BY <1>1, <1>2, VolumeSums
<1>4. Sums(CHOOSE g : Sums(g, ToSet(s)), ToSet(s))
  BY <1>3, Zenon
<1> QED
  BY <1>1, <1>2, <1>4, BytesSum, SumsVolume, Zenon

\* One file more or less.
LEMMA BytesStep ==
  ASSUME NEW s \in Seq(File), NEW d \in Seq(File), NEW f \in File,
         f \in ToSet(s), ToSet(d) = ToSet(s) \ {f}
  PROVE  Bytes(s) = Size[f.task] + Bytes(d) /\ Bytes(d) \in Nat /\ Size[f.task] \in Nat
<1>1. /\ Bytes(s) = Volume(ToSet(s)) /\ Bytes(d) = Volume(ToSet(d))
      /\ ToSet(s) \in SUBSET File
      /\ ToSet(d) \in SUBSET File /\ IsFiniteSet(ToSet(d))
  BY BytesVolume
<1>2. IsFiniteSet(Units(ToSet(d)))
  BY <1>1, VolumeFinite
<1>3. Volume(ToSet(d)) \in Nat
  BY <1>2, FS_CardinalityType DEF Volume
<1>4. Size[f.task] \in Nat
  BY SizeAssumption DEF File
<1> QED
  BY <1>1, <1>2, <1>3, <1>4, VolumeStep

\* An empty index has no bytes.
LEMMA BytesOfNone == Bytes(<< >>) = 0
<1>1. << >> \in Seq(File) /\ ToSet(<< >>) = {}
  BY DEF ToSet
<1>2. Units({}) = {}
  BY DEF Units
<1> QED
  BY <1>1, <1>2, BytesVolume, FS_EmptySet DEF Volume

\* The steps that touch the index or the total.
LEMMA TotalSteps ==
  ASSUME [Next]_vars
  PROVE  \/ UNCHANGED <<files, currentBytes>>
         \/ \E t \in Tasks : SpillEvict(t) \/ SpillWrite(t)
         \/ \E w \in Workers : AckSpool(w)
         \/ Crash
         \/ NewClient
<1>1. ASSUME NEW t \in Tasks, SubmitDirect(t) \/ PushMem(t) \/ SpillBegin(t)
      PROVE  UNCHANGED <<files, currentBytes>>
  BY <1>1 DEF SubmitDirect, PushMem, SpillBegin, index
<1>2. ASSUME NEW w \in Workers,
             \/ Wake(w) \/ RetryExit(w) \/ FlushMem(w) \/ PutBack(w)
             \/ DrainSpool(w) \/ FlushSpool(w)
      PROVE  UNCHANGED <<files, currentBytes>>
  BY <1>2 DEF Wake, RetryExit, FlushMem, PutBack, DrainSpool, FlushSpool, index
<1>3. Start \/ Stop \/ SchedulerFlips \/ FileVanishes \/ UNCHANGED vars
        => UNCHANGED <<files, currentBytes>>
  BY DEF Start, Stop, SchedulerFlips, FileVanishes, vars, index
<1>4. QED
  BY <1>1, <1>2, <1>3 DEF Next, Enqueuing, Retrying

\* push evicts the oldest file.
LEMMA EvictBytes ==
  ASSUME Inv, BytesMatchIndex, NEW t \in Tasks, SpillEvict(t)
  PROVE  BytesMatchIndex'
<1>1. files \in Seq(File) /\ Increasing(files) /\ files # << >>
  BY DEF Inv, TypeOK, Ordered, SpillEvict
<1>2. CASE UNCHANGED <<files, currentBytes>>
  BY <1>2 DEF BytesMatchIndex
<1>3. CASE files' = Tail(files) /\ currentBytes' = currentBytes - Size[Head(files).task]
  <2>1. /\ Head(files) \in File /\ Head(files) \in ToSet(files)
        /\ Tail(files) \in Seq(File) /\ ToSet(Tail(files)) = ToSet(files) \ {Head(files)}
    BY <1>1, ElemsHeadTail, IncreasingTail
  <2>2. /\ Bytes(files) = Size[Head(files).task] + Bytes(Tail(files))
        /\ Bytes(Tail(files)) \in Nat /\ Size[Head(files).task] \in Nat
    BY <1>1, <2>1, BytesStep
  <2>3. currentBytes' = Bytes(Tail(files))
    BY <1>3, <2>2 DEF BytesMatchIndex
  <2> QED
    BY <1>3, <2>3 DEF BytesMatchIndex
<1> QED
  BY <1>2, <1>3 DEF SpillEvict, SpillFails

\* push writes a file with a number that is not in the index.
LEMMA WriteBytes ==
  ASSUME Inv, BytesMatchIndex, NEW t \in Tasks, SpillWrite(t)
  PROVE  BytesMatchIndex'
<1> DEFINE f == [seq |-> nextSeq - 1, task |-> t]
<1>1. files \in Seq(File) /\ nextSeq \in Nat /\ nextSeq > 0 /\ spoolLock = t /\ t # Nobody
  BY NobodyAssumption DEF Inv, TypeOK, Locked, SpillWrite
<1>2. f \in File /\ f \notin ToSet(files)
  <2>1. \A g \in ToSet(files) : g.seq < nextSeq - 1
    BY <1>1 DEF Inv, Ordered, Fresh
  <2> QED
    BY <1>1, <2>1 DEF File
<1>3. \/ UNCHANGED <<files, currentBytes>>
      \/ files' = Append(files, f) /\ currentBytes' = currentBytes + Size[f.task]
  BY DEF SpillWrite, SpillFails
<1> HIDE DEF f
<1>4. CASE UNCHANGED <<files, currentBytes>>
  BY <1>4 DEF BytesMatchIndex
<1>5. CASE files' = Append(files, f) /\ currentBytes' = currentBytes + Size[f.task]
  <2>1. Append(files, f) \in Seq(File) /\ ToSet(Append(files, f)) = ToSet(files) \cup {f}
    BY <1>1, <1>2, ElemsAppend
  <2>2. f \in ToSet(Append(files, f)) /\ ToSet(files) = ToSet(Append(files, f)) \ {f}
    BY <1>2, <2>1
  <2>3. /\ Bytes(Append(files, f)) = Size[f.task] + Bytes(files)
        /\ Bytes(files) \in Nat /\ Size[f.task] \in Nat
    BY <1>1, <1>2, <2>1, <2>2, BytesStep
  <2>4. currentBytes' = Bytes(Append(files, f))
    BY <1>5, <2>3 DEF BytesMatchIndex
  <2> QED
    BY <1>5, <2>4 DEF BytesMatchIndex
<1> QED
  BY <1>3, <1>4, <1>5

\* RemoveAt takes the file at i out of an index in order, and no other.
LEMMA RemovedAt ==
  ASSUME NEW s \in Seq(File), Increasing(s), NEW k \in DOMAIN s
  PROVE  /\ RemoveAt(s, k) \in Seq(File)
         /\ ToSet(RemoveAt(s, k)) = ToSet(s) \ {s[k]}
         /\ s[k] \in File /\ s[k] \in ToSet(s)
<1> DEFINE a == SubSeq(s, 1, k - 1)
           b == SubSeq(s, k + 1, Len(s))
<1>1. Len(s) \in Nat /\ DOMAIN s = 1..Len(s) /\ k \in 1..Len(s) /\ s[k] \in File
  BY LenProperties, ElementOfSeq
<1>2. /\ a \in Seq(File) /\ Len(a) = k - 1
      /\ \A i \in 1..(k - 1) : a[i] = s[i]
  BY <1>1, k - 1 \in 0..Len(s), ElemsSplit
<1>3. /\ b \in Seq(File) /\ Len(b) = Len(s) - k
      /\ \A i \in 1..(Len(s) - k) : b[i] = s[k + i]
  BY <1>1, k \in 0..Len(s), ElemsSplit
<1>4. RemoveAt(s, k) = a \o b
  BY DEF RemoveAt
<1> HIDE DEF a, b
<1>5. ToSet(RemoveAt(s, k)) = ToSet(a) \cup ToSet(b)
  BY <1>2, <1>3, <1>4, ElemsConcat
<1>6. DOMAIN a = 1..(k - 1) /\ DOMAIN b = 1..(Len(s) - k)
  BY <1>2, <1>3, LenProperties
<1>7. \A i \in DOMAIN s : s[i] = s[k] => i = k
  BY IncreasingInjective DEF IsInjective
<1>8. s[k] \notin ToSet(a)
  <2>1. ASSUME NEW i \in 1..(k - 1) PROVE a[i] # s[k]
    <3>1. i \in DOMAIN s /\ i # k
      BY <1>1
    <3> QED
      BY <1>2, <1>7, <3>1
  <2> QED
    BY <1>6, <2>1 DEF ToSet
<1>9. s[k] \notin ToSet(b)
  <2>1. ASSUME NEW i \in 1..(Len(s) - k) PROVE b[i] # s[k]
    <3>1. k + i \in DOMAIN s /\ k + i # k
      BY <1>1
    <3> QED
      BY <1>3, <1>7, <3>1
  <2> QED
    BY <1>6, <2>1 DEF ToSet
<1>10. s[k] \in ToSet(s)
  BY DEF ToSet
<1> QED
  BY <1>1, <1>5, <1>8, <1>9, <1>10, IncreasingRemove

\* ack gives back the bytes of the file it takes out, and of none if push
\* has evicted it.
LEMMA AckBytes ==
  ASSUME Inv, BytesMatchIndex, NEW w \in Workers, AckSpool(w)
  PROVE  BytesMatchIndex'
<1>1. files \in Seq(File) /\ Increasing(files)
  BY DEF Inv, TypeOK, Ordered
<1>2. \/ UNCHANGED <<files, currentBytes>>
      \/ \E i \in DOMAIN files : /\ files' = RemoveAt(files, i)
                                 /\ currentBytes' = currentBytes - Size[files[i].task]
  BY DEF AckSpool
<1>3. CASE UNCHANGED <<files, currentBytes>>
  BY <1>3 DEF BytesMatchIndex
<1>4. ASSUME NEW i \in DOMAIN files, files' = RemoveAt(files, i),
             currentBytes' = currentBytes - Size[files[i].task]
      PROVE  BytesMatchIndex'
  <2>1. /\ RemoveAt(files, i) \in Seq(File)
        /\ ToSet(RemoveAt(files, i)) = ToSet(files) \ {files[i]}
        /\ files[i] \in File /\ files[i] \in ToSet(files)
    BY <1>1, <1>4, RemovedAt
  <2>2. /\ Bytes(files) = Size[files[i].task] + Bytes(RemoveAt(files, i))
        /\ Bytes(RemoveAt(files, i)) \in Nat /\ Size[files[i].task] \in Nat
    BY <1>1, <2>1, BytesStep
  <2>3. currentBytes' = Bytes(RemoveAt(files, i))
    BY <1>4, <2>2 DEF BytesMatchIndex
  <2> QED
    BY <1>4, <2>3 DEF BytesMatchIndex
<1> QED
  BY <1>2, <1>3, <1>4

\* Every step keeps the total.
LEMMA BytesKept ==
  ASSUME Inv, BytesMatchIndex, [Next]_vars
  PROVE  BytesMatchIndex'
<1>1. CASE UNCHANGED <<files, currentBytes>>
  BY <1>1 DEF BytesMatchIndex
<1>2. CASE Crash
  <2>1. files' = << >> /\ currentBytes' = Bytes(<< >>)
    BY <1>2, BytesOfNone DEF Crash
  <2> QED
    BY <2>1 DEF BytesMatchIndex
<1>3. CASE NewClient
  <2>1. \/ UNCHANGED <<files, currentBytes>>
        \/ \E s, k : files' = DropFirst(s, k) /\ currentBytes' = Bytes(DropFirst(s, k))
    BY <1>3 DEF NewClient, index
  <2>2. ASSUME NEW s, NEW k, files' = DropFirst(s, k), currentBytes' = Bytes(DropFirst(s, k))
        PROVE  BytesMatchIndex'
    BY <2>2 DEF BytesMatchIndex
  <2> QED
    BY <1>1, <2>1, <2>2
<1> QED
  BY <1>1, <1>2, <1>3, TotalSteps, EvictBytes, WriteBytes, AckBytes

\* Total of submitSpool: currentBytes is always the size of the files of the
\* index, whichever of push, ack and the restart changed them.
THEOREM TotalIsExact == Spec => []BytesMatchIndex
<1>1. Init => BytesMatchIndex
  BY BytesOfNone DEF Init, BytesMatchIndex
<1>2. Inv /\ BytesMatchIndex /\ [Next]_vars => BytesMatchIndex'
  BY BytesKept
<1>3. QED
  BY <1>1, <1>2, Invariance, PTL DEF Spec
=============================================================================
