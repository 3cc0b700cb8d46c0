--------------------------- MODULE ServicesProofs ---------------------------
(***************************************************************************)
(* Theorems about the small services that keep their state beside the      *)
(* scheduler client: the Redis lock, the unique timers, the heartbeat, the *)
(* configuration provider of the alerts, the metrics and the timer loop.   *)
(* They share no state; each has a section with the invariant its property *)
(* needs.                                                                  *)
(***************************************************************************)
EXTENDS RedisLock, UniqueTimer, TimerLoop, Health, KVProvider, MetricsRegistry,
        FiniteSetTheorems, WellFoundedInduction, TLAPS

-----------------------------------------------------------------------------
(* RedisLock.  For any number of clients, any lease and any tolerance, two *)
(* clients never both rely on the lock.                                    *)
(*                                                                         *)
(* What a client relies on is a statement about the key in Redis, which    *)
(* WithinLeaseAlone does not mention.  The invariant adds it: a client     *)
(* that relies on its lease has its id in the key, and the key outlives    *)
(* the lease; and a grant whose answer is still under way has so much of   *)
(* the key left that this will be so when the answer arrives in time.      *)

\* The key is there exactly as long as it has time to live.
KeyLives == key.id = NoClient <=> key.ttl = 0

\* A client in UnLock has given up its lease.
UnlockingHasNone == \A c \in Clients : call[c] = "unlocking" => left[c] = 0

\* The lease of c is covered by the key.
LeaseCovered(c) == Relies(c) => key.id = c /\ key.ttl >= left[c]

\* The grant that c has not heard of yet still covers a whole lease, less
\* the delay so far.
GrantCovered(c) ==
  call[c] = "granted" /\ delay[c] <= Tolerance /\ ~robbed[c]
    => key.id = c /\ key.ttl + delay[c] >= LockSeconds + Tolerance

Covered == \A c \in Clients : LeaseCovered(c) /\ GrantCovered(c)

LockInv == LockTypeOK /\ KeyLives /\ UnlockingHasNone /\ Covered

-----------------------------------------------------------------------------

\* A key that names one client covers no other: a script of c that is granted
\* finds no other client covered.
LEMMA OnlyOneCovered ==
  ASSUME LockInv, NEW c \in Clients, NEW d \in Clients, d # c, Grants(c)
  PROVE  /\ ~Relies(d)
         /\ ~(call[d] = "granted" /\ delay[d] <= Tolerance /\ ~robbed[d])
<1>1. key.id # d
  BY LockBounds DEF Grants
<1> QED
  BY <1>1 DEF LockInv, Covered, LeaseCovered, GrantCovered

\* The initial state of the lock objects and of Redis.
LEMMA InitCovers == LockInit => LockInv
BY LockBounds DEF LockInit, LockInv, LockTypeOK, KeyLives, UnlockingHasNone, Covered,
   LeaseCovered, GrantCovered, Relies, Free

\* Every command, answer, failure and tick keeps the types.
LEMMA TypesKept == LockInv /\ LockNext => LockTypeOK'
<1> SUFFICES ASSUME LockInv, LockNext PROVE LockTypeOK'
  OBVIOUS
<1> USE LockBounds DEF LockInv, LockTypeOK
<1> DEFINE KeyType == [id : Clients \cup {NoClient}, ttl : 0 .. LockSeconds + Tolerance]
<1>1. ASSUME NEW c \in Clients, LockRuns(c) \/ StrayLock(c) PROVE LockTypeOK'
  <2>1. Locked(c) \in KeyType
    BY DEF Locked
  <2>2. key' \in KeyType
    BY <1>1, <2>1 DEF LockRuns, StrayLock, LockCommand
  <2>3. /\ call' \in [Clients -> {"idle", "locking", "granted", "refused", "unlocking"}]
        /\ delay' = delay /\ left' = left /\ late' = late
    BY <1>1 DEF LockRuns, StrayLock
  <2>4. robbed' \in [Clients -> BOOLEAN]
    BY <1>1, Zenon DEF LockRuns, StrayLock
  <2>5. stray' \in [Clients -> SUBSET {"lock", "del"}]
    BY <1>1 DEF LockRuns, StrayLock
  <2> QED
    BY <2>2, <2>3, <2>4, <2>5
<1>2. ASSUME NEW c \in Clients, UnLockRuns(c) \/ StrayDel(c) PROVE LockTypeOK'
  <2>1. key' \in KeyType
    BY <1>2 DEF UnLockRuns, StrayDel, DelCommand, Free
  <2>2. /\ call' \in [Clients -> {"idle", "locking", "granted", "refused", "unlocking"}]
        /\ delay' = delay /\ left' = left /\ late' = late
    BY <1>2 DEF UnLockRuns, StrayDel
  <2>3. robbed' \in [Clients -> BOOLEAN]
    BY <1>2, Zenon DEF UnLockRuns, StrayDel
  <2>4. stray' \in [Clients -> SUBSET {"lock", "del"}]
    BY <1>2 DEF UnLockRuns, StrayDel
  <2> QED
    BY <2>1, <2>2, <2>3, <2>4
<1>3. ASSUME NEW c \in Clients, TryLock(c) \/ LockGranted(c) \/ LockRefused(c) \/ UnLock(c)
      PROVE LockTypeOK'
  <2>1. /\ key' = key /\ robbed' = robbed /\ stray' = stray
        /\ call' \in [Clients -> {"idle", "locking", "granted", "refused", "unlocking"}]
    BY <1>3 DEF TryLock, LockGranted, LockRefused, UnLock, AgainOrNot
  <2>2. delay' \in [Clients -> 0 .. Tolerance + 1] /\ left' \in [Clients -> 0 .. LockSeconds]
    BY <1>3 DEF TryLock, LockGranted, LockRefused, UnLock
  <2>3. (delay[c] > Tolerance) \in BOOLEAN
    OBVIOUS
  <2>4. late' \in [Clients -> BOOLEAN]
    BY <1>3, <2>3, Zenon DEF TryLock, LockGranted, LockRefused, UnLock
  <2> QED
    BY <2>1, <2>2, <2>4
<1>4. ASSUME NEW c \in Clients, LockFails(c) \/ UnLockFails(c) PROVE LockTypeOK'
  BY <1>4 DEF LockFails, UnLockFails, AgainOrNot
<1>5. CASE LockAges
  <2>1. key' \in [id : Clients \cup {NoClient}, ttl : 0 .. LockSeconds + Tolerance]
    BY <1>5 DEF LockAges, Free
  <2>2. left' \in [Clients -> 0 .. LockSeconds] /\ delay' \in [Clients -> 0 .. Tolerance + 1]
    BY <1>5 DEF LockAges
  <2> QED
    BY <1>5, <2>1, <2>2 DEF LockAges
<1> QED
  BY <1>1, <1>2, <1>3, <1>4, <1>5 DEF LockNext, ClientStep

\* No step leaves a key without time to live, or a lease to a client in UnLock.
LEMMA KeyKept == LockInv /\ LockNext => KeyLives' /\ UnlockingHasNone'
<1> SUFFICES ASSUME LockInv, LockNext PROVE KeyLives' /\ UnlockingHasNone'
  OBVIOUS
<1> USE LockBounds DEF LockInv, LockTypeOK, KeyLives, UnlockingHasNone
<1>1. ASSUME NEW c \in Clients, LockRuns(c) \/ StrayLock(c)
      PROVE  KeyLives' /\ UnlockingHasNone'
  BY <1>1 DEF LockRuns, StrayLock, LockCommand, Grants, Locked
<1>2. ASSUME NEW c \in Clients, UnLockRuns(c) \/ StrayDel(c)
      PROVE  KeyLives' /\ UnlockingHasNone'
  BY <1>2 DEF UnLockRuns, StrayDel, DelCommand, Free
<1>3. ASSUME NEW c \in Clients, TryLock(c) \/ LockGranted(c) \/ LockRefused(c) \/ UnLock(c)
      PROVE  KeyLives' /\ UnlockingHasNone'
  BY <1>3 DEF TryLock, LockGranted, LockRefused, UnLock, AgainOrNot
<1>4. ASSUME NEW c \in Clients, LockFails(c) \/ UnLockFails(c)
      PROVE  KeyLives' /\ UnlockingHasNone'
  BY <1>4 DEF LockFails, UnLockFails, AgainOrNot
<1>5. CASE LockAges
  <2>1. KeyLives'
    BY <1>5 DEF LockAges, Free
  <2>2. UnlockingHasNone'
    BY <1>5 DEF LockAges
  <2> QED
    BY <2>1, <2>2
<1> QED
  BY <1>1, <1>2, <1>3, <1>4, <1>5 DEF LockNext, ClientStep

\* The script of Lock, executed for a caller that waits or for none: the key
\* becomes that of c with a whole lease, or stays with another client.
LEMMA LockCommandCovers ==
  ASSUME LockInv, NEW c \in Clients, LockRuns(c) \/ StrayLock(c)
  PROVE  Covered'
<1> SUFFICES ASSUME NEW d \in Clients PROVE LeaseCovered(d)' /\ GrantCovered(d)'
  BY DEF Covered
<1> USE LockBounds DEF LockInv, LockTypeOK
<1>1. CASE d = c /\ Grants(c)
  <2>1. key' = Locked(c) /\ left' = left /\ delay' = delay
    BY <1>1 DEF LockRuns, StrayLock, LockCommand
  <2> QED
    BY <1>1, <2>1 DEF LeaseCovered, GrantCovered, Locked
<1>2. CASE d # c /\ Grants(c)
  <2>1. /\ ~Relies(d)
        /\ ~(call[d] = "granted" /\ delay[d] <= Tolerance /\ ~robbed[d])
    BY <1>2, OnlyOneCovered
  <2>2. /\ call'[d] = call[d] /\ delay'[d] = delay[d] /\ robbed'[d] = robbed[d]
        /\ left'[d] = left[d] /\ late'[d] = late[d]
    BY <1>2 DEF LockRuns, StrayLock
  <2> QED
    BY <2>1, <2>2 DEF LeaseCovered, GrantCovered, Relies
<1>3. CASE ~Grants(c)
  <2>1. key' = key /\ left' = left /\ delay' = delay /\ late' = late
    BY <1>3 DEF LockRuns, StrayLock, LockCommand
  <2>2. robbed'[d] = robbed[d] /\ (call'[d] = "granted" => call[d] = "granted")
    BY <1>3 DEF LockRuns, StrayLock
  <2> QED
    BY <2>1, <2>2 DEF Covered, LeaseCovered, GrantCovered, Relies
<1> QED
  BY <1>1, <1>2, <1>3

\* The script of UnLock removes only the key of a client that has given up its
\* lease, or is noted as robbed.
LEMMA DelCommandCovers ==
  ASSUME LockInv, NEW c \in Clients, UnLockRuns(c) \/ StrayDel(c)
  PROVE  Covered'
<1> SUFFICES ASSUME NEW d \in Clients PROVE LeaseCovered(d)' /\ GrantCovered(d)'
  BY DEF Covered
<1> USE LockBounds DEF LockInv, LockTypeOK
<1>1. left' = left /\ late' = late /\ delay' = delay
  BY DEF UnLockRuns, StrayDel
<1>2. (call'[d] = "granted" => call[d] = "granted") /\ (~robbed'[d] => ~robbed[d])
  BY DEF UnLockRuns, StrayDel
<1>3. CASE key.id # c
  <2>1. key' = key
    BY <1>3 DEF UnLockRuns, StrayDel, DelCommand
  <2> QED
    BY <1>1, <1>2, <2>1 DEF Covered, LeaseCovered, GrantCovered, Relies
<1>4. CASE key.id = c /\ d # c
  BY <1>1, <1>2, <1>4 DEF Covered, LeaseCovered, GrantCovered, Relies
<1>5. CASE key.id = c /\ d = c
  <2>1. robbed'[c] \/ (left[c] = 0 /\ call'[c] = "idle")
    BY <1>5 DEF UnLockRuns, StrayDel, UnlockingHasNone
  <2> QED
    BY <1>1, <1>5, <2>1 DEF LeaseCovered, GrantCovered, Relies
<1> QED
  BY <1>3, <1>4, <1>5

\* The answer that begins a lease, and the steps of a caller that touch
\* nothing in Redis.
LEMMA AnswerCovers ==
  ASSUME LockInv, NEW c \in Clients,
         \/ TryLock(c) \/ LockGranted(c) \/ LockRefused(c) \/ LockFails(c)
         \/ UnLock(c) \/ UnLockFails(c)
  PROVE  Covered'
<1> SUFFICES ASSUME NEW d \in Clients PROVE LeaseCovered(d)' /\ GrantCovered(d)'
  BY DEF Covered
<1> USE LockBounds DEF LockInv, LockTypeOK
<1>0. key' = key /\ robbed' = robbed
  BY DEF TryLock, LockGranted, LockRefused, LockFails, UnLock, UnLockFails
<1>1. CASE LockGranted(c) /\ d = c
  <2>1. call[c] = "granted" /\ call'[c] = "idle" /\ left'[c] = LockSeconds
    BY <1>1 DEF LockGranted
  <2>2. ~late'[c] => delay[c] <= Tolerance
    <3>1. late'[c] <=> delay[c] > Tolerance
      BY <1>1 DEF LockGranted
    <3> QED
      BY <3>1
  <2>3. ASSUME Relies(c)' PROVE key.id = c /\ key.ttl + delay[c] >= LockSeconds + Tolerance
    BY <1>0, <2>1, <2>2, <2>3 DEF Covered, GrantCovered, Relies
  <2> QED
    BY <1>0, <1>1, <2>1, <2>2, <2>3 DEF LeaseCovered, GrantCovered, Relies
<1>2. CASE LockGranted(c) /\ d # c
  <2>1. /\ call'[d] = call[d] /\ delay'[d] = delay[d]
        /\ left'[d] = left[d] /\ late'[d] = late[d]
    BY <1>2 DEF LockGranted
  <2> QED
    BY <1>0, <2>1 DEF Covered, LeaseCovered, GrantCovered, Relies
<1>3. CASE ~LockGranted(c)
  <2>1. left'[d] = 0 \/ (left'[d] = left[d] /\ late'[d] = late[d])
    BY <1>3 DEF TryLock, LockRefused, LockFails, UnLock, UnLockFails
  <2>2. call'[d] = "granted" => call[d] = "granted" /\ delay'[d] = delay[d]
    BY <1>3 DEF TryLock, LockRefused, LockFails, UnLock, UnLockFails, AgainOrNot
  <2> QED
    BY <1>0, <2>1, <2>2 DEF Covered, LeaseCovered, GrantCovered, Relies
<1> QED
  BY <1>1, <1>2, <1>3

\* Time: the key ages no faster than the leases and the delays.
LEMMA AgesCovers ==
  ASSUME LockInv, LockAges
  PROVE  Covered'
<1> SUFFICES ASSUME NEW d \in Clients PROVE LeaseCovered(d)' /\ GrantCovered(d)'
  BY DEF Covered
<1> USE LockBounds DEF LockInv, LockTypeOK
<1>1. call' = call /\ late' = late /\ robbed' = robbed
  BY DEF LockAges
<1>2. ASSUME key.id = d, key.ttl > 1 PROVE key'.id = d /\ key'.ttl = key.ttl - 1
  BY <1>2 DEF LockAges
<1>3. LeaseCovered(d)'
  <2>1. left'[d] > 0 => left[d] > 1 /\ left'[d] = left[d] - 1
    BY DEF LockAges
  <2> QED
    BY <1>1, <1>2, <2>1 DEF Covered, LeaseCovered, Relies
<1>4. GrantCovered(d)'
  <2>1. call[d] = "granted" /\ delay'[d] <= Tolerance
          => delay[d] < Tolerance /\ delay'[d] = delay[d] + 1
    BY DEF LockAges
  <2> QED
    BY <1>1, <1>2, <2>1 DEF Covered, GrantCovered
<1> QED
  BY <1>3, <1>4

\* The invariant of the lock: LockInv holds in every state, however calls
\* are executed, answered late, lost or executed after they were given up.
THEOREM LockInvariance == LockSpec => []LockInv
<1>1. LockInit => LockInv
  BY InitCovers
<1>2. LockInv /\ [LockNext]_lockVars => LockInv'
  <2> SUFFICES ASSUME LockInv, [LockNext]_lockVars PROVE LockInv'
    OBVIOUS
  <2>1. CASE LockNext
    <3>1. Covered'
      BY <2>1, LockCommandCovers, DelCommandCovers, AnswerCovers, AgesCovers
         DEF LockNext, ClientStep
    <3> QED
      BY <2>1, <3>1, TypesKept, KeyKept DEF LockInv
  <2>2. CASE UNCHANGED lockVars
    BY <2>2 DEF lockVars, LockInv, LockTypeOK, KeyLives, UnlockingHasNone, Covered,
       LeaseCovered, GrantCovered, Relies
  <2> QED
    BY <2>1, <2>2
<1> QED
  BY <1>1, <1>2, PTL DEF LockSpec

\* Two clients never both rely on the lock (TryLock, UnLock), for any number
\* of clients and any LockSeconds and tolerance.
THEOREM MutualExclusion == LockSpec => []WithinLeaseAlone
<1>1. LockInv => WithinLeaseAlone
  BY DEF LockInv, Covered, LeaseCovered, WithinLeaseAlone
<1> QED
  BY <1>1, LockInvariance, PTL

-----------------------------------------------------------------------------
(* UniqueTimer.  For any number of processes and runs and any time to live *)
(* of the limit.                                                           *)
(*                                                                         *)
(* WinnersAlone compares two runs; what keeps them apart is the one key in *)
(* Redis.  The invariant says whose it is: a run that set the key and is   *)
(* under way, whose limit has not run out and whose process was not told   *)
(* to end, is the one the key names.                                       *)

\* The values the variables take, as far as the argument needs them.
UniqueTypes ==
  /\ limit \in [run : Runs \cup {NoRun}, ttl : 0 .. LimitTTL]
  /\ runOf = [r \in Runs |-> runOf[r]]
  /\ action \in [Runs -> {"none", "set", "call", "over"}]
  /\ keeper \in [Runs -> {"off", "on"}]
  /\ procCtx \in [Procs -> {"live", "done", "dead"}]
  /\ won \subseteq Runs
  /\ lapsed \subseteq Runs
  /\ \A r \in Runs : action[r] # "none" => runOf[r] \in Procs

\* A run that set the key is past SetLimit.
WonIsPast == \A r \in won : action[r] \in {"call", "over"}

\* The key names the run that won it.
WinnerHolds ==
  \A r \in won : Running(r) /\ r \notin lapsed /\ procCtx[runOf[r]] # "done" => limit.run = r

UniqueInv == UniqueTypes /\ WonIsPast /\ WinnerHolds

\* Every step keeps the types.
LEMMA UniqueTypesKept == UniqueInv /\ UniqueNext => UniqueTypes'
<1> SUFFICES ASSUME UniqueInv, UniqueNext PROVE UniqueTypes'
  OBVIOUS
<1> USE UniqueBounds DEF UniqueInv, UniqueTypes, Runs, NoRun, Unset, Mine
<1>1. ASSUME NEW r \in Runs, SetLimit(r) \/ SetLimitFails(r) PROVE UniqueTypes'
  <2>1. /\ limit' \in [run : Runs \cup {NoRun}, ttl : 0 .. LimitTTL] /\ won' \subseteq Runs
    BY <1>1 DEF SetLimit, SetLimitFails, SetNX
  <2>2. /\ action' \in [Runs -> {"none", "set", "call", "over"}]
        /\ keeper' \in [Runs -> {"off", "on"}]
        /\ \A q \in Runs : action'[q] # "none" => action[q] # "none"
    BY <1>1 DEF SetLimit, SetLimitFails
  <2>3. runOf' = runOf /\ procCtx' = procCtx /\ lapsed' = lapsed
    BY <1>1 DEF SetLimit, SetLimitFails
  <2> QED
    BY <2>1, <2>2, <2>3
<1>2. ASSUME NEW r \in Runs, RefreshLimit(r) \/ CallReturns(r) \/ DeleteLimit(r)
      PROVE  UniqueTypes'
  <2>1. limit' \in [run : Runs \cup {NoRun}, ttl : 0 .. LimitTTL]
    BY <1>2 DEF RefreshLimit, CallReturns, DeleteLimit
  <2>2. /\ action' \in [Runs -> {"none", "set", "call", "over"}]
        /\ keeper' \in [Runs -> {"off", "on"}]
        /\ \A q \in Runs : action'[q] # "none" => action[q] # "none"
    BY <1>2 DEF RefreshLimit, CallReturns, DeleteLimit
  <2>3. runOf' = runOf /\ procCtx' = procCtx /\ won' = won /\ lapsed' = lapsed
    BY <1>2 DEF RefreshLimit, CallReturns, DeleteLimit
  <2> QED
    BY <2>1, <2>2, <2>3
<1>3. ASSUME NEW r \in Runs, NEW p \in Procs, Fire(p, r) PROVE UniqueTypes'
  BY <1>3 DEF Fire
<1>4. ASSUME NEW p \in Procs, CancelTimers(p) \/ ProcDies(p) PROVE UniqueTypes'
  BY <1>4 DEF CancelTimers, ProcDies
<1>5. CASE LimitAges
  BY <1>5 DEF LimitAges
<1> QED
  BY <1>1, <1>2, <1>3, <1>4, <1>5 DEF UniqueNext, RunStep

\* A run sets the key once, on its way from SetLimit to the call.
LEMMA WonIsPastKept == UniqueInv /\ UniqueNext => WonIsPast'
<1> SUFFICES ASSUME UniqueInv, UniqueNext PROVE WonIsPast'
  OBVIOUS
<1> USE DEF UniqueInv, UniqueTypes, WonIsPast
<1>1. ASSUME NEW r \in Runs, SetLimit(r) \/ SetLimitFails(r) PROVE WonIsPast'
  BY <1>1 DEF SetLimit, SetLimitFails, SetNX
<1>2. ASSUME NEW r \in Runs, RefreshLimit(r) \/ CallReturns(r) \/ DeleteLimit(r)
      PROVE  WonIsPast'
  BY <1>2 DEF RefreshLimit, CallReturns, DeleteLimit
<1>3. ASSUME NEW r \in Runs, NEW p \in Procs, Fire(p, r) PROVE WonIsPast'
  BY <1>3 DEF Fire
<1>4. ASSUME NEW p \in Procs, CancelTimers(p) \/ ProcDies(p) PROVE WonIsPast'
  BY <1>4 DEF CancelTimers, ProcDies
<1>5. CASE LimitAges
  BY <1>5 DEF LimitAges
<1> QED
  BY <1>1, <1>2, <1>3, <1>4, <1>5 DEF UniqueNext, RunStep

\* The key passes to another run only when it is free, and leaves the run it
\* names only when that run is done with, or its time is over.
LEMMA WinnerHoldsKept == UniqueInv /\ UniqueNext => WinnerHolds'
<1> SUFFICES ASSUME UniqueInv, UniqueNext PROVE WinnerHolds'
  OBVIOUS
<1> USE UniqueBounds DEF UniqueInv, UniqueTypes, WonIsPast, WinnerHolds, Running, Runs, NoRun
<1>1. ASSUME NEW r \in Runs, SetLimit(r) \/ SetLimitFails(r) PROVE WinnerHolds'
  <2>1. r \notin won
    BY <1>1 DEF SetLimit, SetLimitFails
  <2>2. \A s \in won' : s # r => s \in won /\ action'[s] = action[s]
    BY <1>1 DEF SetLimit, SetLimitFails, SetNX
  <2>3. /\ procCtx' = procCtx /\ runOf' = runOf /\ lapsed' = lapsed
        /\ \/ limit' = limit /\ won' = won
           \/ limit.run = NoRun /\ limit'.run = r
    BY <1>1 DEF SetLimit, SetLimitFails, SetNX, Mine
  <2>4. ASSUME NEW s \in won', Running(s)', s \notin lapsed', procCtx'[runOf'[s]] # "done"
        PROVE  limit'.run = s
    <3>1. CASE s = r
      BY <2>1, <2>3, <2>4, <3>1
    <3>2. CASE s # r
      <4>1. s \in won /\ Running(s) /\ s \notin lapsed /\ procCtx[runOf[s]] # "done"
        BY <2>2, <2>3, <2>4, <3>2
      <4>2. limit.run = s
        BY <4>1, Zenon DEF WinnerHolds
      <4>3. s # NoRun
        BY <4>1
      <4> QED
        BY <2>3, <4>2, <4>3
    <3> QED
      BY <3>1, <3>2
  <2> QED
    BY <2>4
<1>2. ASSUME NEW r \in Runs, RefreshLimit(r) PROVE WinnerHolds'
  BY <1>2 DEF RefreshLimit, Mine
<1>3. ASSUME NEW r \in Runs, CallReturns(r) PROVE WinnerHolds'
  BY <1>3 DEF CallReturns
<1>4. ASSUME NEW r \in Runs, DeleteLimit(r) PROVE WinnerHolds'
  BY <1>4 DEF DeleteLimit, RunCtxDone, Unset
<1>5. ASSUME NEW r \in Runs, NEW p \in Procs, Fire(p, r) PROVE WinnerHolds'
  BY <1>5 DEF Fire
<1>6. ASSUME NEW p \in Procs, CancelTimers(p) \/ ProcDies(p) PROVE WinnerHolds'
  <2>1. /\ limit' = limit /\ runOf' = runOf /\ won' = won /\ lapsed' = lapsed
        /\ \A r \in won : Running(r)' => Running(r)
    BY <1>6 DEF CancelTimers, ProcDies
  <2>2. \A r \in won : Running(r)' /\ procCtx'[runOf[r]] # "done" => procCtx[runOf[r]] # "done"
    BY <1>6 DEF CancelTimers, ProcDies
  <2> QED
    BY <2>1, <2>2
<1>7. CASE LimitAges
  BY <1>7 DEF LimitAges, Unset
<1> QED
  BY <1>1, <1>2, <1>3, <1>4, <1>5, <1>6, <1>7 DEF UniqueNext, RunStep

\* The invariant of the unique timers, over SetNX, refreshes, deletions,
\* cancelled and dead processes and the time to live of the key.
THEOREM UniqueInvariance == UniqueSpec => []UniqueInv
<1>1. UniqueInit => UniqueInv
  BY UniqueBounds DEF UniqueInit, UniqueInv, UniqueTypes, WonIsPast, WinnerHolds, Unset, Runs, NoRun
<1>2. UniqueInv /\ [UniqueNext]_uniqueVars => UniqueInv'
  <2>1. UniqueInv /\ UniqueNext => UniqueInv'
    BY UniqueTypesKept, WonIsPastKept, WinnerHoldsKept DEF UniqueInv
  <2>2. UniqueInv /\ UNCHANGED uniqueVars => UniqueInv'
    BY DEF uniqueVars, UniqueInv, UniqueTypes, WonIsPast, WinnerHolds, Running
  <2> QED
    BY <2>1, <2>2
<1> QED
  BY <1>1, <1>2, PTL DEF UniqueSpec

\* The limit in Redis does its work (SetLimit, RefreshLimit, DeleteLimit): of
\* the runs that set it no two are under way at once, unless the time of one
\* ran out or its process was told to end, in any number of processes.
THEOREM LimitKeepsApart == UniqueSpec => []WinnersAlone
<1>1. UniqueInv => WinnersAlone
  <2> SUFFICES ASSUME UniqueInv, NEW r \in won, NEW s \in won, Running(r), Running(s), r # s
               PROVE  \E t \in {r, s} : t \in lapsed \/ procCtx[runOf[t]] = "done"
    BY DEF WinnersAlone
  <2> QED
    BY DEF UniqueInv, WinnerHolds
<1> QED
  BY <1>1, UniqueInvariance, PTL

-----------------------------------------------------------------------------
(* Health.  For any bound on the calls of Start and any age of removal.    *)
(*                                                                         *)
(* That no beat brings the instance back after Stop is a statement about   *)
(* the goroutine, which StoppedStaysGone does not mention: once the doneCh *)
(* of the only Start is closed its goroutine is over, and Stop removes the *)
(* entries only after that.  What is still on its way then was given up by *)
(* an earlier beat and is at least as old as the removal.                  *)

\* The values the variables take, as far as the argument needs them.
HealthTypes ==
  /\ starts \in 0 .. MaxStarts
  /\ beater \in [Starts -> {"none", "new", "select", "zadd", "meta", "over"}]
  /\ owner \in {"idle", "beat", "beatMeta", "wait", "zrem", "hdel"}
  /\ entry \in -1 .. StaleCleanup
  /\ strays \in SUBSET Commands
  /\ sinceStop \in -1 .. StaleCleanup

\* A goroutine belongs to a Start that was called, and is created at its end.
Launched ==
  /\ \A g \in Starts : beater[g] # "none" => g <= starts
  /\ owner \in {"beat", "beatMeta"} => starts \in Starts /\ beater[starts] = "none"

\* Of a single Start: its doneCh is closed by its goroutine, as the last thing.
DoneIsOver ==
  /\ starts = 0 => doneClosed = {}
  /\ starts = 1 /\ 1 \in doneClosed => beater[1] = "over"

\* Stop without Start is noted as refused.
EarlyStopRefused == onceUsed /\ starts = 0 => stopRefused

\* Stop after a single Start, as far as it has come.
StopProgress ==
  starts = 1 /\ onceUsed /\ ~stopRefused =>
    /\ owner \in {"wait", "zrem", "hdel", "idle"}
    /\ owner # "wait" => 1 \in doneClosed
    /\ owner \in {"hdel", "idle"} =>
         /\ sinceStop \in Ages
         /\ \A x \in strays : x.age >= sinceStop
         /\ entry # Gone => "zadd" \in cameLate /\ entry >= sinceStop
    /\ owner = "idle" => (meta => "hset" \in cameLate)

HealthInv == HealthTypes /\ Launched /\ DoneIsOver /\ EarlyStopRefused /\ StopProgress

\* Getting older keeps the order of ages.
LEMMA AgedProps ==
  ASSUME NEW a \in -1 .. StaleCleanup, NEW b \in -1 .. StaleCleanup
  PROVE  /\ Aged(a) \in -1 .. StaleCleanup
         /\ a \in Ages => Aged(a) \in Ages
         /\ Aged(a) = Gone <=> a = Gone
         /\ a >= b => Aged(a) >= Aged(b)
BY HealthBounds DEF Aged, Ages, Gone

\* A command that is given up is a command.
LEMMA GivesUpType ==
  ASSUME strays \in SUBSET Commands,
         NEW c \in {"zadd", "hset", "zrem", "hdel"}, GivesUp(c) \/ BeatFails(c) \/ UNCHANGED strays
  PROVE  strays' \in SUBSET Commands
BY HealthBounds DEF GivesUp, BeatFails, Commands, Ages

\* Every step keeps the types.
LEMMA HealthTypesKept == HealthInv /\ HealthNext => HealthTypes'
<1> SUFFICES ASSUME HealthInv, HealthNext PROVE HealthTypes'
  OBVIOUS
<1> USE HealthBounds DEF HealthInv, HealthTypes, Launched, Starts
<1>1. CASE StartBegin \/ StartZAdd \/ StartMeta
  <2>1. strays' \in SUBSET Commands
    BY <1>1, GivesUpType DEF StartBegin, StartZAdd, StartMeta, ZAddResult, HSetResult, store
  <2> QED
    BY <1>1, <2>1 DEF StartBegin, StartZAdd, StartMeta, ZAddResult, Launch, store, history
<1>2. CASE StopBegin \/ StopWaits \/ StopZRem \/ StopHDel
  <2>1. strays' \in SUBSET Commands
    BY <1>2, GivesUpType DEF StopBegin, StopWaits, StopZRem, StopHDel, store
  <2> QED
    BY <1>2, <2>1 DEF StopBegin, StopWaits, StopZRem, StopHDel, Gone, store, history
<1>3. ASSUME NEW g \in Starts, BeaterBegins(g) \/ BeaterTicks(g) \/ BeaterEnds(g)
      PROVE  HealthTypes'
  BY <1>3 DEF BeaterBegins, BeaterTicks, BeaterEnds, store, history
<1>4. ASSUME NEW g \in Starts, BeaterZAdd(g) \/ BeaterMeta(g) PROVE HealthTypes'
  <2>1. strays' \in SUBSET Commands
    BY <1>4, GivesUpType DEF BeaterZAdd, BeaterMeta, ZAddResult, HSetResult
  <2> QED
    BY <1>4, <2>1 DEF BeaterZAdd, BeaterMeta, ZAddResult, Reselect, history
<1>5. CASE CtxDone \/ OtherBeats
  BY <1>5 DEF CtxDone, OtherBeats, SweepStale, Gone, store, history
<1>6. CASE EntryAges
  <2>1. strays' \in SUBSET Commands
    <3> SUFFICES ASSUME NEW x \in strays PROVE [x EXCEPT !.age = Aged(@)] \in Commands
      BY <1>6 DEF EntryAges
    <3>1. x.age \in Ages /\ x \in Commands
      BY DEF Commands
    <3>2. Aged(x.age) \in Ages
      BY <3>1, AgedProps DEF Ages
    <3> QED
      BY <3>1, <3>2 DEF Commands
  <2> QED
    BY <1>6, <2>1, AgedProps DEF EntryAges
<1>7. ASSUME NEW x \in Commands, StrayExecutes(x) PROVE HealthTypes'
  <2>1. x.age \in Ages /\ x.cmd \in {"zadd", "hset", "zrem", "hdel"}
    BY DEF Commands
  <2> QED
    BY <1>7, <2>1 DEF StrayExecutes, Ages, Gone
<1> QED
  BY <1>1, <1>2, <1>3, <1>4, <1>5, <1>6, <1>7 DEF HealthNext

\* Start and Stop, which run one after the other.
LEMMA OwnerSteps ==
  ASSUME HealthInv, HealthTypes',
         \/ StartBegin \/ StartZAdd \/ StartMeta
         \/ StopBegin \/ StopWaits \/ StopZRem \/ StopHDel
  PROVE  Launched' /\ DoneIsOver' /\ EarlyStopRefused' /\ StopProgress'
<1> USE HealthBounds
    DEF HealthInv, HealthTypes, Launched, DoneIsOver, EarlyStopRefused, StopProgress, Starts
<1>1. CASE StartBegin
  BY <1>1 DEF StartBegin, store, history
<1>2. CASE StartZAdd \/ StartMeta
  <2>1. /\ owner \in {"beat", "beatMeta"} /\ owner' \in {"beatMeta", "idle"}
        /\ UNCHANGED <<starts, doneClosed, onceUsed, stopRefused>>
    BY <1>2 DEF StartZAdd, StartMeta, ZAddResult, Launch, history
  <2>2. \/ owner' = "idle" /\ beater' = [beater EXCEPT ![starts] = "new"]
        \/ beater' = beater
    BY <1>2 DEF StartZAdd, StartMeta, ZAddResult, Launch
  <2>3. ~(starts = 1 /\ onceUsed /\ ~stopRefused)
    BY <2>1
  <2>4. Launched'
    <3>1. owner' \in {"beat", "beatMeta"} => beater' = beater
      BY <1>2 DEF StartZAdd, StartMeta, ZAddResult, Launch
    <3> QED
      BY <2>1, <2>2, <3>1
  <2>5. DoneIsOver'
    BY <2>1, <2>2
  <2> QED
    BY <2>1, <2>3, <2>4, <2>5
<1>3. CASE StopBegin
  BY <1>3 DEF StopBegin, store
<1>4. CASE StopWaits
  BY <1>4 DEF StopWaits, store, history
<1>5. CASE StopZRem
  <2>1. 0 \in Ages /\ \A x \in strays : x.age >= 0
    BY DEF Ages, Commands
  <2> QED
    BY <1>5, <2>1 DEF StopZRem
<1>6. CASE StopHDel
  BY <1>6 DEF StopHDel
<1> QED
  BY <1>1, <1>2, <1>3, <1>4, <1>5, <1>6

\* The goroutine: one that beats is not over, so the doneCh of the only Start
\* is still open and Stop still waits.
LEMMA BeaterSteps ==
  ASSUME HealthInv, HealthTypes', NEW g \in Starts,
         BeaterBegins(g) \/ BeaterTicks(g) \/ BeaterZAdd(g) \/ BeaterMeta(g) \/ BeaterEnds(g)
  PROVE  Launched' /\ DoneIsOver' /\ EarlyStopRefused' /\ StopProgress'
<1> USE HealthBounds
    DEF HealthInv, HealthTypes, Launched, DoneIsOver, EarlyStopRefused, StopProgress, Starts
<1>1. /\ beater[g] \notin {"none", "over"}
      /\ UNCHANGED <<starts, owner, onceUsed, stopRefused>>
  BY DEF BeaterBegins, BeaterTicks, BeaterZAdd, BeaterMeta, BeaterEnds, ZAddResult, Reselect, history
<1>2. \A h \in Starts : h # g => beater'[h] = beater[h]
  BY DEF BeaterBegins, BeaterTicks, BeaterZAdd, BeaterMeta, BeaterEnds, ZAddResult, Reselect
<1>3. Launched'
  BY <1>1, <1>2
<1>4. DoneIsOver'
  <2>1. doneClosed' = doneClosed \/ beater'[g] = "over"
    BY DEF BeaterBegins, BeaterTicks, BeaterZAdd, BeaterMeta, BeaterEnds, ZAddResult, Reselect
  <2>2. g <= starts
    BY <1>1, Zenon DEF Launched
  <2>3. starts # 0 /\ (starts = 1 => g = 1)
    BY <2>2
  <2> QED
    BY <1>1, <1>2, <2>1, <2>3
<1>5. StopProgress'
  <2> SUFFICES ASSUME starts = 1, onceUsed, ~stopRefused
               PROVE  StopProgress'
    BY <1>1
  <2>1. g = 1 /\ 1 \notin doneClosed
    BY <1>1
  <2> QED
    BY <1>1, <2>1
<1> QED
  BY <1>1, <1>3, <1>4, <1>5

\* Time, Redis and other instances: what Redis executes after the removal is
\* noted, and as old as it.
LEMMA RedisSteps ==
  ASSUME HealthInv, HealthTypes',
         \/ CtxDone \/ OtherBeats \/ EntryAges
         \/ \E x \in Commands : StrayExecutes(x)
  PROVE  Launched' /\ DoneIsOver' /\ EarlyStopRefused' /\ StopProgress'
<1>1. UNCHANGED <<starts, doneClosed, beater, owner, onceUsed, stopRefused>>
  BY DEF CtxDone, OtherBeats, EntryAges, StrayExecutes, history
<1>2. Launched' /\ DoneIsOver' /\ EarlyStopRefused'
  BY <1>1 DEF HealthInv, Launched, DoneIsOver, EarlyStopRefused
<1>3. ASSUME starts = 1, onceUsed, ~stopRefused
      PROVE  /\ owner \in {"wait", "zrem", "hdel", "idle"}
             /\ owner # "wait" => 1 \in doneClosed
  BY <1>3 DEF HealthInv, StopProgress
<1>4. ASSUME starts = 1, onceUsed, ~stopRefused, owner \in {"hdel", "idle"}
      PROVE  /\ sinceStop' \in Ages
             /\ \A x \in strays' : x.age >= sinceStop'
             /\ entry' # Gone => "zadd" \in cameLate' /\ entry' >= sinceStop'
  <2>1. /\ sinceStop \in Ages
        /\ \A x \in strays : x.age >= sinceStop
        /\ entry # Gone => "zadd" \in cameLate /\ entry >= sinceStop
    BY <1>4 DEF HealthInv, StopProgress
  <2>2. CASE CtxDone \/ OtherBeats
    BY <2>1, <2>2 DEF CtxDone, OtherBeats, SweepStale, store, history
  <2>3. CASE EntryAges
    <3>1. sinceStop \in -1 .. StaleCleanup /\ entry \in -1 .. StaleCleanup
      BY DEF HealthInv, HealthTypes
    <3>2. /\ sinceStop' = Aged(sinceStop) /\ entry' = Aged(entry) /\ cameLate' = cameLate
          /\ strays' = {[x EXCEPT !.age = Aged(@)] : x \in strays}
      BY <2>3 DEF EntryAges
    <3>3. ASSUME NEW x \in strays PROVE [x EXCEPT !.age = Aged(@)].age >= sinceStop'
      <4>1. x.age \in -1 .. StaleCleanup /\ x.age >= sinceStop /\ x \in Commands
        BY <2>1, HealthBounds DEF HealthInv, HealthTypes, Commands, Ages
      <4>2. [x EXCEPT !.age = Aged(@)].age = Aged(x.age)
        BY <4>1 DEF Commands
      <4> QED
        BY <3>1, <3>2, <4>1, <4>2, AgedProps
    <3>4. \A y \in strays' : y.age >= sinceStop'
      BY <3>2, <3>3
    <3>5. sinceStop' \in Ages
      BY <2>1, <3>1, <3>2, AgedProps
    <3>6. entry' # Gone => "zadd" \in cameLate' /\ entry' >= sinceStop'
      BY <2>1, <3>1, <3>2, AgedProps
    <3> QED
      BY <3>4, <3>5, <3>6
  <2>4. ASSUME NEW x \in Commands, StrayExecutes(x)
        PROVE  /\ sinceStop' \in Ages
               /\ \A y \in strays' : y.age >= sinceStop'
               /\ entry' # Gone => "zadd" \in cameLate' /\ entry' >= sinceStop'
    <3>1. /\ x \in strays /\ sinceStop' = sinceStop /\ strays' \subseteq strays
          /\ entry' = CASE x.cmd = "zadd" -> x.age [] x.cmd = "zrem" -> Gone [] OTHER -> entry
          /\ cameLate' = IF Undone(x.cmd) THEN cameLate \cup {x.cmd} ELSE cameLate
      BY <2>4 DEF StrayExecutes
    <3>2. x.cmd = "zadd" => Undone(x.cmd)
      BY <1>4 DEF Undone
    <3> QED
      BY <2>1, <3>1, <3>2
  <2> QED
    BY <2>2, <2>3, <2>4
<1>5. ASSUME starts = 1, onceUsed, ~stopRefused, owner = "idle", meta'
      PROVE  "hset" \in cameLate'
  <2>1. meta => "hset" \in cameLate
    BY <1>5 DEF HealthInv, StopProgress
  <2>2. CASE CtxDone \/ OtherBeats \/ EntryAges
    BY <1>5, <2>1, <2>2, Zenon DEF CtxDone, OtherBeats, EntryAges, store, history
  <2>3. ASSUME NEW x \in Commands, StrayExecutes(x) PROVE "hset" \in cameLate'
    <3>1. /\ meta' = CASE x.cmd = "hset" -> TRUE [] x.cmd = "hdel" -> FALSE [] OTHER -> meta
          /\ cameLate' = IF Undone(x.cmd) THEN cameLate \cup {x.cmd} ELSE cameLate
      BY <2>3 DEF StrayExecutes
    <3>2. CASE x.cmd = "hset"
      <4>1. Undone(x.cmd)
        BY <1>5, <3>2 DEF Undone
      <4> QED
        BY <3>1, <3>2, <4>1
    <3>3. CASE x.cmd # "hset"
      <4>1. meta
        BY <1>5, <3>1, <3>3
      <4> QED
        BY <2>1, <3>1, <4>1
    <3> QED
      BY <3>2, <3>3
  <2> QED
    BY <2>2, <2>3
<1>6. StopProgress'
  BY <1>1, <1>3, <1>4, <1>5 DEF StopProgress
<1> QED
  BY <1>2, <1>6

\* The invariant of the heartbeat, over every order of Start, Stop, beats, a
\* context that ends and commands that are executed late.
THEOREM HealthInvariance == HealthSpec => []HealthInv
<1>1. HealthInit => HealthInv
  BY HealthBounds DEF HealthInit, HealthInv, HealthTypes, Launched, DoneIsOver,
     EarlyStopRefused, StopProgress, Starts, NoCh, Gone, Commands
<1>2. HealthInv /\ [HealthNext]_healthVars => HealthInv'
  <2> SUFFICES ASSUME HealthInv, [HealthNext]_healthVars PROVE HealthInv'
    OBVIOUS
  <2>1. CASE HealthNext
    <3>1. HealthTypes'
      BY <2>1, HealthTypesKept
    <3> QED
      BY <2>1, <3>1, OwnerSteps, BeaterSteps, RedisSteps DEF HealthNext, HealthInv
  <2>2. CASE UNCHANGED healthVars
    BY <2>2 DEF healthVars, store, history, HealthInv, HealthTypes, Launched, DoneIsOver, EarlyStopRefused,
       StopProgress
  <2> QED
    BY <2>1, <2>2
<1> QED
  BY <1>1, <1>2, PTL DEF HealthSpec

\* After Stop the instance stays gone (Reporter.Stop waits for the goroutine
\* before it removes the entries, so that no beat comes after it), or comes
\* back by a command given up before, with a score from before Stop.
THEOREM StopIsFinal == HealthSpec => []StoppedStaysGone
<1>1. HealthInv => StoppedStaysGone
  BY DEF HealthInv, StopProgress, StoppedStaysGone, Stopped
<1> QED
  BY <1>1, HealthInvariance, PTL

-----------------------------------------------------------------------------
(* KVProvider.  For any number of readers, any time to live of the cache   *)
(* and any bound on the time a read of the store takes.                    *)
(*                                                                         *)
(* SilencedWithinTTL speaks of answers; the invariant bounds what they are *)
(* made from.  A value "on" that a reader holds is at least as old as the  *)
(* store has been off; one in the cache may be older than its age says, by *)
(* the time its read took, and by no more.                                 *)

Configs == {"on", "off", "none"}

ProviderTypes ==
  /\ kv \in {"on", "off"}
  /\ offFor \in 0 .. OutOfSight
  /\ cache \in [cfg : Configs, age : 0 .. CacheTTL]
  /\ reads \in [Readers -> [cfg : Configs, age : 0 .. MaxRead]]
  /\ fallback \in Configs
  /\ answers \in [Readers -> [cfg : Configs, known : BOOLEAN]]

\* The time off is counted only while the store says "off".
OffCounted == kv = "on" => offFor = 0

\* A value on its way to a reader.
ReadsBound == \A x \in Readers : reads[x].cfg = "on" => offFor <= reads[x].age

\* The cached value.
CacheBound == cache.cfg = "on" => offFor <= cache.age + MaxRead

ProviderInv == ProviderTypes /\ OffCounted /\ ReadsBound /\ CacheBound /\ SilencedWithinTTL

\* What Min is used for: the smaller of two numbers.
LEMMA MinOfTwo ==
  ASSUME NEW a \in Int, NEW b \in Int
  PROVE  Min({a, b}) = IF a <= b THEN a ELSE b
<1>1. \E m \in {a, b} : \A y \in {a, b} : m <= y
  OBVIOUS
<1>2. Min({a, b}) \in {a, b} /\ \A y \in {a, b} : Min({a, b}) <= y
  BY <1>1, Zenon DEF Min
<1> QED
  BY <1>2

\* An answer from the cache, the read of a value, the end of a read.
LEMMA GetKeeps ==
  ASSUME ProviderInv, NEW x \in Readers,
         GetCached(x) \/ GetReads(x) \/ GetStores(x) \/ GetFails(x)
  PROVE  ProviderInv'
<1> USE ProviderBounds DEF ProviderInv, ProviderTypes, Configs, OffCounted, ReadsBound,
        CacheBound, SilencedWithinTTL, OutOfSight, NoConfig
<1>1. CASE GetCached(x)
  <2>1. /\ UNCHANGED <<kv, offFor, cache, reads, fallback>>
        /\ answers' \in [Readers -> [cfg : Configs, known : BOOLEAN]]
        /\ \A y \in Readers : y # x => answers'[y] = answers[y]
        /\ answers'[x] = [cfg |-> cache.cfg, known |-> TRUE]
    BY <1>1 DEF GetCached, Answer
  <2>2. cache.cfg = "on" => offFor < OutOfSight
    BY <1>1 DEF GetCached, Fresh
  <2>3. SilencedWithinTTL'
    BY <2>1, <2>2
  <2> QED
    BY <2>1, <2>3
<1>2. CASE GetReads(x)
  <2>1. /\ UNCHANGED <<kv, offFor, cache, fallback, answers>>
        /\ reads' \in [Readers -> [cfg : Configs, age : 0 .. MaxRead]]
        /\ \A y \in Readers : y # x => reads'[y] = reads[y]
        /\ reads'[x] = [cfg |-> kv, age |-> 0]
    BY <1>2 DEF GetReads
  <2> QED
    BY <2>1
<1>3. CASE GetStores(x) \/ GetFails(x)
  <2>1. /\ UNCHANGED <<kv, offFor, fallback>>
        /\ reads' \in [Readers -> [cfg : Configs, age : 0 .. MaxRead]]
        /\ \A y \in Readers : y # x => reads'[y] = reads[y]
        /\ reads'[x].cfg = "none"
    <3>1. UNCHANGED <<kv, offFor, fallback>> /\ reads' = [reads EXCEPT ![x] = NoConfig]
      BY <1>3, Zenon DEF GetStores, GetFails
    <3> QED
      BY <3>1
  <2>2. /\ answers' \in [Readers -> [cfg : Configs, known : BOOLEAN]]
        /\ \A y \in Readers : y # x => answers'[y] = answers[y]
        /\ answers'[x] = [cfg |-> reads[x].cfg, known |-> TRUE] \/ ~answers'[x].known
    <3>1. CASE answers' = [answers EXCEPT ![x] = [cfg |-> reads[x].cfg, known |-> TRUE]]
      BY <3>1
    <3>2. CASE answers' = [answers EXCEPT ![x] = [cfg |-> fallback, known |-> FALSE]]
      BY <3>2
    <3> QED
      BY <1>3, <3>1, <3>2, Zenon DEF GetStores, GetFails, Answer
  <2>3. cache' = cache \/ cache' = [cfg |-> reads[x].cfg, age |-> 0]
    BY <1>3 DEF GetStores, GetFails
  <2>4. reads[x].cfg = "on" => offFor <= MaxRead
    OBVIOUS
  <2>5. SilencedWithinTTL'
    BY <2>1, <2>2, <2>4
  <2>6. ReadsBound'
    BY <2>1
  <2>7. CacheBound' /\ cache' \in [cfg : Configs, age : 0 .. CacheTTL]
    BY <2>1, <2>3, <2>4
  <2> QED
    BY <2>1, <2>2, <2>5, <2>6, <2>7
<1> QED
  BY <1>1, <1>2, <1>3

\* Time: what is read and what is cached age no slower than the store has
\* been off, up to the caps.
LEMMA ConfigAgesKeeps ==
  ASSUME ProviderInv, ConfigAges
  PROVE  ProviderInv'
<1> USE ProviderBounds DEF ProviderInv, ProviderTypes, Configs, OffCounted, ReadsBound,
        CacheBound, SilencedWithinTTL, OutOfSight
<1>1. /\ offFor' \in 0 .. OutOfSight /\ offFor' <= offFor + 1
      /\ kv' = kv /\ fallback' = fallback /\ OffCounted'
  <2>1. Min({offFor + 1, OutOfSight}) = IF offFor + 1 <= OutOfSight THEN offFor + 1 ELSE OutOfSight
    BY MinOfTwo
  <2> QED
    BY <2>1 DEF ConfigAges
<1>2. /\ answers' \in [Readers -> [cfg : Configs, known : BOOLEAN]]
      /\ SilencedWithinTTL'
  BY DEF ConfigAges
<1>3. /\ reads' \in [Readers -> [cfg : Configs, age : 0 .. MaxRead]]
      /\ ReadsBound'
  <2>1. \A x \in Readers : /\ reads'[x] \in [cfg : Configs, age : 0 .. MaxRead]
                           /\ reads'[x].cfg = "on" => /\ reads[x].cfg = "on"
                                                      /\ reads'[x].age = reads[x].age + 1
    BY DEF ConfigAges, NoConfig
  <2>2. reads' = [x \in Readers |-> reads'[x]]
    BY DEF ConfigAges
  <2> QED
    BY <1>1, <2>1, <2>2
<1>4. /\ cache' \in [cfg : Configs, age : 0 .. CacheTTL]
      /\ CacheBound'
  <2>1. Min({cache.age + 1, CacheTTL}) = IF cache.age + 1 <= CacheTTL THEN cache.age + 1 ELSE CacheTTL
    BY MinOfTwo
  <2>2. \/ cache' = cache /\ cache.cfg = "none"
        \/ cache' = [cfg |-> cache.cfg, age |-> Min({cache.age + 1, CacheTTL})]
    BY DEF ConfigAges, NoConfig
  <2> QED
    BY <1>1, <2>1, <2>2
<1> QED
  BY <1>1, <1>2, <1>3, <1>4

\* The invariant of the provider, over late answers, several readers and an
\* invalidated cache.
THEOREM ProviderInvariance == ProviderSpec => []ProviderInv
<1> USE ProviderBounds DEF ProviderInv, ProviderTypes, Configs, OffCounted, ReadsBound,
        CacheBound, SilencedWithinTTL, OutOfSight
<1>1. ProviderInit => ProviderInv
  BY DEF ProviderInit, NoConfig
<1>2. ProviderInv /\ [ProviderNext]_providerVars => ProviderInv'
  <2> SUFFICES ASSUME ProviderInv, [ProviderNext]_providerVars PROVE ProviderInv'
    OBVIOUS
  <2>1. CASE InvalidateCache
    BY <2>1 DEF InvalidateCache, NoConfig
  <2>2. CASE SwitchAlerts
    BY <2>2 DEF SwitchAlerts
  <2>3. CASE UNCHANGED providerVars
    BY <2>3 DEF providerVars
  <2> QED
    BY <2>1, <2>2, <2>3, GetKeeps, ConfigAgesKeeps DEF ProviderNext
<1> HIDE DEF ProviderInv
<1> QED
  BY <1>1, <1>2, PTL DEF ProviderSpec

\* GetNotifierConfig stops answering "on" once the configuration has been off
\* for the time to live of the cache and the longest read together.
THEOREM SilenceIsHeard == ProviderSpec => []SilencedWithinTTL
<1>1. ProviderInv => SilencedWithinTTL
  BY DEF ProviderInv
<1> QED
  BY <1>1, ProviderInvariance, PTL

-----------------------------------------------------------------------------
(* MetricsRegistry.  For any number of callers, registries and records.    *)
(*                                                                         *)
(* A record is new when it is made (the records there are are always       *)
(* 1 .. recordCount), and a collection moves it and never copies it: all   *)
(* places are pairwise disjoint.  That the last collection leaves nothing  *)
(* behind is followed value by value: once the collection after stopCh has *)
(* passed a value, what is in it was recorded too late.  That a record was *)
(* overwritten by a metric of its name stays true since a record keeps its *)
(* kind and a registry its metrics.                                        *)

MetricsTypes ==
  /\ made \in 0 .. MaxRegistries
  /\ onSnapshot \in [Registries -> BOOLEAN]
  /\ loop \in [Registries -> {"none", "wait", "collect", "notify", "over"}]
  /\ at \in [Registries -> 1 .. 5]
  /\ last \in [Registries -> BOOLEAN]
  /\ values \in [Registries -> [Kinds -> SUBSET Records]]
  /\ snapshot \in [Registries -> SUBSET Records]
  /\ created \in [Registries -> SUBSET InUse]
  /\ kindOf \in [Records -> Kinds]
  /\ recordCount \in Nat /\ overwritten \subseteq Records

\* Records are numbered in the order in which they are made, and none is lost.
Numbered == Recorded = 1 .. recordCount

\* A record was overwritten by a metric of the same name.
ByNamesake == \A e \in overwritten :
                \E r \in Registries : \E m \in created[r] : Shadows(m, kindOf[e])

\* No two places share a record.
ValuesApart == \A r, q \in Registries, k, j \in Kinds :
                 <<r, k>> # <<q, j>> => values[r][k] \cap values[q][j] = {}
SnapshotsApart == \A r, q \in Registries : r # q => snapshot[r] \cap snapshot[q] = {}
PlacesApart ==
  /\ \A r, q \in Registries, k \in Kinds : values[r][k] \cap snapshot[q] = {}
  /\ \A r \in Registries, k \in Kinds : values[r][k] \cap reported = {}
  /\ \A r \in Registries : snapshot[r] \cap reported = {}
Apart == ValuesApart /\ SnapshotsApart /\ PlacesApart

\* Where the goroutine of a registry is, beside loop.
Rounds ==
  \A r \in Registries :
    /\ r > made => loop[r] = "none"
    /\ loop[r] \in {"none", "wait"} => ~last[r]
    /\ loop[r] # "collect" => at[r] = 1

\* What is in a value that will not be collected any more came too late.
NothingForgotten ==
  \A r \in Registries, k \in Kinds :
    onSnapshot[r] /\ Collected(r, k) => values[r][k] \subseteq tooLate

\* What Init keeps while it waits for the old registry is a choice.
AdminTypes == admin.cb \in BOOLEAN

\* A handle belongs to a registry: there is one when ensureRegistry returns.
Handles ==
  /\ made \in Nat /\ made <= MaxRegistries /\ defaultRegistry \in 0 .. made
  /\ handle = [c \in Callers |-> handle[c]]
  /\ \A c \in Callers : /\ handle[c].at = "return" => defaultRegistry # NoRegistry
                        /\ handle[c].at = "got" => handle[c].of \in Registries

MetricsInv == MetricsTypes /\ Numbered /\ Apart /\ Rounds /\ NothingForgotten /\ ByNamesake

\* The five kinds of values and their order.
LEMMA FiveKinds ==
  /\ Len(Order) = 5 /\ DOMAIN Order = 1 .. 5
  /\ \A i \in 1 .. 5 : Order[i] \in Kinds
  /\ \A k \in Kinds : Place(k) \in 1 .. 5 /\ Order[Place(k)] = k
<1>1. Len(Order) = 5 /\ DOMAIN Order = 1 .. 5
  BY DEF Order
<1>2. \A i \in 1 .. 5 : Order[i] \in Kinds
  BY <1>1 DEF Kinds
<1>3. ASSUME NEW k \in Kinds PROVE Place(k) \in 1 .. 5 /\ Order[Place(k)] = k
  <2>1. \E i \in DOMAIN Order : Order[i] = k
    BY DEF Kinds
  <2> QED
    BY <1>1, <2>1, Zenon DEF Place
<1> QED
  BY <1>1, <1>2, <1>3

\* Being recorded, spelled out.
LEMMA InRecorded ==
  ASSUME NEW x
  PROVE  x \in Recorded <=> \/ x \in reported \/ x \in dropped \/ x \in overwritten
                            \/ \E r \in Registries : x \in snapshot[r]
                            \/ \E r \in Registries, k \in Kinds : x \in values[r][k]
<1> DEFINE V == {values[r][k] : r \in Registries, k \in Kinds}
           P == {snapshot[r] : r \in Registries}
<1>1. Recorded = reported \cup dropped \cup overwritten \cup (UNION P) \cup (UNION V)
  BY DEF Recorded
<1>2. \A S : S \in V <=> \E r \in Registries, k \in Kinds : S = values[r][k]
  BY SMT
<1>3. \A S : S \in P <=> \E r \in Registries : S = snapshot[r]
  BY SMT
<1> HIDE DEF V, P
<1>4. x \in UNION V <=> \E r \in Registries, k \in Kinds : x \in values[r][k]
  BY <1>2, SMT
<1>5. x \in UNION P <=> \E r \in Registries : x \in snapshot[r]
  BY <1>3, SMT
<1> QED
  BY <1>1, <1>4, <1>5, SMT

\* The same in the next state.
LEMMA InRecordedNext ==
  ASSUME NEW x
  PROVE  x \in Recorded' <=> \/ x \in reported' \/ x \in dropped' \/ x \in overwritten'
                             \/ \E r \in Registries : x \in snapshot'[r]
                             \/ \E r \in Registries, k \in Kinds : x \in values'[r][k]
<1> DEFINE V == {values'[r][k] : r \in Registries, k \in Kinds}
           P == {snapshot'[r] : r \in Registries}
<1>1. Recorded' = reported' \cup dropped' \cup overwritten' \cup (UNION P) \cup (UNION V)
  BY DEF Recorded
<1>2. \A S : S \in V <=> \E r \in Registries, k \in Kinds : S = values'[r][k]
  BY SMT
<1>3. \A S : S \in P <=> \E r \in Registries : S = snapshot'[r]
  BY SMT
<1> HIDE DEF V, P
<1>4. x \in UNION V <=> \E r \in Registries, k \in Kinds : x \in values'[r][k]
  BY <1>2, SMT
<1>5. x \in UNION P <=> \E r \in Registries : x \in snapshot'[r]
  BY <1>3, SMT
<1> QED
  BY <1>1, <1>4, <1>5, SMT

\* What is unchanged outside of values and snapshots keeps what was recorded.
LEMMA RecordedSame ==
  ASSUME UNCHANGED <<values, snapshot, reported, dropped, overwritten>>
  PROVE  Recorded' = Recorded
BY DEF Recorded

\* A record is made: it is new, and goes into one value or is dropped.
LEMMA RecordKeeps ==
  ASSUME MetricsInv, Handles, NEW c \in Callers, NEW e \in Records, NEW k \in Kinds, Record(c, e, k)
  PROVE  MetricsInv'
<1>0. PICK r, S, added :
        /\ r = handle[c].of
        /\ S = values[r][k] \cup {e}
        /\ added \in BOOLEAN
        /\ added = ~(k = "histogram" /\ Cardinality(values[r][k]) >= MaxSampleSize)
  BY Zenon
<1>1. /\ e = recordCount + 1 /\ recordCount' = e
      /\ kindOf' = [kindOf EXCEPT ![e] = k]
      /\ values' = IF added THEN [values EXCEPT ![r][k] = S] ELSE values
      /\ dropped' = IF added THEN dropped ELSE dropped \cup {e}
      /\ tooLate' = IF Collected(r, k) THEN tooLate \cup {e} ELSE tooLate
      /\ UNCHANGED <<made, onSnapshot, loop, at, last, created, snapshot, overwritten, reported>>
  BY <1>0 DEF Record
<1>2a. r \in Registries
  BY <1>0 DEF Record, Handles
<1>2. Recorded = 1 .. recordCount /\ recordCount \in Nat
  BY DEF MetricsInv, MetricsTypes, Numbered
<1>3. e \notin Recorded /\ Recorded \cup {e} = 1 .. e
  BY <1>1, <1>2
<1>4. /\ \A q \in Registries, j \in Kinds :
           values'[q][j] = IF added /\ q = r /\ j = k THEN values[q][j] \cup {e} ELSE values[q][j]
      /\ values' = [q \in Registries |-> [j \in Kinds |-> values'[q][j]]]
  <2>1. CASE added
    <3>1. values' = [q \in Registries |-> IF q = r THEN [values[q] EXCEPT ![k] = S] ELSE values[q]]
      BY <1>1, <2>1 DEF MetricsInv, MetricsTypes
    <3>2. ASSUME NEW q \in Registries
          PROVE  /\ values'[q] = [j \in Kinds |-> values'[q][j]]
                 /\ \A j \in Kinds : values'[q][j] = IF q = r /\ j = k THEN S ELSE values[q][j]
      <4>1. values[q] \in [Kinds -> SUBSET Records]
        BY DEF MetricsInv, MetricsTypes
      <4>2. CASE q = r
        BY <3>1, <4>1, <4>2
      <4>3. CASE q # r
        BY <3>1, <4>1, <4>3
      <4> QED
        BY <4>2, <4>3
    <3>3. values' = [q \in Registries |-> values'[q]]
      BY <3>1
    <3> QED
      BY <1>0, <2>1, <3>2, <3>3
  <2>2. CASE ~added
    BY <1>1, <2>2 DEF MetricsInv, MetricsTypes
  <2> QED
    BY <2>1, <2>2
<1>5. MetricsTypes'
  <2>1. \A q \in Registries, j \in Kinds : values'[q][j] \subseteq Records
    <3> TAKE q \in Registries, j \in Kinds
    <3>1. values[q][j] \subseteq Records
      BY DEF MetricsInv, MetricsTypes
    <3> QED
      BY <1>4, <3>1
  <2>2. values' \in [Registries -> [Kinds -> SUBSET Records]]
    BY <1>4, <2>1
  <2>3. kindOf' \in [Records -> Kinds] /\ recordCount' \in Nat
    BY <1>1, <1>2 DEF MetricsInv, MetricsTypes
  <2> QED
    BY <1>1, <2>2, <2>3 DEF MetricsInv, MetricsTypes
<1>6. Numbered'
  <2>1. ASSUME NEW x, x \in Recorded PROVE x \in Recorded'
    <3>1. \/ x \in reported \/ x \in dropped \/ x \in overwritten
          \/ \E q \in Registries : x \in snapshot[q]
          \/ \E q \in Registries, j \in Kinds : x \in values[q][j]
      BY <2>1, InRecorded
    <3>2. \/ x \in reported' \/ x \in dropped' \/ x \in overwritten'
          \/ \E q \in Registries : x \in snapshot'[q]
          \/ \E q \in Registries, j \in Kinds : x \in values'[q][j]
      BY <1>0, <1>1, <1>4, <3>1
    <3> QED
      BY <3>2, InRecordedNext
  <2>2. ASSUME NEW x, x \in Recorded' PROVE x \in Recorded \/ x = e
    <3>1. \/ x \in reported' \/ x \in dropped' \/ x \in overwritten'
          \/ \E q \in Registries : x \in snapshot'[q]
          \/ \E q \in Registries, j \in Kinds : x \in values'[q][j]
      BY <2>2, InRecordedNext
    <3>2. \/ x \in reported \/ x \in dropped \/ x \in overwritten \/ x = e
          \/ \E q \in Registries : x \in snapshot[q]
          \/ \E q \in Registries, j \in Kinds : x \in values[q][j]
      BY <1>0, <1>1, <1>4, <3>1
    <3> QED
      BY <3>2, InRecorded
  <2>3. e \in Recorded'
    BY <1>0, <1>1, <1>2a, <1>4, InRecordedNext
  <2>4. Recorded' = Recorded \cup {e}
    BY <2>1, <2>2, <2>3
  <2> QED
    BY <1>1, <1>3, <2>4, Zenon DEF Numbered
<1>7. /\ \A q \in Registries, j \in Kinds : e \notin values[q][j]
      /\ \A q \in Registries : e \notin snapshot[q]
      /\ e \notin reported
  BY <1>3, InRecorded
<1>8. ASSUME NEW q \in Registries, NEW j \in Kinds, NEW x \in values'[q][j]
      PROVE  x \in values[q][j] \/ (x = e /\ q = r /\ j = k)
  <2>1. values'[q][j] = IF added /\ q = r /\ j = k THEN values[q][j] \cup {e} ELSE values[q][j]
    BY <1>4
  <2>2. CASE added /\ q = r /\ j = k
    <3>1. values'[q][j] = values[q][j] \cup {e}
      BY <2>1, <2>2
    <3> QED
      BY <1>8, <2>2, <3>1
  <2>3. CASE ~(added /\ q = r /\ j = k)
    <3>1. values'[q][j] = values[q][j]
      BY <2>1, <2>3
    <3> QED
      BY <1>8, <3>1
  <2> QED
    BY <2>2, <2>3
<1>9. ValuesApart'
  <2> SUFFICES ASSUME NEW p \in Registries, NEW q \in Registries, NEW i \in Kinds, NEW j \in Kinds,
                      p # q \/ i # j, NEW x \in values'[p][i], x \in values'[q][j]
               PROVE  FALSE
    BY DEF ValuesApart
  <2>1. values[p][i] \cap values[q][j] = {}
    BY DEF MetricsInv, Apart, ValuesApart
  <2> QED
    BY <1>7, <1>8, <2>1
<1>10. SnapshotsApart'
  BY <1>1 DEF MetricsInv, Apart, SnapshotsApart
<1>11. PlacesApart'
  <2>1. ASSUME NEW p \in Registries, NEW q \in Registries, NEW i \in Kinds,
               NEW x \in values'[p][i], x \in snapshot'[q]
        PROVE  FALSE
    BY <1>1, <1>7, <1>8, <2>1 DEF MetricsInv, Apart, PlacesApart
  <2>2. ASSUME NEW p \in Registries, NEW i \in Kinds,
               NEW x \in values'[p][i], x \in reported'
        PROVE  FALSE
    BY <1>1, <1>7, <1>8, <2>2 DEF MetricsInv, Apart, PlacesApart
  <2>3. \A p \in Registries : snapshot'[p] \cap reported' = {}
    BY <1>1 DEF MetricsInv, Apart, PlacesApart
  <2> QED
    BY <2>1, <2>2, <2>3 DEF PlacesApart
<1>12. Rounds'
  BY <1>1 DEF MetricsInv, Rounds
<1>13. NothingForgotten'
  <2> SUFFICES ASSUME NEW q \in Registries, NEW j \in Kinds, onSnapshot'[q], Collected(q, j)',
                      NEW x \in values'[q][j]
               PROVE  x \in tooLate'
    BY DEF NothingForgotten
  <2>1. onSnapshot[q] /\ Collected(q, j)
    BY <1>1 DEF Collected
  <2>2. values[q][j] \subseteq tooLate
    BY <2>1 DEF MetricsInv, NothingForgotten
  <2> QED
    BY <1>1, <1>8, <2>1, <2>2
<1>14. ByNamesake'
  <2> SUFFICES ASSUME NEW x \in overwritten
               PROVE  \E q \in Registries : \E m \in created[q] : Shadows(m, kindOf'[x])
    BY <1>1 DEF ByNamesake, Shadows
  <2>1. x # e
    BY <1>3, InRecorded
  <2>2. kindOf'[x] = kindOf[x]
    BY <1>1, <2>1 DEF MetricsInv, MetricsTypes
  <2> QED
    BY <2>2 DEF MetricsInv, ByNamesake
<1> QED
  BY <1>5, <1>6, <1>9, <1>12, <1>13, <1>10, <1>11, <1>14 DEF MetricsInv, Apart

\* A value is collected: its records move to the snapshot, and the last
\* collection has passed it.
LEMMA ResetKeeps ==
  ASSUME MetricsInv, NEW r \in Registries, Reset(r)
  PROVE  MetricsInv'
<1>0. PICK k \in Kinds : k = Order[at[r]]
  <2>1. at[r] \in 1 .. 5
    BY DEF MetricsInv, MetricsTypes
  <2> QED
    BY <2>1, FiveKinds
<1>0a. PICK gone : gone = Overwrites(r, MetricOf(k))
  OBVIOUS
<1>0b. /\ gone \subseteq snapshot[r]
       /\ \A x \in gone : \E m \in created[r] : Shadows(m, kindOf[x])
  BY <1>0a DEF Overwrites
<1>1. /\ loop[r] = "collect"
      /\ values' = [values EXCEPT ![r][k] = {}]
      /\ snapshot' = [snapshot EXCEPT ![r] = (snapshot[r] \ gone) \cup values[r][k]]
      /\ overwritten' = overwritten \cup gone
      /\ UNCHANGED <<made, onSnapshot, last, created, kindOf, recordCount, reported, dropped, tooLate>>
  BY <1>0, <1>0a DEF Reset, recording
<1>2. \/ at[r] < 5 /\ at' = [at EXCEPT ![r] = at[r] + 1] /\ loop' = loop
      \/ at[r] >= 5 /\ at' = [at EXCEPT ![r] = 1] /\ loop' = [loop EXCEPT ![r] = "notify"]
  <2>1. at[r] \in 1 .. 5
    BY DEF MetricsInv, MetricsTypes
  <2> QED
    BY <2>1, FiveKinds DEF Reset
<1>3. /\ \A q \in Registries, j \in Kinds :
           values'[q][j] = IF q = r /\ j = k THEN {} ELSE values[q][j]
      /\ values' = [q \in Registries |-> [j \in Kinds |-> values'[q][j]]]
  <2>1. values' = [q \in Registries |-> IF q = r THEN [values[q] EXCEPT ![k] = {}] ELSE values[q]]
    BY <1>1 DEF MetricsInv, MetricsTypes
  <2>2. ASSUME NEW q \in Registries
        PROVE  /\ values'[q] = [j \in Kinds |-> values'[q][j]]
               /\ \A j \in Kinds : values'[q][j] = IF q = r /\ j = k THEN {} ELSE values[q][j]
    <3>1. values[q] \in [Kinds -> SUBSET Records]
      BY DEF MetricsInv, MetricsTypes
    <3>2. CASE q = r
      BY <2>1, <3>1, <3>2
    <3>3. CASE q # r
      BY <2>1, <3>1, <3>3
    <3> QED
      BY <3>2, <3>3
  <2>3. values' = [q \in Registries |-> values'[q]]
    BY <2>1
  <2> QED
    BY <2>2, <2>3
<1>4. \A q \in Registries :
        snapshot'[q] = IF q = r THEN (snapshot[q] \ gone) \cup values[r][k] ELSE snapshot[q]
  BY <1>1 DEF MetricsInv, MetricsTypes
<1>5. MetricsTypes'
  <2>1. ASSUME NEW q \in Registries, NEW j \in Kinds PROVE values'[q][j] \subseteq Records
    <3>1. values[q][j] \subseteq Records
      BY DEF MetricsInv, MetricsTypes
    <3> QED
      BY <1>3, <3>1
  <2>2. values' \in [Registries -> [Kinds -> SUBSET Records]]
    BY <1>3, <2>1
  <2>3. snapshot' \in [Registries -> SUBSET Records]
    <3>1. values[r][k] \subseteq Records
      BY DEF MetricsInv, MetricsTypes
    <3> QED
      BY <1>1, <3>1 DEF MetricsInv, MetricsTypes
  <2>4. /\ at' \in [Registries -> 1 .. 5]
        /\ loop' \in [Registries -> {"none", "wait", "collect", "notify", "over"}]
    <3>1. /\ at \in [Registries -> 1 .. 5] /\ at[r] \in 1 .. 5
          /\ loop \in [Registries -> {"none", "wait", "collect", "notify", "over"}]
      BY DEF MetricsInv, MetricsTypes
    <3>2. CASE at[r] < 5 /\ at' = [at EXCEPT ![r] = at[r] + 1] /\ loop' = loop
      BY <3>1, <3>2
    <3>3. CASE at' = [at EXCEPT ![r] = 1] /\ loop' = [loop EXCEPT ![r] = "notify"]
      BY <3>1, <3>3
    <3> QED
      BY <1>2, <3>2, <3>3
  <2>5. overwritten' \subseteq Records
    BY <1>0b, <1>1 DEF MetricsInv, MetricsTypes
  <2> QED
    BY <1>1, <2>2, <2>3, <2>4, <2>5 DEF MetricsInv, MetricsTypes
<1>6. Numbered'
  <2>1. ASSUME NEW x PROVE x \in Recorded' <=> x \in Recorded
    <3>1. (\E q \in Registries : x \in snapshot'[q]) \/ x \in overwritten'
            <=> \/ (\E q \in Registries : x \in snapshot[q]) \/ x \in overwritten
                \/ x \in values[r][k]
      BY <1>0b, <1>1, <1>4
    <3>2. (\E q \in Registries, j \in Kinds : x \in values[q][j])
            <=> (\E q \in Registries, j \in Kinds : x \in values'[q][j]) \/ x \in values[r][k]
      BY <1>3
    <3> QED
      BY <1>1, <3>1, <3>2, InRecorded, InRecordedNext
  <2>2. Recorded' = Recorded
    BY <2>1
  <2> QED
    BY <1>1, <2>2 DEF MetricsInv, Numbered
<1>7. ASSUME NEW q \in Registries, NEW j \in Kinds, NEW x \in values'[q][j]
      PROVE  x \in values[q][j] /\ (q # r \/ j # k)
  BY <1>3, <1>7
<1>8. ASSUME NEW q \in Registries, NEW x \in snapshot'[q]
      PROVE  x \in snapshot[q] \/ (q = r /\ x \in values[r][k])
  BY <1>4, <1>8
<1>9. ValuesApart'
  <2> SUFFICES ASSUME NEW p \in Registries, NEW q \in Registries, NEW i \in Kinds, NEW j \in Kinds,
                      p # q \/ i # j, NEW x \in values'[p][i], x \in values'[q][j]
               PROVE  FALSE
    BY DEF ValuesApart
  <2>1. values[p][i] \cap values[q][j] = {}
    BY DEF MetricsInv, Apart, ValuesApart
  <2> QED
    BY <1>7, <2>1
<1>10. SnapshotsApart'
  <2> SUFFICES ASSUME NEW p \in Registries, NEW q \in Registries, p # q,
                      NEW x \in snapshot'[p], x \in snapshot'[q]
               PROVE  FALSE
    BY DEF SnapshotsApart
  <2>1. /\ snapshot[p] \cap snapshot[q] = {}
        /\ values[r][k] \cap snapshot[q] = {} /\ values[r][k] \cap snapshot[p] = {}
    BY DEF MetricsInv, Apart, SnapshotsApart, PlacesApart
  <2> QED
    BY <1>8, <2>1
<1>11. PlacesApart'
  <2>1. ASSUME NEW p \in Registries, NEW q \in Registries, NEW i \in Kinds,
               NEW x \in values'[p][i], x \in snapshot'[q]
        PROVE  FALSE
    <3>1. /\ values[p][i] \cap snapshot[q] = {}
          /\ p # r \/ i # k => values[p][i] \cap values[r][k] = {}
      BY DEF MetricsInv, Apart, PlacesApart, ValuesApart
    <3> QED
      BY <1>7, <1>8, <2>1, <3>1
  <2>2. ASSUME NEW p \in Registries, NEW i \in Kinds,
               NEW x \in values'[p][i], x \in reported'
        PROVE  FALSE
    BY <1>1, <1>7, <2>2 DEF MetricsInv, Apart, PlacesApart
  <2>3. ASSUME NEW p \in Registries, NEW x \in snapshot'[p], x \in reported'
        PROVE  FALSE
    BY <1>1, <1>8, <2>3 DEF MetricsInv, Apart, PlacesApart
  <2> QED
    BY <2>1, <2>2, <2>3 DEF PlacesApart
<1>12. Rounds'
  BY <1>1, <1>2 DEF MetricsInv, MetricsTypes, Rounds
<1>13. NothingForgotten'
  <2> SUFFICES ASSUME NEW q \in Registries, NEW j \in Kinds, onSnapshot'[q], Collected(q, j)',
                      NEW x \in values'[q][j]
               PROVE  x \in tooLate
    BY <1>1 DEF NothingForgotten
  <2>1. CASE q # r
    <3>1. onSnapshot[q] /\ Collected(q, j)
      BY <1>1, <1>2, <2>1 DEF Collected, MetricsInv, MetricsTypes
    <3> QED
      BY <1>7, <3>1 DEF MetricsInv, NothingForgotten
  <2>2. CASE q = r
    <3>1. j # k /\ x \in values[q][j]
      BY <1>7, <2>2
    <3>2. /\ Place(j) \in 1 .. 5 /\ Order[Place(j)] = j /\ Place(j) # at[r]
          /\ at[r] \in 1 .. 5
      BY <1>0, <3>1, FiveKinds DEF MetricsInv, MetricsTypes
    <3>3. last[r] /\ at[r] > Place(j)
      <4>1. loop'[r] # "over" /\ last'[r] = last[r]
        BY <1>1, <1>2 DEF MetricsInv, MetricsTypes
      <4>2. last[r] /\ (loop'[r] = "notify" \/ at'[r] > Place(j))
        BY <2>2, <4>1 DEF Collected
      <4>3. CASE at[r] < 5
        <5>1. loop'[r] # "notify" /\ at'[r] = at[r] + 1
          <6>1. at' = [at EXCEPT ![r] = at[r] + 1] /\ loop' = loop
            <7>1. ~(at[r] >= 5)
              BY <3>2, <4>3
            <7> QED
              BY <1>2, <7>1, Zenon
          <6>2. at \in [Registries -> 1 .. 5]
            BY DEF MetricsInv, MetricsTypes
          <6> QED
            BY <1>1, <6>1, <6>2
        <5> QED
          BY <3>2, <4>2, <5>1
      <4>4. CASE at[r] >= 5
        BY <3>2, <4>2, <4>4
      <4> QED
        BY <3>2, <4>3, <4>4
    <3>4. onSnapshot[q] /\ Collected(q, j)
      BY <1>1, <2>2, <3>3 DEF Collected
    <3> QED
      BY <3>1, <3>4 DEF MetricsInv, NothingForgotten
  <2> QED
    BY <2>1, <2>2
<1>14. ByNamesake'
  BY <1>0b, <1>1 DEF MetricsInv, ByNamesake, Shadows
<1> QED
  BY <1>5, <1>6, <1>9, <1>10, <1>11, <1>12, <1>13, <1>14 DEF MetricsInv, Apart

\* The callback is told of a snapshot, which is then forgotten.
LEMMA NotifyKeeps ==
  ASSUME MetricsInv, NEW r \in Registries, Notify(r)
  PROVE  MetricsInv'
<1>1. /\ loop[r] = "notify"
      /\ reported' = reported \cup snapshot[r]
      /\ snapshot' = [snapshot EXCEPT ![r] = {}]
      /\ loop' = [loop EXCEPT ![r] = IF last[r] THEN "over" ELSE "wait"]
      /\ UNCHANGED <<made, onSnapshot, at, last, values, created, kindOf, recordCount, overwritten,
                     dropped, tooLate>>
  BY DEF Notify, recording
<1>2. \A q \in Registries : snapshot'[q] = IF q = r THEN {} ELSE snapshot[q]
  BY <1>1 DEF MetricsInv, MetricsTypes
<1>3. MetricsTypes'
  <2>1. snapshot' \in [Registries -> SUBSET Records]
    BY <1>1 DEF MetricsInv, MetricsTypes
  <2>2. loop' \in [Registries -> {"none", "wait", "collect", "notify", "over"}]
    BY <1>1 DEF MetricsInv, MetricsTypes
  <2> QED
    BY <1>1, <2>1, <2>2 DEF MetricsInv, MetricsTypes
<1>4. Numbered'
  <2>1. ASSUME NEW x PROVE x \in Recorded' <=> x \in Recorded
    <3>1. x \in reported' \/ (\E q \in Registries : x \in snapshot'[q])
            <=> x \in reported \/ (\E q \in Registries : x \in snapshot[q])
      BY <1>1, <1>2
    <3> QED
      BY <1>1, <3>1, InRecorded, InRecordedNext
  <2>2. Recorded' = Recorded
    BY <2>1
  <2> QED
    BY <1>1, <2>2 DEF MetricsInv, Numbered
<1>5. Apart'
  <2>1. ValuesApart' /\ SnapshotsApart'
    BY <1>1, <1>2 DEF MetricsInv, Apart, ValuesApart, SnapshotsApart
  <2>2. PlacesApart'
    BY <1>1, <1>2 DEF MetricsInv, Apart, SnapshotsApart, PlacesApart
  <2> QED
    BY <2>1, <2>2 DEF Apart
<1>6. Rounds'
  BY <1>1 DEF MetricsInv, MetricsTypes, Rounds
<1>7. NothingForgotten'
  <2> SUFFICES ASSUME NEW q \in Registries, NEW j \in Kinds, onSnapshot'[q], Collected(q, j)'
               PROVE  values[q][j] \subseteq tooLate
    BY <1>1 DEF NothingForgotten
  <2>1. Collected(q, j)
    <3>1. CASE q = r
      BY <1>1, <3>1 DEF Collected, MetricsInv, MetricsTypes
    <3>2. CASE q # r
      BY <1>1, <3>2 DEF Collected, MetricsInv, MetricsTypes
    <3> QED
      BY <3>1, <3>2
  <2> QED
    BY <1>1, <2>1 DEF MetricsInv, NothingForgotten
<1>8. ByNamesake'
  BY <1>1 DEF MetricsInv, ByNamesake, Shadows
<1> QED
  BY <1>3, <1>4, <1>5, <1>6, <1>7, <1>8 DEF MetricsInv

\* Steps that move no record.
LEMMA NoRecordMoved ==
  ASSUME MetricsInv,
         UNCHANGED <<values, snapshot, reported, dropped, overwritten, created, kindOf, recordCount>>
  PROVE  Numbered' /\ Apart' /\ ByNamesake'
<1>1. Recorded' = Recorded
  BY RecordedSame
<1>2. ByNamesake'
  BY DEF MetricsInv, ByNamesake, Shadows
<1> QED
  BY <1>1, <1>2 DEF MetricsInv, Numbered, Apart, ValuesApart, SnapshotsApart, PlacesApart

\* A registry is created: its goroutine waits and has nothing behind it.
LEMMA NewRegistryKeeps ==
  ASSUME MetricsInv, NEW cb \in BOOLEAN, NewRegistry(cb),
         UNCHANGED <<at, last, values, snapshot, reported, dropped, tooLate, overwritten, created,
                     kindOf, recordCount>>
  PROVE  MetricsInv'
<1> USE RegistryBounds
<1>1. /\ made + 1 \in Registries /\ made' = made + 1
      /\ onSnapshot' = [onSnapshot EXCEPT ![made + 1] = cb]
      /\ loop' = [loop EXCEPT ![made + 1] = "wait"]
  BY DEF NewRegistry, Registries, MetricsInv, MetricsTypes
<1>2. loop[made + 1] = "none" /\ ~last[made + 1]
  BY <1>1 DEF MetricsInv, MetricsTypes, Rounds, Registries
<1>3. MetricsTypes'
  <2>1. made' \in 0 .. MaxRegistries
    BY DEF NewRegistry, MetricsInv, MetricsTypes
  <2>2. /\ onSnapshot' \in [Registries -> BOOLEAN]
        /\ loop' \in [Registries -> {"none", "wait", "collect", "notify", "over"}]
    BY <1>1 DEF MetricsInv, MetricsTypes
  <2> QED
    BY <2>1, <2>2 DEF MetricsInv, MetricsTypes
<1>4. Rounds'
  BY <1>1, <1>2 DEF MetricsInv, MetricsTypes, Rounds, Registries
<1>5. NothingForgotten'
  <2> SUFFICES ASSUME NEW q \in Registries, NEW j \in Kinds, onSnapshot'[q], Collected(q, j)'
               PROVE  values[q][j] \subseteq tooLate
    BY DEF NothingForgotten
  <2>1. q # made + 1
    BY <1>1, <1>2 DEF Collected, MetricsInv, MetricsTypes
  <2>2. onSnapshot[q] /\ Collected(q, j)
    BY <1>1, <2>1 DEF Collected, MetricsInv, MetricsTypes
  <2> QED
    BY <2>2 DEF MetricsInv, NothingForgotten
<1> QED
  BY <1>3, <1>4, <1>5, NoRecordMoved DEF MetricsInv

\* A collection begins, by a tick or because stopCh is closed.
LEMMA CollectKeeps ==
  ASSUME MetricsInv, NEW r \in Registries, AggregateTick(r) \/ AggregateStops(r)
  PROVE  MetricsInv'
<1>1. PICK isLast \in BOOLEAN :
        /\ loop[r] = "wait"
        /\ loop' = [loop EXCEPT ![r] = IF onSnapshot[r] THEN "collect"
                                       ELSE IF isLast THEN "over" ELSE "wait"]
        /\ last' = [last EXCEPT ![r] = isLast]
        /\ onSnapshot[r] \/ isLast
        /\ UNCHANGED <<made, onSnapshot, at, values, snapshot, reported, dropped, tooLate,
                       overwritten, created, kindOf, recordCount>>
  BY DEF AggregateTick, AggregateStops, CollectBegins, recording
<1>2. MetricsTypes'
  <2>1. last' \in [Registries -> BOOLEAN]
    BY <1>1 DEF MetricsInv, MetricsTypes
  <2>2. loop' \in [Registries -> {"none", "wait", "collect", "notify", "over"}]
    BY <1>1 DEF MetricsInv, MetricsTypes
  <2> QED
    BY <1>1, <2>1, <2>2 DEF MetricsInv, MetricsTypes
<1>3. Rounds'
  BY <1>1 DEF MetricsInv, MetricsTypes, Rounds
<1>4. NothingForgotten'
  <2> SUFFICES ASSUME NEW q \in Registries, NEW j \in Kinds, onSnapshot'[q], Collected(q, j)'
               PROVE  values[q][j] \subseteq tooLate
    BY <1>1 DEF NothingForgotten
  <2>1. CASE q = r
    <3>1. loop'[r] = "collect" /\ at'[r] = 1
      BY <1>1, <2>1 DEF MetricsInv, MetricsTypes, Rounds
    <3>2. ~(1 > Place(j))
      BY FiveKinds
    <3> QED
      BY <2>1, <3>1, <3>2 DEF Collected
  <2>2. CASE q # r
    <3>1. onSnapshot[q] /\ Collected(q, j)
      BY <1>1, <2>2 DEF Collected, MetricsInv, MetricsTypes
    <3> QED
      BY <3>1 DEF MetricsInv, NothingForgotten
  <2> QED
    BY <2>1, <2>2
<1> QED
  BY <1>1, <1>2, <1>3, <1>4, NoRecordMoved DEF MetricsInv

\* A caller is given its metric, which its registry now has.
LEMMA GetOrCreateKeeps ==
  ASSUME MetricsInv, Handles, NEW c \in Callers, NEW m \in InUse, EnsureReturns(c, m)
  PROVE  MetricsInv'
<1>1. /\ created' = [created EXCEPT ![defaultRegistry] = @ \cup {m}]
      /\ UNCHANGED <<made, onSnapshot, loop, at, last, values, snapshot, reported, dropped, tooLate,
                     overwritten, kindOf, recordCount>>
  BY DEF EnsureReturns, aggregate
<1>2. /\ created' \in [Registries -> SUBSET InUse]
      /\ \A q \in Registries : created[q] \subseteq created'[q]
  BY <1>1 DEF MetricsInv, MetricsTypes
<1>3. Recorded' = Recorded
  BY <1>1, RecordedSame
<1>4. MetricsTypes' /\ Numbered' /\ Rounds' /\ NothingForgotten'
  BY <1>1, <1>2, <1>3 DEF MetricsInv, MetricsTypes, Numbered, Rounds, NothingForgotten, Collected
<1>5. Apart'
  BY <1>1 DEF MetricsInv, Apart, ValuesApart, SnapshotsApart, PlacesApart
<1>6. ByNamesake'
  BY <1>1, <1>2 DEF MetricsInv, ByNamesake, Shadows
<1> QED
  BY <1>4, <1>5, <1>6 DEF MetricsInv

\* Where ensureRegistry stands, as a handle.
LEMMA UnderwayHandle == \A a : Underway(a).at = a
  BY DEF Underway, Handle

\* A handle that was returned stays, and defaultRegistry is never taken away.
LEMMA HandlesKept ==
  ASSUME Handles, [MetricsNext]_metricsVars
  PROVE  Handles'
<1> USE RegistryBounds
<1>1. CASE UNCHANGED <<made, defaultRegistry, handle>>
  BY <1>1 DEF Handles
<1>2. ASSUME NEW cb, NewRegistry(cb)
      PROVE  /\ made' \in Nat /\ made' <= MaxRegistries /\ defaultRegistry' \in 0 .. made'
             /\ defaultRegistry' # NoRegistry
  BY <1>2 DEF NewRegistry, Handles, NoRegistry
<1>3. ASSUME NEW cb, NewRegistry(cb), UNCHANGED handle PROVE Handles'
  BY <1>2, <1>3 DEF Handles
<1>4. ASSUME NEW c \in Callers, EnsureRegistry(c) PROVE Handles'
  <2>1. PICK a \in {"create", "return"} :
          /\ handle' = [handle EXCEPT ![c] = Underway(a)]
          /\ a = "return" => defaultRegistry # NoRegistry
    BY <1>4 DEF EnsureRegistry
  <2>2. UNCHANGED <<made, defaultRegistry>>
    BY <1>4 DEF EnsureRegistry
  <2> QED
    BY <2>1, <2>2, UnderwayHandle DEF Handles
<1>5. ASSUME NEW c \in Callers, EnsureCreates(c) PROVE Handles'
  <2>1. NewRegistry(FALSE) /\ handle' = [handle EXCEPT ![c] = Underway("return")]
    BY <1>5 DEF EnsureCreates
  <2> QED
    BY <1>2, <2>1, UnderwayHandle DEF Handles
<1>6. ASSUME NEW c \in Callers, NEW m \in InUse, EnsureReturns(c, m) PROVE Handles'
  <2>1. defaultRegistry \in Registries
    BY <1>6 DEF EnsureReturns, Handles, Registries, NoRegistry
  <2>2. /\ handle' = [handle EXCEPT ![c] = Handle("got", defaultRegistry, m)]
        /\ UNCHANGED <<made, defaultRegistry>>
    BY <1>6 DEF EnsureReturns
  <2>3. /\ Handle("got", defaultRegistry, m).of = defaultRegistry
        /\ Handle("got", defaultRegistry, m).at = "got"
    BY DEF Handle
  <2> QED
    BY <2>1, <2>2, <2>3 DEF Handles
<1>7. ASSUME NEW c \in Callers, NEW e \in Records, NEW k \in Kinds, Record(c, e, k)
      PROVE  UNCHANGED <<made, defaultRegistry, handle>>
  BY <1>7, Zenon DEF Record
<1>8. ASSUME NEW r \in Registries, AggregateTick(r) \/ AggregateStops(r) \/ Reset(r) \/ Notify(r)
      PROVE  UNCHANGED <<made, defaultRegistry, handle>>
  BY <1>8, Zenon DEF AggregateTick, AggregateStops, CollectBegins, Reset, Notify
<1>9. ASSUME NEW cb \in BOOLEAN, InitAgain(cb) \/ StopAll \/ StopReturns
      PROVE  UNCHANGED <<made, defaultRegistry, handle>>
  BY <1>9, Zenon DEF InitAgain, StopAll, StopReturns, StopDefault
<1>10. ASSUME NEW cb \in BOOLEAN, InitFirst(cb) PROVE Handles'
  BY <1>3, <1>10, Zenon DEF InitFirst
<1>11. CASE InitReplaces
  BY <1>3, <1>11, Zenon DEF InitReplaces
<1>12. CASE UNCHANGED metricsVars
  BY <1>1, <1>12 DEF metricsVars
<1> QED
  BY <1>1, <1>4, <1>5, <1>6, <1>7, <1>8, <1>9, <1>10, <1>11, <1>12 DEF MetricsNext

\* The invariant of the metrics, over every interleaving of recording,
\* collecting, stopping and replacing registries.
THEOREM MetricsInvariance == MetricsSpec => []MetricsInv
<1>1. MetricsInit => MetricsInv
  <2> SUFFICES ASSUME MetricsInit PROVE MetricsInv
    OBVIOUS
  <2>1. MetricsTypes
    BY RegistryBounds, FiveKinds DEF MetricsInit, MetricsTypes
  <2>2. Recorded = {}
    BY InRecorded DEF MetricsInit
  <2>3. Numbered /\ ByNamesake
    BY <2>2 DEF Numbered, ByNamesake, MetricsInit
  <2>4. Apart
    BY DEF MetricsInit, Apart, ValuesApart, SnapshotsApart, PlacesApart
  <2>5. Rounds /\ NothingForgotten
    BY DEF MetricsInit, Rounds, NothingForgotten
  <2> QED
    BY <2>1, <2>3, <2>4, <2>5 DEF MetricsInv
<1>2. AdminTypes /\ Handles /\ MetricsInv /\ [MetricsNext]_metricsVars => MetricsInv'
  <2> SUFFICES ASSUME AdminTypes, Handles, MetricsInv, [MetricsNext]_metricsVars PROVE MetricsInv'
    OBVIOUS
  <2> DEFINE Same == UNCHANGED <<made, onSnapshot, loop, at, last, values, snapshot, reported,
                                 dropped, tooLate, overwritten, created, kindOf, recordCount>>
  <2>1. CASE Same
    BY <2>1, NoRecordMoved
       DEF MetricsInv, MetricsTypes, Rounds, NothingForgotten, Collected
  <2>2. ASSUME NEW c \in Callers, EnsureRegistry(c) PROVE Same
    BY <2>2, Zenon DEF EnsureRegistry, aggregate, recording
  <2>2a. ASSUME NEW c \in Callers, NEW m \in InUse, EnsureReturns(c, m) PROVE MetricsInv'
    BY <2>2a, GetOrCreateKeeps
  <2>3. ASSUME NEW c \in Callers, EnsureCreates(c) PROVE MetricsInv'
    BY <2>3, NewRegistryKeeps DEF EnsureCreates, aggregate, recording
  <2>4. ASSUME NEW cb \in BOOLEAN, InitFirst(cb) PROVE MetricsInv'
    BY <2>4, NewRegistryKeeps DEF InitFirst, aggregate, recording
  <2>5. ASSUME NEW cb \in BOOLEAN, InitAgain(cb) \/ StopAll \/ StopReturns PROVE Same
    BY <2>5, Zenon DEF InitAgain, StopAll, StopReturns, StopDefault, aggregate, recording
  <2>6. CASE InitReplaces
    <3>1. PICK cb \in BOOLEAN : cb = admin.cb
      BY DEF AdminTypes
    <3>2. NewRegistry(cb)
      BY <2>6, <3>1 DEF InitReplaces, NewRegistry
    <3> QED
      BY <2>6, <3>2, NewRegistryKeeps DEF InitReplaces, aggregate, recording
  <2>7. CASE UNCHANGED metricsVars
    BY <2>1, <2>7 DEF metricsVars, aggregate, recording
  <2> HIDE DEF Same
  <2> QED
    BY <2>1, <2>2, <2>2a, <2>3, <2>4, <2>5, <2>6, <2>7, RecordKeeps, ResetKeeps, NotifyKeeps, CollectKeeps
       DEF MetricsNext
<1>3. MetricsInit => AdminTypes
  BY DEF MetricsInit, AdminTypes, Idle
<1>4. AdminTypes /\ [MetricsNext]_metricsVars => AdminTypes'
  <2> SUFFICES ASSUME AdminTypes, [MetricsNext]_metricsVars PROVE AdminTypes'
    OBVIOUS
  <2>1. \/ admin' = admin \/ admin' = Idle
        \/ \E cb \in BOOLEAN, n \in {"stop", "init"} : admin' = [at |-> n, of |-> defaultRegistry, cb |-> cb]
    <3>1. CASE UNCHANGED metricsVars
      BY <3>1 DEF metricsVars
    <3>2. ASSUME NEW c \in Callers, EnsureRegistry(c) \/ EnsureCreates(c) PROVE admin' = admin
      BY <3>2, Zenon DEF EnsureRegistry, EnsureCreates
    <3>2a. ASSUME NEW c \in Callers, NEW m \in InUse, EnsureReturns(c, m) PROVE admin' = admin
      BY <3>2a, Zenon DEF EnsureReturns
    <3>3. ASSUME NEW c \in Callers, NEW e \in Records, NEW k \in Kinds, Record(c, e, k)
          PROVE  admin' = admin
      BY <3>3, Zenon DEF Record
    <3>4. ASSUME NEW r \in Registries, AggregateTick(r) \/ AggregateStops(r) \/ Reset(r) \/ Notify(r)
          PROVE  admin' = admin
      BY <3>4, Zenon DEF AggregateTick, AggregateStops, CollectBegins, Reset, Notify
    <3>5. ASSUME NEW cb \in BOOLEAN, InitFirst(cb) PROVE admin' = admin
      BY <3>5, Zenon DEF InitFirst
    <3>6. ASSUME NEW cb \in BOOLEAN, InitAgain(cb)
          PROVE  admin' = [at |-> "init", of |-> defaultRegistry, cb |-> cb]
      BY <3>6, Zenon DEF InitAgain, StopDefault
    <3>7. CASE StopAll
      BY <3>7 DEF StopAll, StopDefault
    <3>8. CASE StopReturns \/ InitReplaces
      BY <3>8, Zenon DEF StopReturns, InitReplaces
    <3> QED
      BY <3>1, <3>2, <3>2a, <3>3, <3>4, <3>5, <3>6, <3>7, <3>8 DEF MetricsNext
  <2>2. CASE admin' = Idle
    BY <2>2 DEF AdminTypes, Idle
  <2>3. ASSUME NEW cb \in BOOLEAN, NEW n, admin' = [at |-> n, of |-> defaultRegistry, cb |-> cb]
        PROVE  AdminTypes'
    BY <2>3 DEF AdminTypes
  <2> QED
    BY <2>1, <2>2, <2>3, Zenon DEF AdminTypes
<1>5. MetricsInit => Handles
  BY RegistryBounds, UnderwayHandle DEF MetricsInit, Handles, NoRegistry
<1>6. Handles /\ [MetricsNext]_metricsVars => Handles'
  BY HandlesKept
<1> QED
  BY <1>1, <1>2, <1>3, <1>4, <1>5, <1>6, PTL DEF MetricsSpec

\* No callback is told of a record twice, no record is lost from sight but to
\* a full histogram or to a metric of the same name, and the collection of
\* Stop leaves only what was recorded too late for it
\* (Registry.collectAndNotify).
THEOREM NoRecordTwice == MetricsSpec => []RecordsAccounted
<1>1. MetricsInv => RecordsAccounted
  <2> SUFFICES ASSUME MetricsInv PROVE RecordsAccounted
    OBVIOUS
  <2>1. ASSUME NEW r \in Registries, NEW k \in Kinds
        PROVE  values[r][k] \cap (reported \cup (UNION {snapshot[q] : q \in Registries})) = {}
    BY DEF MetricsInv, Apart, PlacesApart
  <2>2. ASSUME NEW r \in Registries, NEW k \in Kinds, onSnapshot[r], loop[r] = "over"
        PROVE  values[r][k] \subseteq tooLate
    BY <2>2 DEF MetricsInv, NothingForgotten, Collected
  <2>3. \A r \in Registries : snapshot[r] \cap reported = {}
    BY DEF MetricsInv, Apart, PlacesApart
  <2>4. /\ Recorded = 1 .. recordCount
        /\ \A e \in overwritten :
             \E r \in Registries : \E m \in created[r] : Shadows(m, kindOf[e])
    BY DEF MetricsInv, Numbered, ByNamesake
  <2> QED
    BY <2>1, <2>2, <2>3, <2>4 DEF RecordsAccounted
<1> QED
  BY <1>1, MetricsInvariance, PTL

-----------------------------------------------------------------------------
(* TimerLoop.  For any set of timers, any finite set of periods, any pause *)
(* and any lag of the loop.                                                *)
(*                                                                         *)
(* How late a timer can be follows from where nextTime is: never later     *)
(* than the time of the timer by more than the longest wait, and not later *)
(* at all for a new timer that no older tick can hide.  The tick that will *)
(* find the timer due is at most the lag of the loop younger than that     *)
(* time when it comes, and is acted on within the lag once more.           *)

\* The longest wait: the pause or the longest period.
Longest == Max(Spaces \cup {Pause})

Ticks == (-MaxLag .. 0) \cup {NoTick}

LoopTypes ==
  /\ timerMap = [i \in Registered |-> timerMap[i]]
  /\ \A i \in Registered : timerMap[i] \in [next : Int, space : Spaces]
  /\ nextTime \in Int
  /\ tickC \in Ticks /\ iterating \in Ticks
  /\ fresh \subseteq Registered /\ raced \subseteq Registered

\* The loop acts on a tick that is not before nextTime.
ActsInTime == iterating # NoTick => nextTime <= iterating

\* With nextTime n, the tick c in the channel and the tick t acted on, the loop
\* comes to the time d soon: n does not lie behind d, and d is at most the lag
\* behind the tick that is to be acted on next.
Reached(d, n, t, c) ==
  /\ n <= d
  /\ t # NoTick => t - MaxLag <= d
  /\ t = NoTick /\ c # NoTick => c - MaxLag <= d
  /\ t = NoTick /\ c = NoTick => -MaxLag < d

\* And every tick that is to be acted on finds a timer of the time d due.
Found(d, n, t, c) ==
  /\ d <= 0
  /\ t # NoTick => t > d
  /\ c # NoTick => c < n \/ c > d

\* Every timer, with the longest wait behind its time.
AllReached ==
  \A i \in Registered : Reached(timerMap[i].next + Longest, nextTime, iterating, tickC)

\* A new timer that came before no tick that was still to be acted on.
NewReached ==
  \A i \in fresh \ raced : /\ Reached(timerMap[i].next, nextTime, iterating, tickC)
                           /\ Found(timerMap[i].next, nextTime, iterating, tickC)

LoopInv == LoopTypes /\ ActsInTime /\ AllReached /\ NewReached

\* The least number of a set of natural numbers.
LEMMA LeastNatural ==
  ASSUME NEW T, T \subseteq Nat, T # {}
  PROVE  \E x \in T : \A y \in T : x <= y
<1> DEFINE R == {ss \in Nat \X Nat : ss[1] < ss[2]}
<1>0. IsWellFoundedOn(R, Nat)
  BY NatLessThanWellFounded, Zenon DEF OpToRel
<1>1. PICK x \in T : \A y \in T : ~(<<y, x>> \in R)
  BY <1>0, WFMin, Zenon
<1>2. ASSUME NEW y \in T PROVE x <= y
  <2>1. x \in Nat /\ y \in Nat
    OBVIOUS
  <2>2. y < x => <<y, x>> \in R
    BY <2>1
  <2>3. ~(<<y, x>> \in R)
    BY <1>1, Zenon
  <2> QED
    BY <2>1, <2>2, <2>3
<1> QED
  BY <1>2

\* Min of a set of integers that is bounded from below.
LEMMA MinOfBounded ==
  ASSUME NEW S, S \subseteq Int, S # {}, NEW b \in Int, \A x \in S : b <= x
  PROVE  Min(S) \in S /\ \A y \in S : Min(S) <= y
<1> DEFINE T == {n \in Nat : b + n \in S}
<1>1. T # {}
  <2>1. PICK x \in S : TRUE
    OBVIOUS
  <2>2. x - b \in T
    OBVIOUS
  <2> QED
    BY <2>2
<1>2. PICK m \in T : \A n \in T : m <= n
  BY <1>1, LeastNatural
<1>3. ASSUME NEW y \in S PROVE b + m <= y
  <2>1. y - b \in T
    OBVIOUS
  <2> QED
    BY <1>2, <2>1
<1>4. \E x \in S : \A y \in S : x <= y
  BY <1>3
<1> QED
  BY <1>4, Zenon DEF Min

\* A finite set of natural numbers has a largest one.  A smallest set without
\* one would, less an element, have one.
LEMMA MaxOfFinite ==
  ASSUME NEW S, S \subseteq Nat, S # {}, IsFiniteSet(S)
  PROVE  Max(S) \in S /\ \A y \in S : y <= Max(S)
<1> DEFINE HasMax(U) == \E x \in U : \A y \in U : y <= x
           Bad == {n \in Nat : \E U \in SUBSET S : U # {} /\ Cardinality(U) = n /\ ~HasMax(U)}
<1>1. HasMax(S)
  <2> SUFFICES ASSUME ~HasMax(S) PROVE FALSE
    OBVIOUS
  <2>1. Cardinality(S) \in Bad
    BY FS_CardinalityType
  <2>2. PICK n \in Bad : \A m \in Bad : n <= m
    BY <2>1, LeastNatural
  <2>3. PICK U \in SUBSET S : U # {} /\ Cardinality(U) = n /\ ~HasMax(U)
    OBVIOUS
  <2>4. PICK x \in U : TRUE
    BY <2>3
  <2>5. /\ IsFiniteSet(U)
        /\ Cardinality(U \ {x}) = n - 1
        /\ n - 1 \in Nat
    <3>1. IsFiniteSet(U)
      BY FS_Subset
    <3>2. IsFiniteSet(U \ {x}) /\ Cardinality(U \ {x}) = n - 1
      BY <2>3, <2>4, <3>1, FS_RemoveElement
    <3>3. Cardinality(U \ {x}) \in Nat
      BY <3>2, FS_CardinalityType
    <3> QED
      BY <3>1, <3>2, <3>3
  <2>6. n - 1 \notin Bad
    BY <2>2
  <2>7. CASE U \ {x} = {}
    <3>1. U = {x} /\ x \in Nat
      BY <2>4, <2>7
    <3> QED
      BY <2>3, <3>1
  <2>8. CASE U \ {x} # {}
    <3>1. HasMax(U \ {x})
      BY <2>5, <2>6, <2>8
    <3>2. PICK z \in U \ {x} : \A y \in U \ {x} : y <= z
      BY <3>1
    <3>3. CASE x <= z
      BY <2>3, <3>2, <3>3
    <3>4. CASE z <= x
      BY <2>3, <3>2, <3>4
    <3> QED
      BY <2>4, <3>2, <3>3, <3>4
  <2> QED
    BY <2>7, <2>8
<1>2. \E x \in S : \A y \in S : x >= y
  BY <1>1
<1>3. Max(S) \in S /\ \A y \in S : Max(S) >= y
  BY <1>2, Zenon DEF Max
<1> QED
  BY <1>3

\* The greater of two numbers.
LEMMA MaxOfTwo ==
  ASSUME NEW a \in Int, NEW b \in Int
  PROVE  Max({a, b}) = IF a <= b THEN b ELSE a
<1>1. \E m \in {a, b} : \A y \in {a, b} : m >= y
  OBVIOUS
<1>2. Max({a, b}) \in {a, b} /\ \A y \in {a, b} : Max({a, b}) >= y
  BY <1>1, Zenon DEF Max
<1> QED
  BY <1>2

\* The longest wait bounds the pause and every period.
LEMMA LongestBounds ==
  /\ Longest \in Nat /\ Longest >= 1 /\ Pause <= Longest
  /\ \A s \in Spaces : s \in Nat /\ 1 <= s /\ s <= Longest
<1> DEFINE S == Spaces \cup {Pause}
<1>1. S \subseteq Nat /\ S # {} /\ IsFiniteSet(S)
  BY LoopBounds, FS_AddElement
<1>2. Max(S) \in S /\ \A y \in S : y <= Max(S)
  BY <1>1, MaxOfFinite, Zenon
<1>3. Longest = Max(S)
  BY DEF Longest
<1> HIDE DEF S
<1>4. Longest \in S /\ \A y \in S : y <= Longest
  BY <1>2, <1>3
<1> USE DEF S
<1> QED
  BY <1>4, LoopBounds

\* A unit of time passes: everything moves by one, and an empty channel gets
\* the tick of this moment.
LEMMA TimePassesKeeps ==
  ASSUME LoopInv, TimePasses
  PROVE  LoopInv'
<1> USE LoopBounds DEF LoopInv, LoopTypes, Ticks
<1>1. /\ tickC' = IF tickC = NoTick THEN 0 ELSE tickC - 1
      /\ iterating' = IF iterating = NoTick THEN NoTick ELSE iterating - 1
      /\ nextTime' = nextTime - 1
      /\ fresh' = fresh /\ raced' = raced
  BY DEF TimePasses, Older
<1>2. /\ tickC # NoTick => tickC \in -MaxLag .. 0 /\ tickC - 1 \in -MaxLag .. 0
      /\ iterating # NoTick => iterating \in -MaxLag .. 0 /\ iterating - 1 \in -MaxLag .. 0
  <2>1. /\ tickC # NoTick => tickC > -MaxLag
        /\ iterating # NoTick => iterating > -MaxLag
    BY DEF TimePasses
  <2> QED
    BY <2>1
<1>3. /\ tickC' # NoTick /\ tickC' \in -MaxLag .. 0
      /\ iterating' \in Ticks /\ (iterating' = NoTick <=> iterating = NoTick)
  BY <1>1, <1>2
<1>4. /\ timerMap' = [i \in Registered |-> timerMap'[i]]
      /\ Registered' = Registered
      /\ \A i \in Registered : /\ timerMap'[i] \in [next : Int, space : Spaces]
                               /\ timerMap'[i].next = timerMap[i].next - 1
  BY DEF TimePasses, Registered
<1>5. LoopTypes'
  BY <1>1, <1>3, <1>4
<1>6. ASSUME NEW d \in Int, Reached(d, nextTime, iterating, tickC)
      PROVE  Reached(d - 1, nextTime', iterating', tickC')
  BY <1>1, <1>2, <1>3, <1>6 DEF Reached
<1>7. AllReached'
  <2> SUFFICES ASSUME NEW i \in Registered
               PROVE  Reached(timerMap'[i].next + Longest, nextTime', iterating', tickC')
    BY <1>4 DEF AllReached
  <2>1. PICK d \in Int : d = timerMap[i].next + Longest
    BY LongestBounds
  <2>2. Reached(d - 1, nextTime', iterating', tickC')
    BY <1>6, <2>1 DEF AllReached
  <2>3. timerMap'[i].next + Longest = d - 1
    BY <1>4, <2>1, LongestBounds
  <2> QED
    BY <2>2, <2>3
<1>8. NewReached'
  <2> SUFFICES ASSUME NEW i \in fresh \ raced
               PROVE  /\ Reached(timerMap'[i].next, nextTime', iterating', tickC')
                      /\ Found(timerMap'[i].next, nextTime', iterating', tickC')
    BY <1>1 DEF NewReached
  <2>1. PICK d \in Int : d = timerMap[i].next
    OBVIOUS
  <2>2. Reached(d, nextTime, iterating, tickC) /\ Found(d, nextTime, iterating, tickC)
    BY <2>1 DEF NewReached
  <2>3. Reached(d - 1, nextTime', iterating', tickC') /\ timerMap'[i].next = d - 1
    BY <1>4, <1>6, <2>1, <2>2
  <2>4. Found(d - 1, nextTime', iterating', tickC')
    BY <1>1, <1>2, <1>3, <2>2 DEF Found
  <2> QED
    BY <2>3, <2>4
<1>9. ActsInTime'
  BY <1>1, <1>2, <1>3 DEF ActsInTime
<1> QED
  BY <1>5, <1>7, <1>8, <1>9

\* The loop takes a tick: dropped, it leaves nothing that should have been
\* found due; otherwise it is acted on.
LEMMA LoopTakesKeeps ==
  ASSUME LoopInv, LoopTakes
  PROVE  LoopInv'
<1> USE LoopBounds DEF LoopInv, LoopTypes, Ticks
<1>1. /\ tickC # NoTick /\ tickC \in -MaxLag .. 0 /\ iterating = NoTick
      /\ iterating' = IF tickC < nextTime THEN NoTick ELSE tickC
      /\ tickC' = NoTick
      /\ timerMap' = timerMap /\ nextTime' = nextTime /\ fresh' = fresh /\ raced' = raced
  BY DEF LoopTakes
<1>2. LoopTypes' /\ ActsInTime'
  BY <1>1 DEF ActsInTime, Registered
<1>3. ASSUME NEW d \in Int, Reached(d, nextTime, iterating, tickC)
      PROVE  Reached(d, nextTime', iterating', tickC')
  BY <1>1, <1>3 DEF Reached
<1>4. AllReached'
  <2> SUFFICES ASSUME NEW i \in Registered
               PROVE  Reached(timerMap[i].next + Longest, nextTime', iterating', tickC')
    BY <1>1 DEF AllReached, Registered
  <2>1. PICK d \in Int : d = timerMap[i].next + Longest
    BY LongestBounds
  <2> QED
    BY <1>3, <2>1 DEF AllReached
<1>5. NewReached'
  <2> SUFFICES ASSUME NEW i \in fresh \ raced
               PROVE  /\ Reached(timerMap[i].next, nextTime', iterating', tickC')
                      /\ Found(timerMap[i].next, nextTime', iterating', tickC')
    BY <1>1 DEF NewReached
  <2>1. PICK d \in Int : d = timerMap[i].next
    OBVIOUS
  <2>2. Reached(d, nextTime, iterating, tickC) /\ Found(d, nextTime, iterating, tickC)
    BY <2>1 DEF NewReached
  <2>3. Reached(d, nextTime', iterating', tickC')
    BY <1>3, <2>2
  <2>4. Found(d, nextTime', iterating', tickC')
    BY <1>1, <2>2 DEF Found, Reached
  <2> QED
    BY <2>1, <2>3, <2>4
<1> QED
  BY <1>2, <1>4, <1>5

\* iteratorTimer: afterwards no timer is before the tick, and nextTime is at
\* most the longest wait after it, whichever timer the map yields first.
LEMMA IterateKeeps ==
  ASSUME LoopInv, Iterate
  PROVE  LoopInv'
<1> USE LoopBounds DEF LoopInv, LoopTypes, Ticks
<1>0. PICK t \in -MaxLag .. 0, first \in SUBSET Registered :
        t = iterating /\ IterateOver(t, first)
  <2>1. iterating \in -MaxLag .. 0
    BY DEF Iterate
  <2>2. PICK first \in SUBSET Registered : IterateOver(iterating, first)
    BY DEF Iterate
  <2> QED
    BY <2>1, <2>2 DEF IterateOver
<1> DEFINE due == {i \in Registered : timerMap[i].next < t}
           advanced == [i \in Registered |->
                          IF i \in due THEN Advanced(timerMap[i], t) ELSE timerMap[i]]
           times == {advanced[i].next : i \in due}
           newNextTime == IF first \subseteq due /\ first # {}
                          THEN Min(times)
                          ELSE Min(times \cup {t + Pause})
<1>1. /\ timerMap' = advanced
      /\ nextTime' = IF nextTime < newNextTime THEN Max({newNextTime, t}) ELSE nextTime
      /\ fresh' = fresh \ due /\ raced' = raced \ due
  BY <1>0 DEF IterateOver
<1>2. iterating' = NoTick /\ tickC' = tickC /\ nextTime <= t
  BY <1>0 DEF Iterate, ActsInTime
<1>3. ASSUME NEW i \in due
      PROVE  /\ advanced[i] \in [next : Int, space : Spaces]
             /\ t <= advanced[i].next /\ advanced[i].next <= t + Longest
  <2>1. PICK n \in Int, sp \in Spaces : n = timerMap[i].next /\ sp = timerMap[i].space
    OBVIOUS
  <2>2. n < t /\ sp \in Nat /\ 1 <= sp /\ sp <= Longest /\ Longest \in Nat
    BY <2>1, LongestBounds
  <2>3. advanced[i] = [next |-> IF n + sp < t THEN t + sp ELSE n + sp, space |-> sp]
    BY <2>1 DEF Advanced
  <2> QED
    BY <2>2, <2>3
<1>4. ASSUME NEW i \in Registered, i \notin due
      PROVE  advanced[i] \in [next : Int, space : Spaces] /\ t <= advanced[i].next
  BY <1>4
<1>5. newNextTime \in Int /\ newNextTime <= t + Longest
  <2>1. times \subseteq Int /\ \A x \in times : t <= x /\ x <= t + Longest
    BY <1>3
  <2>2. CASE first \subseteq due /\ first # {}
    <3>1. times # {}
      BY <2>2
    <3> HIDE DEF times, due
    <3>2. Min(times) \in times
      BY <2>1, <3>1, MinOfBounded
    <3> QED
      BY <2>1, <2>2, <3>2
  <2>3. CASE ~(first \subseteq due /\ first # {})
    <3> HIDE DEF times, due
    <3> DEFINE S == times \cup {t + Pause}
    <3>1. S \subseteq Int /\ S # {} /\ \A x \in S : t <= x /\ x <= t + Longest
      BY <2>1, LongestBounds
    <3> HIDE DEF S
    <3>2. Min(S) \in S
      BY <3>1, MinOfBounded
    <3>3. newNextTime = Min(S)
      BY <2>3 DEF S
    <3> QED
      BY <3>1, <3>2, <3>3
  <2> QED
    BY <2>2, <2>3
<1> HIDE DEF newNextTime
<1>6. nextTime' \in Int /\ nextTime' <= t + Longest
  <2>1. Max({newNextTime, t}) = IF newNextTime <= t THEN t ELSE newNextTime
    BY <1>5, MaxOfTwo
  <2> QED
    BY <1>1, <1>2, <1>5, <2>1, LongestBounds
<1>7. /\ Registered' = Registered
      /\ timerMap' = [i \in Registered |-> timerMap'[i]]
      /\ \A i \in Registered : /\ timerMap'[i] \in [next : Int, space : Spaces]
                               /\ t <= timerMap'[i].next
  <2>1. Registered' = Registered /\ timerMap' = [i \in Registered |-> timerMap'[i]]
    BY <1>1 DEF Registered
  <2>2. ASSUME NEW i \in Registered
        PROVE  timerMap'[i] \in [next : Int, space : Spaces] /\ t <= timerMap'[i].next
    <3> HIDE DEF advanced, due
    <3> QED
      BY <1>1, <1>3, <1>4
  <2> QED
    BY <2>1, <2>2
<1>8. LoopTypes' /\ ActsInTime'
  <2>1. fresh' \subseteq Registered' /\ raced' \subseteq Registered'
    BY <1>1, <1>7
  <2> HIDE DEF advanced, due
  <2> QED
    BY <1>2, <1>6, <1>7, <2>1 DEF ActsInTime
<1>9. AllReached'
  <2> SUFFICES ASSUME NEW i \in Registered
               PROVE  Reached(timerMap'[i].next + Longest, nextTime', iterating', tickC')
    BY <1>7 DEF AllReached
  <2>1. PICK d \in Int : d = timerMap'[i].next
    BY <1>7
  <2>2. t <= d
    BY <1>7, <2>1
  <2>3. Reached(d + Longest, nextTime', iterating', tickC')
    BY <1>2, <1>6, <2>2, LongestBounds DEF Reached
  <2> QED
    BY <2>1, <2>3
<1>10. NewReached'
  <2>1. ASSUME NEW i \in fresh \ raced PROVE i \in due
    BY <1>0, <2>1 DEF NewReached, Found
  <2>2. fresh' \ raced' = {}
    <3> HIDE DEF due
    <3> QED
      BY <1>1, <2>1
  <2> QED
    BY <2>2 DEF NewReached
<1> QED
  BY <1>8, <1>9, <1>10

\* AddTimer: nextTime is not after the new timer, which is raced when a tick
\* is still to be acted on.
LEMMA AddTimerKeeps ==
  ASSUME LoopInv, NEW i \in TimerIds, NEW space \in Spaces, AddTimer(i, space)
  PROVE  LoopInv'
<1> USE LoopBounds DEF LoopInv, LoopTypes, Ticks
<1>1. /\ i \notin Registered
      /\ nextTime' = IF nextTime <= 0 THEN nextTime ELSE 0
      /\ fresh' = fresh \cup {i} /\ raced' = IF TickAhead THEN raced \cup {i} ELSE raced
      /\ tickC' = tickC /\ iterating' = iterating
  BY MinOfTwo DEF AddTimer
<1>2. /\ Registered' = Registered \cup {i}
      /\ timerMap' = [j \in Registered' |-> timerMap'[j]]
      /\ timerMap'[i] = [next |-> 0, space |-> space]
      /\ \A j \in Registered : timerMap'[j] = timerMap[j]
  BY DEF AddTimer, Registered
<1>3. ASSUME NEW j \in Registered'
      PROVE  timerMap'[j] \in [next : Int, space : Spaces]
  BY <1>2
<1>4. LoopTypes' /\ ActsInTime'
  <2>1. nextTime' \in Int /\ ActsInTime'
    BY <1>1 DEF ActsInTime
  <2>2. fresh' \subseteq Registered' /\ raced' \subseteq Registered'
    BY <1>1, <1>2
  <2> QED
    BY <1>1, <1>2, <1>3, <2>1, <2>2
<1>5. ASSUME NEW d \in Int, Reached(d, nextTime, iterating, tickC)
      PROVE  Reached(d, nextTime', iterating', tickC')
  BY <1>1, <1>5 DEF Reached
<1>6. AllReached'
  <2> SUFFICES ASSUME NEW j \in Registered'
               PROVE  Reached(timerMap'[j].next + Longest, nextTime', iterating', tickC')
    BY DEF AllReached
  <2>1. CASE j = i
    <3>1. Reached(Longest, nextTime', iterating', tickC')
      BY <1>1, LongestBounds DEF Reached
    <3>2. timerMap'[j].next + Longest = Longest
      BY <1>2, <2>1, LongestBounds
    <3> QED
      BY <3>1, <3>2
  <2>2. CASE j \in Registered
    <3>1. PICK d \in Int : d = timerMap[j].next + Longest
      BY <2>2, LongestBounds
    <3>2. Reached(d, nextTime', iterating', tickC')
      BY <1>5, <2>2, <3>1 DEF AllReached
    <3> QED
      BY <1>2, <2>2, <3>1, <3>2
  <2> QED
    BY <1>2, <2>1, <2>2
<1>7. NewReached'
  <2> SUFFICES ASSUME NEW j \in fresh' \ raced'
               PROVE  /\ Reached(timerMap'[j].next, nextTime', iterating', tickC')
                      /\ Found(timerMap'[j].next, nextTime', iterating', tickC')
    BY DEF NewReached
  <2>1. CASE j = i
    <3>1. ~TickAhead
      BY <1>1, <2>1
    <3>2. iterating = NoTick /\ (tickC # NoTick => tickC < nextTime')
      BY <1>1, <3>1, MinOfTwo DEF TickAhead
    <3>3. Reached(0, nextTime', iterating', tickC') /\ Found(0, nextTime', iterating', tickC')
      BY <1>1, <3>2 DEF Reached, Found
    <3> QED
      BY <1>2, <2>1, <3>3
  <2>2. CASE j # i
    <3>1. j \in fresh \ raced /\ j \in Registered
      BY <1>1, <2>2
    <3>2. PICK d \in Int : d = timerMap[j].next
      BY <3>1
    <3>3. Reached(d, nextTime, iterating, tickC) /\ Found(d, nextTime, iterating, tickC)
      BY <3>1, <3>2 DEF NewReached
    <3>4. nextTime' = nextTime
      BY <1>1, <3>3 DEF Reached, Found
    <3> QED
      BY <1>1, <1>2, <3>1, <3>2, <3>3, <3>4
  <2> QED
    BY <2>1, <2>2
<1> QED
  BY <1>4, <1>6, <1>7

\* DelToTimer only takes a timer away.
LEMMA DelToTimerKeeps ==
  ASSUME LoopInv, NEW i \in TimerIds, DelToTimer(i)
  PROVE  LoopInv'
<1> USE DEF LoopInv, LoopTypes
<1>1. /\ UNCHANGED <<nextTime, tickC, iterating>>
      /\ fresh' = fresh \ {i} /\ raced' = raced \ {i}
      /\ Registered' = Registered \ {i}
      /\ timerMap' = [j \in Registered' |-> timerMap'[j]]
      /\ \A j \in Registered' : timerMap'[j] = timerMap[j]
  BY DEF DelToTimer, Registered
<1>2. LoopTypes'
  BY <1>1
<1>3. AllReached' /\ ActsInTime'
  BY <1>1 DEF AllReached, ActsInTime
<1>4. NewReached'
  <2>1. \A j \in fresh' \ raced' : j \in fresh \ raced /\ j \in Registered'
    BY <1>1
  <2> QED
    BY <1>1, <2>1 DEF NewReached
<1> QED
  BY <1>2, <1>3, <1>4

\* The invariant of the timer loop, over every order of ticks, late
\* iterations, and timers added and deleted.
THEOREM LoopInvariance == LoopSpec => []LoopInv
<1>1. LoopInit => LoopInv
  BY LoopBounds DEF LoopInit, LoopInv, LoopTypes, Ticks, ActsInTime, AllReached, NewReached,
     Registered
<1>2. LoopInv /\ [LoopNext]_loopVars => LoopInv'
  <2>1. LoopInv /\ UNCHANGED loopVars => LoopInv'
    BY DEF loopVars, LoopInv, LoopTypes, ActsInTime, AllReached, NewReached, Registered
  <2> QED
    BY <2>1, TimePassesKeeps, LoopTakesKeeps, IterateKeeps, AddTimerKeeps, DelToTimerKeeps
       DEF LoopNext
<1> QED
  BY <1>1, <1>2, PTL DEF LoopSpec

\* How late a timer may be: iteratorTimer fires it within twice the lag of the
\* loop after it was added, or that and the longest wait after it was due.
THEOREM LatenessBounded == LoopSpec => []NeverTooLate
<1>1. LoopInv => NeverTooLate
  <2> SUFFICES ASSUME LoopInv, NEW i \in Registered
               PROVE  -timerMap[i].next <= IF i \in fresh \ raced
                                           THEN 2 * MaxLag ELSE Longest + 2 * MaxLag
    BY DEF NeverTooLate, Longest
  <2> USE LoopBounds, LongestBounds
  <2>0. /\ timerMap[i].next \in Int /\ nextTime \in Int
        /\ tickC # NoTick => tickC \in -MaxLag .. 0
        /\ iterating # NoTick => iterating \in -MaxLag .. 0
    BY DEF LoopInv, LoopTypes, Ticks
  <2>1. ASSUME NEW d \in Int, Reached(d, nextTime, iterating, tickC) PROVE -d <= 2 * MaxLag
    BY <2>0, <2>1 DEF Reached
  <2>2. PICK n \in Int : n = timerMap[i].next
    BY <2>0
  <2>3. CASE i \in fresh \ raced
    BY <2>1, <2>2, <2>3 DEF LoopInv, NewReached
  <2>4. CASE i \notin fresh \ raced
    <3>1. -(n + Longest) <= 2 * MaxLag
      BY <2>1, <2>2 DEF LoopInv, AllReached
    <3> QED
      BY <2>2, <2>4, <3>1
  <2> QED
    BY <2>3, <2>4
<1> QED
  BY <1>1, LoopInvariance, PTL

=============================================================================
