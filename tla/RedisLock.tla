------------------------------ MODULE RedisLock ------------------------------
(***************************************************************************)
(* The lock of pkg/redis_lock/redis_lock.go: one key in Redis, taken and   *)
(* released by two scripts, with a time to live of LockSeconds and a       *)
(* tolerance.                                                              *)
(*                                                                         *)
(* A client is one RedisLock object with its random id, used by one        *)
(* goroutine.  A call of a script is issued, executed by Redis, and        *)
(* answered; its answer may be late or lost, and a call that was given up  *)
(* may still be executed later.  The id belongs to the object and not to   *)
(* the acquisition, so such a call cannot be told from a new one.          *)
(***************************************************************************)
EXTENDS Integers

CONSTANTS
  Clients,      \* the lock objects of the processes that compete
  LockSeconds,  \* the lease, in units of time
  Tolerance,    \* what the key outlives it by
  NoClient      \* the key is not there

ASSUME LockBounds ==
  /\ LockSeconds \in Nat \ {0}
  /\ Tolerance \in Nat
  /\ NoClient \notin Clients

VARIABLES
  key,     \* Redis: whose id the key holds, and its time to live
  call,    \* per client: the call under way
  delay,   \* per client: time since Redis granted the call that is unanswered
  left,    \* per client: what is left of the lease, counted from the answer
  late,    \* history: the answer that began the lease took longer than Tolerance
  robbed,  \* history: a call given up earlier removed the key of the client
  stray    \* per client: scripts given up that Redis may still execute

lockVars == <<key, call, delay, left, late, robbed, stray>>

Free == [id |-> NoClient, ttl |-> 0]
Locked(c) == [id |-> c, ttl |-> LockSeconds + Tolerance]

LockInit ==
  /\ key = Free
  /\ call = [c \in Clients |-> "idle"]
  /\ delay = [c \in Clients |-> 0]
  /\ left = [c \in Clients |-> 0]
  /\ late = [c \in Clients |-> FALSE]
  /\ robbed = [c \in Clients |-> FALSE]
  /\ stray = [c \in Clients |-> {}]

\* lockCommand: set if the key is the client's own or free.
Grants(c) == key.id \in {c, NoClient}
LockCommand(c) == key' = IF Grants(c) THEN Locked(c) ELSE key

\* Fault: the key is deleted whoever holds it.
DelCommandUnchecked(c) == key' = Free

\* delCommand: delete if the key is the client's own.
DelCommand(c) == key' = IF key.id = c THEN Free ELSE key

\* TryLock, by a client that does not hold the lock or, to extend it, one
\* that does.
TryLock(c) ==
  /\ call[c] = "idle"
  /\ call' = [call EXCEPT ![c] = "locking"]
  /\ UNCHANGED <<key, delay, left, late, robbed, stray>>

\* Redis executes the script of Lock.
LockRuns(c) ==
  /\ call[c] = "locking"
  /\ LockCommand(c)
  /\ call' = [call EXCEPT ![c] = IF Grants(c) THEN "granted" ELSE "refused"]
  /\ robbed' = [robbed EXCEPT ![c] = @ /\ ~Grants(c)]
  /\ UNCHANGED <<delay, left, late, stray>>

\* "OK" arrives and TryLock returns nil: the client counts LockSeconds.
LockGranted(c) ==
  /\ call[c] = "granted"
  /\ call' = [call EXCEPT ![c] = "idle"]
  /\ left' = [left EXCEPT ![c] = LockSeconds]
  /\ late' = [late EXCEPT ![c] = delay[c] > Tolerance]
  /\ delay' = [delay EXCEPT ![c] = 0]
  /\ UNCHANGED <<key, robbed, stray>>

\* After a refusal or an error TryLock sleeps and tries again, or gives up
\* since there is no WaitTimeout or it would be over.
AgainOrNot(c) == \E next \in {"locking", "idle"} : call' = [call EXCEPT ![c] = next]

LockRefused(c) ==
  /\ call[c] = "refused"
  /\ AgainOrNot(c)
  /\ UNCHANGED <<key, delay, left, late, robbed, stray>>

\* The call fails: before Redis had it, with Redis still to execute it, or
\* after Redis executed it.
LockFails(c) ==
  /\ call[c] \in {"locking", "granted", "refused"}
  /\ AgainOrNot(c)
  /\ \/ UNCHANGED stray
     \/ call[c] = "locking" /\ stray' = [stray EXCEPT ![c] = @ \cup {"lock"}]
  /\ delay' = [delay EXCEPT ![c] = 0]
  /\ UNCHANGED <<key, left, late, robbed>>

\* UnLock: the client has done with the lock, whatever comes of the call.
UnLock(c) ==
  /\ call[c] = "idle"
  /\ call' = [call EXCEPT ![c] = "unlocking"]
  /\ left' = [left EXCEPT ![c] = 0]
  /\ late' = [late EXCEPT ![c] = FALSE]
  /\ UNCHANGED <<key, delay, robbed, stray>>

UnLockRuns(c) ==
  /\ call[c] = "unlocking"
  /\ DelCommand(c)
  /\ call' = [call EXCEPT ![c] = "idle"]
  /\ UNCHANGED <<delay, left, late, robbed, stray>>

UnLockFails(c) ==
  /\ call[c] = "unlocking"
  /\ call' = [call EXCEPT ![c] = "idle"]
  /\ stray' \in {stray, [stray EXCEPT ![c] = @ \cup {"del"}]}
  /\ UNCHANGED <<key, delay, left, late, robbed>>

\* Redis executes a script whose caller does not wait for it any more.
StrayLock(c) ==
  /\ "lock" \in stray[c]
  /\ LockCommand(c)
  /\ stray' = [stray EXCEPT ![c] = @ \ {"lock"}]
  /\ UNCHANGED <<call, delay, left, late, robbed>>

StrayDel(c) ==
  /\ "del" \in stray[c]
  /\ DelCommand(c)
  /\ stray' = [stray EXCEPT ![c] = @ \ {"del"}]
  /\ robbed' = [robbed EXCEPT ![c] = @ \/ key.id = c]
  /\ UNCHANGED <<call, delay, left, late>>

\* A unit of time passes everywhere.
LockAges ==
  /\ key' = IF key.ttl > 1 THEN [key EXCEPT !.ttl = @ - 1] ELSE Free
  /\ left' = [c \in Clients |-> IF left[c] > 0 THEN left[c] - 1 ELSE 0]
  /\ delay' = [c \in Clients |->
                 IF call[c] = "granted" /\ delay[c] <= Tolerance THEN delay[c] + 1 ELSE delay[c]]
  /\ UNCHANGED <<call, late, robbed, stray>>

ClientStep(c) ==
  \/ TryLock(c) \/ LockRuns(c) \/ LockGranted(c) \/ LockRefused(c) \/ LockFails(c)
  \/ UnLock(c) \/ UnLockRuns(c) \/ UnLockFails(c)
  \/ StrayLock(c) \/ StrayDel(c)

LockNext == (\E c \in Clients : ClientStep(c)) \/ LockAges

LockSpec == LockInit /\ [][LockNext]_lockVars

-----------------------------------------------------------------------------
(* Properties.                                                             *)

LockTypeOK ==
  /\ key \in [id : Clients \cup {NoClient}, ttl : 0 .. LockSeconds + Tolerance]
  /\ call \in [Clients -> {"idle", "locking", "granted", "refused", "unlocking"}]
  /\ delay \in [Clients -> 0 .. Tolerance + 1]
  /\ left \in [Clients -> 0 .. LockSeconds]
  /\ late \in [Clients -> BOOLEAN]
  /\ robbed \in [Clients -> BOOLEAN]
  /\ stray \in [Clients -> SUBSET {"lock", "del"}]

\* The client may rely on its lease: it has not used up LockSeconds since
\* TryLock returned, the answer of Redis was no later than the tolerance, and
\* no UnLock of its own that it gave up came in afterwards.
Relies(c) == left[c] > 0 /\ ~late[c] /\ ~robbed[c]

\* Two clients never both rely on the lock (Lock and UnLock): expiry, late
\* and lost answers, repeated and stray calls of the scripts included.
WithinLeaseAlone == \A c, d \in Clients : Relies(c) /\ Relies(d) => c = d

=============================================================================
