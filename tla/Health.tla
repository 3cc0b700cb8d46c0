------------------------------- MODULE Health -------------------------------
(***************************************************************************)
(* The heartbeat of one instance: Reporter of pkg/health/health.go with    *)
(* the sorted set of the service and the hash of its metadata in Redis.    *)
(*                                                                         *)
(* Start makes two channels, stopCh and doneCh, beats once and starts a    *)
(* goroutine; channels and goroutines are numbered by the call of Start.   *)
(* Nothing stops a second Start: it replaces the channels, and the         *)
(* goroutine of the first goes on reading the fields of the Reporter: the  *)
(* doneCh it is to close when it begins to run, stopCh whenever it waits.  *)
(* A Stop may also come first; stopOnce is then used up.                   *)
(*                                                                         *)
(* A beat has three seconds.  A command that its client gives up may still *)
(* be on its way, and Redis executes it later, even after the commands of  *)
(* Stop.  The unit of time is longer than those three seconds.             *)
(***************************************************************************)
EXTENDS Integers, FiniteSets

CONSTANTS
  MaxStarts,     \* bound on the calls of Start
  StaleCleanup,  \* an entry of this age is removed by the next beat
  MaxStrays      \* bound on the commands given up and not yet executed

ASSUME HealthBounds == /\ MaxStarts \in Nat /\ StaleCleanup \in Nat \ {0}
                       /\ MaxStrays \in Nat

Starts == 1 .. MaxStarts
NoCh == 0

VARIABLES
  starts,      \* calls of Start so far; also the channels in the Reporter
  stopClosed,  \* the closed ones of the channels stopCh
  doneClosed,  \* the closed ones of the channels doneCh
  beater,      \* per goroutine: where it stands
  bound,       \* per goroutine: the doneCh it is to close, the stopCh it waits on
  owner,       \* where the calls of Start and Stop stand
  onceUsed,    \* stopOnce
  beatCtx,     \* the context given to Start: "live" or "done"
  entry,       \* the instance in the sorted set: its age, or Gone
  meta,        \* the instance in the hash
  strays,      \* commands their client gave up, which Redis may still execute
  stopRefused, \* history: Stop came before Start, or one of its commands failed
  sinceStop,   \* history: the time since the ZRem of Stop, or Gone before it
  cameLate,    \* history: commands of a beat executed after their undoing by Stop
  crashed      \* a closed channel was closed again, which ends the process

store   == <<entry, meta, strays>>
history == <<stopRefused, sinceStop, cameLate>>
healthVars == <<starts, stopClosed, doneClosed, beater, bound, owner, onceUsed, beatCtx,
                store, history, crashed>>

Gone == -1

Ages == 0 .. StaleCleanup
Commands == [cmd : {"zadd", "hset", "zrem", "hdel"}, age : Ages]

HealthInit ==
  /\ starts = 0
  /\ stopClosed = {} /\ doneClosed = {}
  /\ beater = [g \in Starts |-> "none"]
  /\ bound = [g \in Starts |-> [done |-> NoCh, stop |-> NoCh]]
  /\ owner = "idle"
  /\ onceUsed = FALSE
  /\ beatCtx = "live"
  /\ entry = Gone
  /\ meta = FALSE
  /\ strays = {}
  /\ stopRefused = FALSE
  /\ sinceStop = Gone
  /\ cameLate = {}
  /\ crashed = FALSE

-----------------------------------------------------------------------------
(* The beat, by Start or by a goroutine: ZAdd, then the sweep of entries   *)
(* that are StaleCleanup older than the time of this ZAdd, which therefore *)
(* never removes the entry it has just made, then HSet.                    *)

\* An error without an execution: Redis executes the command later or never.
GivesUp(cmd) ==
  \/ UNCHANGED strays
  \/ /\ Cardinality(strays) < MaxStrays
     /\ strays' = strays \cup {[cmd |-> cmd, age |-> 0]}

\* A context that is done fails every command before it is sent.
BeatFails(cmd) ==
  IF beatCtx = "live" THEN GivesUp(cmd) ELSE UNCHANGED strays

\* ZAdd; after an error the beat is over, with the command executed or not.
ZAddResult(goOn, over) ==
  \/ beatCtx = "live" /\ entry' = 0 /\ goOn /\ UNCHANGED strays
  \/ beatCtx = "live" /\ entry' = 0 /\ over /\ UNCHANGED strays
  \/ UNCHANGED entry /\ over /\ BeatFails("zadd")

\* HSet of reportMeta; its error is only reported.
HSetResult == \/ beatCtx = "live" /\ meta' = TRUE /\ UNCHANGED strays
              \/ UNCHANGED meta /\ BeatFails("hset")

\* ZRemRangeByScore of a beat.
SweepStale == entry' = IF entry >= StaleCleanup THEN Gone ELSE entry

-----------------------------------------------------------------------------
(* Start and Stop.                                                         *)

StartBegin ==
  /\ owner = "idle"
  /\ starts < MaxStarts
  /\ starts' = starts + 1
  /\ owner' = "beat"
  /\ UNCHANGED <<stopClosed, doneClosed, beater, bound, onceUsed, beatCtx, store,
                 history, crashed>>

\* The goroutine is created after the first beat, whatever came of it.
Launch == owner' = "idle" /\ beater' = [beater EXCEPT ![starts] = "new"]

StartZAdd ==
  /\ owner = "beat"
  /\ ZAddResult(owner' = "beatMeta" /\ UNCHANGED beater, Launch)
  /\ UNCHANGED <<starts, stopClosed, doneClosed, bound, onceUsed, beatCtx, meta,
                 history, crashed>>

StartMeta ==
  /\ owner = "beatMeta"
  /\ HSetResult
  /\ Launch
  /\ UNCHANGED <<starts, stopClosed, doneClosed, bound, onceUsed, beatCtx, entry,
                 history, crashed>>

\* Stop, the first call: closes the channel that is in the Reporter, if any.
StopBegin ==
  /\ owner = "idle"
  /\ ~onceUsed
  /\ onceUsed' = TRUE
  /\ stopClosed' = (stopClosed \cup {starts}) \ {NoCh}
  /\ owner' = IF starts = 0 THEN "zrem" ELSE "wait"
  /\ stopRefused' = (stopRefused \/ starts = 0)
  /\ UNCHANGED <<starts, doneClosed, beater, bound, beatCtx, store, sinceStop, cameLate,
                 crashed>>

\* Fault: the goroutine is not waited for.
StopHurries ==
  /\ owner = "wait"
  /\ owner' = "zrem"
  /\ UNCHANGED <<starts, stopClosed, doneClosed, beater, bound, onceUsed, beatCtx,
                 store, history, crashed>>

\* The goroutine has closed the doneCh that is in the Reporter.
StopWaits ==
  /\ owner = "wait"
  /\ starts \in doneClosed
  /\ owner' = "zrem"
  /\ UNCHANGED <<starts, stopClosed, doneClosed, beater, bound, onceUsed, beatCtx,
                 store, history, crashed>>

\* ZRem and HDel; their errors are ignored.
StopZRem ==
  /\ owner = "zrem"
  /\ owner' = "hdel"
  /\ sinceStop' = 0
  /\ \/ entry' = Gone /\ UNCHANGED <<strays, stopRefused>>
     \/ UNCHANGED entry /\ GivesUp("zrem") /\ stopRefused' = TRUE
  /\ UNCHANGED <<starts, stopClosed, doneClosed, beater, bound, onceUsed, beatCtx, meta,
                 cameLate, crashed>>

StopHDel ==
  /\ owner = "hdel"
  /\ owner' = "idle"
  /\ \/ meta' = FALSE /\ UNCHANGED <<strays, stopRefused>>
     \/ UNCHANGED meta /\ GivesUp("hdel") /\ stopRefused' = TRUE
  /\ UNCHANGED <<starts, stopClosed, doneClosed, beater, bound, onceUsed, beatCtx, entry,
                 sinceStop, cameLate, crashed>>

-----------------------------------------------------------------------------
(* The goroutine.                                                          *)

\* It begins: the argument of the deferred close is evaluated, and it waits.
BeaterBegins(g) ==
  /\ beater[g] = "new"
  /\ beater' = [beater EXCEPT ![g] = "select"]
  /\ bound' = [bound EXCEPT ![g] = [done |-> starts, stop |-> starts]]
  /\ UNCHANGED <<starts, stopClosed, doneClosed, owner, onceUsed, beatCtx, store,
                 history, crashed>>

\* A tick; a select with several ready channels may take any of them.
BeaterTicks(g) ==
  /\ beater[g] = "select"
  /\ beater' = [beater EXCEPT ![g] = "zadd"]
  /\ UNCHANGED <<starts, stopClosed, doneClosed, bound, owner, onceUsed, beatCtx, store,
                 history, crashed>>

\* Back in the loop stopCh is read anew.
Reselect(g) ==
  /\ beater' = [beater EXCEPT ![g] = "select"]
  /\ bound' = [bound EXCEPT ![g].stop = starts]

BeaterZAdd(g) ==
  /\ beater[g] = "zadd"
  /\ ZAddResult(beater' = [beater EXCEPT ![g] = "meta"] /\ UNCHANGED bound, Reselect(g))
  /\ UNCHANGED <<starts, stopClosed, doneClosed, owner, onceUsed, beatCtx, meta,
                 history, crashed>>

BeaterMeta(g) ==
  /\ beater[g] = "meta"
  /\ HSetResult
  /\ Reselect(g)
  /\ UNCHANGED <<starts, stopClosed, doneClosed, owner, onceUsed, beatCtx, entry,
                 history, crashed>>

\* stopCh is closed or the context is done: the goroutine closes its doneCh.
\* A channel that is closed already panics.
BeaterEnds(g) ==
  /\ beater[g] = "select"
  /\ bound[g].stop \in stopClosed \/ beatCtx = "done"
  /\ beater' = [beater EXCEPT ![g] = "over"]
  /\ doneClosed' = doneClosed \cup {bound[g].done}
  /\ crashed' = (bound[g].done \in doneClosed)
  /\ UNCHANGED <<starts, stopClosed, bound, owner, onceUsed, beatCtx, store, history>>

CtxDone ==
  /\ beatCtx = "live"
  /\ beatCtx' = "done"
  /\ UNCHANGED <<starts, stopClosed, doneClosed, beater, bound, owner, onceUsed, store,
                 history, crashed>>

\* The sweep of a beat that finds the entry stale, of another instance or of
\* this one after an old ZAdd was executed.
OtherBeats ==
  /\ entry >= StaleCleanup
  /\ SweepStale
  /\ UNCHANGED <<starts, stopClosed, doneClosed, beater, bound, owner, onceUsed, beatCtx,
                 meta, strays, history, crashed>>

\* Stop has executed the command that undoes cmd.
Undone(cmd) ==
  onceUsed /\ owner \in (CASE cmd = "zadd" -> {"hdel", "idle"}
                           [] cmd = "hset" -> {"idle"}
                           [] OTHER -> {})

\* Redis executes a command that was given up.  The score of a ZAdd is the time
\* of its beat.
StrayExecutes(x) ==
  /\ x \in strays
  /\ strays' = strays \ {x}
  /\ entry' = CASE x.cmd = "zadd" -> x.age [] x.cmd = "zrem" -> Gone [] OTHER -> entry
  /\ meta' = CASE x.cmd = "hset" -> TRUE [] x.cmd = "hdel" -> FALSE [] OTHER -> meta
  /\ cameLate' = IF Undone(x.cmd) THEN cameLate \cup {x.cmd} ELSE cameLate
  /\ UNCHANGED <<starts, stopClosed, doneClosed, beater, bound, owner, onceUsed, beatCtx,
                 stopRefused, sinceStop, crashed>>

Aged(a) == IF a \in 0 .. StaleCleanup - 1 THEN a + 1 ELSE a

\* Time passes, for the entry, the commands on their way and since Stop.
EntryAges ==
  /\ entry' = Aged(entry)
  /\ strays' = {[x EXCEPT !.age = Aged(@)] : x \in strays}
  /\ sinceStop' = Aged(sinceStop)
  /\ UNCHANGED <<starts, stopClosed, doneClosed, beater, bound, owner, onceUsed, beatCtx,
                 meta, stopRefused, cameLate, crashed>>

HealthNext ==
  /\ ~crashed
  /\ \/ StartBegin \/ StartZAdd \/ StartMeta
     \/ StopBegin \/ StopWaits \/ StopZRem \/ StopHDel
     \/ \E g \in Starts : \/ BeaterBegins(g) \/ BeaterTicks(g) \/ BeaterZAdd(g)
                          \/ BeaterMeta(g) \/ BeaterEnds(g)
     \/ CtxDone \/ OtherBeats \/ EntryAges
     \/ \E x \in Commands : StrayExecutes(x)

HealthSpec == HealthInit /\ [][HealthNext]_healthVars

-----------------------------------------------------------------------------
(* Properties.                                                             *)

Stopped == onceUsed /\ owner = "idle"

\* After Stop returned the instance is neither in the sorted set nor in the
\* hash, and no beat is under way that brings it back.  Only a command that a
\* beat gave up can, when Redis executes it that late; a ZAdd then carries the
\* time of its beat, so that the instance is never shown with a sign of life
\* from after Stop and a Reader takes it for alive no longer than AliveWindow.
\* Excused: a second Start, a Stop that came before Start or whose own
\* commands failed, and a Start that followed.
StoppedStaysGone ==
  Stopped /\ starts = 1 /\ ~stopRefused =>
    /\ entry # Gone => "zadd" \in cameLate /\ entry >= sinceStop
    /\ meta => "hset" \in cameLate

=============================================================================
