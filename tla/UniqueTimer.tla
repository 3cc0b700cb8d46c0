----------------------------- MODULE UniqueTimer -----------------------------
(***************************************************************************)
(* Timers that are to run in one process at a time: timerAction of         *)
(* pkg/timer/timer.go with the limit in Redis of                           *)
(* pkg/timer/uniquer/go_redis.go.                                          *)
(*                                                                         *)
(* Every process has the timer.  A run sets the limit (SetNX), calls the   *)
(* function, and has a goroutine beside it that extends the limit every    *)
(* second and deletes it once the context of the run is done.  The value   *)
(* of the limit is the time at which the run began; runs are numbered here *)
(* and the number stands for that time.                                    *)
(***************************************************************************)
EXTENDS Integers, FiniteSets

CONSTANTS
  Procs,     \* the processes
  MaxRuns,   \* bound on the number of runs
  LimitTTL   \* expireSecond, in the interval between two refreshes

ASSUME UniqueBounds == MaxRuns \in Nat /\ LimitTTL \in Nat \ {0}

Runs == 1 .. MaxRuns
NoRun == 0

VARIABLES
  limit,    \* Redis: the run whose value the key holds, and its time to live
  runOf,    \* per run: its process
  action,   \* per run: where timerAction stands
  keeper,   \* per run: its refreshing goroutine
  procCtx,  \* per process: "live", "done" (the context of InitTimer) or "dead"
  won,      \* history: runs whose SetNX set the key
  lapsed    \* history: runs whose limit ran out while it was theirs

uniqueVars == <<limit, runOf, action, keeper, procCtx, won, lapsed>>

Unset == [run |-> NoRun, ttl |-> 0]
Mine(r) == [run |-> r, ttl |-> LimitTTL]

UniqueInit ==
  /\ limit = Unset
  /\ runOf = [r \in Runs |-> CHOOSE p \in Procs : TRUE]
  /\ action = [r \in Runs |-> "none"]
  /\ keeper = [r \in Runs |-> "off"]
  /\ procCtx = [p \in Procs |-> "live"]
  /\ won = {}
  /\ lapsed = {}

\* The channel CanRunning of the timer in process p is taken.
Taken(p) == \E r \in Runs : runOf[r] = p /\ action[r] \in {"set", "call"}

\* iteratorTimer starts a run; one that finds the channel taken does nothing.
Fire(p, r) ==
  /\ procCtx[p] = "live"
  /\ ~Taken(p)
  /\ action[r] = "none"
  /\ \A q \in Runs : q < r => action[q] # "none"
  /\ runOf' = [runOf EXCEPT ![r] = p]
  /\ action' = [action EXCEPT ![r] = "set"]
  /\ UNCHANGED <<limit, keeper, procCtx, won, lapsed>>

\* SetNX, as Redis executes it.
SetNX(r) ==
  IF limit.run = NoRun
  THEN limit' = Mine(r) /\ won' = won \cup {r}
  ELSE UNCHANGED <<limit, won>>

\* SetLimit looks at the error of the command and not at its result: the run
\* goes on also when the key was there.
SetLimit(r) ==
  /\ action[r] = "set"
  /\ SetNX(r)
  /\ action' = [action EXCEPT ![r] = "call"]
  /\ keeper' = [keeper EXCEPT ![r] = "on"]
  /\ UNCHANGED <<runOf, procCtx, lapsed>>

\* The command fails, executed or not: the run is skipped.
SetLimitFails(r) ==
  /\ action[r] = "set"
  /\ SetNX(r) \/ UNCHANGED <<limit, won>>
  /\ action' = [action EXCEPT ![r] = "over"]
  /\ UNCHANGED <<runOf, keeper, procCtx, lapsed>>

\* A tick of the goroutine: RefreshLimit extends a limit that is its own.
\* (A refresh that fails changes nothing.)
RefreshLimit(r) ==
  /\ keeper[r] = "on"
  /\ limit.run = r
  /\ limit' = Mine(r)
  /\ UNCHANGED <<runOf, action, keeper, procCtx, won, lapsed>>

\* The function returns or panics: the context is cancelled, the channel is
\* free again, and the limit is still there.
CallReturns(r) ==
  /\ action[r] = "call"
  /\ action' = [action EXCEPT ![r] = "over"]
  /\ UNCHANGED <<limit, runOf, keeper, procCtx, won, lapsed>>

\* The context of the run is done: it returned, or the context of InitTimer
\* was cancelled while it still runs.
RunCtxDone(r) == action[r] = "over" \/ procCtx[runOf[r]] = "done"

\* Fault: the key is deleted whoever set it.
DeleteUnchecked(r) ==
  /\ keeper[r] = "on"
  /\ RunCtxDone(r)
  /\ limit' = Unset
  /\ keeper' = [keeper EXCEPT ![r] = "off"]
  /\ UNCHANGED <<runOf, action, procCtx, won, lapsed>>

\* DeleteLimit, or its failure; the goroutine ends either way.
DeleteLimit(r) ==
  /\ keeper[r] = "on"
  /\ RunCtxDone(r)
  /\ \/ limit.run = r /\ limit' = Unset
     \/ UNCHANGED limit
  /\ keeper' = [keeper EXCEPT ![r] = "off"]
  /\ UNCHANGED <<runOf, action, procCtx, won, lapsed>>

\* The context given to InitTimer is cancelled.
CancelTimers(p) ==
  /\ procCtx[p] = "live"
  /\ procCtx' = [procCtx EXCEPT ![p] = "done"]
  /\ UNCHANGED <<limit, runOf, action, keeper, won, lapsed>>

\* The process ends, with its runs and their goroutines.
ProcDies(p) ==
  /\ procCtx[p] # "dead"
  /\ procCtx' = [procCtx EXCEPT ![p] = "dead"]
  /\ action' = [r \in Runs |-> IF runOf[r] = p /\ action[r] # "none" THEN "over" ELSE action[r]]
  /\ keeper' = [r \in Runs |-> IF runOf[r] = p THEN "off" ELSE keeper[r]]
  /\ UNCHANGED <<limit, runOf, won, lapsed>>

\* One refresh interval passes.
LimitAges ==
  /\ limit.run # NoRun
  /\ IF limit.ttl > 1
     THEN limit' = [limit EXCEPT !.ttl = @ - 1] /\ UNCHANGED lapsed
     ELSE limit' = Unset /\ lapsed' = lapsed \cup {limit.run}
  /\ UNCHANGED <<runOf, action, keeper, procCtx, won>>

RunStep(r) == \/ SetLimit(r) \/ SetLimitFails(r) \/ RefreshLimit(r)
              \/ CallReturns(r) \/ DeleteLimit(r)

UniqueNext ==
  \/ \E r \in Runs : RunStep(r) \/ \E p \in Procs : Fire(p, r)
  \/ \E p \in Procs : CancelTimers(p) \/ ProcDies(p)
  \/ LimitAges

UniqueSpec == UniqueInit /\ [][UniqueNext]_uniqueVars

-----------------------------------------------------------------------------
(* Properties.                                                             *)

Running(r) == action[r] = "call"

\* The limit itself does its work: of the runs that set the key (SetNX
\* answered true), two are under way at once only if the limit of one of
\* them ran out before it was done, or the context of its process was
\* cancelled under it.  No run takes the limit of another away or keeps it
\* alive.
WinnersAlone ==
  \A r, s \in won : Running(r) /\ Running(s) /\ r # s =>
    \E t \in {r, s} : t \in lapsed \/ procCtx[runOf[t]] = "done"

\* "Globally unique" (timer.go:25, :51): a timer with a unique key runs in
\* one process at a time.
RunsAlone == \A r, s \in Runs : Running(r) /\ Running(s) => r = s

=============================================================================
