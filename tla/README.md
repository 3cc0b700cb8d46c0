# Formal models of compkg

TLA+ specifications of the stateful parts of `github.com/sidchai/compkg`, the TLC
configurations that check them on small instances, and proofs for TLAPS of the
properties that should hold for every instance. Paths below are relative to the
root of the repository.

## 1. Inventory

compkg is a library of Go packages. Most of them wrap a driver or convert data; a
dozen keep state of their own and run goroutines. Those are what this project is
about.

| component | state | operations | interacts with |
|---|---|---|---|
| scheduler SDK: submit path (`submit_buffer.go`, `submit_spool.go`, `submit.go`) | memory queue, spool index and its byte count, JSON files on disk | `EnqueueTask`, `SubmitTask`, `runBufferRetryLoop` (drain, putBack, ack), reload at `New` | scheduler over gRPC, file system, `Client.Start/Stop` |
| scheduler SDK: stream (`stream.go`, `executor.go`) | session, `sendCh`, semaphore, table of cancel functions, handler goroutines | connect and backoff, receive loop, heartbeat, sender, `onDispatch`, `onCancel` | scheduler over a bidirectional stream, application handlers, `Client.Stop` |
| scheduler SDK: lifecycle (`client.go`) | `started`, `rootCtx`, `conn`, `streamDone`, `inflightWG` | `New`, `RegisterHandler`, `Start`, `Stop` | starts and ends the two above |
| `gopool` | list of tasks, counters of tasks and workers | `CtxGo`, worker loop, `SetCap` | application functions, panic handler |
| `worker_pool` | job channel, workers | `Submit`, `SubmitAndWait` | application functions |
| `timer`, `timer/uniquer`, `redis_lock` | local tickers; keys with expiry in Redis | start, run, refresh, delete; lock, reentrant lock, unlock | Redis, shared by instances |
| `config` | remote raw values, current snapshot, callbacks | load, merge, `onRemoteChange`, `fireDiff`, reload | Nacos listeners that call back concurrently |
| `metrics`, `alert` | counters, gauges, histograms, last values, consecutive counts, cooldowns | increment, `collectAndNotify`, evaluate, notify | the collector calls the alert engine |
| `health`, `dispatch` | heartbeats in a sorted set, `stopOnce` | reporter start, stop, beat; alive check, publish | Redis |
| `traffic` | counters per device, Redis hashes per hour, MySQL rows | `flushOnce`, `dumpPending`, connection wrapper | Redis, MySQL |
| `logger`, `zap`, `trace`, `tracelegacy`, `cache`, `upload`, `cdn`, `miniox`, `httptool` | none beyond a driver handle | calls of drivers and services | external systems |
| `encrypt`, `secret`, `stringsx`, `timex`, `trans`, `util`, `compression`, `serialization`, `sharding`, `snow_node`, `buildinfo`, `cmd`, `proto` | none | conversions, generated code | none |

What is hard to test, and what would make each component correct:

* **Submit path.** A retry round has its batch out while callers refill the queue;
  a file is evicted while a retry loop is about to acknowledge it; the process
  dies between the reply of the scheduler and the removal of the file; the clock
  goes back; two retry loops run after Stop and Start. Correct means: a task
  reported as queued is never lost silently, is in one place, is sent twice only
  for a reason, and the spool keeps its budget, its index and its order.
* **Stream.** Five kinds of goroutines share a channel whose owner closes it
  without waiting for the handlers. Correct means: tokens are balanced, a Cancel
  reaches the right handler, results follow their Ack, a broken stream is noticed
  and Stop ends everything.
* **Lifecycle.** The mutex of Start and Stop guards a flag and not the connection, the
  context and the channel; the loops read the context anew in every round. Correct
  means: a started client has one loop on one connection, and Stop leaves nothing.
* **gopool.** The decision to start a worker is made from counters that are read
  without the lock. Correct means: no task is stranded, none runs twice.
* **config.** The remote source calls back from goroutines of its own; the loader
  holds its mutex only while it copies the documents, so that load, store, compare
  and notify of two callbacks interleave; a subscription begins after the fetch; a
  Listen may fail half way; what is encrypted is searched by two walks of different
  depth, and what has changed is compared in print. Correct means: the settings in use
  have always passed the schema and hold no encrypted value, they follow the source, a
  listener knows of the last change, Close ends the updates.
* **worker_pool.** Jobs may call the pool they run in. Correct means: every submitted
  job is done, or all workers are inside such calls.
* **timer, redis_lock.** Processes meet in one key of Redis that expires, and answers
  are late or lost. Correct means: one holder at a time as long as its lease lasts,
  nobody removes the key of another, a timer is not forgotten.
* **metrics, alert.** A goroutine resets values that callers add to, and is replaced by
  Init and ended by Stop; rules share state by metric. Correct means: every record is
  reported once, a breach that lasts is not silenced, a configuration that was switched
  off stops alerts within the time of the cache.
* **health.** Stop races with a beat, and with commands a beat gave up after its three
  seconds, which Redis may still execute. Correct means: a stopped instance stays gone,
  and is never shown with a sign of life from after Stop.
* **traffic.** Counters, a hash per hour and a table are three copies that move on in
  separate calls, each of which may fail. Correct means: every byte is entered once and
  the row of an hour is its sum, up to three losses that can be named.

## 2. Modules

| module | role |
|---|---|
| `SubmitPath` | submit path with scheduler, disk and crashes as environment |
| `SubmitPathProofs` | its theorems |
| `StreamSession` | stream loop, its goroutines and handlers, the scheduler as environment |
| `StreamSessionProofs` | its theorems |
| `ClientLifecycle` | Start and Stop of the client, with stream loop, retry loop and handlers reduced to their life |
| `ClientLifecycleProofs` | its theorems |
| `GoPool` | pool and workers of `pkg/gopool` |
| `GoPoolProofs` | its theorems |
| `ConfigLoader` | loader of `pkg/config` with the Nacos source and its pushes |
| `ConfigLoaderProofs` | its theorems |
| `TrafficLedger` | what `pkg/traffic` promises, as a specification of its own |
| `Traffic` | counters, flushes, hashes and dump of `pkg/traffic`; refines `TrafficLedger` |
| `TrafficProofs` | its theorems |
| `UniqueTimer` | runs of a unique timer in several processes with the limit in Redis |
| `TimerLoop` | the ticker loop of `pkg/timer` |
| `RedisLock` | `pkg/redis_lock` with its two scripts |
| `Health` | `Reporter` of `pkg/health` |
| `MetricsRegistry` | registry, handles and collection of `pkg/metrics` |
| `KVProvider` | the cached configuration of `pkg/alert/provider` |
| `AlertEngine` | `Evaluate` of `pkg/alert` with its rules |
| `WorkerPool` | both pools of `pkg/worker_pool` |
| `ServicesProofs` | theorems about `RedisLock`, `UniqueTimer`, `TimerLoop`, `Health`, `KVProvider` and `MetricsRegistry` |
| `SequenceLemmas` | facts about `ToSet`, `IsInjective`, `Append`, `Tail`, `\o`, `SubSeq` the proofs cite |
| `MCSubmitPath`, `MCStreamSession`, `MCConfigLoader`, `MCClientLifecycle`, `MCAlertEngine` | instances for TLC |
| `MCServices`, `MCProcesses` | several components side by side, see section 3 |

Operators whose comment begins with *Fault* are mutated forms of an action, as a
plausible slip in the code would make it. They are no part of a specification;
`PROJECT.json` says which property each of them violates.

### SubmitPath

One goroutine per task calls `EnqueueTask`. `pc[t]` is the place of the call and
then its result. The actions follow the locks of the code: `SubmitDirect` is the
RPC, `PushMem` the critical section of `submitBuffer.push`, and `push` of the
spool is cut into `SpillBegin`, `SpillEvict` (one file each), `SpillWrite` and
`SpillFails`, since the process may die between the file operations; `spoolLock`
is `submitSpool.mu`. A retry loop is cut at every unlock and every RPC: `Wake`
(select and drain), `FlushMem`, `PutBack`, `DrainSpool`, `FlushSpool`, `AckSpool`,
`RetryExit`. `NewClient` is `New` with the reload of the spool: the directory is
listed in the order of the names, files over the budget are removed, the next
number is the larger of the clock and the last number plus one. `Crash`,
`SchedulerFlips` and `FileVanishes` are the environment. An RPC that fails with
`Unavailable` or `DeadlineExceeded` may have been taken by the scheduler.
`DiskFaults` allows every file operation to fail.

`deliveries`, `lostBy` and `excused` are history variables. A task becomes
*excused* where the design accepts a second delivery: the reply was lost, the
removal of the file failed, the process died before the removal, or two loops
hold the same file.

Abstracted: contents and encoding of a task (a file has a size and a task), the
retry interval (the loop may wake at any time), logging.

### StreamSession

`at` is where the stream loop stands: at the top of `runStreamLoop`, in one of the
places of `runOneSession` / `runRecvLoop` / `onDispatch` (all one goroutine), in
the backoff, or gone. `sender` and `hb` are the goroutines of the session, `pc[d]`
the life of a dispatch from the message of the scheduler to the last deferred
call of its handler. `sendOrDrop` is modelled as Go's `select`: if the context is
done and the channel has room or is closed, either case may be taken; a send on a
closed channel sets `crashed`. What the scheduler hears is `told`; it is updated
when the sender takes a message from the channel and `Send` succeeds. A dispatch
may name a run that is under way already.

The status of a result is `StatusOf` the error the handler returned, as `errors.Is` finds
it, and not of the job's own context: a handler may return the error of its context once
that is done, an error or success of its own whatever the context is, and at any time the
`Canceled` or `DeadlineExceeded` of some other context it worked with. `inner` records the
dispatches whose handler returned such a foreign `Canceled`.

Abstracted: payloads, the delay of the backoff, `Reload` messages, the content of
heartbeats. Messages in the gRPC buffers are bounded by `Backlog`.

### ClientLifecycle

What `StreamSession` and `SubmitPath` take as single steps (Start, Stop) is cut at
every access to a field here, and what they describe in detail (a session, a round of
the retry loop) is one state. Start is `Start` (test and set of the flag), `Dialed` or
`DialFails`, `SetConn`, `SetRootCtx`, `Launch`; Stop is `Stop` (test and reset),
`CancelRoot`, `SelectStreamDone`, `StreamEnded`, `HandlersEnded`, `CloseConn`, with
`Expire` for the context of the caller. The stream loop reads `c.streamDone` when it
begins (the argument of the deferred `close`) and `c.rootCtx` at its head and after a
session; two reads in a row without a step of its own between them are one read. A
session keeps the context it began with. Connections, contexts and channels carry the
number of the dial they come from, so that "the field of another Start" can be said.
`tangled` and `expired` record that calls overlapped and that a Stop ran out of time.
A channel that is closed twice sets `panicked` and ends the behaviour.

Abstracted: the outcome of sessions, the data in handlers, the table of handlers.

### GoPool

`CtxGo` is cut at every atomic operation: `Enqueue` (critical section),
`CountTask`, then the three operands of the condition, each reading its counter
at its own time, then `IncWorker`. A worker takes a task or leaves in one
critical section. A panic of a task is recovered; a panic of the panic handler is
not and ends the process. Workers are named by the task whose call started them,
which loses nothing as a call starts at most one worker. `taskCount` and
`workerCount` are `int32` in the code; with fewer than 2^31 tasks in the list they
cannot wrap, so plain integers are used.

### ConfigLoader

`phase` is the place of `Bootstrap`: `FetchOne` / `FetchFails` are `Source.Fetch` (an
error drops what was read), `Build` merges, normalizes, validates and stores, `ListenOne`
/ `ListenFails` are `Source.Listen`, which subscribes one dataId after the other and does
not roll back. A callback of the source is a slot of `cb`: `RemoteChange` is
`onRemoteChange` up to the result of the rebuild, `LoadOld` and `StoreNew` its two
accesses to `Loader.vp`, `FireDiff` the comparison and the copy of the listeners under
`mu`, `Fire` the call of one listener, `Return` the end. The rebuild is one step with the
copy under `remoteMu` since it works on data of its own. `Close` runs the cancelers of the
subscriptions that `Listen` handed over; any of them may fail, and callbacks under way go
on. `leaked` is set where a subscription gets out of reach: by a Listen that fails half
way, and by a canceler that fails. `OnChange`, `Publish` and `EditLocal` are the
application, whoever publishes documents and whoever edits the local file.

`vp` is the settings in use, `builtFrom`, `kept`, `overlapped`, `missed` and
`leaked` are history variables: the documents the settings were built from, whether
the last rebuild was refused, and whether one of the conditions of section 5 has
come up. `view` is what a listener read when it was last called.

Abstracted: settings are flat functions from dot-keys to values; a YAML document is the
keys it sets, or `Broken`; a prefix is a set of keys; the expansion of the environment is
a function on values; a key of the ring is the set of ciphertexts it opens. `Encrypted`
are the values with a ciphertext somewhere in them, `Nested` those that have it only in a
list inside a list. `hasEncrypted` sees the former without the latter and decides whether
a key is needed and anything is decrypted; if so, `Decrypted` covers all of them
(`Ciphers`), as `decryptSlice` descends where `hasEncrypted` does not. `Shown` is what a
value prints with `%v`, and `equalScalar` compares that. A schema is a set of forbidden
values and a set of required keys. The order in which Go ranges over the map of documents
is any order, chosen anew for every rebuild. Metrics and logging are left out.

### Traffic and TrafficLedger

`TrafficLedger` knows bytes that are pending in a process, the book of every hour and
the table, and six things that can happen to them. Three of these are the ways in which
the code falls short: `Lose` (a process ends with bytes in memory), `Repeat` (Redis
executed a pipeline that was reported as failed, and the bytes were put back) and an
hour that becomes *torn* because a flush reached it after a dump had read it, or because
Redis forgot it. Apart from these every byte moves from pending into one book, and
`Publish` writes a row that is the book in KB, rounded.

`Traffic` has the code's own state: `counters` and `flight` per process (what
`flushOnce` swapped out), the hash of every hour with the time of its last `Expire`,
the place of `dumpPending`, and the rows. `FlushBegin` swaps and works out the key,
`FlushDone` and `FlushFailed` are the pipeline; a failed one may have been executed for
any subset of the fields. The dump is `DumpScan`, `DumpRead`, `DumpUpsert`, `DumpDel`
per key, with `DumpFails` after each. The mapping takes `counters + flight` as pending
and the history in `ghosts` for the rest; `row` and `hour` are the same in both. That
rows come out right is therefore not by construction: they are computed from a copy of
the hash read earlier, and checked against the book.

Abstracted: the names of devices (a field is a device and a direction), parsing of keys
and fields; one process dumps.

### UniqueTimer, TimerLoop

`UniqueTimer` numbers the runs of one timer; the number stands for the time a run writes
into the key. `SetLimit` looks at the error only, as in the code. The goroutine beside
the run is `RefreshLimit` and `DeleteLimit`; its `WATCH`/`MULTI` transactions are atomic
or fail. `TimerLoop` keeps all times relative to the present, so that the instance needs
no bound on time. The order in which Go ranges over the map matters only by its first
element, which is chosen. A tick in the channel of the ticker gets older while the loop
is busy; `MaxLag` bounds that.

### RedisLock

A call is issued (`TryLock`, `UnLock`), executed by Redis (`LockRuns`, `UnLockRuns`) and
answered (`LockGranted`, `LockRefused`); or it fails before, in between or after
(`LockFails`, `UnLockFails`) and may be executed later (`StrayLock`, `StrayDel`). `left`
is the lease as its holder counts it: `LockSeconds` from the answer. The id is the
random string of the object, taken to be unique.

### Health

`Start`, `Stop` and the goroutines they start or wait for, with the fields `stopCh` and
`doneCh` read when the code reads them. The entry of the instance has an age; other
instances remove it when it is too old. A beat has three seconds (`health.go:174`): a
command that fails was executed all the same, is lost, or is among the `strays` and is
executed by Redis whenever it likes (`StrayExecutes`), after the commands of Stop too. The
score of a ZAdd is the time of its beat, so the stray carries an age that grows with time.
`sinceStop` is the time since the ZRem of Stop and `cameLate` the commands of beats that
were executed after Stop had undone them, both history.

### MetricsRegistry, AlertEngine, KVProvider

A record is a number that moves from a value of a registry into a snapshot and to the
callback. A registry has one metric of each sort, `NameOf` gives their names, and a
collection takes counters, gauges, histograms and rates in this order into one map by
name: a metric that exists and has the name of one already collected takes its place
(`Overwrites`), and the records of the first are reported to nobody. A gauge is not reset
and matters only for this. `defaultRegistry` is read and written without a lock, twice in
`ensureRegistry`. `AlertEngine` takes one rule per step: the check, `handleTriggered` up
to the cooldown, and `savePrevValues`; asking for the configuration and sending are steps
of their own. Levels are small integers; a time is a number of cycles. `KVProvider`
counts the age of what it read from the store, and caps it.

### WorkerPool

The channel pool and the dispatch pool are two values of `style`. A job that calls
`Submit` or `SubmitAndWait` on its pool keeps its worker until the call returns.

## 3. Runs

| run | instance | shows |
|---|---|---|
| `submit_path` | 3 tasks (one of size 2, one the scheduler refuses), queue of 1, batch 2, limits 1 and 2 bytes, one file from an earlier process, clock 0..1, disk faults; 1 retry loop | `NoSilentLoss`, `SingleCustody`, `TwiceOnlyIfExcused`, `WithinBudget`, `BytesMatchIndex`, `IndexCoversDisk`, `SpoolDurable`, `SpoolFIFO` |
| `submit_loops` | 2 tasks, 2 retry loops, no disk faults | `SingleCustody` with two loops; `EventuallyResent` |
| `submit_outage` | as `submit_path`, no disk faults | counterexample to "an outage loses no task" (section 6) |
| `stream` | 2 dispatches of one run, both with a deadline, 2 sessions, channel of 1 slot, concurrency 1 or 2 | `TokensHeld`, `NeverOverbooked`, `AckFirst`, `CancelFindsHandler`, `CanceledOnRequest` |
| `stream_live` | 1 dispatch, 2 sessions | `BrokenSessionEnds`, `StopEndsAll`, `AcceptedIsReported` |
| `stream_panic` | as `stream_live` | counterexample to "the process lives on" (section 6) |
| `config` | 2 dataIds, 3 keys, 2 callbacks, 1 listener, 3 contents of the local file, 2 edits, a value encrypted in a list inside a list, two values that print alike | `LastGood`, `Synced`, `ListenersKnow`, `CloseFreezes` |
| `services` | traffic: 2 processes, up and down, 2 transfers of 700 bytes, 2 hours, 1 executed pipeline reported as failed; unique timer: 2 processes, 3 runs, limit of 2 intervals; timer loop: 2 timers with periods 1 and 4, pause 3; lock: 2 clients, lease 2, tolerance 1; health: 2 Starts, one command given up and under way at a time; metrics: 2 callers, 2 records, 2 registries, a counter and a histogram of one sample with the same name; provider: 2 readers, cache of 2, reads of up to 2 | `ImplementsLedger`, `WinnersAlone`, `NeverTooLate`, `WithinLeaseAlone`, `StoppedStaysGone`, `RecordsAccounted`, `SilencedWithinTTL` |
| `processes` | gopool: 3 tasks, capacities 0 and 2 with `SetCap`, threshold 2; worker pools: 4 jobs, 1 or 2 workers; alert: 2 metrics, 2 lists of rules; client: one caller, 2 successful dials, 2 handlers | `CountersMatch`, `NoTaskStranded`, `OnePlace`, `OvershootByOverlap`, `EventuallyRun`; `JobDoneOrJammed`; `StandingBreachNotified`; `StopIsThorough`, `StartedIsServed`, `StopTakesEffect` |
| `lifecycle_overlap` | two callers | counterexample to "rootCtx is cancelled by Stop" (section 6) |
| `unique_timer` | 2 processes, 2 runs | counterexample to "globally unique" (section 6) |
| `alert_consecutive` | one rule for 2 cycles in a row | counterexample to "N cycles in a row" (section 6) |

`services` and `processes` each check several components that share no state. A variable
that never changes says which of them a behaviour belongs to; the others stay in their
initial state, so the states of the run are the sum, and not the product, of the states
of the components. Each is thus checked exactly as it would be in a run of its own. The
fairness of a component is that of its own specification, in the behaviours that are its
own.

Why the bounds are enough to make the interesting cases happen:

* A queue of one and a limit of one or two bytes make every task meet a full queue,
  an eviction, a refusal (larger than the limit) and a spool that shrinks at a
  restart. Three tasks are needed to refill the queue while a batch is out *and*
  have one on disk. The leftover file has number 1 and the clock runs from 0 to 1,
  so that a restart with a clock behind the files is included.
* A channel of one slot makes every send compete; two sessions let a handler of the
  first one meet the second; two dispatches of one run make the handle in the
  table change owner. Symmetry is over the dispatches, which differ in nothing.
* Capacity 0 and threshold 2 make all three operands of the condition in `CtxGo`
  decide in some behaviour; with three callers and two workers the capacity is
  exceeded and workers leave while a caller looks.
* The two documents of the loader set the same key, so their order matters; among their
  versions are one the schema refuses, one that is no YAML, one with a value encrypted in
  a list inside a list beside an ordinary one, one with a ciphertext that comes out of the
  environment and one that takes the key ring away; the local file has a number that
  prints like the plain text; the local file may lack a required key or be unreadable.
  With two edits and two callbacks two pushes overlap in all ways, and a push falls
  between fetch and subscription. Symmetry is over the callbacks, which differ in nothing.
* 700 bytes are more than half a KB and two of them more than one: rounding, and the sum
  before it, matter. Two hours let the hour turn between the swap, the key and the
  pipeline of one process while the other flushes or a dump is under way. Symmetry is
  over the processes that count.
* The limit, the lease and the cache last two units, one more than the step in which they
  could run out by themselves; three runs in two processes let one run outlive its limit
  and meet the next holder. Periods of 1 and 4 lie on both sides of the pause.
* With 4 jobs and up to 2 workers all workers can be busy with calls to their pool while
  jobs wait behind them; both pools hold at most as many jobs as workers.
* One command under way is enough for each of ZAdd, HSet, ZRem and HDel to come late, in
  different behaviours; the proof covers any number. The age at which an entry is removed
  is two units, so that a late ZAdd brings an entry older than Stop, as old or removable.
* Counter and histogram of one name are collected one after the other: a record of the
  counter is overwritten if the histogram exists by then, and reported if it does not. The
  processes that count traffic and the goroutines that record have the same names, so that
  one symmetry serves both components.
* The lists of rules have two rules with different periods on one metric, a surge and a
  consecutive rule with n = 1, and a rate with too few samples; the lists are exchanged
  at any time.
* Two dials are a Start, a Stop and a Start again: what is left of the first meets the
  second. With one caller calls do not overlap, which is the condition of both
  invariants; `StopTakesEffect` includes Stops that run out of time. That the
  invariants need no more than this condition when several goroutines call is proved.

Deadlock is not checked: in all instances every task is submitted once and the
system then really comes to rest.

### Fairness

* `SubmitPath`: weak fairness of each call of `EnqueueTask` that has begun and of
  each retry loop: goroutines are scheduled, file operations and RPCs with a
  timeout return. Nothing is assumed of the scheduler; `EventuallyResent` is
  conditional on it staying up with the client running.
* `StreamSession`: weak fairness of the loop, the sender, the heartbeat and the
  handlers (an application handler returns when its context is done or its work
  is). Sends on a channel get strong fairness: Go queues blocked senders first in
  first out, so one that finds room again and again is served.
* `GoPool`: weak fairness of callers and workers taken together: as long as somebody
  can go on, somebody does; submitted functions end. This is weaker than fairness of
  each, and enough, as the number of steps is finite.
* `WorkerPool`: the same, of the goroutines of the pool and the jobs.
* `AlertEngine`: weak fairness of the engine: the ticker of the registry goes on calling
  it, and notifiers return.
* `ClientLifecycle`: weak fairness of calls (a dial has a timeout), of the goroutines
  and of a session whose context is cancelled; handlers end. Strong fairness for the
  retry loop to take the cancelled context: Go's select picks among ready cases at
  random and the ticks are an interval apart. Nothing makes a caller call.
* `ConfigLoader`: none; its properties are about safety, those of a state at rest
  included.

## 4. Proofs

TLAPS proves, for every value of the constants that meets the named assumptions:

**`SubmitPathProofs`** — `TypeCorrect`, `NoLoss` (`NoSilentLoss`), `Budget`
(`WithinBudget`), `IndexIsComplete` (`IndexCoversDisk`), and the action properties
`FIFO` (`SpoolFIFO`) and `Durable` (`SpoolDurable`). All rest on `Invariance`, the
invariant `Inv`. The properties are not inductive as they stand, and these are the
facts that are added:

* `Quiet`: a dead process has neither calls nor workers, and nobody is in a spool
  that does not exist;
* `Locked`: the call that is between eviction and write holds the mutex and has
  taken its sequence number, hence `Fresh`, the first number that is not in use;
* `Ordered`: the index is increasing and below `Fresh`. Without it a second file
  with the same number would make `ack`, which looks for a number, remove another
  task's file;
* `Covered`: the directory is a subset of the index;
* what a retry loop holds of the spool is, number by number, what the index has or
  had: an entry of the batch is either still in the index with the same task or
  gone for good. This is what makes `ack` after an eviction harmless;
* a loop that acknowledges a file has the answer of the scheduler for its task.

One lemma per action shows `Inv'`; the lemmas on increasing sequences (drop, tail,
append, remove) and `SequenceLemmas` carry the work on indices. Assumptions:
sizes, capacity, batch and limits are positive naturals; leftover files are
finitely many with distinct numbers and tasks. `Workers` and `Tasks` are arbitrary
sets, so the result covers any number of loops left over from earlier Starts.

Three more theorems rest on `Inv` and an invariant of their own.

* `HeldOnce` (`SingleCustody`), from `CustodyInvariance`. `MemoryOnce` adds to the
  property that a task in memory was reported as queued, so that no call of
  `EnqueueTask` is under way that could push it once more. `FilesOnce` speaks of all
  copies of a file, in the directory, in the index and in the batches: two with the
  same task are the same file, and a task with a file is not in memory. The copies
  matter because a batch outlives its file.
* `NoNeedlessResend` (`TwiceOnlyIfExcused`), from `Delivery`. A task that was delivered
  without an excuse is out of hands (`OutOfHands`): not in memory, its call of
  `EnqueueTask` over, and on disk at most as a file for which one worker is at its ack
  and of which no other worker has a copy. `Shared` says that two workers with a copy
  of the same file are an excuse already.
* `TotalIsExact` (`BytesMatchIndex`). `Bytes` is a sum over a set, computed by the
  community module in an order nobody knows. The proof compares it with a number that
  has no order, the cardinality of a set with one element per byte (`Units`): that
  function solves the equation by which the sum is chosen, and any solution is equal to
  it, else there were a smallest set of files on which they differ. The order of the
  index gives the rest: eviction, ack and write take out or add a file that is there
  once or not at all.

**`GoPoolProofs`** — `TypeCorrect`, `Counters` (`CountersMatch`) and `NotStranded`
(`NoTaskStranded`) from `Invariance`. The invariant adds `Unstarted`: a call of
`CtxGo` that has not returned has not started its worker, so that `IncWorker` makes
the number of live workers grow by exactly one. `NoTaskStranded` needs the counters:
a caller returns without starting a worker only if it saw `workerCount # 0` (the
other operand leads on to this test), and as the counter is exact a worker is live
at that moment; a worker leaves only if the list is empty. The set of tasks is
assumed finite, capacities and threshold are any integers. `TaskInOnePlace`
(`OnePlace`) is inductive together with the types. `OnlyOverlapOvershoots`
(`OvershootByOverlap`) needs `Alone`: as long as nothing overlapped there is one call of
`CtxGo` under way, and what it read of the counters (room below the capacity, or no
worker at all) is still so when it starts its worker, since workers only go meanwhile.

**`StreamSessionProofs`** — `TypeCorrect` (`TypeOK`), `TokensAccounted` (`TokensHeld`),
`NotOverbooked` (`NeverOverbooked`), `AckComesFirst` (`AckFirst`), `CancelReaches`
(`CancelFindsHandler`) and `OnlyOnRequest` (`CanceledOnRequest`), from `Invariance`, for
any sets of dispatches and runs (no finiteness is assumed), any concurrency and any
capacity of the channel. What the scheduler has heard and what the handlers have done
are far apart: messages lie in `sendCh` while the session breaks, handlers outlive it
and the next session opens. The invariant ties them together in three layers.

* `Control`, `InboxOK`, `Tokens`: a dispatch is once in the inbox, with the receive loop
  or with its handler, and before a handler starts it belongs to the session of the
  loop; the holders of tokens are finitely many and counted by `concurrencySem`.
* `CancelReasons` and `CancelFindsHandler`, which is inductive with the first layer: a
  context that was cancelled was cancelled on request or with its session. A status
  *canceled*, with the handler, in the channel or heard, has one of these reasons or comes
  from a handler that returned the `Canceled` of another context (`inner`).
* `Channel`: every message is of the open session and its dispatch has come as far as
  the message says (`MessagesOK`); the Ack lies before the result of the same dispatch
  (`AckBeforeResult`); what the scheduler was told is what was sent and read (`ToldOK`);
  while the session is open nothing is dropped (`NothingDropped`). `NeverOver` counts
  ahead: after the scheduler has read any prefix of the channel it takes at most
  `maxConcurrency` jobs for running. A new prefix is the whole channel with one message
  more, and what remains accepted at its end holds a token, since the report of a job
  enters the channel before its token is released.

**`ClientLifecycleProofs`** — `Thorough` (`StopIsThorough`) and `Served`
(`StartedIsServed`), from `Invariance`, for any number of callers, dials and handlers.
`Known` says that all numbers in fields, loops and sets are those of dials that took
place, hence a new dial meets no trace of itself. `Orderly` says, for every place of a
Start or Stop, which of connection, context, channel and loop belong to the last dial
(`Down`, `Fresh`, `Attached`, `Live`). The heart is `OneAtWork`: while calls do not
overlap and no Stop runs out of time a stream loop that is there is the one of the last
dial and no Stop has passed its wait; so the loop closes its own channel, for the first
time, and a Stop that sees the channel closed sees the end of the only loop.

**`ServicesProofs`** has a section for each of six components.

* *RedisLock*: `MutualExclusion` (`WithinLeaseAlone`), from `LockInvariance`, for any
  number of clients, lease and tolerance. `WithinLeaseAlone` speaks of clients only; the
  invariant ties them to the key: who relies on a lease has its id in the key and the key
  outlives the lease (`LeaseCovered`), and a grant whose answer is under way has
  `LockSeconds + Tolerance - delay` left (`GrantCovered`), which is what makes the lease
  safe when the answer arrives within the tolerance. `OnlyOneCovered` is the step that
  matters: a script that is granted finds nobody else covered. A client in `UnLock` has
  given up its lease (`UnlockingHasNone`), so the deletion by its script hurts nobody.
* *UniqueTimer*: `LimitKeepsApart` (`WinnersAlone`), from `UniqueInvariance`. A run that
  set the key and is under way, whose limit did not lapse and whose process was not told
  to end, is the one the key names (`WinnerHolds`); as the key names one run, two such
  runs are one. `WonIsPast` keeps runs that never asked Redis out of the winners.
* *Health*: `StopIsFinal` (`StoppedStaysGone`), from `HealthInvariance`. `Launched` and
  `DoneIsOver` say that with one Start there is one goroutine and its `doneCh` is closed
  only when it has returned; `StopProgress` says for every place of Stop what is gone by
  then, up to the commands in `cameLate`; `EarlyStopRefused` is the Stop that came before
  Start. As the only goroutine is gone when Stop removes the instance, every ZAdd on its
  way was given up before and is at least as old as `sinceStop`, whenever it is executed.
* *KVProvider*: `SilenceIsHeard` (`SilencedWithinTTL`), from `ProviderInvariance`.
  `ReadsBound`: a read under way that says "on" was begun before alerts were switched
  off, so `offFor` is at most its age. `CacheBound`: while a cached "on" is there,
  alerts have been off for at most its age and the longest read.
* *MetricsRegistry*: `NoRecordTwice` (`RecordsAccounted`), from `MetricsInvariance`. The
  records there are, in values, snapshots and reports, dropped or overwritten, are exactly
  those made, 1 to n (`Numbered`): none vanishes, and a new one differs from all earlier
  ones. The places are pairwise disjoint (`Apart`), for an overwritten record there is
  another metric of the same name (`ByNamesake`), and a handle has the
  metric its registry created (`Handles`). `Rounds` and `NothingForgotten` follow the
  collection of a registry value by value: what it has passed holds only what came too
  late.
* *TimerLoop*: `LatenessBounded` (`NeverTooLate`), from `LoopInvariance`. How late a timer
  can be depends on what the loop waits for; the invariant says for every timer that it
  will be reached by the iteration under way, by a tick in the channel or by the next
  tick, in time for the bound (`Reached`, `Found`), with a smaller bound for timers added
  when no tick was waiting (`NewReached`), and that a tick acted on is not before
  `nextTime` (`ActsInTime`). The lemmas on `Min` and `Max` of sets of numbers use the
  least number principle in place of induction. Assumed are a finite set of positive periods
  and that the mark for no tick is not itself a possible time of a tick.

**`TrafficProofs`** — `Refinement` (`ImplementsLedger`), from `Invariance`, for any number
of processes, fields and hours, any chunk size and any time to live of a hash of at least
an hour. The invariant says why a row may be computed from a hash: the hash of an hour
never exceeds its book and is equal to it, unless the hour is torn or the hash was deleted
after a dump had read it (`HashIsBook`); the copy between `HGetAll` and the upsert has the
same relation to the book (`CopyIsBook`), since a flush that comes in between finds the hour
closed and tears it. `DumpIsPast` is needed for the deletion of a hash that was empty when it
was read: the key was listed because it was there, so if it is gone a dump has read it or
Redis dropped it, and what a flush brought back and the deletion removes belongs to an hour
that is closed or torn. `KeysArePast` orders the hour of a flush, the last Expire and the
clock, from which a dump reads and Redis forgets only hours that are over. Then every action
is an action of the ledger (`StepLedger`): a Read or Write counts, a confirmed flush books, a
failed one repeats what was executed or changes nothing, the upsert publishes
(`RoundsToKB` is `bytesToKB`). The bounds on transfers and repeats only restrict the steps;
the proof uses nothing of them but that the counts stay numbers.

**`ConfigLoaderProofs`** — `AlwaysGood` (`LastGood`), `FollowsSource` (`Synced`),
`ListenersInformed` (`ListenersKnow`) and `Frozen` (`CloseFreezes`), from
`Invariance`. The invariant holds `TypeOK` and

* `FinalsGood`: what a callback is about to store has passed already, whoever stores
  first;
* `Early`: before Bootstrap has stored its settings nobody is subscribed, calls back
  or listens;
* `Alone`: without overlap there is one callback at a time;
* `Current` and `SeenIsRaw`: that callback was built from the documents as the loader
  has them, and what a subscription takes for known is what the loader has;
* `Informed`: a listener that is behind the settings is behind only in keys the
  callback under way will compare or has noted for it. This is where a listener
  registered between `StoreNew` and `FireDiff` is covered;
* `Ended`: a loader without a cancel function has subscriptions only from a Listen that
  failed half way; hence after Close, which runs all cancelers it was given, nobody is
  subscribed but by such a Listen or with a canceler that failed.

`AcceptedGood` and `MergedType` are the lemmas on a rebuild: for any order of the
documents the result has the type of settings, passes the schema and has no
ciphertext left that `hasEncrypted` can see. `EqualScalarEquivalence` is what `Informed`
needs of the comparison in print: to be behind is to differ in print, and two steps that
print alike make one that does. Assumed are finitely many dataIds, that decrypting gives
no ciphertext again, and the types of the constants; keys, values, what they print,
documents, listeners and callbacks are arbitrary.

**Only model-checked**: the liveness properties (`EventuallyResent`,
`BrokenSessionEnds`, `StopEndsAll`, `AcceptedIsReported`, `EventuallyRun`,
`JobDoneOrJammed`, `StandingBreachNotified`, `StopTakesEffect`), since neither fairness
nor `ENABLED` is within the prover's reach, and the five disagreements of section 6,
which are counterexamples. Every other property of a passing run is a theorem.

## 5. Limits of the code the models make visible

These are not claims of a document that fails, but conditions under which a property
holds.

* `BrokenSessionEnds` excludes `Stuck`: the sender returns on the first error of
  `Send` (`pkg/scheduler/stream.go:122`) without cancelling the session. If the
  channel is full at that moment and the receive loop is in `sendOrDrop`, nobody
  reads the channel again and the loop waits until `Stop`.
* `CancelFindsHandler` excludes a run that was dispatched again while its handler
  was running: the second dispatch overwrites the handle and the first handler to
  end deletes it.
* `EventuallyResent` is checked without disk faults: `submitSpool.drain` returns the
  error of one unreadable file and the younger files wait behind it.
* `TwiceOnlyIfExcused` lists the causes of a second delivery; two retry loops after
  Stop and Start are one of them.
* `OvershootByOverlap`: gopool's capacity is a target. Overlapping calls may each
  see room for one more worker.
* `StopIsThorough` and `StartedIsServed` exclude overlapping calls. `started` is down
  from the first step of Stop, so a Start that does not wait for Stop to return may have
  its context cancelled and its connection closed by that Stop
  (`pkg/scheduler/client.go:224`), while the first connection stays open; a failed dial
  may take the flag back under another Start.
* They also exclude a Stop that ran out of time. After it and another Start the old
  stream loop finds the new `c.rootCtx` and goes on beside the new loop; if it had not
  been scheduled before, both close the new channel, which panics. `StopTakesEffect`
  shows that, short of the panic, the next Stop ends both.
* `Synced` and `ListenersKnow` exclude overlapping callbacks: nothing orders the
  `Store` of two rebuilds (`pkg/config/loader.go:289`), so the one with the older
  documents may come last, and both may compare with the settings before them. The
  settings are right again with the next push; a listener only when its key changes.
* `Synced` says "or the last rebuild was refused": a refused document stays in
  `remoteRaw` and takes part in every later rebuild. One that is no YAML is not a
  refusal: its keys fall back to the local file.
* `Synced` excludes a subscription that takes the document of the moment for known
  when it differs from what was fetched, which includes a failed fetch: such a
  document is not applied before it changes again.
* `CloseFreezes` excludes a Listen that failed half way: `Bootstrap` forgets the cancel
  function it was given (`pkg/config/loader.go:149`) and the subscriptions that were made
  live on. It also excludes a canceler that fails
  (`pkg/config/source/nacos/nacos.go:184`), which is not tried again.
* `LastGood` allows a ciphertext in a list inside a list. `hasEncrypted` does not look there
  (`pkg/config/loader.go:539`), `decryptSlice` does (`pkg/encrypt/config.go:109`): a document
  whose only `ENC(...)` stands there is served as it is, without a key too, although
  `pkg/config/loader.go:387` speaks of decrypted values and `pkg/config/options.go:46` of
  a refused start. With any other encrypted value in the settings it is decrypted.
* `ListenersKnow` allows a listener whose value prints like the one in use: `equalScalar`
  compares what `%v` prints (`pkg/config/loader.go:600`), so a hot update from the number 1
  to the string "1", or from `["a b"]` to `["a", "b"]`, is stored and no listener is called.
* `CanceledOnRequest` allows *canceled* for a handler that returned the `Canceled` of
  another context: the status is chosen by `errors.Is` on whatever the handler returned
  (`pkg/scheduler/executor.go:120`), although the comment at the case names Cancel and Stop
  only. In the same way an inner deadline is reported as a timeout.
* `ImplementsLedger` names what traffic may lose or count twice. The comments call the
  rollback idempotent (`pkg/traffic/tracker.go:111`) and a second dump equivalent
  (`pkg/traffic/traffic.go:139`). Both are right except in the cases of the ledger: a
  pipeline that was executed and reported as failed is counted again, and a flush that
  worked out its key before the hour turned and reached Redis after the dump brings a
  hash with the rest only, which the next dump writes over the row.
* `WithinLeaseAlone`: the id belongs to the object and not to the acquisition, so a
  call of `UnLock` that was given up and is executed late removes a later lock of the
  same object (`robbed`); and an answer of Redis that is later than the tolerance begins
  a lease the key does not cover (`late`). One object in two goroutines is re-entrant.
* `WinnersAlone` excludes a limit that ran out and a context of `InitTimer` that was
  cancelled: the goroutine then deletes the limit while the callback still runs.
* `NeverTooLate`: `iteratorTimer` takes the next time from the timers that are due only,
  and drops the default pause when the first of the map is due. A timer may be late by
  the pause or by the period of another timer.
* `StoppedStaysGone` holds for one Start. The comment of Start says that further calls
  are ignored (`pkg/health/health.go:107`); they are not: a second Start replaces the
  channels, both goroutines go on, after Stop one of them may beat again, and both may
  close the same `doneCh`, which panics. A Stop before Start uses up `stopOnce`. A ZAdd or HSet
  that a beat gave up (`pkg/health/health.go:174`) may be executed after the ZRem and HDel
  of Stop. The metadata then stay; the entry has the time of its beat, and goes stale and
  is removed as that of a crashed instance.
* `RecordsAccounted`: a histogram that is full drops samples; a counter, histogram or rate
  is reset and then overwritten in the snapshot by a metric of the same name and a later
  kind (`pkg/metrics/registry.go:105`), so its records are reported to nobody; and what is
  recorded by a handle obtained before `Init` goes to a registry without a callback. A
  second `Stop`, and an `Init` after `Stop`, close a closed channel and panic.
* `StandingBreachNotified` says "by the rule or by another on the same metric": the
  cooldown is shared. It also starts when sending failed. A surge rule behind another
  rule on the same metric compares the value with itself and never triggers, since
  `savePrevValues` runs after every rule.
* `SilencedWithinTTL` excludes answers from the fallback: when the KV store cannot be
  read the provider goes to the fallback and not to the last configuration it knew.
* `JobDoneOrJammed`: jobs that call `Submit` or `SubmitAndWait` on their own pool can
  jam it for good.

## 6. Disagreements between documents and code

* `submit_outage`: `putBack` (`pkg/scheduler/submit_buffer.go:87`) drops the oldest
  entries when callers have refilled the queue meanwhile, also when the spool is
  enabled and empty, while the comment of `EnqueueTask` and of
  `LocalBufferDiskSpillEnabled` promise otherwise.
* `stream_panic`: a handler or the heartbeat that reaches `sendOrDrop` after
  `runOneSession` closed the channel may panic (`pkg/scheduler/executor.go:160`),
  while its comment says the message is dropped.
* `lifecycle_overlap`: a Stop during the dial of Start returns without effect, and the
  client that Start then launches has its flag down, so that no later Stop ends it
  (`pkg/scheduler/client.go:199`), while comments say that Stop cancels the context
  Start creates.
* `unique_timer`: `SetLimit` ignores the result of `SetNX`
  (`pkg/timer/uniquer/go_redis.go:24`), so a timer with a unique key runs in every
  process at once, while `pkg/timer/timer.go:25`, `:51` and `:135` promise global
  uniqueness and mutual exclusion.
* `alert_consecutive`: a rule for N >= 2 cycles in a row never triggers: `Evaluate`
  resets the count (`pkg/alert/engine.go:116`) whenever `checkConsecutive` has not yet
  reached N, while `pkg/alert/rule.go:14` and `pkg/alert/engine.go:237` say that N cycles
  in a row trigger it.

## 7. Not modelled, and plan

Not modelled and not planned: packages that only call a driver or a service
(`cache`, `upload`, `cdn`, `miniox`, `httptool`, `trace`, `logger`, notifier), pure
conversions, cryptography (but for the walk of `encrypt` over a configuration, which is in
`ConfigLoader`) and generated code. TLC has nothing to explore in them.

Of modelled packages: the table of handlers of the scheduler client and the table of
named pools (maps under a lock), the level of a gauge and percentiles, the Reader of `health`,
`dispatch` (a lookup, a question to the Reader and one publish), the parsing of alert
rules, the Prometheus exporter, feature flags and typed getters of the loader. They keep
no state that several actors change, or only format it.

More than half of the Go code of the repository (`proto/scheduler/v1/*.pb.go` and
`*.pb.gw.go`) is generated; the share of the lines that the map covers is small for this
reason.

To compose: `StreamSession` as an implementation of the stream loop `ClientLifecycle`
assumes (told to end, it ends and starts no handler after that).

Proofs to come: safety facts the liveness runs rest on, such as the exact registration
of idle workers in `WorkerPool` and the relation of cooldown and last alert in
`AlertEngine`; and the composition named above.
