--------------------------- MODULE MetricsRegistry ---------------------------
(***************************************************************************)
(* The metrics of pkg/metrics: the registry that the package keeps, the    *)
(* handles callers get from it, and the goroutine that collects the values *)
(* of a registry and gives them to its callback (metrics.go, registry.go,  *)
(* counter.go, histogram.go, rate.go).                                     *)
(*                                                                         *)
(* What is recorded are single records, kept in the value they are added   *)
(* to: a counter, a histogram, or the two counters of a rate.  A gauge is  *)
(* read and not reset; nothing is added up in it.  A collection resets the *)
(* values one after the other while callers go on recording, and puts them *)
(* into one map by the name of the metric: of two metrics that share a     *)
(* name, the callback sees the one that is collected last.  A registry has *)
(* one metric of each sort, with the name NameOf gives it.                 *)
(*                                                                         *)
(* defaultRegistry is read and written without a lock: callers that find   *)
(* none create one each, without a callback, and Init replaces it.  A      *)
(* handle stays with the registry it came from.                            *)
(***************************************************************************)
EXTENDS Integers, Sequences, FiniteSets

CONSTANTS
  Callers,       \* goroutines that record
  MaxRecords,    \* bound on what they record
  MaxRegistries, \* bound on the registries created
  MaxSampleSize, \* samples a histogram takes between two collections
  InUse,         \* the metrics the callers ask for
  NameOf         \* the name of each metric

ASSUME RegistryBounds ==
  MaxRecords \in Nat /\ MaxRegistries \in Nat /\ MaxSampleSize \in Nat

Records == 1 .. MaxRecords  \* in the order in which they are made

Registries == 1 .. MaxRegistries
NoRegistry == 0

\* The order of a collection: counters, gauges, histograms, rates; Reset of a
\* rate swaps success and then fail.
Order == <<"counter", "gauge", "histogram", "success", "fail">>
Kinds == {Order[i] : i \in DOMAIN Order}
Place(k) == CHOOSE i \in DOMAIN Order : Order[i] = k

MetricOf(k) == IF k \in {"success", "fail"} THEN "rate" ELSE k
Metrics == {MetricOf(k) : k \in Kinds}

ASSUME MetricsInUse == InUse \subseteq Metrics

\* The snapshot of metric m takes the place of that of a value of kind k.
Shadows(m, k) == m # MetricOf(k) /\ NameOf[m] = NameOf[MetricOf(k)]

VARIABLES
  defaultRegistry,
  made,       \* registries created so far
  onSnapshot, \* per registry: it has a callback
  stopCh,     \* per registry: stopCh is closed
  loop,       \* per registry: "none", "wait", "collect", "notify", "over"
  at,         \* per registry: the place in Order the collection has come to
  last,       \* per registry: the collection is the one after stopCh
  created,    \* per registry: the metrics it has
  values,     \* per registry and kind: the records it holds
  snapshot,   \* per registry: the records of the collection under way
  handle,     \* per caller: its registry, or where ensureRegistry stands
  admin,      \* where Init and Stop stand
  recordCount, \* records made
  reported,   \* records given to a callback
  kindOf,     \* history: the kind of each record made
  overwritten, \* history: records whose place in a snapshot was taken
  dropped,    \* history: samples of a full histogram
  tooLate,    \* history: records made after the last collection of their value
  panicked    \* a closed stopCh was closed again

aggregate == <<at, last, values, snapshot, overwritten>>  \* what collections work on
recording == <<created, recordCount, kindOf, dropped, tooLate>>  \* what callers change
metricsVars == <<defaultRegistry, made, onSnapshot, stopCh, loop, aggregate, recording, handle,
                 admin, reported, panicked>>

NoMetric == "none"
Idle == [at |-> "idle", of |-> NoRegistry, cb |-> FALSE]
Handle(a, r, m) == [at |-> a, of |-> r, metric |-> m]
Underway(a) == Handle(a, NoRegistry, NoMetric)

MetricsInit ==
  /\ defaultRegistry = NoRegistry
  /\ made = 0
  /\ onSnapshot = [r \in Registries |-> FALSE]
  /\ stopCh = [r \in Registries |-> FALSE]
  /\ loop = [r \in Registries |-> "none"]
  /\ at = [r \in Registries |-> 1]
  /\ last = [r \in Registries |-> FALSE]
  /\ created = [r \in Registries |-> {}]
  /\ values = [r \in Registries |-> [k \in Kinds |-> {}]]
  /\ snapshot = [r \in Registries |-> {}]
  /\ handle = [c \in Callers |-> Underway("none")]
  /\ admin = Idle
  /\ recordCount = 0
  /\ kindOf = [e \in Records |-> Order[1]]
  /\ reported = {} /\ dropped = {} /\ overwritten = {} /\ tooLate = {}
  /\ panicked = FALSE

\* newRegistry, with its goroutine, as defaultRegistry.
NewRegistry(cb) ==
  /\ made < MaxRegistries
  /\ made' = made + 1
  /\ onSnapshot' = [onSnapshot EXCEPT ![made + 1] = cb]
  /\ loop' = [loop EXCEPT ![made + 1] = "wait"]
  /\ defaultRegistry' = made + 1

-----------------------------------------------------------------------------
(* Callers: Counter, Histogram, Rate, and what their handles do.           *)

\* ensureRegistry looks at defaultRegistry.
EnsureRegistry(c) ==
  /\ handle[c].at \in {"none", "got"}
  /\ handle' = [handle EXCEPT ![c] = Underway(IF defaultRegistry = NoRegistry
                                              THEN "create" ELSE "return")]
  /\ UNCHANGED <<defaultRegistry, made, onSnapshot, stopCh, loop, aggregate, recording, admin,
                 reported, panicked>>

EnsureCreates(c) ==
  /\ handle[c].at = "create"
  /\ NewRegistry(FALSE)
  /\ handle' = [handle EXCEPT ![c] = Underway("return")]
  /\ UNCHANGED <<stopCh, aggregate, recording, admin, reported, panicked>>

\* It reads defaultRegistry again to return it, and GetOrCreate finds the
\* metric there or stores a new one.
EnsureReturns(c, m) ==
  /\ handle[c].at = "return"
  /\ handle' = [handle EXCEPT ![c] = Handle("got", defaultRegistry, m)]
  /\ created' = [created EXCEPT ![defaultRegistry] = @ \cup {m}]
  /\ UNCHANGED <<defaultRegistry, made, onSnapshot, stopCh, loop, aggregate, recordCount, kindOf,
                 dropped, tooLate, admin, reported, panicked>>

Recorded == reported \cup dropped \cup overwritten
              \cup (UNION {snapshot[r] : r \in Registries})
              \cup (UNION {values[r][k] : r \in Registries, k \in Kinds})

\* The registry will not collect the value of kind k any more.
Collected(r, k) ==
  \/ loop[r] = "over"
  \/ last[r] /\ (loop[r] = "notify" \/ at[r] > Place(k))

\* Inc, Add, RecordSuccess, RecordFail; Observe, which drops the sample when
\* the histogram is full.
Record(c, e, k) ==
  LET r == handle[c].of
      full == k = "histogram" /\ Cardinality(values[r][k]) >= MaxSampleSize
  IN  /\ handle[c].at = "got" /\ handle[c].metric = MetricOf(k) /\ k # "gauge"
      /\ e = recordCount + 1
      /\ recordCount' = e
      /\ kindOf' = [kindOf EXCEPT ![e] = k]
      /\ values' = IF full THEN values ELSE [values EXCEPT ![r][k] = @ \cup {e}]
      /\ dropped' = IF full THEN dropped \cup {e} ELSE dropped
      /\ tooLate' = IF Collected(r, k) THEN tooLate \cup {e} ELSE tooLate
      /\ UNCHANGED <<defaultRegistry, made, onSnapshot, stopCh, loop, at, last, snapshot,
                     overwritten, created, handle, admin, reported, panicked>>

-----------------------------------------------------------------------------
(* The goroutine of a registry.                                            *)

\* collectAndNotify: without a callback it returns at once.
CollectBegins(r, isLast) ==
  /\ loop' = [loop EXCEPT ![r] = IF onSnapshot[r] THEN "collect"
                                 ELSE IF isLast THEN "over" ELSE "wait"]
  /\ last' = [last EXCEPT ![r] = isLast]
  /\ UNCHANGED <<defaultRegistry, made, onSnapshot, stopCh, at, values, snapshot, overwritten,
                 recording, handle, admin, reported, panicked>>

\* A tick; one for a registry without a callback changes nothing.
AggregateTick(r) ==
  /\ loop[r] = "wait"
  /\ onSnapshot[r]
  /\ CollectBegins(r, FALSE)

\* Fault: the goroutine ends without a last collection.
AggregateQuits(r) ==
  /\ loop[r] = "wait"
  /\ stopCh[r]
  /\ loop' = [loop EXCEPT ![r] = "over"]
  /\ UNCHANGED <<defaultRegistry, made, onSnapshot, stopCh, aggregate, recording, handle, admin,
                 reported, panicked>>

\* stopCh is closed: one more collection.
AggregateStops(r) ==
  /\ loop[r] = "wait"
  /\ stopCh[r]
  /\ CollectBegins(r, TRUE)

\* The records of a snapshot that the snapshot of metric m takes the place of.
Overwrites(r, m) == {e \in snapshot[r] : m \in created[r] /\ Shadows(m, kindOf[e])}

\* Reset of the next kind of value: what it holds goes into the snapshot,
\* under the name of its metric.
Reset(r) ==
  LET k == Order[at[r]]
      gone == Overwrites(r, MetricOf(k))
  IN  /\ loop[r] = "collect"
      /\ snapshot' = [snapshot EXCEPT ![r] = (@ \ gone) \cup values[r][k]]
      /\ overwritten' = overwritten \cup gone
      /\ values' = [values EXCEPT ![r][k] = {}]
      /\ IF at[r] < Len(Order)
         THEN at' = [at EXCEPT ![r] = @ + 1] /\ UNCHANGED loop
         ELSE at' = [at EXCEPT ![r] = 1] /\ loop' = [loop EXCEPT ![r] = "notify"]
      /\ UNCHANGED <<defaultRegistry, made, onSnapshot, stopCh, last, recording, handle, admin,
                     reported, panicked>>

\* The callback runs in the goroutine.
Notify(r) ==
  /\ loop[r] = "notify"
  /\ reported' = reported \cup snapshot[r]
  /\ snapshot' = [snapshot EXCEPT ![r] = {}]
  /\ loop' = [loop EXCEPT ![r] = IF last[r] THEN "over" ELSE "wait"]
  /\ UNCHANGED <<defaultRegistry, made, onSnapshot, stopCh, at, last, values, overwritten,
                 recording, handle, admin, panicked>>

-----------------------------------------------------------------------------
(* Init and Stop of the package, called by one goroutine.                  *)

\* Registry.Stop of the registry that is there, to be waited for; a second
\* Stop closes a closed channel.  Afterwards Init makes the new one.
StopDefault(next, cb) ==
  /\ admin.at = "idle"
  /\ defaultRegistry # NoRegistry
  /\ stopCh' = [stopCh EXCEPT ![defaultRegistry] = TRUE]
  /\ panicked' = stopCh[defaultRegistry]
  /\ admin' = [at |-> next, of |-> defaultRegistry, cb |-> cb]
  /\ UNCHANGED <<defaultRegistry, made, onSnapshot, loop, aggregate, recording, handle, reported>>

StopAll == StopDefault("stop", FALSE)
InitAgain(cb) == made < MaxRegistries /\ StopDefault("init", cb)

InitFirst(cb) ==
  /\ admin.at = "idle"
  /\ defaultRegistry = NoRegistry
  /\ NewRegistry(cb)
  /\ UNCHANGED <<stopCh, aggregate, recording, handle, admin, reported, panicked>>

\* The goroutine of the old registry is over: Stop returns.
StopReturns ==
  /\ admin.at = "stop"
  /\ loop[admin.of] = "over"
  /\ admin' = Idle
  /\ UNCHANGED <<defaultRegistry, made, onSnapshot, stopCh, loop, aggregate, recording, handle,
                 reported, panicked>>

InitReplaces ==
  /\ admin.at = "init"
  /\ loop[admin.of] = "over"
  /\ NewRegistry(admin.cb)
  /\ admin' = Idle
  /\ UNCHANGED <<stopCh, aggregate, recording, handle, reported, panicked>>

MetricsNext ==
  /\ ~panicked
  /\ \/ \E c \in Callers : \/ EnsureRegistry(c) \/ EnsureCreates(c)
                           \/ \E m \in InUse : EnsureReturns(c, m)
                           \/ \E e \in Records, k \in Kinds : Record(c, e, k)
     \/ \E r \in Registries : AggregateTick(r) \/ AggregateStops(r) \/ Reset(r) \/ Notify(r)
     \/ \E cb \in BOOLEAN : InitFirst(cb) \/ InitAgain(cb)
     \/ StopAll \/ StopReturns \/ InitReplaces

MetricsSpec == MetricsInit /\ [][MetricsNext]_metricsVars

-----------------------------------------------------------------------------
(* Properties.                                                             *)

\* A record is in one place only, so that no callback is told of it twice,
\* and none is lost from sight: each that was made is still held, reported,
\* dropped by a full histogram, or overwritten in its snapshot, and this only
\* by another metric of the same name (registry.go:105).  When the goroutine
\* of a registry with a callback is over, all that it still holds was
\* recorded too late for the collection of Stop ("flush the last batch",
\* registry.go:37).
RecordsAccounted ==
  /\ Recorded = 1 .. recordCount
  /\ \A r \in Registries, k \in Kinds :
       /\ values[r][k] \cap (reported \cup (UNION {snapshot[q] : q \in Registries})) = {}
       /\ onSnapshot[r] /\ loop[r] = "over" => values[r][k] \subseteq tooLate
  /\ \A r \in Registries : snapshot[r] \cap reported = {}
  /\ \A e \in overwritten : \E r \in Registries : \E m \in created[r] : Shadows(m, kindOf[e])

=============================================================================
