----------------------------- MODULE KVProvider -----------------------------
(***************************************************************************)
(* The configuration provider of the alert engine:                         *)
(* pkg/alert/provider/provider.go.  Readers ask it whether alerts are      *)
(* switched on; it caches what it reads from a KV store.                   *)
(*                                                                         *)
(* The lock is not held while the store is read, and the age of the cached *)
(* value is counted from the arrival of the answer: a value may be older   *)
(* than the cache says, and may replace a newer one or fill a cache that   *)
(* was invalidated meanwhile.                                              *)
(***************************************************************************)
EXTENDS Integers, FiniteSetsExt

CONSTANTS
  Readers,   \* goroutines that call GetNotifierConfig
  CacheTTL,  \* time a cached configuration is used
  MaxRead    \* bound on the time the KV store takes to answer

ASSUME ProviderBounds == CacheTTL \in Nat \ {0} /\ MaxRead \in Nat

VARIABLES
  kv,        \* the configuration in the store: "on" or "off"
  offFor,    \* time for which it has been off, capped
  cache,     \* the cached configuration and its age, or NoConfig
  reads,     \* per reader: the value read and its age, or NoConfig
  fallback,  \* "on", "off" or "none"
  answers    \* per reader: what GetNotifierConfig returned last, and whether it
             \* had that from the store or the cache

providerVars == <<kv, offFor, cache, reads, fallback, answers>>

NoConfig == [cfg |-> "none", age |-> 0]
OutOfSight == CacheTTL + MaxRead

ProviderInit ==
  /\ kv \in {"on", "off"} /\ offFor = 0
  /\ cache = NoConfig
  /\ reads = [x \in Readers |-> NoConfig]
  /\ fallback \in {"on", "off", "none"}
  /\ answers = [x \in Readers |-> [cfg |-> "none", known |-> FALSE]]

\* Fault: a cached configuration does not age.
FreshForever == cache # NoConfig

\* The cached configuration may be used.
Fresh == cache # NoConfig /\ cache.age < CacheTTL

Answer(x, cfg, known) == answers' = [answers EXCEPT ![x] = [cfg |-> cfg, known |-> known]]

GetCached(x) ==
  /\ reads[x] = NoConfig
  /\ Fresh
  /\ Answer(x, cache.cfg, TRUE)
  /\ UNCHANGED <<kv, offFor, cache, reads, fallback>>

\* The cache is empty or old: the store is read.
GetReads(x) ==
  /\ reads[x] = NoConfig
  /\ ~Fresh
  /\ reads' = [reads EXCEPT ![x] = [cfg |-> kv, age |-> 0]]
  /\ UNCHANGED <<kv, offFor, cache, fallback, answers>>

\* The answer of the store is cached and returned.
GetStores(x) ==
  /\ reads[x] # NoConfig
  /\ cache' = [cfg |-> reads[x].cfg, age |-> 0]
  /\ reads' = [reads EXCEPT ![x] = NoConfig]
  /\ Answer(x, reads[x].cfg, TRUE)
  /\ UNCHANGED <<kv, offFor, fallback>>

\* The read fails or its value cannot be parsed: the fallback or an error, and
\* the cache stays as it is.
GetFails(x) ==
  /\ reads[x] # NoConfig
  /\ reads' = [reads EXCEPT ![x] = NoConfig]
  /\ Answer(x, fallback, FALSE)
  /\ UNCHANGED <<kv, offFor, cache, fallback>>

InvalidateCache ==
  /\ cache # NoConfig
  /\ cache' = NoConfig
  /\ UNCHANGED <<kv, offFor, reads, fallback, answers>>

\* Operators switch alerts on or off in the store.
SwitchAlerts ==
  /\ kv' = IF kv = "on" THEN "off" ELSE "on"
  /\ offFor' = 0
  /\ UNCHANGED <<cache, reads, fallback, answers>>

\* Time passes; an answer counts at the moment it is given.
ConfigAges ==
  /\ \A x \in Readers : reads[x] # NoConfig => reads[x].age < MaxRead
  /\ offFor' = IF kv = "off" THEN Min({offFor + 1, OutOfSight}) ELSE 0
  /\ cache' = IF cache = NoConfig THEN cache ELSE [cache EXCEPT !.age = Min({@ + 1, CacheTTL})]
  /\ reads' = [x \in Readers |-> IF reads[x] = NoConfig THEN NoConfig
                                 ELSE [reads[x] EXCEPT !.age = @ + 1]]
  /\ answers' = [x \in Readers |-> [cfg |-> "none", known |-> FALSE]]
  /\ UNCHANGED <<kv, fallback>>

ProviderNext ==
  \/ \E x \in Readers : GetCached(x) \/ GetReads(x) \/ GetStores(x) \/ GetFails(x)
  \/ InvalidateCache \/ SwitchAlerts \/ ConfigAges

ProviderSpec == ProviderInit /\ [][ProviderNext]_providerVars

-----------------------------------------------------------------------------
(* Properties.                                                             *)

\* A configuration that has been off for as long as a cached value is used
\* and a read may take is no longer answered with "on" (GetNotifierConfig),
\* unless the store could not be read.  Late answers, several readers and an
\* invalidated cache do not add up to more.
SilencedWithinTTL ==
  \A x \in Readers : answers[x] = [cfg |-> "on", known |-> TRUE] => offFor < OutOfSight

=============================================================================
