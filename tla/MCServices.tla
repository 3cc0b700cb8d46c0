----------------------------- MODULE MCServices -----------------------------
(* Components that share no state with each other, checked side by side:    *)
(* the traffic counters, the unique timers, the timer loop, the Redis lock, *)
(* the heartbeat, the metrics and the configuration of the alerts.  A       *)
(* behaviour belongs to one of them; the others stay in their initial       *)
(* state.  The metrics are a counter and a histogram of one name.           *)
EXTENDS Traffic, UniqueTimer, TimerLoop, RedisLock, Health, MetricsRegistry,
        KVProvider, TLC

VARIABLE service
serviceVars == <<service, trafficVars, uniqueVars, loopVars, lockVars, healthVars,
                 metricsVars, providerVars>>

MCNameOf == [m \in Metrics |-> "x"]

ServicesInit ==
  /\ service \in {"traffic", "unique", "timer", "lock", "health", "metrics", "provider"}
  /\ TrafficInit /\ UniqueInit /\ LoopInit /\ LockInit /\ HealthInit
  /\ MetricsInit /\ ProviderInit
  /\ service # "provider" => kv = "on" /\ fallback = "on"

TrafficPart ==
  /\ service = "traffic" /\ TrafficNext
  /\ UNCHANGED <<service, uniqueVars, loopVars, lockVars, healthVars, metricsVars, providerVars>>
UniquePart ==
  /\ service = "unique" /\ UniqueNext
  /\ UNCHANGED <<service, trafficVars, loopVars, lockVars, healthVars, metricsVars, providerVars>>
LoopPart ==
  /\ service = "timer" /\ LoopNext
  /\ UNCHANGED <<service, trafficVars, uniqueVars, lockVars, healthVars, metricsVars, providerVars>>
LockPart ==
  /\ service = "lock" /\ LockNext
  /\ UNCHANGED <<service, trafficVars, uniqueVars, loopVars, healthVars, metricsVars, providerVars>>
HealthPart ==
  /\ service = "health" /\ HealthNext
  /\ UNCHANGED <<service, trafficVars, uniqueVars, loopVars, lockVars, metricsVars, providerVars>>
MetricsPart ==
  /\ service = "metrics" /\ MetricsNext
  /\ UNCHANGED <<service, trafficVars, uniqueVars, loopVars, lockVars, healthVars, providerVars>>
ProviderPart ==
  /\ service = "provider" /\ ProviderNext
  /\ UNCHANGED <<service, trafficVars, uniqueVars, loopVars, lockVars, healthVars, metricsVars>>

ServicesNext == \/ TrafficPart \/ UniquePart \/ LoopPart \/ LockPart
                \/ HealthPart \/ MetricsPart \/ ProviderPart

ServicesSpec == ServicesInit /\ [][ServicesNext]_serviceVars

\* In an instance Nodes and Callers are the same names, which saves a symmetry.
MCSymmetry == Permutations(Nodes)
=============================================================================
