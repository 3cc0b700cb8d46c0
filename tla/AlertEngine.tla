---------------------------- MODULE AlertEngine ----------------------------
(***************************************************************************)
(* The alert engine of pkg/alert/engine.go.                                *)
(*                                                                         *)
(* Evaluate is called with the snapshot of every aggregation cycle and     *)
(* goes through the rules in order.  A rule that triggers is looked up in  *)
(* the cooldowns, which are kept by metric, and then in the configuration  *)
(* (module KVProvider); only then the alert is sent.                       *)
(*                                                                         *)
(* The unit of time is the aggregation interval.  A snapshot of a metric   *)
(* is a level (its value, P99 or rate) and whether it has too few samples. *)
(***************************************************************************)
EXTENDS Integers, Sequences, FiniteSetsExt

CONSTANTS
  Metrics,     \* names of metrics
  MetricType,  \* per metric: "counter", "gauge", "histogram" or "rate"
  Levels,      \* the values a metric takes
  RuleLists,   \* the lists of rules that UpdateRules may install
  Absent       \* the metric is not in the snapshot

Rules == UNION {{list[i] : i \in DOMAIN list} : list \in RuleLists}

\* Larger values of a cooldown or a count make no difference.
Cooled == Max({r.cooldown : r \in Rules} \cup {1})
CountCap == Max({r.n : r \in Rules} \cup {1})

ASSUME EngineBounds ==
  /\ RuleLists # {}
  /\ \A r \in Rules :
       /\ r.metric \in Metrics
       /\ r.type \in {"immediate", "threshold", "rate", "surge", "consecutive"}
       /\ r.cooldown \in Nat /\ r.n \in Nat

VARIABLES
  rules,        \* the rules of the engine
  todo,         \* the rules the evaluation still has to look at
  engine,       \* "idle", "check", "config" or "send"
  snap,         \* the snapshot under evaluation
  cooldowns,    \* per metric: `now` minus the time of its last alert, capped
  prevValues,   \* per metric: the level of the cycle before
  consecutive,  \* per metric: the count of checkConsecutive
  config,       \* what GetNotifierConfig tells: "on" or "off"
  streak,       \* history, per consecutive rule: cycles in a row its condition held,
                \* capped
  raised        \* history: consecutive rules that triggered in their streak

alertVars == <<rules, todo, engine, snap, cooldowns, prevValues, consecutive, config,
               streak, raised>>

AlertInit ==
  /\ rules \in RuleLists
  /\ todo = << >>
  /\ engine = "idle"
  /\ snap = [m \in Metrics |-> Absent]
  /\ cooldowns = [m \in Metrics |-> Cooled]
  /\ prevValues = [m \in Metrics |-> 0]
  /\ consecutive = [m \in Metrics |-> 0]
  /\ config \in {"on", "off"}
  /\ streak = [r \in Rules |-> 0]
  /\ raised = {}

-----------------------------------------------------------------------------
(* The checks.                                                             *)

checkThreshold(r, s) == s.level > r.threshold

checkImmediate(r, s) == MetricType[r.metric] \in {"counter", "gauge"} /\ s.level > 0

checkRate(r, s) == MetricType[r.metric] = "rate" /\ ~s.few /\ s.level > r.threshold

\* The change in percent; from zero it counts as a hundred.
checkSurge(r, s) ==
  LET prev == prevValues[r.metric]
      change == IF s.level > prev THEN s.level - prev ELSE prev - s.level
  IN  /\ MetricType[r.metric] \in {"counter", "gauge"}
      /\ prev # 0 \/ s.level # 0
      /\ IF prev = 0 THEN 100 > r.threshold ELSE change * 100 > r.threshold * prev

\* What a rule of type consecutive asks of a cycle.
Condition(r, s) == checkThreshold(r, s) \/ checkImmediate(r, s)

\* The count with this cycle.
Counted(r, s) == IF Condition(r, s) THEN consecutive[r.metric] + 1 ELSE 0

checkRule(r, s) ==
  CASE r.type = "immediate" -> checkImmediate(r, s)
    [] r.type = "threshold" -> checkThreshold(r, s)
    [] r.type = "rate" -> checkRate(r, s)
    [] r.type = "surge" -> checkSurge(r, s)
    [] r.type = "consecutive" -> Condition(r, s) /\ Counted(r, s) >= r.n

-----------------------------------------------------------------------------
(* Evaluate.                                                               *)

UpdateRules(list) ==
  /\ rules # list
  /\ rules' = list
  /\ UNCHANGED <<todo, engine, snap, cooldowns, prevValues, consecutive, config, streak, raised>>

\* The aggregation calls Evaluate, which copies the rules.
Evaluate(s) ==
  /\ engine = "idle"
  /\ engine' = "check"
  /\ snap' = s
  /\ todo' = rules
  /\ cooldowns' = [m \in Metrics |-> Min({cooldowns[m] + 1, Cooled})]
  /\ UNCHANGED <<rules, prevValues, consecutive, config, streak, raised>>

NextRule == engine' = "check" /\ todo' = Tail(todo)

\* Fault: an alert that is held back begins the cooldown anew.
HandleTriggeredExtending(r) ==
  IF cooldowns[r.metric] >= r.cooldown
  THEN engine' = "config" /\ UNCHANGED <<todo, cooldowns>>
  ELSE NextRule /\ cooldowns' = [cooldowns EXCEPT ![r.metric] = 0]

\* The first lines of handleTriggered: the cooldown of the metric against the
\* period of the rule.
HandleTriggered(r) ==
  /\ IF cooldowns[r.metric] >= r.cooldown THEN engine' = "config" /\ UNCHANGED todo
                                          ELSE NextRule
  /\ UNCHANGED cooldowns

\* One rule: the check, handleTriggered or the reset of the count of a
\* consecutive rule, and savePrevValues.
CheckRule ==
  /\ engine = "check"
  /\ todo # << >>
  /\ LET r == Head(todo)
         s == snap[r.metric]
         triggered == checkRule(r, s)
     IN  IF s = Absent
         THEN NextRule /\ UNCHANGED <<cooldowns, prevValues, consecutive, streak, raised>>
         ELSE /\ IF r.type = "consecutive"
                 THEN /\ consecutive' = [consecutive EXCEPT ![r.metric] =
                                           IF triggered THEN Min({Counted(r, s), CountCap}) ELSE 0]
                      /\ streak' = [streak EXCEPT ![r] =
                                      IF Condition(r, s) THEN Min({@ + 1, r.n}) ELSE 0]
                      /\ raised' = IF triggered THEN raised \cup {r}
                                   ELSE IF Condition(r, s) THEN raised ELSE raised \ {r}
                 ELSE UNCHANGED <<consecutive, streak, raised>>
              /\ prevValues' = IF MetricType[r.metric] \in {"counter", "gauge"}
                               THEN [prevValues EXCEPT ![r.metric] = s.level] ELSE prevValues
              /\ IF triggered THEN HandleTriggered(r) ELSE NextRule /\ UNCHANGED cooldowns
  /\ UNCHANGED <<rules, snap, config>>

EvaluateEnds ==
  /\ engine = "check"
  /\ todo = << >>
  /\ engine' = "idle"
  /\ UNCHANGED <<rules, todo, snap, cooldowns, prevValues, consecutive, config, streak, raised>>

\* An alert that is switched off leaves no trace; an error of the provider, or
\* none, counts as "on".
GetConfig ==
  /\ engine = "config"
  /\ IF config = "off" THEN NextRule ELSE engine' = "send" /\ UNCHANGED todo
  /\ UNCHANGED <<rules, snap, cooldowns, prevValues, consecutive, config, streak, raised>>

\* The cooldown begins, then the notifiers are called and the alert is saved;
\* what comes of that is only logged.
SendAlert ==
  /\ engine = "send"
  /\ cooldowns' = [cooldowns EXCEPT ![Head(todo).metric] = 0]
  /\ NextRule
  /\ UNCHANGED <<rules, snap, prevValues, consecutive, config, streak, raised>>

\* Operators switch alerts off or on, as GetNotifierConfig tells the engine.
SwitchConfig ==
  /\ config' = IF config = "on" THEN "off" ELSE "on"
  /\ UNCHANGED <<rules, todo, engine, snap, cooldowns, prevValues, consecutive, streak, raised>>

Snapshots ==
  {s \in [Metrics -> {Absent} \cup [level : Levels, few : BOOLEAN]] :
     \A m \in Metrics : s[m] # Absent /\ s[m].few => MetricType[m] = "rate"}

EngineStep == \/ (\E s \in Snapshots : Evaluate(s)) \/ CheckRule \/ EvaluateEnds
              \/ GetConfig \/ SendAlert

AlertNext == EngineStep \/ SwitchConfig \/ \E list \in RuleLists : UpdateRules(list)

-----------------------------------------------------------------------------
(* Properties.                                                             *)

\* The last cycle meets rule r, which needs no history.
Breaches(r) ==
  /\ \E i \in DOMAIN rules : rules[i] = r
  /\ snap[r.metric] # Absent
  /\ \/ r.type # "surge" /\ r.type # "consecutive" /\ checkRule(r, snap[r.metric])
     \/ r.type = "consecutive" /\ r.n <= 1 /\ Condition(r, snap[r.metric])

\* A breach that lasts is not silenced for ever: alerts on its metric go out
\* again and again, by the rule or by another on the same metric, as long as
\* the configuration does not switch them off.
StandingBreachNotified ==
  \A r \in Rules :
    <>[](Breaches(r) /\ config = "on")
      => []<>(engine = "send" /\ Head(todo).metric = r.metric)

\* "N cycles in a row meet the condition" (rule.go:14, engine.go:237): then
\* the rule triggers.
ConsecutiveTriggers ==
  \A r \in Rules : r.type = "consecutive" /\ r.n > 0 /\ streak[r] >= r.n => r \in raised

=============================================================================
