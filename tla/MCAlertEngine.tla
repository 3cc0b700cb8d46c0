--------------------------- MODULE MCAlertEngine ---------------------------
(* Instances of AlertEngine for TLC.  Errors are counted, and the failures  *)
(* of calls are a rate.  Rules share the metric of the errors, with periods *)
(* of their own, and are exchanged for others; or there is only a rule for  *)
(* two cycles in a row.                                                     *)
EXTENDS AlertEngine

Rule(m, t, n, c) ==
  [metric |-> m, type |-> t, n |-> n, cooldown |-> c, threshold |-> IF t = "surge" THEN 50 ELSE 0]

MCMetricType == [errors |-> "counter", calls |-> "rate"]
MCRuleLists ==
  {<<Rule("errors", "threshold", 0, 2), Rule("errors", "immediate", 0, 1)>>,
   <<Rule("errors", "surge", 0, 1), Rule("errors", "consecutive", 1, 3),
     Rule("calls", "rate", 0, 2)>>}
MCTwiceInARow == {<<Rule("errors", "consecutive", 2, 1)>>}

AlertSpec == AlertInit /\ [][AlertNext]_alertVars
=============================================================================
