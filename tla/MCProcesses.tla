---------------------------- MODULE MCProcesses ----------------------------
(* Parts of a process that share no state, checked side by side with what   *)
(* they owe in the end: the goroutine pool, the worker pools, the alert     *)
(* engine, and Start and Stop of the scheduler client.  A behaviour belongs *)
(* to one of them; the others stay in their initial state.                  *)
EXTENDS GoPool, WorkerPool, MCAlertEngine, ClientLifecycle
CONSTANTS c1, c2

VARIABLE part
processVars == <<part, goVars, poolVars, alertVars, vars>>

ProcessesInit ==
  /\ part \in {"gopool", "worker_pool", "alert", "client"}
  /\ GoInit /\ PoolInit /\ AlertInit /\ Init
  /\ part # "gopool" => cap = CHOOSE n \in Caps : TRUE
  /\ part # "worker_pool" => style = "channel" /\ maxWorkers = CHOOSE n \in PoolSizes : TRUE
  /\ part # "alert" => config = "on" /\ rules = CHOOSE list \in RuleLists : TRUE

GoPart == part = "gopool" /\ GoNext /\ UNCHANGED <<part, poolVars, alertVars, vars>>
PoolPart == part = "worker_pool" /\ PoolNext /\ UNCHANGED <<part, goVars, alertVars, vars>>
AlertPart == part = "alert" /\ AlertNext /\ UNCHANGED <<part, goVars, poolVars, vars>>
ClientPart == part = "client" /\ Next /\ UNCHANGED <<part, goVars, poolVars, alertVars>>

ProcessesNext == GoPart \/ PoolPart \/ AlertPart \/ ClientPart

\* The fairness of the four, each in the behaviours that are its own.
ProcessesFairness ==
  /\ WF_goVars(part = "gopool" /\ GoProgress)
  /\ WF_poolVars(part = "worker_pool" /\ PoolProgress)
  /\ WF_alertVars(part = "alert" /\ EngineStep)
  /\ \A c \in Callers : WF_vars(part = "client" /\ ~panicked /\ Proceed(c))
  /\ \A g \in Dials :
       /\ WF_vars(part = "client" /\ ~panicked /\ LoopStep(g))
       /\ WF_vars(part = "client" /\ ~panicked /\ loop[g].ctx \in canceled /\ SessionEnds(g))
       /\ WF_vars(part = "client" /\ ~panicked /\ RetrySelect(g))
       /\ SF_vars(part = "client" /\ ~panicked /\ RetryLeaves(g))
  /\ WF_vars(part = "client" /\ ~panicked /\ HandlerEnds)

ProcessesSpec == ProcessesInit /\ [][ProcessesNext]_processVars /\ ProcessesFairness
=============================================================================
