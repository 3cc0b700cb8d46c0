-------------------------- MODULE ClientLifecycle --------------------------
(***************************************************************************)
(* Start and Stop of the scheduler SDK's Client (pkg/scheduler/client.go)  *)
(* with the goroutines they start and end: runStreamLoop (stream.go), the  *)
(* retry loop runBufferRetryLoop (submit_buffer.go) and the handlers that  *)
(* inflightWG counts (executor.go).  What the loops do in a session or a   *)
(* round is in StreamSession and SubmitPath; here a session and a round    *)
(* are one state each.                                                     *)
(*                                                                         *)
(* startedMu guards the flag and nothing else.  The other fields are       *)
(* written by Start and read by Stop and by the loops without a lock, and  *)
(* the loops read c.rootCtx anew in every round: every access is a step.   *)
(*                                                                         *)
(* A successful dial has a number.  The connection, context and channel it *)
(* leads to, and the two loops, go by that number; 0 is nil.  Calls that   *)
(* return at once (Start of a started client, Stop of one that is not)     *)
(* change nothing and are not steps.                                       *)
(***************************************************************************)
EXTENDS Integers

CONSTANTS
  Callers,      \* goroutines of the application that call Start and Stop
  MaxDials,     \* bound on the successful dials
  MaxHandlers,  \* bound on the handlers under way
  LocalBuffer   \* Config.LocalBufferEnabled

ASSUME DialsAssumption == MaxDials \in Nat
ASSUME HandlersAssumption == MaxHandlers \in Nat
ASSUME BufferAssumption == LocalBuffer \in BOOLEAN

VARIABLES
  pc,           \* where the call of each caller stands
  mine,         \* the dial of its Start, or the channel its Stop waits for
  started,      \* Client.started
  conn,         \* Client.conn and the stubs made of it
  rootCtx,      \* Client.rootCtx and rootCancel
  streamDone,   \* Client.streamDone
  dials,        \* the number of the last successful dial
  open,         \* the connections that are open
  canceled,     \* the contexts that are cancelled
  closed,       \* the channels that are closed
  loop,         \* the stream loops: place, context in use, channel to close
  retry,        \* the retry loops: place, context in use
  inflight,     \* what inflightWG counts
  panicked,     \* a channel was closed twice: the process is gone
  tangled,      \* a Start or Stop began while another one was under way
  expired       \* a Stop went on because its context was done

calls  == <<pc, mine, started>>
fields == <<conn, rootCtx, streamDone>>
world  == <<dials, open, canceled, closed>>
ghost  == <<tangled, expired>>
vars   == <<calls, fields, world, loop, retry, inflight, panicked, ghost>>

Dials == 1..MaxDials
Starting == {"dial", "conn", "ctx", "go"}
Stopping == {"cancel", "select", "wait", "handlers", "close"}

TypeOK ==
  /\ pc \in [Callers -> {"idle"} \cup Starting \cup Stopping]
  /\ mine \in [Callers -> 0..MaxDials]
  /\ started \in BOOLEAN
  /\ conn \in 0..MaxDials
  /\ rootCtx \in 0..MaxDials
  /\ streamDone \in 0..MaxDials
  /\ dials \in 0..MaxDials
  /\ open \in SUBSET Dials
  /\ canceled \in SUBSET Dials
  /\ closed \in SUBSET Dials
  /\ loop \in [Dials -> [at : {"none", "new", "top", "session", "ended", "backoff", "gone"},
                         ctx : 0..MaxDials, done : 0..MaxDials]]
  /\ retry \in [Dials -> [at : {"none", "flush", "select", "gone"},
                          ctx : 0..MaxDials]]
  /\ inflight \in 0..MaxHandlers
  /\ panicked \in BOOLEAN
  /\ tangled \in BOOLEAN
  /\ expired \in BOOLEAN

\* New.
Init ==
  /\ pc = [c \in Callers |-> "idle"]
  /\ mine = [c \in Callers |-> 0]
  /\ started = FALSE
  /\ conn = 0
  /\ rootCtx = 0
  /\ streamDone = 0
  /\ dials = 0
  /\ open = {}
  /\ canceled = {}
  /\ closed = {}
  /\ loop = [g \in Dials |-> [at |-> "none", ctx |-> 0, done |-> 0]]
  /\ retry = [g \in Dials |-> [at |-> "none", ctx |-> 0]]
  /\ inflight = 0
  /\ panicked = FALSE
  /\ tangled = FALSE
  /\ expired = FALSE

Idle == \A c \in Callers : pc[c] = "idle"

-----------------------------------------------------------------------------
(* Start.                                                                  *)

\* The test and set of started.
Start(c) ==
  /\ pc[c] = "idle"
  /\ ~started
  /\ dials < MaxDials
  /\ started' = TRUE
  /\ pc' = [pc EXCEPT ![c] = "dial"]
  /\ tangled' = (tangled \/ ~Idle)
  /\ UNCHANGED <<mine, fields, world, loop, retry, inflight, panicked, expired>>

\* grpc.DialContext returns a connection.
Dialed(c) ==
  /\ pc[c] = "dial"
  /\ dials < MaxDials
  /\ dials' = dials + 1
  /\ open' = open \cup {dials'}
  /\ mine' = [mine EXCEPT ![c] = dials']
  /\ pc' = [pc EXCEPT ![c] = "conn"]
  /\ UNCHANGED <<started, fields, canceled, closed, loop, retry, inflight,
                 panicked, ghost>>

\* Fault: the flag is not taken back.
DialFailsStarted(c) ==
  /\ pc[c] = "dial"
  /\ pc' = [pc EXCEPT ![c] = "idle"]
  /\ UNCHANGED <<mine, started, fields, world, loop, retry, inflight, panicked, ghost>>

\* It returns an error; the flag is taken back, whoever has set it by now.
DialFails(c) ==
  /\ pc[c] = "dial"
  /\ started' = FALSE
  /\ pc' = [pc EXCEPT ![c] = "idle"]
  /\ UNCHANGED <<mine, fields, world, loop, retry, inflight, panicked, ghost>>

\* c.conn, c.workerCli, c.schedCli.
SetConn(c) ==
  /\ pc[c] = "conn"
  /\ conn' = mine[c]
  /\ pc' = [pc EXCEPT ![c] = "ctx"]
  /\ UNCHANGED <<mine, started, rootCtx, streamDone, world, loop, retry,
                 inflight, panicked, ghost>>

\* c.rootCtx, c.rootCancel.
SetRootCtx(c) ==
  /\ pc[c] = "ctx"
  /\ rootCtx' = mine[c]
  /\ pc' = [pc EXCEPT ![c] = "go"]
  /\ UNCHANGED <<mine, started, conn, streamDone, world, loop, retry,
                 inflight, panicked, ghost>>

\* c.streamDone and the two go statements.
Launch(c) ==
  /\ pc[c] = "go"
  /\ streamDone' = mine[c]
  /\ loop' = [loop EXCEPT ![mine[c]].at = "new"]
  /\ retry' = IF LocalBuffer THEN [retry EXCEPT ![mine[c]].at = "flush"] ELSE retry
  /\ pc' = [pc EXCEPT ![c] = "idle"]
  /\ mine' = [mine EXCEPT ![c] = 0]
  /\ UNCHANGED <<started, conn, rootCtx, world, inflight, panicked, ghost>>

-----------------------------------------------------------------------------
(* Stop.                                                                   *)

\* The test and reset of started.
Stop(c) ==
  /\ pc[c] = "idle"
  /\ started
  /\ started' = FALSE
  /\ pc' = [pc EXCEPT ![c] = "cancel"]
  /\ tangled' = (tangled \/ ~Idle)
  /\ UNCHANGED <<mine, fields, world, loop, retry, inflight, panicked, expired>>

\* c.rootCancel(), unless it is nil.
CancelRoot(c) ==
  /\ pc[c] = "cancel"
  /\ canceled' = canceled \cup ({rootCtx} \ {0})
  /\ pc' = [pc EXCEPT ![c] = "select"]
  /\ UNCHANGED <<mine, started, fields, dials, open, closed, loop, retry,
                 inflight, panicked, ghost>>

\* The select reads c.streamDone once; it is left out for nil.
SelectStreamDone(c) ==
  /\ pc[c] = "select"
  /\ mine' = [mine EXCEPT ![c] = streamDone]
  /\ pc' = [pc EXCEPT ![c] = IF streamDone = 0 THEN "handlers" ELSE "wait"]
  /\ UNCHANGED <<started, fields, world, loop, retry, inflight, panicked, ghost>>

\* <-c.streamDone
StreamEnded(c) ==
  /\ pc[c] = "wait"
  /\ mine[c] \in closed
  /\ pc' = [pc EXCEPT ![c] = "handlers"]
  /\ mine' = [mine EXCEPT ![c] = 0]
  /\ UNCHANGED <<started, fields, world, loop, retry, inflight, panicked, ghost>>

\* Fault: the handlers are not waited for.
HandlersIgnored(c) ==
  /\ pc[c] = "handlers"
  /\ pc' = [pc EXCEPT ![c] = "close"]
  /\ UNCHANGED <<mine, started, fields, world, loop, retry, inflight, panicked, ghost>>

\* inflightWG.Wait() has returned.
HandlersEnded(c) ==
  /\ pc[c] = "handlers"
  /\ inflight = 0
  /\ pc' = [pc EXCEPT ![c] = "close"]
  /\ UNCHANGED <<mine, started, fields, world, loop, retry, inflight, panicked, ghost>>

\* Fault: Stop returns when its context is done.
ExpireReturns(c) ==
  /\ pc[c] \in {"wait", "handlers"}
  /\ pc' = [pc EXCEPT ![c] = "idle"]
  /\ expired' = TRUE
  /\ mine' = [mine EXCEPT ![c] = 0]
  /\ UNCHANGED <<started, fields, world, loop, retry, inflight, panicked, tangled>>

\* ctx.Done() of one of the two selects.
Expire(c) ==
  /\ pc[c] \in {"wait", "handlers"}
  /\ pc' = [pc EXCEPT ![c] = IF pc[c] = "wait" THEN "handlers" ELSE "close"]
  /\ expired' = TRUE
  /\ mine' = [mine EXCEPT ![c] = 0]
  /\ UNCHANGED <<started, fields, world, loop, retry, inflight, panicked, tangled>>

\* c.conn.Close(), unless it is nil.
CloseConn(c) ==
  /\ pc[c] = "close"
  /\ open' = open \ {conn}
  /\ pc' = [pc EXCEPT ![c] = "idle"]
  /\ UNCHANGED <<mine, started, fields, dials, canceled, closed, loop, retry,
                 inflight, panicked, ghost>>

-----------------------------------------------------------------------------
(* runStreamLoop.                                                          *)

\* defer close(c.streamDone): the channel is read here.
LoopBegins(g) ==
  /\ loop[g].at = "new"
  /\ loop' = [loop EXCEPT ![g].at = "top", ![g].done = streamDone]
  /\ UNCHANGED <<calls, fields, world, retry, inflight, panicked, ghost>>

\* The loop returns and closes its channel.
Leave(g) ==
  /\ loop' = [loop EXCEPT ![g] = [at |-> "gone", ctx |-> 0, done |-> 0]]
  /\ panicked' = (loop[g].done \in closed)
  /\ closed' = closed \cup {loop[g].done}

\* The head of the loop: a session under the context and the connection of
\* the moment, or the end.
LoopTop(g) ==
  /\ loop[g].at = "top"
  /\ \/ /\ rootCtx \in canceled
        /\ Leave(g)
     \/ /\ rootCtx \notin canceled
        /\ loop' = [loop EXCEPT ![g].at = "session", ![g].ctx = rootCtx]
        /\ UNCHANGED <<panicked, closed>>
  /\ UNCHANGED <<calls, fields, dials, open, canceled, retry, inflight, ghost>>

\* The scheduler dispatches a task: onDispatch, up to go.
Dispatch(g) ==
  /\ loop[g].at = "session"
  /\ inflight < MaxHandlers
  /\ inflight' = inflight + 1
  /\ UNCHANGED <<calls, fields, world, loop, retry, panicked, ghost>>

HandlerEnds ==
  /\ inflight > 0
  /\ inflight' = inflight - 1
  /\ UNCHANGED <<calls, fields, world, loop, retry, panicked, ghost>>

\* runOneSession returns.  It may do so at any time; it must when its context
\* is cancelled.
SessionEnds(g) ==
  /\ loop[g].at = "session"
  /\ loop' = [loop EXCEPT ![g].at = "ended", ![g].ctx = 0]
  /\ UNCHANGED <<calls, fields, world, retry, inflight, panicked, ghost>>

\* The test after a session, and the select of the backoff.
SessionEnded(g) ==
  /\ loop[g].at = "ended"
  /\ \/ /\ rootCtx \in canceled
        /\ Leave(g)
     \/ /\ rootCtx \notin canceled
        /\ loop' = [loop EXCEPT ![g].at = "backoff", ![g].ctx = rootCtx]
        /\ UNCHANGED <<panicked, closed>>
  /\ UNCHANGED <<calls, fields, dials, open, canceled, retry, inflight, ghost>>

\* The timer of the backoff, or the context.
BackoffEnds(g) ==
  /\ loop[g].at = "backoff"
  /\ \/ /\ loop' = [loop EXCEPT ![g].at = "top", ![g].ctx = 0]
        /\ UNCHANGED <<panicked, closed>>
     \/ /\ loop[g].ctx \in canceled
        /\ Leave(g)
  /\ UNCHANGED <<calls, fields, dials, open, canceled, retry, inflight, ghost>>

-----------------------------------------------------------------------------
(* runBufferRetryLoop.                                                     *)

\* A round is over (the first one is empty); the select reads c.rootCtx once.
RetrySelect(g) ==
  /\ retry[g].at = "flush"
  /\ retry' = [retry EXCEPT ![g] = [at |-> "select", ctx |-> rootCtx]]
  /\ UNCHANGED <<calls, fields, world, loop, inflight, panicked, ghost>>

\* The ticker or notify: flushBufferOnce.
RetryWakes(g) ==
  /\ retry[g].at = "select"
  /\ retry' = [retry EXCEPT ![g] = [at |-> "flush", ctx |-> 0]]
  /\ UNCHANGED <<calls, fields, world, loop, inflight, panicked, ghost>>

\* <-c.rootCtx.Done()
RetryLeaves(g) ==
  /\ retry[g].at = "select"
  /\ retry[g].ctx \in canceled
  /\ retry' = [retry EXCEPT ![g] = [at |-> "gone", ctx |-> 0]]
  /\ UNCHANGED <<calls, fields, world, loop, inflight, panicked, ghost>>

-----------------------------------------------------------------------------

\* What a call does once it has begun.
Proceed(c) ==
  \/ Dialed(c) \/ DialFails(c) \/ SetConn(c) \/ SetRootCtx(c) \/ Launch(c)
  \/ CancelRoot(c) \/ SelectStreamDone(c) \/ StreamEnded(c)
  \/ HandlersEnded(c) \/ CloseConn(c)

\* What a stream loop does by itself.
LoopStep(g) ==
  \/ LoopBegins(g) \/ LoopTop(g) \/ SessionEnded(g) \/ BackoffEnds(g)

Next ==
  /\ ~panicked
  /\ \/ \E c \in Callers : Start(c) \/ Stop(c) \/ Expire(c) \/ Proceed(c)
     \/ \E g \in Dials : \/ LoopStep(g) \/ Dispatch(g) \/ SessionEnds(g)
                         \/ RetrySelect(g) \/ RetryWakes(g) \/ RetryLeaves(g)
     \/ HandlerEnds

\* A call goes on (a dial has a timeout), a goroutine runs, a session notices
\* that its context is cancelled, a handler ends.  The select of the retry
\* loop picks one of its ready cases at random and the ticks are apart, so
\* the cancelled context is taken at some time.
Fairness ==
  /\ \A c \in Callers : WF_vars(~panicked /\ Proceed(c))
  /\ \A g \in Dials :
       /\ WF_vars(~panicked /\ LoopStep(g))
       /\ WF_vars(~panicked /\ loop[g].ctx \in canceled /\ SessionEnds(g))
       /\ WF_vars(~panicked /\ RetrySelect(g))
       /\ SF_vars(~panicked /\ RetryLeaves(g))
  /\ WF_vars(~panicked /\ HandlerEnds)

Spec == Init /\ [][Next]_vars
FairSpec == Spec /\ Fairness

-----------------------------------------------------------------------------
(* Properties.                                                             *)

LoopOver(g) == loop[g].at \in {"none", "gone"}
RetryOver(g) == retry[g].at \in {"none", "gone"}

\* When every Stop had the time it needed and calls did not overlap, a Stop
\* that has returned leaves no stream loop, no handler and no connection of
\* this or of an earlier Start behind, and the contexts the retry loops look
\* at are cancelled.
StopIsThorough ==
  Idle /\ ~started /\ ~tangled /\ ~expired =>
    /\ \A g \in Dials : LoopOver(g)
    /\ inflight = 0
    /\ open = {}
    /\ rootCtx = 0 \/ rootCtx \in canceled

\* Then also, a client that refuses another Start is served: by one stream
\* loop with a live context on the only open connection, and by the channel
\* that this loop will close.  The process does not die of a channel that is
\* closed twice.
StartedIsServed ==
  ~tangled /\ ~expired =>
    /\ ~panicked
    /\ Idle /\ started =>
         /\ open = {conn}
         /\ rootCtx = conn /\ rootCtx \notin canceled
         /\ streamDone = conn /\ streamDone \notin closed
         /\ \A g \in Dials : LoopOver(g) <=> g # conn

\* A client that takes no Stop (the flag is down and nobody is at work on it)
\* has no stream loop left that nobody told to end: rootCtx is created by
\* Start and cancelled by Stop.
StopStops ==
  Idle /\ ~started => \A g \in Dials : LoopOver(g) \/ rootCtx \in canceled

\* After a Stop, also after one whose context was done, everything ends
\* unless the client is started again: the call itself, all stream loops and
\* retry loops, those of earlier Starts included, handlers and connections.
AllOver ==
  /\ Idle
  /\ \A g \in Dials : LoopOver(g) /\ RetryOver(g)
  /\ inflight = 0
  /\ open = {}
StopTakesEffect ==
  ~started /\ ~tangled ~> started \/ tangled \/ panicked \/ AllOver

=============================================================================
