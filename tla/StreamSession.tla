---------------------------- MODULE StreamSession ----------------------------
(***************************************************************************)
(* The worker side of the scheduler SDK: the stream loop that connects,    *)
(* registers and reconnects (pkg/scheduler/stream.go) and the executor     *)
(* that runs a handler for every dispatched job (executor.go).             *)
(*                                                                         *)
(* Goroutines: the stream loop, which is also the receive loop of the      *)
(* session it has open; one sender and one heartbeat per session; one      *)
(* goroutine per accepted dispatch.  All of them talk to the sender over   *)
(* the buffered channel sendCh of the session.  The loop waits for sender  *)
(* and heartbeat before it opens the next session, but not for the         *)
(* handlers: those of an earlier session still hold the old channel, which *)
(* is closed, and the old context, which is done.                          *)
(*                                                                         *)
(* A dispatch is one message of the scheduler; RunOf names its run_id, and *)
(* two dispatches may name the same run (the scheduler dispatches again    *)
(* what it takes for lost).  Reload and unknown messages change no state.  *)
(***************************************************************************)
EXTENDS Integers, FiniteSets, Sequences

CONSTANTS
  Dispatches,      \* the Dispatch messages of the scheduler
  Runs,            \* the run_ids
  RunOf,           \* RunOf[d]: the run_id of d
  Timed,           \* dispatches with TimeoutSec > 0
  Limits,          \* the values of Config.MaxConcurrency in use
  SendCap,         \* capacity of sendCh (64 in the code)
  Backlog,         \* bound on messages received by gRPC and not yet read
  MaxSessions,     \* bound on the sessions of a behaviour
  None             \* no dispatch

ASSUME RunOfAssumption == RunOf \in [Dispatches -> Runs]
ASSUME TimedAssumption == Timed \subseteq Dispatches
ASSUME LimitsAssumption == Limits \subseteq Nat \ {0}
ASSUME SendCapAssumption == SendCap \in Nat \ {0}
ASSUME BoundsAssumption == Backlog \in Nat /\ MaxSessions \in Nat
ASSUME NoneAssumption == None \notin Dispatches

VARIABLES
  handled,        \* dispatches whose job has a handler; read-only after Start
  maxConcurrency, \* Config.MaxConcurrency
  rootDone,   \* rootCtx is cancelled: Stop was called
  crashed,    \* a goroutine panicked and took the process down
  at,         \* where the stream loop stands
  cur,        \* the dispatch the receive loop is busy with
  sess,       \* number of the latest session
  sessDone,   \* sessCtx of that session was cancelled by runOneSession
  closed,     \* its sendCh is closed
  sendCh,     \* the messages in its sendCh
  sender,     \* its sender goroutine
  hb,         \* its heartbeat goroutine
  broken,     \* its stream is broken: Send and Recv fail from now on
  inbox,      \* messages of the scheduler not yet received by the loop
  pc,         \* the life of each dispatch
  sessOf,     \* the session a dispatch came in
  ctx,        \* why the handler's own context is done
  sem,        \* tokens in concurrencySem
  cancels,    \* Client.cancels: the dispatch whose context a Cancel hits
  told,       \* what the scheduler has heard about a dispatch
  asked,      \* runs the scheduler has sent a Cancel for
  inner,      \* dispatches whose handler returned the Canceled of another context
  doubled     \* runs of which two handlers were under way at the same time

session == <<sess, sessDone, closed, sendCh, sender, hb, broken>>
jobs    == <<pc, sessOf, ctx, sem, cancels>>
ghost   == <<told, asked, inner, doubled>>
config  == <<handled, maxConcurrency>>
vars    == <<config, rootDone, crashed, at, cur, session, inbox, jobs, ghost>>

\* RunStatus; "own" is success or failure, as the handler says.
Statuses == {"own", "timeout", "canceled"}
InSession == {"recv", "ack", "nack", "spawn", "cancelled"}

\* Messages on sendCh and in the inbox.
Heartbeat   == <<"heartbeat", None>>
Outbound    == {Heartbeat} \cup (({"ack", "nack"} \cup Statuses) \X Dispatches)
Inbound     == ({"dispatch"} \X Dispatches) \cup ({"cancel"} \X Runs)

\* A dispatch that has a token of concurrencySem.
HasToken(d) == pc[d] \in {"accepted", "running", "cleanup"} \cup Statuses
\* A dispatch whose goroutine exists.
Live(d) == pc[d] \in {"running", "cleanup"} \cup Statuses

TypeOK ==
  /\ handled \in SUBSET Dispatches
  /\ maxConcurrency \in Limits
  /\ rootDone \in BOOLEAN
  /\ crashed \in BOOLEAN
  /\ at \in {"top", "backoff", "waiting", "done"} \cup InSession
  /\ cur \in Dispatches \cup {None}
  /\ sess \in 0..MaxSessions
  /\ sessDone \in BOOLEAN
  /\ closed \in BOOLEAN
  /\ sendCh \in Seq(Outbound) /\ Len(sendCh) <= SendCap
  /\ sender \in {"running", "gone"}
  /\ hb \in {"ticking", "send", "gone"}
  /\ broken \in BOOLEAN
  /\ inbox \in Seq(Inbound)
  /\ pc \in [Dispatches -> {"none", "sent", "accepted", "running", "cleanup",
                            "rejected", "over", "unread"} \cup Statuses]
  /\ sessOf \in [Dispatches -> 0..MaxSessions]
  /\ ctx \in [Dispatches -> {"live", "canceled", "deadline"}]
  /\ sem \in 0..maxConcurrency
  /\ cancels \in [Runs -> Dispatches \cup {None}]
  /\ told \in [Dispatches -> {"nothing", "accepted", "refused", "unannounced"}
                                \cup Statuses]
  /\ asked \in SUBSET Runs
  /\ inner \in SUBSET Dispatches
  /\ doubled \in SUBSET Runs

Init ==
  /\ handled \in SUBSET Dispatches
  /\ maxConcurrency \in Limits
  /\ rootDone = FALSE
  /\ crashed = FALSE
  /\ at = "top"
  /\ cur = None
  /\ sess = 0
  /\ sessDone = TRUE
  /\ closed = TRUE
  /\ sendCh = << >>
  /\ sender = "gone"
  /\ hb = "gone"
  /\ broken = TRUE
  /\ inbox = << >>
  /\ pc = [d \in Dispatches |-> "none"]
  /\ sessOf = [d \in Dispatches |-> 0]
  /\ ctx = [d \in Dispatches |-> "live"]
  /\ sem = 0
  /\ cancels = [r \in Runs |-> None]
  /\ told = [d \in Dispatches |-> "nothing"]
  /\ asked = {}
  /\ inner = {}
  /\ doubled = {}

\* sessCtx is done: cancelled itself, or rootCtx is.
SessCtxDone == sessDone \/ rootDone

\* What a goroutine of session s sees of its context and of its channel.
CtxDone(s) == s < sess \/ SessCtxDone
ChClosed(s) == s < sess \/ closed

-----------------------------------------------------------------------------
(* sendOrDrop, also the inner select of runHeartbeat.                      *)

\* Fault: nothing is dropped, the message waits for room.
sendOrWait(s, msg) ==
  IF ChClosed(s) THEN crashed' = TRUE /\ UNCHANGED sendCh
  ELSE /\ Len(sendCh) < SendCap
       /\ sendCh' = Append(sendCh, msg)
       /\ UNCHANGED crashed

\* A select takes any of its cases that is ready, and a send to a channel
\* that is closed is ready: it panics.
sendOrDrop(s, msg) ==
  \/ /\ ~ChClosed(s)
     /\ Len(sendCh) < SendCap
     /\ sendCh' = Append(sendCh, msg)
     /\ UNCHANGED crashed
  \/ /\ ChClosed(s)
     /\ crashed' = TRUE
     /\ UNCHANGED sendCh
  \/ /\ CtxDone(s)
     /\ UNCHANGED <<sendCh, crashed>>

-----------------------------------------------------------------------------
(* runStreamLoop and runOneSession.                                        *)

\* The head of the loop when rootCtx is done, and the case of the backoff
\* select for it: the loop returns and closes streamDone.
LoopReturns ==
  /\ ~crashed
  /\ at \in {"top", "backoff"}
  /\ rootDone
  /\ at' = "done"
  /\ UNCHANGED <<config, rootDone, crashed, cur, session, inbox, jobs, ghost>>

\* runOneSession up to the start of its goroutines: Connect, the
\* RegisterRequest and its response.  Every error ends in the backoff.
Connect ==
  /\ ~crashed
  /\ at = "top"
  /\ ~rootDone
  /\ \/ /\ sess < MaxSessions
        /\ at' = "recv"
        /\ sess' = sess + 1
        /\ sessDone' = FALSE
        /\ closed' = FALSE
        /\ sendCh' = << >>
        /\ sender' = "running"
        /\ hb' = "ticking"
        /\ broken' = FALSE
     \/ /\ at' = "backoff"
        /\ UNCHANGED session
  /\ UNCHANGED <<config, rootDone, crashed, cur, inbox, jobs, ghost>>

BackoffEnds ==
  /\ ~crashed
  /\ at = "backoff"
  /\ at' = "top"
  /\ UNCHANGED <<config, rootDone, crashed, cur, session, inbox, jobs, ghost>>

\* Fault: an error of Recv alone does not end the loop.
RecvIgnoresErrors ==
  /\ ~crashed
  /\ at = "recv"
  /\ SessCtxDone
  /\ at' = "cancelled"
  /\ sessDone' = TRUE
  /\ inbox' = << >>
  /\ UNCHANGED <<config, rootDone, crashed, cur, sess, closed, sendCh, sender, hb,
                 broken, jobs, ghost>>

\* runRecvLoop: Recv fails once the stream is broken and all that came
\* before is read, or when the context is done; then cancel().
RecvFails ==
  /\ ~crashed
  /\ at = "recv"
  /\ (broken /\ inbox = << >>) \/ SessCtxDone
  /\ at' = "cancelled"
  /\ sessDone' = TRUE
  /\ inbox' = << >>
  /\ pc' = [d \in Dispatches |-> IF pc[d] = "sent" THEN "unread" ELSE pc[d]]
  /\ UNCHANGED <<config, rootDone, crashed, cur, sess, closed, sendCh, sender, hb,
                 broken, sessOf, ctx, sem, cancels, ghost>>

\* close(sendCh), after cancel().
CloseSendCh ==
  /\ ~crashed
  /\ at = "cancelled"
  /\ closed' = TRUE
  /\ at' = "waiting"
  /\ UNCHANGED <<config, rootDone, crashed, cur, sess, sessDone, sendCh, sender, hb,
                 broken, inbox, jobs, ghost>>

\* <-hbDone and senderWG.Wait(); the loop returns or waits out its
\* backoff.  What is left in the channel is lost with it.
SessionOver ==
  /\ ~crashed
  /\ at = "waiting"
  /\ hb = "gone"
  /\ sender = "gone"
  /\ at' = IF rootDone THEN "done" ELSE "backoff"
  /\ broken' = TRUE
  /\ sendCh' = << >>
  /\ UNCHANGED <<config, rootDone, crashed, cur, sess, sessDone, closed, sender, hb,
                 inbox, jobs, ghost>>

-----------------------------------------------------------------------------
(* The sender and the heartbeat of the session.                            *)

\* What the scheduler knows after it has received msg.
Hears(msg) ==
  LET d == msg[2] IN
  told' = IF msg = Heartbeat THEN told
          ELSE [told EXCEPT ![d] =
                 CASE msg[1] = "ack"  -> "accepted"
                   [] msg[1] = "nack" -> "refused"
                   [] msg[1] \in Statuses ->
                        IF @ = "accepted" THEN msg[1] ELSE "unannounced"]

\* The sender takes the next message; the first error of Send ends it, and
\* nobody else is told.  A Send that races the cancellation may succeed.
SenderStep ==
  /\ ~crashed
  /\ sender = "running"
  /\ \/ /\ sendCh # << >>
        /\ ~broken
        /\ Hears(Head(sendCh))
        /\ sendCh' = Tail(sendCh)
        /\ UNCHANGED sender
     \/ /\ sendCh # << >>
        /\ broken \/ SessCtxDone
        /\ sendCh' = Tail(sendCh)
        /\ sender' = "gone"
        /\ UNCHANGED told
     \/ /\ sendCh = << >>
        /\ closed
        /\ sender' = "gone"
        /\ UNCHANGED <<sendCh, told>>
  /\ UNCHANGED <<config, rootDone, crashed, at, cur, sess, sessDone, closed, hb, broken,
                 inbox, jobs, asked, inner, doubled>>

\* The outer select of runHeartbeat.
HeartbeatStep ==
  /\ ~crashed
  /\ hb = "ticking"
  /\ \/ hb' = "send"
     \/ SessCtxDone /\ hb' = "gone"
  /\ UNCHANGED <<config, rootDone, crashed, at, cur, sess, sessDone, closed, sendCh,
                 sender, broken, inbox, jobs, ghost>>

\* Its inner select: the heartbeat is sent, or ctx is done and it returns.
HeartbeatSends ==
  /\ ~crashed
  /\ hb = "send"
  /\ sendOrDrop(sess, Heartbeat)
  /\ hb' = IF sendCh' # sendCh THEN "ticking" ELSE "gone"
  /\ UNCHANGED <<config, rootDone, at, cur, sess, sessDone, closed, sender, broken,
                 inbox, jobs, ghost>>

-----------------------------------------------------------------------------
(* onDispatch and onCancel, in the receive loop.                           *)

\* Fault: the token is taken without looking whether one is free.
RecvDispatchUnbounded(d) ==
  /\ ~crashed
  /\ at = "recv"
  /\ inbox # << >>
  /\ Head(inbox) = <<"dispatch", d>>
  /\ inbox' = Tail(inbox)
  /\ cur' = d
  /\ at' = "ack"
  /\ pc' = [pc EXCEPT ![d] = "accepted"]
  /\ sem' = sem + 1
  /\ UNCHANGED <<config, rootDone, crashed, session, sessOf, ctx, cancels, ghost>>

\* A Dispatch: refused when the job has no handler or no token is free.
RecvDispatch(d) ==
  /\ ~crashed
  /\ at = "recv"
  /\ inbox # << >>
  /\ Head(inbox) = <<"dispatch", d>>
  /\ inbox' = Tail(inbox)
  /\ cur' = d
  /\ \/ /\ d \notin handled \/ sem = maxConcurrency
        /\ at' = "nack"
        /\ pc' = [pc EXCEPT ![d] = "rejected"]
        /\ UNCHANGED sem
     \/ /\ d \in handled
        /\ sem < maxConcurrency
        /\ at' = "ack"
        /\ pc' = [pc EXCEPT ![d] = "accepted"]
        /\ sem' = sem + 1
  /\ UNCHANGED <<config, rootDone, crashed, session, sessOf, ctx, cancels, ghost>>

\* Ack(accepted = false).
SendNack ==
  /\ ~crashed
  /\ at = "nack"
  /\ sendOrDrop(sess, <<"nack", cur>>)
  /\ at' = "recv"
  /\ cur' = None
  /\ UNCHANGED <<config, rootDone, sess, sessDone, closed, sender, hb, broken, inbox,
                 jobs, ghost>>

\* Fault: an Ack for which there is no room is dropped.
SendAckOrSkip ==
  /\ ~crashed
  /\ at = "ack"
  /\ sendCh' \in {sendCh, IF Len(sendCh) < SendCap THEN Append(sendCh, <<"ack", cur>>)
                          ELSE sendCh}
  /\ at' = "spawn"
  /\ UNCHANGED <<config, rootDone, crashed, cur, sess, sessDone, closed, sender,
                 hb, broken, inbox, jobs, ghost>>

\* Ack(accepted = true).
SendAck ==
  /\ ~crashed
  /\ at = "ack"
  /\ sendOrDrop(sess, <<"ack", cur>>)
  /\ at' = "spawn"
  /\ UNCHANGED <<config, rootDone, cur, sess, sessDone, closed, sender, hb, broken,
                 inbox, jobs, ghost>>

\* Fault: the context of a handler with a timeout is not entered.
SpawnForgetsTimed ==
  /\ ~crashed
  /\ at = "spawn"
  /\ at' = "recv"
  /\ cur' = None
  /\ pc' = [pc EXCEPT ![cur] = "running"]
  /\ cancels' = IF cur \in Timed THEN cancels
                ELSE [cancels EXCEPT ![RunOf[cur]] = cur]
  /\ doubled' = IF \E d \in Dispatches : Live(d) /\ RunOf[d] = RunOf[cur]
                THEN doubled \cup {RunOf[cur]} ELSE doubled
  /\ UNCHANGED <<config, rootDone, crashed, session, inbox, sessOf, ctx, sem,
                 told, asked, inner>>

\* The context of the handler is entered under its run_id and the goroutine
\* of the handler starts.
Spawn ==
  /\ ~crashed
  /\ at = "spawn"
  /\ at' = "recv"
  /\ cur' = None
  /\ pc' = [pc EXCEPT ![cur] = "running"]
  /\ cancels' = [cancels EXCEPT ![RunOf[cur]] = cur]
  /\ doubled' = IF \E d \in Dispatches : Live(d) /\ RunOf[d] = RunOf[cur]
                THEN doubled \cup {RunOf[cur]} ELSE doubled
  /\ UNCHANGED <<config, rootDone, crashed, session, inbox, sessOf, ctx, sem,
                 told, asked, inner>>

\* Why the context of d's handler is done, "live" if it is not.
CtxErr(d) == IF ctx[d] # "live" THEN ctx[d]
             ELSE IF CtxDone(sessOf[d]) THEN "canceled" ELSE "live"

\* onCancel: the handle of the run is looked up and called, if there is one.
RecvCancel(r) ==
  /\ ~crashed
  /\ at = "recv"
  /\ inbox # << >>
  /\ Head(inbox) = <<"cancel", r>>
  /\ inbox' = Tail(inbox)
  /\ LET d == cancels[r] IN
     ctx' = IF d # None /\ CtxErr(d) = "live"
            THEN [ctx EXCEPT ![d] = "canceled"] ELSE ctx
  /\ UNCHANGED <<config, rootDone, crashed, at, cur, session, pc, sessOf, sem,
                 cancels, ghost>>

-----------------------------------------------------------------------------
(* The goroutine of a handler.                                             *)

\* The deadline of a dispatch with a timeout.
DeadlinePasses(d) ==
  /\ ~crashed
  /\ d \in Timed
  /\ pc[d] = "running"
  /\ CtxErr(d) = "live"
  /\ ctx' = [ctx EXCEPT ![d] = "deadline"]
  /\ UNCHANGED <<config, rootDone, crashed, at, cur, session, inbox, pc, sessOf,
                 sem, cancels, ghost>>

\* Fault: a handler that ran into its deadline is reported as canceled.
StatusConfused(errs) == IF errs # {} THEN "canceled" ELSE "own"

\* The switch after runHandlerSafe: errors.Is looks for the errors of a
\* context in whatever the handler returned, the deadline first.
StatusOf(errs) ==
  IF "deadline" \in errs THEN "timeout"
  ELSE IF "canceled" \in errs THEN "canceled" ELSE "own"

\* The handler returns nil, an error or panics whenever it likes.  errs are
\* the errors of contexts that its error wraps: its own once that is done,
\* or one of a context that the handler made itself.
HandlerReturns(d) ==
  /\ ~crashed
  /\ pc[d] = "running"
  /\ \E errs \in SUBSET {"deadline", "canceled"} :
       /\ pc' = [pc EXCEPT ![d] = StatusOf(errs)]
       /\ inner' = IF errs = {"canceled"} /\ CtxErr(d) # "canceled"
                   THEN inner \cup {d} ELSE inner
  /\ UNCHANGED <<config, rootDone, crashed, at, cur, session, inbox, sessOf, ctx, sem,
                 cancels, told, asked, doubled>>

\* Fault: the token is given back before the result is sent.
ReportAfterRelease(d) ==
  /\ ~crashed
  /\ \/ /\ pc[d] = "cleanup"
        /\ sendOrDrop(sessOf[d], <<"own", d>>)
        /\ pc' = [pc EXCEPT ![d] = "over"]
        /\ UNCHANGED <<sem, cancels>>
     \/ /\ pc[d] \in Statuses
        /\ pc' = [pc EXCEPT ![d] = "cleanup"]
        /\ sem' = sem - 1
        /\ cancels' = [cancels EXCEPT ![RunOf[d]] = None]
        /\ UNCHANGED <<sendCh, crashed>>
  /\ UNCHANGED <<config, rootDone, at, cur, sess, sessDone, closed, sender, hb, broken,
                 inbox, sessOf, ctx, ghost>>

\* Fault: a result for which there is no room is dropped.
ReportOrSkip(d) ==
  /\ ~crashed
  /\ pc[d] \in Statuses
  /\ sendCh' \in {sendCh, IF ~ChClosed(sessOf[d]) /\ Len(sendCh) < SendCap
                          THEN Append(sendCh, <<pc[d], d>>) ELSE sendCh}
  /\ pc' = [pc EXCEPT ![d] = "cleanup"]
  /\ UNCHANGED <<config, rootDone, crashed, at, cur, sess, sessDone, closed, sender,
                 hb, broken, inbox, sessOf, ctx, sem, cancels, ghost>>

\* The JobResult goes to the channel of the session of the dispatch.
Report(d) ==
  /\ ~crashed
  /\ pc[d] \in Statuses
  /\ sendOrDrop(sessOf[d], <<pc[d], d>>)
  /\ pc' = [pc EXCEPT ![d] = "cleanup"]
  /\ UNCHANGED <<config, rootDone, at, cur, sess, sessDone, closed, sender, hb, broken,
                 inbox, sessOf, ctx, sem, cancels, ghost>>

\* Fault: the token is given back only with the handle of the run.
CleanupOwnHandle(d) ==
  /\ ~crashed
  /\ pc[d] = "cleanup"
  /\ pc' = [pc EXCEPT ![d] = "over"]
  /\ cancels' = [cancels EXCEPT ![RunOf[d]] = None]
  /\ sem' = IF cancels[RunOf[d]] = d THEN sem - 1 ELSE sem
  /\ UNCHANGED <<config, rootDone, crashed, at, cur, session, inbox, sessOf, ctx,
                 ghost>>

\* The deferred function: the handle of the run is deleted, whoever it
\* belongs to, and the token given back.
Cleanup(d) ==
  /\ ~crashed
  /\ pc[d] = "cleanup"
  /\ pc' = [pc EXCEPT ![d] = "over"]
  /\ cancels' = [cancels EXCEPT ![RunOf[d]] = None]
  /\ sem' = sem - 1
  /\ UNCHANGED <<config, rootDone, crashed, at, cur, session, inbox, sessOf, ctx, ghost>>

-----------------------------------------------------------------------------
(* The surroundings: Stop, the scheduler and the network.                  *)

Stop ==
  /\ ~crashed
  /\ ~rootDone
  /\ rootDone' = TRUE
  /\ UNCHANGED <<config, crashed, at, cur, session, inbox, jobs, ghost>>

Connected == at \in InSession /\ ~broken /\ ~SessCtxDone

SchedulerDispatches(d) ==
  /\ ~crashed
  /\ Connected
  /\ Len(inbox) < Backlog
  /\ pc[d] = "none"
  /\ pc' = [pc EXCEPT ![d] = "sent"]
  /\ sessOf' = [sessOf EXCEPT ![d] = sess]
  /\ inbox' = Append(inbox, <<"dispatch", d>>)
  /\ UNCHANGED <<config, rootDone, crashed, at, cur, session, ctx, sem, cancels, ghost>>

SchedulerCancels(r) ==
  /\ ~crashed
  /\ Connected
  /\ Len(inbox) < Backlog
  /\ r \notin asked
  /\ \E d \in Dispatches : RunOf[d] = r /\ pc[d] # "none"
  /\ asked' = asked \cup {r}
  /\ inbox' = Append(inbox, <<"cancel", r>>)
  /\ UNCHANGED <<config, rootDone, crashed, at, cur, session, jobs, told, inner,
                 doubled>>

StreamBreaks ==
  /\ ~crashed
  /\ at \in InSession
  /\ ~broken
  /\ broken' = TRUE
  /\ UNCHANGED <<config, rootDone, crashed, at, cur, sess, sessDone, closed, sendCh,
                 sender, hb, inbox, jobs, ghost>>

StreamLoop == \/ LoopReturns \/ Connect \/ BackoffEnds
              \/ RecvFails \/ CloseSendCh \/ SessionOver
              \/ SendNack \/ SendAck \/ Spawn
              \/ \E d \in Dispatches : RecvDispatch(d)
              \/ \E r \in Runs : RecvCancel(r)

Handler(d) == HandlerReturns(d) \/ Report(d) \/ Cleanup(d)

Surroundings == \/ Stop \/ StreamBreaks
                \/ \E d \in Dispatches : SchedulerDispatches(d)
                \/ \E r \in Runs : SchedulerCancels(r)

Next == \/ StreamLoop \/ SenderStep \/ HeartbeatStep \/ HeartbeatSends
        \/ \E d \in Dispatches : Handler(d) \/ DeadlinePasses(d)
        \/ Surroundings

Spec == Init /\ [][Next]_vars

\* Goroutines that can run do run; senders blocked on a channel are served
\* in the order in which they came; and handlers return (HandlerFunc must
\* respect ctx.Done()).  Nothing is assumed of the scheduler.
FairSpec ==
  /\ Spec
  /\ WF_vars(StreamLoop)
  /\ WF_vars(SenderStep)
  /\ WF_vars(HeartbeatStep)
  /\ SF_vars(SendNack)
  /\ SF_vars(SendAck)
  /\ SF_vars(HeartbeatSends)
  /\ \A d \in Dispatches : /\ WF_vars(HandlerReturns(d))
                           /\ SF_vars(Report(d))
                           /\ WF_vars(Cleanup(d))

-----------------------------------------------------------------------------
(* Properties.                                                             *)

\* A token of concurrencySem is held from the acquire in onDispatch to the
\* deferred release, however the session ends in between: none leaks, none
\* is given back twice.
TokensHeld == sem = Cardinality({d \in Dispatches : HasToken(d)})

\* As the result is sent before the token is released and the channel keeps
\* its order, the scheduler never sees more than MaxConcurrency accepted and
\* unreported jobs of a session that is open.
NeverOverbooked ==
  Connected =>
    Cardinality({d \in Dispatches : sessOf[d] = sess /\ told[d] = "accepted"})
      <= maxConcurrency

\* The scheduler hears of the result of a job only after its Ack, unless
\* the session was being cancelled (the Ack was dropped, a later Send raced
\* the cancellation and won).
AckFirst ==
  \A d \in Dispatches : told[d] = "unannounced" => CtxDone(sessOf[d])

\* A Cancel finds the context of a handler that is under way, and a handle
\* never outlives its handler.  The exception is a run that was dispatched
\* again before its handler was through: the first that ends deletes the
\* handle of the other.
CancelFindsHandler ==
  /\ \A d \in Dispatches :
       Live(d) /\ RunOf[d] \notin doubled => cancels[RunOf[d]] = d
  /\ \A r \in Runs : cancels[r] # None => Live(cancels[r]) /\ RunOf[cancels[r]] = r

\* A job of an open session is reported as canceled only if the scheduler
\* asked for that, and never because an earlier session ended or its deadline
\* passed; unless the handler itself returned the Canceled of another context,
\* which the executor does not tell from that of the job.
CanceledOnRequest ==
  \A d \in Dispatches :
    told[d] = "canceled" /\ ~CtxDone(sessOf[d]) => RunOf[d] \in asked \/ d \in inner

\* The sender is gone, its channel is full and the receive loop waits for
\* room in it: nobody but Stop can end this session.
Stuck == /\ at \in {"ack", "nack"}
         /\ sender = "gone"
         /\ Len(sendCh) = SendCap

\* When the stream breaks the session comes to its end (and the loop to its
\* backoff), whatever sender, heartbeat and handlers are doing, unless the
\* receive loop is stuck behind a sender that has given up.
BrokenSessionEnds == broken /\ at \in InSession ~> at \notin InSession \/ Stuck \/ crashed

\* Stop ends the loop, the session and every handler: nobody waits for
\* somebody who is gone.
StopEndsAll ==
  rootDone ~> crashed \/ (at = "done" /\ sender = "gone" /\ hb = "gone"
                            /\ \A d \in Dispatches : ~Live(d))

\* While the session stays open a job that was accepted is reported.
AcceptedIsReported ==
  \A d \in Dispatches :
    told[d] = "accepted" ~>
      told[d] # "accepted" \/ broken \/ CtxDone(sessOf[d]) \/ crashed

\* The README of the SDK promises that the process stays alive, and the
\* comment of sendOrDrop that a message is dropped once the session is over.
ProcessSurvives == ~crashed

=============================================================================
