------------------------- MODULE StreamSessionProofs -------------------------
(***************************************************************************)
(* Proofs for StreamSession, for any set of dispatches and runs, any       *)
(* capacity of the channel and any limit of concurrency.                   *)
(*                                                                         *)
(* What the scheduler has heard is tied to what the handlers have done by  *)
(* the messages that are still in sendCh.  The invariant follows a         *)
(* dispatch from the inbox over the receive loop to its handler, says for  *)
(* every message in the channel how far its dispatch has come, and counts  *)
(* what the scheduler will take for accepted after it has read any prefix  *)
(* of the channel.                                                         *)
(***************************************************************************)
EXTENDS StreamSession, SequenceLemmas, FiniteSetTheorems, TLAPS

TokenHolders == {d \in Dispatches : HasToken(d)}

\* The receive loop still owes d its answer.
BeingAnswered(d) == cur = d /\ at \in {"ack", "nack"}

\* The step that sends (or drops) the Ack of d, or its refusal, is done.
Answered(d, S) == pc[d] \in S /\ ~BeingAnswered(d)
PastAck   == {"accepted", "running", "cleanup", "over"} \cup Statuses
PastReport == {"cleanup", "over"}

\* The session is open and its messages arrive.
Open == ~broken /\ ~SessCtxDone

\* d may be reported as canceled.
Excused(d) == RunOf[d] \in asked \/ CtxDone(sessOf[d]) \/ d \in inner

-----------------------------------------------------------------------------
(* The receive loop.                                                       *)

\* What the receive loop is busy with, and what belongs to its session.
Control ==
  /\ at \in {"ack", "nack", "spawn"} => cur \in Dispatches
  /\ at \in {"ack", "spawn"} => pc[cur] = "accepted"
  /\ at = "nack" => pc[cur] = "rejected" /\ sessOf[cur] = sess
  /\ \A d \in Dispatches : pc[d] = "accepted" => cur = d /\ at \in {"ack", "spawn"}
  /\ \A d \in Dispatches : pc[d] \in {"sent", "accepted"} => sessOf[d] = sess
  /\ \A d \in Dispatches : pc[d] = "sent" => at \in {"recv", "ack", "nack", "spawn"}
  /\ \A d \in Dispatches : sessOf[d] <= sess
  /\ at \in InSession => ~closed
  /\ at \notin {"recv", "ack", "nack", "spawn"} => sessDone

\* A dispatch in the inbox is there once and not yet read; a Cancel in it was
\* asked for.
InboxOK ==
  /\ \A i \in 1..Len(inbox) :
       /\ inbox[i][1] = "dispatch" => pc[inbox[i][2]] = "sent"
       /\ inbox[i][1] = "cancel" => inbox[i][2] \in asked
  /\ \A i, j \in 1..Len(inbox) :
       i # j /\ inbox[i][1] = "dispatch" /\ inbox[j][1] = "dispatch" => inbox[i][2] # inbox[j][2]

Tokens ==
  /\ IsFiniteSet(TokenHolders)
  /\ sem = Cardinality(TokenHolders)

Core == TypeOK /\ Control /\ InboxOK /\ Tokens

\* Why a handler is canceled.
CancelReasons ==
  \A d \in Dispatches :
    /\ ctx[d] = "canceled" => RunOf[d] \in asked
    /\ pc[d] = "canceled" => Excused(d)

-----------------------------------------------------------------------------
(* The channel.                                                            *)

\* A message in the channel is of the open session, and its dispatch has come
\* as far as the message says.
MessagesOK ==
  \A i \in 1..Len(sendCh) :
    LET k == sendCh[i][1]
        d == sendCh[i][2]
    IN d \in Dispatches =>
         /\ sessOf[d] = sess
         /\ k = "ack" => Answered(d, PastAck) /\ told[d] = "nothing"
         /\ k = "nack" => Answered(d, {"rejected"})
         /\ k \in Statuses => pc[d] \in PastReport /\ told[d] \in {"nothing", "accepted"}
         /\ k = "canceled" => Excused(d)

\* Two messages about one dispatch are its Ack and, after it, its result.
AckBeforeResult ==
  \A i, j \in 1..Len(sendCh) :
    i < j /\ sendCh[i][2] \in Dispatches /\ sendCh[i][2] = sendCh[j][2] =>
      sendCh[i][1] = "ack" /\ sendCh[j][1] \in Statuses

\* What the scheduler has heard about a dispatch has happened.
ToldOK ==
  \A d \in Dispatches :
    /\ told[d] = "refused" => Answered(d, {"rejected"})
    /\ told[d] \notin {"nothing", "refused"} => Answered(d, PastAck)
    /\ told[d] \in Statuses \cup {"unannounced"} => pc[d] \in PastReport
    /\ told[d] = "unannounced" => CtxDone(sessOf[d])
    /\ told[d] = "canceled" => Excused(d)

\* While the session is open nothing was dropped: what was sent was heard or
\* is in the channel.
NothingDropped ==
  Open => \A d \in Dispatches : sessOf[d] = sess =>
    /\ Answered(d, PastAck) /\ told[d] = "nothing" =>
         \E i \in 1..Len(sendCh) : sendCh[i][1] = "ack" /\ sendCh[i][2] = d
    /\ pc[d] \in PastReport /\ told[d] \in {"nothing", "accepted"} =>
         \E i \in 1..Len(sendCh) : sendCh[i][1] \in Statuses /\ sendCh[i][2] = d

\* What the scheduler takes for accepted once it has read the first k
\* messages of the channel.
AcceptedAfter(k) ==
  {d \in Dispatches :
     /\ sessOf[d] = sess
     /\ told[d] = "accepted" \/ \E i \in 1..k : sendCh[i][1] = "ack" /\ sendCh[i][2] = d
     /\ \A i \in 1..k : ~(sendCh[i][1] \in Statuses /\ sendCh[i][2] = d)}

NeverOver ==
  Open => \A k \in 0..Len(sendCh) :
            IsFiniteSet(AcceptedAfter(k)) /\ Cardinality(AcceptedAfter(k)) <= maxConcurrency

Channel == MessagesOK /\ AckBeforeResult /\ ToldOK /\ NothingDropped /\ NeverOver

IInv == Core /\ CancelFindsHandler /\ CancelReasons /\ Channel

-----------------------------------------------------------------------------
(* The initial state.                                                      *)

\* The initial states satisfy the invariant.
LEMMA InitIInv == Init => IInv
<1> SUFFICES ASSUME Init PROVE IInv
  OBVIOUS
<1> USE DEF Init
<1>0. sendCh = << >> /\ inbox = << >> /\ Len(sendCh) = 0 /\ Len(inbox) = 0
  OBVIOUS
<1>1. TypeOK
  <2>1. sendCh \in Seq(Outbound) /\ Len(sendCh) <= SendCap /\ inbox \in Seq(Inbound)
    BY <1>0, SendCapAssumption
  <2>2. sem \in 0..maxConcurrency /\ sess \in 0..MaxSessions
    BY LimitsAssumption, BoundsAssumption
  <2> QED
    BY <2>1, <2>2, BoundsAssumption DEF TypeOK, Statuses
<1>2. Control
  BY DEF Control, InSession
<1>3. InboxOK
  BY <1>0 DEF InboxOK
<1>4. Tokens
  <2>1. TokenHolders = {}
    BY DEF TokenHolders, HasToken, Statuses
  <2> QED
    BY <2>1, FS_EmptySet DEF Tokens
<1>5. CancelFindsHandler /\ CancelReasons
  BY DEF CancelFindsHandler, CancelReasons, Live, Statuses
<1>6. MessagesOK /\ AckBeforeResult
  BY <1>0 DEF MessagesOK, AckBeforeResult
<1>7. ToldOK
  BY DEF ToldOK, Statuses
<1>8. NothingDropped /\ NeverOver
  BY DEF NothingDropped, NeverOver, Open
<1> QED
  BY <1>1, <1>2, <1>3, <1>4, <1>5, <1>6, <1>7, <1>8 DEF IInv, Core, Channel

-----------------------------------------------------------------------------
(* Operators the actions share.                                            *)

\* sendOrDrop leaves the channel alone or, while it is open, adds the message.
LEMMA SendEffect ==
  ASSUME TypeOK, NEW s, NEW msg \in Outbound, sendOrDrop(s, msg)
  PROVE  /\ sendCh' \in Seq(Outbound) /\ Len(sendCh') <= SendCap
         /\ crashed' \in BOOLEAN
         /\ \/ sendCh' = sendCh /\ (ChClosed(s) \/ CtxDone(s))
            \/ ~ChClosed(s) /\ sendCh' = Append(sendCh, msg)
<1>1. CASE ~ChClosed(s) /\ Len(sendCh) < SendCap /\ sendCh' = Append(sendCh, msg) /\ UNCHANGED crashed
  <2>1. sendCh' \in Seq(Outbound) /\ Len(sendCh') = Len(sendCh) + 1
    BY <1>1 DEF TypeOK
  <2>2. Len(sendCh) \in Nat
    BY DEF TypeOK
  <2> QED
    BY <1>1, <2>1, <2>2, SendCapAssumption DEF TypeOK
<1>2. CASE ChClosed(s) /\ crashed' = TRUE /\ UNCHANGED sendCh
  BY <1>2 DEF TypeOK
<1>3. CASE CtxDone(s) /\ UNCHANGED <<sendCh, crashed>>
  BY <1>3 DEF TypeOK
<1> QED
  BY <1>1, <1>2, <1>3 DEF sendOrDrop

\* What the messages of the model are.
LEMMA MessageTypes ==
  /\ Heartbeat \in Outbound /\ Heartbeat[1] = "heartbeat" /\ Heartbeat[2] = None
  /\ \A k \in {"ack", "nack"} \cup Statuses : \A d \in Dispatches :
       <<k, d>> \in Outbound /\ <<k, d>>[1] = k /\ <<k, d>>[2] = d
  /\ \A m \in Outbound :
       m = Heartbeat \/ (m[1] \in {"ack", "nack"} \cup Statuses /\ m[2] \in Dispatches
                         /\ m = <<m[1], m[2]>> /\ m # Heartbeat)
  /\ \A d \in Dispatches : <<"dispatch", d>> \in Inbound
  /\ \A r \in Runs : <<"cancel", r>> \in Inbound
  /\ \A m \in Inbound : \/ m[1] = "dispatch" /\ m[2] \in Dispatches
                        \/ m[1] = "cancel" /\ m[2] \in Runs
BY NoneAssumption DEF Heartbeat, Outbound, Inbound, Statuses

-----------------------------------------------------------------------------
(* Types.                                                                  *)

\* The loop between its sessions.
LEMMA LoopType ==
  ASSUME TypeOK, LoopReturns \/ Connect \/ BackoffEnds \/ CloseSendCh \/ SessionOver
  PROVE  TypeOK'
<1>0. UNCHANGED <<config, rootDone, crashed, cur, inbox, jobs, ghost>>
  BY DEF LoopReturns, Connect, BackoffEnds, CloseSendCh, SessionOver
<1>1. CASE LoopReturns \/ BackoffEnds \/ (Connect /\ UNCHANGED session)
  BY <1>0, <1>1 DEF TypeOK, config, jobs, ghost, session, LoopReturns, BackoffEnds, Connect, InSession
<1>2. CASE Connect /\ sess' = sess + 1
  <2>1. sess' \in 0..MaxSessions
    BY <1>2, BoundsAssumption DEF TypeOK, Connect, session
  <2>2. sendCh' = << >>
    BY <1>2 DEF Connect, session, TypeOK
  <2>3. sendCh' \in Seq(Outbound) /\ Len(sendCh') <= SendCap
    BY <2>2, SendCapAssumption
  <2> QED
    BY <1>0, <1>2, <2>1, <2>3 DEF TypeOK, config, jobs, ghost, session, Connect, InSession
<1>3. CASE CloseSendCh
  BY <1>0, <1>3 DEF TypeOK, config, jobs, ghost, CloseSendCh
<1>4. CASE SessionOver
  <2>1. sendCh' \in Seq(Outbound) /\ Len(sendCh') <= SendCap
    BY <1>4, SendCapAssumption DEF SessionOver
  <2> QED
    BY <1>0, <1>4, <2>1 DEF TypeOK, config, jobs, ghost, SessionOver
<1> QED
  BY <1>1, <1>2, <1>3, <1>4 DEF Connect

\* The receive loop.
LEMMA RecvType ==
  ASSUME TypeOK, Control,
         \/ RecvFails \/ SendNack \/ SendAck \/ Spawn
         \/ \E d \in Dispatches : RecvDispatch(d)
         \/ \E r \in Runs : RecvCancel(r)
  PROVE  TypeOK'
<1>1. CASE RecvFails
  <2>1. inbox' \in Seq(Inbound)
    BY <1>1 DEF RecvFails
  <2> QED
    BY <1>1, <2>1 DEF TypeOK, RecvFails, config, ghost, InSession
<1>2. CASE SendNack
  <2>1. <<"nack", cur>> \in Outbound
    BY <1>2, MessageTypes DEF SendNack, Control
  <2>2. sendCh' \in Seq(Outbound) /\ Len(sendCh') <= SendCap /\ crashed' \in BOOLEAN
    BY <1>2, <2>1, SendEffect DEF SendNack
  <2> QED
    BY <1>2, <2>2 DEF TypeOK, SendNack, config, jobs, ghost, InSession
<1>3. CASE SendAck
  <2>1. <<"ack", cur>> \in Outbound
    BY <1>3, MessageTypes DEF SendAck, Control
  <2>2. sendCh' \in Seq(Outbound) /\ Len(sendCh') <= SendCap /\ crashed' \in BOOLEAN
    BY <1>3, <2>1, SendEffect DEF SendAck
  <2> QED
    BY <1>3, <2>2 DEF TypeOK, SendAck, config, jobs, ghost, InSession
<1>4. CASE Spawn
  <2>1. cur \in Dispatches /\ RunOf[cur] \in Runs
    BY <1>4, RunOfAssumption DEF Spawn, Control
  <2> QED
    BY <1>4, <2>1 DEF TypeOK, Spawn, config, session, InSession
<1>5. ASSUME NEW d \in Dispatches, RecvDispatch(d) PROVE TypeOK'
  <2>1. inbox' \in Seq(Inbound)
    BY <1>5 DEF RecvDispatch, TypeOK
  <2>2. sem' \in 0..maxConcurrency
    BY <1>5, LimitsAssumption DEF RecvDispatch, TypeOK
  <2> QED
    BY <1>5, <2>1, <2>2 DEF TypeOK, RecvDispatch, config, session, ghost, InSession
<1>6. ASSUME NEW r \in Runs, RecvCancel(r) PROVE TypeOK'
  <2>1. inbox' \in Seq(Inbound)
    BY <1>6 DEF RecvCancel, TypeOK
  <2>2. ctx' \in [Dispatches -> {"live", "canceled", "deadline"}]
    BY <1>6 DEF RecvCancel, TypeOK
  <2> QED
    BY <1>6, <2>1, <2>2 DEF TypeOK, RecvCancel, config, session, ghost
<1> QED
  BY <1>1, <1>2, <1>3, <1>4, <1>5, <1>6

\* Sender and heartbeat.
LEMMA SenderType ==
  ASSUME TypeOK, SenderStep \/ HeartbeatStep \/ HeartbeatSends
  PROVE  TypeOK'
<1>1. CASE SenderStep
  <2>1. sendCh' \in Seq(Outbound) /\ Len(sendCh') <= SendCap
    <3>1. CASE sendCh' = sendCh
      BY <3>1 DEF TypeOK
    <3>2. CASE sendCh # << >> /\ sendCh' = Tail(sendCh)
      <4>1. sendCh' \in Seq(Outbound) /\ Len(sendCh') = Len(sendCh) - 1 /\ Len(sendCh) \in Nat
        BY <3>2 DEF TypeOK
      <4> QED
        BY <4>1, SendCapAssumption DEF TypeOK
    <3> QED
      BY <1>1, <3>1, <3>2 DEF SenderStep
  <2>2. told' \in [Dispatches -> {"nothing", "accepted", "refused", "unannounced"} \cup Statuses]
    <3>1. CASE told' = told
      BY <3>1 DEF TypeOK
    <3>2. CASE sendCh # << >> /\ Hears(Head(sendCh))
      <4> DEFINE m == Head(sendCh)
      <4>1. m \in Outbound
        BY <3>2 DEF TypeOK
      <4>2. CASE m = Heartbeat
        BY <3>2, <4>2 DEF Hears, TypeOK
      <4>3. CASE m # Heartbeat
        <5>1. m[1] \in {"ack", "nack"} \cup Statuses /\ m[2] \in Dispatches
          BY <4>1, <4>3, MessageTypes
        <5> HIDE DEF m
        <5> QED
          BY <3>2, <4>3, <5>1 DEF Hears, TypeOK, m
      <4> QED
        BY <4>2, <4>3
    <3> QED
      BY <1>1, <3>1, <3>2 DEF SenderStep
  <2> QED
    BY <1>1, <2>1, <2>2 DEF SenderStep, TypeOK, config, jobs
<1>2. CASE HeartbeatStep
  BY <1>2 DEF HeartbeatStep, TypeOK, config, jobs, ghost
<1>3. CASE HeartbeatSends
  <2>1. sendCh' \in Seq(Outbound) /\ Len(sendCh') <= SendCap /\ crashed' \in BOOLEAN
    BY <1>3, MessageTypes, SendEffect DEF HeartbeatSends
  <2> QED
    BY <1>3, <2>1 DEF HeartbeatSends, TypeOK, config, jobs, ghost
<1> QED
  BY <1>1, <1>2, <1>3

\* When a handler returns, it is reported with one of the statuses.
LEMMA StatusReported ==
  ASSUME NEW d \in Dispatches, HandlerReturns(d)
  PROVE  /\ pc[d] = "running"
         /\ \E st \in Statuses : pc' = [pc EXCEPT ![d] = st]
BY DEF HandlerReturns, StatusOf, Statuses

\* A handler; a token it gives back is one that is held.
LEMMA HandlerType ==
  ASSUME TypeOK, Tokens, NEW d \in Dispatches, Handler(d) \/ DeadlinePasses(d)
  PROVE  TypeOK'
<1>1. CASE HandlerReturns(d)
  <2>1. PICK st \in Statuses : pc' = [pc EXCEPT ![d] = st]
    BY <1>1, StatusReported
  <2>2. inner' \in SUBSET Dispatches
    BY <1>1 DEF HandlerReturns, TypeOK
  <2> QED
    BY <1>1, <2>1, <2>2 DEF HandlerReturns, TypeOK, config, session
<1>2. CASE Report(d)
  <2>1. <<pc[d], d>> \in Outbound
    BY <1>2, MessageTypes DEF Report
  <2>2. sendCh' \in Seq(Outbound) /\ Len(sendCh') <= SendCap /\ crashed' \in BOOLEAN
    BY <1>2, <2>1, SendEffect DEF Report
  <2> QED
    BY <1>2, <2>2 DEF Report, TypeOK, config, ghost
<1>3. CASE Cleanup(d)
  <2>1. d \in TokenHolders
    BY <1>3 DEF Cleanup, TokenHolders, HasToken
  <2>2. sem # 0
    BY <2>1, FS_EmptySet DEF Tokens
  <2>3. sem' \in 0..maxConcurrency
    BY <1>3, <2>2, LimitsAssumption DEF Cleanup, TypeOK
  <2>4. cancels' \in [Runs -> Dispatches \cup {None}]
    BY <1>3 DEF Cleanup, TypeOK
  <2> QED
    BY <1>3, <2>3, <2>4 DEF Cleanup, TypeOK, config, session, ghost
<1>4. CASE DeadlinePasses(d)
  BY <1>4 DEF DeadlinePasses, TypeOK, config, session, ghost
<1> QED
  BY <1>1, <1>2, <1>3, <1>4 DEF Handler

\* Scheduler, network and Stop.
LEMMA SurroundingsType ==
  ASSUME TypeOK, Surroundings
  PROVE  TypeOK'
<1>1. CASE Stop \/ StreamBreaks
  BY <1>1 DEF Stop, StreamBreaks, TypeOK, config, session, jobs, ghost
<1>2. ASSUME NEW d \in Dispatches, SchedulerDispatches(d) PROVE TypeOK'
  <2>1. inbox' \in Seq(Inbound)
    BY <1>2, MessageTypes DEF SchedulerDispatches, TypeOK
  <2> QED
    BY <1>2, <2>1 DEF SchedulerDispatches, TypeOK, config, session, ghost
<1>3. ASSUME NEW r \in Runs, SchedulerCancels(r) PROVE TypeOK'
  <2>1. inbox' \in Seq(Inbound)
    BY <1>3, MessageTypes DEF SchedulerCancels, TypeOK
  <2> QED
    BY <1>3, <2>1 DEF SchedulerCancels, TypeOK, config, session, jobs
<1> QED
  BY <1>1, <1>2, <1>3 DEF Surroundings

-----------------------------------------------------------------------------
(* The receive loop and its inbox.                                         *)

\* The positions after Tail and Append.
LEMMA TailAt ==
  ASSUME NEW S, NEW s \in Seq(S), s # << >>
  PROVE  /\ Len(s) \in Nat /\ Len(s) >= 1 /\ Head(s) = s[1] /\ Head(s) \in S
         /\ Tail(s) \in Seq(S) /\ Len(Tail(s)) = Len(s) - 1
         /\ \A i \in 1..Len(Tail(s)) : Tail(s)[i] = s[i + 1] /\ i + 1 \in 1..Len(s)
OBVIOUS

\* What is read from the inbox was sent and not read before.
LEMMA HeadIsSent ==
  ASSUME Core, NEW d \in Dispatches, RecvDispatch(d)
  PROVE  pc[d] = "sent"
<1>1. Len(inbox) \in Nat /\ Len(inbox) >= 1 /\ inbox[1] = <<"dispatch", d>>
  BY TailAt DEF RecvDispatch, Core, TypeOK
<1>2. inbox[1][1] = "dispatch" /\ inbox[1][2] = d
  BY <1>1
<1> QED
  BY <1>1, <1>2 DEF Core, InboxOK

\* The steps of the loop itself.
LEMMA LoopControl ==
  ASSUME Core, StreamLoop
  PROVE  Control'
<1> USE DEF Core
<1>1. CASE LoopReturns \/ BackoffEnds \/ (Connect /\ UNCHANGED session)
  BY <1>1 DEF Control, LoopReturns, BackoffEnds, Connect, session, jobs, InSession
<1>2. CASE Connect /\ ~ UNCHANGED session
  <2>0. /\ at = "top" /\ at' = "recv" /\ sess' = sess + 1 /\ sessDone' = FALSE /\ closed' = FALSE
        /\ UNCHANGED <<cur, pc, sessOf>>
    BY <1>2 DEF Connect, jobs
  <2>1. \A d \in Dispatches : pc[d] \notin {"sent", "accepted"}
    BY <2>0 DEF Control
  <2>2. \A d \in Dispatches : sessOf[d] <= sess'
    BY <2>0 DEF Control, TypeOK
  <2> QED
    BY <2>0, <2>1, <2>2 DEF Control, InSession
<1>3. CASE RecvFails
  <2>0. /\ at = "recv" /\ at' = "cancelled" /\ sessDone' = TRUE /\ UNCHANGED <<cur, sess, closed, sessOf>>
        /\ \A d \in Dispatches : pc'[d] = IF pc[d] = "sent" THEN "unread" ELSE pc[d]
    BY <1>3 DEF RecvFails, TypeOK
  <2> QED
    BY <2>0 DEF Control, InSession
<1>4. CASE CloseSendCh \/ SessionOver
  BY <1>4 DEF Control, CloseSendCh, SessionOver, jobs, InSession
<1>5. CASE SendNack \/ SendAck
  BY <1>5 DEF Control, SendNack, SendAck, jobs, InSession
<1>6. CASE Spawn
  <2>0. cur \in Dispatches /\ pc' = [pc EXCEPT ![cur] = "running"] /\ at = "spawn" /\ at' = "recv"
        /\ UNCHANGED <<sess, sessDone, closed, sessOf>>
    BY <1>6 DEF Control, Spawn, session
  <2> QED
    BY <2>0 DEF Control, InSession, TypeOK
<1>7. ASSUME NEW d \in Dispatches, RecvDispatch(d) PROVE Control'
  <2>0. /\ at = "recv" /\ cur' = d /\ UNCHANGED <<sess, sessDone, closed, sessOf>>
        /\ \/ at' = "nack" /\ pc' = [pc EXCEPT ![d] = "rejected"]
           \/ at' = "ack" /\ pc' = [pc EXCEPT ![d] = "accepted"]
    BY <1>7 DEF RecvDispatch, session
  <2>1. pc[d] = "sent"
    BY <1>7, HeadIsSent
  <2>2. \A e \in Dispatches : pc[e] # "accepted"
    BY <2>0 DEF Control
  <2> QED
    BY <2>0, <2>1, <2>2 DEF Control, InSession, TypeOK
<1>8. ASSUME NEW r \in Runs, RecvCancel(r) PROVE Control'
  BY <1>8 DEF RecvCancel, session, Control, InSession
<1> QED
  BY <1>1, <1>2, <1>3, <1>4, <1>5, <1>6, <1>7, <1>8 DEF StreamLoop

\* The steps of the others.
LEMMA OthersControl ==
  ASSUME Core,
         \/ SenderStep \/ HeartbeatStep \/ HeartbeatSends \/ Surroundings
         \/ \E d \in Dispatches : Handler(d) \/ DeadlinePasses(d)
  PROVE  Control'
<1> USE DEF Core
<1>1. CASE \/ SenderStep \/ HeartbeatStep \/ HeartbeatSends \/ Stop \/ StreamBreaks
           \/ \E r \in Runs : SchedulerCancels(r)
           \/ \E d \in Dispatches : DeadlinePasses(d)
  <2>1. UNCHANGED <<at, cur, sess, sessDone, closed, pc, sessOf>>
    BY <1>1 DEF SenderStep, HeartbeatStep, HeartbeatSends, Stop, StreamBreaks, SchedulerCancels,
                DeadlinePasses, session, jobs
  <2> QED
    BY <2>1 DEF Control, InSession
<1>2. ASSUME NEW d \in Dispatches, Handler(d) PROVE Control'
  <2>0. /\ UNCHANGED <<at, cur, sess, sessDone, closed, sessOf>>
        /\ pc[d] \in {"running", "cleanup"} \cup Statuses
        /\ \E st \in {"cleanup", "over"} \cup Statuses : pc' = [pc EXCEPT ![d] = st]
    <3>1. CASE HandlerReturns(d)
      BY <3>1, StatusReported DEF HandlerReturns, session
    <3>2. CASE Report(d) \/ Cleanup(d)
      BY <3>2 DEF Report, Cleanup, session
    <3> QED
      BY <1>2, <3>1, <3>2 DEF Handler
  <2> QED
    BY <2>0 DEF Control, InSession, TypeOK, Statuses
<1>3. ASSUME NEW d \in Dispatches, SchedulerDispatches(d) PROVE Control'
  <2>0. /\ UNCHANGED <<at, cur, sess, sessDone, closed>>
        /\ pc[d] = "none" /\ pc' = [pc EXCEPT ![d] = "sent"]
        /\ sessOf' = [sessOf EXCEPT ![d] = sess] /\ ~sessDone /\ at \in InSession
    BY <1>3 DEF SchedulerDispatches, Connected, SessCtxDone, session
  <2>1. sess <= sess
    BY DEF TypeOK
  <2> QED
    BY <2>0, <2>1 DEF Control, InSession, TypeOK
<1> QED
  BY <1>1, <1>2, <1>3 DEF Surroundings

\* The inbox.
LEMMA InboxStep ==
  ASSUME Core, Next
  PROVE  InboxOK'
<1> USE DEF Core
<1>1. CASE /\ UNCHANGED inbox
           /\ asked \subseteq asked'
           /\ \A d \in Dispatches : pc[d] = "sent" => pc'[d] = "sent"
  <2>1. \A i \in 1..Len(inbox) : inbox[i] \in Inbound
    BY DEF TypeOK
  <2> QED
    BY <1>1, <2>1, MessageTypes DEF InboxOK
<1>2. CASE inbox' = << >>
  BY <1>2 DEF InboxOK
<1>3. ASSUME inbox # << >>, inbox' = Tail(inbox), asked' = asked,
             \A i \in 2..Len(inbox) : inbox[i][1] = "dispatch" => pc'[inbox[i][2]] = pc[inbox[i][2]]
      PROVE  InboxOK'
  <2>1. /\ Len(inbox) \in Nat /\ Len(inbox') = Len(inbox) - 1
        /\ \A i \in 1..Len(inbox') : inbox'[i] = inbox[i + 1] /\ i + 1 \in 1..Len(inbox)
    BY <1>3, TailAt DEF TypeOK
  <2>2. ASSUME NEW i \in 1..Len(inbox')
        PROVE  /\ inbox'[i][1] = "dispatch" => pc'[inbox'[i][2]] = "sent"
               /\ inbox'[i][1] = "cancel" => inbox'[i][2] \in asked'
    <3>1. i + 1 \in 1..Len(inbox) /\ i + 1 \in 2..Len(inbox) /\ inbox'[i] = inbox[i + 1]
      BY <2>1
    <3> QED
      BY <1>3, <3>1 DEF InboxOK
  <2>3. ASSUME NEW i \in 1..Len(inbox'), NEW j \in 1..Len(inbox'), i # j,
               inbox'[i][1] = "dispatch", inbox'[j][1] = "dispatch"
        PROVE  inbox'[i][2] # inbox'[j][2]
    <3>1. i + 1 # j + 1 /\ i + 1 \in 1..Len(inbox) /\ j + 1 \in 1..Len(inbox)
      BY <2>1, <2>3
    <3>2. inbox'[i] = inbox[i + 1] /\ inbox'[j] = inbox[j + 1]
      BY <2>1
    <3> QED
      BY <2>3, <3>1, <3>2 DEF InboxOK
  <2> QED
    BY <2>2, <2>3 DEF InboxOK
<1>4. ASSUME NEW d \in Dispatches, RecvDispatch(d) PROVE InboxOK'
  <2>0. /\ inbox # << >> /\ Head(inbox) = <<"dispatch", d>> /\ inbox' = Tail(inbox) /\ asked' = asked
        /\ \E st : pc' = [pc EXCEPT ![d] = st]
    BY <1>4 DEF RecvDispatch, ghost
  <2>1. 1 \in 1..Len(inbox) /\ inbox[1][1] = "dispatch" /\ inbox[1][2] = d
    BY <2>0, TailAt DEF TypeOK
  <2>2. \A i \in 2..Len(inbox) : inbox[i][1] = "dispatch" => inbox[i][2] # d
    BY <2>1 DEF InboxOK
  <2>3. \A i \in 2..Len(inbox) : inbox[i][1] = "dispatch" => pc'[inbox[i][2]] = pc[inbox[i][2]]
    BY <2>0, <2>2 DEF TypeOK
  <2> QED
    BY <1>3, <2>0, <2>3
<1>5. ASSUME NEW r \in Runs, RecvCancel(r) PROVE InboxOK'
  <2>0. inbox # << >> /\ inbox' = Tail(inbox) /\ asked' = asked /\ pc' = pc
    BY <1>5 DEF RecvCancel, ghost
  <2> QED
    BY <1>3, <2>0
<1>6. ASSUME NEW m \in Inbound, inbox' = Append(inbox, m), asked \subseteq asked',
             m[1] = "dispatch" => pc[m[2]] = "none" /\ pc' = [pc EXCEPT ![m[2]] = "sent"],
             m[1] = "cancel" => pc' = pc /\ m[2] \in asked'
      PROVE  InboxOK'
  <2>0. \A i \in 1..Len(inbox) : inbox[i] \in Inbound
    BY DEF TypeOK
  <2>1. /\ Len(inbox) \in Nat /\ Len(inbox') = Len(inbox) + 1 /\ inbox'[Len(inbox) + 1] = m
        /\ \A i \in 1..Len(inbox) : inbox'[i] = inbox[i]
    BY <1>6 DEF TypeOK
  <2>2. m[1] = "dispatch" => m[2] \in Dispatches
    BY MessageTypes
  <2>2a. m[1] \in {"dispatch", "cancel"}
    BY MessageTypes
  <2>3. \A e \in Dispatches : pc[e] = "sent" => pc'[e] = "sent"
    BY <1>6, <2>2, <2>2a DEF TypeOK
  <2>4. ASSUME NEW i \in 1..Len(inbox')
        PROVE  /\ inbox'[i][1] = "dispatch" => pc'[inbox'[i][2]] = "sent"
               /\ inbox'[i][1] = "cancel" => inbox'[i][2] \in asked'
    <3>1. CASE i \in 1..Len(inbox)
      BY <1>6, <2>0, <2>1, <2>3, <3>1, MessageTypes DEF InboxOK
    <3>2. CASE i = Len(inbox) + 1
      BY <1>6, <2>1, <2>2, <3>2 DEF TypeOK
    <3> QED
      BY <2>1, <3>1, <3>2
  <2>5. ASSUME NEW i \in 1..Len(inbox'), NEW j \in 1..Len(inbox'), i # j,
               inbox'[i][1] = "dispatch", inbox'[j][1] = "dispatch"
        PROVE  inbox'[i][2] # inbox'[j][2]
    <3>1. CASE i \in 1..Len(inbox) /\ j \in 1..Len(inbox)
      BY <2>1, <2>5, <3>1 DEF InboxOK
    <3>2. CASE i = Len(inbox) + 1 /\ j \in 1..Len(inbox)
      BY <1>6, <2>1, <2>5, <3>2 DEF InboxOK
    <3>3. CASE j = Len(inbox) + 1 /\ i \in 1..Len(inbox)
      BY <1>6, <2>1, <2>5, <3>3 DEF InboxOK
    <3> QED
      BY <2>1, <2>5, <3>1, <3>2, <3>3
  <2> QED
    BY <2>4, <2>5 DEF InboxOK
<1>7. ASSUME NEW d \in Dispatches, SchedulerDispatches(d) PROVE InboxOK'
  <2>0. <<"dispatch", d>> \in Inbound /\ <<"dispatch", d>>[1] = "dispatch" /\ <<"dispatch", d>>[2] = d
    BY MessageTypes
  <2> QED
    BY <1>6, <1>7, <2>0 DEF SchedulerDispatches, ghost
<1>8. ASSUME NEW r \in Runs, SchedulerCancels(r) PROVE InboxOK'
  <2>0. <<"cancel", r>> \in Inbound /\ <<"cancel", r>>[1] = "cancel" /\ <<"cancel", r>>[2] = r
    BY MessageTypes
  <2> QED
    BY <1>6, <1>8, <2>0 DEF SchedulerCancels, jobs
<1>9. CASE RecvFails
  BY <1>2, <1>9 DEF RecvFails
<1>10. CASE \/ LoopReturns \/ Connect \/ BackoffEnds \/ CloseSendCh \/ SessionOver
            \/ SendNack \/ SendAck \/ SenderStep \/ HeartbeatStep \/ HeartbeatSends \/ Stop \/ StreamBreaks
            \/ \E d \in Dispatches : DeadlinePasses(d)
  <2>1. UNCHANGED <<inbox, asked, pc>>
    BY <1>10 DEF LoopReturns, Connect, BackoffEnds, CloseSendCh, SessionOver, SendNack, SendAck,
                 SenderStep, HeartbeatStep, HeartbeatSends, Stop, StreamBreaks, DeadlinePasses, jobs, ghost
  <2> QED
    BY <1>1, <2>1
<1>11. CASE Spawn
  BY <1>1, <1>11 DEF Spawn, TypeOK, Control
<1>12. ASSUME NEW d \in Dispatches, Handler(d) PROVE InboxOK'
  BY <1>1, <1>12 DEF Handler, HandlerReturns, Report, Cleanup, TypeOK, Statuses, ghost
<1> QED
  BY <1>4, <1>5, <1>7, <1>8, <1>9, <1>10, <1>11, <1>12 DEF Next, StreamLoop, Surroundings

-----------------------------------------------------------------------------
(* Tokens, handles and the reasons of a cancellation.                      *)

\* concurrencySem counts the dispatches that hold a token.
LEMMA TokensStep ==
  ASSUME Core, Next
  PROVE  Tokens'
<1> USE DEF Core
<1>1. ASSUME UNCHANGED sem, \A d \in Dispatches : HasToken(d)' <=> HasToken(d)
      PROVE  Tokens'
  <2>1. TokenHolders' = TokenHolders
    BY <1>1 DEF TokenHolders
  <2> QED
    BY <1>1, <2>1 DEF Tokens
<1>2. CASE UNCHANGED <<pc, sem>>
  BY <1>1, <1>2 DEF HasToken
<1>3. CASE RecvFails
  <2>1. \A d \in Dispatches : pc'[d] = IF pc[d] = "sent" THEN "unread" ELSE pc[d]
    BY <1>3 DEF RecvFails
  <2> QED
    BY <1>1, <1>3, <2>1 DEF RecvFails, HasToken, Statuses
<1>4. CASE Spawn
  <2>1. cur \in Dispatches /\ pc[cur] = "accepted"
    BY <1>4 DEF Spawn, Control
  <2>2. \A d \in Dispatches : pc'[d] = IF d = cur THEN "running" ELSE pc[d]
    BY <1>4, <2>1 DEF Spawn, TypeOK
  <2> QED
    BY <1>1, <1>4, <2>1, <2>2 DEF Spawn, HasToken
<1>5. ASSUME NEW d \in Dispatches, HandlerReturns(d) \/ Report(d) PROVE Tokens'
  <2>1. /\ pc[d] \in {"running"} \cup Statuses
        /\ \E st \in {"cleanup"} \cup Statuses : pc' = [pc EXCEPT ![d] = st]
        /\ UNCHANGED sem
    BY <1>5, StatusReported DEF HandlerReturns, Report
  <2> QED
    BY <1>1, <2>1 DEF HasToken, TypeOK
<1>6. ASSUME NEW d \in Dispatches, SchedulerDispatches(d) PROVE Tokens'
  <2>1. pc[d] = "none" /\ pc' = [pc EXCEPT ![d] = "sent"] /\ UNCHANGED sem
    BY <1>6 DEF SchedulerDispatches
  <2> QED
    BY <1>1, <2>1 DEF HasToken, TypeOK, Statuses
<1>7. ASSUME NEW d \in Dispatches, Cleanup(d) PROVE Tokens'
  <2>1. pc[d] = "cleanup" /\ pc' = [pc EXCEPT ![d] = "over"] /\ sem' = sem - 1
    BY <1>7 DEF Cleanup
  <2>2. d \in TokenHolders /\ TokenHolders' = TokenHolders \ {d}
    BY <2>1 DEF TokenHolders, HasToken, TypeOK, Statuses
  <2>3. IsFiniteSet(TokenHolders \ {d}) /\ Cardinality(TokenHolders \ {d}) = Cardinality(TokenHolders) - 1
    BY <2>2, FS_RemoveElement DEF Tokens
  <2> QED
    BY <2>1, <2>2, <2>3 DEF Tokens
<1>8. ASSUME NEW d \in Dispatches, RecvDispatch(d) PROVE Tokens'
  <2>0. pc[d] = "sent"
    BY <1>8, HeadIsSent
  <2>1. CASE pc' = [pc EXCEPT ![d] = "rejected"] /\ UNCHANGED sem
    BY <1>1, <2>0, <2>1 DEF HasToken, TypeOK, Statuses
  <2>2. CASE pc' = [pc EXCEPT ![d] = "accepted"] /\ sem' = sem + 1
    <3>1. d \notin TokenHolders /\ TokenHolders' = TokenHolders \cup {d}
      BY <2>0, <2>2 DEF TokenHolders, HasToken, TypeOK, Statuses
    <3>2. IsFiniteSet(TokenHolders \cup {d}) /\ Cardinality(TokenHolders \cup {d}) = Cardinality(TokenHolders) + 1
      BY <3>1, FS_AddElement DEF Tokens
    <3> QED
      BY <2>2, <3>1, <3>2 DEF Tokens
  <2> QED
    BY <1>8, <2>1, <2>2 DEF RecvDispatch
<1>9. CASE \/ LoopReturns \/ Connect \/ BackoffEnds \/ CloseSendCh \/ SessionOver
           \/ SendNack \/ SendAck \/ SenderStep \/ HeartbeatStep \/ HeartbeatSends \/ Stop \/ StreamBreaks
           \/ \E d \in Dispatches : DeadlinePasses(d)
           \/ \E r \in Runs : RecvCancel(r) \/ SchedulerCancels(r)
  <2>1. UNCHANGED <<pc, sem>>
    BY <1>9 DEF LoopReturns, Connect, BackoffEnds, CloseSendCh, SessionOver, SendNack, SendAck,
                SenderStep, HeartbeatStep, HeartbeatSends, Stop, StreamBreaks, DeadlinePasses,
                RecvCancel, SchedulerCancels, jobs
  <2> QED
    BY <1>2, <2>1
<1> QED
  BY <1>3, <1>4, <1>5, <1>6, <1>7, <1>8, <1>9 DEF Next, StreamLoop, Surroundings, Handler

\* The core of the invariant holds after every step.
LEMMA CoreStep == Core /\ [Next]_vars => Core'
<1> SUFFICES ASSUME Core, [Next]_vars PROVE Core'
  OBVIOUS
<1>1. CASE Next
  <2>1. TypeOK'
    BY <1>1, LoopType, RecvType, SenderType, HandlerType, SurroundingsType DEF Next, StreamLoop, Core
  <2>2. Control'
    BY <1>1, LoopControl, OthersControl DEF Next
  <2> QED
    BY <1>1, <2>1, <2>2, InboxStep, TokensStep DEF Core
<1>2. CASE UNCHANGED vars
  <2>1. UNCHANGED <<handled, maxConcurrency, rootDone, crashed, at, cur, sess, sessDone, closed, sendCh,
                    sender, hb, broken, inbox, pc, sessOf, ctx, sem, cancels, told, asked, inner, doubled>>
    BY <1>2 DEF vars, config, session, jobs, ghost
  <2>2. TypeOK' /\ Control' /\ InboxOK'
    BY <2>1 DEF Core, TypeOK, Control, InboxOK
  <2>3. TokenHolders' = TokenHolders
    BY <2>1 DEF TokenHolders, HasToken
  <2> QED
    BY <2>1, <2>2, <2>3 DEF Core, Tokens
<1> QED
  BY <1>1, <1>2

\* A handle is entered with its handler and deleted by the first handler of
\* its run that ends.
LEMMA HandlesStep ==
  ASSUME Core, CancelFindsHandler, Next
  PROVE  CancelFindsHandler'
<1> USE DEF Core
<1>1. ASSUME UNCHANGED <<cancels, doubled>>, \A d \in Dispatches : Live(d)' <=> Live(d)
      PROVE  CancelFindsHandler'
  <2>1. \A r \in Runs : cancels[r] # None => cancels[r] \in Dispatches
    BY DEF TypeOK
  <2> QED
    BY <1>1, <2>1 DEF CancelFindsHandler
<1>2. CASE UNCHANGED <<pc, cancels, doubled>>
  BY <1>1, <1>2 DEF Live
<1>3. CASE RecvFails
  <2>1. \A d \in Dispatches : pc'[d] = IF pc[d] = "sent" THEN "unread" ELSE pc[d]
    BY <1>3 DEF RecvFails
  <2> QED
    BY <1>1, <1>3, <2>1 DEF RecvFails, Live, Statuses, ghost
<1>4. CASE Spawn
  <2>1. cur \in Dispatches /\ pc[cur] = "accepted" /\ RunOf[cur] \in Runs
    BY <1>4, RunOfAssumption DEF Spawn, Control
  <2>2. /\ cancels' = [cancels EXCEPT ![RunOf[cur]] = cur]
        /\ doubled' = IF \E d \in Dispatches : Live(d) /\ RunOf[d] = RunOf[cur]
                      THEN doubled \cup {RunOf[cur]} ELSE doubled
    BY <1>4 DEF Spawn
  <2>3. \A d \in Dispatches : pc'[d] \in {"running", "cleanup"} \cup Statuses <=> d = cur \/ Live(d)
    BY <1>4, <2>1 DEF Spawn, TypeOK, Live
  <2>4. ASSUME NEW d \in Dispatches, pc'[d] \in {"running", "cleanup"} \cup Statuses, RunOf[d] \notin doubled'
        PROVE  cancels'[RunOf[d]] = d
    <3>1. CASE d = cur
      BY <2>1, <2>2, <3>1 DEF TypeOK
    <3>2. CASE d # cur
      <4>1. Live(d)
        BY <2>3, <2>4, <3>2
      <4>2. RunOf[d] # RunOf[cur] /\ RunOf[d] \notin doubled
        BY <2>2, <2>4, <4>1
      <4> QED
        BY <2>2, <4>1, <4>2 DEF TypeOK, CancelFindsHandler
    <3> QED
      BY <3>1, <3>2
  <2>5. ASSUME NEW r \in Runs, cancels'[r] # None
        PROVE  pc'[cancels'[r]] \in {"running", "cleanup"} \cup Statuses /\ RunOf[cancels'[r]] = r
    <3>1. CASE r = RunOf[cur]
      <4>1. cancels'[r] = cur
        BY <2>1, <2>2, <3>1 DEF TypeOK
      <4> QED
        BY <2>1, <2>3, <3>1, <4>1
    <3>2. CASE r # RunOf[cur]
      <4>1. cancels'[r] = cancels[r] /\ cancels[r] \in Dispatches
        BY <2>2, <2>5, <3>2 DEF TypeOK
      <4> QED
        BY <2>3, <2>5, <4>1 DEF CancelFindsHandler
    <3> QED
      BY <3>1, <3>2
  <2> QED
    BY <2>4, <2>5 DEF CancelFindsHandler, Live
<1>5. ASSUME NEW d \in Dispatches, HandlerReturns(d) \/ Report(d) PROVE CancelFindsHandler'
  <2>1. /\ pc[d] \in {"running"} \cup Statuses
        /\ \E st \in {"cleanup"} \cup Statuses : pc' = [pc EXCEPT ![d] = st]
        /\ UNCHANGED <<cancels, doubled>>
    BY <1>5, StatusReported DEF HandlerReturns, Report, ghost
  <2> QED
    BY <1>1, <2>1 DEF Live, TypeOK
<1>6. ASSUME NEW d \in Dispatches, SchedulerDispatches(d) PROVE CancelFindsHandler'
  <2>1. pc[d] = "none" /\ pc' = [pc EXCEPT ![d] = "sent"] /\ UNCHANGED <<cancels, doubled>>
    BY <1>6 DEF SchedulerDispatches, ghost
  <2> QED
    BY <1>1, <2>1 DEF Live, TypeOK, Statuses
<1>7. ASSUME NEW d \in Dispatches, Cleanup(d) PROVE CancelFindsHandler'
  <2>1. /\ pc[d] = "cleanup" /\ pc' = [pc EXCEPT ![d] = "over"] /\ UNCHANGED doubled
        /\ cancels' = [cancels EXCEPT ![RunOf[d]] = None]
    BY <1>7 DEF Cleanup, ghost
  <2>2. Live(d) /\ \A e \in Dispatches : pc'[e] \in {"running", "cleanup"} \cup Statuses <=> Live(e) /\ e # d
    BY <2>1 DEF Live, TypeOK, Statuses
  <2>3. ASSUME NEW e \in Dispatches, pc'[e] \in {"running", "cleanup"} \cup Statuses, RunOf[e] \notin doubled'
        PROVE  cancels'[RunOf[e]] = e
    <3>1. Live(e) /\ e # d /\ RunOf[e] \notin doubled
      BY <2>1, <2>2, <2>3
    <3>2. RunOf[e] # RunOf[d]
      BY <2>2, <3>1 DEF CancelFindsHandler
    <3> QED
      BY <2>1, <3>1, <3>2 DEF CancelFindsHandler, TypeOK
  <2>4. ASSUME NEW r \in Runs, cancels'[r] # None
        PROVE  pc'[cancels'[r]] \in {"running", "cleanup"} \cup Statuses /\ RunOf[cancels'[r]] = r
    <3>1. r # RunOf[d] /\ cancels'[r] = cancels[r] /\ cancels[r] \in Dispatches
      BY <2>1, <2>4 DEF TypeOK
    <3> QED
      BY <2>2, <2>4, <3>1 DEF CancelFindsHandler
  <2> QED
    BY <2>3, <2>4 DEF CancelFindsHandler, Live
<1>8. ASSUME NEW d \in Dispatches, RecvDispatch(d) PROVE CancelFindsHandler'
  <2>0. pc[d] = "sent"
    BY <1>8, HeadIsSent
  <2>1. (\E st \in {"rejected", "accepted"} : pc' = [pc EXCEPT ![d] = st]) /\ UNCHANGED <<cancels, doubled>>
    BY <1>8 DEF RecvDispatch, ghost
  <2> QED
    BY <1>1, <2>0, <2>1 DEF Live, TypeOK, Statuses
<1>9. CASE \/ LoopReturns \/ Connect \/ BackoffEnds \/ CloseSendCh \/ SessionOver
           \/ SendNack \/ SendAck \/ SenderStep \/ HeartbeatStep \/ HeartbeatSends \/ Stop \/ StreamBreaks
           \/ \E d \in Dispatches : DeadlinePasses(d)
           \/ \E r \in Runs : RecvCancel(r) \/ SchedulerCancels(r)
  <2>1. UNCHANGED <<pc, cancels, doubled>>
    BY <1>9 DEF LoopReturns, Connect, BackoffEnds, CloseSendCh, SessionOver, SendNack, SendAck,
                SenderStep, HeartbeatStep, HeartbeatSends, Stop, StreamBreaks, DeadlinePasses,
                RecvCancel, SchedulerCancels, jobs, ghost
  <2> QED
    BY <1>2, <2>1
<1> QED
  BY <1>3, <1>4, <1>5, <1>6, <1>7, <1>8, <1>9 DEF Next, StreamLoop, Surroundings, Handler

\* A dispatch stays in its session, and a session that is done stays so: the
\* next one has a higher number.
LEMMA SessionStays ==
  ASSUME Core, Next, NEW d \in Dispatches, pc[d] # "none"
  PROVE  /\ sessOf'[d] = sessOf[d]
         /\ CtxDone(sessOf[d]) => CtxDone(sessOf[d])'
         /\ Excused(d) => Excused(d)'
<1> USE DEF Core
<1>1. sessOf'[d] = sessOf[d]
  <2>1. CASE sessOf' = sessOf
    BY <2>1
  <2>2. ASSUME NEW e \in Dispatches, SchedulerDispatches(e) PROVE sessOf'[d] = sessOf[d]
    BY <2>2 DEF SchedulerDispatches, TypeOK
  <2> QED
    BY <2>1, <2>2 DEF Next, StreamLoop, Surroundings, Handler, LoopReturns, Connect, BackoffEnds,
         RecvFails, CloseSendCh, SessionOver, SendNack, SendAck, Spawn, RecvDispatch, RecvCancel,
         SenderStep, HeartbeatStep, HeartbeatSends, HandlerReturns, Report, Cleanup, DeadlinePasses,
         Stop, StreamBreaks, SchedulerCancels, jobs
<1>2. \/ sess' = sess /\ (sessDone => sessDone') /\ (rootDone => rootDone')
      \/ sess' = sess + 1
  BY DEF Next, StreamLoop, Surroundings, Handler, LoopReturns, Connect, BackoffEnds,
         RecvFails, CloseSendCh, SessionOver, SendNack, SendAck, Spawn, RecvDispatch, RecvCancel,
         SenderStep, HeartbeatStep, HeartbeatSends, HandlerReturns, Report, Cleanup, DeadlinePasses,
         Stop, StreamBreaks, SchedulerDispatches, SchedulerCancels, session
<1>3. asked \subseteq asked' /\ inner \subseteq inner'
  BY DEF Next, StreamLoop, Surroundings, Handler, LoopReturns, Connect, BackoffEnds,
         RecvFails, CloseSendCh, SessionOver, SendNack, SendAck, Spawn, RecvDispatch, RecvCancel,
         SenderStep, HeartbeatStep, HeartbeatSends, HandlerReturns, Report, Cleanup, DeadlinePasses,
         Stop, StreamBreaks, SchedulerDispatches, SchedulerCancels, ghost
<1>4. sess \in Nat /\ sessOf[d] \in Nat /\ sessOf[d] <= sess
  BY DEF TypeOK, Control
<1>5. CtxDone(sessOf[d]) => CtxDone(sessOf[d])'
  <2>1. CASE sess' = sess /\ (sessDone => sessDone') /\ (rootDone => rootDone')
    BY <1>1, <2>1, Zenon DEF CtxDone, SessCtxDone
  <2>2. CASE sess' = sess + 1
    BY <1>1, <1>4, <2>2 DEF CtxDone
  <2> QED
    BY <1>2, <2>1, <2>2
<1>6. Excused(d) => Excused(d)'
  BY <1>3, <1>5 DEF Excused
<1> QED
  BY <1>1, <1>5, <1>6

\* A handler is reported as canceled on request, because its session is done,
\* or because it returned the Canceled of another context.
LEMMA ReasonsStep ==
  ASSUME Core, CancelFindsHandler, CancelReasons, Next
  PROVE  CancelReasons'
<1> SUFFICES ASSUME NEW d \in Dispatches
             PROVE  /\ ctx'[d] = "canceled" => RunOf[d] \in asked'
                    /\ pc'[d] = "canceled" => Excused(d)'
  BY DEF CancelReasons
<1> USE DEF Core
<1>0. /\ ctx[d] = "canceled" => RunOf[d] \in asked
      /\ pc[d] = "canceled" => Excused(d)
  BY DEF CancelReasons
<1>1. asked \subseteq asked'
  BY DEF Next, StreamLoop, Surroundings, Handler, LoopReturns, Connect, BackoffEnds,
         RecvFails, CloseSendCh, SessionOver, SendNack, SendAck, Spawn, RecvDispatch, RecvCancel,
         SenderStep, HeartbeatStep, HeartbeatSends, HandlerReturns, Report, Cleanup, DeadlinePasses,
         Stop, StreamBreaks, SchedulerDispatches, SchedulerCancels, ghost
<1>2. ctx'[d] = "canceled" => RunOf[d] \in asked'
  <2>1. CASE ctx' = ctx
    BY <1>0, <1>1, <2>1
  <2>2. ASSUME NEW r \in Runs, RecvCancel(r), ctx'[d] # ctx[d] PROVE RunOf[d] \in asked'
    <3>1. /\ inbox # << >> /\ Head(inbox) = <<"cancel", r>> /\ cancels[r] = d
      BY <2>2 DEF RecvCancel, TypeOK
    <3>2. Len(inbox) \in Nat /\ Len(inbox) >= 1 /\ inbox[1][1] = "cancel" /\ inbox[1][2] = r
      BY <3>1, TailAt DEF TypeOK
    <3>3. r \in asked
      BY <3>2 DEF InboxOK
    <3>4. RunOf[d] = r
      BY <3>1, NoneAssumption DEF CancelFindsHandler
    <3> QED
      BY <1>1, <3>3, <3>4
  <2>3. ASSUME NEW e \in Dispatches, DeadlinePasses(e), ctx'[d] # ctx[d] PROVE ctx'[d] = "deadline"
    BY <2>3 DEF DeadlinePasses, TypeOK
  <2> QED
    BY <1>0, <1>1, <2>1, <2>2, <2>3
       DEF Next, StreamLoop, Surroundings, Handler, LoopReturns, Connect, BackoffEnds,
         RecvFails, CloseSendCh, SessionOver, SendNack, SendAck, Spawn, RecvDispatch,
         SenderStep, HeartbeatStep, HeartbeatSends, HandlerReturns, Report, Cleanup,
         Stop, StreamBreaks, SchedulerDispatches, SchedulerCancels, jobs
<1>3. pc'[d] = "canceled" => Excused(d)'
  <2>1. CASE pc'[d] = pc[d] /\ pc[d] # "none"
    BY <1>0, <2>1, SessionStays
  <2>2. ASSUME NEW e \in Dispatches, HandlerReturns(e), pc'[d] = "canceled", pc'[d] # pc[d]
        PROVE  Excused(d)'
    <3>1. PICK errs \in SUBSET {"deadline", "canceled"} :
            /\ pc' = [pc EXCEPT ![e] = StatusOf(errs)]
            /\ inner' = IF errs = {"canceled"} /\ CtxErr(e) # "canceled"
                        THEN inner \cup {e} ELSE inner
      BY <2>2 DEF HandlerReturns
    <3>2. e = d /\ pc[d] = "running" /\ StatusOf(errs) = "canceled"
      BY <2>2, <3>1 DEF HandlerReturns, TypeOK
    <3>3. errs = {"canceled"}
      BY <3>1, <3>2 DEF StatusOf
    <3>4. CASE CtxErr(d) = "canceled"
      <4>1. Excused(d)
        BY <1>0, <3>4 DEF CtxErr, Excused
      <4> QED
        BY <3>2, <4>1, SessionStays
    <3>5. CASE CtxErr(d) # "canceled"
      BY <3>1, <3>2, <3>3, <3>5 DEF Excused
    <3> QED
      BY <3>4, <3>5
  <2>3. ASSUME pc'[d] # pc[d], pc'[d] = "canceled" PROVE \E e \in Dispatches : HandlerReturns(e)
    <3>1. CASE Spawn
      BY <2>3, <3>1 DEF Spawn, Control, TypeOK
    <3>2. CASE RecvFails
      BY <2>3, <3>2 DEF RecvFails
    <3>3. ASSUME NEW e \in Dispatches, RecvDispatch(e) \/ Report(e) \/ Cleanup(e) \/ SchedulerDispatches(e)
          PROVE  FALSE
      BY <2>3, <3>3 DEF RecvDispatch, Report, Cleanup, SchedulerDispatches, TypeOK
    <3>4. CASE pc' = pc
      BY <2>3, <3>4
    <3> QED
      BY <3>1, <3>2, <3>3, <3>4
       DEF Next, StreamLoop, Surroundings, Handler, LoopReturns, Connect, BackoffEnds,
         CloseSendCh, SessionOver, SendNack, SendAck, RecvCancel,
         SenderStep, HeartbeatStep, HeartbeatSends, DeadlinePasses,
         Stop, StreamBreaks, SchedulerCancels, jobs
  <2> QED
    BY <2>1, <2>2, <2>3
<1> QED
  BY <1>2, <1>3

-----------------------------------------------------------------------------
(* The channel: steps that leave it and what was heard alone.              *)

\* A message about a dispatch is one of four kinds, and one about a dispatch
\* that was not even sent does not exist.
LEMMA MessageAt ==
  ASSUME Core, Channel, NEW i \in 1..Len(sendCh)
  PROVE  /\ sendCh[i] \in Outbound
         /\ sendCh[i][2] \in Dispatches =>
              /\ sendCh[i][1] \in {"ack", "nack"} \cup Statuses
              /\ pc[sendCh[i][2]] \in PastAck \cup {"rejected"}
         /\ sendCh[i][2] \notin Dispatches => sendCh[i] = Heartbeat
<1>1. sendCh[i] \in Outbound
  BY DEF Core, TypeOK
<1>2. sendCh[i] = Heartbeat \/ (sendCh[i][1] \in {"ack", "nack"} \cup Statuses /\ sendCh[i][2] \in Dispatches)
  BY <1>1, MessageTypes
<1>3. sendCh[i][2] \in Dispatches => sendCh[i] # Heartbeat
  BY MessageTypes, NoneAssumption
<1>4. ASSUME sendCh[i][2] \in Dispatches PROVE pc[sendCh[i][2]] \in PastAck \cup {"rejected"}
  BY <1>2, <1>3, <1>4 DEF Channel, MessagesOK, Answered, PastAck, PastReport
<1> QED
  BY <1>1, <1>2, <1>3, <1>4

\* Handlers move on and the receive loop answers, the channel stays.
LEMMA ChannelQuiet ==
  ASSUME Core, Channel, Next,
         UNCHANGED <<sendCh, told, sess, maxConcurrency>>,
         Open' => Open,
         \A d \in Dispatches :
           /\ Answered(d, PastAck) => Answered(d, PastAck)'
           /\ Answered(d, {"rejected"}) => Answered(d, {"rejected"})'
           /\ pc[d] \in PastReport => pc'[d] \in PastReport
           /\ Open' /\ sessOf'[d] = sess =>
                /\ Answered(d, PastAck)' => Answered(d, PastAck)
                /\ pc'[d] \in PastReport => pc[d] \in PastReport
  PROVE  Channel'
<1>0. \A d \in Dispatches : pc[d] # "none" =>
        /\ sessOf'[d] = sessOf[d]
        /\ CtxDone(sessOf[d]) => CtxDone(sessOf[d])'
        /\ Excused(d) => Excused(d)'
  BY SessionStays
<1>1. MessagesOK'
  <2> SUFFICES ASSUME NEW i \in 1..Len(sendCh), sendCh[i][2] \in Dispatches
               PROVE  LET k == sendCh[i][1]
                          d == sendCh[i][2]
                      IN /\ sessOf'[d] = sess
                         /\ k = "ack" => Answered(d, PastAck)' /\ told[d] = "nothing"
                         /\ k = "nack" => Answered(d, {"rejected"})'
                         /\ k \in Statuses => pc'[d] \in PastReport /\ told[d] \in {"nothing", "accepted"}
                         /\ k = "canceled" => Excused(d)'
    BY DEF MessagesOK, Answered, BeingAnswered, Excused, CtxDone, SessCtxDone
  <2>1. pc[sendCh[i][2]] # "none"
    BY MessageAt DEF PastAck, Statuses
  <2> QED
    BY <1>0, <2>1 DEF Channel, MessagesOK
<1>2. AckBeforeResult'
  BY DEF Channel, AckBeforeResult
<1>3. ToldOK'
  <2> SUFFICES ASSUME NEW d \in Dispatches
               PROVE  /\ told[d] = "refused" => Answered(d, {"rejected"})'
                      /\ told[d] \notin {"nothing", "refused"} => Answered(d, PastAck)'
                      /\ told[d] \in Statuses \cup {"unannounced"} => pc'[d] \in PastReport
                      /\ told[d] = "unannounced" => CtxDone(sessOf[d])'
                      /\ told[d] = "canceled" => Excused(d)'
    BY DEF ToldOK, Answered, BeingAnswered, Excused, CtxDone, SessCtxDone
  <2>1. told[d] # "nothing" => pc[d] # "none"
    BY DEF Channel, ToldOK, Answered, PastAck, Statuses
  <2> QED
    BY <1>0, <2>1 DEF Channel, ToldOK, Statuses
<1>4. NothingDropped'
  <2> SUFFICES ASSUME Open', NEW d \in Dispatches, sessOf'[d] = sess
               PROVE  /\ Answered(d, PastAck)' /\ told[d] = "nothing" =>
                           \E i \in 1..Len(sendCh) : sendCh[i][1] = "ack" /\ sendCh[i][2] = d
                      /\ pc'[d] \in PastReport /\ told[d] \in {"nothing", "accepted"} =>
                           \E i \in 1..Len(sendCh) : sendCh[i][1] \in Statuses /\ sendCh[i][2] = d
    BY DEF NothingDropped, Answered, BeingAnswered
  <2>1. (Answered(d, PastAck) \/ pc[d] \in PastReport) => sessOf[d] = sess
    BY <1>0 DEF Answered, PastAck, PastReport, Statuses
  <2> QED
    BY <2>1 DEF Channel, NothingDropped
<1>5. NeverOver'
  <2> SUFFICES ASSUME Open', NEW k \in 0..Len(sendCh)
               PROVE  IsFiniteSet(AcceptedAfter(k)') /\ Cardinality(AcceptedAfter(k)') <= maxConcurrency
    BY DEF NeverOver
  <2>1. k \in Nat /\ 1..k \subseteq 1..Len(sendCh)
    BY DEF Core, TypeOK
  <2>2. \A d \in Dispatches :
          told[d] = "accepted" \/ (\E i \in 1..k : sendCh[i][1] = "ack" /\ sendCh[i][2] = d) =>
            sessOf'[d] = sessOf[d]
    <3> SUFFICES ASSUME NEW d \in Dispatches,
                        told[d] = "accepted" \/ (\E i \in 1..k : sendCh[i][1] = "ack" /\ sendCh[i][2] = d)
                 PROVE  pc[d] # "none"
      BY <1>0
    <3>1. CASE told[d] = "accepted"
      BY <3>1 DEF Channel, ToldOK, Answered, PastAck, Statuses
    <3>2. CASE \E i \in 1..k : sendCh[i][1] = "ack" /\ sendCh[i][2] = d
      BY <2>1, <3>2 DEF Channel, MessagesOK, Answered, PastAck, Statuses
    <3> QED
      BY <3>1, <3>2
  <2>3. AcceptedAfter(k)' = AcceptedAfter(k)
    BY <2>2 DEF AcceptedAfter
  <2> QED
    BY <2>3 DEF Channel, NeverOver
<1> QED
  BY <1>1, <1>2, <1>3, <1>4, <1>5 DEF Channel

\* While the session is open, who is accepted and will not be reported by
\* what is in the channel holds a token.
LEMMA AcceptedHoldTokens ==
  Core /\ MessagesOK /\ ToldOK /\ NothingDropped /\ Open =>
    /\ IsFiniteSet(AcceptedAfter(Len(sendCh)))
    /\ Cardinality(AcceptedAfter(Len(sendCh))) <= maxConcurrency
<1> SUFFICES ASSUME Core, MessagesOK, ToldOK, NothingDropped, Open
             PROVE  /\ IsFiniteSet(AcceptedAfter(Len(sendCh)))
                    /\ Cardinality(AcceptedAfter(Len(sendCh))) <= maxConcurrency
  OBVIOUS
<1>1. AcceptedAfter(Len(sendCh)) \subseteq TokenHolders
  <2> SUFFICES ASSUME NEW d \in AcceptedAfter(Len(sendCh)) PROVE d \in TokenHolders
    OBVIOUS
  <2>1. /\ d \in Dispatches /\ sessOf[d] = sess
        /\ told[d] = "accepted" \/ \E i \in 1..Len(sendCh) : sendCh[i][1] = "ack" /\ sendCh[i][2] = d
        /\ \A i \in 1..Len(sendCh) : ~(sendCh[i][1] \in Statuses /\ sendCh[i][2] = d)
    BY DEF AcceptedAfter
  <2>2. pc[d] \in PastAck /\ told[d] \in {"nothing", "accepted"}
    BY <2>1 DEF MessagesOK, ToldOK, Answered
  <2>3. pc[d] \notin PastReport
    BY <2>1, <2>2 DEF NothingDropped
  <2> QED
    BY <2>1, <2>2, <2>3 DEF TokenHolders, HasToken, PastAck, PastReport
<1>2. IsFiniteSet(TokenHolders) /\ Cardinality(TokenHolders) = sem
  BY DEF Core, Tokens
<1>3. /\ IsFiniteSet(AcceptedAfter(Len(sendCh)))
      /\ Cardinality(AcceptedAfter(Len(sendCh))) <= sem
      /\ Cardinality(AcceptedAfter(Len(sendCh))) \in Nat
  BY <1>1, <1>2, FS_Subset, FS_CardinalityType
<1>4. sem \in Nat /\ maxConcurrency \in Nat /\ sem <= maxConcurrency
  BY LimitsAssumption DEF Core, TypeOK
<1> QED
  BY <1>3, <1>4

\* A message is added by who has just come to the point it speaks of.
LEMMA ChannelAppend ==
  ASSUME Core, Core', Channel, Next, NEW m \in Outbound,
         sendCh' = Append(sendCh, m),
         UNCHANGED <<told, sess, sessOf, maxConcurrency>>,
         Open' <=> Open,
         \A d \in Dispatches :
           /\ Answered(d, PastAck) => Answered(d, PastAck)'
           /\ Answered(d, {"rejected"}) => Answered(d, {"rejected"})'
           /\ pc[d] \in PastReport => pc'[d] \in PastReport
           /\ ~(m[1] = "ack" /\ m[2] = d) /\ Answered(d, PastAck)' => Answered(d, PastAck)
           /\ ~(m[1] \in Statuses /\ m[2] = d) /\ pc'[d] \in PastReport => pc[d] \in PastReport,
         m[2] \in Dispatches =>
           /\ sessOf[m[2]] = sess
           /\ m[1] = "ack" => BeingAnswered(m[2]) /\ pc[m[2]] = "accepted" /\ Answered(m[2], PastAck)'
           /\ m[1] = "nack" => BeingAnswered(m[2]) /\ pc[m[2]] = "rejected" /\ Answered(m[2], {"rejected"})'
           /\ m[1] \in Statuses => pc[m[2]] = m[1] /\ pc'[m[2]] \in PastReport /\ told[m[2]] \in {"nothing", "accepted"}
           /\ m[1] = "canceled" => Excused(m[2])
  PROVE  Channel'
<1> DEFINE n == Len(sendCh) + 1
<1>0. /\ Len(sendCh) \in Nat /\ Len(sendCh') = n /\ sendCh'[n] = m
      /\ \A i \in 1..Len(sendCh) : sendCh'[i] = sendCh[i]
      /\ 1..n = 1..Len(sendCh) \cup {n} /\ n \notin 1..Len(sendCh)
      /\ \A i \in 1..Len(sendCh) : i < n
  BY DEF Core, TypeOK
<1>0a. \A d \in Dispatches : pc[d] # "none" =>
        /\ CtxDone(sessOf[d]) => CtxDone(sessOf[d])'
        /\ Excused(d) => Excused(d)'
  BY SessionStays
<1>0b. m[2] \in Dispatches => m[1] \in {"ack", "nack"} \cup Statuses
  BY MessageTypes, NoneAssumption
<1>0c. m[2] \in Dispatches => pc[m[2]] # "none"
  BY <1>0b DEF Statuses
<1>1. MessagesOK'
  <2> SUFFICES ASSUME NEW i \in 1..n, NEW d \in Dispatches, sendCh'[i][2] = d
               PROVE  LET k == sendCh'[i][1]
                      IN /\ sessOf[d] = sess
                         /\ k = "ack" => Answered(d, PastAck)' /\ told[d] = "nothing"
                         /\ k = "nack" => Answered(d, {"rejected"})'
                         /\ k \in Statuses => pc'[d] \in PastReport /\ told[d] \in {"nothing", "accepted"}
                         /\ k = "canceled" => Excused(d)'
    BY <1>0 DEF MessagesOK, Answered, BeingAnswered, Excused, CtxDone, SessCtxDone
  <2>1. CASE i \in 1..Len(sendCh)
    <3>1. sendCh'[i] = sendCh[i] /\ pc[d] # "none"
      BY <1>0, <2>1, MessageAt DEF PastAck, Statuses
    <3>2. /\ sessOf[d] = sess
          /\ sendCh[i][1] = "ack" => Answered(d, PastAck) /\ told[d] = "nothing"
          /\ sendCh[i][1] = "nack" => Answered(d, {"rejected"})
          /\ sendCh[i][1] \in Statuses => pc[d] \in PastReport /\ told[d] \in {"nothing", "accepted"}
          /\ sendCh[i][1] = "canceled" => Excused(d)
      BY <2>1, <3>1 DEF Channel, MessagesOK
    <3> QED
      BY <1>0a, <3>1, <3>2
  <2>2. CASE i = n
    <3>1. sendCh'[i] = m /\ m[2] = d
      BY <1>0, <2>2
    <3>2. m[1] = "ack" => told[d] = "nothing"
      BY <3>1 DEF Channel, ToldOK, Answered
    <3> QED
      BY <1>0a, <1>0c, <3>1, <3>2
  <2> QED
    BY <1>0, <2>1, <2>2
<1>2. AckBeforeResult'
  <2> SUFFICES ASSUME NEW i \in 1..n, NEW j \in 1..n, i < j,
                      sendCh'[i][2] \in Dispatches, sendCh'[i][2] = sendCh'[j][2]
               PROVE  sendCh'[i][1] = "ack" /\ sendCh'[j][1] \in Statuses
    BY <1>0 DEF AckBeforeResult
  <2>0. i \in 1..Len(sendCh) /\ sendCh'[i] = sendCh[i]
    BY <1>0
  <2>1. CASE j \in 1..Len(sendCh)
    BY <1>0, <2>0, <2>1 DEF Channel, AckBeforeResult
  <2>2. CASE j = n
    <3>1. sendCh'[j] = m /\ sendCh[i][2] = m[2] /\ m[2] \in Dispatches
      BY <1>0, <2>0, <2>2
    <3>2. sendCh[i][1] \in {"ack", "nack"} \cup Statuses
      BY <2>0, <3>1, MessageAt
    <3>3. /\ sendCh[i][1] = "ack" => Answered(m[2], PastAck)
          /\ sendCh[i][1] = "nack" => Answered(m[2], {"rejected"})
          /\ sendCh[i][1] \in Statuses => pc[m[2]] \in PastReport
      BY <2>0, <3>1 DEF Channel, MessagesOK
    <3> QED
      BY <1>0b, <2>0, <3>1, <3>2, <3>3 DEF Answered, PastReport, Statuses
  <2> QED
    BY <1>0, <2>1, <2>2
<1>3. ToldOK'
  <2> SUFFICES ASSUME NEW d \in Dispatches
               PROVE  /\ told[d] = "refused" => Answered(d, {"rejected"})'
                      /\ told[d] \notin {"nothing", "refused"} => Answered(d, PastAck)'
                      /\ told[d] \in Statuses \cup {"unannounced"} => pc'[d] \in PastReport
                      /\ told[d] = "unannounced" => CtxDone(sessOf[d])'
                      /\ told[d] = "canceled" => Excused(d)'
    BY DEF ToldOK, Answered, BeingAnswered, Excused, CtxDone, SessCtxDone
  <2>1. told[d] # "nothing" => pc[d] # "none"
    BY DEF Channel, ToldOK, Answered, PastAck, Statuses
  <2> QED
    BY <1>0a, <2>1 DEF Channel, ToldOK, Statuses
<1>4. NothingDropped'
  <2> SUFFICES ASSUME Open', NEW d \in Dispatches, sessOf[d] = sess
               PROVE  /\ Answered(d, PastAck)' /\ told[d] = "nothing" =>
                           \E i \in 1..n : sendCh'[i][1] = "ack" /\ sendCh'[i][2] = d
                      /\ pc'[d] \in PastReport /\ told[d] \in {"nothing", "accepted"} =>
                           \E i \in 1..n : sendCh'[i][1] \in Statuses /\ sendCh'[i][2] = d
    BY <1>0 DEF NothingDropped, Answered, BeingAnswered
  <2>1. ASSUME Answered(d, PastAck)', told[d] = "nothing"
        PROVE  \E i \in 1..n : sendCh'[i][1] = "ack" /\ sendCh'[i][2] = d
    <3>1. CASE m[1] = "ack" /\ m[2] = d
      BY <1>0, <3>1
    <3>2. CASE ~(m[1] = "ack" /\ m[2] = d)
      <4>1. Answered(d, PastAck)
        BY <2>1, <3>2
      <4>2. PICK i \in 1..Len(sendCh) : sendCh[i][1] = "ack" /\ sendCh[i][2] = d
        BY <2>1, <4>1 DEF Channel, NothingDropped
      <4>3. i \in 1..n /\ sendCh'[i][1] = "ack" /\ sendCh'[i][2] = d
        BY <1>0, <4>2
      <4> QED
        BY <4>3
    <3> QED
      BY <3>1, <3>2
  <2>2. ASSUME pc'[d] \in PastReport, told[d] \in {"nothing", "accepted"}
        PROVE  \E i \in 1..n : sendCh'[i][1] \in Statuses /\ sendCh'[i][2] = d
    <3>1. CASE m[1] \in Statuses /\ m[2] = d
      BY <1>0, <3>1
    <3>2. CASE ~(m[1] \in Statuses /\ m[2] = d)
      <4>1. pc[d] \in PastReport
        BY <2>2, <3>2
      <4>2. PICK i \in 1..Len(sendCh) : sendCh[i][1] \in Statuses /\ sendCh[i][2] = d
        BY <2>2, <4>1 DEF Channel, NothingDropped
      <4>3. i \in 1..n /\ sendCh'[i][1] \in Statuses /\ sendCh'[i][2] = d
        BY <1>0, <4>2
      <4> QED
        BY <4>3
    <3> QED
      BY <3>1, <3>2
  <2> QED
    BY <2>1, <2>2
<1>5. NeverOver'
  <2> SUFFICES ASSUME Open', NEW k \in 0..n
               PROVE  IsFiniteSet(AcceptedAfter(k)') /\ Cardinality(AcceptedAfter(k)') <= maxConcurrency
    BY <1>0 DEF NeverOver
  <2>1. CASE k = n
    <3>1. /\ IsFiniteSet(AcceptedAfter(Len(sendCh)))'
          /\ (Cardinality(AcceptedAfter(Len(sendCh))) <= maxConcurrency)'
      BY <1>1, <1>3, <1>4, AcceptedHoldTokens, PTL
    <3>2. AcceptedAfter(Len(sendCh))' = AcceptedAfter(k)'
      BY <1>0, <2>1 DEF AcceptedAfter
    <3> QED
      BY <3>1, <3>2
  <2>2. CASE k \in 0..Len(sendCh)
    <3>1. \A i \in 1..k : sendCh'[i] = sendCh[i]
      BY <1>0, <2>2
    <3>2. AcceptedAfter(k)' = AcceptedAfter(k)
      BY <3>1 DEF AcceptedAfter
    <3> QED
      BY <2>2, <3>2 DEF Channel, NeverOver
  <2> QED
    BY <1>0, <2>1, <2>2
<1> QED
  BY <1>1, <1>2, <1>3, <1>4, <1>5 DEF Channel

-----------------------------------------------------------------------------
(* The channel: the sender.                                                *)

\* Reading a message moves it from the channel to what the scheduler has
\* heard.
LEMMA ChannelHeard ==
  ASSUME Core, Channel, sendCh # << >>, sendCh' = Tail(sendCh), ~broken, Hears(Head(sendCh)),
         UNCHANGED <<sess, sessOf, maxConcurrency, pc, at, cur, sessDone, rootDone, broken, asked, inner>>
  PROVE  Channel'
<1> DEFINE m == sendCh[1]
           c == m[2]
<1>0. /\ Len(sendCh) \in Nat /\ Len(sendCh) >= 1 /\ Head(sendCh) = m /\ m \in Outbound
      /\ Len(sendCh') = Len(sendCh) - 1 /\ 1 \in 1..Len(sendCh)
      /\ \A i \in 1..Len(sendCh') : sendCh'[i] = sendCh[i + 1] /\ i + 1 \in 1..Len(sendCh) /\ 1 < i + 1
  BY TailAt DEF Core, TypeOK
<1>1. c \in Dispatches => m[1] \in {"ack", "nack"} \cup Statuses /\ m # Heartbeat
  BY <1>0, MessageTypes, NoneAssumption
<1>2. c \notin Dispatches => m = Heartbeat
  BY <1>0, MessageTypes
<1>3. c \in Dispatches =>
        /\ sessOf[c] = sess
        /\ m[1] = "ack" => Answered(c, PastAck) /\ told[c] = "nothing"
        /\ m[1] = "nack" => Answered(c, {"rejected"})
        /\ m[1] \in Statuses => pc[c] \in PastReport /\ told[c] \in {"nothing", "accepted"}
        /\ m[1] = "canceled" => Excused(c)
  BY <1>0 DEF Channel, MessagesOK
<1>4. \A i \in 1..Len(sendCh') : c \in Dispatches /\ sendCh'[i][2] = c =>
        m[1] = "ack" /\ sendCh'[i][1] \in Statuses
  BY <1>0 DEF Channel, AckBeforeResult
<1>5. \A d \in Dispatches : d # c => told'[d] = told[d]
  BY <1>0 DEF Hears, Core, TypeOK
<1>6. c \in Dispatches =>
        /\ m[1] = "ack" => told'[c] = "accepted"
        /\ m[1] = "nack" => told'[c] = "refused"
        /\ m[1] \in Statuses /\ told[c] = "accepted" => told'[c] = m[1]
        /\ m[1] \in Statuses /\ told[c] # "accepted" => told'[c] = "unannounced"
  <2> HIDE DEF m
  <2> QED
    BY <1>0, <1>1 DEF Hears, Core, TypeOK, Statuses
<1>7. /\ Open' <=> Open
      /\ \A d \in Dispatches : /\ Answered(d, PastAck)' <=> Answered(d, PastAck)
                               /\ Answered(d, {"rejected"})' <=> Answered(d, {"rejected"})
                               /\ Excused(d)' <=> Excused(d)
                               /\ CtxDone(sessOf[d])' <=> CtxDone(sessOf[d])
  BY DEF Open, Answered, BeingAnswered, Excused, CtxDone, SessCtxDone
<1> HIDE DEF m, c
<1>8. MessagesOK'
  <2> SUFFICES ASSUME NEW i \in 1..Len(sendCh'), NEW d \in Dispatches, sendCh'[i][2] = d
               PROVE  LET k == sendCh'[i][1]
                      IN /\ sessOf[d] = sess
                         /\ k = "ack" => Answered(d, PastAck) /\ told'[d] = "nothing"
                         /\ k = "nack" => Answered(d, {"rejected"})
                         /\ k \in Statuses => pc[d] \in PastReport /\ told'[d] \in {"nothing", "accepted"}
                         /\ k = "canceled" => Excused(d)
    BY DEF MessagesOK, Answered, BeingAnswered, Excused, CtxDone, SessCtxDone
  <2>1. sendCh'[i] = sendCh[i + 1] /\ i + 1 \in 1..Len(sendCh)
    BY <1>0
  <2>2. /\ sessOf[d] = sess
        /\ sendCh'[i][1] = "ack" => Answered(d, PastAck) /\ told[d] = "nothing"
        /\ sendCh'[i][1] = "nack" => Answered(d, {"rejected"})
        /\ sendCh'[i][1] \in Statuses => pc[d] \in PastReport /\ told[d] \in {"nothing", "accepted"}
        /\ sendCh'[i][1] = "canceled" => Excused(d)
    BY <2>1 DEF Channel, MessagesOK
  <2>3. CASE d # c
    BY <1>5, <2>2, <2>3
  <2>4. CASE d = c
    BY <1>4, <1>6, <2>2, <2>4 DEF Statuses
  <2> QED
    BY <2>3, <2>4
<1>9. AckBeforeResult'
  <2> SUFFICES ASSUME NEW i \in 1..Len(sendCh'), NEW j \in 1..Len(sendCh'), i < j,
                      sendCh'[i][2] \in Dispatches, sendCh'[i][2] = sendCh'[j][2]
               PROVE  sendCh'[i][1] = "ack" /\ sendCh'[j][1] \in Statuses
    BY DEF AckBeforeResult
  <2>1. /\ i + 1 \in 1..Len(sendCh) /\ j + 1 \in 1..Len(sendCh) /\ i + 1 < j + 1
        /\ sendCh'[i] = sendCh[i + 1] /\ sendCh'[j] = sendCh[j + 1]
    BY <1>0
  <2> QED
    BY <2>1 DEF Channel, AckBeforeResult
<1>10. ToldOK'
  <2> SUFFICES ASSUME NEW d \in Dispatches
               PROVE  /\ told'[d] = "refused" => Answered(d, {"rejected"})
                      /\ told'[d] \notin {"nothing", "refused"} => Answered(d, PastAck)
                      /\ told'[d] \in Statuses \cup {"unannounced"} => pc[d] \in PastReport
                      /\ told'[d] = "unannounced" => CtxDone(sessOf[d])
                      /\ told'[d] = "canceled" => Excused(d)
    BY <1>7 DEF ToldOK
  <2>1. CASE d # c
    BY <1>5, <2>1 DEF Channel, ToldOK
  <2>2. CASE d = c /\ m[1] \in {"ack", "nack"}
    BY <1>3, <1>6, <2>2 DEF Statuses
  <2>3. CASE d = c /\ m[1] \in Statuses
    <3>1. Answered(d, PastAck)
      BY <1>3, <2>3 DEF Core, Control, Answered, BeingAnswered, PastAck, PastReport
    <3>2. told'[d] \in {m[1], "unannounced"} /\ pc[d] \in PastReport
      BY <1>3, <1>6, <2>3
    <3>3. ASSUME told'[d] = "unannounced" PROVE CtxDone(sessOf[d])
      <4>1. told[d] = "nothing"
        BY <1>3, <1>6, <2>3, <3>3 DEF Statuses
      <4>2. ~Open
        <5> SUFFICES ASSUME Open PROVE FALSE
          OBVIOUS
        <5>1. PICK i \in 1..Len(sendCh) : sendCh[i][1] = "ack" /\ sendCh[i][2] = d
          BY <1>3, <2>3, <3>1, <4>1 DEF Channel, NothingDropped
        <5>2. i # 1
          BY <2>3, <5>1 DEF m, Statuses
        <5>3. 1 < i
          BY <1>0, <5>2
        <5>4. sendCh[1][2] = sendCh[i][2] /\ sendCh[1][2] \in Dispatches
          BY <2>3, <5>1 DEF m, c
        <5>5. sendCh[1][1] = "ack"
          BY <1>0, <5>3, <5>4 DEF Channel, AckBeforeResult
        <5> QED
          BY <2>3, <5>5 DEF m, Statuses
      <4> QED
        BY <4>2 DEF Open, CtxDone
    <3>4. told'[d] = "canceled" => Excused(d)
      BY <1>3, <2>3, <3>2
    <3> QED
      BY <2>3, <3>1, <3>2, <3>3, <3>4 DEF Statuses
  <2> QED
    BY <1>1, <2>1, <2>2, <2>3
<1>11. NothingDropped'
  <2> SUFFICES ASSUME Open, NEW d \in Dispatches, sessOf[d] = sess
               PROVE  /\ Answered(d, PastAck) /\ told'[d] = "nothing" =>
                           \E i \in 1..Len(sendCh') : sendCh'[i][1] = "ack" /\ sendCh'[i][2] = d
                      /\ pc[d] \in PastReport /\ told'[d] \in {"nothing", "accepted"} =>
                           \E i \in 1..Len(sendCh') : sendCh'[i][1] \in Statuses /\ sendCh'[i][2] = d
    BY <1>7 DEF NothingDropped
  <2>1. ASSUME Answered(d, PastAck), told'[d] = "nothing"
        PROVE  \E i \in 1..Len(sendCh') : sendCh'[i][1] = "ack" /\ sendCh'[i][2] = d
    <3>1. d # c
      BY <1>1, <1>6, <2>1 DEF Statuses
    <3>2. PICK i \in 1..Len(sendCh) : sendCh[i][1] = "ack" /\ sendCh[i][2] = d
      BY <1>5, <2>1, <3>1 DEF Channel, NothingDropped
    <3>3. i # 1
      BY <3>1, <3>2 DEF c, m
    <3>4. i - 1 \in 1..Len(sendCh') /\ sendCh'[i - 1] = sendCh[i]
      BY <1>0, <3>3
    <3> QED
      BY <3>2, <3>4
  <2>2. ASSUME pc[d] \in PastReport, told'[d] \in {"nothing", "accepted"}
        PROVE  \E i \in 1..Len(sendCh') : sendCh'[i][1] \in Statuses /\ sendCh'[i][2] = d
    <3>1. told[d] \in {"nothing", "accepted"} /\ ~(d = c /\ m[1] \in Statuses)
      <4>1. CASE d # c
        BY <1>5, <2>2, <4>1
      <4>2. CASE d = c
        BY <1>1, <1>3, <1>6, <2>2, <4>2 DEF Statuses
      <4> QED
        BY <4>1, <4>2
    <3>2. PICK i \in 1..Len(sendCh) : sendCh[i][1] \in Statuses /\ sendCh[i][2] = d
      BY <2>2, <3>1 DEF Channel, NothingDropped
    <3>3. i # 1
      BY <3>1, <3>2 DEF c, m
    <3>4. i - 1 \in 1..Len(sendCh') /\ sendCh'[i - 1] = sendCh[i]
      BY <1>0, <3>3
    <3> QED
      BY <3>2, <3>4
  <2> QED
    BY <2>1, <2>2
<1>12. NeverOver'
  <2> SUFFICES ASSUME Open, NEW k \in 0..Len(sendCh')
               PROVE  IsFiniteSet(AcceptedAfter(k)') /\ Cardinality(AcceptedAfter(k)') <= maxConcurrency
    BY <1>7 DEF NeverOver
  <2>0. k + 1 \in 0..Len(sendCh) /\ k \in Nat /\ \A i \in 1..k : i + 1 \in 1..(k + 1) /\ i \in 1..Len(sendCh')
    BY <1>0
  <2>1. AcceptedAfter(k)' \subseteq AcceptedAfter(k + 1)
    <3> SUFFICES ASSUME NEW d \in AcceptedAfter(k)' PROVE d \in AcceptedAfter(k + 1)
      OBVIOUS
    <3>1. /\ d \in Dispatches /\ sessOf[d] = sess
          /\ told'[d] = "accepted" \/ \E i \in 1..k : sendCh'[i][1] = "ack" /\ sendCh'[i][2] = d
          /\ \A i \in 1..k : ~(sendCh'[i][1] \in Statuses /\ sendCh'[i][2] = d)
      BY DEF AcceptedAfter
    <3>2. told[d] = "accepted" \/ \E i \in 1..(k + 1) : sendCh[i][1] = "ack" /\ sendCh[i][2] = d
      <4>1. CASE told'[d] = "accepted"
        <5>1. told[d] = "accepted" \/ (d = c /\ m[1] = "ack")
          BY <1>1, <1>5, <1>6, <3>1, <4>1 DEF Statuses
        <5>2. 1 \in 1..(k + 1)
          BY <2>0
        <5> QED
          BY <5>1, <5>2 DEF m, c
      <4>2. ASSUME NEW i \in 1..k, sendCh'[i][1] = "ack", sendCh'[i][2] = d
            PROVE  \E j \in 1..(k + 1) : sendCh[j][1] = "ack" /\ sendCh[j][2] = d
        BY <1>0, <2>0, <4>2
      <4> QED
        BY <3>1, <4>1, <4>2
    <3>3. ASSUME NEW i \in 1..(k + 1), sendCh[i][1] \in Statuses, sendCh[i][2] = d PROVE FALSE
      <4>1. CASE i = 1
        <5>1. d = c /\ m[1] \in Statuses
          BY <3>3, <4>1 DEF m, c
        <5>2. told'[d] # "accepted"
          BY <1>6, <3>1, <5>1 DEF Statuses
        <5>3. PICK j \in 1..k : sendCh'[j][1] = "ack" /\ sendCh'[j][2] = d
          BY <3>1, <5>2
        <5> QED
          BY <1>4, <2>0, <3>1, <5>1, <5>3 DEF Statuses
      <4>2. CASE i # 1
        <5>1. i - 1 \in 1..k
          BY <2>0, <4>2
        <5>2. sendCh'[i - 1] = sendCh[i]
          BY <1>0, <2>0, <5>1
        <5> QED
          BY <3>1, <3>3, <5>1, <5>2
      <4> QED
        BY <4>1, <4>2
    <3> QED
      BY <3>1, <3>2, <3>3 DEF AcceptedAfter
  <2>2. IsFiniteSet(AcceptedAfter(k + 1)) /\ Cardinality(AcceptedAfter(k + 1)) <= maxConcurrency
    BY <2>0 DEF Channel, NeverOver
  <2>3. /\ IsFiniteSet(AcceptedAfter(k)')
        /\ Cardinality(AcceptedAfter(k)') <= Cardinality(AcceptedAfter(k + 1))
        /\ Cardinality(AcceptedAfter(k)') \in Nat /\ Cardinality(AcceptedAfter(k + 1)) \in Nat
    BY <2>1, <2>2, FS_Subset, FS_CardinalityType
  <2> QED
    BY <2>2, <2>3, LimitsAssumption DEF Core, TypeOK
<1> QED
  BY <1>8, <1>9, <1>10, <1>11, <1>12 DEF Channel

\* A message that the sender takes and cannot send is lost; the session is
\* not open any more.
LEMMA ChannelLost ==
  ASSUME Core, Channel, sendCh # << >>, sendCh' = Tail(sendCh), broken \/ SessCtxDone,
         UNCHANGED <<told, sess, sessOf, maxConcurrency, pc, at, cur, sessDone, rootDone, broken, asked, inner>>
  PROVE  Channel'
<1>0. /\ Len(sendCh) \in Nat
      /\ \A i \in 1..Len(sendCh') : sendCh'[i] = sendCh[i + 1] /\ i + 1 \in 1..Len(sendCh)
      /\ Len(sendCh') = Len(sendCh) - 1
  BY TailAt DEF Core, TypeOK
<1>1. ~Open'
  BY DEF Open, SessCtxDone
<1>2. MessagesOK'
  <2> SUFFICES ASSUME NEW i \in 1..Len(sendCh'), NEW d \in Dispatches, sendCh'[i][2] = d
               PROVE  LET k == sendCh'[i][1]
                      IN /\ sessOf[d] = sess
                         /\ k = "ack" => Answered(d, PastAck) /\ told[d] = "nothing"
                         /\ k = "nack" => Answered(d, {"rejected"})
                         /\ k \in Statuses => pc[d] \in PastReport /\ told[d] \in {"nothing", "accepted"}
                         /\ k = "canceled" => Excused(d)
    BY DEF MessagesOK, Answered, BeingAnswered, Excused, CtxDone, SessCtxDone
  <2>1. sendCh'[i] = sendCh[i + 1] /\ i + 1 \in 1..Len(sendCh)
    BY <1>0
  <2> QED
    BY <2>1 DEF Channel, MessagesOK
<1>3. AckBeforeResult'
  <2> SUFFICES ASSUME NEW i \in 1..Len(sendCh'), NEW j \in 1..Len(sendCh'), i < j,
                      sendCh'[i][2] \in Dispatches, sendCh'[i][2] = sendCh'[j][2]
               PROVE  sendCh'[i][1] = "ack" /\ sendCh'[j][1] \in Statuses
    BY DEF AckBeforeResult
  <2>1. /\ i + 1 \in 1..Len(sendCh) /\ j + 1 \in 1..Len(sendCh) /\ i + 1 < j + 1
        /\ sendCh'[i] = sendCh[i + 1] /\ sendCh'[j] = sendCh[j + 1]
    BY <1>0
  <2> QED
    BY <2>1 DEF Channel, AckBeforeResult
<1>4. ToldOK'
  BY DEF Channel, ToldOK, Answered, BeingAnswered, Excused, CtxDone, SessCtxDone
<1>5. NothingDropped' /\ NeverOver'
  BY <1>1 DEF NothingDropped, NeverOver
<1> QED
  BY <1>2, <1>3, <1>4, <1>5 DEF Channel

\* A new session starts with an empty channel, and what is left of one that
\* is over is dropped.
LEMMA ChannelEmptied ==
  ASSUME Core, Channel, Next, sendCh' = << >>,
         UNCHANGED <<told, sessOf, maxConcurrency, pc, cur>>,
         at \notin {"ack", "nack"}, at' \notin {"ack", "nack"},
         Open' => sess' = sess + 1
  PROVE  Channel'
<1>0. \A d \in Dispatches : pc[d] # "none" =>
        /\ CtxDone(sessOf[d]) => CtxDone(sessOf[d])'
        /\ Excused(d) => Excused(d)'
  BY SessionStays
<1>1. MessagesOK' /\ AckBeforeResult'
  BY DEF MessagesOK, AckBeforeResult
<1>2. ToldOK'
  <2> SUFFICES ASSUME NEW d \in Dispatches
               PROVE  /\ told[d] = "refused" => Answered(d, {"rejected"})'
                      /\ told[d] \notin {"nothing", "refused"} => Answered(d, PastAck)'
                      /\ told[d] \in Statuses \cup {"unannounced"} => pc[d] \in PastReport
                      /\ told[d] = "unannounced" => CtxDone(sessOf[d])'
                      /\ told[d] = "canceled" => Excused(d)'
    BY DEF ToldOK, Answered, BeingAnswered, Excused, CtxDone, SessCtxDone
  <2>1. told[d] # "nothing" => pc[d] # "none"
    BY DEF Channel, ToldOK, Answered, PastAck, Statuses
  <2>2. \A S : Answered(d, S) => Answered(d, S)'
    BY DEF Answered, BeingAnswered
  <2> QED
    BY <1>0, <2>1, <2>2 DEF Channel, ToldOK, Statuses
<1>3. Open' => \A d \in Dispatches : sessOf'[d] # sess'
  BY DEF Core, Control, TypeOK
<1>4. NothingDropped'
  BY <1>3 DEF NothingDropped
<1>5. NeverOver'
  <2> SUFFICES ASSUME Open', NEW k \in 0..Len(sendCh')
               PROVE  IsFiniteSet(AcceptedAfter(k)') /\ Cardinality(AcceptedAfter(k)') <= maxConcurrency
    BY DEF NeverOver
  <2>1. AcceptedAfter(k)' = {}
    BY <1>3 DEF AcceptedAfter
  <2> QED
    BY <2>1, FS_EmptySet, LimitsAssumption DEF Core, TypeOK
<1> QED
  BY <1>1, <1>2, <1>4, <1>5 DEF Channel

-----------------------------------------------------------------------------
(* The channel: all steps.                                                 *)

\* The stream loop between and at the ends of sessions.
LEMMA LoopChannel ==
  ASSUME Core, Channel, Next,
         LoopReturns \/ Connect \/ BackoffEnds \/ RecvFails \/ CloseSendCh \/ SessionOver
  PROVE  Channel'
<1>0. UNCHANGED <<told, sessOf, maxConcurrency, cur>>
  BY DEF LoopReturns, Connect, BackoffEnds, RecvFails, CloseSendCh, SessionOver, config, jobs, ghost
<1>1. CASE LoopReturns \/ BackoffEnds \/ CloseSendCh \/ (Connect /\ UNCHANGED session)
  <2>1. /\ UNCHANGED <<sendCh, sess, pc, broken, sessDone, rootDone>>
        /\ at \notin {"ack", "nack"} /\ at' \notin {"ack", "nack"}
    BY <1>1 DEF LoopReturns, BackoffEnds, CloseSendCh, Connect, session, jobs
  <2>2. Open' <=> Open
    BY <2>1 DEF Open, SessCtxDone
  <2>3. \A d \in Dispatches : \A S : Answered(d, S)' <=> Answered(d, S)
    BY <2>1 DEF Answered, BeingAnswered
  <2> QED
    BY <1>0, <2>1, <2>2, <2>3, ChannelQuiet
<1>2. CASE Connect /\ ~ UNCHANGED session
  <2>1. sendCh' = << >> /\ sess' = sess + 1 /\ at = "top" /\ at' = "recv" /\ pc' = pc
    BY <1>2 DEF Connect, jobs
  <2> QED
    BY <1>0, <2>1, ChannelEmptied
<1>3. CASE SessionOver
  <2>1. sendCh' = << >> /\ at = "waiting" /\ at' \in {"done", "backoff"} /\ pc' = pc /\ broken' = TRUE
    BY <1>3 DEF SessionOver, jobs
  <2> QED
    BY <1>0, <2>1, ChannelEmptied DEF Open
<1>4. CASE RecvFails
  <2>1. /\ UNCHANGED <<sendCh, sess>> /\ sessDone' = TRUE /\ at = "recv" /\ at' = "cancelled"
        /\ \A d \in Dispatches : pc'[d] = IF pc[d] = "sent" THEN "unread" ELSE pc[d]
    BY <1>4 DEF RecvFails
  <2>2. ~Open'
    BY <2>1 DEF Open, SessCtxDone
  <2>3. \A d \in Dispatches :
          /\ Answered(d, PastAck) => Answered(d, PastAck)'
          /\ Answered(d, {"rejected"}) => Answered(d, {"rejected"})'
          /\ pc[d] \in PastReport => pc'[d] \in PastReport
    BY <2>1 DEF Answered, BeingAnswered, PastAck, PastReport, Statuses
  <2> QED
    BY <1>0, <2>1, <2>2, <2>3, ChannelQuiet
<1> QED
  BY <1>1, <1>2, <1>3, <1>4

\* Reading a dispatch or a Cancel, starting a handler.
LEMMA RecvChannel ==
  ASSUME Core, Channel, Next,
         \/ Spawn
         \/ \E d \in Dispatches : RecvDispatch(d)
         \/ \E r \in Runs : RecvCancel(r)
  PROVE  Channel'
<1>0. UNCHANGED <<sendCh, told, sess, sessOf, maxConcurrency, broken, sessDone, rootDone>>
  BY DEF Spawn, RecvDispatch, RecvCancel, session, config, ghost
<1>1. Open' <=> Open
  BY <1>0 DEF Open, SessCtxDone
<1>2. CASE Spawn
  <2>1. /\ cur \in Dispatches /\ pc[cur] = "accepted" /\ at = "spawn" /\ at' = "recv"
        /\ \A d \in Dispatches : pc'[d] = IF d = cur THEN "running" ELSE pc[d]
    BY <1>2 DEF Spawn, Core, Control, TypeOK
  <2>2. \A d \in Dispatches :
          /\ Answered(d, PastAck)' <=> Answered(d, PastAck)
          /\ Answered(d, {"rejected"}) => Answered(d, {"rejected"})'
          /\ pc'[d] \in PastReport <=> pc[d] \in PastReport
    BY <2>1 DEF Answered, BeingAnswered, PastAck, PastReport, Statuses
  <2> QED
    BY <1>0, <1>1, <2>2, ChannelQuiet
<1>3. ASSUME NEW e \in Dispatches, RecvDispatch(e) PROVE Channel'
  <2>1. /\ pc[e] = "sent" /\ at = "recv" /\ cur' = e /\ at' \in {"ack", "nack"}
        /\ \E st \in {"accepted", "rejected"} : \A d \in Dispatches : pc'[d] = IF d = e THEN st ELSE pc[d]
    BY <1>3, HeadIsSent DEF RecvDispatch, Core, TypeOK
  <2>2. \A d \in Dispatches :
          /\ Answered(d, PastAck)' <=> Answered(d, PastAck)
          /\ Answered(d, {"rejected"}) => Answered(d, {"rejected"})'
          /\ pc'[d] \in PastReport <=> pc[d] \in PastReport
    BY <2>1 DEF Answered, BeingAnswered, PastAck, PastReport, Statuses
  <2> QED
    BY <1>0, <1>1, <2>2, ChannelQuiet
<1>4. ASSUME NEW r \in Runs, RecvCancel(r) PROVE Channel'
  <2>1. UNCHANGED <<pc, at, cur>>
    BY <1>4 DEF RecvCancel
  <2>2. \A d \in Dispatches : \A S : Answered(d, S)' <=> Answered(d, S)
    BY <2>1 DEF Answered, BeingAnswered
  <2> QED
    BY <1>0, <1>1, <2>1, <2>2, ChannelQuiet
<1> QED
  BY <1>2, <1>3, <1>4

\* Scheduler, network and Stop, the tick of the heartbeat, and what a handler
\* does besides its report.
LEMMA OthersChannel ==
  ASSUME Core, Channel, Next,
         \/ Surroundings \/ HeartbeatStep
         \/ \E d \in Dispatches : HandlerReturns(d) \/ Cleanup(d) \/ DeadlinePasses(d)
  PROVE  Channel'
<1>0. UNCHANGED <<sendCh, told, sess, maxConcurrency, at, cur>>
  BY DEF Surroundings, HeartbeatStep, HandlerReturns, Cleanup, DeadlinePasses, Stop, StreamBreaks,
         SchedulerDispatches, SchedulerCancels, session, config, ghost
<1>1. Open' => Open
  <2>1. (broken => broken') /\ (sessDone => sessDone') /\ (rootDone => rootDone')
    BY DEF Surroundings, HeartbeatStep, HandlerReturns, Cleanup, DeadlinePasses, Stop, StreamBreaks,
         SchedulerDispatches, SchedulerCancels, session
  <2> QED
    BY <2>1, Zenon DEF Open, SessCtxDone
<1>2. CASE pc' = pc
  <2>1. \A d \in Dispatches : \A S : Answered(d, S)' <=> Answered(d, S)
    BY <1>0, <1>2 DEF Answered, BeingAnswered
  <2> QED
    BY <1>0, <1>1, <1>2, <2>1, ChannelQuiet
<1>3. ASSUME NEW e \in Dispatches, HandlerReturns(e) \/ Cleanup(e) \/ SchedulerDispatches(e)
      PROVE  Channel'
  <2>1. \E st \in {"over", "sent"} \cup Statuses :
          /\ \A d \in Dispatches : pc'[d] = IF d = e THEN st ELSE pc[d]
          /\ \/ pc[e] = "running" /\ st \in Statuses
             \/ pc[e] = "cleanup" /\ st = "over"
             \/ pc[e] = "none" /\ st = "sent"
    <3>1. CASE HandlerReturns(e)
      <4>1. PICK st \in Statuses : pc' = [pc EXCEPT ![e] = st]
        BY <3>1, StatusReported
      <4>2. st \in Statuses /\ pc[e] = "running"
        BY <3>1, <4>1, StatusReported
      <4>3. \A d \in Dispatches : pc'[d] = IF d = e THEN st ELSE pc[d]
        BY <4>1 DEF Core, TypeOK
      <4> QED
        BY <4>2, <4>3
    <3>2. CASE Cleanup(e)
      <4>1. \A d \in Dispatches : pc'[d] = IF d = e THEN "over" ELSE pc[d]
        BY <3>2 DEF Cleanup, Core, TypeOK
      <4>2. pc[e] = "cleanup"
        BY <3>2 DEF Cleanup
      <4>3. "over" \in {"over", "sent"} \cup Statuses
        OBVIOUS
      <4> WITNESS "over" \in {"over", "sent"} \cup Statuses
      <4> QED
        BY <4>1, <4>2
    <3>3. CASE SchedulerDispatches(e)
      <4>1. \A d \in Dispatches : pc'[d] = IF d = e THEN "sent" ELSE pc[d]
        BY <3>3 DEF SchedulerDispatches, Core, TypeOK
      <4>2. pc[e] = "none"
        BY <3>3 DEF SchedulerDispatches
      <4>3. "sent" \in {"over", "sent"} \cup Statuses
        OBVIOUS
      <4> WITNESS "sent" \in {"over", "sent"} \cup Statuses
      <4> QED
        BY <4>1, <4>2
    <3> QED
      BY <1>3, <3>1, <3>2, <3>3
  <2>2. \A d \in Dispatches :
          /\ Answered(d, PastAck)' <=> Answered(d, PastAck)
          /\ Answered(d, {"rejected"}) => Answered(d, {"rejected"})'
          /\ pc'[d] \in PastReport <=> pc[d] \in PastReport
    BY <1>0, <2>1 DEF Answered, BeingAnswered, PastAck, PastReport, Statuses
  <2> QED
    BY <1>0, <1>1, <2>2, ChannelQuiet
<1> QED
  BY <1>2, <1>3 DEF Surroundings, HeartbeatStep, DeadlinePasses, Stop, StreamBreaks, SchedulerCancels, jobs

\* Ack, refusal, heartbeat and result go through sendOrDrop.
LEMMA SendChannel ==
  ASSUME Core, Core', CancelReasons, Channel, Next,
         \/ SendAck \/ SendNack \/ HeartbeatSends
         \/ \E d \in Dispatches : Report(d)
  PROVE  Channel'
<1>0. UNCHANGED <<told, sess, sessOf, maxConcurrency, broken, sessDone, rootDone>>
  BY DEF SendAck, SendNack, HeartbeatSends, Report, config, jobs, ghost
<1>1. Open' <=> Open
  BY <1>0 DEF Open, SessCtxDone
<1>2. Open => ~closed /\ ~CtxDone(sess)
  BY DEF Core, TypeOK, Control, InSession, Open, SessCtxDone, CtxDone
<1>3. \A s : (ChClosed(s) \/ CtxDone(s)) /\ Open => s < sess
  BY <1>2 DEF ChClosed, CtxDone, Open
<1>4. \A s \in 0..MaxSessions : ~ChClosed(s) /\ s <= sess => s = sess
  BY DEF ChClosed, Core, TypeOK
<1>5. CASE SendAck \/ SendNack
  <2> DEFINE k == IF at = "ack" THEN "ack" ELSE "nack"
  <2>1. /\ cur \in Dispatches /\ pc' = pc /\ sessOf[cur] = sess
        /\ at \in {"ack", "nack"} /\ at' \notin {"ack", "nack"}
        /\ at = "ack" => pc[cur] = "accepted"
        /\ at = "nack" => pc[cur] = "rejected"
        /\ sendOrDrop(sess, <<k, cur>>)
    BY <1>5 DEF SendAck, SendNack, Core, Control, jobs
  <2>2. PICK m \in Outbound : m = <<k, cur>> /\ m[1] = k /\ m[2] = cur /\ m[2] \in Dispatches
    BY <2>1, MessageTypes
  <2>3. \A d \in Dispatches :
          /\ Answered(d, PastAck) => Answered(d, PastAck)'
          /\ Answered(d, {"rejected"}) => Answered(d, {"rejected"})'
          /\ ~(at = "ack" /\ d = cur) /\ Answered(d, PastAck)' => Answered(d, PastAck)
    BY <2>1 DEF Answered, BeingAnswered, PastAck, Statuses
  <2>4. CASE sendCh' = sendCh /\ (ChClosed(sess) \/ CtxDone(sess))
    <3>1. ~Open'
      BY <1>1, <1>3, <2>4 DEF Core, TypeOK
    <3> QED
      BY <1>0, <1>1, <2>1, <2>3, <2>4, <3>1, ChannelQuiet
  <2>5. CASE sendCh' = Append(sendCh, m)
    <3>1. /\ BeingAnswered(m[2])
          /\ at = "ack" => pc[m[2]] = "accepted" /\ Answered(m[2], PastAck)'
          /\ at = "nack" => pc[m[2]] = "rejected" /\ Answered(m[2], {"rejected"})'
      BY <2>1, <2>2 DEF Answered, BeingAnswered, PastAck
    <3>2. (m[1] = "ack" <=> at = "ack") /\ (m[1] = "nack" <=> at = "nack") /\ m[1] \notin Statuses
      BY <2>1, <2>2 DEF Statuses
    <3>3. \A d \in Dispatches :
            ~(m[1] = "ack" /\ m[2] = d) /\ Answered(d, PastAck)' => Answered(d, PastAck)
      BY <2>2, <2>3, <3>2
    <3>4. sessOf[m[2]] = sess /\ m[1] # "canceled"
      BY <2>1, <2>2, <3>2 DEF Statuses
    <3> HIDE DEF k
    <3> QED
      BY <1>0, <1>1, <2>1, <2>3, <2>5, <3>1, <3>2, <3>3, <3>4, ChannelAppend
  <2> QED
    BY <2>1, <2>2, <2>4, <2>5, SendEffect DEF Core
<1>6. CASE HeartbeatSends
  <2>1. UNCHANGED <<pc, at, cur>> /\ sendOrDrop(sess, Heartbeat)
    BY <1>6 DEF HeartbeatSends, jobs
  <2>2. PICK m \in Outbound : m = Heartbeat /\ m[1] = "heartbeat" /\ m[2] = None
    BY MessageTypes
  <2>3. \A d \in Dispatches : /\ Answered(d, PastAck)' <=> Answered(d, PastAck)
                              /\ Answered(d, {"rejected"})' <=> Answered(d, {"rejected"})
    BY <2>1 DEF Answered, BeingAnswered
  <2>4. CASE sendCh' = sendCh
    BY <1>0, <1>1, <2>1, <2>3, <2>4, ChannelQuiet
  <2>5. CASE sendCh' = Append(sendCh, m)
    BY <1>0, <1>1, <2>1, <2>2, <2>3, <2>5, NoneAssumption, ChannelAppend
  <2> QED
    BY <2>1, <2>2, <2>4, <2>5, SendEffect DEF Core
<1>7. ASSUME NEW e \in Dispatches, Report(e) PROVE Channel'
  <2>1. /\ pc[e] \in Statuses /\ UNCHANGED <<at, cur>> /\ sendOrDrop(sessOf[e], <<pc[e], e>>)
        /\ \A d \in Dispatches : pc'[d] = IF d = e THEN "cleanup" ELSE pc[d]
    BY <1>7 DEF Report, Core, TypeOK
  <2>2. PICK m \in Outbound : m = <<pc[e], e>> /\ m[1] = pc[e] /\ m[2] = e
    BY <2>1, MessageTypes
  <2>3. \A d \in Dispatches :
          /\ Answered(d, PastAck)' <=> Answered(d, PastAck)
          /\ Answered(d, {"rejected"}) => Answered(d, {"rejected"})'
          /\ pc[d] \in PastReport => pc'[d] \in PastReport
          /\ d # e /\ pc'[d] \in PastReport => pc[d] \in PastReport
    BY <2>1 DEF Answered, BeingAnswered, PastAck, PastReport, Statuses
  <2>4. sessOf[e] \in 0..MaxSessions /\ sessOf[e] <= sess /\ sess \in Nat
    BY DEF Core, TypeOK, Control
  <2>5. CASE sendCh' = sendCh /\ (ChClosed(sessOf[e]) \/ CtxDone(sessOf[e]))
    <3>1. Open' => sessOf[e] # sess
      BY <1>1, <1>3, <2>4, <2>5
    <3>2. \A d \in Dispatches : Open' /\ sessOf'[d] = sess =>
            /\ Answered(d, PastAck)' => Answered(d, PastAck)
            /\ pc'[d] \in PastReport => pc[d] \in PastReport
      BY <1>0, <2>3, <3>1
    <3> QED
      BY <1>0, <1>1, <2>3, <2>5, <3>2, ChannelQuiet
  <2>6. CASE ~ChClosed(sessOf[e]) /\ sendCh' = Append(sendCh, m)
    <3>1. sessOf[m[2]] = sess
      BY <1>4, <2>2, <2>4, <2>6
    <3>2. told[e] \in {"nothing", "accepted"}
      BY <2>1 DEF Channel, ToldOK, Answered, PastReport, Statuses, Core, TypeOK
    <3>3. m[1] \in Statuses /\ m[1] \notin {"ack", "nack"} /\ pc[m[2]] = m[1] /\ pc'[m[2]] \in PastReport
          /\ told[m[2]] \in {"nothing", "accepted"}
      BY <2>1, <2>2, <3>2 DEF Statuses, PastReport
    <3>4. m[1] = "canceled" => Excused(m[2])
      BY <2>2 DEF CancelReasons
    <3>5. \A d \in Dispatches :
            ~(m[1] \in Statuses /\ m[2] = d) /\ pc'[d] \in PastReport => pc[d] \in PastReport
      BY <2>2, <2>3, <3>3
    <3> QED
      BY <1>0, <1>1, <2>3, <2>6, <3>1, <3>3, <3>4, <3>5, ChannelAppend
  <2> QED
    BY <2>1, <2>2, <2>5, <2>6, SendEffect DEF Core
<1> QED
  BY <1>5, <1>6, <1>7

\* The sender.
LEMMA SenderChannel ==
  ASSUME Core, Channel, Next, SenderStep
  PROVE  Channel'
<1>0. UNCHANGED <<sess, sessOf, maxConcurrency, pc, at, cur, sessDone, rootDone, broken, asked, inner>>
  BY DEF SenderStep, config, jobs
<1>1. CASE sendCh # << >> /\ ~broken /\ Hears(Head(sendCh)) /\ sendCh' = Tail(sendCh)
  BY <1>0, <1>1, ChannelHeard
<1>2. CASE sendCh # << >> /\ (broken \/ SessCtxDone) /\ sendCh' = Tail(sendCh) /\ told' = told
  BY <1>0, <1>2, ChannelLost
<1>3. CASE UNCHANGED <<sendCh, told>>
  <2>1. Open' <=> Open
    BY <1>0 DEF Open, SessCtxDone
  <2>2. \A d \in Dispatches : \A S : Answered(d, S)' <=> Answered(d, S)
    BY <1>0 DEF Answered, BeingAnswered
  <2> QED
    BY <1>0, <1>3, <2>1, <2>2, ChannelQuiet
<1> QED
  BY <1>1, <1>2, <1>3 DEF SenderStep

-----------------------------------------------------------------------------
(* Theorems.                                                               *)

\* Every step keeps the invariant.
LEMMA IInvStep == IInv /\ [Next]_vars => IInv'
<1> SUFFICES ASSUME IInv, [Next]_vars PROVE IInv'
  OBVIOUS
<1>1. Core'
  BY CoreStep DEF IInv
<1>2. CASE Next
  <2>1. CancelFindsHandler' /\ CancelReasons'
    BY <1>2, HandlesStep, ReasonsStep DEF IInv
  <2>2. Channel'
    BY <1>1, <1>2, LoopChannel, RecvChannel, OthersChannel, SendChannel, SenderChannel
       DEF IInv, Next, StreamLoop, Handler
  <2> QED
    BY <1>1, <2>1, <2>2 DEF IInv
<1>3. CASE UNCHANGED vars
  <2>1. UNCHANGED <<maxConcurrency, rootDone, at, cur, sess, sessDone, closed, sendCh,
                    broken, pc, sessOf, ctx, cancels, told, asked, inner, doubled>>
    BY <1>3 DEF vars, config, session, jobs, ghost
  <2>2. CancelFindsHandler' /\ CancelReasons'
    BY <2>1 DEF IInv, CancelFindsHandler, CancelReasons, Live, Excused, CtxDone, SessCtxDone
  <2>3. MessagesOK' /\ AckBeforeResult' /\ ToldOK' /\ NothingDropped'
    BY <2>1 DEF IInv, Channel, MessagesOK, AckBeforeResult, ToldOK, NothingDropped, Answered,
                BeingAnswered, Open, Excused, CtxDone, SessCtxDone
  <2>4. NeverOver'
    <3>1. \A k : AcceptedAfter(k)' = AcceptedAfter(k)
      BY <2>1 DEF AcceptedAfter
    <3>2. Open' <=> Open
      BY <2>1 DEF Open, SessCtxDone
    <3> QED
      BY <2>1, <3>1, <3>2 DEF IInv, Channel, NeverOver
  <2> QED
    BY <1>1, <2>2, <2>3, <2>4 DEF IInv, Channel
<1> QED
  BY <1>2, <1>3

\* The inductive invariant of the worker stream: every dispatch is at one
\* place between inbox, receive loop and handler, and every message in the
\* channel, and everything the scheduler has heard, is true of the dispatch
\* it is about.
THEOREM Invariance == Spec => []IInv
BY InitIInv, IInvStep, PTL DEF Spec

\* Types: among others no token is given back that nobody holds and the
\* channel is never filled above its capacity.
THEOREM TypeCorrect == Spec => []TypeOK
<1>1. IInv => TypeOK
  BY DEF IInv, Core
<1> QED
  BY <1>1, Invariance, PTL

\* concurrencySem holds as many tokens as there are dispatches between the
\* acquire and the deferred release, however sessions end: none leaks, none
\* is released twice.
THEOREM TokensAccounted == Spec => []TokensHeld
<1>1. IInv => TokensHeld
  BY DEF IInv, Core, Tokens, TokensHeld, TokenHolders
<1> QED
  BY <1>1, Invariance, PTL

\* The scheduler never sees more accepted and unreported jobs of an open
\* session than MaxConcurrency.
THEOREM NotOverbooked == Spec => []NeverOverbooked
<1>1. IInv => NeverOverbooked
  <2> SUFFICES ASSUME IInv, Connected
               PROVE  Cardinality({d \in Dispatches : sessOf[d] = sess /\ told[d] = "accepted"}) <= maxConcurrency
    BY DEF NeverOverbooked
  <2>1. Open /\ 0 \in 0..Len(sendCh)
    BY DEF Connected, Open, IInv, Core, TypeOK
  <2>2. {d \in Dispatches : sessOf[d] = sess /\ told[d] = "accepted"} = AcceptedAfter(0)
    BY DEF AcceptedAfter
  <2> QED
    BY <2>1, <2>2 DEF IInv, Channel, NeverOver
<1> QED
  BY <1>1, Invariance, PTL

\* The scheduler hears of a result only after the Ack, unless the session of
\* the dispatch is done.
THEOREM AckComesFirst == Spec => []AckFirst
<1>1. IInv => AckFirst
  BY DEF IInv, Channel, ToldOK, AckFirst
<1> QED
  BY <1>1, Invariance, PTL

\* A Cancel finds the handler of its run, unless the run was dispatched again
\* while its handler was at work; a handle never outlives its handler.
THEOREM CancelReaches == Spec => []CancelFindsHandler
<1>1. IInv => CancelFindsHandler
  BY DEF IInv
<1> QED
  BY <1>1, Invariance, PTL

\* A job of an open session is reported as canceled only on request, or
\* because its handler returned the Canceled of another context.
THEOREM OnlyOnRequest == Spec => []CanceledOnRequest
<1>1. IInv => CanceledOnRequest
  BY DEF IInv, Channel, ToldOK, CanceledOnRequest, Excused
<1> QED
  BY <1>1, Invariance, PTL

=============================================================================
