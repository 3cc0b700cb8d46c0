----------------------- MODULE ClientLifecycleProofs -----------------------
(***************************************************************************)
(* Theorems about ClientLifecycle, for any number of callers, dials and    *)
(* handlers.                                                               *)
(***************************************************************************)
EXTENDS ClientLifecycle, TLAPS

USE DialsAssumption, HandlersAssumption, BufferAssumption

-----------------------------------------------------------------------------
(* The inductive invariant.                                                *)

\* Connections, contexts and channels are those of dials that took place.
Known ==
  /\ conn \in 0..dials
  /\ rootCtx \in 0..dials
  /\ streamDone \in 0..dials
  /\ \A c \in Callers :
       /\ mine[c] \in 0..dials
       /\ pc[c] \in {"conn", "ctx", "go"} => mine[c] # 0
  /\ \A g \in Dials :
       /\ g > dials => loop[g].at = "none" /\ g \notin open \cup canceled \cup closed
       /\ loop[g].at # "none" => streamDone # 0
       /\ loop[g].at \notin {"none", "new", "gone"} => loop[g].done \in 1..dials

\* Nothing is left of the Starts so far.
Down ==
  /\ \A g \in Dials : LoopOver(g)
  /\ inflight = 0
  /\ open = {}
  /\ rootCtx = 0 \/ rootCtx \in canceled

\* A Start has its connection and has not launched its loops.
Fresh(c) ==
  /\ dials # 0
  /\ mine[c] = dials
  /\ open = {dials}
  /\ dials \notin canceled
  /\ dials \notin closed
  /\ \A g \in Dials : LoopOver(g)
  /\ inflight = 0

\* The fields and the loop are those of the last dial, and no other is there.
Attached ==
  /\ dials # 0
  /\ conn = dials
  /\ rootCtx = dials
  /\ streamDone = dials
  /\ open = {dials}
  /\ \A g \in Dials : g # dials => LoopOver(g)
  /\ loop[dials].at # "none"
  /\ loop[dials].at = "gone" <=> dials \in closed
  /\ loop[dials].at \notin {"new", "gone"} => loop[dials].done = dials
  /\ loop[dials].at \in {"session", "backoff"} => loop[dials].ctx = dials

Live == Attached /\ dials \notin canceled /\ loop[dials].at # "gone"

Resting == Idle => IF started THEN Live ELSE Down

InStart(c) ==
  /\ pc[c] \in Starting => started
  /\ pc[c] = "dial" => Down
  /\ pc[c] \in {"conn", "ctx", "go"} => Fresh(c)
  /\ pc[c] \in {"ctx", "go"} => conn = dials
  /\ pc[c] = "go" => rootCtx = dials

InStop(c) ==
  /\ pc[c] \in Stopping => ~started /\ Attached
  /\ pc[c] = "cancel" => Live
  /\ pc[c] \in Stopping \ {"cancel"} => dials \in canceled
  /\ pc[c] = "wait" => mine[c] = dials
  /\ pc[c] \in {"handlers", "close"} => loop[dials].at = "gone"
  /\ pc[c] = "close" => inflight = 0

\* What holds as long as calls do not overlap and no Stop runs out of time.
Orderly ==
  ~tangled /\ ~expired =>
    /\ ~panicked
    /\ \A b, c \in Callers : pc[b] # "idle" /\ pc[c] # "idle" => b = c
    /\ Resting
    /\ \A c \in Callers : InStart(c) /\ InStop(c)

Inv == TypeOK /\ Known /\ Orderly

\* The client as New returns it satisfies the invariant.
LEMMA InitInv == Init => Inv
<1> SUFFICES ASSUME Init PROVE Inv
  OBVIOUS
<1>1. TypeOK
  <2>1. 0 \in 0..MaxDials /\ 0 \in 0..MaxHandlers
    OBVIOUS
  <2>2. QED
    BY <2>1 DEF Init, TypeOK
<1>2. Known
  BY DEF Init, Known, Dials
<1>3. Orderly
  BY DEF Init, Orderly, Resting, Down, InStart, InStop, Idle, Starting, Stopping, LoopOver
<1>4. QED
  BY <1>1, <1>2, <1>3 DEF Inv

-----------------------------------------------------------------------------
(* Start.                                                                  *)

\* Start keeps the invariant.
LEMMA StartInv ==
  ASSUME Inv, ~panicked, NEW c \in Callers, Start(c)
  PROVE  Inv'
<1>1. TypeOK'
  BY DEF Inv, TypeOK, Start, Starting, fields, world, calls, ghost
<1>2. Known'
  BY DEF Inv, TypeOK, Known, Start, fields, world
<1>3. Orderly'
  <2> SUFFICES ASSUME ~tangled', ~expired' PROVE Orderly'
    BY DEF Orderly
  <2>1. Idle /\ Down /\ ~tangled /\ ~expired
    BY DEF Inv, Orderly, Resting, Start
  <2>2. Down'
    BY <2>1 DEF Down, Start, fields, world, LoopOver
  <2>3. \A b \in Callers : pc'[b] # "idle" => b = c /\ pc'[b] = "dial"
    BY <2>1 DEF Inv, TypeOK, Start, Idle
  <2>4. QED
    BY <2>2, <2>3 DEF Inv, TypeOK, Orderly, Resting, InStart, InStop, Idle, Start, Starting, Stopping
<1>4. QED
  BY <1>1, <1>2, <1>3 DEF Inv

\* So does a dial.
LEMMA DialedInv ==
  ASSUME Inv, ~panicked, NEW c \in Callers, Dialed(c)
  PROVE  Inv'
<1>1. TypeOK'
  <2>1. dials' \in Dials /\ dials' \in 0..MaxDials
    BY DEF Inv, TypeOK, Dialed, Dials
  <2>2. QED
    BY <2>1 DEF Inv, TypeOK, Dialed, Starting, fields, ghost
<1>2. Known'
  BY DEF Inv, TypeOK, Known, Dialed, fields, world, Dials
<1>3. Orderly'
  <2> SUFFICES ASSUME ~tangled', ~expired' PROVE Orderly'
    BY DEF Orderly
  <2>1. Down /\ started /\ \A b \in Callers : pc[b] # "idle" => b = c
    BY DEF Inv, Orderly, InStart, Dialed, ghost, Starting
  <2>2. Fresh(c)'
    BY <2>1 DEF Inv, TypeOK, Known, Down, Fresh, Dialed, LoopOver, Dials
  <2>3. \A b \in Callers : pc'[b] # "idle" => b = c /\ pc'[b] = "conn"
    BY <2>1 DEF Inv, TypeOK, Dialed
  <2>4. ~Idle' /\ started'
    BY <2>1 DEF Inv, TypeOK, Dialed, Idle
  <2>5. QED
    BY <2>2, <2>3, <2>4 DEF Dialed, Orderly, Resting, InStart, InStop, Starting, Stopping
<1>4. QED
  BY <1>1, <1>2, <1>3 DEF Inv

\* A failed dial takes the flag back and leaves nothing behind.
LEMMA DialFailsInv ==
  ASSUME Inv, ~panicked, NEW c \in Callers, DialFails(c)
  PROVE  Inv'
<1>1. TypeOK'
  BY DEF Inv, TypeOK, DialFails, fields, world, ghost
<1>2. Known'
  BY DEF Inv, TypeOK, Known, DialFails, fields, world
<1>3. Orderly'
  <2> SUFFICES ASSUME ~tangled', ~expired' PROVE Orderly'
    BY DEF Orderly
  <2>1. Down /\ \A b \in Callers : pc[b] # "idle" => b = c
    BY DEF Inv, Orderly, InStart, DialFails, ghost
  <2>2. Down'
    BY <2>1 DEF Down, DialFails, fields, world, LoopOver
  <2>3. \A b \in Callers : pc'[b] = "idle"
    BY <2>1 DEF Inv, TypeOK, DialFails
  <2>4. QED
    BY <2>2, <2>3 DEF Inv, TypeOK, Orderly, Resting, InStart, InStop, DialFails, Starting, Stopping
<1>4. QED
  BY <1>1, <1>2, <1>3 DEF Inv

\* The assignment of the connection.
LEMMA SetConnInv ==
  ASSUME Inv, ~panicked, NEW c \in Callers, SetConn(c)
  PROVE  Inv'
<1>1. TypeOK'
  BY DEF Inv, TypeOK, SetConn, Starting, world, ghost
<1>2. Known'
  BY DEF Inv, TypeOK, Known, SetConn, world
<1>3. Orderly'
  <2> SUFFICES ASSUME ~tangled', ~expired' PROVE Orderly'
    BY DEF Orderly
  <2>1. Fresh(c) /\ started /\ \A b \in Callers : pc[b] # "idle" => b = c
    BY DEF Inv, Orderly, InStart, SetConn, ghost, Starting
  <2>2. Fresh(c)' /\ conn' = dials'
    BY <2>1 DEF Fresh, SetConn, world, LoopOver
  <2>3. \A b \in Callers : pc'[b] # "idle" => b = c /\ pc'[b] = "ctx"
    BY <2>1 DEF Inv, TypeOK, SetConn
  <2>4. ~Idle' /\ started'
    BY <2>1 DEF Inv, TypeOK, SetConn, Idle
  <2>5. QED
    BY <2>2, <2>3, <2>4 DEF SetConn, Orderly, Resting, InStart, InStop, Starting, Stopping
<1>4. QED
  BY <1>1, <1>2, <1>3 DEF Inv

\* The assignment of the context.
LEMMA SetRootCtxInv ==
  ASSUME Inv, ~panicked, NEW c \in Callers, SetRootCtx(c)
  PROVE  Inv'
<1>1. TypeOK'
  BY DEF Inv, TypeOK, SetRootCtx, Starting, world, ghost
<1>2. Known'
  BY DEF Inv, TypeOK, Known, SetRootCtx, world
<1>3. Orderly'
  <2> SUFFICES ASSUME ~tangled', ~expired' PROVE Orderly'
    BY DEF Orderly
  <2>1. Fresh(c) /\ conn = dials /\ started /\ \A b \in Callers : pc[b] # "idle" => b = c
    BY DEF Inv, Orderly, InStart, SetRootCtx, ghost, Starting
  <2>2. Fresh(c)' /\ conn' = dials' /\ rootCtx' = dials'
    BY <2>1 DEF Fresh, SetRootCtx, world, LoopOver
  <2>3. \A b \in Callers : pc'[b] # "idle" => b = c /\ pc'[b] = "go"
    BY <2>1 DEF Inv, TypeOK, SetRootCtx
  <2>4. ~Idle' /\ started'
    BY <2>1 DEF Inv, TypeOK, SetRootCtx, Idle
  <2>5. QED
    BY <2>2, <2>3, <2>4 DEF SetRootCtx, Orderly, Resting, InStart, InStop, Starting, Stopping
<1>4. QED
  BY <1>1, <1>2, <1>3 DEF Inv

\* The last step of Start: the client is live.
LEMMA LaunchInv ==
  ASSUME Inv, ~panicked, NEW c \in Callers, Launch(c)
  PROVE  Inv'
<1>1. mine[c] \in 1..dials /\ mine[c] \in Dials
  BY DEF Inv, TypeOK, Known, Launch, Dials
<1>2. TypeOK'
  <2>1. loop' \in [Dials -> [at : {"none", "new", "top", "session", "ended", "backoff", "gone"},
                         ctx : 0..MaxDials, done : 0..MaxDials]]
    BY <1>1 DEF Inv, TypeOK, Launch
  <2>2. retry' \in [Dials -> [at : {"none", "flush", "select", "gone"}, ctx : 0..MaxDials]]
    BY <1>1 DEF Inv, TypeOK, Launch
  <2>3. QED
    BY <2>1, <2>2, <1>1 DEF Inv, TypeOK, Launch, world, ghost
<1>3. Known'
  BY <1>1 DEF Inv, TypeOK, Known, Launch, world, Dials
<1>4. Orderly'
  <2> SUFFICES ASSUME ~tangled', ~expired' PROVE Orderly'
    BY DEF Orderly
  <2>1. /\ Fresh(c) /\ conn = dials /\ rootCtx = dials /\ started
        /\ \A b \in Callers : pc[b] # "idle" => b = c
    BY DEF Inv, Orderly, InStart, Launch, ghost, Starting
  <2>2. \A b \in Callers : pc'[b] = "idle"
    BY <2>1 DEF Inv, TypeOK, Launch
  <2>3. Live' /\ started'
    BY <1>1, <2>1 DEF Inv, TypeOK, Launch, Fresh, Live, Attached, LoopOver, world, Dials
  <2>4. ~panicked'
    BY DEF Launch
  <2>5. QED
    BY <2>2, <2>3, <2>4 DEF Orderly, Resting, InStart, InStop, Starting, Stopping
<1>5. QED
  BY <1>2, <1>3, <1>4 DEF Inv

-----------------------------------------------------------------------------
(* Stop.                                                                   *)

\* Stop keeps the invariant.
LEMMA StopInv ==
  ASSUME Inv, ~panicked, NEW c \in Callers, Stop(c)
  PROVE  Inv'
<1>1. TypeOK'
  BY DEF Inv, TypeOK, Stop, Stopping, fields, world, ghost
<1>2. Known'
  BY DEF Inv, TypeOK, Known, Stop, fields, world
<1>3. Orderly'
  <2> SUFFICES ASSUME ~tangled', ~expired' PROVE Orderly'
    BY DEF Orderly
  <2>1. Idle /\ Live
    BY DEF Inv, Orderly, Resting, Stop
  <2>2. Live' /\ Attached'
    BY <2>1 DEF Live, Attached, Stop, fields, world, LoopOver
  <2>3. \A b \in Callers : pc'[b] # "idle" => b = c /\ pc'[b] = "cancel"
    BY <2>1 DEF Inv, TypeOK, Stop, Idle
  <2>4. ~Idle'
    BY DEF Inv, TypeOK, Stop, Idle
  <2>5. QED
    BY <2>2, <2>3, <2>4 DEF Stop, Orderly, Resting, InStart, InStop, Starting, Stopping
<1>4. QED
  BY <1>1, <1>2, <1>3 DEF Inv

\* The context of the live loop is cancelled.
LEMMA CancelRootInv ==
  ASSUME Inv, ~panicked, NEW c \in Callers, CancelRoot(c)
  PROVE  Inv'
<1>1. TypeOK'
  <2>1. canceled' \in SUBSET Dials
    BY DEF Inv, TypeOK, CancelRoot, Dials
  <2>2. QED
    BY <2>1 DEF Inv, TypeOK, CancelRoot, Stopping, fields, ghost
<1>2. Known'
  BY DEF Inv, TypeOK, Known, CancelRoot, fields, Dials
<1>3. Orderly'
  <2> SUFFICES ASSUME ~tangled', ~expired' PROVE Orderly'
    BY DEF Orderly
  <2>1. Live /\ ~started /\ \A b \in Callers : pc[b] # "idle" => b = c
    BY DEF Inv, Orderly, InStop, CancelRoot, ghost, Stopping
  <2>2. Attached' /\ dials' \in canceled'
    BY <2>1 DEF Live, Attached, CancelRoot, fields, LoopOver
  <2>3. \A b \in Callers : pc'[b] # "idle" => b = c /\ pc'[b] = "select"
    BY <2>1 DEF Inv, TypeOK, CancelRoot
  <2>4. ~Idle' /\ ~started'
    BY <2>1 DEF Inv, TypeOK, CancelRoot, Idle
  <2>5. QED
    BY <2>2, <2>3, <2>4 DEF CancelRoot, Orderly, Resting, InStart, InStop, Starting, Stopping
<1>4. QED
  BY <1>1, <1>2, <1>3 DEF Inv

\* Stop waits for the channel of the loop that is there.
LEMMA SelectStreamDoneInv ==
  ASSUME Inv, ~panicked, NEW c \in Callers, SelectStreamDone(c)
  PROVE  Inv'
<1>1. TypeOK'
  BY DEF Inv, TypeOK, SelectStreamDone, Stopping, fields, world, ghost
<1>2. Known'
  BY DEF Inv, TypeOK, Known, SelectStreamDone, fields, world
<1>3. Orderly'
  <2> SUFFICES ASSUME ~tangled', ~expired' PROVE Orderly'
    BY DEF Orderly
  <2>1. /\ Attached /\ dials \in canceled /\ ~started
        /\ \A b \in Callers : pc[b] # "idle" => b = c
    BY DEF Inv, Orderly, InStop, SelectStreamDone, ghost, Stopping
  <2>2. Attached' /\ dials' \in canceled' /\ mine'[c] = dials'
    BY <2>1 DEF Inv, TypeOK, Attached, SelectStreamDone, fields, world, LoopOver
  <2>3. \A b \in Callers : pc'[b] # "idle" => b = c /\ pc'[b] = "wait"
    BY <2>1 DEF Inv, TypeOK, SelectStreamDone, Attached
  <2>4. ~Idle' /\ ~started'
    BY <2>1 DEF Inv, TypeOK, SelectStreamDone, Idle
  <2>5. QED
    BY <2>2, <2>3, <2>4 DEF SelectStreamDone, Orderly, Resting, InStart, InStop, Starting, Stopping
<1>4. QED
  BY <1>1, <1>2, <1>3 DEF Inv

\* The closed channel is that of the last loop, which is gone.
LEMMA StreamEndedInv ==
  ASSUME Inv, ~panicked, NEW c \in Callers, StreamEnded(c)
  PROVE  Inv'
<1>1. TypeOK'
  BY DEF Inv, TypeOK, StreamEnded, Stopping, fields, world, ghost
<1>2. Known'
  BY DEF Inv, TypeOK, Known, StreamEnded, fields, world
<1>3. Orderly'
  <2> SUFFICES ASSUME ~tangled', ~expired' PROVE Orderly'
    BY DEF Orderly
  <2>1. /\ Attached /\ dials \in canceled /\ ~started /\ mine[c] = dials
        /\ \A b \in Callers : pc[b] # "idle" => b = c
    BY DEF Inv, Orderly, InStop, StreamEnded, ghost, Stopping
  <2>2. Attached' /\ dials' \in canceled' /\ loop'[dials'].at = "gone"
    BY <2>1 DEF Attached, StreamEnded, fields, world, LoopOver
  <2>3. \A b \in Callers : pc'[b] # "idle" => b = c /\ pc'[b] = "handlers"
    BY <2>1 DEF Inv, TypeOK, StreamEnded
  <2>4. ~Idle' /\ ~started'
    BY <2>1 DEF Inv, TypeOK, StreamEnded, Idle
  <2>5. QED
    BY <2>2, <2>3, <2>4 DEF StreamEnded, Orderly, Resting, InStart, InStop, Starting, Stopping
<1>4. QED
  BY <1>1, <1>2, <1>3 DEF Inv

\* The handlers have ended, and no loop is there to start another.
LEMMA HandlersEndedInv ==
  ASSUME Inv, ~panicked, NEW c \in Callers, HandlersEnded(c)
  PROVE  Inv'
<1>1. TypeOK'
  BY DEF Inv, TypeOK, HandlersEnded, Stopping, fields, world, ghost
<1>2. Known'
  BY DEF Inv, TypeOK, Known, HandlersEnded, fields, world
<1>3. Orderly'
  <2> SUFFICES ASSUME ~tangled', ~expired' PROVE Orderly'
    BY DEF Orderly
  <2>1. /\ Attached /\ dials \in canceled /\ ~started /\ loop[dials].at = "gone"
        /\ \A b \in Callers : pc[b] # "idle" => b = c
    BY DEF Inv, Orderly, InStop, HandlersEnded, ghost, Stopping
  <2>2. Attached' /\ dials' \in canceled' /\ loop'[dials'].at = "gone" /\ inflight' = 0
    BY <2>1 DEF Attached, HandlersEnded, fields, world, LoopOver
  <2>3. \A b \in Callers : pc'[b] # "idle" => b = c /\ pc'[b] = "close"
    BY <2>1 DEF Inv, TypeOK, HandlersEnded
  <2>4. ~Idle' /\ ~started'
    BY <2>1 DEF Inv, TypeOK, HandlersEnded, Idle
  <2>5. QED
    BY <2>2, <2>3, <2>4 DEF HandlersEnded, Orderly, Resting, InStart, InStop, Starting, Stopping
<1>4. QED
  BY <1>1, <1>2, <1>3 DEF Inv

\* A Stop that runs out of time ends what Orderly speaks of.
LEMMA ExpireInv ==
  ASSUME Inv, ~panicked, NEW c \in Callers, Expire(c)
  PROVE  Inv'
<1>1. TypeOK'
  BY DEF Inv, TypeOK, Expire, Stopping, fields, world
<1>2. Known'
  BY DEF Inv, TypeOK, Known, Expire, fields, world
<1>3. Orderly'
  BY DEF Orderly, Expire
<1>4. QED
  BY <1>1, <1>2, <1>3 DEF Inv

\* The last step of Stop: nothing is left.
LEMMA CloseConnInv ==
  ASSUME Inv, ~panicked, NEW c \in Callers, CloseConn(c)
  PROVE  Inv'
<1>1. TypeOK'
  BY DEF Inv, TypeOK, CloseConn, fields, ghost
<1>2. Known'
  BY DEF Inv, TypeOK, Known, CloseConn, fields
<1>3. Orderly'
  <2> SUFFICES ASSUME ~tangled', ~expired' PROVE Orderly'
    BY DEF Orderly
  <2>1. /\ Attached /\ dials \in canceled /\ ~started
        /\ loop[dials].at = "gone" /\ inflight = 0
        /\ \A b \in Callers : pc[b] # "idle" => b = c
    BY DEF Inv, Orderly, InStop, CloseConn, ghost, Stopping
  <2>2. Down'
    BY <2>1 DEF Attached, Down, CloseConn, fields, LoopOver
  <2>3. \A b \in Callers : pc'[b] = "idle"
    BY <2>1 DEF Inv, TypeOK, CloseConn
  <2>4. QED
    BY <2>1, <2>2, <2>3 DEF CloseConn, Orderly, Resting, InStart, InStop, Starting, Stopping
<1>4. QED
  BY <1>1, <1>2, <1>3 DEF Inv

-----------------------------------------------------------------------------
(* The loops.                                                              *)

\* A stream loop that is there is the last one; the client is live, or a Stop
\* has not seen the end of the loop yet.
LEMMA OneAtWork ==
  ASSUME Inv, ~tangled, ~expired, NEW g \in Dials, ~LoopOver(g)
  PROVE  /\ g = dials /\ Attached
         /\ \A c \in Callers : pc[c] \in {"idle", "cancel", "select", "wait"}
         /\ Idle => started
<1>1. CASE Idle
  BY <1>1 DEF Inv, Orderly, Resting, Down, Live, Attached, Idle
<1>2. CASE ~Idle
  <2>1. PICK c \in Callers : pc[c] # "idle"
    BY <1>2 DEF Idle
  <2>2. \A b \in Callers : b # c => pc[b] = "idle"
    BY <2>1 DEF Inv, Orderly
  <2>3. InStart(c) /\ InStop(c)
    BY DEF Inv, Orderly
  <2>4. pc[c] \in Stopping
    BY <2>1, <2>3 DEF Inv, TypeOK, InStart, Down, Fresh, Starting
  <2>5. Attached /\ g = dials
    BY <2>3, <2>4 DEF InStop, Attached
  <2>6. pc[c] \in {"cancel", "select", "wait"}
    BY <2>3, <2>4, <2>5 DEF InStop, Stopping, LoopOver
  <2>7. QED
    BY <1>2, <2>2, <2>5, <2>6
<1>3. QED
  BY <1>1, <1>2

\* A step of that loop disturbs nothing if the fields go with it still and it
\* leaves only under a cancelled context.
LEMMA LoopOrder ==
  ASSUME Inv, NEW g \in Dials, ~LoopOver(g),
         UNCHANGED <<calls, fields, dials, open, canceled, ghost>>,
         ~tangled /\ ~expired =>
           /\ ~panicked'
           /\ Attached'
           /\ loop'[dials].at = "gone" => dials \in canceled
  PROVE  Orderly'
<1> SUFFICES ASSUME ~tangled', ~expired' PROVE Orderly'
  BY DEF Orderly
<1>1. ~tangled /\ ~expired
  BY DEF ghost
<1>2. /\ \A c \in Callers : pc[c] \in {"idle", "cancel", "select", "wait"}
      /\ Idle => started
  BY <1>1, OneAtWork
<1>3. pc' = pc /\ mine' = mine /\ started' = started /\ dials' = dials /\ canceled' = canceled
  BY DEF calls
<1>4. ~panicked' /\ Attached' /\ (loop'[dials].at = "gone" => dials \in canceled)
  BY <1>1
<1>5. Resting'
  BY <1>1, <1>2, <1>3, <1>4 DEF Inv, Orderly, Resting, Idle, Live
<1>6. ASSUME NEW c \in Callers PROVE InStart(c)' /\ InStop(c)'
  <2>1. InStop(c)
    BY <1>1 DEF Inv, Orderly
  <2>2. pc'[c] \in {"idle", "cancel", "select", "wait"}
    BY <1>2, <1>3
  <2>3. QED
    BY <1>3, <1>4, <2>1, <2>2 DEF InStart, InStop, Starting, Stopping, Live
<1>7. \A b, c \in Callers : pc'[b] # "idle" /\ pc'[c] # "idle" => b = c
  BY <1>1, <1>3 DEF Inv, Orderly
<1>8. QED
  BY <1>4, <1>5, <1>6, <1>7 DEF Orderly

\* The loop begins and takes its channel.
LEMMA LoopBeginsInv ==
  ASSUME Inv, ~panicked, NEW g \in Dials, LoopBegins(g)
  PROVE  Inv'
<1>1. TypeOK'
  BY DEF Inv, TypeOK, LoopBegins, calls, fields, world, ghost
<1>2. Known'
  BY DEF Inv, TypeOK, Known, LoopBegins, calls, fields, world, Dials
<1>3. Orderly'
  <2>1. ~LoopOver(g)
    BY DEF LoopBegins, LoopOver
  <2>2. ASSUME ~tangled, ~expired PROVE Attached' /\ loop'[dials].at # "gone"
    <3>1. g = dials /\ Attached
      BY <2>1, <2>2, OneAtWork
    <3>2. QED
      BY <3>1 DEF Inv, TypeOK, LoopBegins, Attached, LoopOver, fields, world
  <2>3. QED
    BY <2>1, <2>2, LoopOrder DEF LoopBegins, world
<1>4. QED
  BY <1>1, <1>2, <1>3 DEF Inv

\* A loop that leaves closes its own channel, and that for the first time.
LEMMA LeaveInv ==
  ASSUME Inv, ~panicked, NEW g \in Dials,
         loop[g].at \in {"top", "ended", "backoff"},
         rootCtx \in canceled \/ (loop[g].at = "backoff" /\ loop[g].ctx \in canceled),
         Leave(g),
         UNCHANGED <<calls, fields, dials, open, canceled, retry, inflight, ghost>>
  PROVE  Inv'
<1>1. loop[g].done \in 1..dials /\ loop[g].done \in Dials
  <2>1. loop[g].at \notin {"none", "new", "gone"}
    OBVIOUS
  <2>2. loop[g].done \in 1..dials
    BY <2>1 DEF Inv, Known
  <2>3. dials \in 0..MaxDials
    BY DEF Inv, TypeOK
  <2>4. QED
    BY <2>2, <2>3 DEF Dials
<1>2. TypeOK'
  BY <1>1 DEF Inv, TypeOK, Leave, calls, fields, ghost
<1>3. Known'
  <2>1. g <= dials
    BY DEF Inv, TypeOK, Known, Dials
  <2>2. \A h \in Dials : loop'[h] = IF h = g THEN [at |-> "gone", ctx |-> 0, done |-> 0] ELSE loop[h]
    BY DEF Inv, TypeOK, Leave
  <2>3. closed' = closed \cup {loop[g].done}
    BY DEF Leave
  <2>4. ASSUME NEW h \in Dials
        PROVE  /\ h > dials => loop'[h].at = "none" /\ h \notin open \cup canceled \cup closed'
               /\ loop'[h].at # "none" => streamDone # 0
               /\ loop'[h].at \notin {"none", "new", "gone"} => loop'[h].done \in 1..dials
    <3>1. /\ h > dials => loop[h].at = "none" /\ h \notin open \cup canceled \cup closed
          /\ loop[h].at # "none" => streamDone # 0
          /\ loop[h].at \notin {"none", "new", "gone"} => loop[h].done \in 1..dials
      BY DEF Inv, Known
    <3>2. h > dials => h # g /\ h # loop[g].done
      <4>1. dials \in Nat
        BY DEF Inv, TypeOK
      <4>2. ASSUME NEW n \in 1..dials, h > dials PROVE h # n
        BY <4>1, <4>2 DEF Dials
      <4>3. ASSUME h > dials PROVE h # g
        BY <2>1, <4>1, <4>3 DEF Dials
      <4>4. QED
        BY <1>1, <4>2, <4>3
    <3>3. loop[g].at # "none" /\ streamDone # 0
      BY DEF Inv, Known
    <3>4. CASE h = g
      BY <2>2, <2>3, <3>1, <3>2, <3>3, <3>4
    <3>5. CASE h # g
      BY <2>2, <2>3, <3>1, <3>2, <3>5
    <3>6. QED
      BY <3>4, <3>5
  <2>5. QED
    BY <2>4 DEF Inv, Known, calls, fields
<1>4. Orderly'
  <2>1. ~LoopOver(g)
    BY DEF LoopOver
  <2>2. ASSUME ~tangled, ~expired
        PROVE  ~panicked' /\ Attached' /\ dials \in canceled
    <3>1. g = dials /\ Attached
      BY <2>1, <2>2, OneAtWork
    <3>2. loop[g].done = dials /\ dials \notin closed /\ dials \in canceled
      BY <3>1 DEF Attached
    <3>3. QED
      BY <3>1, <3>2 DEF Inv, TypeOK, Leave, Attached, LoopOver, fields
  <2>3. QED
    BY <2>1, <2>2, LoopOrder
<1>5. QED
  BY <1>2, <1>3, <1>4 DEF Inv

\* A loop that goes on, from place to place, under the context of the moment
\* or none.
LEMMA GoOnInv ==
  ASSUME Inv, ~panicked, NEW g \in Dials,
         loop[g].at \in {"top", "session", "ended", "backoff"},
         NEW place \in {"top", "session", "ended", "backoff"}, NEW ctx \in {0, rootCtx},
         place \in {"session", "backoff"} => ctx = rootCtx,
         loop' = [loop EXCEPT ![g].at = place, ![g].ctx = ctx],
         UNCHANGED <<calls, fields, world, retry, inflight, panicked, ghost>>
  PROVE  Inv'
<1>1. TypeOK'
  <2>1. ctx \in 0..MaxDials
    BY DEF Inv, TypeOK
  <2>2. loop' \in [Dials -> [at : {"none", "new", "top", "session", "ended", "backoff", "gone"},
                         ctx : 0..MaxDials, done : 0..MaxDials]]
    <3>1. place \in {"none", "new", "top", "session", "ended", "backoff", "gone"}
      OBVIOUS
    <3>2. [loop[g] EXCEPT !.at = place, !.ctx = ctx] \in
            [at : {"none", "new", "top", "session", "ended", "backoff", "gone"},
             ctx : 0..MaxDials, done : 0..MaxDials]
      <4>1. loop[g] \in [at : {"none", "new", "top", "session", "ended", "backoff", "gone"},
                          ctx : 0..MaxDials, done : 0..MaxDials]
        BY DEF Inv, TypeOK
      <4>2. QED
        BY <2>1, <3>1, <4>1
    <3>3. loop' = [loop EXCEPT ![g] = [loop[g] EXCEPT !.at = place, !.ctx = ctx]]
      BY DEF Inv, TypeOK
    <3>4. QED
      BY <3>2, <3>3 DEF Inv, TypeOK
  <2>3. QED
    BY <2>2 DEF Inv, TypeOK, calls, fields, world, ghost
<1>2. Known'
  BY DEF Inv, TypeOK, Known, calls, fields, world, Dials
<1>3. Orderly'
  <2>1. ~LoopOver(g)
    BY DEF LoopOver
  <2>2. ASSUME ~tangled, ~expired PROVE Attached' /\ loop'[dials].at # "gone"
    <3>1. g = dials /\ Attached
      BY <2>1, <2>2, OneAtWork
    <3>2. QED
      BY <3>1 DEF Inv, TypeOK, Attached, LoopOver, fields, world
  <2>3. QED
    BY <2>1, <2>2, LoopOrder DEF world
<1>4. QED
  BY <1>1, <1>2, <1>3 DEF Inv

\* The steps of a stream loop.
LEMMA LoopInv ==
  ASSUME Inv, ~panicked, NEW g \in Dials, LoopStep(g) \/ SessionEnds(g)
  PROVE  Inv'
<1>1. CASE LoopBegins(g)
  BY <1>1, LoopBeginsInv
<1>2. CASE LoopTop(g)
  <2>1. CASE rootCtx \in canceled
    BY <1>2, <2>1, LeaveInv DEF LoopTop
  <2>2. CASE rootCtx \notin canceled
    BY <1>2, <2>2, GoOnInv DEF LoopTop, world
  <2>3. QED
    BY <2>1, <2>2
<1>3. CASE SessionEnds(g)
  BY <1>3, GoOnInv DEF SessionEnds
<1>4. CASE SessionEnded(g)
  <2>1. CASE rootCtx \in canceled
    BY <1>4, <2>1, LeaveInv DEF SessionEnded
  <2>2. CASE rootCtx \notin canceled
    BY <1>4, <2>2, GoOnInv DEF SessionEnded, world
  <2>3. QED
    BY <2>1, <2>2
<1>5. CASE BackoffEnds(g)
  <2>1. CASE loop[g].ctx \in canceled /\ Leave(g)
    BY <1>5, <2>1, LeaveInv DEF BackoffEnds
  <2>2. CASE ~(loop[g].ctx \in canceled /\ Leave(g))
    BY <1>5, <2>2, GoOnInv DEF BackoffEnds, world
  <2>3. QED
    BY <2>1, <2>2
<1>6. QED
  BY <1>1, <1>2, <1>3, <1>4, <1>5 DEF LoopStep

\* A handler begins only while a loop is in a session.
LEMMA DispatchInv ==
  ASSUME Inv, ~panicked, NEW g \in Dials, Dispatch(g)
  PROVE  Inv'
<1>1. TypeOK'
  BY DEF Inv, TypeOK, Dispatch, calls, fields, world, ghost
<1>2. Known'
  BY DEF Inv, Known, Dispatch, calls, fields, world
<1>3. Orderly'
  <2>1. ~LoopOver(g)
    BY DEF Dispatch, LoopOver
  <2>2. ASSUME ~tangled, ~expired PROVE Attached' /\ loop'[dials].at # "gone"
    <3>1. g = dials /\ Attached
      BY <2>1, <2>2, OneAtWork
    <3>2. QED
      BY <2>1, <3>1 DEF Dispatch, Attached, LoopOver, fields, world
  <2>3. QED
    BY <2>1, <2>2, LoopOrder DEF Dispatch, world
<1>4. QED
  BY <1>1, <1>2, <1>3 DEF Inv

\* The end of a handler, which a Stop may wait for.
LEMMA HandlerEndsInv ==
  ASSUME Inv, ~panicked, HandlerEnds
  PROVE  Inv'
<1>1. TypeOK'
  BY DEF Inv, TypeOK, HandlerEnds, calls, fields, world, ghost
<1>2. Known'
  BY DEF Inv, Known, HandlerEnds, calls, fields, world
<1>3. Orderly'
  <2> SUFFICES ASSUME ~tangled', ~expired' PROVE Orderly'
    BY DEF Orderly
  <2>1. /\ pc' = pc /\ mine' = mine /\ started' = started /\ dials' = dials
        /\ canceled' = canceled /\ loop' = loop /\ conn' = conn /\ rootCtx' = rootCtx
        /\ panicked' = panicked /\ ~tangled /\ ~expired /\ inflight # 0
    BY DEF Inv, TypeOK, HandlerEnds, calls, fields, world, ghost
  <2>2. Attached <=> Attached'
    BY DEF Attached, HandlerEnds, fields, world, LoopOver
  <2>3. Resting'
    BY <2>1, <2>2 DEF Inv, Orderly, Resting, Down, Live, Idle
  <2>4. ASSUME NEW c \in Callers PROVE InStart(c)' /\ InStop(c)'
    <3>1. InStart(c) /\ InStop(c)
      BY <2>1 DEF Inv, Orderly
    <3>2. InStart(c)'
      BY <2>1, <3>1 DEF InStart, Down, Fresh
    <3>3. InStop(c)'
      BY <2>1, <2>2, <3>1 DEF InStop, Live
    <3>4. QED
      BY <3>2, <3>3
  <2>5. QED
    BY <2>1, <2>3, <2>4 DEF Inv, Orderly
<1>4. QED
  BY <1>1, <1>2, <1>3 DEF Inv

\* The retry loops, and steps that change nothing, touch only retry.
LEMMA RetryInv ==
  ASSUME Inv, UNCHANGED <<calls, fields, world, loop, inflight, panicked, ghost>>,
         retry' = retry \/ \E g \in Dials :
           RetrySelect(g) \/ RetryWakes(g) \/ RetryLeaves(g)
  PROVE  Inv'
<1>1. retry' \in [Dials -> [at : {"none", "flush", "select", "gone"}, ctx : 0..MaxDials]]
  BY DEF Inv, TypeOK, RetrySelect, RetryWakes, RetryLeaves
<1>2. TypeOK'
  BY <1>1 DEF Inv, TypeOK, calls, fields, world, ghost
<1>3. Known'
  BY DEF Inv, Known, calls, fields, world
<1>4. Orderly'
  BY DEF Inv, Orderly, Resting, InStart, InStop, Down, Fresh, Live, Attached, Idle, LoopOver,
         calls, fields, world, ghost
<1>5. QED
  BY <1>2, <1>3, <1>4 DEF Inv

\* Every step keeps the invariant.
LEMMA StepInv == Inv /\ [Next]_vars => Inv'
<1> SUFFICES ASSUME Inv, [Next]_vars PROVE Inv'
  OBVIOUS
<1>1. CASE UNCHANGED vars
  BY <1>1, RetryInv DEF vars
<1>2. ASSUME ~panicked, NEW c \in Callers, Start(c) \/ Stop(c) \/ Expire(c) \/ Proceed(c)
      PROVE  Inv'
  BY <1>2, StartInv, StopInv, ExpireInv, DialedInv, DialFailsInv, SetConnInv, SetRootCtxInv,
     LaunchInv, CancelRootInv, SelectStreamDoneInv, StreamEndedInv, HandlersEndedInv,
     CloseConnInv DEF Proceed
<1>3. ASSUME ~panicked, NEW g \in Dials, LoopStep(g) \/ Dispatch(g) \/ SessionEnds(g)
      PROVE  Inv'
  BY <1>3, LoopInv, DispatchInv
<1>4. ASSUME NEW g \in Dials, RetrySelect(g) \/ RetryWakes(g) \/ RetryLeaves(g)
      PROVE  Inv'
  <2>1. UNCHANGED <<calls, fields, world, loop, inflight, panicked, ghost>>
    BY <1>4 DEF RetrySelect, RetryWakes, RetryLeaves
  <2>2. QED
    BY <1>4, <2>1, RetryInv
<1>5. QED
  BY <1>1, <1>2, <1>3, <1>4, HandlerEndsInv DEF Next

-----------------------------------------------------------------------------
(* Theorems.                                                               *)

\* The invariant holds in every reachable state.
THEOREM Invariance == Spec => []Inv
<1>1. QED
  BY InitInv, StepInv, PTL DEF Spec

\* Stop is thorough: as long as calls of Start and Stop do not overlap and
\* no Stop runs out of time, a stopped client has no loop, handler or open
\* connection left.
THEOREM Thorough == Spec => []StopIsThorough
<1>1. Inv => StopIsThorough
  BY DEF Inv, Orderly, Resting, Down, StopIsThorough
<1>2. QED
  BY <1>1, Invariance, PTL

\* Under the same conditions a started client has exactly one loop, on the
\* only open connection, and no channel is closed twice.
THEOREM Served == Spec => []StartedIsServed
<1>1. Inv => StartedIsServed
  <2> SUFFICES ASSUME Inv, ~tangled, ~expired PROVE StartedIsServed
    BY DEF StartedIsServed
  <2>1. ~panicked
    BY DEF Inv, Orderly
  <2>2. ASSUME Idle, started
        PROVE  /\ open = {conn}
               /\ rootCtx = conn /\ rootCtx \notin canceled
               /\ streamDone = conn /\ streamDone \notin closed
               /\ \A g \in Dials : LoopOver(g) <=> g # conn
    <3>1. Live
      BY <2>2 DEF Inv, Orderly, Resting
    <3>2. QED
      BY <3>1 DEF Live, Attached, LoopOver
  <2>3. QED
    BY <2>1, <2>2 DEF StartedIsServed
<1>2. QED
  BY <1>1, Invariance, PTL

=============================================================================
