------------------------------- MODULE Traffic -------------------------------
(***************************************************************************)
(* pkg/traffic: byte counters of the tracked devices in every process      *)
(* (tracker.go, conn_wrap.go), one hash per hour in Redis that all of them *)
(* flush into, and the dump that moves the hashes of past hours into a     *)
(* table (dao.go, store.go).                                               *)
(*                                                                         *)
(* A flush takes the counters, works out the key of the hour, and only     *)
(* then talks to Redis: the hour may turn in between.  A dump reads a      *)
(* hash, writes the row and deletes the hash in three separate calls, each *)
(* of which may fail, and which flushes of other processes fall between.   *)
(* A pipeline that is reported as failed may have been executed, as a      *)
(* whole or in part.                                                       *)
(***************************************************************************)
EXTENDS Integers, FiniteSets

CONSTANTS
  Nodes,        \* the processes that count
  Fields,       \* (device, direction): fields of the hash of an hour
  Chunk,        \* bytes of one Read or Write
  MaxTransfers, \* bound on the number of Reads and Writes
  MaxRepeats,   \* bound on the pipelines executed and reported as failed
  MaxHour,      \* bound on the hours
  HourKeyTTL,   \* Config.HourKeyTTL, in hours
  NoRow

ASSUME TrafficBounds ==
  /\ Chunk \in Nat \ {0}
  /\ MaxHour \in Nat
  /\ HourKeyTTL \in Nat \ {0}
  /\ MaxTransfers \in Nat
  /\ MaxRepeats \in Nat
  /\ NoRow \notin [Fields -> Nat]

Hours == 0 .. MaxHour

VARIABLES
  hour,     \* the wall clock, in hours
  tracker,  \* per process: the state of flushLoop
  conn,     \* per process: TrackedConn.deviceNo of its connection
  stopping, \* per process: stopChan is closed
  counters, \* per process: counterPair, what was added since the last swap
  flight,   \* per process: pendingItem, what flushOnce swapped out
  hourKey,  \* per process: the hour flushOnce works for
  hash,     \* Redis: the hash of each hour
  touched,  \* Redis: the hour of the last Expire on the hash
  dump,     \* dumpPending: [pc, todo, key, data]
  row,      \* MySQL: the rows of device_traffic_hourly
  ghosts    \* what TrafficLedger speaks of and the code does not keep

shared      == <<hash, touched>>
process     == <<tracker, conn, stopping, counters, flight, hourKey>>
trafficVars == <<hour, process, shared, dump, row, ghosts>>

Zero == [f \in Fields |-> 0]
Plus(v, w) == [f \in Fields |-> v[f] + w[f]]
Only(v, A) == [f \in Fields |-> IF f \in A THEN v[f] ELSE 0]
Nonzero(v) == {f \in Fields : v[f] > 0}

NoDump == [pc |-> "idle", todo |-> {}, key |-> 0, data |-> Zero]

TrafficInit ==
  /\ hour = 0
  /\ tracker = [n \in Nodes |-> "none"]
  /\ conn = [n \in Nodes |-> "unnamed"]
  /\ stopping = [n \in Nodes |-> FALSE]
  /\ counters = [n \in Nodes |-> Zero]
  /\ flight = [n \in Nodes |-> Zero]
  /\ hourKey = [n \in Nodes |-> 0]
  /\ hash = [h \in Hours |-> Zero]
  /\ touched = [h \in Hours |-> 0]
  /\ dump = NoDump
  /\ row = [h \in Hours |-> NoRow]
  /\ ghosts = [transfers |-> 0, repeats |-> 0, lost |-> Zero,
               repeated |-> Zero, booked |-> [h \in Hours |-> Zero],
               closed |-> {}, torn |-> {}]

-----------------------------------------------------------------------------
(* The process: Init, connections, Stop.                                   *)

\* Init: newTracker and start.
InitTracker(n) ==
  /\ tracker[n] = "none"
  /\ tracker' = [tracker EXCEPT ![n] = "loop"]
  /\ UNCHANGED <<hour, conn, stopping, counters, flight, hourKey, shared, dump, row, ghosts>>

\* The handshake tells which device it is; "" is ignored.
SetDeviceNo(n) ==
  /\ tracker[n] \notin {"dead"}
  /\ conn[n] = "unnamed"
  /\ conn' = [conn EXCEPT ![n] = "named"]
  /\ UNCHANGED <<hour, tracker, stopping, counters, flight, hourKey, shared, dump, row, ghosts>>

\* Read and Write, with addUp and addDown: the counters take the bytes of a
\* named connection, also after Stop.  Before Init nothing is counted.
Transfer(n, f) ==
  /\ tracker[n] \notin {"none", "dead"}
  /\ conn[n] = "named"
  /\ ghosts.transfers < MaxTransfers
  /\ counters' = [counters EXCEPT ![n][f] = @ + Chunk]
  /\ ghosts' = [ghosts EXCEPT !.transfers = @ + 1]
  /\ UNCHANGED <<hour, tracker, conn, stopping, flight, hourKey, shared, dump, row>>

\* Stop closes stopChan; flushLoop sees it when it is back in its select.
StopTracker(n) ==
  /\ tracker[n] \notin {"none", "dead"}
  /\ ~stopping[n]
  /\ stopping' = [stopping EXCEPT ![n] = TRUE]
  /\ UNCHANGED <<hour, tracker, conn, counters, flight, hourKey, shared, dump, row, ghosts>>

\* The process ends, by itself or not, with what it has in memory.
ProcessEnds(n) ==
  /\ tracker[n] \notin {"none", "dead"}
  /\ tracker' = [tracker EXCEPT ![n] = "dead"]
  /\ counters' = [counters EXCEPT ![n] = Zero]
  /\ flight' = [flight EXCEPT ![n] = Zero]
  /\ ghosts' = [ghosts EXCEPT !.lost = Plus(@, Plus(counters[n], flight[n]))]
  /\ UNCHANGED <<hour, conn, stopping, hourKey, shared, dump, row>>

-----------------------------------------------------------------------------
(* flushOnce.                                                              *)

\* After flushOnce: another round of the loop, or the end of it.
LoopAfter(n) == IF tracker[n] = "lastFlush" THEN "done" ELSE "loop"

\* The counters are swapped to zero and the key of the hour is worked out.
\* Both cases of the select may be ready: the last flush is the one that
\* the closed stopChan starts.
FlushBegin(n) ==
  /\ tracker[n] = "loop"
  /\ Nonzero(counters[n]) # {}
  /\ \E last \in {FALSE, stopping[n]} :
       tracker' = [tracker EXCEPT ![n] = IF last THEN "lastFlush" ELSE "flush"]
  /\ flight' = [flight EXCEPT ![n] = counters[n]]
  /\ counters' = [counters EXCEPT ![n] = Zero]
  /\ hourKey' = [hourKey EXCEPT ![n] = hour]
  /\ UNCHANGED <<hour, conn, stopping, shared, dump, row, ghosts>>

\* The last flush finds nothing to do.
FlushNothing(n) ==
  /\ tracker[n] = "loop"
  /\ stopping[n]
  /\ Nonzero(counters[n]) = {}
  /\ tracker' = [tracker EXCEPT ![n] = "done"]
  /\ UNCHANGED <<hour, conn, stopping, counters, flight, hourKey, shared, dump, row, ghosts>>

\* Redis executes the HINCRBYs of the fields A, and the Expire.
HIncrBy(n, A) ==
  LET h == hourKey[n] IN
  /\ hash' = [hash EXCEPT ![h] = Plus(@, Only(flight[n], A))]
  /\ touched' = [touched EXCEPT ![h] = hour]

\* What the step means for the ledger: v was entered for hour h.
Entered(h, v) ==
  [ghosts EXCEPT !.booked[h] = Plus(@, v),
                 !.torn = IF h \in ghosts.closed THEN @ \cup {h} ELSE @]

FlushDone(n) ==
  /\ tracker[n] \in {"flush", "lastFlush"}
  /\ HIncrBy(n, Fields)
  /\ tracker' = [tracker EXCEPT ![n] = LoopAfter(n)]
  /\ flight' = [flight EXCEPT ![n] = Zero]
  /\ ghosts' = Entered(hourKey[n], flight[n])
  /\ UNCHANGED <<hour, conn, stopping, counters, hourKey, dump, row>>

\* Fault: a flush that fails does not add back.
FlushNoRollback(n) ==
  /\ tracker[n] \in {"flush", "lastFlush"}
  /\ tracker' = [tracker EXCEPT ![n] = LoopAfter(n)]
  /\ flight' = [flight EXCEPT ![n] = Zero]
  /\ UNCHANGED <<hour, conn, stopping, counters, hourKey, shared, dump, row, ghosts>>

\* Exec returns an error.  Any part of the pipeline may have been executed;
\* all of it is added back to the counters.
FlushFailed(n) ==
  /\ tracker[n] \in {"flush", "lastFlush"}
  /\ \/ UNCHANGED <<shared, ghosts>>
     \/ \E A \in (SUBSET Nonzero(flight[n])) \ {{}} :
          /\ ghosts.repeats < MaxRepeats
          /\ HIncrBy(n, A)
          /\ ghosts' = [Entered(hourKey[n], Only(flight[n], A)) EXCEPT
                          !.repeated = Plus(@, Only(flight[n], A)),
                          !.repeats = @ + 1]
  /\ counters' = [counters EXCEPT ![n] = Plus(@, flight[n])]
  /\ tracker' = [tracker EXCEPT ![n] = LoopAfter(n)]
  /\ flight' = [flight EXCEPT ![n] = Zero]
  /\ UNCHANGED <<hour, conn, stopping, hourKey, dump, row>>

-----------------------------------------------------------------------------
(* dumpPending, called by cron in the one process that has the database.   *)

\* scanHourlyKeys, and the current hour to be left out.
KeysToDump == {h \in Hours : Nonzero(hash[h]) # {}} \ {hour}

DumpScan ==
  /\ dump.pc = "idle"
  /\ KeysToDump # {}
  /\ dump' = [NoDump EXCEPT !.pc = "next", !.todo = KeysToDump]
  /\ UNCHANGED <<hour, process, shared, row, ghosts>>

\* HGetAll of one key.  A hash that is gone is empty, and deleted: a flush
\* may have brought it back by then.
DumpRead(h) ==
  /\ dump.pc = "next"
  /\ h \in dump.todo
  /\ IF Nonzero(hash[h]) = {}
     THEN /\ dump' = [NoDump EXCEPT !.pc = "empty", !.todo = dump.todo \ {h}, !.key = h]
          /\ UNCHANGED ghosts
     ELSE /\ dump' = [pc |-> "read", todo |-> dump.todo \ {h}, key |-> h, data |-> hash[h]]
          /\ ghosts' = [ghosts EXCEPT !.closed = @ \cup {h}]
  /\ UNCHANGED <<hour, process, shared, row>>

\* The call for this key fails: HGetAll, the upsert, or Del after it.  The
\* hash stays for a later dump.
DumpFails ==
  /\ \/ dump.pc = "next" /\ \E h \in dump.todo : dump' = [dump EXCEPT !.todo = @ \ {h}]
     \/ dump.pc \in {"read", "stored", "empty"} /\ dump' = [dump EXCEPT !.pc = "next"]
  /\ UNCHANGED <<hour, process, shared, row, ghosts>>

bytesToKB(b) == IF b <= 0 THEN 0 ELSE (b + 512) \div 1024

\* aggregateHashToRecords and upsertBatch: both columns are overwritten.
DumpUpsert ==
  /\ dump.pc = "read"
  /\ row' = [row EXCEPT ![dump.key] = [f \in Fields |-> bytesToKB(dump.data[f])]]
  /\ dump' = [dump EXCEPT !.pc = "stored"]
  /\ UNCHANGED <<hour, process, shared, ghosts>>

DumpDel ==
  /\ dump.pc \in {"stored", "empty"}
  /\ hash' = [hash EXCEPT ![dump.key] = Zero]
  /\ dump' = [dump EXCEPT !.pc = "next"]
  /\ UNCHANGED <<hour, process, touched, row, ghosts>>

\* dumpPending returns, or its process ends in the middle of it.
DumpReturns ==
  /\ dump.pc # "idle"
  /\ dump' = NoDump
  /\ UNCHANGED <<hour, process, shared, row, ghosts>>

-----------------------------------------------------------------------------
(* The clock, and the time to live of the hashes.                          *)

HourTurns ==
  /\ hour < MaxHour
  /\ hour' = hour + 1
  /\ UNCHANGED <<process, shared, dump, row, ghosts>>

KeyExpires(h) ==
  /\ Nonzero(hash[h]) # {}
  /\ hour >= touched[h] + HourKeyTTL
  /\ hash' = [hash EXCEPT ![h] = Zero]
  /\ ghosts' = [ghosts EXCEPT !.torn = @ \cup {h}]
  /\ UNCHANGED <<hour, process, touched, dump, row>>

-----------------------------------------------------------------------------

Tracking(n) == \/ InitTracker(n) \/ SetDeviceNo(n) \/ StopTracker(n)
               \/ ProcessEnds(n) \/ \E f \in Fields : Transfer(n, f)

Flushing(n) == FlushBegin(n) \/ FlushNothing(n) \/ FlushDone(n) \/ FlushFailed(n)

Dumping == \/ DumpScan \/ DumpFails \/ DumpUpsert \/ DumpDel \/ DumpReturns
           \/ \E h \in Hours : DumpRead(h)

TrafficNext ==
  \/ \E n \in Nodes : Tracking(n) \/ Flushing(n)
  \/ Dumping
  \/ HourTurns
  \/ \E h \in Hours : KeyExpires(h)

TrafficSpec == TrafficInit /\ [][TrafficNext]_trafficVars

-----------------------------------------------------------------------------
(* Properties.                                                             *)

\* What a process has counted and Redis was not told of.
Pending == [n \in Nodes |-> Plus(counters[n], flight[n])]

Ledger == INSTANCE TrafficLedger WITH
  Owners   <- Nodes,
  pending  <- Pending,
  lost     <- ghosts.lost,
  repeated <- ghosts.repeated,
  booked   <- ghosts.booked,
  closed   <- ghosts.closed,
  torn     <- ghosts.torn

\* The counters, flushes and dumps of all processes together keep the
\* ledger: whatever flushes fail, hours turn in the middle of a flush and
\* dumps break off, every byte that is counted enters the hash of one hour
\* once, and the row of an hour is its sum in KB.  The exceptions are those
\* of the ledger: bytes in the memory of a process that ends (lost), bytes
\* of a pipeline that was executed and reported as failed (repeated), hours
\* that a flush reached after a dump had read them or that Redis forgot
\* (torn), whose row may say too little and never too much.
ImplementsLedger == Ledger!Spec

=============================================================================
