---------------------------- MODULE TrafficProofs ----------------------------
(***************************************************************************)
(* Proof that Traffic implements TrafficLedger, for any number of          *)
(* processes, fields and hours: the invariant that ties the hashes in      *)
(* Redis and the copy a dump has read to the book, and then one lemma per  *)
(* kind of step.                                                           *)
(***************************************************************************)
EXTENDS Traffic, TLAPS

Amounts == [Fields -> Nat]

TrafficTypeOK ==
  /\ hour \in Hours
  /\ tracker \in [Nodes -> {"none", "loop", "flush", "lastFlush", "done", "dead"}]
  /\ counters \in [Nodes -> Amounts]
  /\ flight \in [Nodes -> Amounts]
  /\ hourKey \in [Nodes -> Hours]
  /\ hash \in [Hours -> Amounts]
  /\ touched \in [Hours -> Hours]
  /\ dump \in [pc : {"idle", "next", "read", "stored", "empty"}, todo : SUBSET Hours,
               key : Hours, data : Amounts]
  /\ row \in [Hours -> Amounts \cup {NoRow}]
  /\ ghosts \in [transfers : Nat, repeats : Nat, lost : Amounts, repeated : Amounts,
                 booked : [Hours -> Amounts], closed : SUBSET Hours, torn : SUBSET Hours]

\* Only a flush under way has something in flight.
FlightInFlush ==
  \A n \in Nodes : tracker[n] \notin {"flush", "lastFlush"} => flight[n] = Zero

\* No flush works for an hour to come, so no hash is that of an hour to come.
KeysArePast ==
  /\ \A n \in Nodes : hourKey[n] <= hour
  /\ \A h \in Hours : touched[h] <= hour /\ (hash[h] # Zero => h <= touched[h])

\* The dump leaves the current hour alone, and a hash it has listed is there
\* unless Redis forgot it or a dump read it.
DumpIsPast ==
  /\ \A h \in dump.todo : h < hour /\ (hash[h] # Zero \/ h \in ghosts.torn \cup ghosts.closed)
  /\ dump.pc = "empty" => dump.key \in ghosts.torn \cup ghosts.closed

\* The hash of an hour is its book, or was deleted after a dump, or the hour
\* is torn; it never says more.
HashIsBook ==
  \A h \in Hours :
    /\ \A f \in Fields : hash[h][f] <= ghosts.booked[h][f]
    /\ h \notin ghosts.torn =>
         hash[h] = ghosts.booked[h] \/ (h \in ghosts.closed /\ hash[h] = Zero)

\* The copy a dump works with is the book of a closed hour, unless the hour
\* is torn since.
CopyIsBook ==
  /\ dump.pc \in {"read", "stored"} => dump.key \in ghosts.closed
  /\ dump.pc = "read" =>
       /\ \A f \in Fields : dump.data[f] <= ghosts.booked[dump.key][f]
       /\ dump.key \notin ghosts.torn => dump.data = ghosts.booked[dump.key]

TrafficInv ==
  /\ TrafficTypeOK /\ FlightInFlush /\ KeysArePast /\ DumpIsPast /\ HashIsBook /\ CopyIsBook

-----------------------------------------------------------------------------
(* Amounts.                                                                *)

\* Zero, sums and parts of amounts are amounts.
LEMMA AmountsClosed ==
  /\ Zero \in Amounts
  /\ \A v, w \in Amounts : Plus(v, w) \in Amounts
  /\ \A v \in Amounts : \A A : Only(v, A) \in Amounts
BY DEF Amounts, Zero, Plus, Only

\* A hash without a positive field is empty.
LEMMA NonzeroIff == \A v \in Amounts : Nonzero(v) = {} <=> v = Zero
<1> TAKE v \in Amounts
<1>1. ASSUME Nonzero(v) = {} PROVE v = Zero
  <2>1. \A f \in Fields : v[f] = 0
    BY <1>1 DEF Nonzero, Amounts
  <2> QED
    BY <2>1 DEF Amounts, Zero
<1>2. ASSUME v = Zero PROVE Nonzero(v) = {}
  BY <1>2 DEF Nonzero, Zero
<1> QED
  BY <1>1, <1>2

\* bytesToKB rounds to the nearest KB.
LEMMA RoundsToKB ==
  ASSUME NEW b \in Nat
  PROVE  /\ bytesToKB(b) \in Nat
         /\ Ledger!Rounded(bytesToKB(b), b)
         /\ \A c \in Nat : b <= c => 1024 * bytesToKB(b) <= c + 512
<1>1. CASE b <= 0
  BY <1>1 DEF bytesToKB, Ledger!Rounded
<1>2. CASE b > 0
  <2>1. bytesToKB(b) = (b + 512) \div 1024
    BY <1>2 DEF bytesToKB
  <2>2. PICK q \in Nat : q = (b + 512) \div 1024
    OBVIOUS
  <2>3. 1024 * q <= b + 512 /\ b + 512 < 1024 * q + 1024
    BY <2>2
  <2> QED
    BY <2>1, <2>2, <2>3 DEF Ledger!Rounded
<1> QED
  BY <1>1, <1>2

-----------------------------------------------------------------------------
(* The invariant.                                                          *)

\* The initial state satisfies the invariant.
LEMMA InitInv == TrafficInit => TrafficInv
<1> SUFFICES ASSUME TrafficInit PROVE TrafficInv
  OBVIOUS
<1> USE DEF TrafficInit
<1>0. 0 \in Hours
  BY TrafficBounds DEF Hours
<1>1. TrafficTypeOK
  <2>1. dump \in [pc : {"idle", "next", "read", "stored", "empty"}, todo : SUBSET Hours,
                  key : Hours, data : Amounts]
    BY <1>0, AmountsClosed DEF NoDump
  <2>2. ghosts \in [transfers : Nat, repeats : Nat, lost : Amounts, repeated : Amounts,
                    booked : [Hours -> Amounts], closed : SUBSET Hours, torn : SUBSET Hours]
    BY <1>0, AmountsClosed
  <2> QED
    BY <1>0, <2>1, <2>2, AmountsClosed DEF TrafficTypeOK
<1>2. FlightInFlush
  BY DEF FlightInFlush
<1>3. KeysArePast
  BY DEF KeysArePast
<1>4. DumpIsPast
  BY DEF DumpIsPast, NoDump
<1>5. HashIsBook
  BY DEF HashIsBook, Zero
<1>6. CopyIsBook
  BY DEF CopyIsBook, NoDump
<1> QED
  BY <1>1, <1>2, <1>3, <1>4, <1>5, <1>6 DEF TrafficInv

\* Starting and stopping a tracker, naming a connection and a flush without
\* work leave everything the invariant relates alone.
LEMMA QuietInv ==
  ASSUME TrafficInv, NEW n \in Nodes,
         InitTracker(n) \/ SetDeviceNo(n) \/ StopTracker(n) \/ FlushNothing(n)
  PROVE  TrafficInv'
<1>1. /\ UNCHANGED <<hour, counters, flight, hourKey, hash, touched, dump, row, ghosts>>
      /\ tracker' = tracker \/ (tracker[n] \in {"none", "loop"}
                                /\ \E t \in {"loop", "done"} : tracker' = [tracker EXCEPT ![n] = t])
  BY DEF InitTracker, SetDeviceNo, StopTracker, FlushNothing, shared
<1>2. TrafficTypeOK'
  BY <1>1 DEF TrafficInv, TrafficTypeOK
<1>3. FlightInFlush'
  BY <1>1 DEF TrafficInv, TrafficTypeOK, FlightInFlush
<1>4. KeysArePast' /\ DumpIsPast' /\ HashIsBook' /\ CopyIsBook'
  BY <1>1 DEF TrafficInv, KeysArePast, DumpIsPast, HashIsBook, CopyIsBook
<1> QED
  BY <1>2, <1>3, <1>4 DEF TrafficInv

\* A Read or a Write.
LEMMA TransferInv ==
  ASSUME TrafficInv, NEW n \in Nodes, NEW f \in Fields, Transfer(n, f)
  PROVE  TrafficInv'
<1>1. UNCHANGED <<hour, tracker, flight, hourKey, hash, touched, dump, row>>
  BY DEF Transfer, shared
<1>2. /\ UNCHANGED <<ghosts.lost, ghosts.repeated, ghosts.booked, ghosts.closed, ghosts.torn>>
      /\ ghosts' \in [transfers : Nat, repeats : Nat, lost : Amounts, repeated : Amounts,
                      booked : [Hours -> Amounts], closed : SUBSET Hours, torn : SUBSET Hours]
  BY DEF Transfer, TrafficInv, TrafficTypeOK
<1>3. counters' \in [Nodes -> Amounts]
  BY TrafficBounds DEF Transfer, TrafficInv, TrafficTypeOK, Amounts
<1>4. TrafficTypeOK'
  BY <1>1, <1>2, <1>3 DEF TrafficInv, TrafficTypeOK
<1>5. FlightInFlush' /\ KeysArePast' /\ DumpIsPast' /\ HashIsBook' /\ CopyIsBook'
  BY <1>1, <1>2 DEF TrafficInv, FlightInFlush, KeysArePast, DumpIsPast, HashIsBook, CopyIsBook
<1> QED
  BY <1>4, <1>5 DEF TrafficInv

\* The end of a process.
LEMMA ProcessEndsInv ==
  ASSUME TrafficInv, NEW n \in Nodes, ProcessEnds(n)
  PROVE  TrafficInv'
<1>1. UNCHANGED <<hour, hourKey, hash, touched, dump, row>>
  BY DEF ProcessEnds, shared
<1>2. Plus(ghosts.lost, Plus(counters[n], flight[n])) \in Amounts
  BY AmountsClosed DEF TrafficInv, TrafficTypeOK
<1>3. /\ UNCHANGED <<ghosts.repeated, ghosts.booked, ghosts.closed, ghosts.torn>>
      /\ ghosts' \in [transfers : Nat, repeats : Nat, lost : Amounts, repeated : Amounts,
                      booked : [Hours -> Amounts], closed : SUBSET Hours, torn : SUBSET Hours]
  BY <1>2 DEF ProcessEnds, TrafficInv, TrafficTypeOK
<1>4. TrafficTypeOK'
  BY <1>1, <1>3, AmountsClosed DEF ProcessEnds, TrafficInv, TrafficTypeOK
<1>5. FlightInFlush'
  BY DEF ProcessEnds, TrafficInv, TrafficTypeOK, FlightInFlush
<1>6. KeysArePast' /\ DumpIsPast' /\ HashIsBook' /\ CopyIsBook'
  BY <1>1, <1>3 DEF TrafficInv, KeysArePast, DumpIsPast, HashIsBook, CopyIsBook
<1> QED
  BY <1>4, <1>5, <1>6 DEF TrafficInv

\* A flush takes the counters and the current hour.
LEMMA FlushBeginInv ==
  ASSUME TrafficInv, NEW n \in Nodes, FlushBegin(n)
  PROVE  TrafficInv'
<1>1. UNCHANGED <<hour, hash, touched, dump, row, ghosts>>
  BY DEF FlushBegin, shared
<1>2. PICK t \in {"flush", "lastFlush"} : tracker' = [tracker EXCEPT ![n] = t]
  BY DEF FlushBegin
<1>3. TrafficTypeOK'
  BY <1>1, <1>2, AmountsClosed DEF FlushBegin, TrafficInv, TrafficTypeOK
<1>4. FlightInFlush'
  BY <1>2 DEF FlushBegin, TrafficInv, TrafficTypeOK, FlightInFlush
<1>5. KeysArePast'
  BY <1>1 DEF FlushBegin, TrafficInv, TrafficTypeOK, KeysArePast, Hours
<1>6. DumpIsPast' /\ HashIsBook' /\ CopyIsBook'
  BY <1>1 DEF TrafficInv, DumpIsPast, HashIsBook, CopyIsBook
<1> QED
  BY <1>3, <1>4, <1>5, <1>6 DEF TrafficInv

\* HINCRBY puts into the hash what the ledger enters into the book; an hour
\* that a dump had read is torn by it.
LEMMA EntryInv ==
  ASSUME TrafficInv, NEW h \in Hours, NEW v \in Amounts, h <= hour,
         UNCHANGED <<hour, hourKey, dump, row>>,
         hash' = [hash EXCEPT ![h] = Plus(@, v)],
         touched' = [touched EXCEPT ![h] = hour],
         ghosts'.booked = [ghosts.booked EXCEPT ![h] = Plus(@, v)],
         ghosts'.closed = ghosts.closed,
         ghosts'.torn = IF h \in ghosts.closed THEN ghosts.torn \cup {h} ELSE ghosts.torn
  PROVE  /\ hash' \in [Hours -> Amounts] /\ touched' \in [Hours -> Hours]
         /\ ghosts'.booked \in [Hours -> Amounts] /\ ghosts'.torn \in SUBSET Hours
         /\ KeysArePast' /\ DumpIsPast' /\ HashIsBook' /\ CopyIsBook'
<1> DEFINE B == ghosts.booked
<1>0. /\ hash \in [Hours -> Amounts] /\ touched \in [Hours -> Hours] /\ hour \in Hours
      /\ B \in [Hours -> Amounts] /\ ghosts.torn \in SUBSET Hours
      /\ dump.todo \in SUBSET Hours /\ dump.key \in Hours /\ dump.data \in Amounts
  BY DEF TrafficInv, TrafficTypeOK
<1>1. /\ hash' \in [Hours -> Amounts] /\ touched' \in [Hours -> Hours]
      /\ ghosts'.booked \in [Hours -> Amounts] /\ ghosts'.torn \in SUBSET Hours
  <2>1. Plus(hash[h], v) \in Amounts /\ Plus(B[h], v) \in Amounts
    BY <1>0, AmountsClosed
  <2> QED
    BY <1>0, <2>1
<1>2. ghosts.torn \subseteq ghosts'.torn
  OBVIOUS
<1>3. \A g \in Hours : g # h => hash'[g] = hash[g] /\ ghosts'.booked[g] = B[g]
                                /\ touched'[g] = touched[g]
  BY <1>0
<1>4. hash'[h] = Plus(hash[h], v) /\ ghosts'.booked[h] = Plus(B[h], v) /\ touched'[h] = hour
  BY <1>0
<1>5. \A f \in Fields : /\ hash'[h][f] = hash[h][f] + v[f]
                        /\ ghosts'.booked[h][f] = B[h][f] + v[f]
  BY <1>4 DEF Plus
<1>6. \A g \in Hours : \A f \in Fields : hash[g][f] \in Nat /\ B[g][f] \in Nat /\ v[f] \in Nat
  BY <1>0 DEF Amounts
<1>7. hash[h] # Zero => hash'[h] # Zero
  <2> SUFFICES ASSUME hash'[h] = Zero PROVE hash[h] = Zero
    OBVIOUS
  <2>1. \A f \in Fields : hash[h][f] + v[f] = 0
    BY <1>5 DEF Zero
  <2>2. \A f \in Fields : hash[h][f] = 0
    BY <2>1, <1>6
  <2> QED
    BY <2>2, <1>0 DEF Zero, Amounts
<1>8. KeysArePast'
  <2>1. ASSUME NEW g \in Hours
        PROVE  touched'[g] <= hour /\ (hash'[g] # Zero => g <= touched'[g])
    <3>1. CASE g = h
      BY <3>1, <1>4, <1>0 DEF Hours
    <3>2. CASE g # h
      BY <3>2, <1>3 DEF TrafficInv, KeysArePast
    <3> QED
      BY <3>1, <3>2
  <2> QED
    BY <2>1 DEF TrafficInv, KeysArePast
<1>9. DumpIsPast'
  <2>1. ASSUME NEW g \in dump.todo
        PROVE  g < hour /\ (hash'[g] # Zero \/ g \in ghosts'.torn \cup ghosts'.closed)
    BY <1>0, <1>2, <1>3, <1>7 DEF TrafficInv, DumpIsPast
  <2> QED
    BY <2>1, <1>2 DEF TrafficInv, DumpIsPast
<1>10. HashIsBook'
  <2>1. ASSUME NEW g \in Hours, g # h
        PROVE  /\ \A f \in Fields : hash'[g][f] <= ghosts'.booked[g][f]
               /\ g \notin ghosts'.torn =>
                    hash'[g] = ghosts'.booked[g] \/ (g \in ghosts'.closed /\ hash'[g] = Zero)
    BY <2>1, <1>2, <1>3 DEF TrafficInv, HashIsBook
  <2>2. \A f \in Fields : hash'[h][f] <= ghosts'.booked[h][f]
    BY <1>5, <1>6 DEF TrafficInv, HashIsBook
  <2>3. h \notin ghosts'.torn => hash'[h] = ghosts'.booked[h]
    <3> SUFFICES ASSUME h \notin ghosts'.torn PROVE hash'[h] = ghosts'.booked[h]
      OBVIOUS
    <3>1. h \notin ghosts.closed /\ h \notin ghosts.torn
      BY <1>2
    <3> QED
      BY <3>1, <1>4 DEF TrafficInv, HashIsBook
  <2> QED
    BY <2>1, <2>2, <2>3 DEF HashIsBook
<1>11. CopyIsBook'
  <2>1. dump.pc \in {"read", "stored"} => dump.key \in ghosts'.closed
    BY DEF TrafficInv, CopyIsBook
  <2>2. ASSUME dump.pc = "read"
        PROVE  /\ \A f \in Fields : dump.data[f] <= ghosts'.booked[dump.key][f]
               /\ dump.key \notin ghosts'.torn => dump.data = ghosts'.booked[dump.key]
    <3>1. /\ \A f \in Fields : dump.data[f] <= B[dump.key][f]
          /\ dump.key \notin ghosts.torn => dump.data = B[dump.key]
          /\ dump.key \in ghosts.closed
      BY <2>2 DEF TrafficInv, CopyIsBook
    <3>2. CASE dump.key # h
      BY <3>1, <3>2, <1>0, <1>2, <1>3
    <3>3. CASE dump.key = h
      <4>1. \A f \in Fields : dump.data[f] <= ghosts'.booked[h][f]
        BY <3>1, <3>3, <1>0, <1>5, <1>6 DEF Amounts
      <4>2. h \in ghosts'.torn
        BY <3>1, <3>3
      <4> QED
        BY <4>1, <4>2, <3>3
    <3> QED
      BY <3>2, <3>3
  <2> QED
    BY <2>1, <2>2 DEF CopyIsBook
<1> QED
  BY <1>1, <1>8, <1>9, <1>10, <1>11

\* A flush that Redis confirms.
LEMMA FlushDoneInv ==
  ASSUME TrafficInv, NEW n \in Nodes, FlushDone(n)
  PROVE  TrafficInv'
<1> DEFINE h == hourKey[n]
<1>0. h \in Hours /\ flight[n] \in Amounts /\ h <= hour
  BY DEF TrafficInv, TrafficTypeOK, KeysArePast
<1>1. UNCHANGED <<hour, counters, hourKey, dump, row>>
  BY DEF FlushDone
<1>2. Only(flight[n], Fields) = flight[n]
  BY <1>0 DEF Only, Amounts
<1>3. /\ hash' = [hash EXCEPT ![h] = Plus(@, flight[n])]
      /\ touched' = [touched EXCEPT ![h] = hour]
  BY <1>2 DEF FlushDone, HIncrBy
<1>4. /\ ghosts'.booked = [ghosts.booked EXCEPT ![h] = Plus(@, flight[n])]
      /\ UNCHANGED <<ghosts.closed, ghosts.transfers, ghosts.repeats, ghosts.lost, ghosts.repeated>>
      /\ ghosts'.torn = IF h \in ghosts.closed THEN ghosts.torn \cup {h} ELSE ghosts.torn
      /\ ghosts' = [transfers |-> ghosts'.transfers, repeats |-> ghosts'.repeats,
                    lost |-> ghosts'.lost, repeated |-> ghosts'.repeated,
                    booked |-> ghosts'.booked, closed |-> ghosts'.closed, torn |-> ghosts'.torn]
  BY DEF FlushDone, Entered, TrafficInv, TrafficTypeOK
<1>5. /\ hash' \in [Hours -> Amounts] /\ touched' \in [Hours -> Hours]
      /\ ghosts'.booked \in [Hours -> Amounts] /\ ghosts'.torn \in SUBSET Hours
      /\ KeysArePast' /\ DumpIsPast' /\ HashIsBook' /\ CopyIsBook'
  <2> HIDE DEF h
  <2> QED
    BY <1>0, <1>1, <1>3, <1>4, EntryInv
<1>6. ghosts' \in [transfers : Nat, repeats : Nat, lost : Amounts, repeated : Amounts,
                   booked : [Hours -> Amounts], closed : SUBSET Hours, torn : SUBSET Hours]
  <2>1. /\ ghosts'.transfers \in Nat /\ ghosts'.repeats \in Nat /\ ghosts'.lost \in Amounts
        /\ ghosts'.repeated \in Amounts /\ ghosts'.closed \in SUBSET Hours
    BY <1>4 DEF TrafficInv, TrafficTypeOK
  <2> QED
    BY <1>4, <1>5, <2>1
<1>7. /\ tracker' = [tracker EXCEPT ![n] = LoopAfter(n)] /\ LoopAfter(n) \in {"done", "loop"}
      /\ flight' = [flight EXCEPT ![n] = Zero]
  BY DEF FlushDone, LoopAfter
<1>8. TrafficTypeOK'
  BY <1>1, <1>5, <1>6, <1>7, AmountsClosed DEF TrafficInv, TrafficTypeOK
<1>9. FlightInFlush'
  BY <1>7 DEF TrafficInv, TrafficTypeOK, FlightInFlush
<1> QED
  BY <1>5, <1>8, <1>9 DEF TrafficInv

\* A flush that is reported as failed, executed in part or not.
LEMMA FlushFailedInv ==
  ASSUME TrafficInv, NEW n \in Nodes, FlushFailed(n)
  PROVE  TrafficInv'
<1> DEFINE h == hourKey[n]
<1>0. h \in Hours /\ flight[n] \in Amounts /\ counters[n] \in Amounts /\ h <= hour
  BY DEF TrafficInv, TrafficTypeOK, KeysArePast
<1>1. /\ UNCHANGED <<hour, hourKey, dump, row>>
      /\ counters' = [counters EXCEPT ![n] = Plus(@, flight[n])]
  BY DEF FlushFailed
<1>2. /\ tracker' = [tracker EXCEPT ![n] = LoopAfter(n)] /\ LoopAfter(n) \in {"done", "loop"}
      /\ flight' = [flight EXCEPT ![n] = Zero]
  BY DEF FlushFailed, LoopAfter
<1>3. FlightInFlush'
  BY <1>2 DEF TrafficInv, TrafficTypeOK, FlightInFlush
<1>4. Plus(counters[n], flight[n]) \in Amounts
  BY <1>0, AmountsClosed
<1>5. counters' \in [Nodes -> Amounts]
  BY <1>1, <1>4 DEF TrafficInv, TrafficTypeOK
<1>6. CASE UNCHANGED <<shared, ghosts>>
  <2>0. UNCHANGED <<hash, touched, ghosts>>
    BY <1>6 DEF shared
  <2>1. TrafficTypeOK'
    BY <1>1, <1>2, <1>5, <2>0, AmountsClosed DEF TrafficInv, TrafficTypeOK
  <2>2. KeysArePast' /\ DumpIsPast' /\ HashIsBook' /\ CopyIsBook'
    BY <1>1, <2>0 DEF TrafficInv, KeysArePast, DumpIsPast, HashIsBook, CopyIsBook
  <2> QED
    BY <1>3, <2>1, <2>2 DEF TrafficInv
<1>7. CASE ~ UNCHANGED <<shared, ghosts>>
  <2>1. PICK A \in (SUBSET Nonzero(flight[n])) \ {{}} :
          /\ HIncrBy(n, A)
          /\ ghosts' = [Entered(hourKey[n], Only(flight[n], A)) EXCEPT
                          !.repeated = Plus(@, Only(flight[n], A)),
                          !.repeats = @ + 1]
    BY <1>7 DEF FlushFailed
  <2> DEFINE v == Only(flight[n], A)
  <2>2. v \in Amounts
    BY <1>0, AmountsClosed
  <2>3. /\ hash' = [hash EXCEPT ![h] = Plus(@, v)]
        /\ touched' = [touched EXCEPT ![h] = hour]
    BY <2>1 DEF HIncrBy
  <2>4. /\ ghosts'.booked = [ghosts.booked EXCEPT ![h] = Plus(@, v)]
        /\ UNCHANGED <<ghosts.closed, ghosts.transfers, ghosts.lost>>
        /\ ghosts'.repeats = ghosts.repeats + 1
        /\ ghosts'.repeated = Plus(ghosts.repeated, v)
        /\ ghosts'.torn = IF h \in ghosts.closed THEN ghosts.torn \cup {h} ELSE ghosts.torn
        /\ ghosts' = [transfers |-> ghosts'.transfers, repeats |-> ghosts'.repeats,
                      lost |-> ghosts'.lost, repeated |-> ghosts'.repeated,
                      booked |-> ghosts'.booked, closed |-> ghosts'.closed, torn |-> ghosts'.torn]
    BY <2>1 DEF Entered, TrafficInv, TrafficTypeOK
  <2>5. /\ hash' \in [Hours -> Amounts] /\ touched' \in [Hours -> Hours]
        /\ ghosts'.booked \in [Hours -> Amounts] /\ ghosts'.torn \in SUBSET Hours
        /\ KeysArePast' /\ DumpIsPast' /\ HashIsBook' /\ CopyIsBook'
    <3> HIDE DEF h, v
    <3> QED
      BY <1>0, <1>1, <2>2, <2>3, <2>4, EntryInv
  <2>6. ghosts' \in [transfers : Nat, repeats : Nat, lost : Amounts, repeated : Amounts,
                     booked : [Hours -> Amounts], closed : SUBSET Hours, torn : SUBSET Hours]
    <3>1. /\ ghosts'.transfers \in Nat /\ ghosts'.repeats \in Nat /\ ghosts'.lost \in Amounts
          /\ ghosts.repeated \in Amounts /\ ghosts'.closed \in SUBSET Hours
      BY <2>4 DEF TrafficInv, TrafficTypeOK
    <3>2. ghosts'.repeated \in Amounts
      BY <2>2, <2>4, <3>1, AmountsClosed
    <3> QED
      BY <2>4, <2>5, <3>1, <3>2
  <2>7. TrafficTypeOK'
    BY <1>1, <1>2, <1>5, <2>5, <2>6, AmountsClosed DEF TrafficInv, TrafficTypeOK
  <2> QED
    BY <1>3, <2>5, <2>7 DEF TrafficInv
<1> QED
  BY <1>6, <1>7

\* The steps of a dump that change nothing but its own state.
LEMMA DumpMovesInv ==
  ASSUME TrafficInv, DumpScan \/ DumpFails \/ DumpReturns
  PROVE  TrafficInv'
<1>1. UNCHANGED <<hour, tracker, counters, flight, hourKey, hash, touched, row, ghosts>>
  BY DEF DumpScan, DumpFails, DumpReturns, process, shared
<1>2. /\ dump' \in [pc : {"idle", "next", "read", "stored", "empty"}, todo : SUBSET Hours,
                    key : Hours, data : Amounts]
      /\ dump'.pc \in {"idle", "next"}
      /\ dump'.todo \subseteq dump.todo \/ dump'.todo = KeysToDump
  <2>0. 0 \in Hours
    BY TrafficBounds DEF Hours
  <2>1. CASE DumpScan
    <3>1. KeysToDump \in SUBSET Hours
      BY DEF KeysToDump
    <3> QED
      BY <2>0, <2>1, <3>1, AmountsClosed DEF DumpScan, NoDump
  <2>2. CASE DumpFails
    BY <2>2 DEF DumpFails, TrafficInv, TrafficTypeOK
  <2>3. CASE DumpReturns
    BY <2>0, <2>3, AmountsClosed DEF DumpReturns, NoDump
  <2> QED
    BY <2>1, <2>2, <2>3
<1>3. \A h \in KeysToDump : h < hour /\ hash[h] # Zero
  <2> TAKE h \in KeysToDump
  <2>1. h \in Hours /\ Nonzero(hash[h]) # {} /\ h # hour
    BY DEF KeysToDump
  <2>2. hash[h] \in Amounts
    BY <2>1 DEF TrafficInv, TrafficTypeOK
  <2>3. hash[h] # Zero
    BY <2>1, <2>2, NonzeroIff
  <2>4. h <= touched[h] /\ touched[h] <= hour
    BY <2>1, <2>3 DEF TrafficInv, KeysArePast
  <2> QED
    BY <2>1, <2>3, <2>4 DEF TrafficInv, TrafficTypeOK, Hours
<1>4. TrafficTypeOK'
  BY <1>1, <1>2 DEF TrafficInv, TrafficTypeOK
<1>5. FlightInFlush' /\ KeysArePast' /\ HashIsBook'
  BY <1>1 DEF TrafficInv, FlightInFlush, KeysArePast, HashIsBook
<1>6. DumpIsPast' /\ CopyIsBook'
  BY <1>1, <1>2, <1>3 DEF TrafficInv, DumpIsPast, CopyIsBook
<1> QED
  BY <1>4, <1>5, <1>6 DEF TrafficInv

\* HGetAll: a hash that is there closes its hour.
LEMMA DumpReadInv ==
  ASSUME TrafficInv, NEW h \in Hours, DumpRead(h)
  PROVE  TrafficInv'
<1>0. /\ dump.todo \in SUBSET Hours /\ h \in dump.todo /\ hash[h] \in Amounts
      /\ UNCHANGED <<hour, tracker, counters, flight, hourKey, hash, touched, row>>
  BY DEF DumpRead, process, shared, TrafficInv, TrafficTypeOK
<1>1. FlightInFlush' /\ KeysArePast'
  BY <1>0 DEF TrafficInv, FlightInFlush, KeysArePast
<1>2. CASE Nonzero(hash[h]) = {}
  <2>1. /\ dump' = [pc |-> "empty", todo |-> dump.todo \ {h}, key |-> h, data |-> Zero]
        /\ ghosts' = ghosts
    BY <1>2 DEF DumpRead, NoDump
  <2>2. TrafficTypeOK'
    BY <1>0, <2>1, AmountsClosed DEF TrafficInv, TrafficTypeOK
  <2>3. hash[h] = Zero
    BY <1>0, <1>2, NonzeroIff
  <2>4. DumpIsPast'
    BY <1>0, <2>1, <2>3 DEF TrafficInv, DumpIsPast
  <2>5. HashIsBook' /\ CopyIsBook'
    BY <1>0, <2>1 DEF TrafficInv, HashIsBook, CopyIsBook
  <2> QED
    BY <1>1, <2>2, <2>4, <2>5 DEF TrafficInv
<1>3. CASE Nonzero(hash[h]) # {}
  <2>1. dump' = [pc |-> "read", todo |-> dump.todo \ {h}, key |-> h, data |-> hash[h]]
    BY <1>3 DEF DumpRead
  <2>2. /\ ghosts' \in [transfers : Nat, repeats : Nat, lost : Amounts, repeated : Amounts,
                        booked : [Hours -> Amounts], closed : SUBSET Hours, torn : SUBSET Hours]
        /\ UNCHANGED <<ghosts.booked, ghosts.torn>>
        /\ ghosts'.closed = ghosts.closed \cup {h}
    BY <1>3 DEF DumpRead, TrafficInv, TrafficTypeOK
  <2>3. TrafficTypeOK'
    BY <1>0, <2>1, <2>2 DEF TrafficInv, TrafficTypeOK
  <2>4. hash[h] # Zero
    BY <1>0, <1>3, NonzeroIff
  <2>5. DumpIsPast'
    BY <1>0, <2>1, <2>2 DEF TrafficInv, DumpIsPast
  <2>6. HashIsBook'
    BY <1>0, <2>2 DEF TrafficInv, HashIsBook
  <2>7. CopyIsBook'
    BY <2>1, <2>2, <2>4 DEF TrafficInv, HashIsBook, CopyIsBook
  <2> QED
    BY <1>1, <2>3, <2>5, <2>6, <2>7 DEF TrafficInv
<1> QED
  BY <1>2, <1>3

\* The upsert writes whole amounts.
LEMMA DumpUpsertInv ==
  ASSUME TrafficInv, DumpUpsert
  PROVE  TrafficInv'
<1>0. UNCHANGED <<hour, tracker, counters, flight, hourKey, hash, touched, ghosts>>
  BY DEF DumpUpsert, process, shared
<1>1. dump' \in [pc : {"idle", "next", "read", "stored", "empty"}, todo : SUBSET Hours,
                 key : Hours, data : Amounts]
      /\ dump'.pc = "stored" /\ dump'.todo = dump.todo /\ dump'.key = dump.key
  BY DEF DumpUpsert, TrafficInv, TrafficTypeOK
<1>2. [f \in Fields |-> bytesToKB(dump.data[f])] \in Amounts
  <2>1. \A f \in Fields : dump.data[f] \in Nat
    BY DEF TrafficInv, TrafficTypeOK, Amounts
  <2>2. \A f \in Fields : bytesToKB(dump.data[f]) \in Nat
    BY <2>1, RoundsToKB
  <2> QED
    BY <2>2 DEF Amounts
<1>3. row' \in [Hours -> Amounts \cup {NoRow}]
  BY <1>2 DEF DumpUpsert, TrafficInv, TrafficTypeOK
<1>4. TrafficTypeOK'
  BY <1>0, <1>1, <1>3 DEF TrafficInv, TrafficTypeOK
<1>5. FlightInFlush' /\ KeysArePast' /\ HashIsBook'
  BY <1>0 DEF TrafficInv, FlightInFlush, KeysArePast, HashIsBook
<1>6. DumpIsPast' /\ CopyIsBook'
  BY <1>0, <1>1 DEF DumpUpsert, TrafficInv, DumpIsPast, CopyIsBook
<1> QED
  BY <1>4, <1>5, <1>6 DEF TrafficInv

\* What removes the hash of a closed or a torn hour keeps the invariant.
LEMMA RemovalInv ==
  ASSUME TrafficInv, NEW h \in Hours,
         UNCHANGED <<hour, hourKey, touched, row, dump.todo, dump.key, dump.data>>,
         dump'.pc = "next" \/ dump' = dump,
         hash' = [hash EXCEPT ![h] = Zero],
         ghosts'.booked = ghosts.booked,
         ghosts'.closed = ghosts.closed,
         ghosts.torn \subseteq ghosts'.torn,
         h \in ghosts'.torn \cup ghosts'.closed
  PROVE  /\ hash' \in [Hours -> Amounts]
         /\ KeysArePast' /\ DumpIsPast' /\ HashIsBook' /\ CopyIsBook'
<1>0. hash \in [Hours -> Amounts] /\ dump.todo \in SUBSET Hours /\ ghosts.booked \in [Hours -> Amounts]
  BY DEF TrafficInv, TrafficTypeOK
<1>1. hash' \in [Hours -> Amounts]
  BY <1>0, AmountsClosed
<1>2. hash'[h] = Zero /\ \A g \in Hours : g # h => hash'[g] = hash[g]
  BY <1>0
<1>3. KeysArePast'
  BY <1>2 DEF TrafficInv, KeysArePast
<1>4. DumpIsPast'
  BY <1>0, <1>2 DEF TrafficInv, DumpIsPast
<1>5. HashIsBook'
  <2>1. \A f \in Fields : hash'[h][f] <= ghosts.booked[h][f]
    BY <1>0, <1>2 DEF Zero, Amounts
  <2> QED
    BY <2>1, <1>2 DEF TrafficInv, HashIsBook
<1>6. CopyIsBook'
  BY DEF TrafficInv, CopyIsBook
<1> QED
  BY <1>1, <1>3, <1>4, <1>5, <1>6

\* Del removes what a dump stored, or what was not there when it read it.
LEMMA DumpDelInv ==
  ASSUME TrafficInv, DumpDel
  PROVE  TrafficInv'
<1>0. UNCHANGED <<hour, tracker, counters, flight, hourKey, touched, row, ghosts>>
  BY DEF DumpDel, process
<1>1. /\ dump' \in [pc : {"idle", "next", "read", "stored", "empty"}, todo : SUBSET Hours,
                    key : Hours, data : Amounts]
      /\ dump'.pc = "next" /\ UNCHANGED <<dump.todo, dump.key, dump.data>>
      /\ dump.key \in Hours
  BY DEF DumpDel, TrafficInv, TrafficTypeOK
<1>2. dump.key \in ghosts.torn \cup ghosts.closed
  BY DEF DumpDel, TrafficInv, DumpIsPast, CopyIsBook
<1>3. hash' = [hash EXCEPT ![dump.key] = Zero]
  BY DEF DumpDel
<1>4. /\ hash' \in [Hours -> Amounts]
      /\ KeysArePast' /\ DumpIsPast' /\ HashIsBook' /\ CopyIsBook'
  BY <1>0, <1>1, <1>2, <1>3, RemovalInv
<1>5. TrafficTypeOK'
  BY <1>0, <1>1, <1>4 DEF TrafficInv, TrafficTypeOK
<1>6. FlightInFlush'
  BY <1>0 DEF TrafficInv, FlightInFlush
<1> QED
  BY <1>4, <1>5, <1>6 DEF TrafficInv

\* Redis drops a hash that nobody dumped in time.
LEMMA KeyExpiresInv ==
  ASSUME TrafficInv, NEW h \in Hours, KeyExpires(h)
  PROVE  TrafficInv'
<1>0. UNCHANGED <<hour, tracker, counters, flight, hourKey, touched, dump, row>>
  BY DEF KeyExpires, process
<1>1. /\ ghosts' \in [transfers : Nat, repeats : Nat, lost : Amounts, repeated : Amounts,
                      booked : [Hours -> Amounts], closed : SUBSET Hours, torn : SUBSET Hours]
      /\ ghosts'.booked = ghosts.booked
      /\ ghosts'.closed = ghosts.closed
      /\ ghosts'.torn = ghosts.torn \cup {h}
  BY DEF KeyExpires, TrafficInv, TrafficTypeOK
<1>3. hash' = [hash EXCEPT ![h] = Zero]
  BY DEF KeyExpires
<1>4. /\ hash' \in [Hours -> Amounts]
      /\ KeysArePast' /\ DumpIsPast' /\ HashIsBook' /\ CopyIsBook'
  BY <1>0, <1>1, <1>3, RemovalInv
<1>5. TrafficTypeOK'
  BY <1>0, <1>1, <1>4 DEF TrafficInv, TrafficTypeOK
<1>6. FlightInFlush'
  BY <1>0 DEF TrafficInv, FlightInFlush
<1> QED
  BY <1>4, <1>5, <1>6 DEF TrafficInv

\* The hour turns.
LEMMA HourTurnsInv ==
  ASSUME TrafficInv, HourTurns
  PROVE  TrafficInv'
<1>0. UNCHANGED <<tracker, counters, flight, hourKey, hash, touched, dump, row, ghosts>>
  BY DEF HourTurns, process, shared
<1>1. hour \in Hours /\ hour' \in Hours /\ hour' = hour + 1
  BY TrafficBounds DEF HourTurns, TrafficInv, TrafficTypeOK, Hours
<1>2. TrafficTypeOK'
  BY <1>0, <1>1 DEF TrafficInv, TrafficTypeOK
<1>3. FlightInFlush' /\ HashIsBook' /\ CopyIsBook'
  BY <1>0 DEF TrafficInv, FlightInFlush, HashIsBook, CopyIsBook
<1>4. KeysArePast'
  <2>1. \A n \in Nodes : hourKey[n] \in Hours /\ hourKey[n] <= hour
    BY DEF TrafficInv, TrafficTypeOK, KeysArePast
  <2>2. \A h \in Hours : touched[h] \in Hours /\ touched[h] <= hour
    BY DEF TrafficInv, TrafficTypeOK, KeysArePast
  <2>3. \A k \in Hours : k <= hour => k <= hour'
    BY <1>1 DEF Hours
  <2>4. (\A n \in Nodes : hourKey[n] <= hour') /\ (\A h \in Hours : touched[h] <= hour')
    BY <2>1, <2>2, <2>3
  <2> QED
    BY <1>0, <2>4 DEF TrafficInv, KeysArePast
<1>5. DumpIsPast'
  <2>1. dump.todo \in SUBSET Hours
    BY DEF TrafficInv, TrafficTypeOK
  <2>2. \A h \in dump.todo : h < hour'
    BY <1>1, <2>1 DEF TrafficInv, DumpIsPast, Hours
  <2> QED
    BY <1>0, <2>2 DEF TrafficInv, DumpIsPast
<1> QED
  BY <1>2, <1>3, <1>4, <1>5 DEF TrafficInv

\* Every step keeps the invariant.
LEMMA StepInv == TrafficInv /\ [TrafficNext]_trafficVars => TrafficInv'
<1> SUFFICES ASSUME TrafficInv, [TrafficNext]_trafficVars PROVE TrafficInv'
  OBVIOUS
<1>1. ASSUME NEW n \in Nodes, Tracking(n) PROVE TrafficInv'
  BY <1>1, QuietInv, ProcessEndsInv, TransferInv DEF Tracking
<1>2. ASSUME NEW n \in Nodes, Flushing(n) PROVE TrafficInv'
  BY <1>2, QuietInv, FlushBeginInv, FlushDoneInv, FlushFailedInv DEF Flushing
<1>3. CASE Dumping
  BY <1>3, DumpMovesInv, DumpReadInv, DumpUpsertInv, DumpDelInv DEF Dumping
<1>4. CASE HourTurns
  BY <1>4, HourTurnsInv
<1>5. ASSUME NEW h \in Hours, KeyExpires(h) PROVE TrafficInv'
  BY <1>5, KeyExpiresInv
<1>6. CASE UNCHANGED trafficVars
  <2>1. UNCHANGED <<hour, tracker, counters, flight, hourKey, hash, touched, dump, row, ghosts>>
    BY <1>6 DEF trafficVars, process, shared
  <2> QED
    BY <2>1 DEF TrafficInv, TrafficTypeOK, FlightInFlush, KeysArePast, DumpIsPast, HashIsBook, CopyIsBook
<1> QED
  BY <1>1, <1>2, <1>3, <1>4, <1>5, <1>6 DEF TrafficNext

\* For any number of processes, fields and hours: the hash of an hour never
\* says more than was entered for the hour and, unless a flush came after a
\* dump or Redis dropped it, says all of it until a dump has read it; so does
\* the copy a dump turns into rows.
THEOREM Invariance == TrafficSpec => []TrafficInv
BY InitInv, StepInv, PTL DEF TrafficSpec

-----------------------------------------------------------------------------
(* The simulation.                                                         *)

\* What is pending at each process, field by field.
LEMMA PendingAt ==
  ASSUME TrafficTypeOK
  PROVE  /\ Pending \in [Nodes -> Amounts]
         /\ \A n \in Nodes : \A f \in Fields :
              /\ Pending[n][f] = counters[n][f] + flight[n][f]
              /\ counters[n][f] \in Nat /\ flight[n][f] \in Nat
<1>1. \A n \in Nodes : counters[n] \in Amounts /\ flight[n] \in Amounts
  BY DEF TrafficTypeOK
<1>2. \A n \in Nodes : Pending[n] = Plus(counters[n], flight[n])
  BY DEF Pending
<1>3. Pending \in [Nodes -> Amounts]
  BY <1>1, AmountsClosed DEF Pending
<1>4. \A n \in Nodes : \A f \in Fields : Pending[n][f] = counters[n][f] + flight[n][f]
  BY <1>2 DEF Plus
<1>5. \A n \in Nodes : \A f \in Fields : counters[n][f] \in Nat /\ flight[n][f] \in Nat
  BY <1>1 DEF Amounts
<1> QED
  BY <1>3, <1>4, <1>5

\* The ledger starts empty.
LEMMA InitLedger == TrafficInit => Ledger!Init
<1> SUFFICES ASSUME TrafficInit PROVE Ledger!Init
  OBVIOUS
<1>1. Pending = [n \in Nodes |-> Ledger!Zero]
  BY DEF TrafficInit, Pending, Plus, Zero, Ledger!Zero
<1>2. Zero = Ledger!Zero
  BY DEF Zero, Ledger!Zero
<1> QED
  BY <1>1, <1>2 DEF TrafficInit, Ledger!Init

\* Only process n may change what is pending at it.
LEMMA OthersKept ==
  ASSUME TrafficInv, NEW n \in Nodes, NEW v, NEW w,
         counters' = [counters EXCEPT ![n] = v],
         flight' = [flight EXCEPT ![n] = w]
  PROVE  Ledger!OthersKeep(n) /\ Pending'[n] = Plus(v, w)
<1>1. \A m \in Nodes : Pending'[m] = Plus(counters'[m], flight'[m])
  BY DEF Pending
<1>2. \A m \in Nodes : Pending[m] = Plus(counters[m], flight[m])
  BY DEF Pending
<1>3. counters'[n] = v /\ flight'[n] = w
  BY DEF TrafficInv, TrafficTypeOK
<1>4. \A m \in Nodes \ {n} : counters'[m] = counters[m] /\ flight'[m] = flight[m]
  BY DEF TrafficInv, TrafficTypeOK
<1> QED
  BY <1>1, <1>2, <1>3, <1>4 DEF Ledger!OthersKeep

\* A Read or a Write counts.
LEMMA TransferCounts ==
  ASSUME TrafficInv, TrafficInv', NEW n \in Nodes, NEW f \in Fields, Transfer(n, f)
  PROVE  Ledger!Count(n)
<1>0. /\ UNCHANGED <<hour, flight, row>>
      /\ UNCHANGED <<ghosts.lost, ghosts.repeated, ghosts.booked, ghosts.closed, ghosts.torn>>
  BY DEF Transfer, TrafficInv, TrafficTypeOK
<1>1. /\ counters' = [counters EXCEPT ![n] = counters'[n]]
      /\ flight' = [flight EXCEPT ![n] = flight[n]]
  BY <1>0 DEF Transfer, TrafficInv, TrafficTypeOK
<1>2. Ledger!OthersKeep(n) /\ Pending'[n] = Plus(counters'[n], flight[n])
  BY <1>1, OthersKept
<1>3. \A g \in Fields : /\ counters[n][g] \in Nat
                        /\ counters'[n][g] = counters[n][g] \/ counters'[n][g] = counters[n][g] + Chunk
  BY DEF Transfer, TrafficInv, TrafficTypeOK, Amounts
<1>4. \A g \in Fields : Pending'[n][g] >= Pending[n][g]
  <2> TAKE g \in Fields
  <2>1. Pending[n][g] = counters[n][g] + flight[n][g] /\ flight[n][g] \in Nat
    BY PendingAt DEF TrafficInv
  <2>2. Pending'[n][g] = counters'[n][g] + flight[n][g]
    BY <1>2 DEF Plus
  <2> QED
    BY <1>3, <2>1, <2>2, TrafficBounds
<1> QED
  BY <1>0, <1>2, <1>4 DEF Ledger!Count

\* The bytes of a process that ends are lost.
LEMMA ProcessEndsLoses ==
  ASSUME TrafficInv, NEW n \in Nodes, ProcessEnds(n)
  PROVE  Ledger!Lose(n)
<1>0. /\ UNCHANGED <<hour, row>>
      /\ UNCHANGED <<ghosts.repeated, ghosts.booked, ghosts.closed, ghosts.torn>>
      /\ ghosts'.lost = Plus(ghosts.lost, Plus(counters[n], flight[n]))
  BY DEF ProcessEnds, TrafficInv, TrafficTypeOK
<1>1. Ledger!OthersKeep(n) /\ Pending'[n] = Plus(Zero, Zero)
  BY OthersKept DEF ProcessEnds
<1>2. Pending[n] = Plus(counters[n], flight[n])
  BY DEF Pending
<1>3. \A f \in Fields : Pending'[n][f] = 0 /\ ghosts'.lost[f] = ghosts.lost[f] + Pending[n][f]
  BY <1>0, <1>1, <1>2 DEF Plus, Zero
<1> QED
  BY <1>0, <1>1, <1>3 DEF Ledger!Lose

\* What Redis executed of a pipeline is an entry of the ledger.
LEMMA EntryEnters ==
  ASSUME TrafficInv, NEW h \in Hours, NEW v \in Amounts,
         UNCHANGED <<hour, row>>,
         ghosts'.booked = [ghosts.booked EXCEPT ![h] = Plus(@, v)],
         UNCHANGED <<ghosts.closed, ghosts.lost>>,
         ghosts'.torn = IF h \in ghosts.closed THEN ghosts.torn \cup {h} ELSE ghosts.torn
  PROVE  Ledger!Enter(h) /\ \A f \in Fields : Ledger!Gain(h, f) = v[f]
<1>0. ghosts.booked \in [Hours -> Amounts]
  BY DEF TrafficInv, TrafficTypeOK
<1>1. /\ \A g \in Hours \ {h} : ghosts'.booked[g] = ghosts.booked[g]
      /\ ghosts'.booked[h] = Plus(ghosts.booked[h], v)
  BY <1>0
<1>2. \A f \in Fields : ghosts'.booked[h][f] = ghosts.booked[h][f] + v[f]
  BY <1>1 DEF Plus
<1>3. \A f \in Fields : ghosts.booked[h][f] \in Nat /\ v[f] \in Nat
  BY <1>0 DEF Amounts
<1>4. \A f \in Fields : ghosts'.booked[h][f] - ghosts.booked[h][f] = v[f] /\ v[f] >= 0
  BY <1>2, <1>3
<1>5. \A f \in Fields : Ledger!Gain(h, f) = v[f]
  BY <1>4 DEF Ledger!Gain
<1> QED
  BY <1>1, <1>4, <1>5 DEF Ledger!Enter

\* A confirmed flush enters what was pending into the book of one hour.
LEMMA FlushDoneBooks ==
  ASSUME TrafficInv, NEW n \in Nodes, FlushDone(n)
  PROVE  Ledger!Book(n, hourKey[n])
<1> DEFINE h == hourKey[n]
<1>0. h \in Hours /\ flight[n] \in Amounts /\ counters[n] \in Amounts
  BY DEF TrafficInv, TrafficTypeOK
<1>1. /\ UNCHANGED <<hour, row>>
      /\ ghosts'.booked = [ghosts.booked EXCEPT ![h] = Plus(@, flight[n])]
      /\ UNCHANGED <<ghosts.closed, ghosts.lost, ghosts.repeated>>
      /\ ghosts'.torn = IF h \in ghosts.closed THEN ghosts.torn \cup {h} ELSE ghosts.torn
  BY DEF FlushDone, Entered, TrafficInv, TrafficTypeOK
<1>2. /\ counters' = [counters EXCEPT ![n] = counters[n]]
      /\ flight' = [flight EXCEPT ![n] = Zero]
  BY DEF FlushDone, TrafficInv, TrafficTypeOK
<1>3. Ledger!OthersKeep(n) /\ Pending'[n] = Plus(counters[n], Zero)
  BY <1>2, OthersKept
<1> HIDE DEF h
<1>4. Ledger!Enter(h) /\ \A f \in Fields : Ledger!Gain(h, f) = flight[n][f]
  BY <1>0, <1>1, EntryEnters
<1>5. \A f \in Fields : Pending'[n][f] = Pending[n][f] - Ledger!Gain(h, f)
  <2> TAKE f \in Fields
  <2>1. Pending[n][f] = counters[n][f] + flight[n][f] /\ counters[n][f] \in Nat /\ flight[n][f] \in Nat
    BY PendingAt DEF TrafficInv
  <2>2. Pending'[n][f] = counters[n][f] + 0
    BY <1>3 DEF Plus, Zero
  <2>3. Ledger!Gain(h, f) = flight[n][f]
    BY <1>4
  <2> QED
    BY <2>1, <2>2, <2>3
<1>6. Ledger!Book(n, h)
  BY <1>1, <1>3, <1>4, <1>5 DEF Ledger!Book
<1> QED
  BY <1>6 DEF h

\* A failed flush leaves all bytes pending: what was executed is repeated.
LEMMA FlushFailedRepeats ==
  ASSUME TrafficInv, NEW n \in Nodes, FlushFailed(n)
  PROVE  Ledger!Repeat(hourKey[n]) \/ UNCHANGED Ledger!vars
<1> DEFINE h == hourKey[n]
<1>0. /\ h \in Hours /\ flight[n] \in Amounts /\ counters[n] \in Amounts
      /\ UNCHANGED <<hour, row>>
  BY DEF FlushFailed, TrafficInv, TrafficTypeOK
<1>1. Pending' = Pending
  <2>0. /\ counters' = [counters EXCEPT ![n] = Plus(counters[n], flight[n])]
        /\ flight' = [flight EXCEPT ![n] = Zero]
    BY DEF FlushFailed
  <2>1. Ledger!OthersKeep(n) /\ Pending'[n] = Plus(Plus(counters[n], flight[n]), Zero)
    BY <2>0, OthersKept
  <2>2. \A m \in Nodes \ {n} : Pending'[m] = Pending[m]
    BY <2>1 DEF Ledger!OthersKeep
  <2>3. Plus(Plus(counters[n], flight[n]), Zero) = Plus(counters[n], flight[n])
    <3>1. Plus(counters[n], flight[n]) \in Amounts
      BY <1>0, AmountsClosed
    <3> QED
      BY <3>1 DEF Plus, Zero, Amounts
  <2>4. Pending[n] = Plus(counters[n], flight[n])
    BY DEF Pending
  <2>5. \A m \in Nodes : Pending'[m] = Pending[m]
    BY <2>1, <2>2, <2>3, <2>4
  <2> QED
    BY <2>5 DEF Pending
<1>2. CASE UNCHANGED <<shared, ghosts>>
  BY <1>0, <1>1, <1>2 DEF Ledger!vars
<1>3. CASE ~ UNCHANGED <<shared, ghosts>>
  <2>1. PICK A \in (SUBSET Nonzero(flight[n])) \ {{}} :
          ghosts' = [Entered(hourKey[n], Only(flight[n], A)) EXCEPT
                       !.repeated = Plus(@, Only(flight[n], A)),
                       !.repeats = @ + 1]
    BY <1>3 DEF FlushFailed
  <2> DEFINE v == Only(flight[n], A)
  <2>2. v \in Amounts
    BY <1>0, AmountsClosed
  <2>3. /\ ghosts'.booked = [ghosts.booked EXCEPT ![h] = Plus(@, v)]
        /\ UNCHANGED <<ghosts.closed, ghosts.lost>>
        /\ ghosts'.repeated = Plus(ghosts.repeated, v)
        /\ ghosts'.torn = IF h \in ghosts.closed THEN ghosts.torn \cup {h} ELSE ghosts.torn
    BY <2>1 DEF Entered, TrafficInv, TrafficTypeOK
  <2> HIDE DEF h, v
  <2>4. Ledger!Enter(h) /\ \A f \in Fields : Ledger!Gain(h, f) = v[f]
    BY <1>0, <2>2, <2>3, EntryEnters
  <2>5. \A f \in Fields : ghosts'.repeated[f] = ghosts.repeated[f] + Ledger!Gain(h, f)
    BY <2>3, <2>4 DEF Plus
  <2>6. Ledger!Repeat(h)
    BY <1>1, <2>4, <2>5 DEF Ledger!Repeat
  <2> QED
    BY <2>6 DEF h
<1> QED
  BY <1>2, <1>3

\* Swapping the counters out moves bytes that stay pending.
LEMMA FlushBeginKeeps ==
  ASSUME TrafficInv, NEW n \in Nodes, FlushBegin(n)
  PROVE  UNCHANGED Ledger!vars
<1>0. UNCHANGED <<hour, row, ghosts>> /\ counters[n] \in Amounts /\ flight[n] = Zero
  BY DEF FlushBegin, TrafficInv, TrafficTypeOK, FlightInFlush
<1>1. Ledger!OthersKeep(n) /\ Pending'[n] = Plus(Zero, counters[n])
  BY OthersKept DEF FlushBegin
<1>2. \A m \in Nodes \ {n} : Pending'[m] = Pending[m]
  BY <1>1 DEF Ledger!OthersKeep
<1>3. Plus(Zero, counters[n]) = Plus(counters[n], Zero)
  BY <1>0 DEF Plus, Zero, Amounts
<1>4. Pending[n] = Plus(counters[n], Zero)
  BY <1>0 DEF Pending
<1>5. Pending' = Pending
  <2>1. \A m \in Nodes : Pending'[m] = Pending[m]
    BY <1>1, <1>2, <1>3, <1>4
  <2> QED
    BY <2>1 DEF Pending
<1> QED
  BY <1>0, <1>5 DEF Ledger!vars

\* The other steps of a process change nothing the ledger speaks of.
LEMMA QuietKeeps ==
  ASSUME NEW n \in Nodes,
         InitTracker(n) \/ SetDeviceNo(n) \/ StopTracker(n) \/ FlushNothing(n)
  PROVE  UNCHANGED Ledger!vars
BY DEF InitTracker, SetDeviceNo, StopTracker, FlushNothing, Ledger!vars, Pending

\* Reading a hash closes an hour that is over; an empty one changes nothing.
LEMMA DumpReadCloses ==
  ASSUME TrafficInv, NEW h \in Hours, DumpRead(h)
  PROVE  Ledger!Close(h) \/ UNCHANGED Ledger!vars
<1>0. UNCHANGED <<hour, row, counters, flight>> /\ h < hour
  BY DEF DumpRead, process, TrafficInv, DumpIsPast
<1>1. Pending' = Pending
  BY <1>0 DEF Pending
<1>2. CASE Nonzero(hash[h]) = {}
  BY <1>0, <1>1, <1>2 DEF DumpRead, Ledger!vars
<1>3. CASE Nonzero(hash[h]) # {}
  <2>1. /\ ghosts'.closed = ghosts.closed \cup {h}
        /\ UNCHANGED <<ghosts.lost, ghosts.repeated, ghosts.booked, ghosts.torn>>
    BY <1>3 DEF DumpRead, TrafficInv, TrafficTypeOK
  <2> QED
    BY <1>0, <1>1, <2>1 DEF Ledger!Close
<1> QED
  BY <1>2, <1>3

\* The rows written are the book of the hour, rounded; those of a torn hour
\* say at most that.
LEMMA DumpUpsertPublishes ==
  ASSUME TrafficInv, DumpUpsert
  PROVE  dump.key \in Hours /\ Ledger!Publish(dump.key)
<1> DEFINE h == dump.key
<1>0. /\ h \in Hours /\ dump.data \in Amounts /\ ghosts.booked[h] \in Amounts
      /\ row \in [Hours -> Amounts \cup {NoRow}]
  BY DEF TrafficInv, TrafficTypeOK
<1>1. /\ h \in ghosts.closed
      /\ \A f \in Fields : dump.data[f] <= ghosts.booked[h][f]
      /\ h \notin ghosts.torn => dump.data = ghosts.booked[h]
  BY DEF DumpUpsert, TrafficInv, CopyIsBook
<1>2. /\ UNCHANGED <<hour, counters, flight, ghosts>>
      /\ row' = [row EXCEPT ![h] = [f \in Fields |-> bytesToKB(dump.data[f])]]
  BY DEF DumpUpsert, process
<1>3. Pending' = Pending
  BY <1>2 DEF Pending
<1>4. /\ \A g \in Hours \ {h} : row'[g] = row[g]
      /\ row'[h] = [f \in Fields |-> bytesToKB(dump.data[f])]
  BY <1>0, <1>2
<1>5. \A f \in Fields :
        /\ row'[h][f] = bytesToKB(dump.data[f])
        /\ bytesToKB(dump.data[f]) \in Nat
        /\ Ledger!Rounded(row'[h][f], dump.data[f])
        /\ 1024 * row'[h][f] <= ghosts.booked[h][f] + 512
  <2> TAKE f \in Fields
  <2>1. dump.data[f] \in Nat /\ ghosts.booked[h][f] \in Nat /\ dump.data[f] <= ghosts.booked[h][f]
    BY <1>0, <1>1 DEF Amounts
  <2>2. row'[h][f] = bytesToKB(dump.data[f])
    BY <1>4
  <2>3. /\ bytesToKB(dump.data[f]) \in Nat
        /\ Ledger!Rounded(bytesToKB(dump.data[f]), dump.data[f])
        /\ \A c \in Nat : dump.data[f] <= c => 1024 * bytesToKB(dump.data[f]) <= c + 512
    BY <2>1, RoundsToKB
  <2>4. 1024 * bytesToKB(dump.data[f]) <= ghosts.booked[h][f] + 512
    BY <2>1, <2>3
  <2> QED
    BY <2>2, <2>3, <2>4
<1>6. row'[h] # NoRow
  <2>1. [f \in Fields |-> bytesToKB(dump.data[f])] \in [Fields -> Nat]
    BY <1>5
  <2> QED
    BY <1>4, <2>1, TrafficBounds
<1>7. \A f \in Fields : IF h \in ghosts.torn
                          THEN 1024 * row'[h][f] <= ghosts.booked[h][f] + 512
                          ELSE Ledger!Rounded(row'[h][f], ghosts.booked[h][f])
  <2> TAKE f \in Fields
  <2>1. Ledger!Rounded(row'[h][f], dump.data[f]) /\ 1024 * row'[h][f] <= ghosts.booked[h][f] + 512
    BY <1>5
  <2>2. h \notin ghosts.torn => dump.data[f] = ghosts.booked[h][f]
    BY <1>1
  <2> QED
    BY <2>1, <2>2, Zenon
<1>8. Ledger!Publish(h)
  <2> HIDE DEF h
  <2> QED
    BY <1>1, <1>2, <1>3, <1>4, <1>6, <1>7 DEF Ledger!Publish
<1> QED
  BY <1>0, <1>8

\* The other steps of a dump change nothing the ledger speaks of.
LEMMA DumpKeeps ==
  ASSUME DumpScan \/ DumpFails \/ DumpDel \/ DumpReturns
  PROVE  UNCHANGED Ledger!vars
BY DEF DumpScan, DumpFails, DumpDel, DumpReturns, process, Ledger!vars, Pending

\* Redis forgets an hour only after it is over.
LEMMA KeyExpiresForgets ==
  ASSUME TrafficInv, NEW h \in Hours, KeyExpires(h)
  PROVE  Ledger!Forget(h)
<1>0. /\ UNCHANGED <<hour, row, counters, flight>>
      /\ ghosts'.torn = ghosts.torn \cup {h}
      /\ UNCHANGED <<ghosts.lost, ghosts.repeated, ghosts.booked, ghosts.closed>>
  BY DEF KeyExpires, process, TrafficInv, TrafficTypeOK
<1>1. Pending' = Pending
  BY <1>0 DEF Pending
<1>2. hash[h] \in Amounts /\ touched[h] \in Hours /\ hour \in Hours
  BY DEF TrafficInv, TrafficTypeOK
<1>3. h <= touched[h]
  BY <1>2, NonzeroIff DEF KeyExpires, TrafficInv, KeysArePast
<1>4. h < hour
  BY <1>2, <1>3, TrafficBounds DEF KeyExpires, Hours
<1> QED
  BY <1>0, <1>1, <1>4 DEF Ledger!Forget

\* Every step is a step of the ledger, or changes nothing it speaks of.
LEMMA StepLedger ==
  TrafficInv /\ TrafficInv' /\ [TrafficNext]_trafficVars => [Ledger!Next]_(Ledger!vars)
<1> SUFFICES ASSUME TrafficInv, TrafficInv', [TrafficNext]_trafficVars
             PROVE  Ledger!Next \/ UNCHANGED Ledger!vars
  OBVIOUS
<1>1. ASSUME NEW n \in Nodes, Tracking(n) PROVE Ledger!Next \/ UNCHANGED Ledger!vars
  <2>1. \/ \E f \in Fields : Transfer(n, f)
        \/ ProcessEnds(n)
        \/ InitTracker(n) \/ SetDeviceNo(n) \/ StopTracker(n)
    BY <1>1 DEF Tracking
  <2>2. Ledger!Count(n) \/ Ledger!Lose(n) \/ UNCHANGED Ledger!vars
    BY <2>1, TransferCounts, ProcessEndsLoses, QuietKeeps
  <2> QED
    BY <2>2 DEF Ledger!Next
<1>2. ASSUME NEW n \in Nodes, Flushing(n) PROVE Ledger!Next \/ UNCHANGED Ledger!vars
  <2>0. hourKey[n] \in Hours
    BY DEF TrafficInv, TrafficTypeOK
  <2>1. Ledger!Book(n, hourKey[n]) \/ Ledger!Repeat(hourKey[n]) \/ UNCHANGED Ledger!vars
    BY <1>2, FlushBeginKeeps, QuietKeeps, FlushDoneBooks, FlushFailedRepeats DEF Flushing
  <2> QED
    BY <2>0, <2>1 DEF Ledger!Next
<1>3. CASE Dumping
  <2>1. \/ \E h \in Hours : DumpRead(h)
        \/ DumpUpsert
        \/ DumpScan \/ DumpFails \/ DumpDel \/ DumpReturns
    BY <1>3 DEF Dumping
  <2>2. \/ \E h \in Hours : Ledger!Close(h) \/ Ledger!Publish(h)
        \/ UNCHANGED Ledger!vars
    BY <2>1, DumpReadCloses, DumpUpsertPublishes, DumpKeeps
  <2> QED
    BY <2>2 DEF Ledger!Next
<1>4. CASE HourTurns
  BY <1>4 DEF HourTurns, process, Pending, Ledger!Next, Ledger!HourTurns
<1>5. ASSUME NEW h \in Hours, KeyExpires(h) PROVE Ledger!Next \/ UNCHANGED Ledger!vars
  BY <1>5, KeyExpiresForgets DEF Ledger!Next
<1>6. CASE UNCHANGED trafficVars
  BY <1>6 DEF trafficVars, process, Pending, Ledger!vars
<1> QED
  BY <1>1, <1>2, <1>3, <1>4, <1>5, <1>6 DEF TrafficNext

\* For any number of processes, fields and hours, and whatever fails or ends
\* when: every counted byte enters the book of one hour once and the row of
\* an hour is its book in KB, with the exceptions the ledger counts.
THEOREM Refinement == TrafficSpec => ImplementsLedger
<1>1. TrafficInv /\ [TrafficNext]_trafficVars => [Ledger!Next]_(Ledger!vars)
  BY StepInv, StepLedger
<1> QED
  BY <1>1, InitLedger, Invariance, PTL DEF TrafficSpec, ImplementsLedger, Ledger!Spec

=============================================================================
