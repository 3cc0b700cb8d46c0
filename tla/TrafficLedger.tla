---------------------------- MODULE TrafficLedger ----------------------------
(***************************************************************************)
(* What pkg/traffic promises of the bytes it is told about, whatever the   *)
(* number of processes, flushes and dumps: every byte is entered once into *)
(* the book of one hour, and the row of an hour in the table is the book   *)
(* of that hour in KB.                                                     *)
(*                                                                         *)
(* The three ways in which the code falls short of this are actions of     *)
(* their own, each with a variable that says how much: a process that ends *)
(* with bytes in memory (lost), a pipeline that Redis executed and that    *)
(* was reported as failed (repeated), and an entry that reaches an hour    *)
(* after a dump has read it (torn).                                        *)
(***************************************************************************)
EXTENDS Integers

CONSTANTS
  Owners,   \* the processes that count
  Fields,   \* what is counted apart: a device and a direction
  Hours,    \* the hours, an interval from 0
  NoRow     \* no row in the table

VARIABLES
  hour,     \* the current hour
  pending,  \* bytes each process has counted and not entered
  lost,     \* bytes that went with a process
  repeated, \* bytes entered although they stayed pending
  booked,   \* bytes entered into the book of each hour
  closed,   \* hours read by a dump
  torn,     \* hours whose row may be short of their book
  row       \* the table

vars == <<hour, pending, lost, repeated, booked, closed, torn, row>>

Zero == [f \in Fields |-> 0]

\* kb is the number of KB nearest to b bytes, half a KB counting as one.
Rounded(kb, b) == 1024 * kb - b \in -511 .. 512

Init ==
  /\ hour = 0
  /\ pending = [n \in Owners |-> Zero]
  /\ lost = Zero
  /\ repeated = Zero
  /\ booked = [h \in Hours |-> Zero]
  /\ closed = {}
  /\ torn = {}
  /\ row = [h \in Hours |-> NoRow]

HourTurns ==
  /\ hour' = hour + 1
  /\ UNCHANGED <<pending, lost, repeated, booked, closed, torn, row>>

OthersKeep(n) == \A m \in Owners \ {n} : pending'[m] = pending[m]

Count(n) ==
  /\ OthersKeep(n)
  /\ \A f \in Fields : pending'[n][f] >= pending[n][f]
  /\ UNCHANGED <<hour, lost, repeated, booked, closed, torn, row>>

\* What the book of hour h gains in this step.
Gain(h, f) == booked'[h][f] - booked[h][f]

\* Only the book of hour h changes, and it only grows; an hour a dump has
\* read before is torn by it.
Enter(h) ==
  /\ \A g \in Hours \ {h} : booked'[g] = booked[g]
  /\ \A f \in Fields : Gain(h, f) >= 0
  /\ torn' = IF h \in closed THEN torn \cup {h} ELSE torn
  /\ UNCHANGED <<hour, lost, closed, row>>

Book(n, h) ==
  /\ Enter(h)
  /\ OthersKeep(n)
  /\ \A f \in Fields : pending'[n][f] = pending[n][f] - Gain(h, f)
  /\ UNCHANGED repeated

Repeat(h) ==
  /\ Enter(h)
  /\ \A f \in Fields : repeated'[f] = repeated[f] + Gain(h, f)
  /\ UNCHANGED pending

Lose(n) ==
  /\ OthersKeep(n)
  /\ \A f \in Fields : /\ pending'[n][f] = 0
                       /\ lost'[f] = lost[f] + pending[n][f]
  /\ UNCHANGED <<hour, repeated, booked, closed, torn, row>>

\* Redis forgets an hour that nobody dumped.
Forget(h) ==
  /\ h < hour
  /\ torn' = torn \cup {h}
  /\ UNCHANGED <<hour, pending, lost, repeated, booked, closed, row>>

Close(h) ==
  /\ h < hour
  /\ closed' = closed \cup {h}
  /\ UNCHANGED <<hour, pending, lost, repeated, booked, torn, row>>

\* A row says what the book says; that of a torn hour may say less, never
\* more.
Publish(h) ==
  /\ h \in closed
  /\ \A g \in Hours \ {h} : row'[g] = row[g]
  /\ row'[h] # NoRow
  /\ \A f \in Fields :
       IF h \in torn THEN 1024 * row'[h][f] <= booked[h][f] + 512
                     ELSE Rounded(row'[h][f], booked[h][f])
  /\ UNCHANGED <<hour, pending, lost, repeated, booked, closed, torn>>

Next ==
  \/ HourTurns
  \/ \E n \in Owners : Count(n) \/ Lose(n) \/ \E h \in Hours : Book(n, h)
  \/ \E h \in Hours : Repeat(h) \/ Forget(h) \/ Close(h) \/ Publish(h)

Spec == Init /\ [][Next]_vars

=============================================================================
