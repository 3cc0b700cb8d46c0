------------------------------ MODULE TimerLoop ------------------------------
(***************************************************************************)
(* The loop of pkg/timer/timer.go: a ticker, the time nextTime before      *)
(* which ticks are ignored, and iteratorTimer, which fires the timers that *)
(* are due and works out nextTime anew.                                    *)
(*                                                                         *)
(* nextTime is compared with the tick without the mutex; AddTimer may come *)
(* in between.  Only the timers that are due are looked at for the next    *)
(* nextTime, and the default pause is dropped when the timer that the map  *)
(* happens to yield first is one of them.  All times are kept relative to  *)
(* the present, so that no bound on time is needed.                        *)
(***************************************************************************)
EXTENDS Integers, FiniteSetsExt

CONSTANTS
  TimerIds,   \* indices of timers
  Spaces,     \* SpaceTime of a timer
  Pause,      \* the default of five seconds
  MaxLag,     \* bound on the time the loop is late for a tick
  NoTick      \* the channel of the ticker is empty

ASSUME LoopBounds ==
  /\ Spaces \subseteq Nat \ {0} /\ Spaces # {} /\ IsFiniteSet(Spaces)
  /\ Pause \in Nat \ {0}
  /\ MaxLag \in Nat \ {0}
  /\ NoTick \notin -MaxLag .. 0

VARIABLES
  timerMap,  \* the registered timers: [next, space], next relative to now
  nextTime,  \* relative to now
  tickC,     \* the tick in the channel of the ticker: its age, as a number <= 0
  iterating, \* the tick the loop found to be not before nextTime, or NoTick
  fresh,     \* history: timers that have not been fired since AddTimer
  raced      \* history: of these, the ones an older tick was still to be acted on

loopVars == <<timerMap, nextTime, tickC, iterating, fresh, raced>>

Registered == DOMAIN timerMap

LoopInit ==
  /\ timerMap = [i \in {} |-> 0]
  /\ nextTime = 0
  /\ tickC = NoTick
  /\ iterating = NoTick
  /\ fresh = {}
  /\ raced = {}

Older(t) == IF t = NoTick THEN NoTick ELSE t - 1

\* A unit of time passes and the ticker ticks; a tick that finds the channel
\* full is dropped.
TimePasses ==
  /\ \A t \in {tickC, iterating} \ {NoTick} : t > -MaxLag
  /\ timerMap' = [i \in Registered |-> [timerMap[i] EXCEPT !.next = @ - 1]]
  /\ nextTime' = nextTime - 1
  /\ tickC' = IF tickC = NoTick THEN 0 ELSE Older(tickC)
  /\ iterating' = Older(iterating)
  /\ UNCHANGED <<fresh, raced>>

\* The loop takes a tick and compares it with nextTime.
LoopTakes ==
  /\ tickC # NoTick
  /\ iterating = NoTick
  /\ iterating' = IF tickC < nextTime THEN NoTick ELSE tickC
  /\ tickC' = NoTick
  /\ UNCHANGED <<timerMap, nextTime, fresh, raced>>

\* The next time of a timer that is due at t.
Advanced(timer, t) ==
  LET n == timer.next + timer.space
  IN  [timer EXCEPT !.next = IF n < t THEN t + timer.space ELSE n]

\* iteratorTimer, under the mutex, with the tick t.  The default is replaced
\* by the time of the timer that comes first in the map, if that is due.
IterateOver(t, first) ==
  LET due == {i \in Registered : timerMap[i].next < t}
      advanced == [i \in Registered |->
                     IF i \in due THEN Advanced(timerMap[i], t) ELSE timerMap[i]]
      times == {advanced[i].next : i \in due}
      newNextTime == IF first \subseteq due /\ first # {}
                     THEN Min(times)
                     ELSE Min(times \cup {t + Pause})
  IN  /\ timerMap' = advanced
      /\ nextTime' = IF nextTime < newNextTime THEN Max({newNextTime, t}) ELSE nextTime
      /\ fresh' = fresh \ due
      /\ raced' = raced \ due

Iterate ==
  /\ iterating # NoTick
  /\ \E first \in {{i} : i \in Registered} \cup (IF Registered = {} THEN {{}} ELSE {}) :
       IterateOver(iterating, first)
  /\ iterating' = NoTick
  /\ UNCHANGED tickC

\* A tick of before this moment is still to be acted on.
TickAhead ==
  \/ iterating # NoTick
  \/ tickC # NoTick /\ tickC >= Min({nextTime, 0})

\* Fault: nextTime is left alone.
AddTimerOnly(i, space) ==
  /\ i \notin Registered
  /\ timerMap' = [j \in Registered \cup {i} |->
                    IF j = i THEN [next |-> 0, space |-> space] ELSE timerMap[j]]
  /\ fresh' = fresh \cup {i}
  /\ raced' = IF TickAhead THEN raced \cup {i} ELSE raced
  /\ UNCHANGED <<nextTime, tickC, iterating>>

\* AddTimer: the new timer is due at once.
AddTimer(i, space) ==
  /\ i \notin Registered
  /\ timerMap' = [j \in Registered \cup {i} |->
                    IF j = i THEN [next |-> 0, space |-> space] ELSE timerMap[j]]
  /\ nextTime' = Min({nextTime, 0})
  /\ fresh' = fresh \cup {i}
  /\ raced' = IF TickAhead THEN raced \cup {i} ELSE raced
  /\ UNCHANGED <<tickC, iterating>>

DelToTimer(i) ==
  /\ i \in Registered
  /\ timerMap' = [j \in Registered \ {i} |-> timerMap[j]]
  /\ fresh' = fresh \ {i}
  /\ raced' = raced \ {i}
  /\ UNCHANGED <<nextTime, tickC, iterating>>

LoopNext ==
  \/ TimePasses \/ LoopTakes \/ Iterate
  \/ \E i \in TimerIds : DelToTimer(i) \/ \E space \in Spaces : AddTimer(i, space)

LoopSpec == LoopInit /\ [][LoopNext]_loopVars

-----------------------------------------------------------------------------
(* Properties.                                                             *)

\* A timer is fired within the lag of the loop after it was added ("runs once
\* when it is added", timer.go:110), unless AddTimer came between a tick and
\* the loop's acting on it; then, and whenever it is due again, it may have to
\* wait for the default pause or for the period of another timer, whichever
\* is longer, and no more.
NeverTooLate ==
  \A i \in Registered :
    -timerMap[i].next <= IF i \in fresh \ raced
                         THEN 2 * MaxLag
                         ELSE Max(Spaces \cup {Pause}) + 2 * MaxLag

=============================================================================
