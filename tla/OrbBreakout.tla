---------------------------- MODULE OrbBreakout -----------------------------
(***************************************************************************)
(* The opening range breakout strategy for one underlying                  *)
(* (src/src/strategies/orb_breakout.py), inside a process that may be      *)
(* restarted: the state of the day is in memory only.                      *)
(*                                                                         *)
(* One step is one bar handled.  on_bar looks at the bar's own time and    *)
(* never at the clock, so how late a bar is handled cannot be observed;    *)
(* minutes without a bar are minutes without a tick or bars that were      *)
(* delivered to a process that died before it handled them.                *)
(***************************************************************************)
EXTENDS Integers, Sequences

CONSTANTS Prices,      \* the index levels, in points
          OpenTime,    \* 09:15, as a minute of the model's day
          RangeEnd,    \* 09:30
          EntryCutoff, \* 11:00
          LastMinute,  \* bound: the last minute of a day with a bar
          LastDay,     \* bound: the last day
          ClosedDays,  \* the weekend
          MaxMissed,   \* MAX_MISSED_OPEN_MINUTES
          MaxRestarts  \* bound

ASSUME OrbAssumption ==
    /\ Prices \subseteq Nat \ {0}
    /\ OpenTime \in Nat /\ RangeEnd \in Nat /\ EntryCutoff \in Nat
    /\ LastMinute \in Nat /\ LastDay \in Nat
    /\ MaxMissed \in Nat /\ MaxRestarts \in Nat
    /\ OpenTime + MaxMissed < RangeEnd
    /\ RangeEnd <= EntryCutoff

VARIABLES st,       \* _DayState of the underlying
          clock,    \* day and minute of the last bar handled
          dayRange, \* history: extremes of what was handled today of the
                    \* window that a late start may not miss
          fired,    \* history: the signals, with their day and minute
          restarts  \* model only: the restarts so far

orbVars == <<st, clock, dayRange, fired, restarts>>

Days    == 0 .. LastDay
Minutes == 0 .. LastMinute

(* A closed one-minute bar.                                                *)
Bars == {b \in [h : Prices, l : Prices, c : Prices] : b.l <= b.c /\ b.c <= b.h}

(* float("-inf"), float("inf") and None.                                   *)
NoHigh   == 0
NoLow    == -1
NoMinute == -1
NoClose  == 0

Fresh(day) == [day |-> day, phase |-> "watching", high |-> NoHigh, low |-> NoLow,
               first |-> NoMinute, close |-> NoClose]

Higher(a, b) == IF a >= b THEN a ELSE b
Lower(a, b)  == IF a = NoLow \/ b <= a THEN b ELSE a

OrbTypeOK ==
    /\ st \in [day : Days \cup {-1},
               phase : {"watching", "armed", "triggered", "expired"},
               high : Prices \cup {NoHigh}, low : Prices \cup {NoLow},
               first : Minutes \cup {NoMinute}, close : Prices \cup {NoClose}]
    /\ clock \in [day : Days, minute : Minutes \cup {NoMinute}]
    /\ dayRange \in [high : Prices \cup {NoHigh}, low : Prices \cup {NoLow}]
    /\ fired \in Seq([day : Days, minute : Minutes, side : {"CE", "PE"}])
    /\ restarts \in 0 .. MaxRestarts

OrbInit ==
    /\ st = Fresh(-1)
    /\ clock = [day |-> 0, minute |-> NoMinute]
    /\ dayRange = [high |-> NoHigh, low |-> NoLow]
    /\ fired = <<>>
    /\ restarts = 0

(* _get_or_reset_state: another day, another state.                        *)
TodaysState(day) == IF st.day = day THEN st ELSE Fresh(day)

(* Faulty: takes the middle of the bar for its close.                      *)
AccumulateMiddle(s, b, minute) ==
    [s EXCEPT !.first = IF @ = NoMinute THEN minute ELSE @,
              !.high = Higher(@, b.h), !.low = Lower(@, b.l), !.close = (b.h + b.l) \div 2]

(* The part of the WATCHING branch before RangeEnd.                        *)
Accumulate(s, b, minute) ==
    [s EXCEPT !.first = IF @ = NoMinute THEN minute ELSE @,
              !.high = Higher(@, b.h), !.low = Lower(@, b.l), !.close = b.c]

(* RANGE_PCT_MIN and RANGE_PCT_MAX: 0.15% and 1.0% of the last close.      *)
RangeIsUsable(s) ==
    /\ 10000 * (s.high - s.low) >= 15 * s.close
    /\ 10000 * (s.high - s.low) <= 100 * s.close

(* Faulty: trusts whatever was seen of the opening.                        *)
LockSeenRange(s, minute) ==
    [s EXCEPT !.first = IF @ = NoMinute THEN minute ELSE @,
              !.phase = IF s.close = NoClose \/ RangeIsUsable(s) THEN "armed" ELSE "expired"]

(* Faulty: tolerates one missed minute too many.                           *)
LockLateRange(s, minute) ==
    LET first == IF s.first = NoMinute THEN minute ELSE s.first
        armed == first - OpenTime <= MaxMissed + 1 /\ s.close # NoClose /\ RangeIsUsable(s)
    IN  [s EXCEPT !.first = first,
                  !.phase = IF armed THEN "armed" ELSE "expired"]

(* _lock_range, for a state whose first bar may be the one in hand.        *)
LockRange(s, minute) ==
    LET first == IF s.first = NoMinute THEN minute ELSE s.first
        armed == /\ first - OpenTime <= MaxMissed
                 /\ s.high # NoHigh /\ s.low # NoLow
                 /\ s.close # NoClose
                 /\ RangeIsUsable(s)
    IN  [s EXCEPT !.first = first,
                  !.phase = IF armed THEN "armed" ELSE "expired"]

(* The side a bar breaks out on, if it closes in the outer 40% of its own  *)
(* range (STRONG_CLOSE_RATIO).  A bar without a range counts as closing at *)
(* its low.                                                                *)
Breakout(s, b) ==
    IF b.c > s.high /\ b.h > b.l /\ 10 * (b.c - b.l) >= 6 * (b.h - b.l) THEN "CE"
    ELSE IF b.c < s.low /\ 10 * (b.h - b.c) >= 6 * (b.h - b.l) THEN "PE" ELSE "none"

(* Faulty: the cutoff minute itself still trades.                          *)
TryBreakoutAtCutoff(s, b, minute) ==
    [s EXCEPT !.close = b.c,
              !.phase = IF minute > EntryCutoff THEN "expired"
                        ELSE IF Breakout(s, b) # "none" THEN "triggered" ELSE "armed"]

(* The ARMED branch: past the cutoff the day is over; a breakout triggers. *)
TryBreakout(s, b, minute) ==
    [s EXCEPT !.close = b.c,
              !.phase = IF minute >= EntryCutoff THEN "expired"
                        ELSE IF Breakout(s, b) # "none" THEN "triggered" ELSE "armed"]

(* on_bar: the state after the bar.                                        *)
AfterBar(b, day, minute) ==
    LET s == TodaysState(day)
        locked == IF s.phase = "watching" THEN LockRange(s, minute) ELSE s
    IN  IF \/ s.phase \in {"triggered", "expired"}
           \/ s.phase = "watching" /\ minute < OpenTime
        THEN s
        ELSE IF s.phase = "watching" /\ minute < RangeEnd
             THEN Accumulate(s, b, minute)
             ELSE IF locked.phase = "armed" THEN TryBreakout(locked, b, minute) ELSE locked

(* What on_bar returns: the signal of a state that has just triggered.     *)
Signalled(b, day, minute) ==
    IF TodaysState(day).phase # "triggered" /\ AfterBar(b, day, minute).phase = "triggered"
    THEN <<[day |-> day, minute |-> minute, side |-> Breakout(AfterBar(b, day, minute), b)]>>
    ELSE <<>>

OnBar(b, minute) ==
    /\ minute > clock.minute
    /\ clock' = [clock EXCEPT !.minute = minute]
    /\ dayRange' = IF minute \in OpenTime + MaxMissed .. RangeEnd - 1
                   THEN [high |-> Higher(dayRange.high, b.h), low |-> Lower(dayRange.low, b.l)]
                   ELSE dayRange
    /\ IF clock.day \in ClosedDays
       THEN UNCHANGED <<st, fired>>
       ELSE /\ st' = AfterBar(b, clock.day, minute)
            /\ fired' = fired \o Signalled(b, clock.day, minute)
    /\ UNCHANGED restarts

NextDay ==
    /\ clock.day < LastDay
    /\ clock' = [day |-> clock.day + 1, minute |-> NoMinute]
    /\ dayRange' = [high |-> NoHigh, low |-> NoLow]
    /\ UNCHANGED <<st, fired, restarts>>

(* The process ends and is started again: __init__ of the strategy.        *)
OrbRestart ==
    /\ restarts < MaxRestarts
    /\ restarts' = restarts + 1
    /\ st' = Fresh(-1)
    /\ UNCHANGED <<clock, dayRange, fired>>

OrbNext ==
    \/ \E b \in Bars, minute \in Minutes : OnBar(b, minute)
    \/ NextDay
    \/ OrbRestart

OrbSpec == OrbInit /\ [][OrbNext]_orbVars
-----------------------------------------------------------------------------
(* "One signal per underlying per day. No re-arm.": although a restart     *)
(* forgets that the strategy has triggered, it cannot trigger again that   *)
(* day, because the restarted strategy has missed the opening.             *)
OneSignalPerDay ==
    \A i, j \in 1 .. Len(fired) : fired[i].day = fired[j].day => i = j

(* Signals come between 09:30 and 11:00, on trading days.                  *)
SignalsInWindow ==
    \A i \in 1 .. Len(fired) :
        /\ fired[i].minute \in RangeEnd .. EntryCutoff - 1
        /\ fired[i].day \notin ClosedDays

(* A range that is looked at for breakouts contains every bar handled in   *)
(* the opening window but the first MaxMissed minutes, whichever process   *)
(* handled it: a range cut short by a restart is never traded.             *)
ArmedRangeIsWhole ==
    st.phase \in {"armed", "triggered"} /\ st.day = clock.day =>
        /\ dayRange.high <= st.high
        /\ dayRange.low # NoLow => st.low # NoLow /\ st.low <= dayRange.low
=============================================================================
