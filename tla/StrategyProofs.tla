--------------------------- MODULE StrategyProofs ---------------------------
(***************************************************************************)
(* Proofs about what turns the market into orders and what measures it.    *)
(* The opening range breakout strategy, for any prices, any times of day,  *)
(* any number of days and restarts, gives at most one signal a day, in its *)
(* window, and never on a range cut short by a restart.  The option        *)
(* selector that has found an expiry finds a contract of it, whatever is   *)
(* done to the catalogue meanwhile, and on a dump of the day rolls to the  *)
(* next expiry when it should.  The signals of the regime strategy are     *)
(* apart by the cooldown, and the labels it is fed follow the bars.  The   *)
(* backtest closes a trade where the live watcher would.                   *)
(***************************************************************************)
EXTENDS OrbBreakout, RegimeSignals, OptionSelector, Backtest, CommonProofs, SequenceTheorems

(* The last opening minute a start may miss.                               *)
LateStart == OpenTime + MaxMissed

(* The state holds the extremes of what was handled of the window.         *)
Covers(s, r) ==
    /\ r.high <= s.high
    /\ r.low # NoLow => s.low # NoLow /\ s.low <= r.low

(* Where the clock is, given the state of the day.                         *)
DayIsConsistent ==
    /\ st.day <= clock.day
    /\ st.day = clock.day =>
          /\ clock.day \notin ClosedDays
          /\ st.first # NoMinute => st.first <= clock.minute
          /\ st.phase # "watching" => clock.minute >= RangeEnd
          /\ st.phase \in {"armed", "triggered"} => st.first # NoMinute /\ st.first <= LateStart

(* A state that began early enough has seen the whole window.              *)
WindowIsSeen ==
    /\ clock.minute < LateStart => dayRange = [high |-> NoHigh, low |-> NoLow]
    /\ st.day = clock.day /\ st.first # NoMinute /\ st.first <= LateStart => Covers(st, dayRange)

(* Once a signal has been given today, the state of today is final, or     *)
(* there is none (after a restart) and it is too late for another one.     *)
FiredIsFinal ==
    \A i \in 1 .. Len(fired) :
        /\ fired[i].day <= clock.day
        /\ fired[i].day = clock.day =>
              /\ clock.minute >= RangeEnd
              /\ st.day = clock.day => st.phase \in {"triggered", "expired"}

(* The invariant of the breakout strategy.                                 *)
OrbInv ==
    /\ OrbTypeOK
    /\ DayIsConsistent
    /\ WindowIsSeen
    /\ FiredIsFinal
    /\ SignalsInWindow
    /\ OneSignalPerDay
-----------------------------------------------------------------------------

(* It holds at the start.                                                  *)
LEMMA InitEstablishes == OrbInit => OrbInv
  BY OrbAssumption
  DEF OrbInit, OrbInv, OrbTypeOK, DayIsConsistent, WindowIsSeen, FiredIsFinal, SignalsInWindow,
      OneSignalPerDay, Fresh, Days, Minutes, NoHigh, NoLow, NoMinute, NoClose, Covers, LateStart

(* The type of a state.                                                    *)
DayStates == [day : Days \cup {-1},
              phase : {"watching", "armed", "triggered", "expired"},
              high : Prices \cup {NoHigh}, low : Prices \cup {NoLow},
              first : Minutes \cup {NoMinute}, close : Prices \cup {NoClose}]

(* Looking for a breakout changes the phase and the last close only.       *)
LEMMA TryBreakoutLeaves ==
  ASSUME NEW s \in DayStates, NEW b \in Bars, NEW minute \in Minutes
  PROVE  LET t == TryBreakout(s, b, minute)
         IN  /\ t \in DayStates /\ t.day = s.day /\ t.high = s.high
             /\ t.low = s.low /\ t.first = s.first
             /\ t.phase \in {"armed", "triggered", "expired"}
             /\ t.phase = "triggered" => minute < EntryCutoff /\ Breakout(t, b) # "none"
  <1> DEFINE t == TryBreakout(s, b, minute)
             phase == IF minute >= EntryCutoff THEN "expired"
                      ELSE IF Breakout(s, b) # "none" THEN "triggered" ELSE "armed"
  <1>1. t = [s EXCEPT !.close = b.c, !.phase = phase]
    BY DEF TryBreakout
  <1>2. /\ phase \in {"armed", "triggered", "expired"}
        /\ phase = "triggered" => ~(minute >= EntryCutoff) /\ Breakout(s, b) # "none"
    OBVIOUS
  <1>3. b.c \in Prices
    BY DEF Bars
  <1>4. minute \in Int /\ EntryCutoff \in Int
    BY OrbAssumption DEF Minutes
  <1> HIDE DEF phase
  <1>5. /\ t \in DayStates /\ t.day = s.day /\ t.high = s.high
        /\ t.low = s.low /\ t.first = s.first /\ t.phase = phase
    <2> HIDE DEF t
    <2> QED BY <1>1, <1>2, <1>3 DEF DayStates
  <1>6. Breakout(t, b) = Breakout(s, b)
    BY <1>5 DEF Breakout
  <1>7. QED
    BY <1>2, <1>4, <1>5, <1>6

(* What a bar leaves: a state of today, either untouched, or collecting    *)
(* within the window, or past the window.                                  *)
LEMMA BarLeaves ==
  ASSUME OrbInv, NEW b \in Bars, NEW minute \in Minutes, minute > clock.minute,
         clock.day \notin ClosedDays
  PROVE  LET s == TodaysState(clock.day)
             t == AfterBar(b, clock.day, minute)
         IN  /\ t \in DayStates
             /\ t.day = clock.day
             /\ \/ t = s /\ s.phase \in {"triggered", "expired"}
                \/ t = s /\ s.phase = "watching" /\ minute < OpenTime
                \/ /\ s.phase = "watching" /\ minute \in OpenTime .. RangeEnd - 1
                   /\ t = Accumulate(s, b, minute)
                \/ /\ minute >= RangeEnd /\ s.phase \in {"watching", "armed"}
                   /\ t.high = s.high /\ t.low = s.low
                   /\ t.phase \in {"armed", "triggered", "expired"}
                   /\ t.first = IF s.first = NoMinute /\ s.phase = "watching"
                                THEN minute ELSE s.first
                   /\ t.phase # "expired" => t.first # NoMinute /\ t.first <= LateStart
                   /\ t.phase = "triggered" => minute < EntryCutoff /\ Breakout(t, b) # "none"
  <1> DEFINE s == TodaysState(clock.day)
             t == AfterBar(b, clock.day, minute)
             locked == LockRange(s, minute)
  <1>1. /\ s \in DayStates /\ s.day = clock.day
        /\ s.phase = "armed" => s = st /\ st.day = clock.day
    BY DEF OrbInv, OrbTypeOK, TodaysState, Fresh, DayStates
  <1>2. /\ minute \in Int /\ minute >= 0 /\ minute # NoMinute
        /\ b.h \in Prices /\ b.l \in Prices /\ b.c \in Prices
        /\ OpenTime \in Int /\ RangeEnd \in Int /\ EntryCutoff \in Int /\ MaxMissed \in Int
        /\ LateStart = OpenTime + MaxMissed /\ LateStart < RangeEnd /\ OpenTime < RangeEnd
    BY OrbAssumption DEF Minutes, Bars, NoMinute, LateStart
  <1>3. CASE s.phase \in {"triggered", "expired"}
    <2>1. t = s
      BY <1>3 DEF AfterBar
    <2>2. QED
      BY <2>1, <1>1, <1>3
  <1>4. CASE s.phase = "watching" /\ minute < OpenTime
    <2>1. t = s
      BY <1>4 DEF AfterBar
    <2>2. QED
      BY <2>1, <1>1, <1>4
  <1>5. CASE s.phase = "watching" /\ minute \in OpenTime .. RangeEnd - 1
    <2>1. t = Accumulate(s, b, minute)
      BY <1>2, <1>5 DEF AfterBar
    <2>2. Accumulate(s, b, minute) \in DayStates /\ Accumulate(s, b, minute).day = clock.day
      BY <1>1, <1>2 DEF Accumulate, Higher, Lower, DayStates
    <2>3. QED
      BY <2>1, <2>2, <1>5
  <1>6. CASE s.phase = "watching" /\ minute >= RangeEnd
    <2>1. /\ locked \in DayStates /\ locked.day = clock.day
          /\ locked.high = s.high /\ locked.low = s.low
          /\ locked.phase \in {"armed", "expired"}
          /\ locked.first = IF s.first = NoMinute THEN minute ELSE s.first
          /\ locked.phase = "armed" => locked.first - OpenTime <= MaxMissed
      BY <1>1, <1>2 DEF LockRange, DayStates
    <2>2. locked.first \in Int /\ locked.first # NoMinute
      BY <2>1, <1>1, <1>2 DEF Minutes, DayStates
    <2>3. CASE locked.phase = "armed"
      <3>1. t = TryBreakout(locked, b, minute)
        BY <1>2, <1>6, <2>3 DEF AfterBar
      <3>2. /\ t \in DayStates /\ t.day = locked.day /\ t.high = locked.high
            /\ t.low = locked.low /\ t.first = locked.first
            /\ t.phase \in {"armed", "triggered", "expired"}
            /\ t.phase = "triggered" => minute < EntryCutoff /\ Breakout(t, b) # "none"
        BY <3>1, <2>1, TryBreakoutLeaves
      <3>3. QED
        BY <3>2, <2>1, <2>2, <2>3, <1>2, <1>6
    <2>4. CASE locked.phase = "expired"
      <3>1. t = locked
        BY <1>2, <1>6, <2>4 DEF AfterBar
      <3>2. QED
        BY <3>1, <2>1, <2>2, <2>4, <1>2, <1>6
    <2>5. QED
      BY <2>1, <2>3, <2>4
  <1>7. CASE s.phase = "armed"
    <2>1. t = TryBreakout(s, b, minute)
      BY <1>7 DEF AfterBar
    <2>2. /\ t \in DayStates /\ t.day = s.day /\ t.high = s.high
          /\ t.low = s.low /\ t.first = s.first
          /\ t.phase \in {"armed", "triggered", "expired"}
          /\ t.phase = "triggered" => minute < EntryCutoff /\ Breakout(t, b) # "none"
      BY <2>1, <1>1, TryBreakoutLeaves
    <2>3. s.first # NoMinute /\ s.first <= LateStart /\ minute >= RangeEnd
      BY <1>1, <1>2, <1>7, OrbAssumption DEF OrbInv, OrbTypeOK, DayIsConsistent, Minutes, NoMinute
    <2>4. QED
      BY <2>2, <2>3, <1>1, <1>7
  <1>8. s.phase \in {"watching", "armed", "triggered", "expired"}
    BY <1>1 DEF DayStates
  <1>9. minute < OpenTime \/ minute \in OpenTime .. RangeEnd - 1 \/ minute >= RangeEnd
    BY <1>2
  <1> HIDE DEF s, t, locked
  <1>10. QED
    BY <1>3, <1>4, <1>5, <1>6, <1>7, <1>8, <1>9 DEF s, t

(* What every bar does to the clock and to the window's history.           *)
LEMMA BarMovesClock ==
  ASSUME OrbInv, NEW b \in Bars, NEW minute \in Minutes, OnBar(b, minute)
  PROVE  /\ minute > clock.minute /\ clock.minute \in Int /\ clock.day \in Int
         /\ clock' \in [day : Days, minute : Minutes \cup {NoMinute}]
         /\ clock'.day = clock.day /\ clock'.minute = minute
         /\ dayRange' \in [high : Prices \cup {NoHigh}, low : Prices \cup {NoLow}]
         /\ restarts' = restarts
         /\ minute < LateStart \/ minute >= RangeEnd => dayRange' = dayRange
         /\ minute \in LateStart .. RangeEnd - 1 =>
              dayRange' = [high |-> Higher(dayRange.high, b.h), low |-> Lower(dayRange.low, b.l)]
  <1>1. /\ clock \in [day : Days, minute : Minutes \cup {NoMinute}]
        /\ dayRange \in [high : Prices \cup {NoHigh}, low : Prices \cup {NoLow}]
    BY DEF OrbInv, OrbTypeOK
  <1>2. /\ b.h \in Prices /\ b.l \in Prices
        /\ minute \in Int /\ OpenTime \in Int /\ MaxMissed \in Int /\ RangeEnd \in Int
    BY OrbAssumption DEF Bars, Minutes
  <1>3. /\ Higher(dayRange.high, b.h) \in Prices \cup {NoHigh}
        /\ Lower(dayRange.low, b.l) \in Prices \cup {NoLow}
    BY <1>1, <1>2 DEF Higher, Lower
  <1>4. clock.minute \in Int /\ clock.day \in Int
    BY <1>1 DEF Days, Minutes, NoMinute
  <1>5. clock' = [clock EXCEPT !.minute = minute]
    BY DEF OnBar
  <1>6. QED
    BY <1>1, <1>2, <1>3, <1>4, <1>5 DEF OnBar, LateStart

(* A bar of a closed day is handled without a trace.                       *)
LEMMA ClosedBarPreserves ==
  ASSUME OrbInv, NEW b \in Bars, NEW minute \in Minutes, OnBar(b, minute),
         clock.day \in ClosedDays
  PROVE  OrbInv'
  <1>1. st' = st /\ fired' = fired
    BY DEF OnBar
  <1>2. st.day # clock.day
    BY DEF OrbInv, DayIsConsistent
  <1>3. /\ LateStart \in Int /\ RangeEnd \in Int /\ LateStart < RangeEnd /\ minute \in Int
    BY OrbAssumption DEF LateStart, Minutes
  <1>4. OrbTypeOK'
    BY <1>1, BarMovesClock DEF OrbInv, OrbTypeOK
  <1>5. DayIsConsistent'
    BY <1>1, <1>2, BarMovesClock DEF OrbInv, DayIsConsistent
  <1>6. WindowIsSeen'
    BY <1>1, <1>2, <1>3, BarMovesClock DEF OrbInv, WindowIsSeen
  <1>7. FiredIsFinal'
    BY <1>1, <1>2, <1>3, BarMovesClock DEF OrbInv, FiredIsFinal
  <1>8. SignalsInWindow' /\ OneSignalPerDay'
    BY <1>1 DEF OrbInv, SignalsInWindow, OneSignalPerDay
  <1>9. QED
    BY <1>4, <1>5, <1>6, <1>7, <1>8 DEF OrbInv

(* Collecting a bar keeps the window covered, with or without that bar.    *)
LEMMA CoversGrows ==
  ASSUME NEW s \in DayStates, NEW b \in Bars, NEW minute \in Minutes,
         NEW r \in [high : Prices \cup {NoHigh}, low : Prices \cup {NoLow}],
         Covers(s, r)
  PROVE  LET t == Accumulate(s, b, minute)
         IN  /\ Covers(t, r)
             /\ Covers(t, [high |-> Higher(r.high, b.h), low |-> Lower(r.low, b.l)])
             /\ t.phase = s.phase
             /\ t.first = IF s.first = NoMinute THEN minute ELSE s.first
  <1> DEFINE t == Accumulate(s, b, minute)
  <1>1. /\ t.high = Higher(s.high, b.h) /\ t.low = Lower(s.low, b.l) /\ t.phase = s.phase
        /\ t.first = IF s.first = NoMinute THEN minute ELSE s.first
    BY DEF Accumulate, DayStates
  <1>2. /\ s.high \in Int /\ s.low \in Int /\ r.high \in Int /\ r.low \in Int
        /\ b.h \in Int /\ b.l \in Int /\ b.l # NoLow /\ b.l > 0
    <2>1. \A x \in Prices : x \in Int /\ x > 0
      BY OrbAssumption
    <2>2. /\ s.high \in Prices \cup {NoHigh} /\ s.low \in Prices \cup {NoLow}
          /\ r.high \in Prices \cup {NoHigh} /\ r.low \in Prices \cup {NoLow}
          /\ b.h \in Prices /\ b.l \in Prices
      BY DEF DayStates, Bars
    <2>3. QED
      BY <2>1, <2>2 DEF NoHigh, NoLow
  <1> HIDE DEF t
  <1>3. Covers(t, r)
    BY <1>1, <1>2 DEF Covers, Higher, Lower, NoLow
  <1>4. Covers(t, [high |-> Higher(r.high, b.h), low |-> Lower(r.low, b.l)])
    BY <1>1, <1>2 DEF Covers, Higher, Lower, NoLow
  <1>5. QED
    BY <1>1, <1>3, <1>4 DEF t

(* A bar of a trading day.                                                 *)
LEMMA OpenBarPreserves ==
  ASSUME OrbInv, NEW b \in Bars, NEW minute \in Minutes, OnBar(b, minute),
         clock.day \notin ClosedDays
  PROVE  OrbInv'
  <1> DEFINE s == TodaysState(clock.day)
             n == Len(fired)
             sg == Signalled(b, clock.day, minute)
             SignalType == [day : Days, minute : Minutes, side : {"CE", "PE"}]
  <1>1. /\ minute > clock.minute /\ clock.minute \in Int /\ clock.day \in Int
        /\ clock.day \in Days /\ minute \in Int
        /\ clock'.day = clock.day /\ clock'.minute = minute
    BY BarMovesClock DEF OrbInv, OrbTypeOK, Minutes
  <1>2. /\ OpenTime \in Int /\ LateStart \in Int /\ RangeEnd \in Int /\ EntryCutoff \in Int
        /\ OpenTime <= LateStart /\ LateStart < RangeEnd
    BY OrbAssumption DEF LateStart
  <1>3. /\ st' = AfterBar(b, clock.day, minute)
        /\ fired' = fired \o sg
    BY DEF OnBar
  <1>4. /\ st' \in DayStates
        /\ st'.day = clock.day
        /\ \/ st' = s /\ s.phase \in {"triggered", "expired"}
           \/ st' = s /\ s.phase = "watching" /\ minute < OpenTime
           \/ /\ s.phase = "watching" /\ minute \in OpenTime .. RangeEnd - 1
              /\ st' = Accumulate(s, b, minute)
           \/ /\ minute >= RangeEnd /\ s.phase \in {"watching", "armed"}
              /\ st'.high = s.high /\ st'.low = s.low
              /\ st'.phase \in {"armed", "triggered", "expired"}
              /\ st'.first = IF s.first = NoMinute /\ s.phase = "watching"
                             THEN minute ELSE s.first
              /\ st'.phase # "expired" => st'.first # NoMinute /\ st'.first <= LateStart
              /\ st'.phase = "triggered" => minute < EntryCutoff /\ Breakout(st', b) # "none"
    BY <1>1, <1>3, BarLeaves
  <1>5. /\ s \in DayStates /\ s.day = clock.day
        /\ s.first \in Int /\ (s.first # NoMinute => s = st /\ st.day = clock.day)
        /\ s.phase # "watching" => s = st /\ st.day = clock.day
        /\ minute # NoMinute
    BY <1>1 DEF OrbInv, OrbTypeOK, TodaysState, Fresh, DayStates, Minutes, NoMinute
  <1>6. st' = Accumulate(s, b, minute) => /\ st'.phase = s.phase
                                          /\ st'.first = IF s.first = NoMinute
                                                         THEN minute ELSE s.first
    <2> HIDE DEF s
    <2>1. QED
      BY <1>5 DEF Accumulate, DayStates
  <1>7. /\ sg = <<>> \/ /\ Len(sg) = 1 /\ sg = <<sg[1]>> /\ sg[1] \in SignalType
                         /\ sg[1].day = clock.day /\ sg[1].minute = minute
        /\ sg # <<>> => s.phase # "triggered" /\ st'.phase = "triggered"
    <2>1. Breakout(st', b) \in {"CE", "PE", "none"}
      BY DEF Breakout
    <2>2. s.phase # "triggered" /\ st'.phase = "triggered" => Breakout(st', b) # "none"
      <3> HIDE DEF s
      <3>1. QED
        BY <1>4, <1>6
    <2>3. sg = IF s.phase # "triggered" /\ st'.phase = "triggered"
               THEN <<[day |-> clock.day, minute |-> minute, side |-> Breakout(st', b)]>>
               ELSE <<>>
      BY <1>3 DEF Signalled
    <2> HIDE DEF s, sg
    <2>4. QED
      BY <1>1, <2>1, <2>2, <2>3
  <1>8. /\ fired \in Seq(SignalType) /\ n \in Nat
        /\ fired' \in Seq(SignalType)
        /\ Len(fired') = n + Len(sg)
        /\ \A i \in 1 .. n : fired'[i] = fired[i]
        /\ sg # <<>> => Len(fired') = n + 1 /\ fired'[n + 1] = sg[1]
    <2>1. fired \in Seq(SignalType)
      BY DEF OrbInv, OrbTypeOK
    <2> HIDE DEF sg, SignalType
    <2>2. CASE sg = <<>>
      BY <1>3, <2>1, <2>2
    <2>3. CASE sg # <<>>
      <3>1. \A x \in SignalType : <<x>> \in Seq(SignalType) /\ Len(<<x>>) = 1
        OBVIOUS
      <3>2. sg \in Seq(SignalType) /\ Len(sg) = 1
        BY <1>7, <2>3, <3>1
      <3>3. /\ fired \o sg \in Seq(SignalType) /\ Len(fired \o sg) = n + Len(sg)
            /\ \A i \in 1 .. n : (fired \o sg)[i] = fired[i]
            /\ (fired \o sg)[n + 1] = sg[1]
        <4>1. /\ fired \o sg \in Seq(SignalType) /\ Len(fired \o sg) = n + Len(sg)
              /\ \A i \in 1 .. n + Len(sg) :
                   (fired \o sg)[i] = IF i <= n THEN fired[i] ELSE sg[i - n]
          BY <2>1, <3>2, ConcatProperties
        <4>2. n \in Nat /\ n + Len(sg) = n + 1 /\ (n + 1) - n = 1
          BY <2>1, <3>2
        <4>3. QED
          BY <4>1, <4>2
      <3>4. QED
        BY <1>3, <2>1, <2>3, <3>2, <3>3
    <2>4. QED
      BY <2>2, <2>3
  <1> HIDE DEF s, sg
  (* A signal is only given on a day that has none yet, in its window.     *)
  <1>9. ASSUME sg # <<>>
        PROVE  /\ \A i \in 1 .. n : fired[i].day # clock.day
               /\ minute \in RangeEnd .. EntryCutoff - 1
    <2>1. /\ minute >= RangeEnd /\ s.phase \in {"watching", "armed"}
          /\ minute < EntryCutoff
      BY <1>4, <1>7, <1>9, <1>6, <1>2
    <2>2. minute \in RangeEnd .. EntryCutoff - 1
      BY <2>1, <1>1, <1>2
    <2>3. ASSUME NEW i \in 1 .. n, fired[i].day = clock.day
          PROVE  FALSE
      <3>1. /\ clock.minute >= RangeEnd
            /\ st.day = clock.day => st.phase \in {"triggered", "expired"}
        BY <2>3 DEF OrbInv, FiredIsFinal
      <3>2. CASE st.day = clock.day
        BY <3>1, <3>2, <2>1 DEF s, TodaysState
      <3>3. CASE st.day # clock.day
        <4>1. s.phase = "watching" /\ s.first = NoMinute
          BY <3>3 DEF s, TodaysState, Fresh
        <4>2. st'.first = minute /\ st'.phase = "triggered"
          BY <4>1, <2>1, <1>4, <1>7, <1>9, <1>2
        <4>3. minute <= LateStart
          BY <4>1, <4>2, <2>1, <1>4, <1>2, <1>1
        <4>4. QED
          BY <4>3, <2>1, <1>1, <1>2
      <3>4. QED
        BY <3>2, <3>3
    <2>4. QED
      BY <2>2, <2>3
  <1>10. OrbTypeOK'
    BY <1>4, <1>8, BarMovesClock DEF OrbTypeOK, DayStates, OrbInv
  <1>11. DayIsConsistent'
    <2>1. st'.first # NoMinute => st'.first <= minute
      <3>1. s.first # NoMinute => s.first <= minute
        BY <1>1, <1>5 DEF OrbInv, DayIsConsistent
      <3>2. QED
        BY <3>1, <1>6, <1>1, <1>4
    <2>2. st'.phase # "watching" => minute >= RangeEnd
      <3>1. s.phase # "watching" => clock.minute >= RangeEnd
        BY <1>5 DEF OrbInv, DayIsConsistent
      <3>2. QED
        BY <3>1, <1>6, <1>1, <1>2, <1>4
    <2>3. st'.phase \in {"armed", "triggered"} => st'.first # NoMinute /\ st'.first <= LateStart
      <3>1. s.phase \in {"armed", "triggered"} => s.first # NoMinute /\ s.first <= LateStart
        BY <1>5 DEF OrbInv, DayIsConsistent
      <3>2. QED
        BY <3>1, <1>6, <1>4
    <2>4. QED
      BY <2>1, <2>2, <2>3, <1>1, <1>4 DEF DayIsConsistent
  <1>12. WindowIsSeen'
    <2> DEFINE Empty == [high |-> NoHigh, low |-> NoLow]
    <2>1. /\ minute < LateStart \/ minute >= RangeEnd => dayRange' = dayRange
          /\ minute \in LateStart .. RangeEnd - 1 =>
               dayRange' = [high |-> Higher(dayRange.high, b.h), low |-> Lower(dayRange.low, b.l)]
          /\ dayRange \in [high : Prices \cup {NoHigh}, low : Prices \cup {NoLow}]
      BY BarMovesClock DEF OrbInv, OrbTypeOK
    <2>2. clock.minute < LateStart => dayRange = Empty
      BY DEF OrbInv, WindowIsSeen
    <2>3. s.first # NoMinute /\ s.first <= LateStart => Covers(s, dayRange)
      BY <1>5 DEF OrbInv, WindowIsSeen
    <2>4. clock'.minute < LateStart => dayRange' = Empty
      BY <2>1, <2>2, <1>1, <1>2
    <2>5. ASSUME st'.first # NoMinute, st'.first <= LateStart
          PROVE  Covers(st', dayRange')
      <3>1. CASE st' = s /\ (s.phase \in {"triggered", "expired"} \/ minute < OpenTime)
        <4>1. s.phase \in {"triggered", "expired"} => clock.minute >= RangeEnd
          BY <1>5 DEF OrbInv, DayIsConsistent
        <4>2. dayRange' = dayRange
          BY <3>1, <4>1, <2>1, <1>1, <1>2
        <4>3. QED
          BY <3>1, <4>2, <2>3, <2>5
      <3>2. CASE st' = Accumulate(s, b, minute) /\ minute \in OpenTime .. RangeEnd - 1
        <4>1. st'.first = IF s.first = NoMinute THEN minute ELSE s.first
          BY <3>2, <1>6
        <4>2. Covers(s, dayRange)
          <5>1. CASE s.first # NoMinute
            BY <5>1, <4>1, <2>3, <2>5
          <5>2. CASE s.first = NoMinute
            <6>1. minute <= LateStart
              BY <5>2, <4>1, <2>5
            <6>2. dayRange = Empty
              BY <6>1, <2>2, <1>1, <1>2
            <6>3. s.high \in Int /\ s.high >= 0
              <7>1. \A x \in Prices : x \in Int /\ x > 0
                BY OrbAssumption
              <7>2. s.high \in Prices \cup {NoHigh}
                BY <1>5 DEF DayStates
              <7>3. QED
                BY <7>1, <7>2 DEF NoHigh
            <6>4. QED
              BY <6>2, <6>3 DEF Covers, NoHigh
          <5>3. QED
            BY <5>1, <5>2
        <4>3. /\ Covers(st', dayRange)
              /\ Covers(st', [high |-> Higher(dayRange.high, b.h),
                              low  |-> Lower(dayRange.low, b.l)])
          BY <4>2, <3>2, <2>1, <1>5, CoversGrows
        <4>4. minute < LateStart \/ minute \in LateStart .. RangeEnd - 1
          BY <3>2, <1>1, <1>2
        <4>5. QED
          BY <4>3, <4>4, <2>1
      <3>3. CASE /\ minute >= RangeEnd /\ st'.high = s.high /\ st'.low = s.low
                 /\ st'.first = IF s.first = NoMinute /\ s.phase = "watching"
                                THEN minute ELSE s.first
        <4>1. st'.first = s.first
          BY <3>3, <2>5, <1>1, <1>2
        <4>2. Covers(s, dayRange) /\ dayRange' = dayRange
          BY <4>1, <3>3, <2>1, <2>3, <2>5
        <4>3. QED
          BY <4>2, <3>3 DEF Covers
      <3>4. QED
        BY <3>1, <3>2, <3>3, <1>4
    <2>6. QED
      BY <2>4, <2>5 DEF WindowIsSeen
  <1>13. FiredIsFinal'
    <2> SUFFICES ASSUME NEW i \in 1 .. Len(fired')
                 PROVE  /\ fired'[i].day <= clock.day
                        /\ fired'[i].day = clock.day =>
                              minute >= RangeEnd /\ st'.phase \in {"triggered", "expired"}
      BY <1>1, <1>4 DEF FiredIsFinal
    <2>1. CASE i \in 1 .. n
      <3>1. /\ fired'[i] = fired[i] /\ fired[i].day <= clock.day
            /\ fired[i].day = clock.day => clock.minute >= RangeEnd
        BY <2>1, <1>8 DEF OrbInv, FiredIsFinal
      <3>2. ASSUME fired[i].day = clock.day
            PROVE  st'.phase \in {"triggered", "expired"}
        <4>1. clock.minute >= RangeEnd /\ (st.day = clock.day => st.phase \in {"triggered", "expired"})
          BY <3>2, <2>1 DEF OrbInv, FiredIsFinal
        <4>2. \/ s.phase \in {"triggered", "expired"}
              \/ s.phase = "watching" /\ s.first = NoMinute
          <5>1. CASE st.day = clock.day
            BY <4>1, <5>1 DEF s, TodaysState
          <5>2. CASE st.day # clock.day
            BY <5>2 DEF s, TodaysState, Fresh
          <5>3. QED
            BY <5>1, <5>2
        <4>3. CASE s.phase \in {"triggered", "expired"}
          BY <4>3, <1>4
        <4>4. CASE s.phase = "watching" /\ s.first = NoMinute
          <5>1. st'.first = minute /\ st'.phase \in {"armed", "triggered", "expired"}
                /\ (st'.phase # "expired" => st'.first <= LateStart)
            BY <4>1, <4>4, <1>1, <1>2, <1>4
          <5>2. QED
            BY <5>1, <4>1, <1>1, <1>2
        <4>5. QED
          BY <4>2, <4>3, <4>4
      <3>3. QED
        BY <3>1, <3>2, <1>1, <1>2
    <2>2. CASE i \notin 1 .. n
      <3>1. sg # <<>> /\ fired'[i] = sg[1]
        BY <2>2, <1>7, <1>8
      <3>2. QED
        BY <3>1, <1>1, <1>2, <1>7, <1>9
    <2>3. QED
      BY <2>1, <2>2
  <1>14. SignalsInWindow' /\ OneSignalPerDay'
    <2>1. \A i \in 1 .. Len(fired') : 
              i \in 1 .. n \/ (sg # <<>> /\ i = n + 1 /\ fired'[i] = sg[1])
      BY <1>7, <1>8
    <2>2. \A i \in 1 .. n : /\ fired[i].minute \in RangeEnd .. EntryCutoff - 1
                            /\ fired[i].day \notin ClosedDays
      BY DEF OrbInv, SignalsInWindow
    <2>3. \A i, j \in 1 .. n : fired[i].day = fired[j].day => i = j
      BY DEF OrbInv, OneSignalPerDay
    <2>4. SignalsInWindow'
      BY <2>1, <2>2, <1>7, <1>8, <1>9 DEF SignalsInWindow
    <2>5. OneSignalPerDay'
      BY <2>1, <2>3, <1>7, <1>8, <1>9 DEF OneSignalPerDay
    <2>6. QED
      BY <2>4, <2>5
  <1>15. QED
    BY <1>10, <1>11, <1>12, <1>13, <1>14 DEF OrbInv

(* A new day: nothing of it has been seen, and yesterday's state is not    *)
(* its state.                                                              *)
LEMMA NextDayPreserves == OrbInv /\ NextDay => OrbInv'
  <1> SUFFICES ASSUME OrbInv, NextDay PROVE OrbInv'
    OBVIOUS
  <1>1. /\ st' = st /\ fired' = fired /\ restarts' = restarts
        /\ clock' = [day |-> clock.day + 1, minute |-> NoMinute]
        /\ dayRange' = [high |-> NoHigh, low |-> NoLow]
        /\ clock.day < LastDay /\ clock.day \in Days /\ LastDay \in Nat
    BY OrbAssumption DEF NextDay, OrbInv, OrbTypeOK
  <1>2. clock.day + 1 \in Days /\ clock.day \in Int
    BY <1>1 DEF Days
  <1>3. OrbTypeOK'
    BY <1>1, <1>2 DEF OrbInv, OrbTypeOK
  <1>4. st.day \in Int /\ st.day < clock.day + 1
    BY <1>2 DEF OrbInv, OrbTypeOK, DayIsConsistent, Days
  <1>5. DayIsConsistent' /\ WindowIsSeen'
    BY <1>1, <1>2, <1>4 DEF DayIsConsistent, WindowIsSeen
  <1>6. FiredIsFinal'
    <2>1. \A i \in 1 .. Len(fired) : fired[i].day \in Int /\ fired[i].day <= clock.day
      <3>1. fired \in Seq([day : Days, minute : Minutes, side : {"CE", "PE"}])
        BY DEF OrbInv, OrbTypeOK
      <3>2. \A i \in 1 .. Len(fired) : fired[i].day \in Days
        <4> DEFINE SignalType == [day : Days, minute : Minutes, side : {"CE", "PE"}]
        <4>1. \A x \in SignalType : x.day \in Days
          OBVIOUS
        <4>2. fired \in Seq(SignalType)
          BY <3>1
        <4> HIDE DEF SignalType
        <4>3. \A i \in 1 .. Len(fired) : fired[i] \in SignalType
          BY <4>2
        <4>4. QED
          BY <4>1, <4>3
      <3>3. QED
        BY <3>2 DEF OrbInv, FiredIsFinal, Days
    <2>2. QED
      BY <2>1, <1>1, <1>2 DEF FiredIsFinal
  <1>7. SignalsInWindow' /\ OneSignalPerDay'
    BY <1>1 DEF OrbInv, SignalsInWindow, OneSignalPerDay
  <1>8. QED
    BY <1>3, <1>5, <1>6, <1>7 DEF OrbInv

(* A restart forgets the state of the day and nothing else.                *)
LEMMA OrbRestartPreserves == OrbInv /\ OrbRestart => OrbInv'
  <1> SUFFICES ASSUME OrbInv, OrbRestart PROVE OrbInv'
    OBVIOUS
  <1>1. /\ st' = Fresh(-1) /\ fired' = fired /\ clock' = clock /\ dayRange' = dayRange
        /\ restarts' = restarts + 1 /\ restarts < MaxRestarts
        /\ clock.day \in Int /\ clock.day >= 0
        /\ Fresh(-1).day = -1 /\ Fresh(-1) \in DayStates
    BY DEF OrbRestart, OrbInv, OrbTypeOK, Fresh, Days, DayStates
  <1>2. restarts + 1 \in 0 .. MaxRestarts
    BY <1>1, OrbAssumption DEF OrbInv, OrbTypeOK
  <1>3. OrbTypeOK'
    BY <1>1, <1>2 DEF OrbInv, OrbTypeOK, DayStates
  <1>4. DayIsConsistent' /\ WindowIsSeen' /\ FiredIsFinal'
    BY <1>1 DEF OrbInv, DayIsConsistent, WindowIsSeen, FiredIsFinal
  <1>5. SignalsInWindow' /\ OneSignalPerDay'
    BY <1>1 DEF OrbInv, SignalsInWindow, OneSignalPerDay
  <1>6. QED
    BY <1>3, <1>4, <1>5 DEF OrbInv

(* So every step preserves it.                                             *)
LEMMA OrbStepPreserves == OrbInv /\ [OrbNext]_orbVars => OrbInv'
  <1> SUFFICES ASSUME OrbInv, [OrbNext]_orbVars PROVE OrbInv'
    OBVIOUS
  <1>1. ASSUME NEW b \in Bars, NEW minute \in Minutes, OnBar(b, minute) PROVE OrbInv'
    BY <1>1, ClosedBarPreserves, OpenBarPreserves
  <1>2. CASE NextDay
    BY <1>2, NextDayPreserves
  <1>3. CASE OrbRestart
    BY <1>3, OrbRestartPreserves
  <1>4. CASE UNCHANGED orbVars
    BY <1>4 DEF orbVars, OrbInv, OrbTypeOK, DayIsConsistent, WindowIsSeen, FiredIsFinal,
                SignalsInWindow, OneSignalPerDay
  <1>5. QED
    BY <1>1, <1>2, <1>3, <1>4 DEF OrbNext
-----------------------------------------------------------------------------
(* The inductive invariant of the strategy.                                *)
THEOREM OrbInvariant == OrbSpec => []OrbInv
  <1>1. OrbInit => OrbInv
    BY InitEstablishes
  <1>2. OrbInv /\ [OrbNext]_orbVars => OrbInv'
    BY OrbStepPreserves
  <1>3. QED
    BY <1>1, <1>2, PTL DEF OrbSpec

(* Every value the strategy computes is of its type.                       *)
THEOREM OrbTyped == OrbSpec => []OrbTypeOK
  <1>1. OrbInv => OrbTypeOK
    BY DEF OrbInv
  <1>2. QED
    BY <1>1, OrbInvariant, PTL

(* Whatever is lost, and however often the process restarts, a day has at  *)
(* most one signal (orb_breakout.py: "No re-arm").                         *)
THEOREM OrbFiresOnce == OrbSpec => []OneSignalPerDay
  <1>1. OrbInv => OneSignalPerDay
    BY DEF OrbInv
  <1>2. QED
    BY <1>1, OrbInvariant, PTL

(* Signals come in the entry window of a trading day.                      *)
THEOREM OrbFiresInWindow == OrbSpec => []SignalsInWindow
  <1>1. OrbInv => SignalsInWindow
    BY DEF OrbInv
  <1>2. QED
    BY <1>1, OrbInvariant, PTL

(* The range that is traded holds every bar handled in the window.         *)
THEOREM OrbRangeIsWhole == OrbSpec => []ArmedRangeIsWhole
  <1>1. OrbInv => ArmedRangeIsWhole
    BY DEF OrbInv, DayIsConsistent, WindowIsSeen, ArmedRangeIsWhole, Covers
  <1>2. QED
    BY <1>1, OrbInvariant, PTL
-----------------------------------------------------------------------------
(* The regime strategy.                                                    *)

(* What a calculator and the detector hold for a resolution.               *)
Calculators == [todo : SUBSET Names,
                bar : [values : Snapshot, ts : 0 .. MaxBars, life : Nat]]

(* What a detector holds: its snapshot and its last two labels.            *)
Detectors == [snap : Snapshot, last : Labels \cup {NoLabel}, sent : Labels \cup {NoLabel}]

(* The message at i is about the indicator n of r.                         *)
About(i, r, n) == toDet.log[i].res = r /\ toDet.log[i].name = n

(* What the detector will know of an indicator when it has read all there  *)
(* is: the last message about it that it has not read, or else what it     *)
(* knows already.                                                          *)
WillKnow(r, n, value) ==
    \/ /\ \A i \in 1 .. Len(toDet.log) : i > toDet.at => ~About(i, r, n)
       /\ det[r].snap[n] = value
    \/ \E i \in 1 .. Len(toDet.log) :
          /\ i > toDet.at /\ About(i, r, n) /\ toDet.log[i].value = value
          /\ \A j \in 1 .. Len(toDet.log) : j > i => ~About(j, r, n)

(* The bars and the messages made of them.                                 *)
BarsAreReal ==
    \A r \in Resolutions :
        /\ calc[r].bar.ts # 0 => calc[r].bar.values \in BarValues
        /\ calc[r].todo # {} => calc[r].bar.ts # 0
        /\ \A n \in calc[r].todo : calc[r].bar.values[n] # None
        /\ calc[r].bar.life <= life

(* A label is that of the snapshot, and was sent unless it is in hand.     *)
LabelsFollow ==
    \A r \in Resolutions :
        /\ det[r].last = Classify(det[r].snap) \/ det[r] = NewDetector[r]
        /\ det[r].sent = det[r].last \/ (detTask = "publish" /\ Current(toDet).res = r)

(* A label in hand is one of the message being handled.                    *)
LabelInHand ==
    detTask = "publish" =>
        toDet.at \in 1 .. Len(toDet.log) /\ det[Current(toDet).res].last \in Labels

(* What of a bar has been published reaches the detector.                  *)
BarsArrive ==
    \A r \in Resolutions :
        calc[r].bar.ts # 0 /\ calc[r].bar.life = life =>
            \A n \in Names \ calc[r].todo :
                calc[r].bar.values[n] # None => WillKnow(r, n, calc[r].bar.values[n])

(* Everything from the bars to the labels.                                 *)
DetectorInv ==
    /\ feed \in Feeds /\ now \in 0 .. MaxBars
    /\ calc \in [Resolutions -> Calculators]
    /\ toDet \in Stream(Indicator) /\ WellFormed(toDet)
    /\ det \in [Resolutions -> Detectors]
    /\ detTask \in {"idle", "publish", "dead"}
    /\ LabelInHand
    /\ life \in Nat /\ failures \in 0 .. MaxFailures /\ broken \in BOOLEAN
    /\ BarsAreReal
    /\ ~broken => LabelsFollow /\ BarsArrive

(* The signal in hand is the one the cooldown runs for.                    *)
HandIsLast ==
    stratTask.hand # <<>> =>
        /\ Len(stratTask.hand) = 1
        /\ stratTask.hand[1].ts = strat.lastSignal /\ stratTask.hand[1].life = life

(* The cooldown runs for the last signal of this life at least, and a      *)
(* signal in hand respects it.                                             *)
CooldownRuns ==
    \A i \in 1 .. Len(signals) :
        /\ signals[i].life <= life
        /\ signals[i].life = life =>
              /\ signals[i].ts <= strat.lastSignal
              /\ stratTask.hand # <<>> => stratTask.hand[1].ts - signals[i].ts >= Cooldown

(* Everything from the labels to the signals.                              *)
StrategyInv ==
    /\ toStrat \in Stream(Indicator) /\ WellFormed(toStrat)
    /\ regimes \in Stream(Regime) /\ WellFormed(regimes)
    /\ strat \in [ema : [Resolutions -> EmaValues], lastSignal : 0 .. MaxBars]
    /\ stratTask \in [hand : Seq(Signal), dead : SUBSET {"ind", "regime"}]
    /\ signals \in Seq(Signal)
    /\ HandIsLast /\ CooldownRuns /\ CooldownHolds /\ CooldownIsForASignal

(* The invariant of the indicators, the detector and the strategy.         *)
RegimeInv == DetectorInv /\ StrategyInv
-----------------------------------------------------------------------------
(* The values of a bar are levels, or missing.                             *)
LEMMA BarLemma ==
  ASSUME NEW v \in BarValues
  PROVE  /\ v \in Snapshot
         /\ \A n \in EmaNames : v[n] # None
         /\ \A n \in Names : v[n] # None => v[n] \in Levels
<1>1. v \in [Names -> Nat]
  BY RegimeAssumption DEF Names, EmaNames
<1>2. ASSUME NEW n \in Names, v[n] # None PROVE v[n] \in Levels
  BY <1>1, <1>2 DEF Levels
<1>3. v \in Snapshot
  BY <1>1, <1>2 DEF Snapshot
<1>4. \A n \in EmaNames : v[n] # None
  BY RegimeAssumption DEF EmaNames, None
<1>. QED
  BY <1>2, <1>3, <1>4

(* A feed has no more bars than the bound.                                 *)
LEMMA FeedLemma ==
  ASSUME NEW f \in Feeds
  PROVE  Len(f) \in 0 .. MaxBars
<1>1. PICK n \in 0 .. MaxBars : f \in [1 .. n -> Resolutions]
  BY RegimeAssumption
<1>2. n \in Nat
  BY RegimeAssumption
<1>3. Len(f) = n
  BY <1>1, <1>2
<1>. QED
  BY <1>1, <1>3

(* Every snapshot is classified.                                           *)
LEMMA ClassifyType == ASSUME NEW snap PROVE Classify(snap) \in Labels
  BY DEF Classify, Labels

(* How a snapshot is updated.                                              *)
LEMMA SnapLemma ==
  ASSUME NEW snap \in Snapshot, NEW n \in Names, NEW value \in Levels
  PROVE  /\ [snap EXCEPT ![n] = value] \in Snapshot
         /\ [snap EXCEPT ![n] = value][n] = value
         /\ \A o \in Names : o # n => [snap EXCEPT ![n] = value][o] = snap[o]
  BY DEF Snapshot
-----------------------------------------------------------------------------
(* A new bar: nothing of it is published yet.                              *)
LEMMA NextBarStep ==
  ASSUME DetectorInv, NEW r \in Resolutions, NEW v \in BarValues, NextBar(r, v)
  PROVE  DetectorInv'
<1>. USE DEF DetectorInv
<1>1. /\ UNCHANGED <<feed, toDet, det, detTask, life, failures, broken>>
      /\ now' = now + 1 /\ now < Len(feed) /\ now \in Nat /\ life \in Nat
  BY RegimeAssumption DEF NextBar, NoFail
<1>2. now + 1 \in 0 .. MaxBars /\ now + 1 # 0
  <2>1. PICK n \in 0 .. MaxBars : n = Len(feed)
    BY FeedLemma
  <2>. QED
    BY <1>1, <2>1, RegimeAssumption
<1>3. PICK t \in 0 .. MaxBars : t = now + 1 /\ t # 0
  BY <1>2
<1>4. PICK c \in Calculators :
        c = [todo |-> {n \in Names : v[n] # None}, bar |-> [values |-> v, ts |-> t, life |-> life]]
  BY <1>1, BarLemma DEF Calculators
<1>5. c.todo = {n \in Names : v[n] # None} /\ c.bar.ts = t /\ c.bar.values = v /\ c.bar.life = life
  BY <1>4
<1>6. calc' = [calc EXCEPT ![r] = c]
  BY <1>3, <1>4 DEF NextBar, Computed
<1>7. /\ calc' \in [Resolutions -> Calculators] /\ calc'[r] = c
      /\ \A o \in Resolutions : o # r => calc'[o] = calc[o]
  BY <1>6
<1>8. BarsAreReal'
  BY <1>1, <1>3, <1>5, <1>7 DEF BarsAreReal
<1>9. LabelsFollow => LabelsFollow'
  BY <1>1 DEF LabelsFollow
<1>10. \A o \in Resolutions : \A n, x : WillKnow(o, n, x)' = WillKnow(o, n, x)
  BY <1>1 DEF WillKnow, About
<1>11. BarsArrive => BarsArrive'
  BY <1>1, <1>5, <1>7, <1>10 DEF BarsArrive
<1>12. LabelInHand'
  BY <1>1 DEF LabelInHand, Current
<1>. QED
  BY <1>1, <1>2, <1>7, <1>8, <1>9, <1>11, <1>12

(* A published value is the last one about its indicator.                  *)
LEMMA PublishIndicatorStep ==
  ASSUME DetectorInv, NEW r \in Resolutions, PublishIndicator(r)
  PROVE  DetectorInv'
<1>. USE DEF DetectorInv
<1>1. /\ UNCHANGED <<feed, det, detTask, now, life, failures, broken>>
      /\ calc[r].todo # {} /\ calc[r] \in Calculators
  BY DEF PublishIndicator, NoFail
<1>2. PICK n \in Names : n = Following(calc[r].todo)
  BY DEF Following, Names, EmaNames
<1>3. n \in calc[r].todo /\ calc[r].todo \ {n} \in SUBSET Names
  BY <1>1, <1>2 DEF Following, Names, EmaNames, Calculators
<1>4. calc[r].bar.ts # 0 /\ calc[r].bar.values \in BarValues /\ calc[r].bar.ts \in 0 .. MaxBars
  BY <1>1 DEF BarsAreReal, Calculators
<1>5. PICK m :
         m = [res |-> r, name |-> n, value |-> calc[r].bar.values[n], ts |-> calc[r].bar.ts]
  OBVIOUS
<1>6. m \in Indicator /\ m.res = r /\ m.name = n /\ m.value = calc[r].bar.values[n]
  <2>1. calc[r].bar.values[n] \in Levels
    BY <1>2, <1>3, <1>4, BarLemma DEF BarsAreReal
  <2>2. calc[r].bar.ts \in Times
    BY <1>4, RegimeAssumption DEF Times
  <2>. QED
    BY <1>5, <2>1, <2>2 DEF Indicator
<1>7. toDet' = Publish(toDet, m) /\ calc' = [calc EXCEPT ![r].todo = calc[r].todo \ {n}]
  BY <1>2, <1>5 DEF PublishIndicator
<1>8. /\ toDet' \in Stream(Indicator) /\ WellFormed(toDet)'
      /\ toDet'.log = Append(toDet.log, m) /\ toDet'.at = toDet.at
  BY <1>6, <1>7, PublishLemma
<1>9. /\ toDet.log \in Seq(Indicator) /\ Len(toDet.log) \in Nat /\ toDet.at \in Nat
      /\ toDet.at <= Len(toDet.log)
  BY DEF Stream, WellFormed
<1>10. /\ Len(toDet'.log) = Len(toDet.log) + 1 /\ toDet'.log[Len(toDet.log) + 1] = m
      /\ \A i \in 1 .. Len(toDet.log) : toDet'.log[i] = toDet.log[i]
  BY <1>6, <1>8, <1>9
<1>11. /\ calc' \in [Resolutions -> Calculators]
       /\ calc'[r].todo = calc[r].todo \ {n} /\ calc'[r].bar = calc[r].bar
       /\ \A o \in Resolutions : o # r => calc'[o] = calc[o]
  BY <1>3, <1>7 DEF Calculators
<1>12. BarsAreReal'
  BY <1>1, <1>4, <1>11 DEF BarsAreReal
<1>13. LabelsFollow => LabelsFollow'
  BY <1>1, <1>8, <1>10 DEF LabelsFollow, LabelInHand, Current
<1>14. PICK k : k = Len(toDet.log) + 1
  OBVIOUS
<1>15. /\ k \in 1 .. Len(toDet'.log) /\ k > toDet'.at /\ toDet'.log[k] = m
       /\ \A i \in 1 .. Len(toDet'.log) : i \in 1 .. Len(toDet.log) \/ i = k
       /\ \A i \in 1 .. Len(toDet'.log) : ~(i > k)
       /\ 1 .. Len(toDet.log) \subseteq 1 .. Len(toDet'.log)
  BY <1>8, <1>9, <1>10, <1>14
<1>16. WillKnow(r, n, m.value)'
  BY <1>6, <1>15 DEF WillKnow, About
<1>17. ASSUME NEW o \in Resolutions, NEW a \in Names, o # r \/ a # n, NEW x, WillKnow(o, a, x)
       PROVE  WillKnow(o, a, x)'
  <2>1. ~About(k, o, a)'
    BY <1>6, <1>15, <1>17 DEF About
  <2>2. \A i \in 1 .. Len(toDet.log) : About(i, o, a)' <=> About(i, o, a)
    BY <1>10 DEF About
  <2>3. CASE /\ \A i \in 1 .. Len(toDet.log) : i > toDet.at => ~About(i, o, a)
             /\ det[o].snap[a] = x
    <3>1. \A i \in 1 .. Len(toDet'.log) : i > toDet'.at => ~About(i, o, a)'
      BY <1>8, <1>15, <2>1, <2>2, <2>3
    <3>. QED
      BY <1>1, <2>3, <3>1 DEF WillKnow
  <2>4. ASSUME NEW i \in 1 .. Len(toDet.log), i > toDet.at, About(i, o, a), toDet.log[i].value = x,
               \A j \in 1 .. Len(toDet.log) : j > i => ~About(j, o, a)
        PROVE  WillKnow(o, a, x)'
    <3>1. i \in 1 .. Len(toDet'.log) /\ i > toDet'.at /\ About(i, o, a)' /\ toDet'.log[i].value = x
      BY <1>8, <1>10, <1>15, <2>2, <2>4
    <3>2. \A j \in 1 .. Len(toDet'.log) : j > i => ~About(j, o, a)'
      BY <1>15, <2>1, <2>2, <2>4
    <3>. QED
      BY <3>1, <3>2 DEF WillKnow
  <2>. QED
    BY <1>17, <2>3, <2>4 DEF WillKnow
<1>18. BarsArrive => BarsArrive'
  <2>. SUFFICES ASSUME BarsArrive, NEW o \in Resolutions, (calc[o].bar.ts # 0)',
                       (calc[o].bar.life = life)', NEW a \in Names, (a \notin calc[o].todo)',
                       (calc[o].bar.values[a] # None)'
                PROVE  WillKnow(o, a, calc[o].bar.values[a])'
    BY DEF BarsArrive
  <2>1. PICK x : x = calc'[o].bar.values[a]
    OBVIOUS
  <2>2. CASE o = r /\ a = n
    <3>1. x = m.value
      BY <1>6, <1>11, <2>1, <2>2
    <3>2. WillKnow(o, a, x)'
      BY <1>16, <2>2, <3>1
    <3>. QED
      BY <2>1, <3>2
  <2>3. CASE o # r \/ a # n
    <3>1. a \in Names \ calc[o].todo /\ calc'[o].bar = calc[o].bar
      BY <1>11, <2>3
    <3>2. WillKnow(o, a, x)
      BY <1>1, <2>1, <3>1 DEF BarsArrive
    <3>3. WillKnow(o, a, x)'
      BY <1>17, <2>3, <3>2
    <3>. QED
      BY <2>1, <3>3
  <2>. QED
    BY <2>2, <2>3
<1>19. LabelInHand'
  BY <1>1, <1>8, <1>9, <1>10 DEF LabelInHand, Current
<1>. QED
  BY <1>1, <1>8, <1>11, <1>12, <1>13, <1>18, <1>19

(* A failed publication: nothing is promised of this life any more.        *)
LEMMA IndicatorFailsStep ==
  ASSUME DetectorInv, NEW r \in Resolutions, IndicatorFails(r)
  PROVE  DetectorInv'
<1>. USE DEF DetectorInv
<1>1. /\ UNCHANGED <<feed, toDet, det, detTask, now, life>>
      /\ failures' = failures + 1 /\ failures < MaxFailures /\ broken' = TRUE
      /\ calc' = [calc EXCEPT ![r].todo = {}]
  BY DEF IndicatorFails, Fail
<1>2. /\ calc' \in [Resolutions -> Calculators]
      /\ \A o \in Resolutions : calc'[o].bar = calc[o].bar /\ calc'[o].todo \in {calc[o].todo, {}}
  BY <1>1 DEF Calculators
<1>3. failures' \in 0 .. MaxFailures
  BY <1>1, RegimeAssumption
<1>4. BarsAreReal'
  BY <1>1, <1>2 DEF BarsAreReal
<1>5. LabelInHand'
  BY <1>1 DEF LabelInHand, Current
<1>. QED
  BY <1>1, <1>2, <1>3, <1>4, <1>5

(* Reading a message brings the snapshot up to date with it.               *)
LEMMA DetectStep ==
  ASSUME DetectorInv, Detect
  PROVE  DetectorInv'
<1>. USE DEF DetectorInv
<1>1. /\ UNCHANGED <<feed, calc, now, life, failures, broken>>
      /\ detTask = "idle" /\ HasNext(toDet)
  BY DEF Detect, NoFail
<1>2. PICK taken : taken = Take(toDet, ReadCount)
  OBVIOUS
<1>3. /\ taken \in Stream(Indicator) /\ WellFormed(taken) /\ taken.log = toDet.log
      /\ taken.at = toDet.at + 1 /\ toDet.at + 1 \in 1 .. Len(toDet.log)
  BY <1>1, <1>2, TakeLemma, RegimeAssumption
<1>4. PICK k \in 1 .. Len(toDet.log) : k = toDet.at + 1 /\ k > toDet.at /\ taken.at = k
  BY <1>3 DEF Stream
<1>5. PICK m : m = toDet.log[k]
  OBVIOUS
<1>6. m \in Indicator /\ m.res \in Resolutions /\ m.name \in Names /\ m.value \in Levels
  <2>1. toDet.log \in Seq(Indicator)
    BY DEF Stream
  <2>2. m \in Indicator
    BY <1>4, <1>5, <2>1
  <2>. QED
    BY <2>2 DEF Indicator
<1>7. m = Current(taken)
  BY <1>3, <1>4, <1>5 DEF Current
<1>8. PICK r \in Resolutions, n \in Names, v \in Levels : r = m.res /\ n = m.name /\ v = m.value
  BY <1>6
<1>9. det[r] \in Detectors /\ det[r].snap \in Snapshot
  BY DEF Detectors
<1>10. PICK snap : snap = [det[r].snap EXCEPT ![n] = v]
  OBVIOUS
<1>11. /\ snap \in Snapshot /\ snap[n] = v
       /\ \A a \in Names : a # n => snap[a] = det[r].snap[a]
  BY <1>9, <1>10, SnapLemma
<1>12. PICK label \in Labels : label = Classify(snap)
  BY ClassifyType
<1>13. PICK d : d = [det[r] EXCEPT !.snap = snap, !.last = label]
  OBVIOUS
<1>14. d \in Detectors /\ d.snap = snap /\ d.last = label /\ d.sent = det[r].sent
  BY <1>9, <1>11, <1>13 DEF Detectors
<1>15. /\ det' = [det EXCEPT ![r] = d]
       /\ \/ label # det[r].last /\ detTask' = "publish" /\ toDet' = taken
          \/ label = det[r].last /\ detTask' = "idle" /\ toDet' = Ack(taken)
  BY <1>2, <1>7, <1>8, <1>10, <1>12, <1>13 DEF Detect
<1>16. /\ det' \in [Resolutions -> Detectors] /\ det'[r] = d
       /\ \A o \in Resolutions : o # r => det'[o] = det[o]
  BY <1>14, <1>15
<1>17. /\ toDet' \in Stream(Indicator) /\ WellFormed(toDet)'
       /\ toDet'.log = toDet.log /\ toDet'.at = k
  BY <1>3, <1>4, <1>15, AckLemma
<1>18. Current(toDet)'.res = r /\ toDet'.at \in 1 .. Len(toDet'.log)
  BY <1>4, <1>5, <1>8, <1>17 DEF Current
<1>19. LabelInHand'
  BY <1>12, <1>14, <1>16, <1>18 DEF LabelInHand
<1>20. BarsAreReal'
  BY <1>1 DEF BarsAreReal
<1>21. LabelsFollow => LabelsFollow'
  <2>. SUFFICES ASSUME LabelsFollow, NEW o \in Resolutions
                PROVE  /\ det'[o].last = Classify(det'[o].snap) \/ det'[o] = NewDetector[o]
                       /\ \/ det'[o].sent = det'[o].last
                          \/ detTask' = "publish" /\ Current(toDet)'.res = o
    BY DEF LabelsFollow, NewDetector
  <2>1. CASE o = r
    <3>1. detTask' = "publish" \/ det[r].last = label
      BY <1>15
    <3>2. det[r].sent = det[r].last
      BY <1>1 DEF LabelsFollow
    <3>. QED
      BY <1>12, <1>14, <1>16, <1>18, <2>1, <3>1, <3>2
  <2>2. CASE o # r
    BY <1>1, <1>16, <2>2 DEF LabelsFollow
  <2>. QED
    BY <2>1, <2>2
<1>22. ASSUME NEW o \in Resolutions, NEW a \in Names, NEW x, WillKnow(o, a, x)
       PROVE  WillKnow(o, a, x)'
  <2>1. About(k, o, a) <=> o = r /\ a = n
    BY <1>5, <1>8 DEF About
  <2>2. \A i \in 1 .. Len(toDet.log) : About(i, o, a)' <=> About(i, o, a)
    BY <1>17 DEF About
  <2>3. /\ Len(toDet.log) \in Nat /\ toDet.at \in Nat
        /\ \A i \in 1 .. Len(toDet.log) : i > k => i > toDet.at
        /\ \A i \in 1 .. Len(toDet.log) : i > toDet.at => i = k \/ i > k
    BY <1>4 DEF Stream
  <2>4. CASE /\ \A i \in 1 .. Len(toDet.log) : i > toDet.at => ~About(i, o, a)
             /\ det[o].snap[a] = x
    <3>1. o # r \/ a # n
      BY <1>4, <2>1, <2>4
    <3>2. det'[o].snap[a] = x
      BY <1>11, <1>14, <1>16, <2>4, <3>1
    <3>3. \A i \in 1 .. Len(toDet'.log) : i > toDet'.at => ~About(i, o, a)'
      BY <1>17, <2>2, <2>3, <2>4
    <3>. QED
      BY <3>2, <3>3 DEF WillKnow
  <2>5. ASSUME NEW i \in 1 .. Len(toDet.log), i > toDet.at, About(i, o, a), toDet.log[i].value = x,
               \A j \in 1 .. Len(toDet.log) : j > i => ~About(j, o, a)
        PROVE  WillKnow(o, a, x)'
    <3>1. CASE i = k
      <4>1. o = r /\ a = n /\ x = v
        BY <1>5, <1>8, <2>1, <2>5, <3>1
      <4>2. det'[o].snap[a] = x
        BY <1>11, <1>14, <1>16, <4>1
      <4>3. \A j \in 1 .. Len(toDet'.log) : j > toDet'.at => ~About(j, o, a)'
        BY <1>17, <2>2, <2>5, <3>1
      <4>. QED
        BY <4>2, <4>3 DEF WillKnow
    <3>2. CASE i > k
      <4>1. i \in 1 .. Len(toDet'.log) /\ i > toDet'.at /\ About(i, o, a)' /\ toDet'.log[i].value = x
        BY <1>17, <2>2, <2>5, <3>2
      <4>2. \A j \in 1 .. Len(toDet'.log) : j > i => ~About(j, o, a)'
        BY <1>17, <2>2, <2>5
      <4>. QED
        BY <4>1, <4>2 DEF WillKnow
    <3>. QED
      BY <2>3, <2>5, <3>1, <3>2
  <2>. QED
    BY <1>22, <2>4, <2>5 DEF WillKnow
<1>23. BarsArrive => BarsArrive'
  <2>. SUFFICES ASSUME BarsArrive, NEW o \in Resolutions, (calc[o].bar.ts # 0)',
                       (calc[o].bar.life = life)', NEW a \in Names, (a \notin calc[o].todo)',
                       (calc[o].bar.values[a] # None)'
                PROVE  WillKnow(o, a, calc[o].bar.values[a])'
    BY DEF BarsArrive
  <2>1. PICK x : x = calc[o].bar.values[a]
    OBVIOUS
  <2>2. WillKnow(o, a, x)
    BY <1>1, <2>1 DEF BarsArrive
  <2>3. WillKnow(o, a, x)'
    BY <1>22, <2>2
  <2>. QED
    BY <1>1, <2>1, <2>3
<1>. QED
  BY <1>1, <1>15, <1>16, <1>17, <1>20, <1>21, <1>23, <1>19

(* The label is published and the message acknowledged.                    *)
LEMMA DetectPublishStep ==
  ASSUME DetectorInv, DetectPublish
  PROVE  DetectorInv'
<1>. USE DEF DetectorInv
<1>1. /\ UNCHANGED <<feed, calc, now, life, failures, broken>>
      /\ detTask = "publish" /\ detTask' = "idle" /\ toDet' = Ack(toDet)
  BY DEF DetectPublish, NoFail
<1>2. /\ toDet' \in Stream(Indicator) /\ WellFormed(toDet)'
      /\ toDet'.log = toDet.log /\ toDet'.at = toDet.at
  BY <1>1, AckLemma
<1>3. LabelInHand'
  BY <1>1 DEF LabelInHand
<1>4. PICK r \in Resolutions : r = Current(toDet).res
  <2>1. toDet.log \in Seq(Indicator)
    BY DEF Stream
  <2>2. Current(toDet) \in Indicator
    BY <1>1, <2>1 DEF Current, LabelInHand
  <2>. QED
    BY <2>2 DEF Indicator
<1>5. det' = [det EXCEPT ![r].sent = det[r].last]
  BY <1>4 DEF DetectPublish
<1>6. /\ det' \in [Resolutions -> Detectors] /\ det'[r].sent = det[r].last
      /\ \A o \in Resolutions : det'[o].snap = det[o].snap /\ det'[o].last = det[o].last
      /\ \A o \in Resolutions : o # r => det'[o] = det[o]
  BY <1>5 DEF Detectors
<1>7. BarsAreReal'
  BY <1>1 DEF BarsAreReal
<1>8. LabelsFollow => LabelsFollow'
  <2>. SUFFICES ASSUME LabelsFollow, NEW o \in Resolutions
                PROVE  /\ det'[o].last = Classify(det'[o].snap) \/ det'[o] = NewDetector[o]
                       /\ det'[o].sent = det'[o].last
    BY <1>1 DEF LabelsFollow, NewDetector
  <2>1. CASE o = r
    <3>1. CASE det[o].last = Classify(det[o].snap)
      BY <1>6, <2>1, <3>1
    <3>2. CASE det[o] = NewDetector[o]
      <4>1. det[o].sent = det[o].last
        BY <3>2 DEF NewDetector
      <4>2. det'[o] = [det[o] EXCEPT !.sent = det[o].last] /\ det[o] \in Detectors
        BY <1>5, <2>1
      <4>3. det'[o] = det[o]
        BY <4>1, <4>2 DEF Detectors
      <4>. QED
        BY <3>2, <4>1, <4>3
    <3>. QED
      BY <3>1, <3>2 DEF LabelsFollow
  <2>2. CASE o # r
    BY <1>4, <1>6, <2>2 DEF LabelsFollow
  <2>. QED
    BY <2>1, <2>2
<1>9. \A o \in Resolutions : \A a, x : WillKnow(o, a, x) => WillKnow(o, a, x)'
  BY <1>2, <1>6 DEF WillKnow, About
<1>10. BarsArrive => BarsArrive'
  BY <1>1, <1>9 DEF BarsArrive
<1>. QED
  BY <1>1, <1>2, <1>6, <1>7, <1>8, <1>10, <1>3

(* The failures of the detector's task.                                    *)
LEMMA DetectorFaultSteps ==
  ASSUME DetectorInv, DetectFails \/ DetectDies
  PROVE  DetectorInv'
<1>. USE DEF DetectorInv
<1>1. /\ UNCHANGED <<feed, calc, det, now, life>> /\ detTask' \in {"idle", "dead"}
      /\ failures' = failures + 1 /\ failures < MaxFailures /\ broken' = TRUE
      /\ toDet' \in {toDet, Ack(toDet)}
  BY DEF DetectFails, DetectDies, Fail
<1>2. toDet' \in Stream(Indicator) /\ WellFormed(toDet)'
  BY <1>1, AckLemma
<1>3. failures' \in 0 .. MaxFailures
  BY <1>1, RegimeAssumption
<1>4. BarsAreReal'
  BY <1>1 DEF BarsAreReal
<1>5. LabelInHand'
  BY <1>1 DEF LabelInHand
<1>. QED
  BY <1>1, <1>2, <1>3, <1>4, <1>5

(* The steps of the strategy and of its consumers.                         *)
LEMMA DetectorStays ==
  ASSUME DetectorInv, UNCHANGED <<feed, calc, toDet, det, detTask, now, life>>, NoFail \/ Fail
  PROVE  DetectorInv'
<1>. USE DEF DetectorInv
<1>1. failures' \in 0 .. MaxFailures /\ broken' \in BOOLEAN /\ (~broken' => ~broken)
  <2>1. CASE NoFail
    BY <2>1 DEF NoFail
  <2>2. CASE Fail
    BY <2>2, RegimeAssumption DEF Fail
  <2>. QED
    BY <2>1, <2>2
<1>2. BarsAreReal'
  BY DEF BarsAreReal
<1>3. LabelsFollow => LabelsFollow'
  BY DEF LabelsFollow, Current
<1>4. \A o, a, x : WillKnow(o, a, x) => WillKnow(o, a, x)'
  BY DEF WillKnow, About
<1>5. BarsArrive => BarsArrive'
  BY <1>4 DEF BarsArrive
<1>6. LabelInHand'
  BY DEF LabelInHand, Current
<1>. QED
  BY <1>1, <1>2, <1>3, <1>5, <1>6

(* A restart: what the detector knew is gone, and no bar is of this life.  *)
LEMMA DetectorRestarts ==
  ASSUME DetectorInv, Restart
  PROVE  DetectorInv'
<1>. USE DEF DetectorInv
<1>1. /\ UNCHANGED <<feed, now>> /\ life' = life + 1 /\ life \in Nat /\ broken' = FALSE
      /\ failures' = failures + 1 /\ failures < MaxFailures
      /\ calc' = [r \in Resolutions |-> [calc[r] EXCEPT !.todo = {}]]
      /\ det' = NewDetector /\ detTask' = "idle" /\ toDet' = Forget(toDet)
  BY DEF Restart
<1>2. failures' \in 0 .. MaxFailures
  BY <1>1, RegimeAssumption
<1>3. toDet' \in Stream(Indicator) /\ WellFormed(toDet)'
  BY <1>1, ForgetLemma
<1>4. ASSUME NEW r \in Resolutions
      PROVE  calc'[r] \in Calculators /\ calc'[r].todo = {} /\ calc'[r].bar = calc[r].bar
  <2>1. calc'[r] = [calc[r] EXCEPT !.todo = {}] /\ calc[r] \in Calculators
    BY <1>1
  <2>. QED
    BY <2>1 DEF Calculators
<1>5. calc' \in [Resolutions -> Calculators]
  <2>1. calc' = [r \in Resolutions |-> calc'[r]]
    BY <1>1
  <2>. QED
    BY <1>4, <2>1
<1>6. det' \in [Resolutions -> Detectors] /\ \A r \in Resolutions : det'[r].sent = det'[r].last
  BY <1>1 DEF NewDetector, Detectors, NoSnap, Snapshot
<1>7. \A r \in Resolutions : calc'[r].bar.life < life' /\ calc'[r].bar.life <= life'
  <2>1. \A r \in Resolutions : calc[r].bar.life \in Nat
    BY DEF Calculators
  <2>. QED
    BY <1>1, <1>4, <2>1 DEF BarsAreReal
<1>8. BarsAreReal'
  BY <1>4, <1>7 DEF BarsAreReal
<1>9. LabelsFollow'
  BY <1>1, <1>6 DEF LabelsFollow, NewDetector
<1>10. BarsArrive'
  <2>1. \A r \in Resolutions : calc'[r].bar.life \in Nat
    BY <1>4 DEF Calculators
  <2>. QED
    BY <1>1, <1>7, <2>1 DEF BarsArrive
<1>11. feed' \in Feeds /\ now' \in 0 .. MaxBars /\ life' \in Nat /\ detTask' = "idle"
  BY <1>1
<1>12. LabelInHand'
  BY <1>11 DEF LabelInHand
<1>. QED
  BY <1>12, <1>2, <1>3, <1>5, <1>6, <1>8, <1>9, <1>10, <1>11, <1>1
-----------------------------------------------------------------------------
(* Steps that leave the strategy and its streams alone.                    *)
LEMMA StrategyStays ==
  ASSUME StrategyInv, UNCHANGED <<strat, stratTask, signals, life>>,
         toStrat' \in Stream(Indicator), WellFormed(toStrat)',
         regimes' \in Stream(Regime), WellFormed(regimes)', broken => broken'
  PROVE  StrategyInv'
<1>1. HandIsLast'
  BY DEF StrategyInv, HandIsLast
<1>2. CooldownRuns' /\ CooldownHolds'
  BY DEF StrategyInv, CooldownRuns, CooldownHolds
<1>3. CooldownIsForASignal'
  BY DEF StrategyInv, CooldownIsForASignal
<1>. QED
  BY <1>1, <1>2, <1>3 DEF StrategyInv

(* What is published to the two streams is well typed.                     *)
LEMMA StreamsStep ==
  ASSUME RegimeInv, (\E r \in Resolutions : PublishIndicator(r)) \/ DetectPublish
  PROVE  StrategyInv'
<1>. USE DEF RegimeInv
<1>1. CASE \E r \in Resolutions : PublishIndicator(r)
  <2>1. PICK r \in Resolutions : PublishIndicator(r)
    BY <1>1
  <2>2. PICK n \in Names : n = Following(calc[r].todo)
    BY DEF Following, Names, EmaNames
  <2>3. PICK m :
          m = [res |-> r, name |-> n, value |-> calc[r].bar.values[n], ts |-> calc[r].bar.ts]
    OBVIOUS
  <2>4. /\ calc[r] \in Calculators /\ calc[r].bar.ts # 0 /\ calc[r].bar.values \in BarValues
        /\ calc[r].bar.ts \in 0 .. MaxBars /\ n \in calc[r].todo
    BY <2>1, <2>2
    DEF PublishIndicator, DetectorInv, BarsAreReal, Calculators, Following, Names, EmaNames
  <2>5. calc[r].bar.values[n] \in Levels
    BY <2>2, <2>4, BarLemma DEF DetectorInv, BarsAreReal
  <2>6. calc[r].bar.ts \in Times
    BY <2>4, RegimeAssumption DEF Times
  <2>7. m \in Indicator
    BY <2>3, <2>5, <2>6 DEF Indicator
  <2>8. /\ toStrat' = Publish(toStrat, m)
        /\ UNCHANGED <<regimes, strat, stratTask, signals, life, broken>>
    BY <2>1, <2>2, <2>3 DEF PublishIndicator, NoFail
  <2>9. toStrat' \in Stream(Indicator) /\ WellFormed(toStrat)'
    BY <2>7, <2>8, PublishLemma DEF StrategyInv
  <2>. QED
    BY <2>8, <2>9, StrategyStays DEF StrategyInv
<1>2. CASE DetectPublish
  <2>1. toDet.log \in Seq(Indicator) /\ toDet.at \in 1 .. Len(toDet.log)
    BY <1>2 DEF DetectPublish, DetectorInv, Stream, LabelInHand
  <2>2. PICK m \in Indicator : m = Current(toDet)
    BY <2>1 DEF Current
  <2>3. m.res \in Resolutions /\ m.ts \in Times
    BY <2>2 DEF Indicator
  <2>4. det[m.res].last \in Labels
    BY <1>2, <2>2 DEF DetectPublish, DetectorInv, LabelInHand
  <2>5. PICK g : g = [res |-> m.res, label |-> det[m.res].last, ts |-> m.ts]
    OBVIOUS
  <2>6. g \in Regime
    BY <2>3, <2>4, <2>5 DEF Regime
  <2>7. /\ regimes' = Publish(regimes, g)
        /\ UNCHANGED <<toStrat, strat, stratTask, signals, life, broken>>
    BY <1>2, <2>2, <2>5 DEF DetectPublish, NoFail
  <2>8. regimes' \in Stream(Regime) /\ WellFormed(regimes)'
    BY <2>6, <2>7, PublishLemma DEF StrategyInv
  <2>. QED
    BY <2>7, <2>8, StrategyStays DEF StrategyInv
<1>. QED
  BY <1>1, <1>2

(* on_indicator only remembers.                                            *)
LEMMA OnIndicatorStep ==
  ASSUME StrategyInv, OnIndicator
  PROVE  StrategyInv'
<1>1. HasNext(toStrat) /\ toStrat \in Stream(Indicator) /\ WellFormed(toStrat)
      /\ UNCHANGED <<regimes, stratTask, signals, life, broken>>
  BY DEF OnIndicator, StrategyInv, NoFail
<1>2. PICK taken : taken = Take(toStrat, ReadCount)
  OBVIOUS
<1>3. /\ taken \in Stream(Indicator) /\ WellFormed(taken) /\ taken.log = toStrat.log
      /\ taken.at \in 1 .. Len(toStrat.log)
  BY <1>1, <1>2, TakeLemma, RegimeAssumption
<1>4. PICK m \in Indicator : m = Current(taken)
  <2>1. toStrat.log \in Seq(Indicator)
    BY <1>1 DEF Stream
  <2>. QED
    BY <1>3, <2>1 DEF Current
<1>5. m.res \in Resolutions /\ m.value \in Levels
  BY DEF Indicator
<1>6. /\ toStrat' = Ack(taken)
      /\ \/ strat' = strat
         \/ m.name \in EmaNames /\ strat' = [strat EXCEPT !.ema[m.res][m.name] = m.value]
  BY <1>2, <1>4 DEF OnIndicator
<1>7. toStrat' \in Stream(Indicator) /\ WellFormed(toStrat)'
  BY <1>3, <1>6, AckLemma
<1>8. /\ strat' \in [ema : [Resolutions -> EmaValues], lastSignal : 0 .. MaxBars]
      /\ strat'.lastSignal = strat.lastSignal
  <2>1. strat \in [ema : [Resolutions -> EmaValues], lastSignal : 0 .. MaxBars]
    BY DEF StrategyInv
  <2>2. CASE strat' = strat
    BY <2>1, <2>2
  <2>3. CASE m.name \in EmaNames /\ strat' = [strat EXCEPT !.ema[m.res][m.name] = m.value]
    <3>1. PICK e \in EmaValues : e = [strat.ema[m.res] EXCEPT ![m.name] = m.value]
      BY <1>5, <2>1, <2>3 DEF EmaValues
    <3>. QED
      BY <1>5, <2>1, <2>3, <3>1
  <2>. QED
    BY <1>6, <2>2, <2>3
<1>9. HandIsLast' /\ CooldownRuns' /\ CooldownHolds'
  BY <1>1, <1>8 DEF StrategyInv, HandIsLast, CooldownRuns, CooldownHolds
<1>10. CooldownIsForASignal'
  BY <1>1, <1>8 DEF StrategyInv, CooldownIsForASignal
<1>. QED
  BY <1>1, <1>7, <1>8, <1>9, <1>10 DEF StrategyInv

(* on_regime: a signal is taken in hand when the cooldown is over, and the *)
(* cooldown runs anew.                                                     *)
LEMMA OnRegimeStep ==
  ASSUME RegimeInv, NEW vetoed \in BOOLEAN, OnRegime(vetoed)
  PROVE  StrategyInv'
<1>. USE DEF RegimeInv
<1>1. HasNext(regimes) /\ regimes \in Stream(Regime) /\ WellFormed(regimes)
      /\ stratTask.hand = <<>> /\ life \in Nat
      /\ UNCHANGED <<toStrat, signals, life, broken>>
  BY DEF OnRegime, StrategyInv, DetectorInv, NoFail
<1>2. PICK taken : taken = Take(regimes, ReadCount)
  OBVIOUS
<1>3. /\ taken \in Stream(Regime) /\ WellFormed(taken) /\ taken.log = regimes.log
      /\ taken.at \in 1 .. Len(regimes.log)
  BY <1>1, <1>2, TakeLemma, RegimeAssumption
<1>4. PICK m \in Regime : m = Current(taken)
  <2>1. regimes.log \in Seq(Regime)
    BY <1>1 DEF Stream
  <2>. QED
    BY <1>3, <2>1 DEF Current
<1>5. m.ts \in 1 .. MaxBars /\ m.ts \in 0 .. MaxBars /\ m.ts \in Nat
  BY RegimeAssumption DEF Regime, Times
<1>6. CASE ~Wanted(m, vetoed)
  <2>1. regimes' = Ack(taken) /\ UNCHANGED <<strat, stratTask>>
    BY <1>2, <1>4, <1>6 DEF OnRegime
  <2>2. regimes' \in Stream(Regime) /\ WellFormed(regimes)'
    BY <1>3, <2>1, AckLemma
  <2>. QED
    BY <1>1, <2>1, <2>2, StrategyStays DEF StrategyInv
<1>7. CASE Wanted(m, vetoed)
  <2>1. PICK g : g = [side |-> Direction(m.label), ts |-> m.ts, life |-> life]
    OBVIOUS
  <2>2. g \in Signal /\ g.ts = m.ts /\ g.life = life
    <3>1. Direction(m.label) \in Sides /\ m.ts \in Times
      BY <1>5, <1>7 DEF Wanted, Direction, Sides, NoLabel, Times
    <3>. QED
      BY <1>1, <2>1, <3>1 DEF Signal
  <2>3. /\ regimes' = taken /\ strat' = [strat EXCEPT !.lastSignal = m.ts]
        /\ stratTask' = [stratTask EXCEPT !.hand = <<g>>]
    BY <1>2, <1>4, <1>7, <2>1 DEF OnRegime
  <2>4. /\ strat' \in [ema : [Resolutions -> EmaValues], lastSignal : 0 .. MaxBars]
        /\ strat'.lastSignal = m.ts
    BY <1>5, <2>3 DEF StrategyInv
  <2>5. PICK hand : hand = <<g>>
    OBVIOUS
  <2>6. hand \in Seq(Signal) /\ hand # <<>> /\ Len(hand) = 1 /\ hand[1] = g
    BY <2>2, <2>5
  <2>7. /\ stratTask' \in [hand : Seq(Signal), dead : SUBSET {"ind", "regime"}]
        /\ stratTask'.hand = hand
    BY <2>3, <2>5, <2>6 DEF StrategyInv
  <2>8. HandIsLast'
    BY <1>1, <2>2, <2>4, <2>6, <2>7 DEF HandIsLast
  <2>9. ASSUME NEW i \in 1 .. Len(signals), signals[i].life = life
        PROVE  signals[i].ts <= m.ts /\ m.ts - signals[i].ts >= Cooldown
    <3>1. signals[i].ts \in Nat /\ signals[i].ts # 0
      <4>1. signals[i] \in Signal
        BY DEF StrategyInv
      <4>. QED
        BY <4>1, RegimeAssumption DEF Signal, Times
    <3>2. signals[i].ts <= strat.lastSignal /\ strat.lastSignal \in Nat
      BY <2>9, RegimeAssumption DEF StrategyInv, CooldownRuns
    <3>3. strat.lastSignal # 0 /\ ~(m.ts - strat.lastSignal < Cooldown)
      BY <1>7, <3>1, <3>2 DEF Wanted, CoolingDown
    <3>. QED
      BY <1>5, <3>1, <3>2, <3>3, RegimeAssumption
  <2>10. CooldownRuns'
    BY <1>1, <2>2, <2>4, <2>6, <2>7, <2>9 DEF StrategyInv, CooldownRuns
  <2>11. CooldownHolds'
    BY <1>1 DEF StrategyInv, CooldownHolds
  <2>12. CooldownIsForASignal'
    BY <2>2, <2>4, <2>6, <2>7 DEF CooldownIsForASignal
  <2>. QED
    BY <1>1, <1>3, <2>3, <2>4, <2>7, <2>8, <2>10, <2>11, <2>12 DEF StrategyInv
<1>. QED
  BY <1>6, <1>7

(* The signal in hand is published: no signal of this life is too near.    *)
LEMMA EmitSignalStep ==
  ASSUME StrategyInv, EmitSignal
  PROVE  StrategyInv'
<1>. USE DEF StrategyInv
<1>1. /\ stratTask.hand # <<>> /\ signals' = signals \o stratTask.hand
      /\ stratTask' = [stratTask EXCEPT !.hand = <<>>] /\ regimes' = Ack(regimes)
      /\ UNCHANGED <<toStrat, strat, life, broken>>
  BY DEF EmitSignal, NoFail
<1>2. regimes' \in Stream(Regime) /\ WellFormed(regimes)'
  BY <1>1, AckLemma
<1>3. PICK g \in Signal : g = stratTask.hand[1]
  BY <1>1 DEF HandIsLast
<1>4. g.ts = strat.lastSignal /\ g.life = life /\ Len(stratTask.hand) = 1 /\ g.ts \in Nat
  BY <1>1, <1>3, RegimeAssumption DEF HandIsLast
<1>5. PICK k : k = Len(signals) + 1
  OBVIOUS
<1>6. /\ signals' \in Seq(Signal) /\ Len(signals') = k /\ signals'[k] = g
      /\ \A i \in 1 .. Len(signals) : signals'[i] = signals[i]
      /\ \A i \in 1 .. k : i \in 1 .. Len(signals) \/ i = k
      /\ \A i \in 1 .. Len(signals) : i < k
      /\ Len(signals) \in Nat
  <2>1. stratTask.hand \in Seq(Signal) /\ signals \in Seq(Signal)
    OBVIOUS
  <2>. QED
    BY <1>1, <1>3, <1>4, <1>5, <2>1
<1>7. /\ stratTask' \in [hand : Seq(Signal), dead : SUBSET {"ind", "regime"}]
      /\ stratTask'.hand = <<>>
  <2>1. PICK none : none = <<>>
    OBVIOUS
  <2>2. none \in Seq(Signal)
    BY <2>1
  <2>. QED
    BY <1>1, <2>1, <2>2
<1>8. HandIsLast'
  BY <1>7 DEF HandIsLast
<1>9. CooldownRuns'
  <2>1. ASSUME NEW i \in 1 .. Len(signals')
        PROVE  /\ signals'[i].life <= life
               /\ signals'[i].life = life => signals'[i].ts <= strat.lastSignal
    <3>1. CASE i \in 1 .. Len(signals)
      BY <1>6, <3>1 DEF CooldownRuns
    <3>2. CASE i = k
      <4>1. life \in Nat
        BY <1>4 DEF Signal
      <4>. QED
        BY <1>4, <1>6, <3>2, <4>1
    <3>. QED
      BY <1>6, <3>1, <3>2
  <2>. QED
    BY <1>1, <1>7, <2>1 DEF CooldownRuns
<1>10. CooldownHolds'
  <2>1. ASSUME NEW i \in 1 .. k, NEW j \in 1 .. k, i < j,
               signals'[i].life = signals'[j].life
        PROVE  signals'[j].ts - signals'[i].ts >= Cooldown
    <3>1. i \in 1 .. Len(signals)
      BY <1>5, <1>6, <2>1
    <3>2. CASE j \in 1 .. Len(signals)
      BY <1>6, <2>1, <3>1, <3>2 DEF CooldownHolds
    <3>3. CASE j = k
      BY <1>1, <1>3, <1>4, <1>6, <2>1, <3>1, <3>3 DEF CooldownRuns
    <3>. QED
      BY <1>6, <3>2, <3>3
  <2>. QED
    BY <1>6, <2>1 DEF CooldownHolds
<1>11. CooldownIsForASignal'
  <2>1. k \in 1 .. Len(signals')
    BY <1>5, <1>6
  <2>. QED
    BY <1>1, <1>4, <1>6, <2>1 DEF CooldownIsForASignal
<1>. QED
  BY <1>1, <1>2, <1>6, <1>7, <1>8, <1>9, <1>10, <1>11

(* The failures of the strategy's tasks.                                   *)
LEMMA StrategyFaultSteps ==
  ASSUME StrategyInv, EmitFails \/ (\E who \in {"ind", "regime"} : ConsumerDies(who))
  PROVE  StrategyInv'
<1>. USE DEF StrategyInv
<1>1. /\ UNCHANGED <<toStrat, strat, signals, life>> /\ broken' = TRUE
      /\ regimes' \in {regimes, Ack(regimes)}
  BY DEF EmitFails, ConsumerDies, Fail
<1>2. regimes' \in Stream(Regime) /\ WellFormed(regimes)'
  BY <1>1, AckLemma
<1>3. /\ stratTask' \in [hand : Seq(Signal), dead : SUBSET {"ind", "regime"}]
      /\ stratTask'.hand = <<>> \/ stratTask'.hand = stratTask.hand
  <2>1. CASE EmitFails
    <3>1. PICK none : none = <<>>
      OBVIOUS
    <3>2. none \in Seq(Signal)
      BY <3>1
    <3>. QED
      BY <2>1, <3>1, <3>2 DEF EmitFails
  <2>2. ASSUME NEW who \in {"ind", "regime"}, ConsumerDies(who)
        PROVE  /\ stratTask' \in [hand : Seq(Signal), dead : SUBSET {"ind", "regime"}]
               /\ stratTask'.hand = <<>> \/ stratTask'.hand = stratTask.hand
    BY <2>2 DEF ConsumerDies
  <2>. QED
    BY <2>1, <2>2
<1>4. HandIsLast' /\ CooldownRuns' /\ CooldownHolds' /\ CooldownIsForASignal'
  BY <1>1, <1>3 DEF HandIsLast, CooldownRuns, CooldownHolds, CooldownIsForASignal
<1>. QED
  BY <1>1, <1>2, <1>3, <1>4

(* A new life has no signal yet.                                           *)
LEMMA StrategyRestarts ==
  ASSUME RegimeInv, Restart
  PROVE  StrategyInv'
<1>. USE DEF RegimeInv, StrategyInv
<1>1. /\ UNCHANGED signals /\ life' = life + 1 /\ life \in Nat
      /\ strat' = NewStrategy /\ stratTask' = NewTask
      /\ toStrat' = Forget(toStrat) /\ regimes' = Forget(regimes)
  BY DEF Restart, DetectorInv
<1>2. /\ toStrat' \in Stream(Indicator) /\ WellFormed(toStrat)'
      /\ regimes' \in Stream(Regime) /\ WellFormed(regimes)'
  BY <1>1, ForgetLemma
<1>3. /\ strat' \in [ema : [Resolutions -> EmaValues], lastSignal : 0 .. MaxBars]
      /\ strat'.lastSignal = 0
  BY <1>1, RegimeAssumption DEF NewStrategy, EmaValues
<1>4. /\ stratTask' \in [hand : Seq(Signal), dead : SUBSET {"ind", "regime"}]
      /\ stratTask'.hand = <<>>
  BY <1>1 DEF NewTask
<1>5. \A i \in 1 .. Len(signals) : signals[i].life < life' /\ signals[i].life \in Nat
  <2>1. \A i \in 1 .. Len(signals) : signals[i] \in Signal
    OBVIOUS
  <2>. QED
    BY <1>1, <2>1 DEF CooldownRuns, Signal
<1>6. CooldownRuns'
  BY <1>1, <1>5 DEF CooldownRuns
<1>7. HandIsLast' /\ CooldownHolds' /\ CooldownIsForASignal'
  BY <1>1, <1>3, <1>4 DEF HandIsLast, CooldownHolds, CooldownIsForASignal
<1>. QED
  BY <1>1, <1>2, <1>3, <1>4, <1>6, <1>7
-----------------------------------------------------------------------------
(* The initial states.                                                     *)
LEMMA RegimeInitHolds == RegimeInit => RegimeInv
<1>. SUFFICES ASSUME RegimeInit PROVE RegimeInv
  OBVIOUS
<1>1. \A E : EmptyStream \in Stream(E) /\ WellFormed(EmptyStream)
  BY DEF EmptyStream, Stream, WellFormed
<1>2. 0 \in 0 .. MaxBars /\ 0 \in 0 .. MaxFailures
  BY RegimeAssumption
<1>3. NoSnap \in Snapshot
  BY DEF NoSnap, Snapshot
<1>4. calc \in [Resolutions -> Calculators]
      /\ \A r \in Resolutions : calc[r].todo = {} /\ calc[r].bar.ts = 0 /\ calc[r].bar.life = 0
  BY <1>2, <1>3 DEF RegimeInit, Calculators, NoBar
<1>5. det \in [Resolutions -> Detectors] /\ \A r \in Resolutions : det[r].sent = det[r].last
  BY <1>3 DEF RegimeInit, NewDetector, Detectors
<1>6. BarsAreReal /\ LabelsFollow /\ BarsArrive /\ LabelInHand
  BY <1>4, <1>5 DEF RegimeInit, BarsAreReal, LabelsFollow, BarsArrive, LabelInHand
<1>7. DetectorInv
  BY <1>1, <1>2, <1>4, <1>5, <1>6 DEF RegimeInit, DetectorInv
<1>8. /\ strat \in [ema : [Resolutions -> EmaValues], lastSignal : 0 .. MaxBars]
      /\ strat.lastSignal = 0
  BY <1>2 DEF RegimeInit, NewStrategy, EmaValues
<1>9. /\ stratTask \in [hand : Seq(Signal), dead : SUBSET {"ind", "regime"}]
      /\ stratTask.hand = <<>> /\ signals = <<>> /\ signals \in Seq(Signal) /\ Len(signals) = 0
  BY DEF RegimeInit, NewTask
<1>10. HandIsLast /\ CooldownRuns /\ CooldownHolds /\ CooldownIsForASignal
  BY <1>8, <1>9 DEF HandIsLast, CooldownRuns, CooldownHolds, CooldownIsForASignal
<1>. QED
  BY <1>1, <1>7, <1>8, <1>9, <1>10 DEF RegimeInit, RegimeInv, StrategyInv

(* Every step keeps both invariants.                                       *)
LEMMA RegimeStep == RegimeInv /\ [RegimeNext]_regimeVars => RegimeInv'
<1>. SUFFICES ASSUME RegimeInv, [RegimeNext]_regimeVars PROVE RegimeInv'
  OBVIOUS
<1>. USE DEF RegimeInv
<1>1. ASSUME NEW r \in Resolutions, PublishIndicator(r) PROVE RegimeInv'
  BY <1>1, PublishIndicatorStep, StreamsStep
<1>2. ASSUME NEW r \in Resolutions, IndicatorFails(r) PROVE RegimeInv'
  BY <1>2, IndicatorFailsStep, StrategyStays DEF IndicatorFails, Fail, StrategyInv
<1>3. ASSUME NEW r \in Resolutions, NEW v \in BarValues, NextBar(r, v) PROVE RegimeInv'
  BY <1>3, NextBarStep, StrategyStays DEF NextBar, NoFail, StrategyInv
<1>4. CASE Detect
  BY <1>4, DetectStep, StrategyStays DEF Detect, NoFail, StrategyInv
<1>5. CASE DetectPublish
  BY <1>5, DetectPublishStep, StreamsStep
<1>6. CASE DetectFails \/ DetectDies
  BY <1>6, DetectorFaultSteps, StrategyStays DEF DetectFails, DetectDies, Fail, StrategyInv
<1>7. CASE OnIndicator
  BY <1>7, OnIndicatorStep, DetectorStays DEF OnIndicator
<1>8. CASE EmitSignal
  BY <1>8, EmitSignalStep, DetectorStays DEF EmitSignal
<1>9. CASE EmitFails
  BY <1>9, StrategyFaultSteps, DetectorStays DEF EmitFails
<1>10. ASSUME NEW vetoed \in BOOLEAN, OnRegime(vetoed) PROVE RegimeInv'
  BY <1>10, OnRegimeStep, DetectorStays DEF OnRegime
<1>11. ASSUME NEW who \in {"ind", "regime"}, ConsumerDies(who) PROVE RegimeInv'
  BY <1>11, StrategyFaultSteps, DetectorStays DEF ConsumerDies
<1>12. CASE Restart
  BY <1>12, DetectorRestarts, StrategyRestarts
<1>13. CASE UNCHANGED regimeVars
  <2>1. UNCHANGED <<feed, calc, toDet, det, detTask, now, life>> /\ NoFail
        /\ UNCHANGED <<toStrat, regimes, strat, stratTask, signals, life, broken>>
    BY <1>13 DEF regimeVars, NoFail
  <2>. QED
    BY <2>1, DetectorStays, StrategyStays DEF StrategyInv
<1>. QED
  BY <1>1, <1>2, <1>3, <1>4, <1>5, <1>6, <1>7, <1>8, <1>9, <1>10, <1>11, <1>12, <1>13
  DEF RegimeNext, IndicatorNext, DetectorNext, StrategyNext

(* The inductive invariant of the way from the bars to the signals.        *)
LEMMA RegimeInvariance == RegimeSpec => []RegimeInv
  BY RegimeInitHolds, RegimeStep, PTL DEF RegimeSpec

(* Every value on the way from the bars to the signals is of its type.     *)
THEOREM RegimeTyped == RegimeSpec => []RegimeTypeOK
<1>1. RegimeInv => RegimeTypeOK
  BY DEF RegimeInv, DetectorInv, StrategyInv, RegimeTypeOK, Calculators, Detectors
<1>. QED
  BY <1>1, RegimeInvariance, PTL

(* Two signals of one process are at least the cooldown apart, whichever   *)
(* resolutions they come from and however the updates interleave           *)
(* (ema_regime.py: "defends against label flapping").                      *)
THEOREM SignalsAreApart == RegimeSpec => []CooldownHolds
<1>1. RegimeInv => CooldownHolds
  BY DEF RegimeInv, StrategyInv
<1>. QED
  BY <1>1, RegimeInvariance, PTL

(* The cooldown never runs for a signal that was filtered out.             *)
THEOREM CooldownsAreEarned == RegimeSpec => []CooldownIsForASignal
<1>1. RegimeInv => CooldownIsForASignal
  BY DEF RegimeInv, StrategyInv
<1>. QED
  BY <1>1, RegimeInvariance, PTL

(* When nothing is on its way and nothing failed, the label published last *)
(* is that of the latest bar, its volatility included, although the        *)
(* indicators of a bar arrive one by one.                                  *)
THEOREM LabelsFollowBars == RegimeSpec => []RegimeFollowsBars
<1>1. RegimeInv => RegimeFollowsBars
  <2>. SUFFICES ASSUME RegimeInv, DetectorIsIdle, ~broken, NEW r \in Resolutions,
                       calc[r].bar.ts # 0, calc[r].bar.life = life
                PROVE  det[r].sent = Classify(LatestOf(r))
    BY DEF RegimeFollowsBars
  <2>. USE DEF RegimeInv, DetectorInv
  <2>1. calc[r].todo = {} /\ detTask = "idle" /\ ~(toDet.at < Len(toDet.log))
    BY DEF DetectorIsIdle, HasNext
  <2>2. \A i \in 1 .. Len(toDet.log) : ~(i > toDet.at)
    BY <2>1 DEF Stream
  <2>3. \A n \in Names : calc[r].bar.values[n] # None => det[r].snap[n] = calc[r].bar.values[n]
    BY <2>1, <2>2 DEF BarsArrive, WillKnow
  <2>4. calc[r].bar.values \in BarValues /\ det[r].snap \in Snapshot
    BY DEF BarsAreReal, Detectors
  <2>5. calc[r].bar.values \in Snapshot /\ \A n \in EmaNames : calc[r].bar.values[n] # None
    BY <2>4, BarLemma
  <2>6. PICK latest : latest = LatestOf(r)
    OBVIOUS
  <2>7. /\ latest \in Snapshot
        /\ latest["atr14"] = IF calc[r].bar.values["atr14"] = None THEN det[r].snap["atr14"]
                             ELSE calc[r].bar.values["atr14"]
        /\ \A n \in EmaNames : latest[n] = calc[r].bar.values[n]
    BY <2>4, <2>5, <2>6 DEF LatestOf, Snapshot, Names, EmaNames
  <2>8. \A n \in Names : latest[n] = det[r].snap[n]
    BY <2>3, <2>5, <2>7 DEF Names
  <2>9. det[r].snap = latest
    BY <2>4, <2>7, <2>8 DEF Snapshot
  <2>10. det[r] # NewDetector[r]
    <3>1. "ema20" \in EmaNames /\ "ema20" \in Names
      BY DEF EmaNames, Names
    <3>2. det[r].snap["ema20"] # None
      BY <2>5, <2>7, <2>8, <3>1
    <3>3. NewDetector[r].snap["ema20"] = None
      BY <3>1 DEF NewDetector, NoSnap
    <3>. QED
      BY <3>2, <3>3
  <2>11. det[r].last = Classify(det[r].snap) /\ det[r].sent = det[r].last
    BY <2>1, <2>10 DEF LabelsFollow
  <2>. QED
    BY <2>6, <2>9, <2>11
<1>. QED
  BY <1>1, RegimeInvariance, PTL
-----------------------------------------------------------------------------
(* The option selector.                                                    *)

(* What a selection and the catalogue can be.                              *)
SelectionStates == [pc : {"idle", "underlying", "spot", "expiries", "chain"}, type : Types,
                    day : Nat, spot : Spots \cup {0}, expiry : Expiries \cup {NoExpiry},
                    dump : Nat \cup {NoExpiry}, strike : Strikes \cup {0},
                    outcome : {"none", "picked", "no underlying", "no spot", "no expiry",
                               "no chain", "raised"}]

(* What the table of instruments holds.                                    *)
Catalogues == [rows : SUBSET Rows, day : Nat \cup {NoExpiry}]

(* What the catalogue and the worker hold, if anything, is a whole dump,   *)
(* and the one on its way to the catalogue is no older.                    *)
DumpsAreWhole ==
    /\ cat \in Catalogues /\ ref \in Catalogues
    /\ cat.day \in -1 .. today /\ ref.day \in -1 .. today
    /\ cat.rows # {} => cat.day # NoExpiry /\ cat.rows = Listed(cat.day)
    /\ ref.rows # {} => ref.day # NoExpiry /\ ref.rows = Listed(ref.day) /\ cat.day <= ref.day

(* A selection under way is of today; the expiry it has found is ahead,    *)
(* was listed by the dump it was found in, and the catalogue holds that    *)
(* dump or a newer one.                                                    *)
SelectionIsOfToday ==
    /\ sel \in SelectionStates
    /\ sel.day \in 0 .. today
    /\ sel.pc # "idle" => sel.day = today /\ sel.outcome = "none"
    /\ sel.expiry # NoExpiry => sel.expiry > sel.day
    /\ sel.outcome = "picked" <=> sel.strike \in Strikes
    /\ sel.outcome # "no chain"
    /\ sel.pc = "chain" =>
          /\ sel.expiry # NoExpiry /\ sel.expiry <= sel.dump + Horizon
          /\ sel.dump \in 0 .. cat.day
          /\ cat.rows # {}

(* The inductive invariant of the selector.                                *)
SelectorInv == today \in 0 .. MaxDay /\ DumpsAreWhole /\ SelectionIsOfToday

(* There is a nearest expiry among several.                                *)
LEMMA NearestLemma ==
  ASSUME NEW es, es \subseteq Nat, es # {}
  PROVE Nearest(es) \in es /\ \A o \in es : Nearest(es) <= o
<1>1. \E e \in es : \A o \in es : e <= o
  BY LeastNat
<1>. QED
  BY <1>1 DEF Nearest

(* pick_expiry finds an expiry ahead if there is one.                      *)
LEMMA PickExpiryLemma ==
  ASSUME today \in Nat, NEW es, es \subseteq Nat
  PROVE PickExpiry(es) # NoExpiry => PickExpiry(es) \in es /\ PickExpiry(es) > today
<1>. DEFINE future == {e \in es : e > today}
            next == future \ {Nearest(future)}
<1>1. CASE future = {}
  BY <1>1 DEF PickExpiry
<1>2. CASE future # {}
  <2>1. Nearest(future) \in future
    BY <1>2, NearestLemma
  <2>2. next # {} => Nearest(next) \in next
    BY NearestLemma
  <2>3. PickExpiry(es) = Nearest(future) \/ (next # {} /\ PickExpiry(es) = Nearest(next))
    BY <1>2 DEF PickExpiry
  <2>. QED
    BY <2>1, <2>2, <2>3
<1>. QED
  BY <1>1, <1>2

(* pick_strike finds a contract of any chain that has one.                 *)
LEMMA PickStrikeLemma ==
  ASSUME NEW chain, chain \subseteq Rows, chain # {}, NEW spot \in Nat
  PROVE PickStrike(chain, spot) \in chain
<1>. DEFINE D(r) == Distance(r.strike, spot)
<1>1. ASSUME NEW r \in chain PROVE r.strike \in Nat /\ D(r) \in Nat
  <2>1. r.strike \in Nat
    BY SelectorAssumption DEF Rows
  <2>. QED
    BY <2>1 DEF Distance
<1>2. PICK d \in {D(r) : r \in chain} : \A o \in {D(r) : r \in chain} : d <= o
  <2>1. {D(r) : r \in chain} \subseteq Nat /\ {D(r) : r \in chain} # {}
    BY <1>1
  <2>. HIDE DEF D
  <2>. QED
    BY <2>1, LeastNat
<1>. DEFINE near == {r \in chain : D(r) = d}
<1>3. PICK k \in {r.strike : r \in near} : \A o \in {r.strike : r \in near} : k <= o
  <2>1. {r.strike : r \in near} \subseteq Nat /\ {r.strike : r \in near} # {}
    BY <1>1, <1>2
  <2>. HIDE DEF near
  <2>. QED
    BY <2>1, LeastNat
<1>4. PICK r \in chain : D(r) = d /\ r.strike = k
  BY <1>3
<1>5. ASSUME NEW o \in chain
      PROVE  D(r) < D(o) \/ (D(r) = D(o) /\ r.strike <= o.strike)
  <2>1. d <= D(o) /\ d \in Nat /\ D(o) \in Nat
    BY <1>1, <1>2
  <2>2. D(o) = d => k <= o.strike
    BY <1>3
  <2>. HIDE DEF D
  <2>. QED
    BY <2>1, <2>2, <1>4
<1>6. \E x \in chain : \A o \in chain :
          \/ Distance(x.strike, spot) < Distance(o.strike, spot)
          \/ Distance(x.strike, spot) = Distance(o.strike, spot) /\ x.strike <= o.strike
  BY <1>5
<1>. QED
  BY <1>6 DEF PickStrike

(* The day is a number, and the catalogue holds a dump of no later day.    *)
LEMMA DayIsNat ==
  ASSUME SelectorInv
  PROVE  /\ today \in Nat /\ today \in 0 .. today /\ cat.day \in Int /\ cat.day <= today
         /\ ref.day \in Int /\ sel \in SelectionStates
<1>1. today \in Nat
  BY SelectorAssumption DEF SelectorInv
<1>2. cat.day \in -1 .. today /\ ref.day \in -1 .. today /\ sel \in SelectionStates
  BY DEF SelectorInv, DumpsAreWhole, SelectionIsOfToday
<1>. QED
  BY <1>1, <1>2

(* What a step that leaves the catalogue alone keeps.                      *)
LEMMA DumpsStay ==
  ASSUME SelectorInv, UNCHANGED <<today, cat, ref>>
  PROVE  DumpsAreWhole' /\ (today \in 0 .. MaxDay)'
BY DEF SelectorInv, DumpsAreWhole

(* How a selection ends.                                                   *)
LEMMA EndedLemma ==
  ASSUME sel \in SelectionStates, NEW outcome
  PROVE  /\ Ended(outcome).pc = "idle" /\ Ended(outcome).outcome = outcome
         /\ Ended(outcome).type = sel.type /\ Ended(outcome).day = sel.day
         /\ Ended(outcome).spot = sel.spot /\ Ended(outcome).expiry = sel.expiry
         /\ Ended(outcome).dump = sel.dump /\ Ended(outcome).strike = sel.strike
         /\ outcome \in {"none", "picked", "no underlying", "no spot", "no expiry",
                         "no chain", "raised"} => Ended(outcome) \in SelectionStates
BY DEF Ended, SelectionStates

(* The worker replaces one whole dump by another.                          *)
LEMMA RefreshSteps ==
  ASSUME SelectorInv, RefreshFetch \/ RefreshCommit \/ RefreshFails
  PROVE  SelectorInv'
<1>. USE DEF SelectorInv
<1>1. /\ today' = today /\ sel' = sel /\ today \in Nat /\ today \in 0 .. MaxDay
      /\ cat.day \in Int /\ ref.day \in Int
  BY SelectorAssumption DEF RefreshFetch, RefreshCommit, RefreshFails, DumpsAreWhole
<1>2. CASE RefreshFetch
  <2>1. ref' = [rows |-> Listed(today), day |-> today] /\ cat' = cat
    BY <1>2 DEF RefreshFetch
  <2>2. Listed(today) \subseteq Rows
    BY DEF Listed
  <2>3. DumpsAreWhole'
    BY <1>1, <2>1, <2>2 DEF DumpsAreWhole, Catalogues, NoExpiry, Listed
  <2>. QED
    BY <1>1, <2>1, <2>3 DEF SelectionIsOfToday
<1>3. CASE RefreshCommit
  <2>1. /\ cat' = ref /\ ref.rows # {}
        /\ ref' \in Catalogues /\ ref'.rows = {} /\ ref'.day = ref.day
    BY <1>3 DEF RefreshCommit, DumpsAreWhole, Catalogues
  <2>2. DumpsAreWhole'
    BY <1>1, <2>1 DEF DumpsAreWhole, Listed
  <2>3. cat.day <= cat'.day /\ cat'.rows # {} /\ cat'.day \in Int /\ cat.day \in Int
    BY <1>1, <2>1 DEF DumpsAreWhole
  <2>4. sel.dump \in 0 .. cat.day => sel.dump \in 0 .. cat'.day
    BY <2>3
  <2>5. SelectionIsOfToday'
    BY <1>1, <2>3, <2>4 DEF SelectionIsOfToday
  <2>. QED
    BY <1>1, <2>2, <2>5
<1>4. CASE RefreshFails
  <2>1. cat' = cat /\ ref' \in Catalogues /\ ref'.rows = {} /\ ref'.day = ref.day
    BY <1>4 DEF RefreshFails, DumpsAreWhole, Catalogues
  <2>2. DumpsAreWhole'
    BY <1>1, <2>1 DEF DumpsAreWhole, Listed
  <2>. QED
    BY <1>1, <2>1, <2>2 DEF SelectionIsOfToday
<1>. QED
  BY <1>2, <1>3, <1>4

(* What the steps before the last need to know of the catalogue.           *)
LEMMA ExpiriesAreListed ==
  ASSUME SelectorInv
  PROVE  /\ today \in Nat /\ cat.day \in Int /\ cat.day <= today
         /\ {r.expiry : r \in cat.rows} \subseteq Expiries \cap Nat
         /\ \A e \in {r.expiry : r \in cat.rows} :
               e <= cat.day + Horizon /\ cat.rows # {} /\ cat.day \in 0 .. cat.day
<1>1. today \in Nat /\ cat.day \in -1 .. today /\ cat.rows \subseteq Rows
  BY SelectorAssumption DEF SelectorInv, DumpsAreWhole, Catalogues
<1>2. ASSUME NEW r \in cat.rows
      PROVE  r.expiry \in Expiries \cap Nat /\ r.expiry <= cat.day + Horizon /\ cat.day >= 0
  BY <1>1, SelectorAssumption DEF SelectorInv, DumpsAreWhole, Listed, Rows, NoExpiry
<1>. QED
  BY <1>1, <1>2

(* The steps of a selection before the last.                               *)
LEMMA SelectionSteps ==
  ASSUME SelectorInv, (\E type \in Types : Select(type)) \/ FindUnderlying \/ GetSpot \/ SelectFails
  PROVE  SelectorInv'
<1>. USE DEF SelectorInv
<1>1. UNCHANGED <<today, cat, ref>> /\ today \in Nat /\ today \in 0 .. today
  BY DayIsNat DEF Select, FindUnderlying, GetSpot, SelectFails
<1>2. DumpsAreWhole' /\ (today \in 0 .. MaxDay)'
  BY <1>1, DumpsStay
<1>3. ASSUME NEW type \in Types, Select(type) PROVE SelectionIsOfToday'
  <2>1. sel' = [NoSelection EXCEPT !.pc = "underlying", !.type = type, !.day = today]
    BY <1>3 DEF Select
  <2>2. 0 \notin Strikes
    BY SelectorAssumption
  <2>3. /\ sel' \in SelectionStates /\ sel'.pc = "underlying" /\ sel'.day = today
        /\ sel'.outcome = "none" /\ sel'.expiry = NoExpiry /\ sel'.strike = 0
    BY <1>1, <2>1 DEF NoSelection, SelectionStates
  <2>. QED
    BY <1>1, <2>2, <2>3 DEF SelectionIsOfToday
<1>4. ASSUME NEW outcome \in {"no underlying", "no spot", "raised"}, sel.pc # "idle",
             sel' = Ended(outcome)
      PROVE  SelectionIsOfToday'
  <2>1. sel \in SelectionStates /\ sel.outcome = "none" /\ sel.strike \notin Strikes
    BY <1>4 DEF SelectionIsOfToday
  <2>2. /\ sel'.pc = "idle" /\ sel'.outcome = outcome /\ sel'.day = sel.day
        /\ sel'.expiry = sel.expiry /\ sel'.strike = sel.strike /\ sel' \in SelectionStates
    BY <1>4, <2>1, EndedLemma
  <2>. QED
    BY <1>1, <1>4, <2>1, <2>2 DEF SelectionIsOfToday
<1>5. ASSUME NEW s \in SelectionStates, sel.pc # "idle", sel' = s, s.pc \in {"spot", "expiries"},
             s.day = sel.day, s.expiry = sel.expiry, s.strike = sel.strike,
             s.outcome = sel.outcome
      PROVE  SelectionIsOfToday'
  BY <1>1, <1>5 DEF SelectionIsOfToday
<1>6. CASE FindUnderlying
  <2>1. /\ [sel EXCEPT !.pc = "spot"] \in SelectionStates /\ [sel EXCEPT !.pc = "spot"].pc = "spot"
        /\ [sel EXCEPT !.pc = "spot"].day = sel.day /\ [sel EXCEPT !.pc = "spot"].expiry = sel.expiry
        /\ [sel EXCEPT !.pc = "spot"].strike = sel.strike
        /\ [sel EXCEPT !.pc = "spot"].outcome = sel.outcome
    BY DEF SelectionIsOfToday, SelectionStates
  <2>. DEFINE s == [sel EXCEPT !.pc = "spot"]
  <2>2. sel.pc # "idle" /\ (sel' = Ended("no underlying") \/ sel' = s)
    BY <1>6 DEF FindUnderlying
  <2>3. CASE sel' = s
    <3>1. PICK x \in SelectionStates : x = s
      BY <2>1
    <3>. QED
      BY <2>1, <2>2, <2>3, <3>1, <1>2, <1>5
  <2>. QED
    BY <2>2, <2>3, <1>2, <1>4
<1>7. CASE GetSpot
  <2>1. CASE sel' = Ended("no spot")
    BY <1>7, <2>1, <1>2, <1>4 DEF GetSpot
  <2>2. ASSUME NEW p \in Spots, sel' = [sel EXCEPT !.pc = "expiries", !.spot = p]
        PROVE  SelectionIsOfToday'
    <3>1. PICK x : x = [sel EXCEPT !.pc = "expiries", !.spot = p]
      OBVIOUS
    <3>2. /\ x \in SelectionStates /\ x.pc = "expiries" /\ x.day = sel.day
          /\ x.expiry = sel.expiry /\ x.strike = sel.strike /\ x.outcome = sel.outcome
      BY <3>1 DEF SelectionIsOfToday, SelectionStates
    <3>. QED
      BY <1>7, <2>2, <3>1, <3>2, <1>5 DEF GetSpot
  <2>. QED
    BY <1>7, <1>2, <2>1, <2>2 DEF GetSpot
<1>8. CASE SelectFails
  BY <1>8, <1>2, <1>4 DEF SelectFails
<1>. QED
  BY <1>2, <1>3, <1>6, <1>7, <1>8

(* The expiry that is found is ahead, and listed by the dump in hand.      *)
LEMMA GetExpiriesStep ==
  ASSUME SelectorInv, GetExpiries
  PROVE  SelectorInv'
<1>. USE DEF SelectorInv
<1>1. UNCHANGED <<today, cat, ref>> /\ today \in Nat /\ sel.pc = "expiries"
  BY DayIsNat DEF GetExpiries
<1>2. DumpsAreWhole' /\ (today \in 0 .. MaxDay)'
  BY <1>1, DumpsStay
<1>3. PICK e : e = PickExpiry({r.expiry : r \in cat.rows})
  OBVIOUS
<1>4. sel' = IF e = NoExpiry THEN Ended("no expiry")
             ELSE [sel EXCEPT !.pc = "chain", !.expiry = e, !.dump = cat.day]
  BY <1>3 DEF GetExpiries
<1>5. sel \in SelectionStates /\ sel.outcome = "none" /\ sel.strike \notin Strikes /\ sel.day = today
  BY <1>1 DEF SelectionIsOfToday
<1>6. CASE e = NoExpiry
  <2>1. /\ sel'.pc = "idle" /\ sel'.outcome = "no expiry" /\ sel'.day = sel.day
        /\ sel'.expiry = sel.expiry /\ sel'.strike = sel.strike /\ sel' \in SelectionStates
    BY <1>4, <1>5, <1>6, EndedLemma
  <2>2. SelectionIsOfToday'
    BY <1>1, <1>5, <2>1 DEF SelectionIsOfToday
  <2>. QED
    BY <1>1, <1>2, <2>2
<1>7. CASE e # NoExpiry
  <2>1. e \in {r.expiry : r \in cat.rows} /\ e > today
    BY <1>3, <1>7, ExpiriesAreListed, PickExpiryLemma
  <2>2. /\ e \in Expiries /\ e \in Nat /\ e <= cat.day + Horizon /\ cat.rows # {}
        /\ cat.day \in Nat /\ cat.day \in 0 .. cat.day
    BY <2>1, ExpiriesAreListed
  <2>3. PICK x : x = [sel EXCEPT !.pc = "chain", !.expiry = e, !.dump = cat.day]
    OBVIOUS
  <2>4. /\ x \in SelectionStates /\ x.pc = "chain" /\ x.expiry = e /\ x.dump = cat.day
        /\ x.day = sel.day /\ x.strike = sel.strike /\ x.outcome = sel.outcome
    BY <1>5, <2>2, <2>3 DEF SelectionStates
  <2>5. sel' = x
    BY <1>4, <1>7, <2>3
  <2>6. /\ x.day \in 0 .. today /\ x.day = today /\ x.expiry > x.day /\ x.dump \in 0 .. cat.day
        /\ x.expiry <= x.dump + Horizon /\ x.expiry # NoExpiry
        /\ x.outcome = "none" /\ x.strike \notin Strikes
        /\ today' = today /\ cat' = cat
    BY <1>1, <1>5, <1>7, <2>1, <2>2, <2>4
  <2>7. SelectionIsOfToday'
    BY <2>2, <2>4, <2>5, <2>6 DEF SelectionIsOfToday
  <2>. QED
    BY <1>1, <1>2, <2>7
<1>. QED
  BY <1>6, <1>7

(* The dump that the catalogue holds now, of the same day or a later one,  *)
(* still lists the expiry, with contracts of both types.                   *)
LEMMA GetChainStep ==
  ASSUME SelectorInv, GetChain
  PROVE  SelectorInv'
<1>. USE DEF SelectorInv
<1>1. UNCHANGED <<today, cat, ref>> /\ today \in Nat /\ sel.pc = "chain"
  BY DayIsNat DEF GetChain
<1>2. DumpsAreWhole' /\ (today \in 0 .. MaxDay)'
  BY <1>1, DumpsStay
<1>3. PICK chain : chain = {r \in cat.rows : r.expiry = sel.expiry /\ r.type = sel.type}
  OBVIOUS
<1>4. sel' = IF chain = {} THEN Ended("no chain")
             ELSE [Ended("picked") EXCEPT !.strike = PickStrike(chain, sel.spot).strike]
  BY <1>3 DEF GetChain
<1>5. /\ sel \in SelectionStates /\ sel.outcome = "none" /\ sel.day = today /\ cat.rows # {}
      /\ sel.expiry \in Nat /\ sel.expiry > today /\ sel.expiry <= sel.dump + Horizon
      /\ sel.dump \in 0 .. cat.day /\ sel.expiry \in Expiries /\ sel.type \in Types
      /\ sel.spot \in Nat
  <2>1. /\ sel \in SelectionStates /\ sel.outcome = "none" /\ sel.day = today
        /\ sel.expiry # NoExpiry /\ sel.expiry > sel.day /\ sel.expiry <= sel.dump + Horizon
        /\ sel.dump \in 0 .. cat.day /\ cat.rows # {}
    BY <1>1 DEF SelectionIsOfToday
  <2>2. sel.expiry \in Expiries /\ sel.type \in Types /\ sel.spot \in Spots \cup {0}
    BY <2>1 DEF SelectionStates
  <2>3. sel.expiry \in Nat
    BY <2>2, SelectorAssumption
  <2>4. sel.spot \in Nat
    <3>1. \A n \in Spots \cup {0} : n \in Nat
      BY SelectorAssumption
    <3>. QED
      BY <2>2, <3>1
  <2>5. sel.expiry > today
    BY <2>1
  <2>. QED
    BY <2>1, <2>2, <2>3, <2>4, <2>5
<1>6. cat.rows = Listed(cat.day) /\ cat.day \in Nat /\ cat.day <= today
  BY <1>1, <1>5 DEF DumpsAreWhole, NoExpiry
<1>7. chain # {}
  <2>1. PICK k \in Strikes : TRUE
    BY <1>5, <1>6 DEF Listed, Rows
  <2>2. PICK r \in Rows : r = [expiry |-> sel.expiry, strike |-> k, type |-> sel.type]
    BY <1>5 DEF Rows
  <2>3. sel.expiry \in cat.day .. cat.day + Horizon
    BY <1>5, <1>6, SelectorAssumption
  <2>4. r.expiry = sel.expiry /\ r.type = sel.type
    BY <2>2
  <2>5. r \in Listed(cat.day)
    BY <2>3, <2>4 DEF Listed
  <2>. QED
    BY <1>3, <1>6, <2>4, <2>5
<1>8. PickStrike(chain, sel.spot) \in chain
  <2>1. chain \subseteq Rows
    BY <1>3, <1>6 DEF Listed
  <2>. QED
    BY <1>5, <1>7, <2>1, PickStrikeLemma
<1>9. PICK k \in Strikes : k = PickStrike(chain, sel.spot).strike
  BY <1>3, <1>6, <1>8 DEF Listed, Rows
<1>10. /\ sel'.pc = "idle" /\ sel'.outcome = "picked" /\ sel'.day = sel.day
       /\ sel'.expiry = sel.expiry /\ sel'.strike = k /\ sel' \in SelectionStates
  <2>1. PICK x : x = Ended("picked")
    OBVIOUS
  <2>2. /\ x.pc = "idle" /\ x.outcome = "picked" /\ x.day = sel.day
        /\ x.expiry = sel.expiry /\ x \in SelectionStates
    BY <1>5, <2>1, EndedLemma
  <2>3. sel' = [x EXCEPT !.strike = k]
    BY <1>4, <1>7, <1>9, <2>1
  <2>. QED
    BY <2>2, <2>3 DEF SelectionStates
<1>11. SelectionIsOfToday'
  BY <1>1, <1>5, <1>10 DEF SelectionIsOfToday
<1>. QED
  BY <1>1, <1>2, <1>11

(* A day passes between two selections.                                    *)
LEMMA DayPassesStep ==
  ASSUME SelectorInv, DayPasses
  PROVE  SelectorInv'
<1>. USE DEF SelectorInv
<1>1. /\ today' = today + 1 /\ cat' = cat /\ ref' = ref /\ sel' = sel /\ sel.pc = "idle"
      /\ today \in Nat /\ today + 1 \in 0 .. MaxDay
      /\ \A n \in -1 .. today : n \in -1 .. today + 1
      /\ \A n \in 0 .. today : n \in 0 .. today + 1
  BY SelectorAssumption DEF DayPasses
<1>2. DumpsAreWhole'
  BY <1>1 DEF DumpsAreWhole, Listed
<1>3. SelectionIsOfToday'
  BY <1>1 DEF SelectionIsOfToday
<1>. QED
  BY <1>1, <1>2, <1>3

(* The initial states.                                                     *)
LEMMA SelectorInitHolds == SelectorInit => SelectorInv
<1>. SUFFICES ASSUME SelectorInit PROVE SelectorInv
  OBVIOUS
<1>1. 0 \in 0 .. MaxDay /\ 0 \notin Strikes
  BY SelectorAssumption
<1>2. /\ sel \in SelectionStates /\ sel.pc = "idle" /\ sel.day = 0 /\ sel.expiry = NoExpiry
      /\ sel.strike = 0 /\ sel.outcome = "none"
  BY DEF SelectorInit, NoSelection, SelectionStates, Types
<1>3. DumpsAreWhole
  BY DEF SelectorInit, DumpsAreWhole, Catalogues, NoExpiry
<1>. QED
  BY <1>1, <1>2, <1>3 DEF SelectorInit, SelectorInv, SelectionIsOfToday

(* Every step keeps it.                                                    *)
LEMMA SelectorInvariance == SelectorSpec => []SelectorInv
<1>1. SelectorInv /\ [SelectorNext]_selectorVars => SelectorInv'
  <2>. SUFFICES ASSUME SelectorInv, [SelectorNext]_selectorVars PROVE SelectorInv'
    OBVIOUS
  <2>1. CASE UNCHANGED selectorVars
    BY <2>1 DEF selectorVars, SelectorInv, DumpsAreWhole, SelectionIsOfToday, Listed
  <2>. QED
    BY <2>1, RefreshSteps, SelectionSteps, GetExpiriesStep, GetChainStep, DayPassesStep
    DEF SelectorNext
<1>. QED
  BY <1>1, SelectorInitHolds, PTL DEF SelectorSpec

(* Every value the selector holds is of its type.                          *)
THEOREM SelectorTyped == SelectorSpec => []SelectorTypeOK
<1>1. SelectorInv => SelectorTypeOK
  BY DEF SelectorInv, DumpsAreWhole, SelectionIsOfToday, SelectorTypeOK, SelectionStates, Catalogues
<1>. QED
  BY <1>1, SelectorInvariance, PTL

(* However often the catalogue is replaced between the transactions of a   *)
(* selection, one that has found an expiry finds a contract of it          *)
(* (instrument_catalog.py: the old rows and the new ones change places in  *)
(* one transaction).                                                       *)
THEOREM ContractsAreFound == SelectorSpec => []ChainIsThere
<1>1. SelectorInv => ChainIsThere
  BY DEF SelectorInv, SelectionIsOfToday, ChainIsThere
<1>. QED
  BY <1>1, SelectorInvariance, PTL

(* pick_expiry leaves the days it should, given all that is listed today.  *)
LEMMA PickExpiryRolls ==
  ASSUME ExpiriesAreSpaced, today \in 0 .. MaxDay, NEW es,
         es = {e \in Expiries : e \in today .. today + Horizon}, PickExpiry(es) # NoExpiry
  PROVE  PickExpiry(es) - today - 1 >= SwitchDays
<1>. DEFINE future == {e \in es : e > today}
            near == Nearest(future)
            next == future \ {near}
<1>1. /\ today \in Nat /\ es \subseteq Nat /\ es \subseteq Expiries /\ SwitchDays \in Nat
      /\ \A e \in Expiries : e \in Nat
  <2>1. Expiries \subseteq Nat /\ SwitchDays \in Nat /\ MaxDay \in Nat
    BY SelectorAssumption
  <2>2. es \subseteq Expiries
    OBVIOUS
  <2>3. today \in Nat
    BY <2>1
  <2>. QED
    BY <2>1, <2>2, <2>3
<1>2. future # {}
  BY DEF PickExpiry
<1>3. near \in future /\ \A o \in future : near <= o
  <2>1. future \subseteq Nat
    BY <1>1
  <2>. QED
    BY <1>2, <2>1, NearestLemma
<1>4. next # {} => Nearest(next) \in next
  <2>1. next \subseteq Nat
    BY <1>1
  <2>. QED
    BY <2>1, NearestLemma
<1>5. /\ PickExpiry(es) = near \/ (next # {} /\ PickExpiry(es) = Nearest(next))
      /\ next # {} /\ near - today - 1 < SwitchDays => PickExpiry(es) = Nearest(next)
  <2>1. Preference \in {"current_week", "next_week"}
    BY DEF ExpiriesAreSpaced
  <2>. QED
    BY <1>2, <2>1 DEF PickExpiry
<1>6. near \in Expiries /\ near \in Nat /\ near > today
  BY <1>1, <1>3
<1>7. ASSUME next # {}
      PROVE  /\ Nearest(next) \in Nat /\ near < Nearest(next)
             /\ Nearest(next) - near >= SwitchDays
  <2>1. /\ Nearest(next) \in Nat /\ Nearest(next) \in Expiries
        /\ near <= Nearest(next) /\ near # Nearest(next)
    BY <1>1, <1>3, <1>4, <1>7
  <2>2. near < Nearest(next)
    BY <1>6, <2>1
  <2>. QED
    BY <1>6, <2>1, <2>2 DEF ExpiriesAreSpaced
<1>8. ASSUME near - today - 1 < SwitchDays PROVE next # {}
  <2>1. PICK n \in Expiries : near < n /\ n <= today + Horizon
    BY <1>6, <1>8 DEF ExpiriesAreSpaced
  <2>2. n \in es /\ n > today /\ n # near
    BY <1>1, <1>6, <2>1
  <2>. QED
    BY <2>2
<1>. HIDE DEF near, next
<1>. QED
  BY <1>1, <1>5, <1>6, <1>7, <1>8

(* Only the step that finds an expiry matters for how near it is.          *)
LEMMA FreshStep ==
  ASSUME ExpiriesAreSpaced, SelectorInv, FreshDumpRolls, [SelectorNext]_selectorVars
  PROVE  FreshDumpRolls'
<1>. USE DEF FreshDumpRolls
<1>1. CASE UNCHANGED sel
  BY <1>1
<1>2. ASSUME NEW outcome, sel' = Ended(outcome) PROVE FreshDumpRolls'
  BY <1>2, EndedLemma, DayIsNat
<1>3. ASSUME NEW type \in Types, Select(type) PROVE FreshDumpRolls'
  <2>1. sel'.expiry = NoExpiry
    BY <1>3 DEF Select, NoSelection
  <2>. QED
    BY <2>1
<1>4. ASSUME NEW s \in SelectionStates, sel' = s,
             s.expiry = sel.expiry, s.dump = sel.dump, s.day = sel.day
      PROVE  FreshDumpRolls'
  BY <1>4
<1>5. CASE FindUnderlying
  <2>1. PICK x : x = [sel EXCEPT !.pc = "spot"]
    OBVIOUS
  <2>2. x \in SelectionStates /\ x.expiry = sel.expiry /\ x.dump = sel.dump /\ x.day = sel.day
    BY <2>1, DayIsNat DEF SelectionStates
  <2>. QED
    BY <1>2, <1>4, <1>5, <2>1, <2>2 DEF FindUnderlying
<1>6. CASE GetSpot
  <2>1. ASSUME NEW p \in Spots, sel' = [sel EXCEPT !.pc = "expiries", !.spot = p]
        PROVE  FreshDumpRolls'
    <3>1. PICK x : x = [sel EXCEPT !.pc = "expiries", !.spot = p]
      OBVIOUS
    <3>2. x \in SelectionStates /\ x.expiry = sel.expiry /\ x.dump = sel.dump /\ x.day = sel.day
      BY <3>1, DayIsNat DEF SelectionStates
    <3>. QED
      BY <1>4, <2>1, <3>1, <3>2
  <2>. QED
    BY <1>2, <1>6, <2>1 DEF GetSpot
<1>7. CASE GetExpiries
  <2>1. PICK es : es = {r.expiry : r \in cat.rows}
    OBVIOUS
  <2>2. PICK e : e = PickExpiry(es)
    OBVIOUS
  <2>3. CASE e = NoExpiry
    BY <1>2, <1>7, <2>1, <2>2, <2>3 DEF GetExpiries
  <2>4. CASE e # NoExpiry
    <3>1. PICK x : x = [sel EXCEPT !.pc = "chain", !.expiry = e, !.dump = cat.day]
      OBVIOUS
    <3>2. x.expiry = e /\ x.dump = cat.day /\ x.day = sel.day
      BY <3>1, DayIsNat DEF SelectionStates
    <3>3. sel' = x /\ sel.day = today
      BY <1>7, <2>1, <2>2, <2>4, <3>1 DEF GetExpiries, SelectorInv, SelectionIsOfToday
    <3>4. ASSUME cat.day = today PROVE e - today - 1 >= SwitchDays
      <4>1. e \in es /\ e > today
        BY <2>1, <2>2, <2>4, ExpiriesAreListed, PickExpiryLemma
      <4>2. PICK row \in cat.rows : TRUE
        BY <2>1, <4>1
      <4>3. cat.rows = Listed(today)
        BY <3>4, <4>2 DEF SelectorInv, DumpsAreWhole
      <4>4. row.strike \in Strikes /\ row.type \in Types
        BY <4>2, <4>3 DEF Listed, Rows
      <4>5. ASSUME NEW o \in Expiries, o \in today .. today + Horizon PROVE o \in es
        <5>1. PICK r : r = [expiry |-> o, strike |-> row.strike, type |-> row.type]
          OBVIOUS
        <5>2. r.expiry = o /\ r \in Rows
          BY <4>4, <5>1 DEF Rows
        <5>3. r \in cat.rows
          BY <4>3, <4>5, <5>2 DEF Listed
        <5>. QED
          BY <2>1, <5>2, <5>3
      <4>6. ASSUME NEW o \in es PROVE o \in Expiries /\ o \in today .. today + Horizon
        BY <2>1, <4>3 DEF Listed, Rows
      <4>7. es = {o \in Expiries : o \in today .. today + Horizon}
        BY <4>5, <4>6
      <4>. QED
        BY <2>2, <2>4, <4>7, PickExpiryRolls DEF SelectorInv
    <3>. QED
      BY <3>2, <3>3, <3>4
  <2>. QED
    BY <2>3, <2>4
<1>8. CASE GetChain
  <2>1. sel.pc = "chain" => sel.expiry # NoExpiry
    BY DEF SelectorInv, SelectionIsOfToday
  <2>2. PICK x : x = Ended("picked")
    OBVIOUS
  <2>3. x.expiry = sel.expiry /\ x.dump = sel.dump /\ x.day = sel.day /\ x \in SelectionStates
    BY <2>2, EndedLemma, DayIsNat
  <2>4. ASSUME NEW k, sel' = [x EXCEPT !.strike = k] PROVE FreshDumpRolls'
    BY <2>3, <2>4 DEF SelectionStates
  <2>. QED
    BY <1>2, <1>8, <2>2, <2>4 DEF GetChain
<1>. QED
  BY <1>1, <1>2, <1>3, <1>5, <1>6, <1>7, <1>8
  DEF SelectorNext, RefreshFetch, RefreshCommit, RefreshFails, SelectFails, DayPasses, selectorVars

(* On a dump of the day, a contract with too few days left is never        *)
(* chosen, whenever the broker lists a later expiry in time (pick_expiry:  *)
(* "rolls to next when too close").                                        *)
THEOREM FreshDumpsRoll ==
  ASSUME ExpiriesAreSpaced
  PROVE  SelectorSpec => []FreshDumpRolls
<1>1. SelectorInit => FreshDumpRolls
  BY DEF SelectorInit, NoSelection, FreshDumpRolls
<1>2. SelectorInv /\ FreshDumpRolls /\ [SelectorNext]_selectorVars => FreshDumpRolls'
  BY FreshStep
<1>. QED
  BY <1>1, <1>2, SelectorInvariance, PTL DEF SelectorSpec
-----------------------------------------------------------------------------
(* The backtest.                                                           *)

(* Quotient and remainder.                                                 *)
LEMMA DivLemma ==
  ASSUME NEW a \in Nat, NEW n \in Nat \ {0}
  PROVE  /\ a \div n \in Nat /\ a % n \in 0 .. n - 1
         /\ a = n * (a \div n) + (a % n)
<1>1. a % n \in 0 .. n - 1
  OBVIOUS
<1>2. a \div n \in Int
  OBVIOUS
<1>3. a = n * (a \div n) + (a % n)
  <2>1. a % n = a - n * (a \div n)
    BY Z3
  <2>2. n * (a \div n) \in Int
    BY <1>2
  <2>. QED
    BY <1>1, <2>1, <2>2
<1>4. a \div n >= 0
  BY <1>1, <1>3, <1>2
<1>. QED
  BY <1>1, <1>3, <1>2, <1>4

(* They are the only ones.                                                 *)
LEMMA QuotientLemma ==
  ASSUME NEW n \in Nat \ {0}, NEW q \in Nat, NEW p \in Nat,
         NEW r \in 0 .. n - 1, NEW s \in 0 .. n - 1, n * q + r = n * p + s
  PROVE  q = p /\ r = s
<1>1. CASE q < p
  <2>1. n * p >= n * (q + 1)
    BY <1>1
  <2>. QED
    BY <2>1
<1>2. CASE p < q
  <2>1. n * q >= n * (p + 1)
    BY <1>2
  <2>. QED
    BY <2>1
<1>. QED
  BY <1>1, <1>2
(* A loss of pct percent, reckoned on the price and on the result.     *)
LEMMA StopLemma ==
  ASSUME NEW e \in Nat, NEW p \in Nat, NEW pct \in Nat
  PROVE  100 * p <= e * (100 - pct) <=> 100 * (p - e) <= -(pct * e)
  OBVIOUS

(* A profit of pct percent.                                                *)
LEMMA TargetLemma ==
  ASSUME NEW e \in Nat, NEW p \in Nat, NEW pct \in Nat
  PROVE  100 * p >= e * (100 + pct) <=> 100 * (p - e) >= pct * e
  OBVIOUS

(* A moment after the signal is past the square-off of the day of the      *)
(* signal exactly when it is of a later day or past the square-off of its  *)
(* own.                                                                    *)
LEMMA SquareOffLemma ==
  ASSUME NEW d \in Nat, NEW a \in Nat, a = d * DayLength + FireAt, NEW t \in Nat, t > a
  PROVE  /\ DayOf(a) = d
         /\ t >= d * DayLength + SquareOffAt <=> d < DayOf(t) \/ MinuteOf(t) >= SquareOffAt
<1>1. /\ DayLength \in Nat \ {0} /\ FireAt \in Nat /\ SquareOffAt \in Nat
      /\ FireAt < SquareOffAt /\ SquareOffAt < DayLength /\ FireAt \in 0 .. DayLength - 1
  BY BacktestAssumption
<1>2. PICK q \in Nat : q = t \div DayLength
  BY <1>1, DivLemma
<1>3. PICK m \in 0 .. DayLength - 1 : m = t % DayLength
  BY <1>1, DivLemma
<1>4. t = DayLength * q + m
  BY <1>1, <1>2, <1>3, DivLemma
<1>5. a \div DayLength = d
  <2>1. PICK x \in Nat : x = a \div DayLength
    BY <1>1, DivLemma
  <2>2. PICK y \in 0 .. DayLength - 1 : y = a % DayLength
    BY <1>1, DivLemma
  <2>3. a = DayLength * x + y
    BY <1>1, <2>1, <2>2, DivLemma
  <2>4. DayLength * x + y = DayLength * d + FireAt
    BY <1>1, <2>3
  <2>. QED
    BY <1>1, <2>1, <2>4, QuotientLemma
<1>6. CASE d = q
  BY <1>1, <1>2, <1>3, <1>4, <1>5, <1>6 DEF DayOf, MinuteOf
<1>7. CASE d < q
  <2>1. DayLength * q >= DayLength * (d + 1)
    BY <1>1, <1>7
  <2>2. t >= d * DayLength + SquareOffAt
    BY <1>1, <1>4, <2>1
  <2>. QED
    BY <1>2, <1>5, <1>7, <2>2 DEF DayOf
<1>8. CASE q < d
  <2>1. DayLength * d >= DayLength * (q + 1)
    BY <1>1, <1>8
  <2>2. t < d * DayLength
    BY <1>1, <1>4, <2>1
  <2>. QED
    BY <1>1, <2>2
<1>. QED
  BY <1>6, <1>7, <1>8

(* Why a trade ended, and what a trade is.                                 *)
Reasons == {"none", "square_off", "stop_loss", "take_profit", "eod"}

(* A bar a trade has seen.                                                 *)
WalkedBars == [t : Nat, p : Premiums]

(* What the simulated trade holds.                                         *)
Trades == [at : Nat, premium : Premiums \cup {0}, stop : Nat \cup {-1}, target : Nat \cup {-1},
           path : Seq(WalkedBars), reason : Reasons]

(* The last bar the trade has seen.                                        *)
Seen == IF trade.path = <<>> THEN trade.at ELSE trade.path[Len(trade.path)].t

(* A trade was entered at the time of a signal; its bars come after it,    *)
(* and while it is walked there is another one to come.                    *)
TradeIsWalked ==
    /\ trade \in Trades
    /\ trade.path # <<>> => trade.premium # 0
    /\ trade.premium # 0 => \E d \in Nat : trade.at = d * DayLength + FireAt
    /\ \A i \in 1 .. Len(trade.path) : trade.path[i].t > trade.at
    /\ Walking => Ahead(Seen) # {}

(* Only the last bar of a trade can have ended it, for the reason given.   *)
ReasonsAreKept ==
    \A i \in 1 .. Len(trade.path) :
        ExitReason(trade.path[i].t, trade.path[i].p) =
            IF i < Len(trade.path) \/ trade.reason \in {"none", "eod"} THEN "none"
            ELSE trade.reason

(* The inductive invariant of the replay.                                  *)
BacktestInv == bars \subseteq Nat /\ day \in Nat /\ TradeIsWalked /\ ReasonsAreKept

(* On clear levels the two agree on stop and target.                       *)
LEMMA LevelsLemma ==
  ASSUME trade \in Trades, LevelsAreClear
  PROVE  /\ WatcherLevels.stop \in Nat /\ WatcherLevels.stop = OrDefault(trade.stop, DefaultStop)
         /\ WatcherLevels.target \in Nat
         /\ WatcherLevels.target = OrDefault(trade.target, DefaultTarget)
<1>1. DefaultStop \in Nat /\ DefaultTarget \in Nat
  BY BacktestAssumption
<1>. QED
  BY <1>1 DEF LevelsAreClear, WatcherLevels, OrDefault, Unset

(* What the backtest and the watcher make of the same bar.                 *)
LEMMA VerdictLemma ==
  ASSUME TradeIsWalked, LevelsAreClear, NEW i \in 1 .. Len(trade.path)
  PROVE  LET t == trade.path[i].t
             p == trade.path[i].p
         IN  WatcherVerdict(t, p) = IF ExitReason(t, p) = "square_off" THEN "forced"
                                    ELSE IF p = 0 THEN "none" ELSE ExitReason(t, p)
<1>1. PICK t \in Nat, p \in Premiums : t = trade.path[i].t /\ p = trade.path[i].p
  <2>1. trade.path \in Seq(WalkedBars)
    BY DEF TradeIsWalked, Trades
  <2>2. trade.path[i] \in WalkedBars
    BY <2>1
  <2>. QED
    BY <2>2 DEF WalkedBars
<1>2. PICK stop \in Nat, target \in Nat :
        /\ stop = WatcherLevels.stop /\ stop = OrDefault(trade.stop, DefaultStop)
        /\ target = WatcherLevels.target /\ target = OrDefault(trade.target, DefaultTarget)
  BY LevelsLemma DEF TradeIsWalked
<1>3. PICK a \in Nat, e \in Nat : a = trade.at /\ e = trade.premium
  BY BacktestAssumption DEF TradeIsWalked, Trades
<1>4. PICK d \in Nat : a = d * DayLength + FireAt
  <2>1. trade.path # <<>>
    BY DEF TradeIsWalked, Trades
  <2>. QED
    BY <1>3, <2>1 DEF TradeIsWalked
<1>5. t > a
  BY <1>1, <1>3 DEF TradeIsWalked
<1>6. SquaredOff(t) <=> DayOf(a) < DayOf(t) \/ MinuteOf(t) >= SquareOffAt
  BY <1>3, <1>4, <1>5, SquareOffLemma DEF SquaredOff
<1>7. ExitReason(t, p) = IF SquaredOff(t) THEN "square_off"
                         ELSE IF 100 * (p - e) <= -(stop * e) THEN "stop_loss"
                         ELSE IF 100 * (p - e) >= target * e THEN "take_profit" ELSE "none"
  <2>0. p \in Nat
    BY BacktestAssumption
  <2>1. 100 * p <= e * (100 - stop) <=> 100 * (p - e) <= -(stop * e)
    BY <2>0, StopLemma
  <2>2. 100 * p >= e * (100 + target) <=> 100 * (p - e) >= target * e
    BY <2>0, TargetLemma
  <2>. QED
    BY <1>2, <1>3, <2>1, <2>2 DEF ExitReason
<1>8. WatcherVerdict(t, p) = IF SquaredOff(t) THEN "forced"
                             ELSE IF p = 0 THEN "none"
                             ELSE IF 100 * (p - e) <= -(stop * e) THEN "stop_loss"
                             ELSE IF 100 * (p - e) >= target * e THEN "take_profit" ELSE "none"
  BY <1>2, <1>3, <1>6 DEF WatcherVerdict
<1>. QED
  BY <1>1, <1>7, <1>8

(* There is a first bar among those ahead.                                 *)
LEMMA NextBarLemma ==
  ASSUME bars \subseteq Nat, NEW t \in Nat, Ahead(t) # {}
  PROVE  Min(Ahead(t)) \in bars /\ Min(Ahead(t)) \in Nat /\ Min(Ahead(t)) > t
<1>1. Ahead(t) \subseteq Nat
  BY DEF Ahead
<1>2. \E x \in Ahead(t) : \A y \in Ahead(t) : x <= y
  BY <1>1, LeastNat
<1>3. Min(Ahead(t)) \in Ahead(t)
  BY <1>2 DEF Min
<1>. QED
  BY <1>1, <1>3 DEF Ahead

(* A trade is entered on the day evaluated, with a bar to come.            *)
LEMMA EnterStep ==
  ASSUME BacktestInv, Enter
  PROVE  BacktestInv'
<1>. DEFINE entry == day * DayLength + FireAt
<1>1. /\ bars' = bars /\ bars \subseteq Nat /\ day' = day + 1 /\ day \in Nat
      /\ entry \in bars /\ entry \in Nat /\ Ahead(entry) # {}
  BY DEF Enter, BacktestInv
<1>2. PICK e \in Premiums, l \in Suggested :
        trade' = [NoTrade EXCEPT !.at = entry, !.premium = e, !.stop = l.stop, !.target = l.target]
  BY DEF Enter
<1>3. PICK a \in Nat : a = day * DayLength + FireAt
  BY <1>1
<1>4. trade' = [at |-> a, premium |-> e, stop |-> l.stop, target |-> l.target,
                path |-> <<>>, reason |-> "none"]
  BY <1>2, <1>3 DEF NoTrade
<1>5. /\ trade' \in Trades /\ trade'.path = <<>> /\ trade'.at = a
  <2>1. l.stop \in Nat \cup {-1} /\ l.target \in Nat \cup {-1}
    BY BacktestAssumption
  <2>. QED
    BY <1>4, <2>1 DEF Trades, Reasons
<1>6. Len(trade'.path) = 0
  BY <1>5
<1>7. Ahead(a)' = Ahead(a)
  BY <1>1 DEF Ahead
<1>8. TradeIsWalked'
  BY <1>1, <1>3, <1>5, <1>6, <1>7 DEF TradeIsWalked, Seen
<1>. QED
  BY <1>1, <1>6, <1>8 DEF BacktestInv, ReasonsAreKept

(* A day is passed over.                                                   *)
LEMMA SkipDayStep ==
  ASSUME BacktestInv, SkipDay
  PROVE  BacktestInv'
BY DEF SkipDay, BacktestInv, TradeIsWalked, ReasonsAreKept, Walking, Ahead, Seen, ExitReason,
       SquaredOff

(* A bar is appended: it ends the trade for the reason it gives, or the    *)
(* data ends with it, or there is another one to come.                     *)
LEMMA WalkBarStep ==
  ASSUME BacktestInv, WalkBar
  PROVE  BacktestInv'
<1>. USE DEF BacktestInv
<1>1. /\ bars' = bars /\ day' = day /\ bars \subseteq Nat /\ trade \in Trades
      /\ trade.premium # 0 /\ trade.reason = "none" /\ Ahead(Seen) # {} /\ Seen \in Nat
      /\ trade.path \in Seq(WalkedBars)
  <2>1. trade \in Trades /\ trade.path \in Seq(WalkedBars) /\ trade.at \in Nat
    BY DEF TradeIsWalked, Trades
  <2>2. trade.path # <<>> => trade.path[Len(trade.path)] \in WalkedBars
    BY <2>1
  <2>3. Seen \in Nat
    BY <2>1, <2>2 DEF Seen, WalkedBars
  <2>. QED
    BY <2>1, <2>3 DEF WalkBar, Walking, TradeIsWalked
<1>2. PICK t \in Nat : t = Min(Ahead(Seen)) /\ t > Seen
  BY <1>1, NextBarLemma
<1>3. PICK p \in Premiums :
        trade' = [trade EXCEPT
                    !.path = Append(@, [t |-> t, p |-> p]),
                    !.reason = IF ExitReason(t, p) = "none" /\ Ahead(t) = {} THEN "eod"
                               ELSE ExitReason(t, p)]
  BY <1>2 DEF WalkBar, Seen
<1>4. PICK x : x = ExitReason(t, p)
  OBVIOUS
<1>5. x \in Reasons \ {"eod"}
  BY <1>4 DEF ExitReason, Reasons
<1>. DEFINE bar == [t |-> t, p |-> p]
<1>6. PICK path : path = Append(trade.path, bar)
  OBVIOUS
<1>7. /\ path \in Seq(WalkedBars)
      /\ Len(path) = Len(trade.path) + 1 /\ Len(trade.path) \in Nat
      /\ path[Len(path)] = bar /\ bar.t = t /\ bar.p = p
      /\ \A i \in 1 .. Len(trade.path) : path[i] = trade.path[i]
  <2>1. bar \in WalkedBars /\ bar.t = t /\ bar.p = p
    BY DEF WalkedBars
  <2>. HIDE DEF bar
  <2>2. trade.path \in Seq(WalkedBars) /\ Len(trade.path) \in Nat
    BY <1>1
  <2>. QED
    BY <1>6, <2>1, <2>2
<1>8. PICK reason \in Reasons :
        /\ reason = IF x = "none" /\ Ahead(t) = {} THEN "eod" ELSE x
  BY <1>5 DEF Reasons
<1>9. /\ trade' \in Trades /\ trade'.at = trade.at /\ trade'.premium = trade.premium
      /\ trade'.stop = trade.stop /\ trade'.target = trade.target
      /\ trade'.path = path /\ trade'.reason = reason
  BY <1>1, <1>3, <1>4, <1>6, <1>7, <1>8 DEF Trades
<1>10. \A u, v : ExitReason(u, v)' = ExitReason(u, v)
  BY <1>9 DEF ExitReason, SquaredOff
<1>11. \A u : Ahead(u)' = Ahead(u)
  BY <1>1 DEF Ahead
<1>12. t > trade.at
  <2>1. trade.path # <<>> => trade.path[Len(trade.path)].t > trade.at
    BY <1>1 DEF TradeIsWalked
  <2>2. trade.at \in Nat /\ Seen >= trade.at
    BY <1>1, <2>1 DEF Seen, Trades
  <2>. QED
    BY <1>1, <1>2, <2>2
<1>13. Seen' = t /\ path # <<>>
  BY <1>7, <1>9 DEF Seen
<1>14. TradeIsWalked'
  <2>1. ASSUME NEW i \in 1 .. Len(path) PROVE path[i].t > trade.at
    <3>1. CASE i \in 1 .. Len(trade.path)
      BY <1>7, <3>1 DEF TradeIsWalked
    <3>2. CASE i = Len(path)
      BY <1>7, <1>12, <3>2
    <3>. QED
      BY <1>7, <3>1, <3>2
  <2>2. reason = "none" => Ahead(t) # {}
    BY <1>8
  <2>. QED
    BY <1>1, <1>9, <1>11, <1>13, <2>1, <2>2 DEF TradeIsWalked, Walking
<1>15. ReasonsAreKept'
  <2>1. ASSUME NEW i \in 1 .. Len(path)
        PROVE  ExitReason(path[i].t, path[i].p) =
                 IF i < Len(path) \/ reason \in {"none", "eod"} THEN "none" ELSE reason
    <3>1. CASE i \in 1 .. Len(trade.path)
      <4>1. ExitReason(trade.path[i].t, trade.path[i].p) = "none"
        BY <1>1, <3>1 DEF ReasonsAreKept
      <4>. QED
        BY <1>7, <3>1, <4>1
    <3>2. CASE i = Len(path)
      <4>1. path[i].t = t /\ path[i].p = p
        BY <1>7, <3>2
      <4>. QED
        BY <1>4, <1>5, <1>7, <1>8, <3>2, <4>1
    <3>. QED
      BY <1>7, <3>1, <3>2
  <2>. QED
    BY <1>9, <1>10, <2>1 DEF ReasonsAreKept
<1>. QED
  BY <1>1, <1>14, <1>15

(* Every step of the replay keeps the invariant.                           *)
LEMMA BacktestInvariance == BacktestSpec => []BacktestInv
<1>1. BacktestInit => BacktestInv
  <2>. SUFFICES ASSUME BacktestInit PROVE BacktestInv
    OBVIOUS
  <2>1. /\ bars \subseteq Nat /\ day = 0 /\ trade \in Trades /\ trade.path = <<>>
        /\ trade.premium = 0 /\ Len(trade.path) = 0
    BY DEF BacktestInit, Moment, NoTrade, Trades, Reasons
  <2>. QED
    BY <2>1 DEF BacktestInv, TradeIsWalked, ReasonsAreKept, Walking
<1>2. BacktestInv /\ [BacktestNext]_backtestVars => BacktestInv'
  <2>. SUFFICES ASSUME BacktestInv, [BacktestNext]_backtestVars PROVE BacktestInv'
    OBVIOUS
  <2>1. CASE UNCHANGED backtestVars
    BY <2>1 DEF backtestVars, BacktestInv, TradeIsWalked, ReasonsAreKept, Walking, Ahead, Seen,
                ExitReason, SquaredOff
  <2>. QED
    BY <2>1, SkipDayStep, EnterStep, WalkBarStep DEF BacktestNext
<1>. QED
  BY <1>1, <1>2, PTL DEF BacktestSpec

(* Whatever bars are missing, and whatever the premiums do, a watcher that *)
(* looked at every bar would judge it as the backtest did, on levels that  *)
(* are both given or both missing, but for a price of 0                    *)
(* (position_watcher.py: "so live behaviour matches what [...] the         *)
(* backtester measures").                                                  *)
THEOREM BacktestAgrees == BacktestSpec => []ExitsAgree
<1>1. BacktestInv => ExitsAgree
  <2>. SUFFICES ASSUME BacktestInv, LevelsAreClear, NEW i \in 1 .. Len(trade.path)
                PROVE  LET bar == trade.path[i]
                       IN  WatcherVerdict(bar.t, bar.p) =
                               IF Simulated(i) = "square_off" THEN "forced"
                               ELSE IF bar.p = 0 THEN "none" ELSE Simulated(i)
    BY DEF ExitsAgree
  <2>1. ExitReason(trade.path[i].t, trade.path[i].p) = Simulated(i)
    BY DEF BacktestInv, ReasonsAreKept, Simulated
  <2>. QED
    BY <2>1, VerdictLemma DEF BacktestInv
<1>. QED
  BY <1>1, BacktestInvariance, PTL
=============================================================================
