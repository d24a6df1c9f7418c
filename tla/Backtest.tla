------------------------------ MODULE Backtest ------------------------------
(***************************************************************************)
(* The backtest of the daily test: the replay of the recorded days         *)
(* (src/src/backtest/daily_test_run.py) and the simulation of each trade   *)
(* over the minute bars that follow it (src/src/backtest/simulator.py).    *)
(* Bars may be missing, the ones after the square-off among them.  The     *)
(* premium that Black-Scholes gives a bar is a free choice, 0 (a worthless *)
(* contract) included: it depends on the contract of the trade.            *)
(***************************************************************************)
EXTENDS Integers, Sequences, FiniteSetsExt

CONSTANTS DayLength,     \* minutes of a day
          FireAt,        \* fire_hour, fire_minute
          SquareOffAt,
          ReplayDays,    \* days in the window
          Premiums,
          Suggested,     \* the levels signals suggest
          DefaultStop, DefaultTarget

ASSUME BacktestAssumption ==
    /\ DayLength \in Nat /\ ReplayDays \in Nat \ {0}
    /\ FireAt \in 0 .. SquareOffAt - 1 /\ SquareOffAt \in 0 .. DayLength - 1
    /\ Premiums \subseteq Nat /\ DefaultStop \in Nat /\ DefaultTarget \in Nat
    /\ Suggested \subseteq [stop : Nat \cup {-1}, target : Nat \cup {-1}]

VARIABLES bars,   \* the close times for which a minute bar was recorded
          day,    \* the next day to evaluate
          trade   \* the trade under way, or the last one

backtestVars == <<bars, day, trade>>

Moment == 0 .. ReplayDays * DayLength - 1
DayOf(t) == t \div DayLength
MinuteOf(t) == t % DayLength

(* A level that the signal leaves out (None).                              *)
Unset == -1

NoTrade == [at |-> 0, premium |-> 0, stop |-> 0, target |-> 0, path |-> <<>>, reason |-> "none"]

BacktestInit == bars \in SUBSET Moment /\ day = 0 /\ trade = NoTrade

Walking == trade.premium # 0 /\ trade.reason = "none"

(* _build_forward_path: strictly after the signal, through all later days. *)
Ahead(t) == {b \in bars : b > t}

(* The filters object (the candles disagree, no premium fits the budget),  *)
(* the premium is 0, there is no bar at the time of the signal, or none    *)
(* after it.                                                               *)
SkipDay ==
    /\ ~Walking /\ day < ReplayDays
    /\ day' = day + 1
    /\ UNCHANGED <<bars, trade>>

Enter ==
    /\ ~Walking /\ day < ReplayDays
    /\ LET now == day * DayLength + FireAt
       IN  /\ now \in bars /\ Ahead(now) # {}
           /\ \E e \in Premiums \ {0}, l \in Suggested :
                 trade' = [NoTrade EXCEPT !.at = now, !.premium = e,
                                          !.stop = l.stop, !.target = l.target]
    /\ day' = day + 1
    /\ UNCHANGED bars

(* Faulty: looks at the time of the day only.                              *)
SquaredOffByTime(t) == MinuteOf(t) >= SquareOffAt

(* The square-off is that of the day of the signal.                        *)
SquaredOff(t) == t >= DayOf(trade.at) * DayLength + SquareOffAt

(* "if sig.suggested_sl_pct": a level of 0 falls back like a missing one.  *)
OrDefault(level, default) == IF level \in {Unset, 0} THEN default ELSE level

(* simulate_trade: what the bar at t with premium p does to the trade.     *)
ExitReason(t, p) ==
    LET stop   == OrDefault(trade.stop, DefaultStop)
        target == OrDefault(trade.target, DefaultTarget)
    IN  IF SquaredOff(t) THEN "square_off"
        ELSE IF 100 * p <= trade.premium * (100 - stop) THEN "stop_loss"
        ELSE IF 100 * p >= trade.premium * (100 + target) THEN "take_profit" ELSE "none"

(* The next bar; the data may end with it.                                 *)
WalkBar ==
    /\ Walking
    /\ LET last == IF trade.path = <<>> THEN trade.at ELSE trade.path[Len(trade.path)].t
           t    == Min(Ahead(last))
       IN  \E p \in Premiums :
              trade' = [trade EXCEPT
                  !.path = Append(@, [t |-> t, p |-> p]),
                  !.reason = IF ExitReason(t, p) = "none" /\ Ahead(t) = {} THEN "eod"
                             ELSE ExitReason(t, p)]
    /\ UNCHANGED <<bars, day>>

BacktestNext == SkipDay \/ Enter \/ WalkBar

BacktestSpec == BacktestInit /\ [][BacktestNext]_backtestVars
-----------------------------------------------------------------------------
(* _trade_sl_tp of the live watcher: both levels fall back when one is     *)
(* missing, and a level of 0 is kept.                                      *)
WatcherLevels ==
    IF Unset \in {trade.stop, trade.target} THEN [stop |-> DefaultStop, target |-> DefaultTarget]
    ELSE [stop |-> trade.stop, target |-> trade.target]

(* _evaluate_one, for a position opened at the time of the signal: a       *)
(* forced exit, no answer to a price of 0, or the result against stop and  *)
(* target.                                                                 *)
WatcherVerdict(t, p) ==
    LET pnl == 100 * (p - trade.premium)
    IN  IF DayOf(trade.at) < DayOf(t) \/ MinuteOf(t) >= SquareOffAt THEN "forced"
        ELSE IF p = 0 THEN "none"
        ELSE IF pnl <= -(WatcherLevels.stop * trade.premium) THEN "stop_loss"
        ELSE IF pnl >= WatcherLevels.target * trade.premium THEN "take_profit" ELSE "none"

(* The levels every strategy sends: both, and neither of them 0.  Rows     *)
(* that have neither level count too.                                      *)
LevelsAreClear ==
    \/ trade.stop = Unset /\ trade.target = Unset
    \/ trade.stop \in Nat \ {0} /\ trade.target \in Nat \ {0}

(* What the backtest made of the i-th bar.                                 *)
Simulated(i) ==
    IF i < Len(trade.path) \/ trade.reason \in {"none", "eod"} THEN "none" ELSE trade.reason

(* The watcher honours the levels of the signal "so live behaviour matches *)
(* what [...] the backtester measures": for clear levels, were it to look  *)
(* at every bar, it would judge it as the backtest did, whatever bars are  *)
(* missing, but for one case: it takes a price of 0 for no price, where    *)
(* the backtest stops the trade out.  (What the backtest calls square_off  *)
(* is stale_overnight for the watcher when no bar follows the square-off   *)
(* of the day.)                                                            *)
ExitsAgree ==
    LevelsAreClear =>
        \A i \in 1 .. Len(trade.path) :
            LET bar == trade.path[i]
            IN  WatcherVerdict(bar.t, bar.p) =
                    IF Simulated(i) = "square_off" THEN "forced"
                    ELSE IF bar.p = 0 THEN "none" ELSE Simulated(i)
=============================================================================
