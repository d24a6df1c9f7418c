---------------------------- MODULE MarketClock -----------------------------
(***************************************************************************)
(* Time as the agent's decisions see it: an IST trading day is cut into    *)
(* four phases at open_time, no_entry_after and square_off_time            *)
(* (src/config/base.yaml).  close_time lies after square_off_time, so the  *)
(* watcher's market_close branch never adds anything.                      *)
(***************************************************************************)
EXTENDS Integers

CONSTANTS StartTime,  \* the instant the model starts at
          MaxTime,    \* bound: the last instant of the model
          Weekend     \* the days the market is closed

ASSUME TimeAssumption ==
    /\ StartTime \in Nat
    /\ MaxTime \in Nat
    /\ StartTime <= MaxTime

VARIABLE now

Time  == 0 .. MaxTime
Days  == 0 .. MaxTime

PreOpen   == 0   \* [00:00, 09:15)
Entry     == 1   \* [09:15, 14:45)  entries allowed
NoEntry   == 2   \* [14:45, 15:15)  positions are only managed
SquareOff == 3   \* [15:15, 24:00)  positions are closed

Day(t)   == t \div 4
Phase(t) == t % 4

(* RiskEngine._gate_market_window: the time of day and the weekday of the  *)
(* instant it is given, which is the signal's timestamp.                   *)
InEntryWindow(t) == Phase(t) = Entry /\ Day(t) \notin Weekend

(* Faulty: without the stale_overnight rule.                               *)
MustExitSameDay(opened, t) == Day(opened) = Day(t) /\ Phase(t) = SquareOff

(* PositionWatcher's forced exit for a position opened at `opened`:        *)
(* stale_overnight, square_off or market_close.                            *)
MustExit(opened, t) == Day(opened) < Day(t) \/ Phase(t) = SquareOff

Tick == now < MaxTime /\ now' = now + 1
=============================================================================
