---------------------------- MODULE MCStrategies ----------------------------
(***************************************************************************)
(* Both strategies, the option selector and the backtest for TLC.  They    *)
(* share no state, so each behaviour runs one of them: interleaving would  *)
(* add nothing.                                                            *)
(***************************************************************************)
EXTENDS OrbBreakout, RegimeSignals, OptionSelector, Backtest

VARIABLE part

Init ==
    /\ part \in {"orb", "regime", "selector", "backtest"}
    /\ OrbInit /\ RegimeInit /\ SelectorInit
    /\ IF part = "backtest" THEN BacktestInit ELSE bars = {} /\ day = 0 /\ trade = NoTrade

Next ==
    /\ UNCHANGED part
    /\ \/ part = "orb" /\ OrbNext /\ UNCHANGED <<regimeVars, selectorVars, backtestVars>>
       \/ part = "regime" /\ RegimeNext /\ UNCHANGED <<orbVars, selectorVars, backtestVars>>
       \/ part = "selector" /\ SelectorNext /\ UNCHANGED <<orbVars, regimeVars, backtestVars>>
       \/ part = "backtest" /\ BacktestNext /\ UNCHANGED <<orbVars, regimeVars, selectorVars>>

Spec == Init /\ [][Next]_<<part, orbVars, regimeVars, selectorVars, backtestVars>>

(* A fall before the ATR has a value; a later one on a higher level, which *)
(* looks like a rise until its EMA50 is there; and a rise that an extreme  *)
(* ATR overrides.                                                          *)
Low  == [ema20 |-> 1000, ema50 |-> 1002, atr14 |-> 0]
High == [ema20 |-> 1004, ema50 |-> 1006, atr14 |-> 5]
Wild == [ema20 |-> 1004, ema50 |-> 1002, atr14 |-> 13]

LowHighAndWild == {Low, High, Wild}

(* Two bars of one resolution, or of two resolutions side by side.         *)
FeedsUsed == {<<"5minute", "5minute">>, <<"1minute", "5minute">>}

(* Levels of the breakout strategy, tighter ones, none, and the ones on    *)
(* which backtest and watcher differ: one missing, one of 0.               *)
SuggestedUsed ==
    {[stop |-> 30, target |-> 60], [stop |-> 29, target |-> 59], [stop |-> Unset, target |-> Unset],
     [stop |-> Unset, target |-> 59], [stop |-> 0, target |-> 60]}

(* The expiries of the run satisfy what FreshDumpsRoll supposes of them.   *)
ASSUME ExpiriesUsed == ExpiriesAreSpaced
=============================================================================
