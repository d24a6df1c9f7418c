--------------------------- MODULE RegimeSignals ----------------------------
(***************************************************************************)
(* From closed bars to the signals of the EMA-regime strategy, for one     *)
(* underlying: an indicator loop per resolution (src/src/indicators/),     *)
(* the regime detector (src/src/regime/), and the two consumer tasks of    *)
(* the strategy runner that feed src/src/strategies/ema_regime.py.         *)
(*                                                                         *)
(* The indicators of one bar are separate messages, read by the detector   *)
(* and by the strategy through groups of their own; the detector's labels  *)
(* reach the strategy through a third stream and another task.  Nothing    *)
(* ties the three together but the order within each stream.  Everything   *)
(* the tasks remember is lost when the process is restarted.               *)
(***************************************************************************)
EXTENDS EventBus, Integers

CONSTANTS Resolutions,  \* e.g. "1minute" and the coarser "5minute"
          Coarse,       \* the resolutions the strategy asks for confirmation
          BarValues,    \* the values the indicators can have at the close of a bar
          Feeds,        \* bound: the orders in which the bars can close
          MaxBars,      \* bound: the bars of a behaviour
          Quiet,        \* the bar times at which on_regime ignores everything
          Cooldown,     \* cooldown_seconds, in bar times
          ReadCount,    \* count of the consumers' XREADGROUP
          MaxFailures   \* bound: failures and restarts

ASSUME RegimeAssumption ==
    /\ Coarse \subseteq Resolutions
    /\ BarValues \subseteq [{"ema20", "ema50", "atr14"} -> Nat]
    /\ \A v \in BarValues : v["ema20"] # 0 /\ v["ema50"] # 0
    /\ MaxBars \in Nat
    /\ Feeds \subseteq UNION {[1 .. n -> Resolutions] : n \in 0 .. MaxBars}
    /\ Cooldown \in Nat /\ MaxFailures \in Nat
    /\ ReadCount \in Nat \ {0}

VARIABLES feed,      \* the resolutions of the bars, in the order they close
          calc,      \* per resolution: the bar whose indicators are being published
          toDet,     \* stream of indicators, group regime-detector
          toStrat,   \* the same stream, group strategy-runner-ind
          det,       \* per resolution: snapshot and last label of the detector
          detTask,   \* the regime loop
          regimes,   \* stream of regime updates, group strategy-runner
          strat,     \* the strategy's state of the underlying
          stratTask, \* the two consumers: the signals in hand, and who is dead
          signals,   \* what was published to stream:signals
          now,       \* the time of the latest bar
          life,      \* model only: the restarts so far
          failures,  \* model only: all failures so far
          broken     \* history: a failure has happened in this life

regimeVars == <<feed, calc, toDet, toStrat, det, detTask, regimes, strat, stratTask,
                signals, now, life, failures, broken>>

(* An indicator that has no value yet, and a label or signal there is none *)
(* of.  (An ATR of exactly zero would be low like any other low one: it is *)
(* not among the values.)                                                  *)
None == 0
NoLabel == "none"

EmaNames == {"ema20", "ema50"}
Names    == EmaNames \cup {"atr14"}
Levels   == {v[n] : v \in BarValues, n \in Names} \ {None}
Times    == 1 .. MaxBars
Labels   == {"unknown", "up", "down", "range", "high_vol", "low_vol"}
Sides    == {"CE", "PE"}

Indicator == [res : Resolutions, name : Names, value : Levels, ts : Times]
Regime    == [res : Resolutions, label : Labels, ts : Times]
Signal    == [side : Sides, ts : Times, life : Nat]

(* A snapshot, of the detector or of the strategy: the latest value seen   *)
(* of each indicator, whichever bar it is of.                              *)
Snapshot  == [Names -> Levels \cup {None}]
NoSnap    == [n \in Names |-> None]
EmaValues == [EmaNames -> Levels \cup {None}]

NoBar == [values |-> NoSnap, ts |-> 0, life |-> 0]

RegimeTypeOK ==
    /\ feed \in Feeds
    /\ calc \in [Resolutions -> [todo : SUBSET Names,
                                 bar : [values : Snapshot, ts : 0 .. MaxBars, life : Nat]]]
    /\ toDet \in Stream(Indicator) /\ WellFormed(toDet)
    /\ toStrat \in Stream(Indicator) /\ WellFormed(toStrat)
    /\ det \in [Resolutions -> [snap : Snapshot, last : Labels \cup {NoLabel},
                                sent : Labels \cup {NoLabel}]]
    /\ detTask \in {"idle", "publish", "dead"}
    /\ regimes \in Stream(Regime) /\ WellFormed(regimes)
    /\ strat \in [ema : [Resolutions -> EmaValues], lastSignal : 0 .. MaxBars]
    /\ stratTask \in [hand : Seq(Signal), dead : SUBSET {"ind", "regime"}]
    /\ signals \in Seq(Signal)
    /\ now \in 0 .. MaxBars
    /\ life \in Nat /\ failures \in 0 .. MaxFailures /\ broken \in BOOLEAN

NewDetector == [r \in Resolutions |-> [snap |-> NoSnap, last |-> NoLabel, sent |-> NoLabel]]
NewStrategy == [ema |-> [r \in Resolutions |-> [n \in EmaNames |-> None]], lastSignal |-> 0]
NewTask     == [hand |-> <<>>, dead |-> {}]

RegimeInit ==
    /\ feed \in Feeds
    /\ calc = [r \in Resolutions |-> [todo |-> {}, bar |-> NoBar]]
    /\ toDet = EmptyStream /\ toStrat = EmptyStream /\ regimes = EmptyStream
    /\ det = NewDetector
    /\ detTask = "idle"
    /\ strat = NewStrategy
    /\ stratTask = NewTask
    /\ signals = <<>>
    /\ now = 0 /\ life = 0 /\ failures = 0 /\ broken = FALSE

Fail == failures < MaxFailures /\ failures' = failures + 1 /\ broken' = TRUE

NoFail == UNCHANGED <<failures, broken>>

-----------------------------------------------------------------------------
(* Indicators.                                                             *)

(* run_indicator_loop takes the next bar of its resolution and             *)
(* IndicatorCalculator.update computes its values: any, the arithmetic is  *)
(* left out.  The ATR has none for the first bars, unless they come from   *)
(* the candles of the warm-up, and then always has one.  The previous      *)
(* bar's values are published or given up by then.                         *)
HasNoAtrYet(r) == calc[r].bar.life # life \/ calc[r].bar.values["atr14"] = None

(* Faulty: the ATR is sent before it has a value.                          *)
ComputedOrNot(v) == Names

(* _emit_updates: what has no value is not sent.                           *)
Computed(v) == {n \in Names : v[n] # None}

NextBar(r, v) ==
    /\ now < Len(feed) /\ r = feed[now + 1]
    /\ calc[r].todo = {}
    /\ v["atr14"] = None => HasNoAtrYet(r)
    /\ now' = now + 1
    /\ calc' = [calc EXCEPT ![r] = [todo |-> Computed(v),
                                    bar |-> [values |-> v, ts |-> now + 1, life |-> life]]]
    /\ NoFail
    /\ UNCHANGED <<feed, toDet, toStrat, det, detTask, regimes, strat, stratTask, signals, life>>

(* _emit_updates lists the EMAs before the ATR.  (The RSI and the VWAP     *)
(* change no label.)                                                       *)
Following(todo) ==
    IF "ema20" \in todo THEN "ema20" ELSE IF "ema50" \in todo THEN "ema50" ELSE "atr14"

PublishIndicator(r) ==
    /\ calc[r].todo # {}
    /\ LET n == Following(calc[r].todo)
           m == [res |-> r, name |-> n, value |-> calc[r].bar.values[n], ts |-> calc[r].bar.ts]
       IN  /\ toDet' = Publish(toDet, m)
           /\ toStrat' = Publish(toStrat, m)
           /\ calc' = [calc EXCEPT ![r].todo = @ \ {n}]
    /\ NoFail
    /\ UNCHANGED <<feed, det, detTask, regimes, strat, stratTask, signals, now, life>>

(* A publication fails: the rest of the bar's indicators are not sent.     *)
IndicatorFails(r) ==
    /\ calc[r].todo # {}
    /\ Fail
    /\ calc' = [calc EXCEPT ![r].todo = {}]
    /\ UNCHANGED <<feed, toDet, toStrat, det, detTask, regimes, strat, stratTask, signals, now, life>>

-----------------------------------------------------------------------------
(* Regime detector.                                                        *)

(* classify: the trend needs a spread of 0.15% of the close, for which the *)
(* loop takes the latest EMA20; an ATR of 1.2% of it overrides the trend,  *)
(* and one below 0.2% tells the quiet ranges from the others.              *)
AtrIsHigh(snap) == snap["atr14"] # None /\ 1000 * snap["atr14"] >= 12 * snap["ema20"]
AtrIsLow(snap)  == snap["atr14"] # None /\ 1000 * snap["atr14"] < 2 * snap["ema20"]

Classify(snap) ==
    LET spread == snap["ema20"] - snap["ema50"] IN
    IF snap["ema20"] = None \/ snap["ema50"] = None THEN "unknown"
    ELSE IF AtrIsHigh(snap) THEN "high_vol"
    ELSE IF 10000 * spread >= 15 * snap["ema20"] THEN "up"
    ELSE IF -10000 * spread >= 15 * snap["ema20"] THEN "down"
    ELSE IF AtrIsLow(snap) THEN "low_vol" ELSE "range"

(* Faulty: classifies on the EMA20 only, to see each bar once.             *)
DetectOnEma20 ==
    /\ detTask = "idle" /\ HasNext(toDet)
    /\ LET taken == Take(toDet, ReadCount)
           m == Current(taken)
           snap == [det[m.res].snap EXCEPT ![m.name] = m.value]
           label == IF m.name = "ema20" THEN Classify(snap) ELSE det[m.res].last
       IN  /\ det' = [det EXCEPT ![m.res] = [@ EXCEPT !.snap = snap, !.last = label]]
           /\ IF label # det[m.res].last
              THEN detTask' = "publish" /\ toDet' = taken
              ELSE detTask' = "idle"    /\ toDet' = Ack(taken)
    /\ NoFail
    /\ UNCHANGED <<feed, calc, toStrat, regimes, strat, stratTask, signals, now, life>>

(* update_indicator, classify_current and should_emit, which records the   *)
(* label before it is published.                                           *)
Detect ==
    /\ detTask = "idle" /\ HasNext(toDet)
    /\ LET taken == Take(toDet, ReadCount)
           m == Current(taken)
           snap == [det[m.res].snap EXCEPT ![m.name] = m.value]
       IN  /\ det' = [det EXCEPT ![m.res] = [@ EXCEPT !.snap = snap, !.last = Classify(snap)]]
           /\ IF Classify(snap) # det[m.res].last
              THEN detTask' = "publish" /\ toDet' = taken
              ELSE detTask' = "idle"    /\ toDet' = Ack(taken)
    /\ NoFail
    /\ UNCHANGED <<feed, calc, toStrat, regimes, strat, stratTask, signals, now, life>>

DetectPublish ==
    /\ detTask = "publish"
    /\ LET m == Current(toDet) IN
           /\ regimes' = Publish(regimes, [res |-> m.res, label |-> det[m.res].last, ts |-> m.ts])
           /\ det' = [det EXCEPT ![m.res].sent = det[m.res].last]
    /\ detTask' = "idle"
    /\ toDet' = Ack(toDet)
    /\ NoFail
    /\ UNCHANGED <<feed, calc, toStrat, strat, stratTask, signals, now, life>>

DetectFails ==
    /\ detTask = "publish"
    /\ Fail
    /\ detTask' = "idle"
    /\ toDet' = Ack(toDet)
    /\ UNCHANGED <<feed, calc, toStrat, det, regimes, strat, stratTask, signals, now, life>>

(* XACK or XREADGROUP fails: the exception leaves the loop.                *)
DetectDies ==
    /\ detTask = "idle"
    /\ Fail
    /\ detTask' = "dead"
    /\ UNCHANGED <<feed, calc, toDet, toStrat, det, regimes, strat, stratTask, signals, now, life>>

-----------------------------------------------------------------------------
(* The strategy.                                                           *)

(* _consume_indicators: on_indicator only remembers.  The ATR sizes the    *)
(* stop of a signal, which is left out.                                    *)
OnIndicator ==
    /\ "ind" \notin stratTask.dead /\ HasNext(toStrat)
    /\ LET taken == Take(toStrat, ReadCount)
           m == Current(taken)
       IN  /\ strat' = IF m.name \in EmaNames
                       THEN [strat EXCEPT !.ema[m.res][m.name] = m.value] ELSE strat
           /\ toStrat' = Ack(taken)
    /\ NoFail
    /\ UNCHANGED <<feed, calc, toDet, det, detTask, regimes, stratTask, signals, now, life>>

(* htf_trend_5m and htf_trend_15m: the sign of EMA20 - EMA50 of the coarse *)
(* bars; a resolution without values, or without a trend, does not object. *)
Objects(r, side) ==
    LET e == strat.ema[r] IN
    /\ e["ema20"] # None /\ e["ema50"] # None
    /\ IF side = "CE" THEN e["ema20"] < e["ema50"] ELSE e["ema20"] > e["ema50"]

Direction(label) == CASE label = "up" -> "CE" [] label = "down" -> "PE" [] OTHER -> NoLabel

(* Faulty: one bar short.                                                  *)
CoolingDownShort(ts) == strat.lastSignal # 0 /\ ts - strat.lastSignal + 1 < Cooldown

CoolingDown(ts) == strat.lastSignal # 0 /\ ts - strat.lastSignal < Cooldown

(* on_regime; the RSI, whose value is left out, may veto.                  *)
Wanted(m, vetoed) ==
    /\ Direction(m.label) # NoLabel
    /\ m.ts \notin Quiet
    /\ ~CoolingDown(m.ts)
    /\ ~vetoed
    /\ \A r \in Coarse : ~Objects(r, Direction(m.label))

(* Faulty: the cooldown starts before the filters have had their say.      *)
OnRegimeEager(vetoed) ==
    /\ "regime" \notin stratTask.dead /\ stratTask.hand = <<>> /\ HasNext(regimes)
    /\ LET taken == Take(regimes, ReadCount)
           m == Current(taken)
       IN  /\ strat' = IF Direction(m.label) # NoLabel /\ ~CoolingDown(m.ts)
                       THEN [strat EXCEPT !.lastSignal = m.ts] ELSE strat
           /\ IF Wanted(m, vetoed)
              THEN /\ stratTask' = [stratTask EXCEPT
                         !.hand = <<[side |-> Direction(m.label), ts |-> m.ts, life |-> life]>>]
                   /\ regimes' = taken
              ELSE regimes' = Ack(taken) /\ UNCHANGED stratTask
    /\ NoFail
    /\ UNCHANGED <<feed, calc, toDet, toStrat, det, detTask, signals, now, life>>

OnRegime(vetoed) ==
    /\ "regime" \notin stratTask.dead /\ stratTask.hand = <<>> /\ HasNext(regimes)
    /\ LET taken == Take(regimes, ReadCount)
           m == Current(taken)
       IN  IF Wanted(m, vetoed)
           THEN /\ strat' = [strat EXCEPT !.lastSignal = m.ts]
                /\ stratTask' = [stratTask EXCEPT
                      !.hand = <<[side |-> Direction(m.label), ts |-> m.ts, life |-> life]>>]
                /\ regimes' = taken
           ELSE /\ regimes' = Ack(taken)
                /\ UNCHANGED <<strat, stratTask>>
    /\ NoFail
    /\ UNCHANGED <<feed, calc, toDet, toStrat, det, detTask, signals, now, life>>

(* _emit and the acknowledgement.                                          *)
EmitSignal ==
    /\ stratTask.hand # <<>>
    /\ signals' = signals \o stratTask.hand
    /\ stratTask' = [stratTask EXCEPT !.hand = <<>>]
    /\ regimes' = Ack(regimes)
    /\ NoFail
    /\ UNCHANGED <<feed, calc, toDet, toStrat, det, detTask, strat, now, life>>

(* The publication of the signal fails: it is gone, the cooldown runs.     *)
EmitFails ==
    /\ stratTask.hand # <<>>
    /\ Fail
    /\ stratTask' = [stratTask EXCEPT !.hand = <<>>]
    /\ regimes' = Ack(regimes)
    /\ UNCHANGED <<feed, calc, toDet, toStrat, det, detTask, strat, signals, now, life>>

ConsumerDies(who) ==
    /\ who \notin stratTask.dead
    /\ Fail
    /\ stratTask' = [hand |-> IF who = "regime" THEN <<>> ELSE stratTask.hand,
                     dead |-> stratTask.dead \cup {who}]
    /\ UNCHANGED <<feed, calc, toDet, toStrat, det, detTask, regimes, strat, signals, now, life>>

-----------------------------------------------------------------------------
(* The process ends and starts anew, with an empty memory, where its       *)
(* groups are.  The calculators warm up from stored candles.               *)
Restart ==
    /\ failures < MaxFailures
    /\ failures' = failures + 1
    /\ broken' = FALSE
    /\ life' = life + 1
    /\ calc' = [r \in Resolutions |-> [calc[r] EXCEPT !.todo = {}]]
    /\ det' = NewDetector
    /\ detTask' = "idle"
    /\ strat' = NewStrategy
    /\ stratTask' = NewTask
    /\ toDet' = Forget(toDet) /\ toStrat' = Forget(toStrat) /\ regimes' = Forget(regimes)
    /\ UNCHANGED <<feed, signals, now>>

IndicatorNext == \E r \in Resolutions : PublishIndicator(r) \/ IndicatorFails(r)
                                        \/ \E v \in BarValues : NextBar(r, v)
DetectorNext  == Detect \/ DetectPublish \/ DetectFails \/ DetectDies
StrategyNext  == \/ OnIndicator \/ EmitSignal \/ EmitFails
                 \/ \E vetoed \in BOOLEAN : OnRegime(vetoed)
                 \/ \E who \in {"ind", "regime"} : ConsumerDies(who)

RegimeNext == IndicatorNext \/ DetectorNext \/ StrategyNext \/ Restart

RegimeSpec == RegimeInit /\ [][RegimeNext]_regimeVars
-----------------------------------------------------------------------------
(* "Cooldown: per-underlying, defends against label flapping": two signals *)
(* of one process are at least the cooldown apart, whichever resolutions   *)
(* they come from and however the updates interleave.                      *)
CooldownHolds ==
    \A i, j \in 1 .. Len(signals) :
        i < j /\ signals[i].life = signals[j].life => signals[j].ts - signals[i].ts >= Cooldown

(* Nothing is on its way from the indicators to the detector's stream.     *)
DetectorIsIdle == /\ \A r \in Resolutions : calc[r].todo = {}
                  /\ detTask = "idle" /\ ~HasNext(toDet)

(* What the detector should know of the latest bar of r: its values, and   *)
(* the ATR of an earlier process when the bar has none.                    *)
LatestOf(r) ==
    LET values == calc[r].bar.values IN
    [values EXCEPT !["atr14"] = IF @ = None THEN det[r].snap["atr14"] ELSE @]

(* The indicators of a bar arrive one by one, so the detector classifies   *)
(* mixtures of two bars on the way; but once it has read all there is, and *)
(* nothing failed since the process started, the label it has published    *)
(* last is that of the latest bar, its volatility included.                *)
RegimeFollowsBars ==
    DetectorIsIdle /\ ~broken =>
        \A r \in Resolutions :
            calc[r].bar.ts # 0 /\ calc[r].bar.life = life =>
                det[r].sent = Classify(LatestOf(r))

(* The cooldown runs for a signal that exists, is in hand, or was lost by  *)
(* a failure of this process.                                              *)
CooldownIsForASignal ==
    \/ broken
    \/ strat.lastSignal = 0
    \/ stratTask.hand # <<>> /\ stratTask.hand[1].ts = strat.lastSignal
    \/ \E i \in 1 .. Len(signals) : signals[i].ts = strat.lastSignal /\ signals[i].life = life
=============================================================================
