# Formal model of the trading agent

TLA+ modules, TLC configurations and TLAPS proofs for the agent of this
repository: an option-trading program that turns market data into signals,
gates them, executes them on paper and watches the positions. Paths below are
relative to the repository's root (whose Python package is `src/src/`).

## 1. The system

One process (`src/workers/ingestor.py`) runs all of the agent as asyncio tasks.
They talk through Redis streams and share a PostgreSQL journal; the operator
acts from outside through signals, an environment variable, a script and a
Telegram bot. The bot is a process of its own that can start and stop agents,
beside a launcher that can do the same; a worker refreshes the broker's session
and another the catalogue of instruments, both of which agents read from the
database.

| Component | State | Operations | Talks to |
|---|---|---|---|
| Event bus `core/bus.py` | per stream a log, per consumer group the last id delivered and the ids pending; in the consumer's memory the batch being yielded | `publish`, `ensure_group`, `consume`, `ack` | every task |
| Journal `journal/*`, `alembic/versions/0001_init.py` | tables signals, orders, trades, daily_pnl, risk_events | seven functions, a transaction each | risk, executor, watcher, runner |
| Strategy runner `strategies/runner.py` | strategies' memory | three consumer loops, `_emit` | reads bars, indicators, regime; writes signals |
| Daily test `workers/daily_test.py` | the sleep it is in (the journal is its memory) | grace, catch-up, loop, `_maybe_fire`, `_inject` | journal, signals, broker candles, alerts |
| Risk engine `risk/engine.py`, `risk/position_tracker.py` | none of its own | twelve gates, verdict, order | signals → orders; journal; broker quotes |
| Paper executor `execution/paper.py` | none | insert, quote, fill, open, update | orders → order_updates; journal |
| Position watcher `execution/position_watcher.py` | none between rounds | every 30 s: select open trades, evaluate, exit | journal; order_updates |
| Kill switch `core/kill_switch.py`, `scripts/kill_switch.py`, `notifications/bot.py` | a flag in the process, an environment setting, two Redis keys | arm, disarm, check | risk engine reads the first two |
| Strategies `strategies/orb_breakout.py`, `strategies/ema_regime.py` | per-day or per-symbol memory | `on_bar`, `on_indicator`, `on_regime` | runner |
| Indicators and regime `indicators/*`, `regime/*` | calculators, last label | consume, classify, emit on change | bars → indicators → regime |
| Broker client `broker/kite_client.py` | token bucket with its lock, cached session | rate-limited calls with retries, `invalidate` | Kite, the session |
| Broker session `auth/kite_session.py`, `workers/token_refresh.py` | table kite_tokens | look up, log in, store | Kite, every process |
| Option selector `options/selector.py`, catalogue `broker/instrument_catalog.py`, `workers/refresh_instruments.py` | table instruments | replace as a whole; choose an expiry and a strike | risk engine, Kite |
| Telegram bot `notifications/bot.py`, alerts `notifications/alerts.py` | handle of the process it started | start, stop, kill, unkill, reports, forwarding of alerts | ingestor processes, Redis |
| Market data feed `broker/kite_ws.py` | a ticker of the broker's library | callbacks publish ticks | Redis |
| Backtester `backtest/*` | none shared | offline replay, simulated trades, report | broker's history |

`src.data.*` (ticks, bars, candles, the ORM models) is imported but not part of
the repository.

**Where it is hard.** The tasks interleave at every `await`; each reads journal
state and acts on it several awaits later. An order takes three transactions
and an exit three more, with nothing that undoes or completes the first ones.
The consumer asks Redis for new messages only, so what was delivered to a
process that died is lost. A failure inside a handler is logged and the message
acknowledged; a failure of the bus itself ends the task for good. Cancellation
at shutdown stops a handler anywhere and still acknowledges its message. The
gates measure a signal's own timestamp. The strategies keep what they know of
the day in memory, which a restart clears; the indicators of one bar reach the
regime detector and the strategy one by one, through different tasks. The daily
test looks in the journal long before it writes there, in each of however many
agents run. Calls to the broker are repeated when only the answer was lost, and
logins and catalogue refreshes have nothing that serialises them with their
readers. `PROJECT.json` lists these hazards at their lines, each with the
properties that watch over it or the reason why none does.

## 2. Modules

| Module | Models |
|---|---|
| `EventBus` | one stream with one group and one consumer, as a record and operators on it: the log, the group's position, the consumer's place in its batch, the pending ids |
| `MarketClock` | time as the gates and the watcher see it: four phases a day (before open, entries, no entries, square-off), days, weekend |
| `Journal` | the four tables and every function that writes them |
| `AgentState` | what the tasks share: the streams, the journal, the kill switches, the bound on failures |
| `StrategyRunner` | `_emit` and `_inject`: journal, then publish |
| `RiskEngine` | `run_risk_loop` and `assess` |
| `PaperExecutor` | `run_executor_loop` and `execute` |
| `PositionWatcher` | `run_position_watcher` and `_evaluate_one` |
| `TradingAgent` | the process: the four tasks together, clock, operator, signal handler, shutdown, crash, restart, fairness |
| `SignalLifecycle` | abstract specification: what the trading path promises for each signal |
| `AgentProperties` | the properties, with the refinement mapping |
| `AgentInvariants` | the inductive invariants: `IndInv`, and what the refinement, the limits and the accounts need beside it |
| `MCTradingAgent` | the results a trade can have, for TLC |
| `OrbBreakout` | the ORB strategy for one underlying: `on_bar` and all it calls, bars with gaps, restarts |
| `RegimeSignals` | indicator loops, regime detector, the two consumers of the runner that feed the EMA strategy; their streams, failures, dead tasks, restarts |
| `OptionSelector` | the catalogue's replacement and a selection's four transactions; `pick_expiry`, `pick_strike` |
| `Backtest` | the replay of the daily test and the simulated trade, beside the rule of the live watcher |
| `MCStrategies` | these four for TLC, one of them per behaviour: they share no state |
| `TokenBucket` | the rate limiter: lock, credit, sleep |
| `KiteSession` | `ensure_valid_token` for several callers, the table of tokens, the sessions the broker accepts |
| `KiteClient` | `_call`: limiter, session, attempts, classification of errors, `invalidate`; the refresh worker |
| `MCBroker` | two tasks and the worker, for TLC |
| `DailyTest` | `run_daily_test_loop` in every agent process, with the journal they share |
| `BotControl` | the bot, the launcher, the processes they start and stop, the forwarding of alerts |
| `MCDeployment` | what a candle can say, for TLC |
| `CommonProofs` | lemmas that the others cite: the least element of a set of numbers, the operations of `EventBus` |
| `TradingAgentProofs` | `IndInv`, and what follows from it at once |
| `LifecycleProofs`, `GateProofs`, `LedgerProofs` | the refinement of `SignalLifecycle`; the switches and limits; the accounts of what failures cost |
| `StrategyProofs`, `BrokerProofs`, `DeploymentProofs` | theorems about the modules of `MCStrategies`, of `MCBroker` and of `MCDeployment` |

`TradingAgent` extends the four task modules, which extend `AgentState`, which
extends `EventBus` and `Journal` (and that `MarketClock`). `KiteClient` extends
`TokenBucket` and `KiteSession`; `BotControl` extends `DailyTest`, whose alerts
are a stream of `EventBus`, as are the three of `RegimeSignals`. The agent takes
what these parts give it as a free choice (which signals, when; which contract;
whether a quote comes), so that each part is checked on its own. Operators whose
comment begins with "Faulty" are deliberate faults, one plausible bug each, put
next to the definition they spoil: with the fault in place the property it
belongs to fails, which shows that the property can fail.

**State and code.** A task's variable (`risk`, `exec`, `watch`) is a record of
its program counter and its local variables; `emit` holds the same for each
signal on its way to the bus. A task can only lose the processor at an `await`,
so one action is what a task does from one await that touches shared state to
the next: each gate that opens a session, each transaction, each publication,
each acknowledgement is a step of its own. `RiskFail`, `ExecFail`, `WatchFail`
are the `except` clauses; `RiskDie`, `ExecDie` exceptions of the bus, which
leave the loop. `CrashRestart` is the end of the process at any point;
`ShutdownRestart` is what `main` does after a signal, including the
acknowledgement in each cancelled handler's `finally`. Being down is taking no
step, so a restart may come a day later.

In `DailyTest` and `BotControl` a step is again what a task does between two
awaits: `Look`, `Trend`, `Daily`, `PersistTest`, `PublishTest`, `NotifySignal`
are the calls of `_maybe_fire` and `_inject`; a process that ends takes its
test with it. A sleep is a duration. The one that follows a catch-up is
computed before it and taken after it (`wait`), so it ends late by the time the
catch-up took, even in the no-trade zone; an exception ends the task in the
catch-up, and is followed by a minute's sleep (`nap`) in the loop. A question
to the journal has no timeout, so the answer may come after midnight: it is
about the tests since the midnight before the question (`asked`), and `seen` is
the day on which a task was last told, or a call of it raised. What follows the
answer is supposed to be over by midnight, given that its client need not ask
for a code and the journal answers (`MinutePasses`). `/stop_agent` blocks the
bot, so nothing of the bot happens between `StopAgent` and `StopDone` or
`StopTimesOut`. In `KiteClient` an attempt has the outcomes the broker can give
(answered, answer lost, not sent, turned down, token refused), and
`AfterNetworkError` says which are tried again. In `KiteSession` the broker's
answer (`Exchange`) and the computation of the row's expiry (`StoreToken`) are
two steps, between which midnight may fall; a storing transaction begins with
what it sees of the table and commits later. Without a PIN and a TOTP secret
(`ManualOtp`) a login waits at a prompt for a code, with no timeout; the code
may be malformed, which ends the call. In `OrbBreakout` one step is one bar
handled: the strategy looks at the bar's own time only, so how late it is
handled cannot be observed. History variables (`fired`, `taken`, `given`,
`sent`, `shunned`, ...) are marked as such where they are declared and are read
by properties only.

**What is abstracted.** Prices and quantities appear as the net result of an
exit, chosen freely; stop and target are "some non-zero result", a forced exit
may have any result including zero. The contract is any of `Symbols`. The gates
on the quote (liquidity, spread, size) are one free refusal. A signal's
timestamp is any instant up to now: strategies stamp it with the bar or regime
update it came from. `close_time` lies after `square_off_time`, so the phases
need no fifth boundary. `MAXLEN` (about a million events) is beyond the bounds.
`risk_events` is never read; the failure of its INSERT is `RiskFail`. The
`notify` calls swallow their own failures and write to a stream the trading
path does not read.

## 3. Properties and runs

Of the trading path, safety:
- `OneEntryPerAcceptedSignal`: a signal yields at most one entry order, and
  only after its acceptance is in the journal.
- `TradesAreBacked`: each trade rests on a filled entry of its own for its
  symbol, each close on an exit order of its own; no close is overwritten.
- `FillsLostOnlyByFaults`, `ExitsLostOnlyByFaults`: the damage of failures and
  crashes is counted: each costs at most one fill without a trade, respectively
  one exit order that closed nothing *or* one close missing from the aggregate.
- `LedgerAgrees`: without failures the daily results add up to the trades'.
- `UpdatesAreJournaled`: COMPLETE is announced after the journal says so.

Action properties:
- `HaltHolds`: once a daily limit has tripped with nothing open and nothing on
  its way, it stays tripped for that day, through failures and restarts. It is
  restricted to signals of the current day: a signal of an earlier day is
  measured against that earlier day's row.
- `SwitchesHold`: while one of the two switches the engine reads is armed and
  nothing is on its way, nothing sets out.
- `SignalsOnlyAdvance`: the agent implements `SignalLifecycle`, under the
  mapping that reads a signal's stage off the streams and the tables. A signal
  may stop anywhere; nothing that happened to it is undone or happens twice.

Liveness (under `FairSpec`): `PositionsAreClosed`, `StreamsDrain`.

Of the strategies, the selector and the backtest:
- `OneSignalPerDay`, `SignalsInWindow`, `ArmedRangeIsWhole`: a restart forgets
  that the ORB strategy has fired, and it cannot fire again, because the new
  process has missed the opening; what is traded is never a range cut short.
- `CooldownHolds`, `CooldownIsForASignal`: two signals of one process keep
  their distance whatever resolutions they come from, and the cooldown never
  runs for a signal that was not made or lost by a failure.
- `RegimeFollowsBars`: the detector classifies mixtures of two bars on the way,
  but when it has read all there is, its last label is that of the latest bar:
  the direction, or `HIGH_VOL`, which comes before any direction, and the level
  of the volatility with it. It speaks of the time until something fails.
- `ChainIsThere`: a selection that found an expiry finds its contract, although
  the catalogue may be replaced between any two of its transactions.
- `FreshDumpRolls`: with a catalogue of the day, an expiry that is too near is
  never chosen. It supposes of the broker what `ExpiriesAreSpaced` says: that
  expiries are at least `SwitchDays` apart, as weekly ones are, and that the
  next one is listed before the present one is too near.
- `ExitsAgree`: when a signal gives both levels, and neither is 0, or gives
  none, the simulated trade is held through the same bars and closed at the
  same one, for the same reason, as the watcher would, with any gaps in the
  recording. The one exception is a price of 0, which stops the simulated trade
  out and which the watcher takes for no price. Where one level is missing or 0
  the two differ (section 4).

Of the broker:
- `WindowBound`: in any window no more tokens are taken than burst and refill.
- `SessionsAreShared`, `ActiveTokenIsLive`: callers that do not log in beside
  one another share one session, and it is one the broker accepts, unless the
  broker ended it or midnight fell between its answer and the computation of the
  row's expiry (`late`): such a row outlives the session by a day.
- `DuplicatesOnlyByLostAnswers`: an order is placed again only after an answer
  was lost, and a call that raises has placed one only in that case.
- `CallsReturn` (liveness): every call returns or raises, or waits for somebody
  to type a code.

Of the deployment:
- `OneTestPerDay`: one test a day in all processes together, unless two looked
  before either had journaled (that day is then in `raced`).
- `TestsLostOnlyByFaults`: a journaled test is published, about to be, or lost
  to a call that raised or with its process.
- `NoSlotPassedOver`: a process that runs past the slot of a trading day and
  sleeps to a later day has been answered by the journal that day, or a call of
  it has raised that day, however late it was started, however long its catch-up
  took and whatever raised before.
- `OneAgentPerBot`: one life of the bot never has two agents.
- `AlertsInOrder`: no alert reaches the chat twice or late;
  `StopIsAnswered` (liveness): `/stop_agent` is answered.

| Run | Instance | Shows |
|---|---|---|
| `agent_safety` | 2 signals (interchangeable, by symmetry), 1 contract, one phase, 2 failures, local and environment switch; ~430,000 states | all of the safety and action properties with crashes, failures and shutdowns anywhere |
| `agent_days` | 2 signals, 1 contract, 5 instants over two days, no failures; ~340,000 states | `LedgerAgrees`, `HaltHolds` across midnight, `StreamsDrain` |
| `agent_positions` | 1 signal, 7 instants over two days, 2 failures, with shutdowns; ~500,000 states | `PositionsAreClosed` |
| `strategies` | ORB: 3 days (one closed), 6 minutes, 3 prices, 2 restarts; regime: 2 resolutions, 2 bars of three kinds, 1 failure or restart; selector: 8 days, 4 expiries; backtest: 2 days of 4 minutes, 6 premiums, 5 pairs of levels; ~4,220,000 states | the properties of the strategies, the selector and the backtest |
| `broker` | 2 tasks and the worker, 2 calls of 2 attempts, 2 logins with a prompt, 1 session ended by the broker, 2 faults; ~1,360,000 states | the properties of the broker |
| `deployment` | 2 processes, 2 trading days of 3 minutes, 2 lives of the bot, 1 agent started by hand, 1 fault; ~2,850,000 states | the properties of the deployment |

**The bounds.** Two signals are the fewest that interact: two orders for one
contract, a limit tripped by one while the other is judged, a batch of two of
which one is lost. Every property relates at most two signals, orders or
trades. One contract makes them compete; that a trade keeps the contract of its
order is the only property that needs two, and it is proved for any number. The
identities of signals are symmetric wherever only safety is checked. Two
failures allow a failure during the recovery from another. The limits are 1 or
2, so that both signals together reach and pass them; results are -1, 0 and 1
(loss, no result, gain). Two days let a position stay overnight and a limit
lapse. `RiskBatch` 2 lets a batch hold two messages, `ExecBatch` 1 lets the
group lag behind the log. `StartTime` 1 is the first entry phase; the phase
before the open comes with the second day. `Mode` is "paper"; the other modes
only drop the order. For the strategies, an opening of three minutes of which
one may be missed, and a window of two, leave room for each way to miss, break
or exceed them; three prices make a range, a break of it and a range that is
too wide. Two bars make a label and its change, and the bars come in three
kinds, without an ATR, with a quiet one and with an extreme one, so that
`HIGH_VOL` comes, overrides a direction, and goes. Their consumers read one
message at a time (`ReadCount`): that a batch may be lost with its process
touches none of the properties, since each speaks of one life. Expiries three
days apart and a horizon of seven days always offer two on a fresh dump and may
leave one on an old one. In the backtest every subset of the minutes is a
recording, the premiums lie on both sides of the stop and the target of the
first ones and include 0, and a signal may suggest both levels, one, none, or a
stop of 0. For the broker, a burst of 1 makes the second call wait; two halves
of a date and a night let a session expire, and midnight fall within a login;
two attempts are one retry. Every login of the run `broker` has the prompt,
where a code may be typed at once: nothing the login without one does is
missing. `relogin` is without. For the deployment, a slot and a lunch hour in
three minutes and two trading days: a catch-up can be so slow that the sleep
after it ends in the no-trade zone, and an answer can come after midnight. Two
processes are the fewest that look at once or succeed each other, and one fault
reaches each `except`. The weekend is left to the theorems, which are about any
set of days. `CHECK_DEADLOCK FALSE` everywhere, because the clock and the
number of failures are bounded and an idle agent waits for ever.

**Fairness.** Weak fairness of each task's own steps: a ready task is run by
the event loop, its awaits return, and its failures are actions of their own
that nothing forces. Time passes. A process that was signalled is ended by
`main`. Nothing forces a strategy to emit, the operator to act, or a failure to
happen; nothing restarts a dead task. The shutdown is fair together with the
restart after it: `PositionsAreClosed` speaks of an agent that is started
again, since without one nobody closes anything. `KiteFairness`: the limiter's
sleep ends, the broker answers in some way, the event loop resumes what is
ready, and the posts of the login have timeouts; the prompt is left out, because
nobody has to type a code. `BotFairness`: a blocking wait of the bot ends, with
the process or by its ten seconds; nothing forces a command, a crash or a
restart.

## 4. Findings

All but the last are runs that are expected to fail. `PROJECT.json` quotes the
line that each contradicts:

- `redis_switch`: the Redis switches, of the script and of the bot, stop
  nothing: `check_redis_kill_switch` is imported by the engine and never
  called. The trace arms one, emits a signal afterwards, and executes its order
  while the switch is still armed (`SwitchStopsNewSignals`).
- `kill_at_send`: no switch is looked at when an order is placed; an order left
  on the stream is placed by an agent restarted with the switch set.
- `duplicates`: two positions for one symbol, because the gate sees trades and
  not orders on their way.
- `late_entry`: the entry window is that of the signal's timestamp, not of the
  moment of the decision or the order.
- `reconcile`: there is no reconciler; a filled order whose trade was not
  written stays that way.
- `relogin`: `invalidate` is said to force a login on the next call; it clears
  a cache, and the next call reads the refused token from the table again.
- a comment of the simulator (`src/src/backtest/simulator.py`, line 13) says
  that the live watcher hardcodes its levels and ignores those of the signal.
  It reads them, and `ExitsAgree`, which the run `strategies` checks, says how
  far the two agree. They differ where one level is missing or 0: the simulator
  replaces each by its own default and takes 0 for missing, the watcher
  replaces both or none and keeps 0. And they differ at a price of 0.

## 5. Proofs

Every invariant and every action property that a passing run checks is also a
theorem, for any set of signals, contracts, tasks or processes, any limits and
batch sizes, any number of failures, restarts and days. The assumptions are
those stated next to the constants; TLC evaluates them in every run.

| Theorem | Statement |
|---|---|
| *The agent* | |
| `Invariance` | `Spec => []IndInv` |
| `TypeCorrect` | `Spec => []TypeOK` |
| `EntryOnce`, `Backed`, `Announced` | `Spec => []OneEntryPerAcceptedSignal`, `[]TradesAreBacked`, `[]UpdatesAreJournaled` |
| `LifecycleRefined` | `Spec => SignalsOnlyAdvance`: the agent implements `SignalLifecycle` |
| `LimitsHold` | `Spec => HaltHolds` |
| `SwitchesReadHold` | `Spec => SwitchesHold`, if `KillLayers` has only the two switches the engine reads |
| `FillsAccounted`, `ExitsAccounted` | `Spec => []FillsLostOnlyByFaults`, `[]ExitsLostOnlyByFaults` |
| `LedgersAgree` | `Spec => []LedgerAgrees` |
| *Strategies, selector, backtest* | |
| `OrbInvariant`, `OrbTyped` | `OrbSpec => []OrbInv`, `[]OrbTypeOK` |
| `OrbFiresOnce`, `OrbFiresInWindow`, `OrbRangeIsWhole` | `OrbSpec => []OneSignalPerDay`, `[]SignalsInWindow`, `[]ArmedRangeIsWhole` |
| `RegimeTyped` | `RegimeSpec => []RegimeTypeOK` |
| `SignalsAreApart`, `CooldownsAreEarned` | `RegimeSpec => []CooldownHolds`, `[]CooldownIsForASignal` |
| `LabelsFollowBars` | `RegimeSpec => []RegimeFollowsBars` |
| `SelectorTyped`, `ContractsAreFound` | `SelectorSpec => []SelectorTypeOK`, `[]ChainIsThere` |
| `FreshDumpsRoll` | `SelectorSpec => []FreshDumpRolls`, if `ExpiriesAreSpaced` |
| `BacktestAgrees` | `BacktestSpec => []ExitsAgree` |
| *The broker* | |
| `BucketBoundsWindows` | `BucketSpec => []WindowBound` |
| `ClientTyped`, `ClientBoundsWindows`, `ClientDuplicates` | `KiteSpec => []ClientTypeOK`, `[]WindowBound`, `[]DuplicatesOnlyByLostAnswers` |
| `SessionInvariance` | `KiteSpec => []SesInv` |
| `OneSessionShared`, `TokensHandedOutAreLive` | `KiteSpec => []SessionsAreShared`, `[]ActiveTokenIsLive` |
| *The deployment* | |
| `DeploymentTypes` | `BotSpec => []BotTypeOK` |
| `BotRunsOneAgent` | `BotSpec => []OneAgentPerBot` |
| `DayHasOneTest`, `TestsAreKept` | `BotSpec => []OneTestPerDay`, `[]TestsLostOnlyByFaults` |
| `SlotsAreLookedAt` | `BotSpec => []NoSlotPassedOver` |
| `AlertsStayInOrder` | `BotSpec => []AlertsInOrder` |

Two theorems have a hypothesis. `SwitchesReadHold` excludes the Redis switches,
which the run `redis_switch` shows to stop nothing. `FreshDumpsRoll` supposes
that the broker's expiries are spaced; `MCStrategies` assumes it of its own
expiries, so TLC evaluates that the run is an instance of the theorem.

**The invariant of the agent.** None of the properties about the tables is
inductive: they are kept by where the tasks and the messages stand. That an
entry order is unique per signal, for instance, holds because a signal is
published once (`PublishedOnce`), taken once (the position of a stream never
goes back, even across a restart: `RestartStreams`), ordered once and only while
it is in the risk engine's hand, and inserted once while that order is in the
executor's hand (`EntriesAreOrdered`). The verdict comes before the order
(`VerdictFirst`); that an entry is of an *accepted* signal rests on the foreign
key, because a signal whose INSERT failed is judged and ordered all the same.
`RowInHand` and `ExitInHand` say what the executor's and the watcher's local
row ids point at, step by step; in particular the trades a round has still to
evaluate are open, so `close_trade` overwrites nothing. `TradingAgentProofs` has
a lemma per task for the types and one for the invariant, with a step for each
action; what each bus operation keeps is stated once, in `CommonProofs`.

**The refinement.** `LifecycleProofs` first says what each transaction does to
the tables (`WhatInsertDoes` to `WhatCloseDoes`), then reads a signal's stage as
the last of six marks, each resting on the one before (`MarksInOrder`). A step
then moves one signal by one edge, or none (`StepsAdvance`). Beside `IndInv` it
needs `LifeInv`: a signal has no verdict before the risk engine is done with it,
so a verdict never overwrites another, and an order row that names a signal is
an entry, so an exit marks no signal's progress.

**The gates.** Both properties say that nothing sets out once the pipeline is
empty. `InFlightStep` reduces them to the steps that take a signal and pass a
gate. For the limits the day matters as well: a limit stays tripped because the
aggregate of a day is only written by a close, of which there is none while the
agent is flat, and because a signal of the day is measured against that row.
`BookedAfterSignal`, that an aggregate with something in it means that a signal
was taken, settles the day's end.

**The accounts.** The three properties that count what failures cost hold by
double-entry: what was lost, plus what an announced shutdown will drop, is at
most the failures so far plus what a task has in hand (`FillAccount`,
`ExitAccount`). A transaction moves one item between the two sides, and
`StaysPaid` is the arithmetic of all of them; `Financing` says where a step's
allowance comes from. `NetAccount` does the same for the results. Sums are a
recursive function, `Total`, and there is no induction over data to be had, but
`LeastNat` takes its place: the partial sums up to the least index where two of
them differ agree below it, so they do not differ (`PartialSumsAgree`,
`PartialSumsExist`, `TotalChange`).

**Strategies.** `OrbInv` ties the strategy's memory to the bars the process has
handled: a state that may still arm was made by a process that saw the opening,
so once a day has a signal, no state of that day may arm again. For the regime,
`WillKnow` says what the detector will know of an indicator when it has read all
there is, and `BarsArrive` that this is the latest bar's value, once published;
so a drained stream leaves the detector with the latest bar, whatever mixtures
it classified before. `CooldownRuns` says the same of the strategy's clock and
the signals of its life. The selector's invariant says that catalogue and worker
hold whole dumps (`DumpsAreWhole`) and that a selection under way found its
expiry in a dump which the catalogue has only replaced by newer ones
(`SelectionIsOfToday`). In the backtest the simulator and the watcher compare
the same percentages in two forms (`StopLemma`, `TargetLemma`); the moment of
the square-off is a quotient on one side and a remainder on the other, and
quotients are unique (`QuotientLemma`). It holds only because both look at their
reasons in one order, which `ExitReason` and `WatcherVerdict` therefore keep,
and, for levels that are clear, because both then take the same ones, given or
default (`LevelsAreClear`); any premiums and levels are allowed.

**The broker.** The bound of the limiter follows from a budget: at any past
instant, what was taken since and what the bucket would hold now add up to no
more than the burst and the time gone by. Duplicates follow from an account of
each call: its orders at the broker are its lost answers, and one more if it has
returned. `SesInv` says that, unless two logins overlapped, whoever logs in is
alone and found no session of the day, and will retire the one active row there
is (`OneLogin`); and that the broker keeps the session of every active row, and
of one about to be stored, until it expires, unless its expiry was computed on a
later date than that of the broker's answer (`SessionsLive`). The client's steps
are steps of the limiter and of the session (`ClientUsesBucket`,
`ClientUsesSessions`), so their invariants carry over.

**The deployment.** `TestsOfADay` says of a day without a race that while a
test asks, no row of the day exists and no other test asks, and that while it
waits to be published nothing of the day is given; `Owners` that no process
belongs to a later life of the bot than the present one; `AlertsBehind` that
what was sent lies behind the forwarder's place in the stream. `SlotInv` says
that no sleep ends two days away, that a nap ends on the day of the failure or
at its midnight, and that past the look a task has been answered today;
`SleepLemma` says on which day a sleep of so many minutes ends.

**Only model-checked.** The four liveness properties: `StreamsDrain`,
`PositionsAreClosed`, `CallsReturn` and `StopIsAnswered`. They
rest on fairness, and so on `ENABLED`, which the prover does not reason about.
The runs that are expected to fail are counterexamples and need no proof.

## 6. Not modelled, and the plan

Not modelled:
- the market-data tasks and the feed: what consumes the ticks is in `src.data`,
  which is not in the repository; `broker/kite_ws.py` hands ticks over and
  nothing starts its watchdog, so nothing of it can be stated that relies on it;
- floating-point arithmetic: indicators, Black-Scholes prices, confidences,
  percentages. Where a decision depends on a value, the value is a free choice;
- the report of the backtest, which adds up, and the replay of the live
  strategies in `backtest/engine.py`: it calls the components of `OrbBreakout`
  and `RegimeSignals` in sequence and has no state beside theirs. A replay is
  the behaviour in which each bar is handled completely before the next one;
  the live tasks have others;
- configuration (its values are constants), formatting, logging, the reports of
  the bot, health checks and one-off scripts, which have no state of their own.

Next:
1. An abstract at-most-once channel that `EventBus` refines, and "each consumer
   sees each event once" (`src/core/bus.py`, line 6) measured against it.
2. `OptionSelector` and `TokenBucket` against abstract specifications: a
   selection that is atomic, and a bound on windows without a lock or a sleep.
3. Two agents on one journal: `TradingAgent` composed with `BotControl`, two
   watchers that evaluate the same trades.
4. Sizing and the simulated fill price as operators.
