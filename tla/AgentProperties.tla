-------------------------- MODULE AgentProperties ---------------------------
(***************************************************************************)
(* What makes the trading path correct, stated over TradingAgent.          *)
(***************************************************************************)
EXTENDS TradingAgent

Entries == {i \in DOMAIN orders : orders[i].side = "BUY"}
Exits   == {i \in DOMAIN orders : orders[i].side = "SELL"}
Closed  == {k \in DOMAIN trades : trades[k].exit # 0}

-----------------------------------------------------------------------------
(* Safety: the journal tells one consistent story, across any failure.     *)

(* A signal yields at most one entry order, and only after its acceptance  *)
(* was journaled: delivery through the two streams, the verdict written    *)
(* before the order is published, and the foreign key, together, across    *)
(* restarts.                                                               *)
OneEntryPerAcceptedSignal ==
    /\ \A i \in Entries : signals[orders[i].signal] = "accepted"
    /\ \A i, j \in Entries : orders[i].signal = orders[j].signal => i = j

(* Every trade rests on a filled entry order for its symbol, which backs   *)
(* no other trade; a closed trade also has an exit order of its own.       *)
TradesAreBacked ==
    /\ \A k \in DOMAIN trades :
          /\ trades[k].entry \in Entries
          /\ orders[trades[k].entry].status = "COMPLETE"
          /\ orders[trades[k].entry].symbol = trades[k].symbol
    /\ \A j, k \in DOMAIN trades : trades[j].entry = trades[k].entry => j = k
    /\ \A k \in Closed :
          /\ trades[k].exit \in Exits
          /\ orders[trades[k].exit].symbol = trades[k].symbol
    /\ \A j, k \in Closed : trades[j].exit = trades[k].exit => j = k

(* Filled entries that no trade records: the watcher never sees them.      *)
OrphanFills ==
    {i \in Entries : /\ orders[i].status = "COMPLETE"
                     /\ \A k \in DOMAIN trades : trades[k].entry # i}

(* Exit orders that closed nothing: the position is sold again later.      *)
OrphanExits == {i \in Exits : \A k \in Closed : trades[k].exit # i}

(* f[0] + ... + f[n]                                                       *)
Total(f, n) ==
    LET sum[k \in 0 .. n] == f[k] + (IF k = 0 THEN 0 ELSE sum[k - 1])
    IN  sum[n]

(* The closes in the daily aggregates, day by day and in all.              *)
DayCounts == [d \in Days |-> dailyPnl[d].count]
Booked    == Total(DayCounts, MaxTime)

OneIf(b) == IF b THEN 1 ELSE 0

(* An entry takes two transactions after its insertion: a failure between  *)
(* them leaves at most one fill without a trade, and without a failure     *)
(* only the entry in progress is in that state.                            *)
FillsLostOnlyByFaults ==
    Cardinality(OrphanFills) <= faults + OneIf(exec.pc = "open")

(* An exit takes three transactions: a failure costs at most one extra     *)
(* exit order or one close missing from the daily aggregate, never both,   *)
(* and the aggregate never counts a close twice.                           *)
ExitsLostOnlyByFaults ==
    /\ Booked <= Cardinality(Closed)
    /\ Cardinality(OrphanExits) + (Cardinality(Closed) - Booked)
          <= faults + OneIf(watch.pc \in {"close", "rollup"})

DayNets   == [d \in Days |-> dailyPnl[d].net]
TradeNets == [k \in 0 .. Len(trades) |-> IF k = 0 THEN 0 ELSE trades[k].pnl]

(* The daily net results add up to those of the closed trades, unless a    *)
(* failure has come between the two tables.                                *)
LedgerAgrees ==
    faults = 0 =>
        Total(DayNets, MaxTime) =
            Total(TradeNets, Len(trades))
            - (IF watch.pc = "rollup" THEN watch.pnl ELSE 0)

-----------------------------------------------------------------------------
(* Safety: the gates, seen over the whole pipeline.                        *)

Today == dailyPnl[Day(now)]

Tripped(g) == CASE g = 1 -> Today.streak >= MaxConsecutiveLosses
                [] g = 2 -> Today.count >= MaxTradesPerDay
                [] g = 3 -> Today.net <= -MaxDailyLoss

(* No entry is on its way: no order to execute, no signal past gate g.     *)
NoEntryInFlight(g) ==
    /\ ~HasNext(orderStream)
    /\ exec.pc \in {"idle", "ack", "dead", "report"}
    /\ risk.pc \notin {"contract", "publish"}
    /\ risk.pc = "outcome" => ~risk.accepted
    /\ risk.pc = "gate" => risk.gate <= g

(* Nor is any position open, or its exit still to be booked.               *)
Flat ==
    /\ OpenTrades = {}
    /\ watch.pc \in {"sleep", "report"}

(* Every signal that may still reach the gates carries today's date.  (One *)
(* of an earlier day is measured against that day's limits.)               *)
OnlyTodaysSignals ==
    /\ \A s \in Signals : emit[s].pc = "publish" => Day(emit[s].ts) = Day(now)
    /\ \A j \in DOMAIN signalStream.log :
          j >= signalStream.at => Day(signalStream.log[j].ts) = Day(now)

(* Once a daily limit has tripped and the agent is flat, it stays halted   *)
(* and flat for the rest of the day, through failures and restarts: the    *)
(* gates need no latch of their own.                                       *)
HaltHolds ==
    [][\A g \in 1 .. 3 :
          /\ Tripped(g) /\ Flat /\ NoEntryInFlight(g)
          /\ OnlyTodaysSignals /\ OnlyTodaysSignals'
          => (Tripped(g) /\ Flat /\ NoEntryInFlight(g))']_vars

(* While a kill switch is armed no entry sets out: the two layers the      *)
(* engine reads (CheapGatesPass) let no new signal through.                *)
SwitchesHold ==
    [][kill # {} /\ kill' # {} /\ NoEntryInFlight(0) => NoEntryInFlight(0)']_vars

(* A published fill or exit is in the journal: the update comes after the  *)
(* transactions it announces, so COMPLETE names a row that is COMPLETE and *)
(* whose trade is recorded (as the entry or the exit of one).              *)
UpdatesAreJournaled ==
    \A u \in updates : u.status = "COMPLETE" =>
        /\ u.row \in DOMAIN orders /\ orders[u.row].status = "COMPLETE"
        /\ \E k \in DOMAIN trades : u.row \in {trades[k].entry, trades[k].exit}

-----------------------------------------------------------------------------
(* Refinement: the life of a signal, read off the streams and the tables.  *)

TradesOf(s) == {k \in DOMAIN trades : orders[trades[k].entry].signal = s}
OrdersOf(s) == {i \in DOMAIN orders : orders[i].signal = s}

StageOf(s) ==
    CASE TradesOf(s) \cap Closed # {} -> "closed"
      [] TradesOf(s) # {} /\ TradesOf(s) \cap Closed = {} -> "open"
      [] TradesOf(s) = {} /\ OrdersOf(s) # {} ->
            IF \E i \in OrdersOf(s) : orders[i].status = "COMPLETE"
            THEN "filled" ELSE "placed"
      [] OTHER ->
            IF \E j \in DOMAIN orderStream.log : orderStream.log[j].signal = s
            THEN "ordered"
            ELSE IF signals[s] \in {"accepted", "rejected"} THEN signals[s]
            ELSE IF \E j \in DOMAIN signalStream.log : signalStream.log[j].id = s
            THEN "emitted" ELSE "fresh"

Lifecycle == INSTANCE SignalLifecycle
                WITH stage <- [s \in Signals |-> StageOf(s)]

(* The agent implements SignalLifecycle: across crashes, failures and      *)
(* restarts a signal only moves forward, one step and one signal at a      *)
(* time; no verdict, fill or close is ever taken back or repeated.         *)
SignalsOnlyAdvance == Lifecycle!Spec

-----------------------------------------------------------------------------
(* Liveness, under FairSpec.                                               *)

(* Every position is closed: by its stop or target, at square-off, or as a *)
(* stale one on a later day, whatever crashes and failures come between.   *)
PositionsAreClosed ==
    \A k \in 1 .. Cardinality(Signals) :
        k \in DOMAIN trades ~> (k \in DOMAIN trades /\ ~IsOpen(k))

Drained(s) == ~HasNext(s) /\ s.pending = {}

(* Without a failure, whatever is published is handled to the end and      *)
(* acknowledged.                                                           *)
StreamsDrain ==
    []<>(faults > 0 \/ (Drained(signalStream) /\ Drained(orderStream)))

-----------------------------------------------------------------------------
(* What the repository says of the agent and the code does not do: each of *)
(* these is refuted by a run.                                              *)

(* "four hard kill-switches, any one of which halts all new orders"        *)
(* (src/README.md): a signal that is not even emitted when a switch is     *)
(* armed gets no order, unless all switches are off again.                 *)
SwitchStopsNewSignals ==
    \A s \in Signals :
        [](kill # {} /\ emit[s].pc = "fresh" => <>(kill = {}) \/ [](OrdersOf(s) = {}))

(* "Order placement must call ensure_disarmed() before every send"         *)
(* (src/src/core/kill_switch.py): while the process's own switch or its    *)
(* environment's is armed, no entry order is placed.                       *)
DisarmedBeforeSend ==
    [][kill \cap {"local", "env"} # {} => Entries' = Entries]_vars

(* "The risk engine blocks duplicate same-symbol entries"                  *)
(* (src/src/strategies/runner.py): no two open positions share a symbol.   *)
NoDuplicatePosition ==
    \A j, k \in OpenTrades : trades[j].symbol = trades[k].symbol => j = k

(* no_entry_after (src/config/base.yaml) and "market window (entry allowed *)
(* at this time-of-day, IST)" (src/src/risk/engine.py): a position is only *)
(* opened when entries are allowed.                                        *)
EntriesInWindow == \A k \in DOMAIN trades : InEntryWindow(trades[k].opened)

(* "Reconciliation runs every 60s and on every restart"                    *)
(* (src/docs/architecture.md): a fill that no trade records is noticed.    *)
FillsAreReconciled ==
    \A i \in 1 .. Cardinality(Signals) :
        i \in OrphanFills ~> i \notin OrphanFills
=============================================================================
