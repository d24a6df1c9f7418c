------------------------------ MODULE Journal -------------------------------
(***************************************************************************)
(* The journal: the four PostgreSQL tables the trading path reads and      *)
(* writes (src/alembic/versions/0001_init.py) and the functions that write *)
(* them (src/src/journal/, each one a transaction of its own).  A row id   *)
(* is the row's position in its table.                                     *)
(*                                                                         *)
(* Data kept: a signal row's verdict, an order row's signal, symbol, side  *)
(* and status, a trade's entry and exit order and its net P&L, and the     *)
(* columns of daily_pnl the risk gates read.  A quantity or a price only   *)
(* matters through the P&L of the exit.                                    *)
(***************************************************************************)
EXTENDS Integers, Sequences, FiniteSets, MarketClock

CONSTANTS Signals,    \* identities (event_id) of the signals of a behaviour
          NoSignal,   \* signal_event_id NULL, what an exit order carries
          Symbols,    \* the option contracts the selector can return
          Pnl         \* the net results a trade can be closed with

ASSUME JournalAssumption ==
    /\ NoSignal \notin Signals
    /\ Symbols # {}
    /\ Pnl \subseteq Int
    /\ 0 \in Pnl

VARIABLES signals,    \* table signals: event_id -> verdict, "none" if no row
          orders,     \* table orders
          trades,     \* table trades
          dailyPnl    \* table daily_pnl: day -> aggregate, zero if no row

tables == <<signals, orders, trades, dailyPnl>>

Verdicts == {"none", "new", "accepted", "rejected"}

OrderRow == [signal : Signals \cup {NoSignal}, symbol : Symbols,
             side : {"BUY", "SELL"}, status : {"PENDING", "COMPLETE"}]

TradeRow == [entry : Nat, symbol : Symbols, opened : Time,
             exit : Nat, pnl : Int]        \* exit = 0 while the trade is open

DailyRow == [count : Nat, net : Int, streak : Nat]

EmptyDay == [count |-> 0, net |-> 0, streak |-> 0]

JournalTypeOK ==
    /\ signals \in [Signals -> Verdicts]
    /\ orders \in Seq(OrderRow)
    /\ trades \in Seq(TradeRow)
    /\ dailyPnl \in [Days -> DailyRow]

JournalInit ==
    /\ signals = [s \in Signals |-> "none"]
    /\ orders = <<>>
    /\ trades = <<>>
    /\ dailyPnl = [d \in Days |-> EmptyDay]

-----------------------------------------------------------------------------
(* What the risk engine's PositionTracker and the watcher read.            *)

IsOpen(k) == trades[k].exit = 0

OpenTrades == {k \in DOMAIN trades : IsOpen(k)}

CountOpen == Cardinality(OpenTrades)

IsPositionOpenFor(sym) == \E k \in OpenTrades : trades[k].symbol = sym

-----------------------------------------------------------------------------
(* The transactions.  Each says what becomes of its own table.             *)

(* persist_signal: insert unless the event_id is there already.            *)
PersistSignal(s) ==
    signals' = IF signals[s] = "none" THEN [signals EXCEPT ![s] = "new"]
                                      ELSE signals

(* mark_signal_outcome: an UPDATE, which finds no row of a signal that was *)
(* never persisted.                                                        *)
MarkSignalOutcome(s, verdict) ==
    signals' = IF signals[s] = "none" THEN signals
                                      ELSE [signals EXCEPT ![s] = verdict]

(* The foreign key orders.signal_event_id -> signals.event_id.             *)
ForeignKeyHolds(s) == s = NoSignal \/ signals[s] # "none"

(* insert_order_from_request, and the INSERT of an exit order.             *)
InsertOrder(s, sym, side, status) ==
    orders' = Append(orders, [signal |-> s, symbol |-> sym,
                              side |-> side, status |-> status])

(* mark_order_filled: client_order_id is unique, so it names one row.      *)
MarkOrderFilled(row) ==
    orders' = [orders EXCEPT ![row] = [@ EXCEPT !.status = "COMPLETE"]]

(* open_trade                                                              *)
OpenTrade(row, sym, t) ==
    trades' = Append(trades, [entry |-> row, symbol |-> sym, opened |-> t,
                              exit |-> 0, pnl |-> 0])

(* close_trade: whatever the row holds, it is overwritten.                 *)
CloseTrade(k, exitRow, pnl) ==
    trades' = [trades EXCEPT ![k] = [@ EXCEPT !.exit = exitRow, !.pnl = pnl]]

(* Faulty: the update sets the day's result instead of adding to it.       *)
UpsertLastPnl(d, pnl) ==
    dailyPnl' = [dailyPnl EXCEPT ![d] =
        [count  |-> @.count + 1,
         net    |-> pnl,
         streak |-> IF pnl > 0 THEN 0 ELSE @.streak + 1]]

(* upsert_daily_pnl: a result that is not a gain counts as a loss.         *)
UpsertDailyPnl(d, pnl) ==
    dailyPnl' = [dailyPnl EXCEPT ![d] =
        [count  |-> @.count + 1,
         net    |-> @.net + pnl,
         streak |-> IF pnl > 0 THEN 0 ELSE @.streak + 1]]
=============================================================================
