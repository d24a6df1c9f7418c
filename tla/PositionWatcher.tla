-------------------------- MODULE PositionWatcher ---------------------------
(***************************************************************************)
(* The watcher task: run_position_watcher and _evaluate_one                *)
(* (src/src/execution/position_watcher.py).                                *)
(*                                                                         *)
(* Each round takes the open trades once and evaluates them one after the  *)
(* other.  An exit takes three transactions: the exit order, the trade,    *)
(* the daily aggregate.                                                    *)
(***************************************************************************)
EXTENDS AgentState

VARIABLE watch    \* the task: where it is, and its local variables

(* todo: the trades of this round still to evaluate; trade: the one being  *)
(* exited; seen: the time its evaluation began; pnl: what the exit price   *)
(* yields; row: the exit order.                                            *)
WatchTask == [pc : {"sleep", "round", "exit", "close", "rollup", "report"},
              todo : SUBSET Nat, trade : Nat, seen : Time, pnl : Int, row : Nat]

WatchTypeOK == watch \in WatchTask

WatchSleep == [pc |-> "sleep", todo |-> {}, trade |-> 0, seen |-> StartTime,
               pnl |-> 0, row |-> 0]

WatchInit == watch = WatchSleep

(* The evaluation of a trade is over: the next one, or the sleep.          *)
NextTrade(todo) == IF todo = {} THEN WatchSleep
                   ELSE [WatchSleep EXCEPT !.pc = "round", !.todo = todo]

-----------------------------------------------------------------------------
(* SELECT ... WHERE closed_at IS NULL.  A round without a trade is no step. *)
WatchSelect ==
    /\ watch.pc = "sleep"
    /\ OpenTrades # {}
    /\ watch' = NextTrade(OpenTrades)
    /\ UNCHANGED shared

(* The trade is in range, or there is no price and nothing forces an exit. *)
WatchKeep(k) ==
    /\ watch.pc = "round" /\ k \in watch.todo
    /\ ~MustExit(trades[k].opened, now)
    /\ watch' = NextTrade(watch.todo \ {k})
    /\ UNCHANGED shared

(* Faulty: the trade stays on the list of the round.                       *)
WatchDecideAgain(k, pnl) ==
    /\ watch.pc = "round" /\ k \in watch.todo
    /\ MustExit(trades[k].opened, now) \/ pnl # 0
    /\ watch' = [watch EXCEPT !.pc = "exit", !.trade = k,
                              !.seen = now, !.pnl = pnl]
    /\ UNCHANGED shared

(* The exit is decided: a forced one at whatever price there is (the entry *)
(* price, hence no result, when there is none), otherwise a stop loss or a *)
(* take profit.                                                            *)
WatchDecide(k, pnl) ==
    /\ watch.pc = "round" /\ k \in watch.todo
    /\ MustExit(trades[k].opened, now) \/ pnl # 0
    /\ watch' = [watch EXCEPT !.pc = "exit", !.todo = @ \ {k}, !.trade = k,
                              !.seen = now, !.pnl = pnl]
    /\ UNCHANGED shared

WatchExitOrder ==
    /\ watch.pc = "exit"
    /\ InsertOrder(NoSignal, trades[watch.trade].symbol, "SELL", "COMPLETE")
    /\ watch' = [watch EXCEPT !.pc = "close", !.row = Len(orders')]
    /\ UNCHANGED <<now, signals, trades, dailyPnl, signalStream, orderStream,
                   updates, kill, faults>>

WatchClose ==
    /\ watch.pc = "close"
    /\ CloseTrade(watch.trade, watch.row, watch.pnl)
    /\ watch' = [watch EXCEPT !.pc = "rollup"]
    /\ UNCHANGED <<now, signals, orders, dailyPnl, signalStream, orderStream,
                   updates, kill, faults>>

(* The day is the one on which the evaluation began.                       *)
WatchRollup ==
    /\ watch.pc = "rollup"
    /\ UpsertDailyPnl(Day(watch.seen), watch.pnl)
    /\ watch' = [watch EXCEPT !.pc = "report"]
    /\ UNCHANGED <<now, signals, orders, trades, signalStream, orderStream,
                   updates, kill, faults>>

WatchReport ==
    /\ watch.pc = "report"
    /\ updates' = updates \cup {[row |-> watch.row, status |-> "COMPLETE"]}
    /\ watch' = NextTrade(watch.todo)
    /\ UNCHANGED <<now, tables, signalStream, orderStream, kill, faults>>

(* An exception in the evaluation of a trade (its signal's stop and target *)
(* cannot be read, or a transaction fails): logged, the round goes on.     *)
WatchFail ==
    /\ \/ /\ watch.pc = "round"
          /\ \E k \in watch.todo : watch' = NextTrade(watch.todo \ {k})
       \/ /\ watch.pc \in {"exit", "close", "rollup", "report"}
          /\ watch' = NextTrade(watch.todo)
    /\ Fault
    /\ UNCHANGED <<now, tables, signalStream, orderStream, updates, kill>>

WatchStep ==
    \/ WatchSelect
    \/ \E k \in watch.todo : WatchKeep(k)
    \/ \E k \in watch.todo, pnl \in Pnl : WatchDecide(k, pnl)
    \/ WatchExitOrder \/ WatchClose \/ WatchRollup \/ WatchReport

WatchNext == WatchStep \/ WatchFail
=============================================================================
