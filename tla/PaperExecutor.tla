--------------------------- MODULE PaperExecutor ----------------------------
(***************************************************************************)
(* The executor task: run_executor_loop and PaperExecutor.execute          *)
(* (src/src/execution/paper.py).                                           *)
(*                                                                         *)
(* An order takes three transactions (insert PENDING, mark COMPLETE, open  *)
(* the trade) and a quote between the first two.  Nothing undoes the first *)
(* ones when a later one fails.                                            *)
(***************************************************************************)
EXTENDS AgentState

CONSTANT ExecBatch      \* count of the XREADGROUP

ASSUME ExecAssumption == ExecBatch \in Nat \ {0}

VARIABLE exec    \* the task: where it is, and the row id it was given

ExecTask == [pc : {"idle", "insert", "quote", "fill", "open", "report", "ack",
                   "dead"},
             row : Nat]

ExecTypeOK == exec \in ExecTask

ExecIdle == [pc |-> "idle", row |-> 0]

ExecInit == exec = ExecIdle

Order == Current(orderStream)

-----------------------------------------------------------------------------
(* Live mode is not wired to anything: the order is dropped.               *)
ExecReceive ==
    /\ exec.pc = "idle"
    /\ HasNext(orderStream)
    /\ orderStream' = Take(orderStream, ExecBatch)
    /\ exec' = [ExecIdle EXCEPT !.pc = IF Mode \in {"paper", "shadow"}
                                       THEN "insert" ELSE "ack"]
    /\ UNCHANGED <<now, tables, signalStream, updates, kill, faults>>

ExecInsert ==
    /\ exec.pc = "insert"
    /\ ForeignKeyHolds(Order.signal)
    /\ InsertOrder(Order.signal, Order.symbol, "BUY", "PENDING")
    /\ exec' = [pc |-> "quote", row |-> Len(orders')]
    /\ UNCHANGED <<now, signals, trades, dailyPnl, signalStream, orderStream,
                   updates, kill, faults>>

(* The signal was never journaled: the INSERT raises, the loop logs it.    *)
ExecInsertRefused ==
    /\ exec.pc = "insert"
    /\ ~ForeignKeyHolds(Order.signal)
    /\ exec' = [ExecIdle EXCEPT !.pc = "ack"]
    /\ UNCHANGED shared

(* Faulty: the update is sent as soon as there is a price.                 *)
ExecQuoteAnnounces ==
    /\ exec.pc = "quote"
    /\ updates' = updates \cup {[row |-> exec.row, status |-> "COMPLETE"]}
    /\ exec' = [exec EXCEPT !.pc = "fill"]
    /\ UNCHANGED <<now, tables, signalStream, orderStream, kill, faults>>

ExecQuote ==
    /\ exec.pc = "quote"
    /\ exec' = [exec EXCEPT !.pc = "fill"]
    /\ UNCHANGED shared

(* No quote, or no price in it: an update says REJECTED, the row does not. *)
ExecNoQuote ==
    /\ exec.pc = "quote"
    /\ updates' = updates \cup {[row |-> exec.row, status |-> "REJECTED"]}
    /\ exec' = [ExecIdle EXCEPT !.pc = "ack"]
    /\ UNCHANGED <<now, tables, signalStream, orderStream, kill, faults>>

ExecFill ==
    /\ exec.pc = "fill"
    /\ MarkOrderFilled(exec.row)
    /\ exec' = [exec EXCEPT !.pc = "open"]
    /\ UNCHANGED <<now, signals, trades, dailyPnl, signalStream, orderStream,
                   updates, kill, faults>>

(* Faulty: the entry order is taken to be the newest row.                  *)
ExecOpenNewest ==
    /\ exec.pc = "open"
    /\ OpenTrade(Len(orders), Order.symbol, now)
    /\ exec' = [exec EXCEPT !.pc = "report"]
    /\ UNCHANGED <<now, signals, orders, dailyPnl, signalStream, orderStream,
                   updates, kill, faults>>

(* Faulty: no second trade in a symbol, although its order has filled.     *)
ExecOpenOnce ==
    /\ exec.pc = "open"
    /\ IF IsPositionOpenFor(Order.symbol) THEN UNCHANGED trades
       ELSE OpenTrade(exec.row, Order.symbol, now)
    /\ exec' = [exec EXCEPT !.pc = "report"]
    /\ UNCHANGED <<now, signals, orders, dailyPnl, signalStream, orderStream,
                   updates, kill, faults>>

ExecOpen ==
    /\ exec.pc = "open"
    /\ OpenTrade(exec.row, Order.symbol, now)
    /\ exec' = [exec EXCEPT !.pc = "report"]
    /\ UNCHANGED <<now, signals, orders, dailyPnl, signalStream, orderStream,
                   updates, kill, faults>>

ExecReport ==
    /\ exec.pc = "report"
    /\ updates' = updates \cup {[row |-> exec.row, status |-> "COMPLETE"]}
    /\ exec' = [ExecIdle EXCEPT !.pc = "ack"]
    /\ UNCHANGED <<now, tables, signalStream, orderStream, kill, faults>>

ExecAck ==
    /\ exec.pc = "ack"
    /\ orderStream' = Ack(orderStream)
    /\ exec' = ExecIdle
    /\ UNCHANGED <<now, tables, signalStream, updates, kill, faults>>

(* An exception in the handler: logged, and the order is acknowledged.     *)
ExecFail ==
    /\ exec.pc \in {"insert", "quote", "fill", "open", "report"}
    /\ Fault
    /\ exec' = [ExecIdle EXCEPT !.pc = "ack"]
    /\ UNCHANGED <<now, tables, signalStream, orderStream, updates, kill>>

(* An exception of XREADGROUP or of XACK ends the task.                    *)
ExecDie ==
    /\ exec.pc \in {"idle", "ack"}
    /\ Fault
    /\ exec' = [ExecIdle EXCEPT !.pc = "dead"]
    /\ UNCHANGED <<now, tables, signalStream, orderStream, updates, kill>>

ExecStep == ExecReceive \/ ExecInsert \/ ExecInsertRefused \/ ExecQuote
            \/ ExecNoQuote \/ ExecFill \/ ExecOpen \/ ExecReport \/ ExecAck

ExecNext == ExecStep \/ ExecFail \/ ExecDie
=============================================================================
