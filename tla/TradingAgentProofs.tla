------------------------- MODULE TradingAgentProofs -------------------------
(***************************************************************************)
(* IndInv is an invariant of Spec, for any set of signals and symbols, any *)
(* limits, any number of days and of failures, and with it the properties  *)
(* of the journal it implies.                                              *)
(***************************************************************************)
EXTENDS AgentInvariants, CommonProofs, SequenceTheorems

-----------------------------------------------------------------------------
(* Types.                                                                  *)

(* The day of an instant is a day.                                         *)
LEMMA DayType == \A t \in Time : Day(t) \in Days
BY TimeAssumption DEF Time, Day, Days

(* The states the tasks start in are of their types.                       *)
LEMMA IdleTypes == /\ RiskIdle \in RiskTask /\ ExecIdle \in ExecTask
                   /\ WatchSleep \in WatchTask
<1>1. (CHOOSE sym \in Symbols : TRUE) \in Symbols
  BY JournalAssumption
<1>2. StartTime \in Time
  BY TimeAssumption DEF Time
<1>. QED
  BY <1>1, <1>2 DEF RiskIdle, RiskTask, ExecIdle, ExecTask, WatchSleep, WatchTask

(* A row appended to a table leaves the other rows as they were.           *)
LEMMA AppendRow ==
    ASSUME NEW S, NEW table \in Seq(S), NEW row \in S
    PROVE  /\ Append(table, row) \in Seq(S)
           /\ Len(Append(table, row)) = Len(table) + 1
           /\ DOMAIN Append(table, row) = 1 .. Len(table) + 1
           /\ DOMAIN table = 1 .. Len(table)
           /\ Len(table) \in Nat
           /\ \A i \in DOMAIN table : Append(table, row)[i] = table[i]
           /\ Append(table, row)[Len(table) + 1] = row
OBVIOUS

(* So does the update of one row.                                          *)
LEMMA UpdateRow ==
    ASSUME NEW S, NEW table \in Seq(S), NEW i \in DOMAIN table, NEW row \in S
    PROVE  /\ [table EXCEPT ![i] = row] \in Seq(S)
           /\ DOMAIN [table EXCEPT ![i] = row] = DOMAIN table
           /\ [table EXCEPT ![i] = row][i] = row
           /\ \A j \in DOMAIN table : j # i => [table EXCEPT ![i] = row][j] = table[j]
BY ExceptSeq

(* So is the watcher's state when the evaluation of a trade is over.       *)
LEMMA NextTradeType ==
    ASSUME NEW todo \in SUBSET Nat
    PROVE  NextTrade(todo) \in WatchTask
BY IdleTypes DEF NextTrade, WatchTask, WatchSleep

(* The agent starts in a state of the right type.                          *)
LEMMA InitType == Init => TypeOK
<1>. SUFFICES ASSUME Init PROVE TypeOK
  OBVIOUS
<1>1. StartTime \in Time
  BY TimeAssumption DEF Time
<1>2. JournalTypeOK
  <2>1. EmptyDay \in DailyRow
    BY DEF EmptyDay, DailyRow
  <2>. QED
    BY <2>1 DEF Init, SharedInit, JournalInit, JournalTypeOK, Verdicts
<1>3. /\ EmptyStream \in Stream(SignalEvent) /\ EmptyStream \in Stream(OrderEvent)
      /\ WellFormed(EmptyStream)
  BY DEF EmptyStream, Stream, WellFormed
<1>4. EmitTypeOK
  BY <1>1 DEF Init, EmitInit, EmitTypeOK, Emission
<1>. QED
  BY <1>1, <1>2, <1>3, <1>4, IdleTypes, StateAssumption
  DEF Init, SharedInit, TypeOK, SharedTypeOK, RiskInit, RiskTypeOK,
      ExecInit, ExecTypeOK, WatchInit, WatchTypeOK

-----------------------------------------------------------------------------
(* The types of the tables after one transaction.                          *)

(* mark_signal_outcome keeps the type of the table signals.                *)
LEMMA VerdictType ==
    ASSUME JournalTypeOK, NEW s \in Signals, NEW verdict \in Verdicts,
           MarkSignalOutcome(s, verdict)
    PROVE  signals' \in [Signals -> Verdicts]
BY DEF JournalTypeOK, MarkSignalOutcome, Verdicts

(* persist_signal keeps the type of the table signals.                     *)
LEMMA PersistType ==
    ASSUME JournalTypeOK, NEW s \in Signals, PersistSignal(s)
    PROVE  signals' \in [Signals -> Verdicts]
BY DEF JournalTypeOK, PersistSignal, Verdicts

(* The INSERT of an order keeps the type of the table orders.              *)
LEMMA InsertType ==
    ASSUME JournalTypeOK, NEW s \in Signals \cup {NoSignal}, NEW sym \in Symbols,
           NEW side \in {"BUY", "SELL"}, NEW status \in {"PENDING", "COMPLETE"},
           InsertOrder(s, sym, side, status)
    PROVE  /\ orders' \in Seq(OrderRow)
           /\ DOMAIN orders' = 1 .. Len(orders) + 1
           /\ DOMAIN orders = 1 .. Len(orders)
           /\ Len(orders) \in Nat
           /\ Len(orders') = Len(orders) + 1
           /\ \A i \in DOMAIN orders : orders'[i] = orders[i]
           /\ orders'[Len(orders')] = [signal |-> s, symbol |-> sym,
                                      side |-> side, status |-> status]
<1> DEFINE row == [signal |-> s, symbol |-> sym, side |-> side, status |-> status]
<1>1. row \in OrderRow
  BY DEF OrderRow
<1>2. orders \in Seq(OrderRow) /\ orders' = Append(orders, row)
  BY DEF JournalTypeOK, InsertOrder
<1>. HIDE DEF row
<1>3. /\ Append(orders, row) \in Seq(OrderRow)
      /\ Len(Append(orders, row)) = Len(orders) + 1
      /\ DOMAIN Append(orders, row) = 1 .. Len(orders) + 1
      /\ DOMAIN orders = 1 .. Len(orders)
      /\ Len(orders) \in Nat
      /\ \A i \in DOMAIN orders : Append(orders, row)[i] = orders[i]
      /\ Append(orders, row)[Len(orders) + 1] = row
  BY <1>1, <1>2, AppendRow
<1>4. orders'[Len(orders')] = row
  BY <1>2, <1>3
<1>. QED
  BY <1>2, <1>3, <1>4 DEF row

(* mark_order_filled keeps the type of the table orders.                   *)
LEMMA FilledType ==
    ASSUME JournalTypeOK, NEW row \in DOMAIN orders, MarkOrderFilled(row)
    PROVE  /\ orders' \in Seq(OrderRow)
           /\ DOMAIN orders' = DOMAIN orders
           /\ \A i \in DOMAIN orders :
                 /\ orders'[i].signal = orders[i].signal
                 /\ orders'[i].symbol = orders[i].symbol
                 /\ orders'[i].side = orders[i].side
                 /\ orders'[i].status = IF i = row THEN "COMPLETE"
                                                   ELSE orders[i].status
<1> DEFINE filled == [orders[row] EXCEPT !.status = "COMPLETE"]
<1>1. orders \in Seq(OrderRow) /\ orders' = [orders EXCEPT ![row] = filled]
  BY DEF JournalTypeOK, MarkOrderFilled
<1>2. orders[row] \in OrderRow
  BY <1>1
<1>3. /\ filled \in OrderRow
      /\ filled.signal = orders[row].signal
      /\ filled.symbol = orders[row].symbol
      /\ filled.side = orders[row].side
      /\ filled.status = "COMPLETE"
  BY <1>2 DEF OrderRow
<1>. HIDE DEF filled
<1>4. /\ orders' \in Seq(OrderRow)
      /\ DOMAIN orders' = DOMAIN orders
      /\ orders'[row] = filled
      /\ \A j \in DOMAIN orders : j # row => orders'[j] = orders[j]
  BY <1>1, <1>3, UpdateRow
<1>. QED
  BY <1>3, <1>4

(* open_trade keeps the type of the table trades.                          *)
LEMMA OpenType ==
    ASSUME JournalTypeOK, NEW row \in Nat, NEW sym \in Symbols, now \in Time,
           OpenTrade(row, sym, now)
    PROVE  /\ trades' \in Seq(TradeRow)
           /\ DOMAIN trades' = 1 .. Len(trades) + 1
           /\ DOMAIN trades = 1 .. Len(trades)
           /\ Len(trades) \in Nat
           /\ \A k \in DOMAIN trades : trades'[k] = trades[k]
           /\ trades'[Len(trades) + 1].entry = row
           /\ trades'[Len(trades) + 1].symbol = sym
           /\ trades'[Len(trades) + 1].exit = 0
<1> DEFINE trade == [entry |-> row, symbol |-> sym, opened |-> now,
                     exit |-> 0, pnl |-> 0]
<1>1. trade \in TradeRow /\ trade.entry = row /\ trade.symbol = sym /\ trade.exit = 0
  BY DEF TradeRow
<1>2. trades \in Seq(TradeRow) /\ trades' = Append(trades, trade)
  BY DEF JournalTypeOK, OpenTrade
<1>. HIDE DEF trade
<1>. QED
  BY <1>1, <1>2, AppendRow

(* close_trade keeps the type of the table trades.                         *)
LEMMA CloseType ==
    ASSUME JournalTypeOK, NEW k \in DOMAIN trades, NEW row \in Nat, NEW pnl \in Int,
           CloseTrade(k, row, pnl)
    PROVE  /\ trades' \in Seq(TradeRow)
           /\ DOMAIN trades' = DOMAIN trades
           /\ \A j \in DOMAIN trades :
                 /\ trades'[j].entry = trades[j].entry
                 /\ trades'[j].symbol = trades[j].symbol
                 /\ trades'[j].exit = IF j = k THEN row ELSE trades[j].exit
<1> DEFINE trade == [trades[k] EXCEPT !.exit = row, !.pnl = pnl]
<1>1. trades \in Seq(TradeRow) /\ trades' = [trades EXCEPT ![k] = trade]
  BY DEF JournalTypeOK, CloseTrade
<1>2. trades[k] \in TradeRow
  BY <1>1
<1>3. /\ trade \in TradeRow
      /\ trade.entry = trades[k].entry
      /\ trade.symbol = trades[k].symbol
      /\ trade.exit = row
  BY <1>2 DEF TradeRow
<1>. HIDE DEF trade
<1>4. /\ trades' \in Seq(TradeRow)
      /\ DOMAIN trades' = DOMAIN trades
      /\ trades'[k] = trade
      /\ \A j \in DOMAIN trades : j # k => trades'[j] = trades[j]
  BY <1>1, <1>3, UpdateRow
<1>. QED
  BY <1>3, <1>4

(* upsert_daily_pnl keeps the type of the table daily_pnl.                 *)
LEMMA DailyType ==
    ASSUME JournalTypeOK, NEW d \in Days, NEW pnl \in Int, UpsertDailyPnl(d, pnl)
    PROVE  dailyPnl' \in [Days -> DailyRow]
<1> DEFINE row == [count  |-> dailyPnl[d].count + 1,
                   net    |-> dailyPnl[d].net + pnl,
                   streak |-> IF pnl > 0 THEN 0 ELSE dailyPnl[d].streak + 1]
<1>1. dailyPnl[d] \in DailyRow
  BY DEF JournalTypeOK
<1>2. /\ dailyPnl[d].count + 1 \in Nat
      /\ dailyPnl[d].net + pnl \in Int
      /\ (IF pnl > 0 THEN 0 ELSE dailyPnl[d].streak + 1) \in Nat
  BY <1>1 DEF DailyRow
<1>3. row \in DailyRow
  BY <1>2 DEF DailyRow
<1>4. dailyPnl' = [dailyPnl EXCEPT ![d] = row]
  BY DEF UpsertDailyPnl
<1>. QED
  BY <1>3, <1>4 DEF JournalTypeOK

-----------------------------------------------------------------------------
(* Every step keeps the types.                                             *)

(* The message in hand is one that was published.                          *)
LEMMA SignalType ==
    ASSUME TypeOK, MessageInHand, risk.pc \notin {"idle", "dead"}
    PROVE  /\ signalStream.at \in DOMAIN signalStream.log
           /\ Signal \in SignalEvent
           /\ Signal.id \in Signals
<1>1. /\ signalStream.log \in Seq(SignalEvent)
      /\ signalStream.at \in Nat /\ signalStream.last \in Nat
      /\ signalStream.at <= signalStream.last
      /\ signalStream.last <= Len(signalStream.log)
      /\ signalStream.at >= 1
  BY DEF TypeOK, SharedTypeOK, Stream, WellFormed, MessageInHand
<1>2. signalStream.at \in 1 .. Len(signalStream.log)
  BY <1>1
<1>3. signalStream.log[signalStream.at] \in SignalEvent
  BY <1>1, <1>2, ElementOfSeq
<1>. QED
  BY <1>1, <1>2, <1>3 DEF Signal, Current, SignalEvent

(* So is the order in hand.                                                *)
LEMMA OrderType ==
    ASSUME TypeOK, MessageInHand, exec.pc \notin {"idle", "dead"}
    PROVE  /\ orderStream.at \in DOMAIN orderStream.log
           /\ Order \in OrderEvent
           /\ Order.signal \in Signals /\ Order.symbol \in Symbols
<1>1. /\ orderStream.log \in Seq(OrderEvent)
      /\ orderStream.at \in Nat /\ orderStream.last \in Nat
      /\ orderStream.at <= orderStream.last
      /\ orderStream.last <= Len(orderStream.log)
      /\ orderStream.at >= 1
  BY DEF TypeOK, SharedTypeOK, Stream, WellFormed, MessageInHand
<1>2. orderStream.at \in 1 .. Len(orderStream.log)
  BY <1>1
<1>3. orderStream.log[orderStream.at] \in OrderEvent
  BY <1>1, <1>2, ElementOfSeq
<1>. QED
  BY <1>1, <1>2, <1>3 DEF Order, Current, OrderEvent

(* The failures stay within their bound.                                   *)
LEMMA FaultType == ASSUME faults \in 0 .. MaxFaults, Fault PROVE faults' \in 0 .. MaxFaults
BY StateAssumption DEF Fault

(* Every step of an emission keeps the types.                              *)
LEMMA EmitType ==
    ASSUME TypeOK, EmitNext, UNCHANGED <<risk, exec, watch>>
    PROVE  TypeOK'
<1>1. RiskTypeOK' /\ ExecTypeOK' /\ WatchTypeOK'
  BY DEF TypeOK, RiskTypeOK, ExecTypeOK, WatchTypeOK
<1>2. PICK s \in Signals :
         \/ \E ts \in StartTime .. now : EmitPersist(s, ts) \/ EmitPersistFails(s, ts)
         \/ EmitPublish(s)
         \/ EmitPublishFails(s)
  BY DEF EmitNext
<1>3. emit[s] \in Emission /\ emit \in [Signals -> Emission]
  BY DEF TypeOK, EmitTypeOK
<1>4. \A ts \in StartTime .. now : ts \in Time
  BY TimeAssumption DEF TypeOK, SharedTypeOK, Time
<1>5. ASSUME NEW ts \in StartTime .. now, EmitPersist(s, ts)
      PROVE  TypeOK'
  <2>1. signals' \in [Signals -> Verdicts]
    BY <1>5, PersistType DEF EmitPersist, TypeOK, SharedTypeOK
  <2>2. EmitTypeOK'
    BY <1>3, <1>4, <1>5 DEF EmitPersist, EmitTypeOK, Emission
  <2>3. SharedTypeOK'
    BY <1>5, <2>1 DEF EmitPersist, TypeOK, SharedTypeOK, JournalTypeOK
  <2>. QED
    BY <1>1, <2>2, <2>3 DEF TypeOK
<1>6. ASSUME NEW ts \in StartTime .. now, EmitPersistFails(s, ts)
      PROVE  TypeOK'
  <2>1. EmitTypeOK'
    BY <1>3, <1>4, <1>6 DEF EmitPersistFails, EmitTypeOK, Emission
  <2>2. SharedTypeOK'
    BY <1>6, FaultType DEF EmitPersistFails, TypeOK, SharedTypeOK, JournalTypeOK, tables
  <2>. QED
    BY <1>1, <2>1, <2>2 DEF TypeOK
<1>7. CASE EmitPublish(s)
  <2>1. EmitTypeOK'
    BY <1>3, <1>7 DEF EmitPublish, EmitTypeOK, Emission
  <2>2. [id |-> s, ts |-> emit[s].ts] \in SignalEvent
    BY <1>3 DEF Emission, SignalEvent
  <2>3. signalStream' \in Stream(SignalEvent) /\ WellFormed(signalStream')
    BY <1>7, <2>2, PublishLemma DEF EmitPublish, TypeOK, SharedTypeOK
  <2>4. SharedTypeOK'
    BY <1>7, <2>3 DEF EmitPublish, TypeOK, SharedTypeOK, JournalTypeOK, tables
  <2>. QED
    BY <1>1, <2>1, <2>4 DEF TypeOK
<1>8. CASE EmitPublishFails(s)
  <2>1. EmitTypeOK'
    BY <1>3, <1>8 DEF EmitPublishFails, EmitTypeOK, Emission
  <2>2. SharedTypeOK'
    BY <1>8, FaultType DEF EmitPublishFails, TypeOK, SharedTypeOK, JournalTypeOK, tables
  <2>. QED
    BY <1>1, <2>1, <2>2 DEF TypeOK
<1>. QED
  BY <1>2, <1>5, <1>6, <1>7, <1>8

(* Every step of the risk task keeps the types.                            *)
LEMMA RiskType ==
    ASSUME TypeOK, MessageInHand, RiskNext, UNCHANGED <<emit, exec, watch>>
    PROVE  TypeOK'
<1>1. EmitTypeOK' /\ ExecTypeOK' /\ WatchTypeOK'
  BY DEF TypeOK, EmitTypeOK, ExecTypeOK, WatchTypeOK
<1>2. risk \in RiskTask /\ RiskIdle \in RiskTask
  BY IdleTypes DEF TypeOK, RiskTypeOK
<1>3. \A pc \in {"idle", "gate", "contract", "outcome", "publish", "ack", "dead"} :
         [RiskIdle EXCEPT !.pc = pc] \in RiskTask
  BY <1>2 DEF RiskTask
<1>4. CASE RiskReceive
  <2>1. signalStream' \in Stream(SignalEvent) /\ WellFormed(signalStream')
    BY <1>4, TakeLemma, RiskAssumption DEF RiskReceive, TypeOK, SharedTypeOK
  <2>2. RiskTypeOK'
    BY <1>3, <1>4 DEF RiskReceive, RiskTypeOK
  <2>3. SharedTypeOK'
    BY <1>4, <2>1 DEF RiskReceive, TypeOK, SharedTypeOK, JournalTypeOK, tables
  <2>. QED
    BY <1>1, <2>2, <2>3 DEF TypeOK
<1>5. CASE RiskGate
  <2>1. risk.gate # 4 => [risk EXCEPT !.gate = @ + 1] \in RiskTask
    <3>1. risk.gate # 4 => risk.gate + 1 \in 1 .. 4
      BY <1>2 DEF RiskTask
    <3>. QED
      BY <1>2, <3>1 DEF RiskTask
  <2>2. RiskTypeOK'
    BY <1>3, <1>5, <2>1 DEF RiskGate, Reject, RiskTypeOK
  <2>3. SharedTypeOK'
    BY <1>5 DEF RiskGate, TypeOK, SharedTypeOK, JournalTypeOK, shared, tables
  <2>. QED
    BY <1>1, <2>2, <2>3 DEF TypeOK
<1>6. CASE RiskContract
  <2>1. \A sym \in Symbols : [risk EXCEPT !.pc = "outcome", !.accepted = TRUE,
                                          !.symbol = sym] \in RiskTask
    BY <1>2 DEF RiskTask
  <2>2. RiskTypeOK'
    BY <1>3, <1>6, <2>1 DEF RiskContract, Reject, RiskTypeOK
  <2>3. SharedTypeOK'
    BY <1>6 DEF RiskContract, TypeOK, SharedTypeOK, JournalTypeOK, shared, tables
  <2>. QED
    BY <1>1, <2>2, <2>3 DEF TypeOK
<1>7. CASE RiskOutcome
  <2>1. Signal.id \in Signals
    BY <1>7, SignalType DEF RiskOutcome
  <2>2. signals' \in [Signals -> Verdicts]
    BY <1>7, <2>1, VerdictType DEF RiskOutcome, TypeOK, SharedTypeOK, Verdicts
  <2>3. [risk EXCEPT !.pc = "publish"] \in RiskTask
    BY <1>2 DEF RiskTask
  <2>4. RiskTypeOK'
    BY <1>3, <1>7, <2>3 DEF RiskOutcome, RiskTypeOK
  <2>5. SharedTypeOK'
    BY <1>7, <2>2 DEF RiskOutcome, TypeOK, SharedTypeOK, JournalTypeOK
  <2>. QED
    BY <1>1, <2>4, <2>5 DEF TypeOK
<1>8. CASE RiskPublish
  <2>1. Signal.id \in Signals
    BY <1>8, SignalType DEF RiskPublish
  <2>2. [signal |-> Signal.id, symbol |-> risk.symbol] \in OrderEvent
    BY <1>2, <2>1 DEF RiskTask, OrderEvent
  <2>3. orderStream' \in Stream(OrderEvent) /\ WellFormed(orderStream')
    BY <1>8, <2>2, PublishLemma DEF RiskPublish, TypeOK, SharedTypeOK
  <2>4. RiskTypeOK'
    BY <1>3, <1>8 DEF RiskPublish, RiskTypeOK
  <2>5. SharedTypeOK'
    BY <1>8, <2>3 DEF RiskPublish, TypeOK, SharedTypeOK, JournalTypeOK, tables
  <2>. QED
    BY <1>1, <2>4, <2>5 DEF TypeOK
<1>9. CASE RiskAck
  <2>1. signalStream' \in Stream(SignalEvent) /\ WellFormed(signalStream')
    BY <1>9, AckLemma DEF RiskAck, TypeOK, SharedTypeOK
  <2>2. RiskTypeOK'
    BY <1>2, <1>9 DEF RiskAck, RiskTypeOK
  <2>3. SharedTypeOK'
    BY <1>9, <2>1 DEF RiskAck, TypeOK, SharedTypeOK, JournalTypeOK, tables
  <2>. QED
    BY <1>1, <2>2, <2>3 DEF TypeOK
<1>10. CASE RiskFail \/ RiskDie
  <2>1. RiskTypeOK'
    BY <1>3, <1>10 DEF RiskFail, RiskDie, RiskTypeOK
  <2>2. SharedTypeOK'
    BY <1>10, FaultType DEF RiskFail, RiskDie, TypeOK, SharedTypeOK, JournalTypeOK, tables
  <2>. QED
    BY <1>1, <2>1, <2>2 DEF TypeOK
<1>. QED
  BY <1>4, <1>5, <1>6, <1>7, <1>8, <1>9, <1>10 DEF RiskNext, RiskStep

(* Every step of the executor keeps the types.                             *)
LEMMA ExecType ==
    ASSUME TypeOK, MessageInHand, RowInHand, ExecNext, UNCHANGED <<emit, risk, watch>>
    PROVE  TypeOK'
<1>1. EmitTypeOK' /\ RiskTypeOK' /\ WatchTypeOK'
  BY DEF TypeOK, EmitTypeOK, RiskTypeOK, WatchTypeOK
<1>2. exec \in ExecTask /\ ExecIdle \in ExecTask /\ exec.row \in Nat
  BY IdleTypes DEF TypeOK, ExecTypeOK, ExecTask
<1>3. \A pc \in {"idle", "insert", "quote", "fill", "open", "report", "ack", "dead"} :
         /\ [ExecIdle EXCEPT !.pc = pc] \in ExecTask
         /\ [exec EXCEPT !.pc = pc] \in ExecTask
  BY <1>2 DEF ExecTask
<1>4. CASE ExecReceive
  <2>1. orderStream' \in Stream(OrderEvent) /\ WellFormed(orderStream')
    BY <1>4, TakeLemma, ExecAssumption DEF ExecReceive, TypeOK, SharedTypeOK
  <2>2. ExecTypeOK'
    BY <1>3, <1>4 DEF ExecReceive, ExecTypeOK
  <2>3. SharedTypeOK'
    BY <1>4, <2>1 DEF ExecReceive, TypeOK, SharedTypeOK, JournalTypeOK, tables
  <2>. QED
    BY <1>1, <2>2, <2>3 DEF TypeOK
<1>5. CASE ExecInsert
  <2>1. Order.signal \in Signals /\ Order.symbol \in Symbols
    BY <1>5, OrderType DEF ExecInsert
  <2>2. orders' \in Seq(OrderRow) /\ Len(orders') \in Nat
    <3>1. InsertOrder(Order.signal, Order.symbol, "BUY", "PENDING") /\ JournalTypeOK
      BY <1>5 DEF ExecInsert, TypeOK, SharedTypeOK
    <3>2. orders' \in Seq(OrderRow)
      BY <2>1, <3>1, InsertType
    <3>. QED
      BY <3>2
  <2>3. ExecTypeOK'
    BY <1>5, <2>2 DEF ExecInsert, ExecTypeOK, ExecTask
  <2>4. SharedTypeOK'
    BY <1>5, <2>2 DEF ExecInsert, TypeOK, SharedTypeOK, JournalTypeOK
  <2>. QED
    BY <1>1, <2>3, <2>4 DEF TypeOK
<1>6. CASE ExecInsertRefused \/ ExecQuote
  <2>1. ExecTypeOK'
    BY <1>3, <1>6 DEF ExecInsertRefused, ExecQuote, ExecTypeOK
  <2>2. SharedTypeOK'
    BY <1>6 DEF ExecInsertRefused, ExecQuote, TypeOK, SharedTypeOK, JournalTypeOK,
                shared, tables
  <2>. QED
    BY <1>1, <2>1, <2>2 DEF TypeOK
<1>7. CASE ExecNoQuote \/ ExecReport
  <2>1. updates' \subseteq Update
    BY <1>2, <1>7 DEF ExecNoQuote, ExecReport, TypeOK, SharedTypeOK, Update
  <2>2. ExecTypeOK'
    BY <1>3, <1>7 DEF ExecNoQuote, ExecReport, ExecTypeOK
  <2>3. SharedTypeOK'
    BY <1>7, <2>1 DEF ExecNoQuote, ExecReport, TypeOK, SharedTypeOK, JournalTypeOK, tables
  <2>. QED
    BY <1>1, <2>2, <2>3 DEF TypeOK
<1>8. CASE ExecFill
  <2>1. exec.row \in DOMAIN orders
    BY <1>8 DEF ExecFill, RowInHand, Entries
  <2>2. orders' \in Seq(OrderRow)
    BY <1>8, <2>1, FilledType DEF ExecFill, TypeOK, SharedTypeOK
  <2>3. ExecTypeOK'
    BY <1>3, <1>8 DEF ExecFill, ExecTypeOK
  <2>4. SharedTypeOK'
    BY <1>8, <2>2 DEF ExecFill, TypeOK, SharedTypeOK, JournalTypeOK
  <2>. QED
    BY <1>1, <2>3, <2>4 DEF TypeOK
<1>9. CASE ExecOpen
  <2>1. Order.symbol \in Symbols
    BY <1>9, OrderType DEF ExecOpen
  <2>2. trades' \in Seq(TradeRow)
    BY <1>2, <1>9, <2>1, OpenType DEF ExecOpen, TypeOK, SharedTypeOK
  <2>3. ExecTypeOK'
    BY <1>3, <1>9 DEF ExecOpen, ExecTypeOK
  <2>4. SharedTypeOK'
    BY <1>9, <2>2 DEF ExecOpen, TypeOK, SharedTypeOK, JournalTypeOK
  <2>. QED
    BY <1>1, <2>3, <2>4 DEF TypeOK
<1>10. CASE ExecAck
  <2>1. orderStream' \in Stream(OrderEvent) /\ WellFormed(orderStream')
    BY <1>10, AckLemma DEF ExecAck, TypeOK, SharedTypeOK
  <2>2. ExecTypeOK'
    BY <1>2, <1>10 DEF ExecAck, ExecTypeOK
  <2>3. SharedTypeOK'
    BY <1>10, <2>1 DEF ExecAck, TypeOK, SharedTypeOK, JournalTypeOK, tables
  <2>. QED
    BY <1>1, <2>2, <2>3 DEF TypeOK
<1>11. CASE ExecFail \/ ExecDie
  <2>1. ExecTypeOK'
    BY <1>3, <1>11 DEF ExecFail, ExecDie, ExecTypeOK
  <2>2. SharedTypeOK'
    BY <1>11, FaultType DEF ExecFail, ExecDie, TypeOK, SharedTypeOK, JournalTypeOK, tables
  <2>. QED
    BY <1>1, <2>1, <2>2 DEF TypeOK
<1>. QED
  BY <1>4, <1>5, <1>6, <1>7, <1>8, <1>9, <1>10, <1>11 DEF ExecNext, ExecStep

(* Every step of the watcher keeps the types.                              *)
LEMMA WatchType ==
    ASSUME TypeOK, ExitInHand, WatchNext, UNCHANGED <<emit, risk, exec>>
    PROVE  TypeOK'
<1>1. EmitTypeOK' /\ RiskTypeOK' /\ ExecTypeOK'
  BY DEF TypeOK, EmitTypeOK, RiskTypeOK, ExecTypeOK
<1>2. /\ watch \in WatchTask
      /\ watch.todo \in SUBSET Nat /\ watch.pnl \in Int /\ watch.row \in Nat
      /\ watch.seen \in Time
  BY DEF TypeOK, WatchTypeOK, WatchTask
<1>3. \A todo \in SUBSET Nat : NextTrade(todo) \in WatchTask
  BY NextTradeType
<1>4. OpenTrades \in SUBSET Nat
  BY DEF OpenTrades, TypeOK, SharedTypeOK, JournalTypeOK
<1>5. UNCHANGED shared => SharedTypeOK'
  BY DEF TypeOK, SharedTypeOK, JournalTypeOK, shared, tables
<1>6. CASE WatchSelect
  BY <1>1, <1>3, <1>4, <1>5, <1>6 DEF WatchSelect, TypeOK, WatchTypeOK
<1>7. ASSUME NEW k \in watch.todo, WatchKeep(k)
      PROVE  TypeOK'
  <2>1. watch.todo \ {k} \in SUBSET Nat
    BY <1>2
  <2>. QED
    BY <1>1, <1>3, <1>5, <1>7, <2>1 DEF WatchKeep, TypeOK, WatchTypeOK
<1>8. ASSUME NEW k \in watch.todo, NEW pnl \in Pnl, WatchDecide(k, pnl)
      PROVE  TypeOK'
  <2>1. watch.todo \ {k} \in SUBSET Nat /\ k \in Nat /\ pnl \in Int /\ now \in Time
    BY <1>2, JournalAssumption DEF TypeOK, SharedTypeOK
  <2>2. WatchTypeOK'
    BY <1>2, <1>8, <2>1 DEF WatchDecide, WatchTypeOK, WatchTask
  <2>. QED
    BY <1>1, <1>5, <1>8, <2>2 DEF WatchDecide, TypeOK
<1>9. CASE WatchExitOrder
  <2>1. trades[watch.trade].symbol \in Symbols
    <3>1. watch.trade \in DOMAIN trades
      BY <1>9 DEF WatchExitOrder, ExitInHand, OpenTrades
    <3>2. trades[watch.trade] \in TradeRow
      BY <3>1 DEF TypeOK, SharedTypeOK, JournalTypeOK
    <3>. QED
      BY <3>2 DEF TradeRow
  <2>2. /\ InsertOrder(NoSignal, trades[watch.trade].symbol, "SELL", "COMPLETE")
        /\ JournalTypeOK
    BY <1>9 DEF WatchExitOrder, TypeOK, SharedTypeOK
  <2>3. orders' \in Seq(OrderRow)
    BY <2>1, <2>2, InsertType
  <2>4. Len(orders') \in Nat
    BY <2>3
  <2>5. WatchTypeOK'
    BY <1>2, <1>9, <2>4 DEF WatchExitOrder, WatchTypeOK, WatchTask
  <2>6. SharedTypeOK'
    BY <1>9, <2>3 DEF WatchExitOrder, TypeOK, SharedTypeOK, JournalTypeOK
  <2>. QED
    BY <1>1, <2>5, <2>6 DEF TypeOK
<1>10. CASE WatchClose
  <2>1. watch.trade \in DOMAIN trades
    BY <1>10 DEF WatchClose, ExitInHand, OpenTrades
  <2>2. trades' \in Seq(TradeRow)
    BY <1>2, <1>10, <2>1, CloseType DEF WatchClose, TypeOK, SharedTypeOK
  <2>3. WatchTypeOK'
    BY <1>2, <1>10 DEF WatchClose, WatchTypeOK, WatchTask
  <2>4. SharedTypeOK'
    BY <1>10, <2>2 DEF WatchClose, TypeOK, SharedTypeOK, JournalTypeOK
  <2>. QED
    BY <1>1, <2>3, <2>4 DEF TypeOK
<1>11. CASE WatchRollup
  <2>1. Day(watch.seen) \in Days
    BY <1>2, DayType
  <2>2. dailyPnl' \in [Days -> DailyRow]
    BY <1>2, <1>11, <2>1, DailyType DEF WatchRollup, TypeOK, SharedTypeOK
  <2>3. WatchTypeOK'
    BY <1>2, <1>11 DEF WatchRollup, WatchTypeOK, WatchTask
  <2>4. SharedTypeOK'
    BY <1>11, <2>2 DEF WatchRollup, TypeOK, SharedTypeOK, JournalTypeOK
  <2>. QED
    BY <1>1, <2>3, <2>4 DEF TypeOK
<1>12. CASE WatchReport
  <2>1. updates' \subseteq Update
    BY <1>2, <1>12 DEF WatchReport, TypeOK, SharedTypeOK, Update
  <2>2. WatchTypeOK'
    BY <1>2, <1>3, <1>12 DEF WatchReport, WatchTypeOK
  <2>3. SharedTypeOK'
    BY <1>12, <2>1 DEF WatchReport, TypeOK, SharedTypeOK, JournalTypeOK, tables
  <2>. QED
    BY <1>1, <2>2, <2>3 DEF TypeOK
<1>13. CASE WatchFail
  <2>1. \A k \in watch.todo : watch.todo \ {k} \in SUBSET Nat
    BY <1>2
  <2>2. WatchTypeOK'
    BY <1>2, <1>3, <1>13, <2>1 DEF WatchFail, WatchTypeOK
  <2>3. SharedTypeOK'
    BY <1>13, FaultType DEF WatchFail, TypeOK, SharedTypeOK, JournalTypeOK, tables
  <2>. QED
    BY <1>1, <2>2, <2>3 DEF TypeOK
<1>. QED
  BY <1>6, <1>7, <1>8, <1>9, <1>10, <1>11, <1>12, <1>13 DEF WatchNext, WatchStep

(* Time, the operator and the signal handler keep the types.               *)
LEMMA EnvironmentType == ASSUME TypeOK, Environment PROVE TypeOK'
<1>1. now' \in Time
  BY TimeAssumption DEF Environment, TimePasses, Tick, ArmRedis, DisarmRedis, Signalled,
     TypeOK, SharedTypeOK, Time
<1>2. kill' \subseteq Layers
  BY KillAssumption DEF Environment, TimePasses, ArmRedis, DisarmRedis, Signalled,
     TypeOK, SharedTypeOK, Layers
<1>3. faults' \in 0 .. MaxFaults
  BY FaultType DEF Environment, TimePasses, ArmRedis, DisarmRedis, Signalled,
     TypeOK, SharedTypeOK
<1>4. UNCHANGED <<tables, signalStream, orderStream, updates, emit, risk, exec, watch>>
  BY DEF Environment, TimePasses, ArmRedis, DisarmRedis, Signalled
<1>. QED
  BY <1>1, <1>2, <1>3, <1>4 DEF TypeOK, SharedTypeOK, JournalTypeOK, EmitTypeOK,
     RiskTypeOK, ExecTypeOK, WatchTypeOK, tables

(* Either end of the process leaves the streams where ForgetLemma says.    *)
LEMMA RestartStreams ==
    ASSUME TypeOK, CrashRestart \/ ShutdownRestart
    PROVE  /\ signalStream' \in Stream(SignalEvent) /\ WellFormed(signalStream')
           /\ signalStream'.log = signalStream.log
           /\ signalStream.at <= signalStream'.at
           /\ orderStream' \in Stream(OrderEvent) /\ WellFormed(orderStream')
           /\ orderStream'.log = orderStream.log
           /\ orderStream.at <= orderStream'.at
<1>1. /\ signalStream \in Stream(SignalEvent) /\ WellFormed(signalStream)
      /\ orderStream \in Stream(OrderEvent) /\ WellFormed(orderStream)
  BY DEF TypeOK, SharedTypeOK
<1>2. CASE CrashRestart
  BY <1>1, <1>2, ForgetLemma DEF CrashRestart
<1>3. CASE ShutdownRestart
  <2>1. /\ \E s \in {signalStream, Ack(signalStream)} : signalStream' = Forget(s)
        /\ \E s \in {orderStream, Ack(orderStream)} : orderStream' = Forget(s)
    BY <1>3 DEF ShutdownRestart, Cancelled
  <2>2. /\ \A s \in {signalStream, Ack(signalStream)} :
              /\ s \in Stream(SignalEvent) /\ WellFormed(s)
              /\ s.log = signalStream.log /\ s.at = signalStream.at
        /\ \A s \in {orderStream, Ack(orderStream)} :
              /\ s \in Stream(OrderEvent) /\ WellFormed(s)
              /\ s.log = orderStream.log /\ s.at = orderStream.at
    BY <1>1, AckLemma
  <2>. QED
    BY <2>1, <2>2, ForgetLemma
<1>. QED
  BY <1>2, <1>3

(* Either end of the process keeps the types.                              *)
LEMMA RestartType == ASSUME TypeOK, CrashRestart \/ ShutdownRestart PROVE TypeOK'
<1>1. ProcessStarts
  BY DEF CrashRestart, ShutdownRestart
<1>2. faults' \in 0 .. MaxFaults
  BY FaultType DEF CrashRestart, ShutdownRestart, TypeOK, SharedTypeOK
<1>3. kill' \subseteq Layers
  BY <1>1 DEF ProcessStarts, TypeOK, SharedTypeOK, Layers
<1>4. EmitTypeOK'
  BY <1>1 DEF ProcessStarts, TypeOK, EmitTypeOK, Emission
<1>5. RiskTypeOK' /\ ExecTypeOK' /\ WatchTypeOK'
  BY <1>1, IdleTypes DEF ProcessStarts, RiskTypeOK, ExecTypeOK, WatchTypeOK
<1>6. SharedTypeOK'
  BY <1>1, <1>2, <1>3, RestartStreams
  DEF ProcessStarts, TypeOK, SharedTypeOK, JournalTypeOK, tables
<1>. QED
  BY <1>4, <1>5, <1>6 DEF TypeOK

-----------------------------------------------------------------------------
(* Where the messages stand.                                               *)

(* The positions of the two streams lie within their logs.                 *)
LEMMA StreamRanges ==
    ASSUME TypeOK
    PROVE  /\ signalStream.log \in Seq(SignalEvent) /\ signalStream.at \in Nat
           /\ signalStream.at <= Len(signalStream.log)
           /\ 1 .. signalStream.at \subseteq DOMAIN signalStream.log
           /\ orderStream.log \in Seq(OrderEvent) /\ orderStream.at \in Nat
           /\ orderStream.at <= Len(orderStream.log)
           /\ 1 .. orderStream.at \subseteq DOMAIN orderStream.log
<1>1. /\ signalStream.log \in Seq(SignalEvent) /\ signalStream.at \in Nat
      /\ signalStream.last \in Nat /\ Len(signalStream.log) \in Nat
      /\ signalStream.at <= signalStream.last
      /\ signalStream.last <= Len(signalStream.log)
  BY DEF TypeOK, SharedTypeOK, Stream, WellFormed
<1>2. /\ orderStream.log \in Seq(OrderEvent) /\ orderStream.at \in Nat
      /\ orderStream.last \in Nat /\ Len(orderStream.log) \in Nat
      /\ orderStream.at <= orderStream.last
      /\ orderStream.last <= Len(orderStream.log)
  BY DEF TypeOK, SharedTypeOK, Stream, WellFormed
<1>. QED
  BY <1>1, <1>2

(* A signal that is not published yet is on neither stream.                *)
LEMMA Unpublished ==
    ASSUME TypeOK, PublishedOnce, NEW s \in Signals, emit[s].pc # "done"
    PROVE  /\ \A i \in DOMAIN signalStream.log : signalStream.log[i].id # s
           /\ \A j \in DOMAIN orderStream.log : SignalIn(j) # s
<1>1. \A i \in DOMAIN signalStream.log : signalStream.log[i].id # s
  BY DEF PublishedOnce
<1>2. \A j \in DOMAIN orderStream.log :
         \E i \in DOMAIN signalStream.log : signalStream.log[i].id = SignalIn(j)
  BY StreamRanges DEF PublishedOnce
<1>. QED
  BY <1>1, <1>2

(* There is no order yet for the signal that is being judged.              *)
LEMMA NotOrderedYet ==
    ASSUME TypeOK, MessageInHand, PublishedOnce,
           risk.pc \in {"gate", "contract", "outcome", "publish"}
    PROVE  \A j \in DOMAIN orderStream.log : SignalIn(j) # Signal.id
<1>. SUFFICES ASSUME NEW j \in DOMAIN orderStream.log, SignalIn(j) = Signal.id
              PROVE  FALSE
  OBVIOUS
<1>1. PICK i \in 1 .. signalStream.at :
         /\ signalStream.log[i].id = SignalIn(j)
         /\ i = signalStream.at => risk.pc \in {"idle", "ack", "dead"}
  BY DEF PublishedOnce
<1>2. signalStream.at \in DOMAIN signalStream.log /\ i \in DOMAIN signalStream.log
  BY SignalType, StreamRanges
<1>3. signalStream.log[i].id = signalStream.log[signalStream.at].id
  BY <1>1 DEF Signal, Current
<1>. QED
  BY <1>1, <1>2, <1>3 DEF PublishedOnce

(* An entry in the journal is for a signal of an order that was taken.     *)
LEMMA EntryOrdered ==
    ASSUME TypeOK, EntriesAreOrdered
    PROVE  \A i \in Entries : \E j \in DOMAIN orderStream.log :
              SignalIn(j) = orders[i].signal
BY StreamRanges DEF EntriesAreOrdered

-----------------------------------------------------------------------------
(* Emissions: a signal is journaled before it is on any stream, so writing *)
(* its row changes no verdict.                                             *)

(* Every step of an emission keeps the invariant.                          *)
LEMMA EmitKeeps ==
    ASSUME IndInv, EmitNext, UNCHANGED <<risk, exec, watch>>
    PROVE  IndInv'
<1>. USE DEF IndInv
<1>1. TypeOK'
  BY EmitType
<1>2. PICK s \in Signals :
         \/ \E ts \in StartTime .. now : EmitPersist(s, ts) \/ EmitPersistFails(s, ts)
         \/ EmitPublish(s)
         \/ EmitPublishFails(s)
  BY DEF EmitNext
<1>3. /\ emit \in [Signals -> Emission]
      /\ \A i \in DOMAIN signalStream.log : signalStream.log[i].id \in Signals
  <2>1. \A i \in DOMAIN signalStream.log : signalStream.log[i] \in SignalEvent
    BY StreamRanges
  <2>. QED
    BY <2>1 DEF TypeOK, EmitTypeOK, SignalEvent
<1>4. /\ emit[s].pc # "done"
      /\ emit' \in [Signals -> Emission]
      /\ \A t \in Signals : emit[t].pc = "done" => emit'[t].pc = "done"
      /\ UNCHANGED <<orders, trades, orderStream, updates>>
  <2>1. emit' \in [Signals -> Emission]
    BY <1>1 DEF TypeOK, EmitTypeOK
  <2>. QED
    BY <1>2, <1>3, <2>1
    DEF EmitPersist, EmitPersistFails, EmitPublish, EmitPublishFails, tables
<1>5. RowInHand' /\ EntryBacked' /\ ExitInHand' /\ ExitBacked' /\ UpdatesAreJournaled'
  BY <1>4 DEF RowInHand, Order, Current, EntryBacked, ExitInHand, ExitBacked, IsExit,
     Entries, Exits, Closed, OpenTrades, IsOpen, UpdatesAreJournaled
<1>6. signalStream'.at = signalStream.at /\ MessageInHand'
  <2>1. signalStream'.at = signalStream.at
    BY <1>2, PublishLemma
    DEF EmitPersist, EmitPersistFails, EmitPublish, EmitPublishFails, Publish,
        TypeOK, SharedTypeOK, Stream
  <2>. QED
    BY <1>4, <2>1 DEF MessageInHand
<1>7. /\ \A i \in DOMAIN signalStream.log : signalStream.log[i].id # s
      /\ \A j \in DOMAIN orderStream.log : SignalIn(j) # s
  BY <1>4, Unpublished
<1>8. PublishedOnce'
  <2>1. CASE UNCHANGED signalStream
    BY <1>3, <1>4, <2>1 DEF PublishedOnce, SignalIn
  <2>2. CASE EmitPublish(s)
    <3>1. [id |-> s, ts |-> emit[s].ts] \in SignalEvent
      BY <1>3 DEF Emission, SignalEvent
    <3>2. signalStream'.log = Append(signalStream.log, [id |-> s, ts |-> emit[s].ts])
      BY <2>2 DEF EmitPublish, Publish, TypeOK, SharedTypeOK, Stream
    <3>3. /\ DOMAIN signalStream'.log = 1 .. Len(signalStream.log) + 1
          /\ DOMAIN signalStream.log = 1 .. Len(signalStream.log)
          /\ Len(signalStream.log) \in Nat
          /\ \A i \in DOMAIN signalStream.log : signalStream'.log[i] = signalStream.log[i]
          /\ signalStream'.log[Len(signalStream.log) + 1].id = s
      BY <3>1, <3>2, StreamRanges, AppendRow
    <3>4. emit'[s].pc = "done"
      BY <1>3, <2>2 DEF EmitPublish
    <3>5. \A i \in DOMAIN signalStream'.log : emit'[signalStream'.log[i].id].pc = "done"
      BY <1>3, <1>4, <3>3, <3>4 DEF PublishedOnce
    <3>6. \A i, j \in DOMAIN signalStream'.log :
             signalStream'.log[i].id = signalStream'.log[j].id => i = j
      <4>1. \A i \in DOMAIN signalStream'.log :
               i \in DOMAIN signalStream.log \/ i = Len(signalStream.log) + 1
        BY <3>3
      <4>2. \A i, j \in DOMAIN signalStream.log :
               signalStream'.log[i].id = signalStream'.log[j].id => i = j
        BY <3>3 DEF PublishedOnce
      <4>3. \A i \in DOMAIN signalStream.log : signalStream'.log[i].id # s
        BY <1>7, <3>3
      <4>. QED
        BY <3>3, <4>1, <4>2, <4>3
    <3>7. \A j \in DOMAIN orderStream.log : \E i \in 1 .. signalStream.at :
             /\ signalStream'.log[i].id = SignalIn(j)
             /\ i = signalStream.at => risk.pc \in {"idle", "ack", "dead"}
      <4>1. \A i \in 1 .. signalStream.at :
               signalStream'.log[i].id = signalStream.log[i].id
        BY <3>3, StreamRanges
      <4>. QED
        BY <4>1 DEF PublishedOnce
    <3>. QED
      BY <1>4, <1>6, <3>5, <3>6, <3>7 DEF PublishedOnce, SignalIn
  <2>. QED
    BY <1>2, <2>1, <2>2 DEF EmitPersist, EmitPersistFails, EmitPublishFails
<1>9. \A t \in Signals : t # s \/ signals[t] # "none" => signals'[t] = signals[t]
  BY <1>2 DEF EmitPersist, EmitPersistFails, EmitPublish, EmitPublishFails,
     PersistSignal, tables, TypeOK, SharedTypeOK, JournalTypeOK
<1>10. VerdictFirst'
  <2>1. \A j \in DOMAIN orderStream.log : SignalIn(j) \in Signals
    <3>1. \A j \in DOMAIN orderStream.log : orderStream.log[j] \in OrderEvent
      BY StreamRanges
    <3>. QED
      BY <3>1 DEF SignalIn, OrderEvent
  <2>2. \A j \in DOMAIN orderStream.log : signals'[SignalIn(j)] \in {"none", "accepted"}
    BY <1>7, <1>9, <2>1 DEF VerdictFirst
  <2>3. risk.pc = "publish" => /\ Signal' = Signal
                               /\ signals'[Signal.id] \in {"none", "accepted"}
    <3>. SUFFICES ASSUME risk.pc = "publish"
                  PROVE  /\ Signal' = Signal
                         /\ signals'[Signal.id] \in {"none", "accepted"}
      OBVIOUS
    <3>1. signalStream.at \in DOMAIN signalStream.log /\ Signal.id \in Signals
      BY SignalType
    <3>2. Signal' = Signal
      <4>1. CASE UNCHANGED signalStream
        BY <4>1 DEF Signal, Current
      <4>2. CASE EmitPublish(s)
        <5>1. [id |-> s, ts |-> emit[s].ts] \in SignalEvent
          BY <1>3 DEF Emission, SignalEvent
        <5>2. signalStream'.log = Append(signalStream.log, [id |-> s, ts |-> emit[s].ts])
          BY <4>2 DEF EmitPublish, Publish, TypeOK, SharedTypeOK, Stream
        <5>3. signalStream'.log[signalStream.at] = signalStream.log[signalStream.at]
          BY <3>1, <5>1, <5>2, StreamRanges, AppendRow
        <5>. QED
          BY <1>6, <5>3 DEF Signal, Current
      <4>. QED
        BY <1>2, <4>1, <4>2 DEF EmitPersist, EmitPersistFails, EmitPublishFails
    <3>3. Signal.id # s
      BY <1>7, <3>1 DEF Signal, Current
    <3>. QED
      BY <1>9, <3>1, <3>2, <3>3 DEF VerdictFirst
  <2>. QED
    BY <1>4, <2>2, <2>3 DEF VerdictFirst, SignalIn
<1>11. EntriesAreOrdered'
  BY <1>4, <1>9 DEF EntriesAreOrdered, Entries, SignalIn
<1>. QED
  BY <1>1, <1>5, <1>6, <1>8, <1>10, <1>11

-----------------------------------------------------------------------------
(* The environment touches nothing the invariant speaks of but types; the  *)
(* end of the process drops what the tasks had in hand, and the position   *)
(* in each stream only moves forward: a message is lost, never repeated.   *)

(* Time, the operator and the signal handler keep the invariant.           *)
LEMMA EnvironmentKeeps == ASSUME IndInv, Environment PROVE IndInv'
<1>. USE DEF IndInv
<1>1. TypeOK'
  BY EnvironmentType
<1>2. UNCHANGED <<tables, signalStream, orderStream, updates, emit, risk, exec, watch>>
  BY DEF Environment, TimePasses, ArmRedis, DisarmRedis, Signalled
<1>3. MessageInHand' /\ PublishedOnce' /\ VerdictFirst'
  BY <1>2 DEF MessageInHand, PublishedOnce, SignalIn, VerdictFirst, Signal, Current, tables
<1>4. EntriesAreOrdered' /\ RowInHand' /\ EntryBacked'
  BY <1>2 DEF EntriesAreOrdered, SignalIn, RowInHand, Order, Current, EntryBacked,
     Entries, tables
<1>5. ExitInHand' /\ ExitBacked' /\ UpdatesAreJournaled'
  BY <1>2 DEF ExitInHand, ExitBacked, IsExit, Exits, Closed, OpenTrades, IsOpen,
     UpdatesAreJournaled, tables
<1>. QED
  BY <1>1, <1>3, <1>4, <1>5

(* Either end of the process keeps the invariant.                          *)
LEMMA RestartKeeps == ASSUME IndInv, CrashRestart \/ ShutdownRestart PROVE IndInv'
<1>. USE DEF IndInv
<1>1. TypeOK'
  BY RestartType
<1>2. /\ risk'.pc = "idle" /\ exec'.pc = "idle"
      /\ watch'.pc = "sleep" /\ watch'.todo = {}
      /\ UNCHANGED <<tables, updates>>
      /\ \A s \in Signals : emit[s].pc = "done" => emit'[s].pc = "done"
  <2>1. ProcessStarts
    BY DEF CrashRestart, ShutdownRestart
  <2>. QED
    BY <2>1 DEF ProcessStarts, RiskIdle, ExecIdle, WatchSleep
<1>3. /\ signalStream'.log = signalStream.log /\ orderStream'.log = orderStream.log
      /\ 1 .. signalStream.at \subseteq 1 .. signalStream'.at
      /\ 1 .. orderStream.at \subseteq 1 .. orderStream'.at
  <2>1. signalStream'.at \in Nat /\ orderStream'.at \in Nat
    BY <1>1 DEF TypeOK, SharedTypeOK, Stream
  <2>. QED
    BY <2>1, RestartStreams, StreamRanges
<1>4. MessageInHand'
  BY <1>2 DEF MessageInHand
<1>5. PublishedOnce'
  <2>1. \A i \in DOMAIN signalStream.log : signalStream.log[i].id \in Signals
    <3>1. \A i \in DOMAIN signalStream.log : signalStream.log[i] \in SignalEvent
      BY StreamRanges
    <3>. QED
      BY <3>1 DEF SignalEvent
  <2>2. \A i \in DOMAIN signalStream.log : emit'[signalStream.log[i].id].pc = "done"
    BY <1>2, <2>1 DEF PublishedOnce
  <2>. QED
    BY <1>2, <1>3, <2>2 DEF PublishedOnce, SignalIn
<1>6. VerdictFirst'
  BY <1>2, <1>3 DEF VerdictFirst, SignalIn, tables
<1>7. EntriesAreOrdered'
  BY <1>2, <1>3 DEF EntriesAreOrdered, Entries, SignalIn, tables
<1>8. RowInHand' /\ EntryBacked'
  BY <1>2 DEF RowInHand, EntryBacked, Entries, tables
<1>9. ExitInHand' /\ ExitBacked' /\ UpdatesAreJournaled'
  BY <1>2 DEF ExitInHand, ExitBacked, IsExit, Exits, Closed, UpdatesAreJournaled, tables
<1>. QED
  BY <1>1, <1>4, <1>5, <1>6, <1>7, <1>8, <1>9

-----------------------------------------------------------------------------
(* The risk engine.                                                        *)

(* What none of its steps disturbs.                                        *)
LEMMA RiskLeaves ==
    ASSUME IndInv, UNCHANGED <<orders, trades, updates, exec, watch>>,
           \A j \in DOMAIN orderStream.log : /\ j \in DOMAIN orderStream'.log
                                             /\ orderStream'.log[j] = orderStream.log[j],
           orderStream'.at = orderStream.at
    PROVE  /\ RowInHand' /\ EntryBacked' /\ ExitInHand' /\ ExitBacked'
           /\ UpdatesAreJournaled'
<1>. USE DEF IndInv
<1>1. exec.pc \notin {"idle", "dead"} => Order' = Order
  BY OrderType DEF Order, Current
<1>2. RowInHand'
  BY <1>1 DEF RowInHand, Entries
<1>3. EntryBacked' /\ ExitInHand' /\ ExitBacked' /\ UpdatesAreJournaled'
  BY DEF EntryBacked, ExitInHand, ExitBacked, IsExit, Entries, Exits, Closed, OpenTrades,
     IsOpen, UpdatesAreJournaled
<1>. QED
  BY <1>2, <1>3

(* Every step of the risk task keeps the invariant.                        *)
LEMMA RiskKeeps ==
    ASSUME IndInv, RiskNext, UNCHANGED <<emit, exec, watch>>
    PROVE  IndInv'
<1>. USE DEF IndInv
<1>1. TypeOK'
  BY RiskType
<1>2. CASE RiskReceive
  <2>1. /\ HasNext(signalStream) /\ signalStream \in Stream(SignalEvent)
        /\ WellFormed(signalStream) /\ RiskBatch \in Nat \ {0}
        /\ signalStream' = Take(signalStream, RiskBatch)
    BY <1>2, RiskAssumption DEF RiskReceive, TypeOK, SharedTypeOK
  <2>2. /\ signalStream'.log = signalStream.log
        /\ signalStream'.at = signalStream.at + 1
    BY <2>1, TakeLemma
  <2>3. UNCHANGED <<orders, trades, signals, updates, orderStream>> /\ risk.pc = "idle"
    BY <1>2 DEF RiskReceive, tables
  <2>4. risk'.pc \in {"gate", "outcome"}
    BY <1>2 DEF RiskReceive, RiskIdle
  <2>5. MessageInHand'
    BY <2>2, <2>3, StreamRanges DEF MessageInHand
  <2>6. PublishedOnce'
    <3>1. \A i \in 1 .. signalStream.at :
             i \in 1 .. signalStream'.at /\ i # signalStream'.at
      BY <2>2, StreamRanges
    <3>. QED
      BY <2>2, <2>3, <3>1 DEF PublishedOnce, SignalIn
  <2>7. VerdictFirst' /\ EntriesAreOrdered'
    BY <2>3, <2>4 DEF VerdictFirst, EntriesAreOrdered, Entries, SignalIn
  <2>. QED
    BY <1>1, <2>3, <2>5, <2>6, <2>7, RiskLeaves
<1>3. CASE RiskGate \/ RiskContract
  <2>1. /\ UNCHANGED <<orders, trades, signals, updates, signalStream, orderStream>>
        /\ risk.pc \in {"gate", "contract"}
        /\ risk'.pc \in {"gate", "contract", "outcome"}
    BY <1>3 DEF RiskGate, RiskContract, Reject, RiskIdle, shared, tables,
       TypeOK, RiskTypeOK, RiskTask
  <2>2. MessageInHand'
    BY <2>1 DEF MessageInHand
  <2>3. PublishedOnce'
    BY <2>1 DEF PublishedOnce, SignalIn
  <2>4. VerdictFirst' /\ EntriesAreOrdered'
    BY <2>1 DEF VerdictFirst, EntriesAreOrdered, Entries, SignalIn
  <2>. QED
    BY <1>1, <2>1, <2>2, <2>3, <2>4, RiskLeaves
<1>4. CASE RiskOutcome
  <2>1. /\ UNCHANGED <<orders, trades, updates, signalStream, orderStream>>
        /\ risk.pc = "outcome"
        /\ risk'.pc = IF risk.accepted THEN "publish" ELSE "ack"
    BY <1>4 DEF RiskOutcome, RiskIdle, TypeOK, RiskTypeOK, RiskTask
  <2>2. MessageInHand'
    BY <2>1 DEF MessageInHand
  <2>3. PublishedOnce'
    BY <2>1 DEF PublishedOnce, SignalIn
  <2>4. /\ Signal.id \in Signals /\ Signal' = Signal
        /\ \A t \in Signals : t # Signal.id => signals'[t] = signals[t]
        /\ risk.accepted => signals'[Signal.id] \in {"none", "accepted"}
    <3>1. Signal.id \in Signals
      BY <2>1, SignalType
    <3>. QED
      BY <1>4, <2>1, <3>1 DEF RiskOutcome, MarkSignalOutcome, Signal, Current,
         TypeOK, SharedTypeOK, JournalTypeOK
  <2>5. \A j \in DOMAIN orderStream.log :
           SignalIn(j) \in Signals /\ SignalIn(j) # Signal.id
    <3>1. \A j \in DOMAIN orderStream.log : orderStream.log[j] \in OrderEvent
      BY StreamRanges
    <3>. QED
      BY <2>1, <3>1, NotOrderedYet DEF SignalIn, OrderEvent
  <2>6. VerdictFirst'
    BY <2>1, <2>4, <2>5 DEF VerdictFirst, SignalIn
  <2>7. EntriesAreOrdered'
    <3>1. \A i \in Entries : signals'[orders[i].signal] = "accepted"
      BY <2>4, <2>5, EntryOrdered DEF EntriesAreOrdered
    <3>. QED
      BY <2>1, <3>1 DEF EntriesAreOrdered, Entries, SignalIn
  <2>. QED
    BY <1>1, <2>1, <2>2, <2>3, <2>6, <2>7, RiskLeaves
<1>5. CASE RiskPublish
  <2>. DEFINE order == [signal |-> Signal.id, symbol |-> risk.symbol]
              n     == Len(orderStream.log) + 1
  <2>1. /\ UNCHANGED <<orders, trades, signals, updates, signalStream>>
        /\ risk.pc = "publish" /\ risk'.pc = "ack"
    BY <1>5 DEF RiskPublish, RiskIdle, tables
  <2>2. order \in OrderEvent /\ Signal.id \in Signals
    BY <2>1, SignalType DEF OrderEvent, TypeOK, RiskTypeOK, RiskTask
  <2>3. orderStream'.log = Append(orderStream.log, order) /\ orderStream'.at = orderStream.at
    BY <1>5, <2>2, PublishLemma DEF RiskPublish, TypeOK, SharedTypeOK
  <2>4. /\ DOMAIN orderStream'.log = 1 .. n
        /\ DOMAIN orderStream.log = 1 .. Len(orderStream.log)
        /\ Len(orderStream.log) \in Nat
        /\ \A j \in DOMAIN orderStream.log : orderStream'.log[j] = orderStream.log[j]
        /\ orderStream'.log[n].signal = Signal.id
    BY <2>2, <2>3, StreamRanges, AppendRow
  <2>5. \A j \in DOMAIN orderStream'.log : j \in DOMAIN orderStream.log \/ j = n
    BY <2>4
  <2>6. \A j \in DOMAIN orderStream.log : orderStream'.log[j].signal # Signal.id
    BY <2>1, <2>4, NotOrderedYet DEF SignalIn
  <2>7. MessageInHand'
    BY <2>1, <2>3 DEF MessageInHand
  <2>8. PublishedOnce'
    <3>1. \A i, j \in DOMAIN orderStream.log :
             orderStream'.log[i].signal = orderStream'.log[j].signal => i = j
      BY <2>4 DEF PublishedOnce, SignalIn
    <3>2. \A i, j \in DOMAIN orderStream'.log :
             orderStream'.log[i].signal = orderStream'.log[j].signal => i = j
      BY <2>4, <2>5, <2>6, <3>1
    <3>3. /\ signalStream.at \in 1 .. signalStream.at
          /\ signalStream.log[signalStream.at].id = orderStream'.log[n].signal
      BY <2>1, <2>4, SignalType, StreamRanges DEF Signal, Current, MessageInHand
    <3>4. \A j \in DOMAIN orderStream'.log :
             \E i \in 1 .. signalStream.at :
                 signalStream.log[i].id = orderStream'.log[j].signal
      BY <2>4, <2>5, <3>3 DEF PublishedOnce, SignalIn
    <3>. QED
      BY <2>1, <3>2, <3>4 DEF PublishedOnce, SignalIn
  <2>9. VerdictFirst'
    BY <2>1, <2>4, <2>5 DEF VerdictFirst, SignalIn
  <2>10. EntriesAreOrdered'
    BY <2>1, <2>3, <2>4, StreamRanges DEF EntriesAreOrdered, Entries, SignalIn
  <2>11. \A j \in DOMAIN orderStream.log : j \in DOMAIN orderStream'.log
    BY <2>4
  <2>. QED
    BY <1>1, <2>1, <2>3, <2>4, <2>7, <2>8, <2>9, <2>10, <2>11, RiskLeaves
<1>6. CASE RiskAck \/ RiskFail \/ RiskDie
  <2>1. /\ UNCHANGED <<orders, trades, signals, updates, orderStream>>
        /\ risk'.pc \in {"idle", "ack", "dead"}
        /\ risk'.pc = "ack" => risk.pc \notin {"idle", "dead"}
        /\ signalStream'.log = signalStream.log /\ signalStream'.at = signalStream.at
    BY <1>6, AckLemma DEF RiskAck, RiskFail, RiskDie, RiskIdle, tables,
       TypeOK, SharedTypeOK
  <2>2. MessageInHand'
    BY <2>1 DEF MessageInHand
  <2>3. PublishedOnce'
    BY <2>1 DEF PublishedOnce, SignalIn
  <2>4. VerdictFirst' /\ EntriesAreOrdered'
    BY <2>1 DEF VerdictFirst, EntriesAreOrdered, Entries, SignalIn
  <2>. QED
    BY <1>1, <2>1, <2>2, <2>3, <2>4, RiskLeaves
<1>. QED
  BY <1>2, <1>3, <1>4, <1>5, <1>6 DEF RiskNext, RiskStep

-----------------------------------------------------------------------------
(* The executor.                                                           *)

(* Orders are only added, or move from PENDING to COMPLETE: what rests on  *)
(* the rows there were goes on to hold.                                    *)
LEMMA OrdersOnlyGrow ==
    ASSUME IndInv, UNCHANGED <<trades, updates>>,
           \A i \in DOMAIN orders :
              /\ i \in DOMAIN orders'
              /\ orders'[i].signal = orders[i].signal
              /\ orders'[i].symbol = orders[i].symbol
              /\ orders'[i].side = orders[i].side
              /\ orders[i].status = "COMPLETE" => orders'[i].status = "COMPLETE"
    PROVE  /\ EntryBacked' /\ ExitBacked' /\ UpdatesAreJournaled'
           /\ watch' = watch => ExitInHand'
<1>. USE DEF IndInv
<1>1. EntryBacked'
  BY DEF EntryBacked, Entries
<1>2. ExitBacked'
  BY DEF ExitBacked, IsExit, Exits, Closed
<1>3. UpdatesAreJournaled'
  BY DEF UpdatesAreJournaled
<1>4. watch' = watch => ExitInHand'
  BY DEF ExitInHand, IsExit, Exits, Closed, OpenTrades, IsOpen
<1>. QED
  BY <1>1, <1>2, <1>3, <1>4

(* What no step of the executor or of the watcher disturbs.                *)
LEMMA SignalsSettled ==
    ASSUME IndInv, UNCHANGED <<signals, signalStream, emit, risk>>,
           orderStream'.log = orderStream.log
    PROVE  PublishedOnce' /\ VerdictFirst'
BY DEF IndInv, PublishedOnce, VerdictFirst, SignalIn, Signal, Current

(* Every step of the executor keeps the invariant.                         *)
LEMMA ExecKeeps ==
    ASSUME IndInv, ExecNext, UNCHANGED <<emit, risk, watch>>
    PROVE  IndInv'
<1>. USE DEF IndInv
<1>1. TypeOK'
  BY ExecType
<1>2. CASE ExecReceive
  <2>1. /\ HasNext(orderStream) /\ orderStream \in Stream(OrderEvent)
        /\ WellFormed(orderStream) /\ ExecBatch \in Nat \ {0}
        /\ orderStream' = Take(orderStream, ExecBatch)
    BY <1>2, ExecAssumption DEF ExecReceive, TypeOK, SharedTypeOK
  <2>2. orderStream'.log = orderStream.log /\ orderStream'.at = orderStream.at + 1
    BY <2>1, TakeLemma
  <2>3. /\ UNCHANGED <<orders, trades, signals, updates, signalStream>>
        /\ exec'.pc \in {"insert", "ack"}
    BY <1>2 DEF ExecReceive, ExecIdle, tables
  <2>4. MessageInHand'
    BY <2>2, <2>3, StreamRanges DEF MessageInHand
  <2>5. EntriesAreOrdered'
    <3>1. \A j \in 1 .. orderStream.at :
             j \in 1 .. orderStream'.at /\ j # orderStream'.at
      BY <2>2, StreamRanges
    <3>. QED
      BY <2>2, <2>3, <3>1 DEF EntriesAreOrdered, Entries, SignalIn
  <2>6. RowInHand'
    BY <2>3 DEF RowInHand
  <2>. QED
    BY <1>1, <2>2, <2>3, <2>4, <2>5, <2>6, SignalsSettled, OrdersOnlyGrow
<1>3. CASE ExecInsert
  <2>. DEFINE n == Len(orders) + 1
  <2>1. /\ UNCHANGED <<trades, signals, updates, signalStream, orderStream>>
        /\ exec.pc = "insert" /\ exec' = [pc |-> "quote", row |-> Len(orders')]
        /\ ForeignKeyHolds(Order.signal)
        /\ InsertOrder(Order.signal, Order.symbol, "BUY", "PENDING")
    BY <1>3 DEF ExecInsert
  <2>2. /\ Order.signal \in Signals /\ Order.symbol \in Symbols
        /\ orderStream.at \in DOMAIN orderStream.log
    BY <2>1, OrderType
  <2>3. JournalTypeOK
    BY DEF TypeOK, SharedTypeOK
  <2>4. /\ DOMAIN orders' = 1 .. n /\ DOMAIN orders = 1 .. Len(orders)
        /\ Len(orders) \in Nat /\ Len(orders') = n
        /\ \A i \in DOMAIN orders : orders'[i] = orders[i]
        /\ orders'[n] = [signal |-> Order.signal, symbol |-> Order.symbol,
                         side |-> "BUY", status |-> "PENDING"]
    <3>1. /\ DOMAIN orders' = 1 .. Len(orders) + 1
          /\ DOMAIN orders = 1 .. Len(orders)
          /\ Len(orders) \in Nat
          /\ Len(orders') = Len(orders) + 1
          /\ \A i \in DOMAIN orders : orders'[i] = orders[i]
          /\ orders'[Len(orders')] = [signal |-> Order.signal, symbol |-> Order.symbol,
                                      side |-> "BUY", status |-> "PENDING"]
      BY <2>1, <2>2, <2>3, InsertType
    <3>. QED
      BY <3>1
  <2>5. Entries' = Entries \cup {n} /\ n \notin DOMAIN orders
    BY <2>4 DEF Entries
  <2>6. \A i \in Entries : orders[i].signal # Order.signal
    <3>. SUFFICES ASSUME NEW i \in Entries, orders[i].signal = Order.signal
                  PROVE  FALSE
      OBVIOUS
    <3>1. PICK j \in 1 .. orderStream.at :
             /\ SignalIn(j) = orders[i].signal
             /\ j = orderStream.at => exec.pc # "insert"
      BY DEF EntriesAreOrdered
    <3>2. j \in DOMAIN orderStream.log /\ SignalIn(j) = SignalIn(orderStream.at)
      BY <3>1, StreamRanges DEF SignalIn, Order, Current
    <3>. QED
      BY <2>1, <2>2, <3>1, <3>2 DEF PublishedOnce
  <2>7. signals[Order.signal] = "accepted"
    <3>1. Order.signal = SignalIn(orderStream.at) /\ Order.signal # NoSignal
      BY <2>2, JournalAssumption DEF Order, Current, SignalIn
    <3>. QED
      BY <2>1, <2>2, <3>1 DEF VerdictFirst, ForeignKeyHolds
  <2>8. EntriesAreOrdered'
    <3>1. \A i \in Entries' :
             /\ orders'[i].signal \in Signals
             /\ signals[orders'[i].signal] = "accepted"
      BY <2>2, <2>4, <2>5, <2>7 DEF EntriesAreOrdered, Entries
    <3>2. \A i \in Entries : \E j \in 1 .. orderStream.at :
             SignalIn(j) = orders'[i].signal
      BY <2>4 DEF EntriesAreOrdered, Entries
    <3>3. orderStream.at \in 1 .. orderStream.at /\ SignalIn(orderStream.at) = orders'[n].signal
      BY <2>1, <2>4, StreamRanges DEF MessageInHand, SignalIn, Order, Current
    <3>4. \A i, j \in Entries' : orders'[i].signal = orders'[j].signal => i = j
      BY <2>4, <2>5, <2>6 DEF EntriesAreOrdered, Entries
    <3>. QED
      BY <2>1, <2>5, <3>1, <3>2, <3>3, <3>4 DEF EntriesAreOrdered, SignalIn
  <2>9. RowInHand'
    <3>1. \A k \in DOMAIN trades : trades[k].entry # n
      BY <2>5 DEF EntryBacked, Entries
    <3>2. n \in Entries' /\ orders'[n].symbol = Order.symbol
      BY <2>4, <2>5
    <3>. QED
      BY <2>1, <2>4, <3>1, <3>2 DEF RowInHand, Order, Current
  <2>10. MessageInHand'
    BY <2>1 DEF MessageInHand
  <2>11. \A i \in DOMAIN orders : i \in DOMAIN orders'
    BY <2>4
  <2>. QED
    BY <1>1, <2>1, <2>4, <2>8, <2>9, <2>10, <2>11, SignalsSettled, OrdersOnlyGrow
<1>4. CASE ExecInsertRefused \/ ExecQuote
  <2>1. /\ UNCHANGED <<orders, trades, signals, updates, signalStream, orderStream>>
        /\ \/ exec'.pc = "ack" /\ exec.pc = "insert"
           \/ exec'.pc = "fill" /\ exec.pc = "quote" /\ exec'.row = exec.row
    BY <1>4 DEF ExecInsertRefused, ExecQuote, ExecIdle, shared, tables,
       TypeOK, ExecTypeOK, ExecTask
  <2>2. MessageInHand' /\ EntriesAreOrdered' /\ RowInHand'
    BY <2>1 DEF MessageInHand, EntriesAreOrdered, Entries, SignalIn, RowInHand, Order, Current
  <2>. QED
    BY <1>1, <2>1, <2>2, SignalsSettled, OrdersOnlyGrow
<1>5. CASE ExecFill
  <2>1. /\ UNCHANGED <<trades, signals, updates, signalStream, orderStream>>
        /\ exec.pc = "fill" /\ exec'.pc = "open" /\ exec'.row = exec.row
        /\ MarkOrderFilled(exec.row) /\ JournalTypeOK
    BY <1>5 DEF ExecFill, TypeOK, SharedTypeOK, ExecTypeOK, ExecTask
  <2>2. exec.row \in Entries /\ exec.row \in DOMAIN orders
    BY <2>1 DEF RowInHand, Entries
  <2>3. /\ DOMAIN orders' = DOMAIN orders
        /\ \A i \in DOMAIN orders :
              /\ orders'[i].signal = orders[i].signal
              /\ orders'[i].symbol = orders[i].symbol
              /\ orders'[i].side = orders[i].side
              /\ orders'[i].status = IF i = exec.row THEN "COMPLETE"
                                                     ELSE orders[i].status
    BY <2>1, <2>2, FilledType
  <2>4. Entries' = Entries
    BY <2>3 DEF Entries
  <2>5. MessageInHand' /\ EntriesAreOrdered'
    BY <2>1, <2>3, <2>4 DEF MessageInHand, EntriesAreOrdered, Entries, SignalIn
  <2>6. RowInHand'
    BY <2>1, <2>2, <2>3, <2>4 DEF RowInHand, Order, Current
  <2>. QED
    BY <1>1, <2>1, <2>3, <2>5, <2>6, SignalsSettled, OrdersOnlyGrow
<1>6. CASE ExecOpen
  <2>. DEFINE n == Len(trades) + 1
  <2>1. /\ UNCHANGED <<orders, signals, updates, signalStream, orderStream>>
        /\ exec.pc = "open" /\ exec'.pc = "report" /\ exec'.row = exec.row
        /\ OpenTrade(exec.row, Order.symbol, now) /\ JournalTypeOK /\ now \in Time
        /\ exec.row \in Nat
    BY <1>6 DEF ExecOpen, TypeOK, SharedTypeOK, ExecTypeOK, ExecTask
  <2>2. Order.symbol \in Symbols
    BY <2>1, OrderType
  <2>3. /\ DOMAIN trades' = 1 .. n /\ DOMAIN trades = 1 .. Len(trades)
        /\ Len(trades) \in Nat
        /\ \A k \in DOMAIN trades : trades'[k] = trades[k]
        /\ trades'[n].entry = exec.row /\ trades'[n].symbol = Order.symbol
        /\ trades'[n].exit = 0
    BY <2>1, <2>2, OpenType
  <2>4. /\ exec.row \in Entries /\ orders[exec.row].status = "COMPLETE"
        /\ orders[exec.row].symbol = Order.symbol
        /\ \A k \in DOMAIN trades : trades[k].entry # exec.row
    BY <2>1 DEF RowInHand
  <2>5. \A k \in DOMAIN trades' : k \in DOMAIN trades \/ k = n
    BY <2>3
  <2>6. MessageInHand' /\ EntriesAreOrdered'
    BY <2>1 DEF MessageInHand, EntriesAreOrdered, Entries, SignalIn
  <2>7. RowInHand'
    <3>1. n \in DOMAIN trades'
      BY <2>3
    <3>. QED
      BY <2>1, <2>3, <2>4, <3>1 DEF RowInHand, Entries, Order, Current
  <2>8. EntryBacked'
    <3>1. \A k \in DOMAIN trades' :
             /\ trades'[k].entry \in Entries
             /\ orders[trades'[k].entry].status = "COMPLETE"
             /\ orders[trades'[k].entry].symbol = trades'[k].symbol
      BY <2>3, <2>4, <2>5 DEF EntryBacked
    <3>2. \A j, k \in DOMAIN trades' : trades'[j].entry = trades'[k].entry => j = k
      BY <2>3, <2>4, <2>5 DEF EntryBacked
    <3>. QED
      BY <2>1, <3>1, <3>2 DEF EntryBacked, Entries
  <2>9. Closed' = Closed /\ OpenTrades' = OpenTrades \cup {n}
    BY <2>3, <2>5 DEF Closed, OpenTrades, IsOpen
  <2>10. \A k \in Closed \cup OpenTrades : k \in DOMAIN trades
    BY DEF Closed, OpenTrades
  <2>11. ExitBacked'
    BY <2>1, <2>3, <2>9, <2>10 DEF ExitBacked, IsExit, Exits
  <2>12. ExitInHand'
    BY <2>1, <2>3, <2>9, <2>10 DEF ExitInHand, IsExit, Exits
  <2>13. UpdatesAreJournaled'
    BY <2>1, <2>3 DEF UpdatesAreJournaled
  <2>. QED
    BY <1>1, <2>1, <2>6, <2>7, <2>8, <2>11, <2>12, <2>13, SignalsSettled
<1>7. CASE ExecNoQuote \/ ExecReport
  <2>1. /\ UNCHANGED <<orders, trades, signals, signalStream, orderStream>>
        /\ exec'.pc = "ack" /\ exec.pc \in {"quote", "report"}
    BY <1>7 DEF ExecNoQuote, ExecReport, ExecIdle, tables
  <2>2. MessageInHand' /\ EntriesAreOrdered' /\ RowInHand'
    BY <2>1 DEF MessageInHand, EntriesAreOrdered, Entries, SignalIn, RowInHand
  <2>3. EntryBacked' /\ ExitInHand' /\ ExitBacked'
    BY <2>1 DEF EntryBacked, Entries, ExitInHand, ExitBacked, IsExit, Exits, Closed,
       OpenTrades, IsOpen
  <2>4. CASE ExecNoQuote
    <3>1. updates' = updates \cup {[row |-> exec.row, status |-> "REJECTED"]}
      BY <2>4 DEF ExecNoQuote
    <3>2. UpdatesAreJournaled'
      BY <2>1, <3>1 DEF UpdatesAreJournaled
    <3>. QED
      BY <1>1, <2>1, <2>2, <2>3, <3>2, SignalsSettled
  <2>5. CASE ExecReport
    <3>1. /\ updates' = updates \cup {[row |-> exec.row, status |-> "COMPLETE"]}
          /\ exec.pc = "report"
      BY <2>5 DEF ExecReport
    <3>2. /\ exec.row \in DOMAIN orders /\ orders[exec.row].status = "COMPLETE"
          /\ \E k \in DOMAIN trades : trades[k].entry = exec.row
      BY <3>1 DEF RowInHand, Entries
    <3>3. UpdatesAreJournaled'
      BY <2>1, <3>1, <3>2 DEF UpdatesAreJournaled
    <3>. QED
      BY <1>1, <2>1, <2>2, <2>3, <3>3, SignalsSettled
  <2>. QED
    BY <1>7, <2>4, <2>5
<1>8. CASE ExecAck \/ ExecFail \/ ExecDie
  <2>1. /\ UNCHANGED <<orders, trades, signals, updates, signalStream>>
        /\ exec'.pc \in {"idle", "ack", "dead"}
        /\ exec'.pc = "ack" => exec.pc \notin {"idle", "dead"}
        /\ orderStream'.log = orderStream.log /\ orderStream'.at = orderStream.at
    BY <1>8, AckLemma DEF ExecAck, ExecFail, ExecDie, ExecIdle, tables,
       TypeOK, SharedTypeOK
  <2>2. MessageInHand' /\ EntriesAreOrdered' /\ RowInHand'
    BY <2>1 DEF MessageInHand, EntriesAreOrdered, Entries, SignalIn, RowInHand
  <2>. QED
    BY <1>1, <2>1, <2>2, SignalsSettled, OrdersOnlyGrow
<1>. QED
  BY <1>2, <1>3, <1>4, <1>5, <1>6, <1>7, <1>8 DEF ExecNext, ExecStep

-----------------------------------------------------------------------------
(* The watcher.                                                            *)

(* What the watcher still has in hand after the evaluation of a trade.     *)
LEMMA NextTradeFields ==
    ASSUME NEW todo
    PROVE  NextTrade(todo).todo = todo /\ NextTrade(todo).pc \in {"sleep", "round"}
BY DEF NextTrade, WatchSleep

(* What a step of the watcher that writes no order and no trade disturbs.  *)
LEMMA WatchLeaves ==
    ASSUME IndInv, TypeOK', ExitInHand', UpdatesAreJournaled',
           UNCHANGED <<orders, trades, signals, signalStream, orderStream,
                       emit, risk, exec>>
    PROVE  IndInv'
<1>1. MessageInHand' /\ EntriesAreOrdered' /\ RowInHand' /\ EntryBacked' /\ ExitBacked'
  BY DEF IndInv, MessageInHand, EntriesAreOrdered, Entries, SignalIn, RowInHand, Order,
     Current, EntryBacked, ExitBacked, IsExit, Exits, Closed
<1>. QED
  BY <1>1, SignalsSettled DEF IndInv

(* Every step of the watcher keeps the invariant.                          *)
LEMMA WatchKeeps ==
    ASSUME IndInv, WatchNext, UNCHANGED <<emit, risk, exec>>
    PROVE  IndInv'
<1>. USE DEF IndInv
<1>1. TypeOK'
  BY WatchType
<1>2. watch \in WatchTask
  BY DEF TypeOK, WatchTypeOK
<1>3. CASE WatchSelect
  <2>1. UNCHANGED shared /\ watch' = NextTrade(OpenTrades)
    BY <1>3 DEF WatchSelect
  <2>2. ExitInHand'
    BY <2>1, NextTradeFields DEF ExitInHand, OpenTrades, IsOpen, shared, tables
  <2>3. UpdatesAreJournaled'
    BY <2>1 DEF UpdatesAreJournaled, shared, tables
  <2>. QED
    BY <1>1, <2>1, <2>2, <2>3, WatchLeaves DEF shared, tables
<1>4. ASSUME NEW k \in watch.todo, WatchKeep(k)
      PROVE  IndInv'
  <2>1. UNCHANGED shared /\ watch' = NextTrade(watch.todo \ {k})
    BY <1>4 DEF WatchKeep
  <2>2. ExitInHand'
    BY <2>1, NextTradeFields DEF ExitInHand, OpenTrades, IsOpen, shared, tables
  <2>3. UpdatesAreJournaled'
    BY <2>1 DEF UpdatesAreJournaled, shared, tables
  <2>. QED
    BY <1>1, <2>1, <2>2, <2>3, WatchLeaves DEF shared, tables
<1>5. ASSUME NEW k \in watch.todo, NEW pnl \in Pnl, WatchDecide(k, pnl)
      PROVE  IndInv'
  <2>1. /\ UNCHANGED shared
        /\ watch'.pc = "exit" /\ watch'.todo = watch.todo \ {k} /\ watch'.trade = k
    BY <1>2, <1>5 DEF WatchDecide, WatchTask
  <2>2. ExitInHand'
    BY <2>1 DEF ExitInHand, OpenTrades, IsOpen, shared, tables
  <2>3. UpdatesAreJournaled'
    BY <2>1 DEF UpdatesAreJournaled, shared, tables
  <2>. QED
    BY <1>1, <2>1, <2>2, <2>3, WatchLeaves DEF shared, tables
<1>6. CASE WatchExitOrder
  <2>. DEFINE n   == Len(orders) + 1
              sym == trades[watch.trade].symbol
  <2>1. /\ UNCHANGED <<signals, trades, signalStream, orderStream, updates>>
        /\ watch.pc = "exit" /\ watch'.pc = "close" /\ watch'.todo = watch.todo
        /\ watch'.trade = watch.trade /\ watch'.row = Len(orders')
        /\ InsertOrder(NoSignal, sym, "SELL", "COMPLETE") /\ JournalTypeOK
    BY <1>2, <1>6 DEF WatchExitOrder, WatchTask, TypeOK, SharedTypeOK
  <2>2. watch.trade \in OpenTrades \ watch.todo /\ watch.trade \in DOMAIN trades
    BY <2>1 DEF ExitInHand, OpenTrades
  <2>3. sym \in Symbols
    <3>1. trades[watch.trade] \in TradeRow
      BY <2>1, <2>2 DEF JournalTypeOK
    <3>. QED
      BY <3>1 DEF TradeRow
  <2>4. /\ DOMAIN orders' = 1 .. n /\ DOMAIN orders = 1 .. Len(orders)
        /\ Len(orders) \in Nat /\ Len(orders') = n
        /\ \A i \in DOMAIN orders : orders'[i] = orders[i]
        /\ orders'[n] = [signal |-> NoSignal, symbol |-> sym,
                         side |-> "SELL", status |-> "COMPLETE"]
    <3>1. /\ DOMAIN orders' = 1 .. Len(orders) + 1
          /\ DOMAIN orders = 1 .. Len(orders)
          /\ Len(orders) \in Nat
          /\ Len(orders') = Len(orders) + 1
          /\ \A i \in DOMAIN orders : orders'[i] = orders[i]
          /\ orders'[Len(orders')] = [signal |-> NoSignal, symbol |-> sym,
                                      side |-> "SELL", status |-> "COMPLETE"]
      BY <2>1, <2>3, InsertType
    <3>. QED
      BY <3>1
  <2>5. /\ \A i \in DOMAIN orders : i \in DOMAIN orders'
        /\ n \notin DOMAIN orders
        /\ \A i \in DOMAIN orders' : i \in DOMAIN orders \/ i = n
    BY <2>4
  <2>6. Entries' = Entries
    BY <2>4, <2>5 DEF Entries
  <2>7. EntriesAreOrdered'
    BY <2>1, <2>4, <2>6 DEF EntriesAreOrdered, Entries, SignalIn
  <2>8. MessageInHand' /\ RowInHand'
    BY <2>1, <2>4, <2>6 DEF MessageInHand, RowInHand, Entries, Order, Current
  <2>9. EntryBacked' /\ ExitBacked' /\ UpdatesAreJournaled'
    BY <2>1, <2>4, <2>5, OrdersOnlyGrow
  <2>10. ExitInHand'
    <3>1. \A k \in Closed : trades[k].exit # n
      BY <2>5 DEF ExitBacked, IsExit, Exits
    <3>2. n \in DOMAIN orders' /\ orders'[n].side = "SELL"
          /\ orders'[n].status = "COMPLETE" /\ orders'[n].symbol = sym
      BY <2>4
    <3>. QED
      BY <2>1, <2>2, <2>4, <3>1, <3>2
      DEF ExitInHand, IsExit, Exits, Closed, OpenTrades, IsOpen
  <2>. QED
    BY <1>1, <2>1, <2>7, <2>8, <2>9, <2>10, SignalsSettled
<1>7. CASE WatchClose
  <2>1. /\ UNCHANGED <<signals, orders, signalStream, orderStream, updates>>
        /\ watch.pc = "close" /\ watch'.pc = "rollup" /\ watch'.todo = watch.todo
        /\ watch'.trade = watch.trade /\ watch'.row = watch.row
        /\ CloseTrade(watch.trade, watch.row, watch.pnl) /\ JournalTypeOK
        /\ watch.row \in Nat /\ watch.pnl \in Int
    BY <1>2, <1>7 DEF WatchClose, WatchTask, TypeOK, SharedTypeOK
  <2>2. /\ watch.trade \in DOMAIN trades /\ trades[watch.trade].exit = 0
        /\ watch.trade \notin watch.todo
        /\ IsExit(watch.row, trades[watch.trade].symbol)
        /\ \A k \in Closed : trades[k].exit # watch.row
    BY <2>1 DEF ExitInHand, OpenTrades, IsOpen
  <2>3. /\ DOMAIN trades' = DOMAIN trades
        /\ \A j \in DOMAIN trades :
              /\ trades'[j].entry = trades[j].entry
              /\ trades'[j].symbol = trades[j].symbol
              /\ trades'[j].exit = IF j = watch.trade THEN watch.row ELSE trades[j].exit
    BY <2>1, <2>2, CloseType
  <2>4. watch.row # 0 /\ 0 \notin DOMAIN orders /\ watch.row \in DOMAIN orders
    <3>1. DOMAIN orders = 1 .. Len(orders) /\ Len(orders) \in Nat
      BY <2>1 DEF JournalTypeOK
    <3>. QED
      BY <2>2, <3>1 DEF IsExit, Exits
  <2>5. /\ Closed' = Closed \cup {watch.trade}
        /\ OpenTrades' = OpenTrades \ {watch.trade}
    BY <2>2, <2>3, <2>4 DEF Closed, OpenTrades, IsOpen
  <2>6. MessageInHand' /\ EntriesAreOrdered' /\ RowInHand'
    BY <2>1, <2>3 DEF MessageInHand, EntriesAreOrdered, Entries, SignalIn, RowInHand,
       Order, Current
  <2>7. EntryBacked'
    BY <2>1, <2>3 DEF EntryBacked, Entries
  <2>8. ExitBacked'
    <3>1. \A k \in Closed : k \in DOMAIN trades /\ k # watch.trade
      BY <2>2 DEF Closed
    <3>2. \A k \in Closed' : IsExit(trades'[k].exit, trades'[k].symbol)
      BY <2>2, <2>3, <2>5, <3>1 DEF ExitBacked
    <3>3. \A j, k \in Closed' : trades'[j].exit = trades'[k].exit => j = k
      BY <2>2, <2>3, <2>5, <3>1 DEF ExitBacked
    <3>. QED
      BY <2>1, <3>2, <3>3 DEF ExitBacked, IsExit, Exits
  <2>9. ExitInHand'
    BY <2>1, <2>2, <2>3, <2>5 DEF ExitInHand
  <2>10. UpdatesAreJournaled'
    <3>. SUFFICES ASSUME NEW u \in updates, u.status = "COMPLETE"
                  PROVE  /\ u.row \in DOMAIN orders /\ orders[u.row].status = "COMPLETE"
                         /\ \E k \in DOMAIN trades :
                               u.row \in {trades'[k].entry, trades'[k].exit}
      BY <2>1, <2>3 DEF UpdatesAreJournaled
    <3>1. u.row \in DOMAIN orders /\ orders[u.row].status = "COMPLETE"
      BY DEF UpdatesAreJournaled
    <3>2. PICK k \in DOMAIN trades : u.row \in {trades[k].entry, trades[k].exit}
      BY DEF UpdatesAreJournaled
    <3>3. u.row \in {trades'[k].entry, trades'[k].exit}
      BY <2>2, <2>3, <2>4, <3>1, <3>2
    <3>. QED
      BY <3>1, <3>3
  <2>. QED
    BY <1>1, <2>1, <2>6, <2>7, <2>8, <2>9, <2>10, SignalsSettled
<1>8. CASE WatchRollup
  <2>1. /\ UNCHANGED <<signals, orders, trades, signalStream, orderStream, updates>>
        /\ watch.pc = "rollup" /\ watch'.pc = "report" /\ watch'.todo = watch.todo
        /\ watch'.row = watch.row
    BY <1>2, <1>8 DEF WatchRollup, WatchTask
  <2>2. ExitInHand'
    BY <2>1 DEF ExitInHand, OpenTrades, IsOpen, Closed
  <2>3. UpdatesAreJournaled'
    BY <2>1 DEF UpdatesAreJournaled
  <2>. QED
    BY <1>1, <2>1, <2>2, <2>3, WatchLeaves
<1>9. CASE WatchReport
  <2>1. /\ UNCHANGED <<signals, orders, trades, signalStream, orderStream>>
        /\ watch.pc = "report" /\ watch' = NextTrade(watch.todo)
        /\ updates' = updates \cup {[row |-> watch.row, status |-> "COMPLETE"]}
    BY <1>9 DEF WatchReport, tables
  <2>2. ExitInHand'
    BY <2>1, NextTradeFields DEF ExitInHand, OpenTrades, IsOpen
  <2>3. PICK k \in Closed : trades[k].exit = watch.row
    BY <2>1 DEF ExitInHand
  <2>4. /\ k \in DOMAIN trades
        /\ watch.row \in DOMAIN orders /\ orders[watch.row].status = "COMPLETE"
    BY <2>3 DEF ExitBacked, IsExit, Exits, Closed
  <2>5. UpdatesAreJournaled'
    BY <2>1, <2>3, <2>4 DEF UpdatesAreJournaled
  <2>. QED
    BY <1>1, <2>1, <2>2, <2>5, WatchLeaves
<1>10. CASE WatchFail
  <2>1. /\ UNCHANGED <<signals, orders, trades, signalStream, orderStream, updates>>
        /\ \/ \E k \in watch.todo : watch' = NextTrade(watch.todo \ {k})
           \/ watch' = NextTrade(watch.todo)
    BY <1>10 DEF WatchFail, tables
  <2>2. watch'.todo \subseteq watch.todo /\ watch'.pc \in {"sleep", "round"}
    BY <2>1, NextTradeFields
  <2>3. ExitInHand'
    BY <2>1, <2>2 DEF ExitInHand, OpenTrades, IsOpen
  <2>4. UpdatesAreJournaled'
    BY <2>1 DEF UpdatesAreJournaled
  <2>. QED
    BY <1>1, <2>1, <2>3, <2>4, WatchLeaves
<1>. QED
  BY <1>3, <1>4, <1>5, <1>6, <1>7, <1>8, <1>9, <1>10 DEF WatchNext, WatchStep

-----------------------------------------------------------------------------
(* The invariant and what it implies.                                      *)

(* The invariant holds of the initial states.                              *)
LEMMA InitInv == Init => IndInv
<1>. SUFFICES ASSUME Init PROVE IndInv
  OBVIOUS
<1>1. TypeOK
  BY InitType
<1>2. /\ signalStream.log = <<>> /\ orderStream.log = <<>>
      /\ orders = <<>> /\ trades = <<>> /\ updates = {}
      /\ risk.pc = "idle" /\ exec.pc = "idle"
      /\ watch.pc = "sleep" /\ watch.todo = {}
  BY DEF Init, SharedInit, JournalInit, EmptyStream, RiskInit, RiskIdle,
     ExecInit, ExecIdle, WatchInit, WatchSleep
<1>3. Entries = {} /\ Closed = {}
  BY <1>2 DEF Entries, Closed
<1>. QED
  BY <1>1, <1>2, <1>3
  DEF IndInv, MessageInHand, PublishedOnce, VerdictFirst, EntriesAreOrdered, RowInHand,
      EntryBacked, ExitInHand, ExitBacked, UpdatesAreJournaled

(* Every step of the agent keeps the invariant.                            *)
LEMMA NextInv == IndInv /\ [Next]_vars => IndInv'
<1>. SUFFICES ASSUME IndInv, [Next]_vars PROVE IndInv'
  OBVIOUS
<1>1. CASE Emission_
  BY <1>1, EmitKeeps DEF Emission_
<1>2. CASE Risk_
  BY <1>2, RiskKeeps DEF Risk_
<1>3. CASE Exec_
  BY <1>3, ExecKeeps DEF Exec_
<1>4. CASE Watch_
  BY <1>4, WatchKeeps DEF Watch_
<1>5. CASE Environment
  BY <1>5, EnvironmentKeeps
<1>6. CASE CrashRestart \/ ShutdownRestart
  BY <1>6, RestartKeeps
<1>7. CASE UNCHANGED vars
  <2>1. /\ UNCHANGED <<shared, emit, risk, exec, watch>>
    BY <1>7 DEF vars
  <2>2. TypeOK'
    BY <2>1 DEF IndInv, TypeOK, SharedTypeOK, JournalTypeOK, EmitTypeOK, RiskTypeOK,
       ExecTypeOK, WatchTypeOK, shared, tables
  <2>3. ExitInHand' /\ UpdatesAreJournaled'
    BY <2>1 DEF IndInv, ExitInHand, IsExit, Exits, Closed, OpenTrades, IsOpen,
       UpdatesAreJournaled, shared, tables
  <2>. QED
    BY <2>1, <2>2, <2>3, WatchLeaves DEF shared, tables
<1>. QED
  BY <1>1, <1>2, <1>3, <1>4, <1>5, <1>6, <1>7 DEF Next

(* The invariant holds of every behaviour, with any number of failures,    *)
(* crashes, restarts and days.                                             *)
THEOREM Invariance == Spec => []IndInv
BY InitInv, NextInv, PTL DEF Spec

(* Type correctness.                                                       *)
THEOREM TypeCorrect == Spec => []TypeOK
<1>1. IndInv => TypeOK
  BY DEF IndInv
<1>. QED
  BY <1>1, Invariance, PTL

(* A signal yields at most one entry order, and only after its acceptance  *)
(* was journaled.                                                          *)
THEOREM EntryOnce == Spec => []OneEntryPerAcceptedSignal
<1>1. IndInv => OneEntryPerAcceptedSignal
  BY DEF IndInv, EntriesAreOrdered, OneEntryPerAcceptedSignal
<1>. QED
  BY <1>1, Invariance, PTL

(* Every trade rests on one filled entry order of its own, and every close *)
(* on one exit order of its own.                                           *)
THEOREM Backed == Spec => []TradesAreBacked
<1>1. IndInv => TradesAreBacked
  BY DEF IndInv, EntryBacked, ExitBacked, IsExit, TradesAreBacked
<1>. QED
  BY <1>1, Invariance, PTL

(* A fill or an exit is only announced once it is in the journal.          *)
THEOREM Announced == Spec => []UpdatesAreJournaled
<1>1. IndInv => UpdatesAreJournaled
  BY DEF IndInv
<1>. QED
  BY <1>1, Invariance, PTL
=============================================================================
