-------------------------- MODULE LifecycleProofs ---------------------------
(***************************************************************************)
(* The agent implements SignalLifecycle: each step of the detailed model   *)
(* moves at most one signal, by one edge, or none.  The first part says    *)
(* what each transaction does to the tables; LedgerProofs uses it too.     *)
(***************************************************************************)
EXTENDS TradingAgentProofs

(* An entry order is inserted: one PENDING row for a signal that had none, *)
(* and that no trade rests on yet.                                         *)
LEMMA WhatInsertDoes ==
    ASSUME IndInv, ExecInsert
    PROVE  /\ UNCHANGED <<signals, trades, signalStream, orderStream>>
           /\ Len(orders) + 1 \notin DOMAIN orders
           /\ DOMAIN orders' = DOMAIN orders \cup {Len(orders) + 1}
           /\ \A i \in DOMAIN orders : orders'[i] = orders[i]
           /\ orders'[Len(orders) + 1] =
                 [signal |-> Order.signal, symbol |-> Order.symbol,
                  side |-> "BUY", status |-> "PENDING"]
           /\ Order.signal \in Signals
           /\ orderStream.at \in DOMAIN orderStream.log
           /\ \A i \in Entries : orders[i].signal # Order.signal
<1>. USE DEF IndInv
<1>1. /\ UNCHANGED <<signals, trades, signalStream, orderStream>>
      /\ exec.pc = "insert"
      /\ InsertOrder(Order.signal, Order.symbol, "BUY", "PENDING")
  BY DEF ExecInsert
<1>2. /\ Order.signal \in Signals /\ Order.symbol \in Symbols
      /\ orderStream.at \in DOMAIN orderStream.log /\ JournalTypeOK
  BY <1>1, OrderType DEF TypeOK, SharedTypeOK
<1>3. /\ DOMAIN orders' = 1 .. Len(orders) + 1
      /\ DOMAIN orders = 1 .. Len(orders)
      /\ Len(orders) \in Nat
      /\ Len(orders') = Len(orders) + 1
      /\ \A i \in DOMAIN orders : orders'[i] = orders[i]
      /\ orders'[Len(orders')] = [signal |-> Order.signal, symbol |-> Order.symbol,
                                  side |-> "BUY", status |-> "PENDING"]
  BY <1>1, <1>2, InsertType
<1>4. \A i \in Entries : orders[i].signal # Order.signal
  <2>. SUFFICES ASSUME NEW i \in Entries, orders[i].signal = Order.signal
                PROVE  FALSE
    OBVIOUS
  <2>1. PICK j \in 1 .. orderStream.at :
           /\ SignalIn(j) = orders[i].signal
           /\ j = orderStream.at => exec.pc # "insert"
    BY DEF EntriesAreOrdered
  <2>2. j \in DOMAIN orderStream.log /\ SignalIn(j) = SignalIn(orderStream.at)
    BY <2>1, StreamRanges DEF SignalIn, Order, Current
  <2>. QED
    BY <1>1, <1>2, <2>1, <2>2 DEF PublishedOnce
<1>. QED
  BY <1>1, <1>2, <1>3, <1>4

(* An entry order is marked COMPLETE: a row that no trade rests on.        *)
LEMMA WhatFillDoes ==
    ASSUME IndInv, ExecFill
    PROVE  /\ UNCHANGED <<signals, trades, signalStream, orderStream>>
           /\ exec.row \in Entries /\ exec'.row = exec.row
           /\ DOMAIN orders' = DOMAIN orders
           /\ \A i \in DOMAIN orders :
                 /\ orders'[i].signal = orders[i].signal
                 /\ orders'[i].symbol = orders[i].symbol
                 /\ orders'[i].side = orders[i].side
                 /\ orders'[i].status = IF i = exec.row THEN "COMPLETE"
                                                        ELSE orders[i].status
           /\ \A k \in DOMAIN trades : trades[k].entry # exec.row
<1>1. /\ UNCHANGED <<signals, trades, signalStream, orderStream>>
      /\ exec.pc = "fill" /\ exec'.row = exec.row
      /\ MarkOrderFilled(exec.row) /\ JournalTypeOK
  BY DEF ExecFill, IndInv, TypeOK, SharedTypeOK, ExecTypeOK, ExecTask
<1>2. /\ exec.row \in Entries /\ exec.row \in DOMAIN orders
      /\ \A k \in DOMAIN trades : trades[k].entry # exec.row
  BY <1>1 DEF IndInv, RowInHand, Entries
<1>. QED
  BY <1>1, <1>2, FilledType

(* A trade is opened on a filled entry order that had none.                *)
LEMMA WhatOpenDoes ==
    ASSUME IndInv, ExecOpen
    PROVE  /\ UNCHANGED <<signals, orders, signalStream, orderStream>>
           /\ Len(trades) \in Nat /\ DOMAIN trades = 1 .. Len(trades)
           /\ Len(trades') = Len(trades) + 1
           /\ Len(trades) + 1 \notin DOMAIN trades
           /\ DOMAIN trades' = DOMAIN trades \cup {Len(trades) + 1}
           /\ \A k \in DOMAIN trades : trades'[k] = trades[k]
           /\ trades'[Len(trades) + 1].entry = exec.row
           /\ trades'[Len(trades) + 1].exit = 0
           /\ trades'[Len(trades) + 1].pnl = 0
           /\ exec.row \in Entries /\ orders[exec.row].status = "COMPLETE"
           /\ \A k \in DOMAIN trades : trades[k].entry # exec.row
<1>1. /\ UNCHANGED <<orders, signals, signalStream, orderStream>>
      /\ exec.pc = "open"
      /\ OpenTrade(exec.row, Order.symbol, now) /\ JournalTypeOK /\ now \in Time
      /\ exec.row \in Nat
  BY DEF ExecOpen, IndInv, TypeOK, SharedTypeOK, ExecTypeOK, ExecTask
<1>2. Order.symbol \in Symbols
  BY <1>1, OrderType DEF IndInv
<1>3. /\ DOMAIN trades' = 1 .. Len(trades) + 1 /\ DOMAIN trades = 1 .. Len(trades)
      /\ Len(trades) \in Nat
      /\ \A k \in DOMAIN trades : trades'[k] = trades[k]
      /\ trades'[Len(trades) + 1].entry = exec.row
      /\ trades'[Len(trades) + 1].exit = 0
  BY <1>1, <1>2, OpenType
<1>4. Len(trades') = Len(trades) + 1 /\ trades'[Len(trades) + 1].pnl = 0
  <2>. DEFINE trade == [entry |-> exec.row, symbol |-> Order.symbol, opened |-> now,
                        exit |-> 0, pnl |-> 0]
  <2>1. trade \in TradeRow /\ trade.pnl = 0
    BY <1>1, <1>2 DEF TradeRow
  <2>2. trades \in Seq(TradeRow) /\ trades' = Append(trades, trade)
    BY <1>1 DEF JournalTypeOK, OpenTrade
  <2>. HIDE DEF trade
  <2>. QED
    BY <2>1, <2>2, AppendRow
<1>5. /\ exec.row \in Entries /\ orders[exec.row].status = "COMPLETE"
      /\ \A k \in DOMAIN trades : trades[k].entry # exec.row
  BY <1>1 DEF IndInv, RowInHand
<1>. QED
  BY <1>1, <1>3, <1>4, <1>5

(* An exit order is inserted: one COMPLETE row that names no signal.       *)
LEMMA WhatExitOrderDoes ==
    ASSUME IndInv, WatchExitOrder
    PROVE  /\ UNCHANGED <<signals, trades, dailyPnl, signalStream, orderStream>>
           /\ Len(orders) + 1 \notin DOMAIN orders
           /\ DOMAIN orders' = DOMAIN orders \cup {Len(orders) + 1}
           /\ \A i \in DOMAIN orders : orders'[i] = orders[i]
           /\ orders'[Len(orders) + 1].signal = NoSignal
           /\ orders'[Len(orders) + 1].side = "SELL"
           /\ orders'[Len(orders) + 1].status = "COMPLETE"
<1>. DEFINE sym == trades[watch.trade].symbol
<1>1. /\ UNCHANGED <<signals, trades, dailyPnl, signalStream, orderStream>>
      /\ watch.pc = "exit"
      /\ InsertOrder(NoSignal, sym, "SELL", "COMPLETE") /\ JournalTypeOK
  BY DEF WatchExitOrder, IndInv, TypeOK, SharedTypeOK
<1>2. watch.trade \in DOMAIN trades
  BY <1>1 DEF IndInv, ExitInHand, OpenTrades
<1>3. sym \in Symbols
  <2>1. trades[watch.trade] \in TradeRow
    BY <1>1, <1>2 DEF JournalTypeOK
  <2>. QED
    BY <2>1 DEF TradeRow
<1>4. /\ DOMAIN orders' = 1 .. Len(orders) + 1
      /\ DOMAIN orders = 1 .. Len(orders)
      /\ Len(orders) \in Nat
      /\ Len(orders') = Len(orders) + 1
      /\ \A i \in DOMAIN orders : orders'[i] = orders[i]
      /\ orders'[Len(orders')] = [signal |-> NoSignal, symbol |-> sym,
                                  side |-> "SELL", status |-> "COMPLETE"]
  BY <1>1, <1>3, InsertType
<1>. HIDE DEF sym
<1>. QED
  BY <1>1, <1>4

(* An open trade is closed, with an exit order that closed nothing before. *)
LEMMA WhatCloseDoes ==
    ASSUME IndInv, WatchClose
    PROVE  /\ UNCHANGED <<signals, orders, dailyPnl, signalStream, orderStream>>
           /\ watch.trade \in OpenTrades
           /\ watch.row \in Exits /\ watch.row \in Nat \ {0} /\ watch.pnl \in Int
           /\ \A k \in Closed : trades[k].exit # watch.row
           /\ Len(trades') = Len(trades)
           /\ DOMAIN trades' = DOMAIN trades
           /\ \A j \in DOMAIN trades :
                 /\ trades'[j].entry = trades[j].entry
                 /\ trades'[j].exit = IF j = watch.trade THEN watch.row
                                                         ELSE trades[j].exit
                 /\ trades'[j].pnl = IF j = watch.trade THEN watch.pnl
                                                        ELSE trades[j].pnl
           /\ Closed' = Closed \cup {watch.trade}
           /\ watch.trade \notin Closed
           /\ OpenTrades' = OpenTrades \ {watch.trade}
<1>1. /\ UNCHANGED <<signals, orders, dailyPnl, signalStream, orderStream>>
      /\ watch.pc = "close"
      /\ CloseTrade(watch.trade, watch.row, watch.pnl) /\ JournalTypeOK
      /\ watch.row \in Nat /\ watch.pnl \in Int
  BY DEF WatchClose, IndInv, TypeOK, SharedTypeOK, WatchTypeOK, WatchTask
<1>2. /\ watch.trade \in DOMAIN trades /\ trades[watch.trade].exit = 0
      /\ IsExit(watch.row, trades[watch.trade].symbol)
      /\ \A k \in Closed : trades[k].exit # watch.row
      /\ watch.trade \in OpenTrades
  BY <1>1 DEF IndInv, ExitInHand, OpenTrades, IsOpen
<1>3. /\ DOMAIN trades' = DOMAIN trades
      /\ \A j \in DOMAIN trades :
            /\ trades'[j].entry = trades[j].entry
            /\ trades'[j].symbol = trades[j].symbol
            /\ trades'[j].exit = IF j = watch.trade THEN watch.row ELSE trades[j].exit
      /\ trades' \in Seq(TradeRow)
  BY <1>1, <1>2, CloseType
<1>4. \A j \in DOMAIN trades :
         trades'[j].pnl = IF j = watch.trade THEN watch.pnl ELSE trades[j].pnl
  <2>. DEFINE trade == [trades[watch.trade] EXCEPT !.exit = watch.row, !.pnl = watch.pnl]
  <2>1. trades \in Seq(TradeRow) /\ trades' = [trades EXCEPT ![watch.trade] = trade]
    BY <1>1 DEF JournalTypeOK, CloseTrade
  <2>2. trades[watch.trade] \in TradeRow
    BY <1>2, <2>1
  <2>3. trade \in TradeRow /\ trade.pnl = watch.pnl
    BY <1>1, <2>2 DEF TradeRow
  <2>. HIDE DEF trade
  <2>4. /\ trades'[watch.trade] = trade
        /\ \A j \in DOMAIN trades : j # watch.trade => trades'[j] = trades[j]
    BY <1>2, <2>1, <2>3, UpdateRow
  <2>. QED
    BY <2>3, <2>4
<1>5. Len(trades') = Len(trades)
  BY <1>1, <1>3 DEF JournalTypeOK
<1>6. watch.row \in Exits /\ watch.row # 0
  <2>1. DOMAIN orders = 1 .. Len(orders) /\ Len(orders) \in Nat
    BY <1>1 DEF JournalTypeOK
  <2>. QED
    BY <1>2, <2>1 DEF IsExit, Exits
<1>7. /\ Closed' = Closed \cup {watch.trade} /\ watch.trade \notin Closed
      /\ OpenTrades' = OpenTrades \ {watch.trade}
  BY <1>2, <1>3, <1>6 DEF Closed, OpenTrades, IsOpen
<1>. QED
  BY <1>1, <1>2, <1>3, <1>4, <1>5, <1>6, <1>7

-----------------------------------------------------------------------------
(* What the refinement needs beside IndInv: verdicts and order rows.       *)

(* No step but an emission, a verdict and an order row touches what        *)
(* LifeInv speaks of.                                                      *)
LEMMA LifeSettled ==
    ASSUME LifeInv, UNCHANGED <<signals, signalStream, emit, risk, orders>>
    PROVE  LifeInv'
BY DEF LifeInv, VerdictOnce, Unjudged, ExitsUnsigned, Exits

(* A step of an emission gives no verdict.                                 *)
LEMMA EmitLife ==
    ASSUME IndInv, LifeInv, EmitNext, UNCHANGED <<risk, exec, watch>>
    PROVE  LifeInv'
<1>1. PICK s \in Signals :
         \/ \E ts \in StartTime .. now : EmitPersist(s, ts) \/ EmitPersistFails(s, ts)
         \/ EmitPublish(s)
         \/ EmitPublishFails(s)
  BY DEF EmitNext
<1>2. /\ emit[s].pc # "done" /\ UNCHANGED <<orders, risk>>
      /\ \A t \in Signals : t # s => emit'[t] = emit[t]
  BY <1>1 DEF EmitPersist, EmitPersistFails, EmitPublish, EmitPublishFails, tables,
     IndInv, TypeOK, EmitTypeOK
<1>3. \A t \in Signals : Unjudged(t) => Unjudged(t)'
  BY <1>1 DEF EmitPersist, EmitPersistFails, EmitPublish, EmitPublishFails, PersistSignal,
     tables, Unjudged, IndInv, TypeOK, SharedTypeOK, JournalTypeOK
<1>4. Unjudged(s)
  BY <1>2 DEF LifeInv, VerdictOnce
<1>5. \A t \in Signals : emit'[t].pc # "done" => Unjudged(t)'
  BY <1>2, <1>3, <1>4 DEF LifeInv, VerdictOnce
<1>6. \A j \in DOMAIN signalStream.log :
         signalStream.log[j] \in SignalEvent /\ signalStream.log[j].id \in Signals
  <2>1. \A j \in DOMAIN signalStream.log : signalStream.log[j] \in SignalEvent
    BY StreamRanges DEF IndInv
  <2>. QED
    BY <2>1 DEF SignalEvent
<1>7. /\ signalStream'.at = signalStream.at
      /\ \A j \in DOMAIN signalStream'.log :
            \/ j \in DOMAIN signalStream.log /\ signalStream'.log[j] = signalStream.log[j]
            \/ signalStream'.log[j].id = s
  <2>1. CASE EmitPublish(s)
    <3>. DEFINE event == [id |-> s, ts |-> emit[s].ts]
    <3>1. /\ event \in SignalEvent /\ event.id = s
          /\ signalStream \in Stream(SignalEvent) /\ WellFormed(signalStream)
          /\ signalStream' = Publish(signalStream, event)
      BY <2>1 DEF EmitPublish, IndInv, TypeOK, SharedTypeOK, EmitTypeOK, Emission, SignalEvent
    <3>2. /\ signalStream'.log = Append(signalStream.log, event)
          /\ signalStream'.at = signalStream.at /\ signalStream.log \in Seq(SignalEvent)
      BY <3>1, PublishLemma DEF Stream
    <3>. HIDE DEF event
    <3>3. /\ DOMAIN signalStream'.log = 1 .. Len(signalStream.log) + 1
          /\ DOMAIN signalStream.log = 1 .. Len(signalStream.log)
          /\ Len(signalStream.log) \in Nat
          /\ \A i \in DOMAIN signalStream.log : signalStream'.log[i] = signalStream.log[i]
          /\ signalStream'.log[Len(signalStream.log) + 1] = event
      BY <3>1, <3>2, AppendRow
    <3>. QED
      BY <3>1, <3>2, <3>3
  <2>2. CASE UNCHANGED signalStream
    BY <2>2
  <2>. QED
    BY <1>1, <2>1, <2>2 DEF EmitPersist, EmitPersistFails, EmitPublishFails
<1>8. \A j \in DOMAIN signalStream'.log :
         \/ j > signalStream.at
         \/ j = signalStream.at /\ risk.pc \in {"gate", "contract", "outcome"}
         => signals'[signalStream'.log[j].id] \in {"none", "new"}
  <2>1. ASSUME NEW j \in DOMAIN signalStream.log,
               \/ j > signalStream.at
               \/ j = signalStream.at /\ risk.pc \in {"gate", "contract", "outcome"}
        PROVE  signals'[signalStream.log[j].id] \in {"none", "new"}
    <3>1. Unjudged(signalStream.log[j].id)
      BY <2>1 DEF LifeInv, VerdictOnce
    <3>. QED
      BY <1>3, <1>6, <3>1 DEF Unjudged
  <2>2. signals'[s] \in {"none", "new"}
    BY <1>3, <1>4 DEF Unjudged
  <2>. QED
    BY <1>7, <2>1, <2>2
<1>. QED
  BY <1>2, <1>5, <1>7, <1>8 DEF LifeInv, VerdictOnce, Unjudged, ExitsUnsigned, Exits

(* The risk engine gives a verdict on the signal in its hand only, and is  *)
(* done with it then.                                                      *)
LEMMA RiskLife ==
    ASSUME IndInv, LifeInv, RiskNext, UNCHANGED <<emit, exec, watch>>
    PROVE  LifeInv'
<1>1. UNCHANGED <<orders, emit>>
  BY DEF RiskNext, RiskStep, RiskReceive, RiskGate, RiskContract, RiskOutcome,
     RiskPublish, RiskAck, RiskFail, RiskDie, shared, tables
<1>2. ASSUME UNCHANGED signals, signalStream'.log = signalStream.log,
             signalStream'.at \in Nat,
             \A j \in DOMAIN signalStream.log :
                \/ j > signalStream'.at
                \/ j = signalStream'.at /\ risk'.pc \in {"gate", "contract", "outcome"}
                => \/ j > signalStream.at
                   \/ j = signalStream.at /\ risk.pc \in {"gate", "contract", "outcome"}
      PROVE  LifeInv'
  BY <1>1, <1>2 DEF LifeInv, VerdictOnce, Unjudged, ExitsUnsigned, Exits
<1>3. CASE RiskReceive
  <2>1. /\ HasNext(signalStream) /\ signalStream \in Stream(SignalEvent)
        /\ WellFormed(signalStream) /\ RiskBatch \in Nat \ {0}
        /\ signalStream' = Take(signalStream, RiskBatch) /\ UNCHANGED signals
    BY <1>3, RiskAssumption DEF RiskReceive, IndInv, TypeOK, SharedTypeOK, tables
  <2>2. /\ signalStream'.log = signalStream.log
        /\ signalStream'.at = signalStream.at + 1
    BY <2>1, TakeLemma
  <2>3. signalStream.at \in Nat /\ DOMAIN signalStream.log \subseteq Nat
    BY <2>1 DEF Stream
  <2>. QED
    BY <1>2, <2>1, <2>2, <2>3
<1>4. CASE RiskGate \/ RiskContract
  <2>1. /\ UNCHANGED <<signals, signalStream>> /\ risk.pc \in {"gate", "contract"}
    BY <1>4 DEF RiskGate, RiskContract, shared, tables
  <2>2. signalStream.at \in Nat
    BY StreamRanges DEF IndInv
  <2>. QED
    BY <1>2, <2>1, <2>2
<1>5. CASE RiskOutcome
  <2>1. /\ UNCHANGED signalStream /\ risk.pc = "outcome" /\ risk'.pc \in {"publish", "ack"}
        /\ signals' = IF signals[Signal.id] = "none" THEN signals
                      ELSE [signals EXCEPT ![Signal.id] =
                               IF risk.accepted THEN "accepted" ELSE "rejected"]
    BY <1>5 DEF RiskOutcome, RiskIdle, MarkSignalOutcome, IndInv, TypeOK, RiskTypeOK, RiskTask
  <2>2. /\ signalStream.at \in DOMAIN signalStream.log
        /\ Signal.id \in Signals /\ Signal.id = signalStream.log[signalStream.at].id
    BY <2>1, SignalType DEF IndInv, Signal, Current
  <2>3. \A t \in Signals : t # Signal.id => signals'[t] = signals[t]
    BY <2>1 DEF IndInv, TypeOK, SharedTypeOK, JournalTypeOK
  <2>4. \A s \in Signals : emit[s].pc # "done" => s # Signal.id
    BY <2>2, Unpublished DEF IndInv
  <2>5. \A j \in DOMAIN signalStream.log :
           j > signalStream.at => /\ signalStream.log[j].id # Signal.id
                                  /\ signalStream.log[j].id \in Signals
    <3>1. \A j \in DOMAIN signalStream.log : signalStream.log[j] \in SignalEvent
      BY StreamRanges DEF IndInv
    <3>2. signalStream.at \in Nat
      BY StreamRanges DEF IndInv
    <3>. QED
      BY <2>2, <3>1, <3>2 DEF IndInv, PublishedOnce, SignalEvent
  <2>. QED
    BY <1>1, <2>1, <2>3, <2>4, <2>5 DEF LifeInv, VerdictOnce, Unjudged, ExitsUnsigned, Exits
<1>6. CASE RiskPublish \/ RiskAck \/ RiskFail \/ RiskDie
  <2>1. /\ UNCHANGED signals /\ risk'.pc \in {"ack", "idle", "dead"}
        /\ signalStream'.log = signalStream.log /\ signalStream'.at = signalStream.at
    BY <1>6, AckLemma DEF RiskPublish, RiskAck, RiskFail, RiskDie, RiskIdle, tables,
       IndInv, TypeOK, SharedTypeOK
  <2>2. signalStream.at \in Nat
    BY StreamRanges DEF IndInv
  <2>. QED
    BY <1>2, <2>1, <2>2
<1>. QED
  BY <1>3, <1>4, <1>5, <1>6 DEF RiskNext, RiskStep

(* The order rows written name a signal exactly when they are entries.     *)
LEMMA RowsLife ==
    ASSUME IndInv, LifeInv, UNCHANGED <<signals, signalStream, emit, risk>>,
           ExecNext \/ WatchNext
    PROVE  LifeInv'
<1>1. VerdictOnce'
  BY DEF LifeInv, VerdictOnce, Unjudged
<1>2. CASE ExecInsert
  BY <1>1, <1>2, WhatInsertDoes DEF LifeInv, ExitsUnsigned, Exits
<1>3. CASE ExecFill
  BY <1>1, <1>3, WhatFillDoes DEF LifeInv, ExitsUnsigned, Exits
<1>4. CASE WatchExitOrder
  BY <1>1, <1>4, WhatExitOrderDoes DEF LifeInv, ExitsUnsigned, Exits
<1>5. CASE UNCHANGED orders
  BY <1>5, LifeSettled
<1>6. ExecNext => ExecInsert \/ ExecFill \/ UNCHANGED orders
  BY DEF ExecNext, ExecStep, ExecReceive, ExecInsertRefused, ExecQuote, ExecNoQuote,
     ExecOpen, ExecReport, ExecAck, ExecFail, ExecDie, shared, tables
<1>7. WatchNext => WatchExitOrder \/ UNCHANGED orders
  BY DEF WatchNext, WatchStep, WatchSelect, WatchKeep, WatchDecide, WatchClose,
     WatchRollup, WatchReport, WatchFail, shared, tables
<1>. QED
  BY <1>2, <1>3, <1>4, <1>5, <1>6, <1>7

(* A restart drops what the tasks had in hand and never goes back in the   *)
(* stream of signals.                                                      *)
LEMMA RestartLife ==
    ASSUME IndInv, LifeInv, CrashRestart \/ ShutdownRestart
    PROVE  LifeInv'
<1>1. ProcessStarts
  BY DEF CrashRestart, ShutdownRestart
<1>2. /\ UNCHANGED <<signals, orders>> /\ risk'.pc = "idle"
      /\ \A s \in Signals : emit'[s].pc # "done" => emit[s].pc # "done"
  BY <1>1 DEF ProcessStarts, RiskIdle, tables
<1>3. /\ signalStream'.log = signalStream.log
      /\ signalStream.at <= signalStream'.at
      /\ signalStream'.at \in Nat /\ signalStream.at \in Nat
      /\ DOMAIN signalStream.log \subseteq Nat
  BY RestartStreams, StreamRanges DEF IndInv, Stream
<1>4. VerdictOnce'
  <2>1. \A j \in DOMAIN signalStream.log : j > signalStream'.at => j > signalStream.at
    BY <1>3
  <2>. QED
    BY <1>2, <1>3, <2>1 DEF LifeInv, VerdictOnce, Unjudged
<1>. QED
  BY <1>2, <1>4 DEF LifeInv, ExitsUnsigned, Exits

(* Every step keeps LifeInv.                                               *)
LEMMA LifeStep == IndInv /\ LifeInv /\ [Next]_vars => LifeInv'
<1>. SUFFICES ASSUME IndInv, LifeInv, [Next]_vars PROVE LifeInv'
  OBVIOUS
<1>1. CASE Emission_
  BY <1>1, EmitLife DEF Emission_
<1>2. CASE Risk_
  BY <1>2, RiskLife DEF Risk_
<1>3. CASE Exec_
  <2>1. ExecNext => UNCHANGED <<signals, signalStream>>
    BY DEF ExecNext, ExecStep, ExecReceive, ExecInsert, ExecInsertRefused, ExecQuote,
       ExecNoQuote, ExecFill, ExecOpen, ExecReport, ExecAck, ExecFail, ExecDie,
       shared, tables
  <2>. QED
    BY <1>3, <2>1, RowsLife DEF Exec_
<1>4. CASE Watch_
  <2>1. WatchNext => UNCHANGED <<signals, signalStream>>
    BY DEF WatchNext, WatchStep, WatchSelect, WatchKeep, WatchDecide, WatchExitOrder,
       WatchClose, WatchRollup, WatchReport, WatchFail, shared, tables
  <2>. QED
    BY <1>4, <2>1, RowsLife DEF Watch_
<1>5. CASE Environment
  BY <1>5, LifeSettled DEF Environment, TimePasses, ArmRedis, DisarmRedis, Signalled, tables
<1>6. CASE CrashRestart \/ ShutdownRestart
  BY <1>6, RestartLife
<1>7. CASE UNCHANGED vars
  BY <1>7, LifeSettled DEF vars, shared, tables
<1>. QED
  BY <1>1, <1>2, <1>3, <1>4, <1>5, <1>6, <1>7 DEF Next

(* It holds at the start.                                                  *)
LEMMA LifeInit == Init => LifeInv
<1>. SUFFICES ASSUME Init PROVE LifeInv
  OBVIOUS
<1>1. /\ orders = <<>> /\ signalStream.log = <<>>
      /\ \A s \in Signals : signals[s] = "none"
  BY DEF Init, SharedInit, JournalInit, EmptyStream
<1>. QED
  BY <1>1 DEF LifeInv, VerdictOnce, Unjudged, ExitsUnsigned, Exits

(* So it holds always.                                                     *)
LEMMA LifeInvariance == Spec => []LifeInv
BY LifeInit, LifeStep, Invariance, PTL DEF Spec

-----------------------------------------------------------------------------
(* The stage of a signal, as the last of the marks it has left.            *)
Emitted(s) == \E j \in DOMAIN signalStream.log : signalStream.log[j].id = s
Sent(s)    == \E j \in DOMAIN orderStream.log : orderStream.log[j].signal = s
Placed(s)  == OrdersOf(s) # {}
Filled(s)  == \E i \in OrdersOf(s) : orders[i].status = "COMPLETE"
Traded(s)  == TradesOf(s) # {}
Over(s)    == TradesOf(s) \cap Closed # {}

StageOfMarks(s) ==
    IF Over(s) THEN "closed"
    ELSE IF Traded(s) THEN "open"
    ELSE IF Placed(s) THEN (IF Filled(s) THEN "filled" ELSE "placed")
    ELSE IF Sent(s) THEN "ordered"
    ELSE IF signals[s] \in {"accepted", "rejected"} THEN signals[s]
    ELSE IF Emitted(s) THEN "emitted" ELSE "fresh"

(* The definition by cases is this one, before and after a step.           *)
LEMMA StageIsOfMarks ==
    ASSUME NEW s
    PROVE  /\ StageOf(s) = StageOfMarks(s)
           /\ StageOf(s)' = StageOfMarks(s)'
<1>1. StageOf(s) = StageOfMarks(s)
  BY DEF StageOf, StageOfMarks, Emitted, Sent, Placed, Filled, Traded, Over
<1>2. StageOf(s)' = StageOfMarks(s)'
  BY DEF StageOf, StageOfMarks, Emitted, Sent, Placed, Filled, Traded, Over
<1>. QED
  BY <1>1, <1>2

(* Each mark rests on the one before it.                                   *)
LEMMA MarksInOrder ==
    ASSUME IndInv, LifeInv, NEW s \in Signals
    PROVE  /\ Traded(s) => Filled(s)
           /\ OrdersOf(s) \subseteq Entries
           /\ Placed(s) => Sent(s)
           /\ Sent(s) => Emitted(s) /\ signals[s] \in {"none", "accepted"}
           /\ emit[s].pc # "done" => ~Emitted(s) /\ ~Sent(s) /\ Unjudged(s)
<1>. USE DEF IndInv
<1>1. OrdersOf(s) \subseteq Entries
  <2>. SUFFICES ASSUME NEW i \in DOMAIN orders, orders[i].signal = s
                PROVE  orders[i].side = "BUY"
    BY DEF OrdersOf, Entries
  <2>1. orders[i].side \in {"BUY", "SELL"}
    <3>1. orders[i] \in OrderRow
      BY DEF TypeOK, SharedTypeOK, JournalTypeOK
    <3>. QED
      BY <3>1 DEF OrderRow
  <2>. QED
    BY <2>1, JournalAssumption DEF LifeInv, ExitsUnsigned, Exits
<1>2. Traded(s) => Filled(s)
  BY DEF Traded, Filled, TradesOf, OrdersOf, EntryBacked, Entries
<1>3. Placed(s) => Sent(s)
  BY <1>1, EntryOrdered DEF Placed, Sent, OrdersOf, SignalIn
<1>4. Sent(s) => Emitted(s) /\ signals[s] \in {"none", "accepted"}
  <2>. SUFFICES ASSUME NEW j \in DOMAIN orderStream.log, SignalIn(j) = s
                PROVE  Emitted(s) /\ signals[s] \in {"none", "accepted"}
    BY DEF Sent, SignalIn
  <2>1. \E i \in DOMAIN signalStream.log : signalStream.log[i].id = s
    BY StreamRanges DEF PublishedOnce
  <2>. QED
    BY <2>1 DEF Emitted, VerdictFirst
<1>5. emit[s].pc # "done" => ~Emitted(s) /\ ~Sent(s) /\ Unjudged(s)
  BY Unpublished DEF Emitted, Sent, SignalIn, LifeInv, VerdictOnce
<1>. QED
  BY <1>1, <1>2, <1>3, <1>4, <1>5

(* A step that leaves the marks of a signal leaves its stage.              *)
LEMMA SameMarks ==
    ASSUME NEW s,
           Emitted(s)' = Emitted(s), Sent(s)' = Sent(s), Placed(s)' = Placed(s),
           Filled(s)' = Filled(s), Traded(s)' = Traded(s), Over(s)' = Over(s),
           \/ signals'[s] = signals[s]
           \/ signals'[s] \in {"none", "new"} /\ signals[s] \in {"none", "new"}
    PROVE  StageOf(s)' = StageOf(s)
BY StageIsOfMarks DEF StageOfMarks

(* A step that leaves orders and trades leaves the marks read off them.    *)
LEMMA SameTables ==
    ASSUME UNCHANGED <<orders, trades>>
    PROVE  \A s : /\ Placed(s)' = Placed(s) /\ Filled(s)' = Filled(s)
                 /\ Traded(s)' = Traded(s) /\ Over(s)' = Over(s)
BY DEF Placed, Filled, Traded, Over, TradesOf, OrdersOf, Closed

-----------------------------------------------------------------------------
(* What one step does to the stages: nothing, or one signal takes one edge. *)
AllStay == \A s \in Signals : StageOf(s)' = StageOf(s)

OneMoves(s) ==
    /\ <<StageOf(s), StageOf(s)'>> \in Lifecycle!Edges
    /\ \A t \in Signals : t # s => StageOf(t)' = StageOf(t)

OneEdgeOrNone == AllStay \/ \E s \in Signals : OneMoves(s)

(* It is enough to look at the one signal a step is about.                 *)
LEMMA StayOrMove ==
    ASSUME NEW s \in Signals,
           \A t \in Signals : t # s => StageOf(t)' = StageOf(t),
           StageOf(s)' = StageOf(s) \/ <<StageOf(s), StageOf(s)'>> \in Lifecycle!Edges
    PROVE  OneEdgeOrNone
BY DEF OneEdgeOrNone, AllStay, OneMoves

(* A step that changes no table, no verdict and no log moves no signal.    *)
LEMMA NoMarks ==
    ASSUME UNCHANGED <<signals, orders, trades>>,
           signalStream'.log = signalStream.log, orderStream'.log = orderStream.log
    PROVE  OneEdgeOrNone
<1>1. \A s \in Signals : Emitted(s)' = Emitted(s) /\ Sent(s)' = Sent(s)
  BY DEF Emitted, Sent
<1>2. \A s \in Signals : StageOf(s)' = StageOf(s)
  BY <1>1, SameTables, SameMarks
<1>. QED
  BY <1>2 DEF OneEdgeOrNone, AllStay

(* The publication of a signal takes it from fresh to emitted.             *)
LEMMA EmitMoves ==
    ASSUME IndInv, LifeInv, EmitNext, UNCHANGED <<risk, exec, watch>>
    PROVE  OneEdgeOrNone
<1>1. PICK s \in Signals :
         \/ \E ts \in StartTime .. now : EmitPersist(s, ts) \/ EmitPersistFails(s, ts)
         \/ EmitPublish(s)
         \/ EmitPublishFails(s)
  BY DEF EmitNext
<1>2. /\ emit[s].pc # "done" /\ UNCHANGED <<orders, trades, orderStream>>
      /\ \A t \in Signals : t # s => signals'[t] = signals[t]
      /\ \/ signals'[s] = signals[s]
         \/ signals'[s] = "new" /\ signals[s] = "none"
  BY <1>1 DEF EmitPersist, EmitPersistFails, EmitPublish, EmitPublishFails, PersistSignal,
     tables, IndInv, TypeOK, SharedTypeOK, JournalTypeOK
<1>3. ~Emitted(s) /\ ~Sent(s) /\ ~Placed(s) /\ ~Traded(s) /\ Unjudged(s)
  BY <1>2, MarksInOrder DEF Placed, Filled
<1>4. /\ \A t \in Signals : Sent(t)' = Sent(t)
      /\ \A t \in Signals : /\ Placed(t)' = Placed(t) /\ Filled(t)' = Filled(t)
                            /\ Traded(t)' = Traded(t) /\ Over(t)' = Over(t)
  BY <1>2, SameTables DEF Sent
<1>5. CASE UNCHANGED signalStream
  <2>1. \A t \in Signals : Emitted(t)' = Emitted(t)
    BY <1>5 DEF Emitted
  <2>2. \A t \in Signals : StageOf(t)' = StageOf(t)
    <3>. SUFFICES ASSUME NEW t \in Signals PROVE StageOf(t)' = StageOf(t)
      OBVIOUS
    <3>1. \/ signals'[t] = signals[t]
          \/ signals'[t] \in {"none", "new"} /\ signals[t] \in {"none", "new"}
      BY <1>2
    <3>. QED
      BY <1>4, <2>1, <3>1, SameMarks
  <2>. QED
    BY <2>2 DEF OneEdgeOrNone, AllStay
<1>6. CASE EmitPublish(s)
  <2>. DEFINE event == [id |-> s, ts |-> emit[s].ts]
  <2>1. /\ event \in SignalEvent /\ event.id = s
        /\ signalStream \in Stream(SignalEvent) /\ WellFormed(signalStream)
        /\ signalStream' = Publish(signalStream, event) /\ UNCHANGED signals
    BY <1>6 DEF EmitPublish, tables, IndInv, TypeOK, SharedTypeOK, EmitTypeOK, Emission,
       SignalEvent
  <2>. HIDE DEF event
  <2>2. signalStream'.log = Append(signalStream.log, event) /\ signalStream.log \in Seq(SignalEvent)
    BY <2>1, PublishLemma DEF Stream
  <2>3. /\ DOMAIN signalStream'.log = 1 .. Len(signalStream.log) + 1
        /\ DOMAIN signalStream.log = 1 .. Len(signalStream.log)
        /\ Len(signalStream.log) \in Nat
        /\ \A i \in DOMAIN signalStream.log : signalStream'.log[i] = signalStream.log[i]
        /\ signalStream'.log[Len(signalStream.log) + 1] = event
    BY <2>1, <2>2, AppendRow
  <2>4. Emitted(s)' /\ \A t \in Signals : t # s => Emitted(t)' = Emitted(t)
    BY <2>1, <2>3 DEF Emitted
  <2>5. \A t \in Signals : t # s => StageOf(t)' = StageOf(t)
    BY <1>4, <2>1, <2>4, SameMarks
  <2>6. StageOf(s) = "fresh" /\ StageOf(s)' = "emitted"
    <3>1. ~Over(s)
      BY <1>3 DEF Over, Traded
    <3>. QED
      BY <1>3, <1>4, <2>1, <2>4, <3>1, StageIsOfMarks DEF StageOfMarks, Unjudged
  <2>. QED
    BY <2>5, <2>6, StayOrMove DEF Lifecycle!Edges
<1>. QED
  BY <1>1, <1>5, <1>6 DEF EmitPersist, EmitPersistFails, EmitPublishFails

(* A verdict and the publication of an order move the signal in hand.      *)
LEMMA RiskMoves ==
    ASSUME IndInv, LifeInv, RiskNext, UNCHANGED <<emit, exec, watch>>
    PROVE  OneEdgeOrNone
<1>1. UNCHANGED <<orders, trades>>
  BY DEF RiskNext, RiskStep, RiskReceive, RiskGate, RiskContract, RiskOutcome,
     RiskPublish, RiskAck, RiskFail, RiskDie, shared, tables
<1>2. \A t \in Signals : /\ Placed(t)' = Placed(t) /\ Filled(t)' = Filled(t)
                         /\ Traded(t)' = Traded(t) /\ Over(t)' = Over(t)
  BY <1>1, SameTables
<1>. PICK s : s = Signal.id
  OBVIOUS
<1>3. ASSUME risk.pc \in {"outcome", "publish"}
      PROVE  s \in Signals /\ Emitted(s) /\ ~Sent(s) /\ ~Placed(s) /\ ~Traded(s) /\ ~Over(s)
  <2>1. s \in Signals /\ Emitted(s)
    BY <1>3, SignalType DEF IndInv, Emitted, Signal, Current
  <2>2. ~Sent(s)
    BY <1>3, NotOrderedYet DEF IndInv, Sent, SignalIn
  <2>3. ~Placed(s) /\ ~Traded(s)
    BY <2>1, <2>2, MarksInOrder DEF Placed, Filled
  <2>. QED
    BY <2>1, <2>2, <2>3 DEF Over, Traded
<1>4. CASE RiskOutcome
  <2>1. /\ UNCHANGED <<signalStream, orderStream>> /\ risk.pc = "outcome"
        /\ signals' = IF signals[s] = "none" THEN signals
                      ELSE [signals EXCEPT ![s] =
                               IF risk.accepted THEN "accepted" ELSE "rejected"]
    BY <1>4 DEF RiskOutcome, MarkSignalOutcome
  <2>2. /\ \A t \in Signals : t # s => signals'[t] = signals[t]
        /\ \/ signals'[s] = signals[s]
           \/ signals'[s] \in {"accepted", "rejected"}
    BY <1>3, <2>1 DEF IndInv, TypeOK, SharedTypeOK, JournalTypeOK
  <2>3. \A t \in Signals : Emitted(t)' = Emitted(t) /\ Sent(t)' = Sent(t)
    BY <2>1 DEF Emitted, Sent
  <2>4. Unjudged(s)
    BY <2>1, SignalType DEF IndInv, LifeInv, VerdictOnce, Signal, Current
  <2>5. \A t \in Signals : t # s => StageOf(t)' = StageOf(t)
    BY <1>2, <2>2, <2>3, SameMarks
  <2>6. StageOf(s) = "emitted"
    BY <1>3, <2>1, <2>4, StageIsOfMarks DEF StageOfMarks, Unjudged
  <2>7. StageOf(s)' \in {"emitted", "accepted", "rejected"}
    <3>1. s \in Signals /\ Emitted(s)' /\ ~Sent(s)' /\ ~Placed(s)' /\ ~Traded(s)' /\ ~Over(s)'
      BY <1>2, <1>3, <2>1, <2>3
    <3>2. signals'[s] \in {"none", "new", "accepted", "rejected"}
      BY <2>2, <2>4 DEF Unjudged
    <3>. QED
      BY <3>1, <3>2, StageIsOfMarks DEF StageOfMarks
  <2>. QED
    BY <1>3, <2>1, <2>5, <2>6, <2>7, StayOrMove DEF Lifecycle!Edges
<1>5. CASE RiskPublish
  <2>. DEFINE order == [signal |-> s, symbol |-> risk.symbol]
  <2>1. /\ UNCHANGED <<signals, signalStream>> /\ risk.pc = "publish"
        /\ orderStream' = Publish(orderStream, order)
        /\ orderStream \in Stream(OrderEvent) /\ WellFormed(orderStream)
        /\ risk.symbol \in Symbols
    BY <1>5 DEF RiskPublish, tables, IndInv, TypeOK, SharedTypeOK, RiskTypeOK, RiskTask
  <2>2. order \in OrderEvent /\ order.signal = s
    BY <1>3, <2>1 DEF OrderEvent
  <2>. HIDE DEF order
  <2>3. orderStream'.log = Append(orderStream.log, order) /\ orderStream.log \in Seq(OrderEvent)
    BY <2>1, <2>2, PublishLemma DEF Stream
  <2>4. /\ DOMAIN orderStream'.log = 1 .. Len(orderStream.log) + 1
        /\ DOMAIN orderStream.log = 1 .. Len(orderStream.log)
        /\ Len(orderStream.log) \in Nat
        /\ \A i \in DOMAIN orderStream.log : orderStream'.log[i] = orderStream.log[i]
        /\ orderStream'.log[Len(orderStream.log) + 1] = order
    BY <2>2, <2>3, AppendRow
  <2>5. \A t \in Signals : /\ Emitted(t)' = Emitted(t)
                           /\ t # s => Sent(t)' = Sent(t)
                           /\ t = s => Sent(t)'
    BY <2>1, <2>2, <2>4 DEF Emitted, Sent
  <2>6. \A t \in Signals : t # s => StageOf(t)' = StageOf(t)
    BY <1>2, <2>1, <2>5, SameMarks
  <2>7. StageOf(s) \in {"emitted", "accepted"}
    <3>1. signals[s] \in {"none", "accepted"}
      BY <2>1 DEF IndInv, VerdictFirst
    <3>. QED
      BY <1>3, <2>1, <3>1, StageIsOfMarks DEF StageOfMarks
  <2>8. StageOf(s)' = "ordered"
    <3>1. s \in Signals /\ Sent(s)' /\ ~Placed(s)' /\ ~Traded(s)' /\ ~Over(s)'
      BY <1>2, <1>3, <2>1, <2>5
    <3>. QED
      BY <3>1, StageIsOfMarks DEF StageOfMarks
  <2>. QED
    BY <1>3, <2>1, <2>6, <2>7, <2>8, StayOrMove DEF Lifecycle!Edges
<1>6. CASE RiskReceive \/ RiskGate \/ RiskContract \/ RiskAck \/ RiskFail \/ RiskDie
  <2>1. UNCHANGED <<signals, orderStream>> /\ signalStream'.log = signalStream.log
    BY <1>6, RiskAssumption, TakeLemma, AckLemma
    DEF RiskReceive, RiskGate, RiskContract, RiskAck, RiskFail, RiskDie, shared, tables,
        IndInv, TypeOK, SharedTypeOK
  <2>. QED
    BY <1>1, <2>1, NoMarks
<1>. QED
  BY <1>4, <1>5, <1>6 DEF RiskNext, RiskStep

(* A row inserted, marked COMPLETE, or a trade opened moves one signal.    *)
LEMMA ExecMoves ==
    ASSUME IndInv, LifeInv, ExecNext, UNCHANGED <<emit, risk, watch>>
    PROVE  OneEdgeOrNone
<1>1. CASE ExecInsert
  <2>. PICK s : s = Order.signal
    OBVIOUS
  <2>. PICK row : row = Len(orders) + 1
    OBVIOUS
  <2>1. /\ UNCHANGED <<signals, trades, signalStream, orderStream>>
        /\ row \notin DOMAIN orders /\ DOMAIN orders' = DOMAIN orders \cup {row}
        /\ \A i \in DOMAIN orders : orders'[i] = orders[i]
        /\ orders'[row].signal = s /\ orders'[row].status = "PENDING"
        /\ s \in Signals
        /\ orderStream.at \in DOMAIN orderStream.log
        /\ \A i \in Entries : orders[i].signal # s
    BY <1>1, WhatInsertDoes
  <2>2. Sent(s)
    BY <2>1 DEF Sent, Order, Current
  <2>3. \A t \in Signals : OrdersOf(t)' = IF t = s THEN OrdersOf(t) \cup {row} ELSE OrdersOf(t)
    BY <2>1 DEF OrdersOf
  <2>4. \A t \in Signals : /\ TradesOf(t)' = TradesOf(t)
                           /\ Emitted(t)' = Emitted(t) /\ Sent(t)' = Sent(t)
    BY <2>1 DEF TradesOf, Emitted, Sent, IndInv, EntryBacked, Entries
  <2>5. Closed' = Closed
    BY <2>1 DEF Closed
  <2>6. \A t \in Signals : Traded(t)' = Traded(t) /\ Over(t)' = Over(t)
    BY <2>4, <2>5 DEF Traded, Over
  <2>7. \A t \in Signals : t # s => Placed(t)' = Placed(t) /\ Filled(t)' = Filled(t)
    BY <2>1, <2>3 DEF Placed, Filled, OrdersOf
  <2>8. \A t \in Signals : t # s => StageOf(t)' = StageOf(t)
    BY <2>1, <2>4, <2>6, <2>7, SameMarks
  <2>9. OrdersOf(s) = {} /\ ~Placed(s) /\ ~Filled(s) /\ ~Traded(s) /\ ~Over(s)
    <3>1. OrdersOf(s) = {}
      BY <2>1, MarksInOrder DEF OrdersOf
    <3>2. ~Placed(s) /\ ~Filled(s)
      BY <3>1 DEF Placed, Filled
    <3>. QED
      BY <2>1, <3>1, <3>2, MarksInOrder DEF Traded, Over
  <2>10. /\ Placed(s)' /\ ~Filled(s)' /\ ~Traded(s)' /\ ~Over(s)'
    <3>1. (OrdersOf(s))' = {row}
      BY <2>1, <2>3, <2>9
    <3>. QED
      BY <2>1, <2>6, <2>9, <3>1 DEF Placed, Filled
  <2>11. StageOf(s) = "ordered" /\ StageOf(s)' = "placed"
    BY <2>2, <2>9, <2>10, StageIsOfMarks DEF StageOfMarks
  <2>. QED
    BY <2>1, <2>8, <2>11, StayOrMove DEF Lifecycle!Edges
<1>2. CASE ExecFill
  <2>. PICK s : s = orders[exec.row].signal
    OBVIOUS
  <2>1. /\ UNCHANGED <<signals, trades, signalStream, orderStream>>
        /\ exec.row \in Entries /\ exec.row \in DOMAIN orders
        /\ DOMAIN orders' = DOMAIN orders
        /\ \A i \in DOMAIN orders :
              /\ orders'[i].signal = orders[i].signal
              /\ orders'[i].status = IF i = exec.row THEN "COMPLETE" ELSE orders[i].status
        /\ \A k \in DOMAIN trades : trades[k].entry # exec.row
    BY <1>2, WhatFillDoes DEF Entries
  <2>2. s \in Signals
    BY <2>1 DEF IndInv, EntriesAreOrdered
  <2>3. \A t : OrdersOf(t)' = OrdersOf(t)
    BY <2>1 DEF OrdersOf
  <2>4. \A t \in Signals : /\ TradesOf(t)' = TradesOf(t)
                           /\ Emitted(t)' = Emitted(t) /\ Sent(t)' = Sent(t)
    BY <2>1 DEF TradesOf, Emitted, Sent, IndInv, EntryBacked, Entries
  <2>5. Closed' = Closed
    BY <2>1 DEF Closed
  <2>6. \A t \in Signals : /\ Traded(t)' = Traded(t) /\ Over(t)' = Over(t)
                           /\ Placed(t)' = Placed(t)
    BY <2>3, <2>4, <2>5 DEF Traded, Over, Placed
  <2>7. \A t \in Signals : t # s => Filled(t)' = Filled(t)
    BY <2>1, <2>3 DEF Filled, OrdersOf
  <2>8. \A t \in Signals : t # s => StageOf(t)' = StageOf(t)
    BY <2>1, <2>4, <2>6, <2>7, SameMarks
  <2>9. exec.row \in OrdersOf(s) /\ Placed(s) /\ ~Traded(s) /\ ~Over(s)
    <3>1. exec.row \in OrdersOf(s)
      BY <2>1 DEF OrdersOf
    <3>2. TradesOf(s) = {}
      BY <2>1 DEF TradesOf, IndInv, EntryBacked, EntriesAreOrdered
    <3>. QED
      BY <3>1, <3>2 DEF Placed, Traded, Over
  <2>10. Placed(s)' /\ Filled(s)' /\ ~Traded(s)' /\ ~Over(s)'
    <3>1. Filled(s)'
      BY <2>1, <2>3, <2>9 DEF Filled
    <3>. QED
      BY <2>2, <2>6, <2>9, <3>1
  <2>11. StageOf(s) \in {"placed", "filled"} /\ StageOf(s)' = "filled"
    BY <2>9, <2>10, StageIsOfMarks DEF StageOfMarks
  <2>. QED
    BY <2>2, <2>8, <2>11, StayOrMove DEF Lifecycle!Edges
<1>3. CASE ExecOpen
  <2>. PICK s : s = orders[exec.row].signal
    OBVIOUS
  <2>. PICK new : new = Len(trades) + 1
    OBVIOUS
  <2>1. /\ UNCHANGED <<signals, orders, signalStream, orderStream>>
        /\ new \notin DOMAIN trades /\ DOMAIN trades' = DOMAIN trades \cup {new}
        /\ \A k \in DOMAIN trades : trades'[k] = trades[k]
        /\ trades'[new].entry = exec.row /\ trades'[new].exit = 0
        /\ exec.row \in Entries /\ exec.row \in DOMAIN orders
        /\ orders[exec.row].status = "COMPLETE"
        /\ \A k \in DOMAIN trades : trades[k].entry # exec.row
    BY <1>3, WhatOpenDoes DEF Entries
  <2>2. s \in Signals
    BY <2>1 DEF IndInv, EntriesAreOrdered
  <2>3. \A t : TradesOf(t)' = IF t = s THEN TradesOf(t) \cup {new} ELSE TradesOf(t)
    BY <2>1 DEF TradesOf
  <2>4. \A t \in Signals : /\ OrdersOf(t)' = OrdersOf(t)
                           /\ Emitted(t)' = Emitted(t) /\ Sent(t)' = Sent(t)
    BY <2>1 DEF OrdersOf, Emitted, Sent
  <2>5. Closed' = Closed
    BY <2>1 DEF Closed
  <2>6. \A t \in Signals : Placed(t)' = Placed(t) /\ Filled(t)' = Filled(t)
    BY <2>1, <2>4 DEF Placed, Filled
  <2>7. \A t \in Signals : t # s => Traded(t)' = Traded(t) /\ Over(t)' = Over(t)
    BY <2>3, <2>5 DEF Traded, Over
  <2>8. \A t \in Signals : t # s => StageOf(t)' = StageOf(t)
    BY <2>1, <2>4, <2>6, <2>7, SameMarks
  <2>9. Placed(s) /\ Filled(s) /\ TradesOf(s) = {} /\ ~Traded(s) /\ ~Over(s)
    <3>1. exec.row \in OrdersOf(s)
      BY <2>1 DEF OrdersOf
    <3>2. TradesOf(s) = {}
      BY <2>1 DEF TradesOf, IndInv, EntryBacked, EntriesAreOrdered
    <3>. QED
      BY <2>1, <3>1, <3>2 DEF Placed, Filled, Traded, Over
  <2>10. Traded(s)' /\ ~Over(s)'
    <3>1. (TradesOf(s))' = {new}
      BY <2>3, <2>9
    <3>2. new \notin Closed'
      BY <2>1 DEF Closed
    <3>. QED
      BY <3>1, <3>2 DEF Traded, Over
  <2>11. StageOf(s) = "filled" /\ StageOf(s)' = "open"
    BY <2>9, <2>10, StageIsOfMarks DEF StageOfMarks
  <2>. QED
    BY <2>2, <2>8, <2>11, StayOrMove DEF Lifecycle!Edges
<1>4. CASE ~(ExecInsert \/ ExecFill \/ ExecOpen)
  <2>1. UNCHANGED <<signals, orders, trades, signalStream>>
        /\ orderStream'.log = orderStream.log
    BY <1>4, ExecAssumption, TakeLemma, AckLemma
    DEF ExecNext, ExecStep, ExecReceive, ExecInsertRefused, ExecQuote, ExecNoQuote,
        ExecReport, ExecAck, ExecFail, ExecDie, shared, tables,
        IndInv, TypeOK, SharedTypeOK
  <2>. QED
    BY <2>1, NoMarks
<1>. QED
  BY <1>1, <1>2, <1>3, <1>4

(* The close of a trade moves its signal; an exit order names none.        *)
LEMMA WatchMoves ==
    ASSUME IndInv, LifeInv, WatchNext, UNCHANGED <<emit, risk, exec>>
    PROVE  OneEdgeOrNone
<1>1. CASE WatchExitOrder
  <2>. PICK row : row = Len(orders) + 1
    OBVIOUS
  <2>1. /\ UNCHANGED <<signals, trades, signalStream, orderStream>>
        /\ row \notin DOMAIN orders /\ DOMAIN orders' = DOMAIN orders \cup {row}
        /\ \A i \in DOMAIN orders : orders'[i] = orders[i]
        /\ orders'[row].signal = NoSignal
    BY <1>1, WhatExitOrderDoes
  <2>2. \A t \in Signals : OrdersOf(t)' = OrdersOf(t)
    BY <2>1, JournalAssumption DEF OrdersOf
  <2>3. \A t \in Signals : /\ TradesOf(t)' = TradesOf(t)
                           /\ Emitted(t)' = Emitted(t) /\ Sent(t)' = Sent(t)
    BY <2>1 DEF TradesOf, Emitted, Sent, IndInv, EntryBacked, Entries
  <2>4. \A t \in Signals : /\ Placed(t)' = Placed(t) /\ Filled(t)' = Filled(t)
                           /\ Traded(t)' = Traded(t) /\ Over(t)' = Over(t)
    BY <2>1, <2>2, <2>3 DEF Placed, Filled, Traded, Over, Closed, OrdersOf
  <2>5. \A t \in Signals : StageOf(t)' = StageOf(t)
    BY <2>1, <2>3, <2>4, SameMarks
  <2>. QED
    BY <2>5 DEF OneEdgeOrNone, AllStay
<1>2. CASE WatchClose
  <2>. PICK s : s = orders[trades[watch.trade].entry].signal
    OBVIOUS
  <2>1. /\ UNCHANGED <<signals, orders, signalStream, orderStream>>
        /\ watch.trade \in DOMAIN trades
        /\ DOMAIN trades' = DOMAIN trades
        /\ \A k \in DOMAIN trades : trades'[k].entry = trades[k].entry
        /\ Closed' = Closed \cup {watch.trade} /\ watch.trade \notin Closed
    BY <1>2, WhatCloseDoes DEF OpenTrades
  <2>2. s \in Signals
    BY <2>1 DEF IndInv, EntryBacked, EntriesAreOrdered
  <2>3. /\ \A t : TradesOf(t)' = TradesOf(t)
        /\ TradesOf(s) = {watch.trade}
        /\ \A t : t # s => watch.trade \notin TradesOf(t)
    <3>1. \A t : TradesOf(t)' = TradesOf(t)
      BY <2>1 DEF TradesOf
    <3>2. TradesOf(s) = {watch.trade}
      BY <2>1 DEF TradesOf, IndInv, EntryBacked, EntriesAreOrdered
    <3>. QED
      BY <3>1, <3>2 DEF TradesOf
  <2>4. \A t \in Signals : /\ Emitted(t)' = Emitted(t) /\ Sent(t)' = Sent(t)
                           /\ Placed(t)' = Placed(t) /\ Filled(t)' = Filled(t)
                           /\ Traded(t)' = Traded(t)
    BY <2>1, <2>3 DEF Emitted, Sent, Placed, Filled, OrdersOf, Traded
  <2>5. \A t \in Signals : t # s => Over(t)' = Over(t)
    BY <2>1, <2>3 DEF Over
  <2>6. \A t \in Signals : t # s => StageOf(t)' = StageOf(t)
    BY <2>1, <2>4, <2>5, SameMarks
  <2>7. Traded(s) /\ ~Over(s) /\ Over(s)'
    BY <2>1, <2>3 DEF Traded, Over
  <2>8. StageOf(s) = "open" /\ StageOf(s)' = "closed"
    BY <2>7, StageIsOfMarks DEF StageOfMarks
  <2>. QED
    BY <2>2, <2>6, <2>8, StayOrMove DEF Lifecycle!Edges
<1>3. CASE ~(WatchExitOrder \/ WatchClose)
  <2>1. UNCHANGED <<signals, orders, trades, signalStream, orderStream>>
    BY <1>3 DEF WatchNext, WatchStep, WatchSelect, WatchKeep, WatchDecide, WatchRollup,
       WatchReport, WatchFail, shared, tables
  <2>. QED
    BY <2>1, NoMarks
<1>. QED
  BY <1>1, <1>2, <1>3

(* Every step of the agent is a step of SignalLifecycle or a stutter.      *)
LEMMA StepsAdvance == IndInv /\ LifeInv /\ [Next]_vars => OneEdgeOrNone
<1>. SUFFICES ASSUME IndInv, LifeInv, [Next]_vars PROVE OneEdgeOrNone
  OBVIOUS
<1>1. CASE Emission_
  BY <1>1, EmitMoves DEF Emission_
<1>2. CASE Risk_
  BY <1>2, RiskMoves DEF Risk_
<1>3. CASE Exec_
  BY <1>3, ExecMoves DEF Exec_
<1>4. CASE Watch_
  BY <1>4, WatchMoves DEF Watch_
<1>5. CASE Environment
  BY <1>5, NoMarks DEF Environment, TimePasses, ArmRedis, DisarmRedis, Signalled, tables
<1>6. CASE CrashRestart \/ ShutdownRestart
  <2>1. UNCHANGED <<signals, orders, trades>>
    BY <1>6 DEF CrashRestart, ShutdownRestart, ProcessStarts, tables
  <2>. QED
    BY <1>6, <2>1, RestartStreams, NoMarks DEF IndInv
<1>7. CASE UNCHANGED vars
  BY <1>7, NoMarks DEF vars, shared, tables
<1>. QED
  BY <1>1, <1>2, <1>3, <1>4, <1>5, <1>6, <1>7 DEF Next

(* The stages, as one function of the signals: the abstract variable.      *)
StageMap == [s \in Signals |-> StageOf(s)]

(* The agent starts with every signal fresh.                               *)
LEMMA StartsFresh == Init => Lifecycle!Init
<1>. SUFFICES ASSUME Init PROVE Lifecycle!Init
  OBVIOUS
<1>1. /\ orders = <<>> /\ trades = <<>> /\ orderStream.log = <<>> /\ signalStream.log = <<>>
      /\ \A s \in Signals : signals[s] = "none"
  BY DEF Init, SharedInit, JournalInit, EmptyStream
<1>2. \A s \in Signals : StageOf(s) = "fresh"
  <2>. SUFFICES ASSUME NEW s \in Signals PROVE StageOf(s) = "fresh"
    OBVIOUS
  <2>1. /\ ~Emitted(s) /\ ~Sent(s) /\ ~Placed(s) /\ ~Traded(s) /\ ~Over(s)
        /\ signals[s] = "none"
    BY <1>1 DEF Emitted, Sent, Placed, Traded, Over, OrdersOf, TradesOf
  <2>. QED
    BY <2>1, StageIsOfMarks DEF StageOfMarks
<1>. QED
  BY <1>2 DEF Lifecycle!Init

(* One edge of one signal is the abstract next-state relation.             *)
LEMMA OneEdgeIsAdvance ==
    ASSUME OneEdgeOrNone
    PROVE  Lifecycle!Next \/ StageMap' = StageMap
<1>1. CASE AllStay
  BY <1>1 DEF AllStay, StageMap
<1>2. CASE \E s \in Signals : OneMoves(s)
  <2>1. PICK s \in Signals : OneMoves(s)
    BY <1>2
  <2>2. /\ <<StageMap[s], StageOf(s)'>> \in Lifecycle!Edges
        /\ StageMap' = [StageMap EXCEPT ![s] = StageOf(s)']
    BY <2>1 DEF OneMoves, StageMap
  <2>3. StageOf(s)' \in Lifecycle!Stages
    BY <2>2 DEF Lifecycle!Edges, Lifecycle!Stages
  <2>. QED
    BY <2>2, <2>3 DEF Lifecycle!Next, Lifecycle!Advance, StageMap
<1>. QED
  BY <1>1, <1>2 DEF OneEdgeOrNone

(* The agent implements SignalLifecycle.                                   *)
THEOREM LifecycleRefined == Spec => SignalsOnlyAdvance
<1>1. IndInv /\ LifeInv /\ [Next]_vars => [Lifecycle!Next]_StageMap
  BY StepsAdvance, OneEdgeIsAdvance
<1>. QED
  BY <1>1, StartsFresh, Invariance, LifeInvariance, PTL
  DEF Spec, SignalsOnlyAdvance, Lifecycle!Spec, StageMap
=============================================================================
