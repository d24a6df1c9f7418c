----------------------------- MODULE GateProofs -----------------------------
(***************************************************************************)
(* What the gates of the risk engine guarantee over the whole pipeline:    *)
(* the two kill switches it reads, and the three daily limits.             *)
(***************************************************************************)
EXTENDS TradingAgentProofs

(* The switches armed are among those the operator uses.                   *)
OnlyUsedLayers == kill \subseteq KillLayers

(* No step arms a switch the operator does not use.                        *)
LEMMA LayersInv == OnlyUsedLayers /\ [Next]_vars => OnlyUsedLayers'
<1>. SUFFICES ASSUME OnlyUsedLayers, [Next]_vars PROVE OnlyUsedLayers'
  OBVIOUS
<1>1. CASE Emission_
  BY <1>1 DEF Emission_, EmitNext, EmitPersist, EmitPersistFails, EmitPublish,
     EmitPublishFails, OnlyUsedLayers
<1>2. CASE Risk_
  BY <1>2 DEF Risk_, RiskNext, RiskStep, RiskReceive, RiskGate, RiskContract,
     RiskOutcome, RiskPublish, RiskAck, RiskFail, RiskDie, shared, OnlyUsedLayers
<1>3. CASE Exec_
  BY <1>3 DEF Exec_, ExecNext, ExecStep, ExecReceive, ExecInsert, ExecInsertRefused,
     ExecQuote, ExecNoQuote, ExecFill, ExecOpen, ExecReport, ExecAck, ExecFail, ExecDie,
     shared, OnlyUsedLayers
<1>4. CASE Watch_
  BY <1>4 DEF Watch_, WatchNext, WatchStep, WatchSelect, WatchKeep, WatchDecide,
     WatchExitOrder, WatchClose, WatchRollup, WatchReport, WatchFail, shared,
     OnlyUsedLayers
<1>5. CASE Environment
  BY <1>5 DEF Environment, TimePasses, ArmRedis, DisarmRedis, Signalled, OnlyUsedLayers
<1>6. CASE CrashRestart \/ ShutdownRestart
  BY <1>6 DEF CrashRestart, ShutdownRestart, ProcessStarts, OnlyUsedLayers
<1>7. CASE UNCHANGED vars
  BY <1>7 DEF vars, shared, OnlyUsedLayers
<1>. QED
  BY <1>1, <1>2, <1>3, <1>4, <1>5, <1>6, <1>7 DEF Next

(* No signal is past gate g of the risk engine.                            *)
HeldAtGate(g) ==
    /\ risk.pc \in {"idle", "gate", "outcome", "ack", "dead"}
    /\ risk.pc = "outcome" => ~risk.accepted
    /\ risk.pc = "gate" => risk.gate <= g

(* The executor has nothing to do, and no order to come to it.             *)
ExecutorQuiet ==
    /\ ~HasNext(orderStream)
    /\ exec.pc \in {"idle", "ack", "dead", "report"}

(* These are the two halves of NoEntryInFlight.                            *)
LEMMA InFlightParts ==
    ASSUME NEW g
    PROVE  /\ TypeOK => (NoEntryInFlight(g) <=> HeldAtGate(g) /\ ExecutorQuiet)
           /\ TypeOK' => (NoEntryInFlight(g)' <=> HeldAtGate(g)' /\ ExecutorQuiet')
BY DEF NoEntryInFlight, HeldAtGate, ExecutorQuiet, TypeOK, RiskTypeOK, RiskTask

(* Once nothing is on its way, only a gate passed can let something        *)
(* through: if the two steps of the risk engine that pass gates leave its  *)
(* signal held, then whatever the step is, nothing is on its way after it. *)
LEMMA InFlightStep ==
    ASSUME TypeOK, TypeOK', [Next]_vars, NEW g, NoEntryInFlight(g),
           RiskReceive \/ RiskGate => HeldAtGate(g)'
    PROVE  NoEntryInFlight(g)'
<1>1. /\ HeldAtGate(g) /\ ExecutorQuiet
      /\ orderStream \in Stream(OrderEvent) /\ WellFormed(orderStream)
  BY InFlightParts DEF TypeOK, SharedTypeOK
<1>2. ASSUME HeldAtGate(g)', ExecutorQuiet'
      PROVE  NoEntryInFlight(g)'
  BY <1>2, InFlightParts
<1>3. UNCHANGED risk => HeldAtGate(g)'
  BY <1>1 DEF HeldAtGate
<1>4. UNCHANGED <<orderStream, exec>> => ExecutorQuiet'
  BY <1>1 DEF ExecutorQuiet
<1>5. CASE Emission_
  BY <1>2, <1>3, <1>4, <1>5 DEF Emission_, EmitNext, EmitPersist, EmitPersistFails,
     EmitPublish, EmitPublishFails
<1>6. CASE Risk_
  <2>1. ~RiskContract /\ ~RiskPublish
    BY <1>1 DEF RiskContract, RiskPublish, HeldAtGate
  <2>2. ExecutorQuiet'
    BY <1>4, <1>6, <2>1 DEF Risk_, RiskNext, RiskStep, RiskReceive, RiskGate, RiskOutcome,
       RiskAck, RiskFail, RiskDie, shared
  <2>3. CASE RiskReceive \/ RiskGate
    BY <1>2, <2>2, <2>3
  <2>4. CASE RiskOutcome \/ RiskAck \/ RiskFail \/ RiskDie
    <3>1. risk'.pc \in {"idle", "ack", "dead"}
      BY <1>1, <2>4 DEF RiskOutcome, RiskAck, RiskFail, RiskDie, RiskIdle, HeldAtGate
    <3>. QED
      BY <1>2, <2>2, <3>1 DEF HeldAtGate
  <2>. QED
    BY <1>6, <2>1, <2>3, <2>4 DEF Risk_, RiskNext, RiskStep
<1>7. CASE Exec_
  <2>1. HeldAtGate(g)'
    BY <1>3, <1>7 DEF Exec_
  <2>2. CASE ExecReport \/ ExecFail \/ ExecDie
    BY <1>1, <1>2, <2>1, <2>2 DEF ExecReport, ExecFail, ExecDie, ExecIdle, ExecutorQuiet
  <2>3. CASE ExecAck
    <3>1. orderStream' = Ack(orderStream) /\ exec' = ExecIdle
      BY <2>3 DEF ExecAck
    <3>2. ~HasNext(orderStream')
      BY <1>1, <3>1, AckLemma DEF HasNext, ExecutorQuiet
    <3>. QED
      BY <1>2, <2>1, <3>1, <3>2 DEF ExecIdle, ExecutorQuiet
  <2>4. /\ ~ExecReceive /\ ~ExecInsert /\ ~ExecInsertRefused /\ ~ExecQuote
        /\ ~ExecNoQuote /\ ~ExecFill /\ ~ExecOpen
    BY <1>1 DEF ExecReceive, ExecInsert, ExecInsertRefused, ExecQuote, ExecNoQuote,
       ExecFill, ExecOpen, ExecutorQuiet
  <2>. QED
    BY <1>7, <2>2, <2>3, <2>4 DEF Exec_, ExecNext, ExecStep
<1>8. CASE Watch_
  <2>1. WatchNext => orderStream' = orderStream
    BY DEF WatchNext, WatchStep, WatchSelect, WatchKeep, WatchDecide, WatchExitOrder,
       WatchClose, WatchRollup, WatchReport, WatchFail, shared
  <2>. QED
    BY <1>2, <1>3, <1>4, <1>8, <2>1 DEF Watch_
<1>9. CASE Environment
  BY <1>2, <1>3, <1>4, <1>9 DEF Environment, TimePasses, ArmRedis, DisarmRedis, Signalled
<1>10. CASE CrashRestart \/ ShutdownRestart
  <2>1. ~HasNext(orderStream')
    <3>1. /\ orderStream' \in Stream(OrderEvent) /\ WellFormed(orderStream')
          /\ orderStream'.log = orderStream.log
          /\ orderStream.at <= orderStream'.at
      BY <1>10, RestartStreams
    <3>. QED
      BY <1>1, <3>1 DEF HasNext, WellFormed, Stream, ExecutorQuiet
  <2>2. risk' = RiskIdle /\ exec' = ExecIdle
    BY <1>10 DEF CrashRestart, ShutdownRestart, ProcessStarts
  <2>. QED
    BY <1>2, <2>1, <2>2 DEF RiskIdle, ExecIdle, HeldAtGate, ExecutorQuiet
<1>11. CASE UNCHANGED vars
  BY <1>2, <1>3, <1>4, <1>11 DEF vars, shared
<1>. QED
  BY <1>5, <1>6, <1>7, <1>8, <1>9, <1>10, <1>11 DEF Next

-----------------------------------------------------------------------------
(* With one of the two switches armed before and after a step, the step    *)
(* lets nothing through: a signal taken in it is rejected at once.         *)
LEMMA QuietStep ==
    ASSUME TypeOK, TypeOK', [Next]_vars, NoEntryInFlight(0),
           kill \cap {"local", "env"} # {}
    PROVE  NoEntryInFlight(0)'
<1>1. ASSUME RiskReceive PROVE HeldAtGate(0)'
  <2>1. ~CheapGatesPass(Current(signalStream'))
    BY DEF CheapGatesPass
  <2>2. risk' = [RiskIdle EXCEPT !.pc = "outcome"]
    BY <1>1, <2>1 DEF RiskReceive
  <2>. QED
    BY <2>2 DEF RiskIdle, HeldAtGate
<1>2. ~RiskGate
  BY DEF RiskGate, NoEntryInFlight, TypeOK, RiskTypeOK, RiskTask
<1>. QED
  BY <1>1, <1>2, InFlightStep

(* Of the four switches the repository names, the process's own and its    *)
(* environment's do halt all new entries, however the steps of the agent,  *)
(* its failures and its restarts interleave.  (The run redis_switch shows  *)
(* that the two kept in Redis do not.)                                     *)
THEOREM SwitchesReadHold ==
    ASSUME KillLayers \subseteq {"local", "env"}
    PROVE  Spec => SwitchesHold
<1>1. Init => OnlyUsedLayers
  BY DEF Init, SharedInit, OnlyUsedLayers
<1>2. /\ TypeOK /\ TypeOK' /\ OnlyUsedLayers /\ [Next]_vars
      => [kill # {} /\ kill' # {} /\ NoEntryInFlight(0) => NoEntryInFlight(0)']_vars
  BY QuietStep DEF OnlyUsedLayers
<1>. QED
  BY <1>1, <1>2, LayersInv, TypeCorrect, PTL DEF Spec, SwitchesHold

-----------------------------------------------------------------------------
(* The aggregates of the days: untouched until a signal was taken, since   *)
(* what they count is the close of a trade that a signal led to.           *)

(* A step of the watcher that books a close comes after a signal was taken. *)
LEMMA RollupAfterSignal ==
    ASSUME IndInv, WatchRollup
    PROVE  signalStream.at >= 1
<1>1. PICK k \in Closed : trades[k].exit = watch.row
  BY DEF WatchRollup, IndInv, ExitInHand
<1>2. trades[k].entry \in Entries
  BY <1>1 DEF IndInv, EntryBacked, Closed
<1>3. PICK j \in DOMAIN orderStream.log : SignalIn(j) = orders[trades[k].entry].signal
  BY <1>2, EntryOrdered DEF IndInv
<1>4. \E i \in 1 .. signalStream.at : signalStream.log[i].id = SignalIn(j)
  BY DEF IndInv, PublishedOnce
<1>. QED
  BY <1>4, StreamRanges DEF IndInv

(* No step but that one touches the aggregates.                            *)
LEMMA OnlyRollupBooks ==
    ASSUME [Next]_vars, ~(Watch_ /\ WatchRollup)
    PROVE  UNCHANGED dailyPnl
<1>1. CASE Emission_
  BY <1>1 DEF Emission_, EmitNext, EmitPersist, EmitPersistFails, EmitPublish,
     EmitPublishFails, tables
<1>2. CASE Risk_
  BY <1>2 DEF Risk_, RiskNext, RiskStep, RiskReceive, RiskGate, RiskContract,
     RiskOutcome, RiskPublish, RiskAck, RiskFail, RiskDie, shared, tables
<1>3. CASE Exec_
  BY <1>3 DEF Exec_, ExecNext, ExecStep, ExecReceive, ExecInsert, ExecInsertRefused,
     ExecQuote, ExecNoQuote, ExecFill, ExecOpen, ExecReport, ExecAck, ExecFail, ExecDie,
     shared, tables
<1>4. CASE Watch_
  BY <1>4 DEF Watch_, WatchNext, WatchStep, WatchSelect, WatchKeep, WatchDecide,
     WatchExitOrder, WatchClose, WatchReport, WatchFail, shared, tables
<1>5. CASE Environment
  BY <1>5 DEF Environment, TimePasses, ArmRedis, DisarmRedis, Signalled, tables
<1>6. CASE CrashRestart \/ ShutdownRestart
  BY <1>6 DEF CrashRestart, ShutdownRestart, ProcessStarts, tables
<1>7. CASE UNCHANGED vars
  BY <1>7 DEF vars, shared, tables
<1>. QED
  BY <1>1, <1>2, <1>3, <1>4, <1>5, <1>6, <1>7 DEF Next

(* The risk engine never goes back in its stream.                          *)
LEMMA NeverBack ==
    ASSUME IndInv, [Next]_vars
    PROVE  signalStream'.at >= signalStream.at
<1>1. signalStream \in Stream(SignalEvent) /\ WellFormed(signalStream) /\ signalStream.at \in Nat
  BY DEF IndInv, TypeOK, SharedTypeOK, Stream
<1>2. CASE UNCHANGED signalStream
  BY <1>1, <1>2
<1>3. CASE Emission_
  <2>1. PICK s \in Signals :
           \/ \E ts \in StartTime .. now : EmitPersist(s, ts) \/ EmitPersistFails(s, ts)
           \/ EmitPublish(s)
           \/ EmitPublishFails(s)
    BY <1>3 DEF Emission_, EmitNext
  <2>2. CASE EmitPublish(s)
    <3>1. PICK event : event = [id |-> s, ts |-> emit[s].ts]
      OBVIOUS
    <3>2. event \in SignalEvent /\ signalStream' = Publish(signalStream, event)
      BY <2>2, <3>1 DEF EmitPublish, IndInv, TypeOK, EmitTypeOK, Emission, SignalEvent
    <3>. QED
      BY <1>1, <3>2, PublishLemma
  <2>. QED
    BY <1>2, <2>1, <2>2 DEF EmitPersist, EmitPersistFails, EmitPublishFails
<1>4. CASE Risk_
  <2>1. CASE RiskReceive
    <3>1. /\ HasNext(signalStream) /\ RiskBatch \in Nat \ {0}
          /\ signalStream' = Take(signalStream, RiskBatch)
      BY <2>1, RiskAssumption DEF RiskReceive
    <3>. QED
      BY <1>1, <3>1, TakeLemma
  <2>2. CASE RiskAck
    BY <1>1, <2>2, AckLemma DEF RiskAck
  <2>. QED
    BY <1>2, <1>4, <2>1, <2>2 DEF Risk_, RiskNext, RiskStep, RiskGate, RiskContract,
       RiskOutcome, RiskPublish, RiskFail, RiskDie, shared
<1>5. CASE Exec_
  BY <1>2, <1>5 DEF Exec_, ExecNext, ExecStep, ExecReceive, ExecInsert,
     ExecInsertRefused, ExecQuote, ExecNoQuote, ExecFill, ExecOpen, ExecReport, ExecAck,
     ExecFail, ExecDie, shared
<1>6. CASE Watch_
  BY <1>2, <1>6 DEF Watch_, WatchNext, WatchStep, WatchSelect, WatchKeep, WatchDecide,
     WatchExitOrder, WatchClose, WatchRollup, WatchReport, WatchFail, shared
<1>7. CASE Environment
  BY <1>2, <1>7 DEF Environment, TimePasses, ArmRedis, DisarmRedis, Signalled
<1>8. CASE CrashRestart \/ ShutdownRestart
  BY <1>1, <1>8, RestartStreams DEF IndInv, Stream
<1>9. CASE UNCHANGED vars
  BY <1>2, <1>9 DEF vars, shared
<1>. QED
  BY <1>3, <1>4, <1>5, <1>6, <1>7, <1>8, <1>9 DEF Next

(* So an aggregate with something in it means that a signal was taken.     *)
LEMMA BookedStep == IndInv /\ BookedAfterSignal /\ [Next]_vars => BookedAfterSignal'
<1>. SUFFICES ASSUME IndInv, BookedAfterSignal, [Next]_vars PROVE BookedAfterSignal'
  OBVIOUS
<1>1. signalStream.at \in Nat /\ signalStream'.at \in Nat
  BY StreamRanges, NextInv DEF IndInv, TypeOK, SharedTypeOK, Stream
<1>. QED
  BY <1>1, RollupAfterSignal, OnlyRollupBooks, NeverBack DEF BookedAfterSignal

(* It holds of every reachable state.                                      *)
LEMMA BookedInvariance == Spec => []BookedAfterSignal
<1>1. Init => BookedAfterSignal
  BY DEF Init, SharedInit, JournalInit, BookedAfterSignal
<1>. QED
  BY <1>1, BookedStep, Invariance, PTL DEF Spec

-----------------------------------------------------------------------------
(* A flat agent with nothing on its way: the tables are not written, and   *)
(* the watcher stays asleep.                                               *)
LEMMA FlatStep ==
    ASSUME IndInv, [Next]_vars, Flat, ExecutorQuiet
    PROVE  Flat' /\ UNCHANGED dailyPnl
<1>1. OpenTrades = {} /\ watch.pc \in {"sleep", "report"} /\ watch.todo = {}
  BY DEF Flat, IndInv, ExitInHand
<1>2. UNCHANGED dailyPnl
  BY <1>1, OnlyRollupBooks DEF WatchRollup
<1>3. ASSUME UNCHANGED trades, watch'.pc \in {"sleep", "report"}
      PROVE  Flat'
  BY <1>1, <1>3 DEF Flat, OpenTrades, IsOpen
<1>4. CASE Emission_
  BY <1>1, <1>3, <1>4 DEF Emission_, EmitNext, EmitPersist, EmitPersistFails, EmitPublish,
     EmitPublishFails, tables
<1>5. CASE Risk_
  BY <1>1, <1>3, <1>5 DEF Risk_, RiskNext, RiskStep, RiskReceive, RiskGate, RiskContract,
     RiskOutcome, RiskPublish, RiskAck, RiskFail, RiskDie, shared, tables
<1>6. CASE Exec_
  <2>1. ~ExecOpen
    BY DEF ExecOpen, ExecutorQuiet
  <2>. QED
    BY <1>1, <1>3, <1>6, <2>1 DEF Exec_, ExecNext, ExecStep, ExecReceive, ExecInsert,
       ExecInsertRefused, ExecQuote, ExecNoQuote, ExecFill, ExecReport, ExecAck, ExecFail,
       ExecDie, shared, tables
<1>7. CASE Watch_
  <2>1. CASE WatchReport \/ WatchFail
    <3>1. watch' = NextTrade({}) /\ UNCHANGED trades
      BY <1>1, <2>1 DEF WatchReport, WatchFail, tables
    <3>. QED
      BY <1>2, <1>3, <3>1 DEF NextTrade, WatchSleep
  <2>2. ~WatchSelect /\ ~WatchExitOrder /\ ~WatchClose /\ ~WatchRollup
    BY <1>1 DEF WatchSelect, WatchExitOrder, WatchClose, WatchRollup
  <2>. QED
    BY <1>1, <1>7, <2>1, <2>2 DEF Watch_, WatchNext, WatchStep, WatchKeep, WatchDecide
<1>8. CASE Environment
  BY <1>1, <1>3, <1>8 DEF Environment, TimePasses, ArmRedis, DisarmRedis, Signalled, tables
<1>9. CASE CrashRestart \/ ShutdownRestart
  BY <1>3, <1>9 DEF CrashRestart, ShutdownRestart, ProcessStarts, WatchSleep, tables
<1>10. CASE UNCHANGED vars
  BY <1>1, <1>3, <1>10 DEF vars, shared, tables
<1>. QED
  BY <1>2, <1>4, <1>5, <1>6, <1>7, <1>8, <1>9, <1>10 DEF Next

(* Time only passes when nothing else happens.                             *)
LEMMA OnlyTimePasses ==
    ASSUME [Next]_vars, now' # now
    PROVE  TimePasses
<1>1. ~Emission_
  BY DEF Emission_, EmitNext, EmitPersist, EmitPersistFails, EmitPublish, EmitPublishFails
<1>2. ~Risk_
  BY DEF Risk_, RiskNext, RiskStep, RiskReceive, RiskGate, RiskContract, RiskOutcome,
     RiskPublish, RiskAck, RiskFail, RiskDie, shared
<1>3. ~Exec_
  BY DEF Exec_, ExecNext, ExecStep, ExecReceive, ExecInsert, ExecInsertRefused,
     ExecQuote, ExecNoQuote, ExecFill, ExecOpen, ExecReport, ExecAck, ExecFail, ExecDie, shared
<1>4. ~Watch_
  BY DEF Watch_, WatchNext, WatchStep, WatchSelect, WatchKeep, WatchDecide,
     WatchExitOrder, WatchClose, WatchRollup, WatchReport, WatchFail, shared
<1>5. ~CrashRestart /\ ~ShutdownRestart /\ ~UNCHANGED vars
  BY DEF CrashRestart, ShutdownRestart, ProcessStarts, vars, shared
<1>. QED
  BY <1>1, <1>2, <1>3, <1>4, <1>5 DEF Next, Environment, ArmRedis, DisarmRedis, Signalled

(* A limit that has tripped stays tripped while the day lasts.  The day    *)
(* can only end under OnlyTodaysSignals if no signal was ever taken, and   *)
(* then every day's aggregate is empty and the next day begins as tripped  *)
(* as this one.                                                            *)
LEMMA LimitStaysTripped ==
    ASSUME IndInv, BookedAfterSignal, [Next]_vars, UNCHANGED dailyPnl,
           NEW g \in 1 .. 3, Tripped(g), OnlyTodaysSignals, OnlyTodaysSignals'
    PROVE  Tripped(g)'
<1>1. ASSUME dailyPnl'[Day(now')] = dailyPnl[Day(now)]
      PROVE  Tripped(g)'
  <2>1. Today' = Today
    BY <1>1 DEF Today
  <2>. QED
    BY <2>1 DEF Tripped
<1>2. CASE Day(now') = Day(now)
  BY <1>1, <1>2
<1>3. CASE Day(now') # Day(now)
  <2>1. UNCHANGED signalStream
    BY <1>3, OnlyTimePasses DEF TimePasses
  <2>2. ~(signalStream.at >= 1)
    <3>1. signalStream.at >= 1 => signalStream.at \in DOMAIN signalStream.log
      BY StreamRanges DEF IndInv
    <3>2. signalStream.at \in Nat
      BY StreamRanges DEF IndInv
    <3>. QED
      BY <1>3, <2>1, <3>1, <3>2 DEF OnlyTodaysSignals
  <2>3. \A d \in Days : dailyPnl[d] = EmptyDay
    BY <2>2 DEF BookedAfterSignal
  <2>4. Day(now) \in Days /\ Day(now') \in Days
    BY DayType, NextInv DEF IndInv, TypeOK, SharedTypeOK
  <2>. QED
    BY <1>1, <2>3, <2>4
<1>. QED
  BY <1>2, <1>3

(* Behind a tripped limit the risk engine passes no signal of the day: one *)
(* it takes starts before the limit's gate, and is rejected there.         *)
LEMMA LimitHolds ==
    ASSUME IndInv, NEW g \in 1 .. 3, Tripped(g), NoEntryInFlight(g), OnlyTodaysSignals,
           RiskReceive \/ RiskGate
    PROVE  HeldAtGate(g)'
<1>1. CASE RiskReceive
  BY <1>1 DEF RiskReceive, RiskIdle, HeldAtGate
<1>2. CASE RiskGate
  <2>1. risk.pc = "gate" /\ risk \in RiskTask /\ risk.gate \in 1 .. g
    BY <1>2 DEF RiskGate, NoEntryInFlight, IndInv, TypeOK, RiskTypeOK, RiskTask
  <2>2. Day(Signal.ts) = Day(now)
    <3>1. signalStream.at \in DOMAIN signalStream.log /\ signalStream.at \in Nat
      BY <2>1, SignalType, StreamRanges DEF IndInv
    <3>. QED
      BY <3>1 DEF OnlyTodaysSignals, Signal, Current
  <2>3. CASE risk.gate = g
    <3>1. PICK row \in DailyRow : row = dailyPnl[Day(now)]
      BY DayType DEF IndInv, TypeOK, SharedTypeOK, JournalTypeOK
    <3>2. ~StateGatePasses(g, Signal)
      <4>1. CASE g = 1
        BY <2>2, <3>1, <4>1, RiskAssumption DEF StateGatePasses, Tripped, Today, DailyRow
      <4>2. CASE g = 2
        BY <2>2, <3>1, <4>2, RiskAssumption DEF StateGatePasses, Tripped, Today, DailyRow
      <4>3. CASE g = 3
        <5>1. row.net <= -MaxDailyLoss /\ row.net \in Int
          BY <3>1, <4>3 DEF Tripped, Today, DailyRow
        <5>2. StateGatePasses(g, Signal) <=> row.net > -MaxDailyLoss
          BY <2>2, <3>1, <4>3 DEF StateGatePasses
        <5>. QED
          BY <5>1, <5>2, RiskAssumption
      <4>. QED
        BY <4>1, <4>2, <4>3
    <3>. QED
      BY <1>2, <2>3, <3>2 DEF RiskGate, Reject, RiskIdle, HeldAtGate
  <2>4. CASE risk.gate < g
    <3>1. \/ risk' = [risk EXCEPT !.gate = risk.gate + 1]
          \/ risk' = [RiskIdle EXCEPT !.pc = "outcome"]
      BY <1>2, <2>1, <2>4 DEF RiskGate, Reject
    <3>2. \/ risk'.pc = "gate" /\ risk'.gate = risk.gate + 1
          \/ risk'.pc = "outcome" /\ ~risk'.accepted
      BY <2>1, <3>1 DEF RiskTask, RiskIdle
    <3>3. risk.gate + 1 <= g
      BY <2>1, <2>4
    <3>. QED
      BY <3>2, <3>3 DEF HeldAtGate
  <2>. QED
    BY <2>1, <2>3, <2>4
<1>. QED
  BY <1>1, <1>2

(* Once a daily limit has tripped and the agent is flat, it stays halted   *)
(* and flat for the rest of the day, whatever fails and restarts: losing   *)
(* streak, number of trades and daily loss alike.                          *)
THEOREM LimitsHold == Spec => HaltHolds
<1>1. ASSUME IndInv, IndInv', BookedAfterSignal, [Next]_vars, NEW g \in 1 .. 3,
             Tripped(g), Flat, NoEntryInFlight(g), OnlyTodaysSignals, OnlyTodaysSignals'
      PROVE  (Tripped(g) /\ Flat /\ NoEntryInFlight(g))'
  <2>1. Flat' /\ UNCHANGED dailyPnl
    BY <1>1, FlatStep, InFlightParts DEF IndInv
  <2>2. Tripped(g)'
    BY <1>1, <2>1, LimitStaysTripped
  <2>3. NoEntryInFlight(g)'
    BY <1>1, LimitHolds, InFlightStep DEF IndInv
  <2>. QED
    BY <2>1, <2>2, <2>3
<1>2. IndInv /\ IndInv' /\ BookedAfterSignal /\ [Next]_vars
      => [\A g \in 1 .. 3 :
             /\ Tripped(g) /\ Flat /\ NoEntryInFlight(g)
             /\ OnlyTodaysSignals /\ OnlyTodaysSignals'
             => (Tripped(g) /\ Flat /\ NoEntryInFlight(g))']_vars
  BY <1>1
<1>. QED
  BY <1>2, Invariance, BookedInvariance, PTL DEF Spec, HaltHolds
=============================================================================
