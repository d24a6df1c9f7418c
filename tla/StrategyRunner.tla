--------------------------- MODULE StrategyRunner ---------------------------
(***************************************************************************)
(* Where signals come from: _emit of the strategy runner                   *)
(* (src/src/strategies/runner.py) and _inject of the daily test            *)
(* (src/src/workers/daily_test.py).  Both journal the signal, then publish *)
(* it.  The runner has three consumer tasks and the daily test is a fourth *)
(* task, so emissions interleave.                                          *)
(*                                                                         *)
(* Which signals the strategies produce is not modelled here: any signal   *)
(* may be produced at any time, and each has an event_id of its own.  Its  *)
(* timestamp is that of the bar or of the regime update it comes from (the *)
(* daily test takes the current time), so it may lie in the past.          *)
(***************************************************************************)
EXTENDS AgentState

VARIABLE emit     \* where each signal is, and its timestamp

Emission == [pc : {"fresh", "publish", "done"}, ts : Time]

EmitTypeOK == emit \in [Signals -> Emission]

EmitInit == emit = [s \in Signals |-> [pc |-> "fresh", ts |-> StartTime]]

EmitPersist(s, ts) ==
    /\ emit[s].pc = "fresh"
    /\ PersistSignal(s)
    /\ emit' = [emit EXCEPT ![s] = [pc |-> "publish", ts |-> ts]]
    /\ UNCHANGED <<now, orders, trades, dailyPnl, signalStream, orderStream,
                   updates, kill, faults>>

(* The database refuses: the runner logs it and publishes all the same.    *)
EmitPersistFails(s, ts) ==
    /\ emit[s].pc = "fresh"
    /\ Fault
    /\ emit' = [emit EXCEPT ![s] = [pc |-> "publish", ts |-> ts]]
    /\ UNCHANGED <<now, tables, signalStream, orderStream, updates, kill>>

EmitPublish(s) ==
    /\ emit[s].pc = "publish"
    /\ signalStream' = Publish(signalStream, [id |-> s, ts |-> emit[s].ts])
    /\ emit' = [emit EXCEPT ![s] = [@ EXCEPT !.pc = "done"]]
    /\ UNCHANGED <<now, tables, orderStream, updates, kill, faults>>

(* The bus refuses: the signal is journaled and never seen again.          *)
EmitPublishFails(s) ==
    /\ emit[s].pc = "publish"
    /\ Fault
    /\ emit' = [emit EXCEPT ![s] = [@ EXCEPT !.pc = "done"]]
    /\ UNCHANGED <<now, tables, signalStream, orderStream, updates, kill>>

EmitNext ==
    \E s \in Signals :
        \/ \E ts \in StartTime .. now : EmitPersist(s, ts) \/ EmitPersistFails(s, ts)
        \/ EmitPublish(s)
        \/ EmitPublishFails(s)
=============================================================================
