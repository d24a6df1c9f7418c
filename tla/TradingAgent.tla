---------------------------- MODULE TradingAgent ----------------------------
(***************************************************************************)
(* The ingestor process (src/src/workers/ingestor.py main): the strategy,  *)
(* risk, executor and watcher tasks on one event loop, over the streams    *)
(* and the journal they share, with the clock, the operator's kill         *)
(* switches, and the ends of the process.                                  *)
(***************************************************************************)
EXTENDS StrategyRunner, RiskEngine, PaperExecutor, PositionWatcher

CONSTANT KillLayers    \* bound: the layers the operator uses

ASSUME KillAssumption == KillLayers \subseteq Layers

vars == <<shared, emit, risk, exec, watch>>

TypeOK ==
    /\ SharedTypeOK
    /\ EmitTypeOK /\ RiskTypeOK /\ ExecTypeOK /\ WatchTypeOK

Init ==
    /\ SharedInit
    /\ EmitInit /\ RiskInit /\ ExecInit /\ WatchInit

-----------------------------------------------------------------------------
(* Environment.                                                            *)

TimePasses ==
    /\ Tick
    /\ UNCHANGED <<tables, signalStream, orderStream, updates, kill, faults,
                   emit, risk, exec, watch>>

(* scripts.kill_switch on and the bot's /kill each set a Redis key.        *)
ArmRedis(layer) ==
    /\ layer \in KillLayers \ kill
    /\ kill' = kill \cup {layer}
    /\ UNCHANGED <<now, tables, signalStream, orderStream, updates, faults,
                   emit, risk, exec, watch>>

(* scripts.kill_switch off and /unkill delete it.                          *)
DisarmRedis(layer) ==
    /\ layer \in kill
    /\ kill' = kill \ {layer}
    /\ UNCHANGED <<now, tables, signalStream, orderStream, updates, faults,
                   emit, risk, exec, watch>>

(* SIGINT or SIGTERM: the handler arms the local layer and asks main to    *)
(* stop; the tasks run on until main cancels them.                         *)
Signalled ==
    /\ "local" \in KillLayers \ kill
    /\ Fault
    /\ kill' = kill \cup {"local"}
    /\ UNCHANGED <<now, tables, signalStream, orderStream, updates,
                   emit, risk, exec, watch>>

(* What a new process starts with: its tasks at their beginning, its       *)
(* streams where the groups are, its own switches.  Signals that were not  *)
(* published yet are gone with the old one.                                *)
ProcessStarts ==
    /\ emit' = [s \in Signals |-> IF emit[s].pc = "publish"
                                  THEN [emit[s] EXCEPT !.pc = "done"]
                                  ELSE emit[s]]
    /\ risk' = RiskIdle
    /\ exec' = ExecIdle
    /\ watch' = WatchSleep
    /\ \E env \in SUBSET (KillLayers \cap {"env"}) :
          kill' = (kill \cap {"cli", "bot"}) \cup env
    /\ UNCHANGED <<now, tables, updates>>

(* The process dies where it is (crash, kill -9, power) and is started     *)
(* again, at once or later: being down is taking no step.                  *)
CrashRestart ==
    /\ Fault
    /\ ProcessStarts
    /\ signalStream' = Forget(signalStream)
    /\ orderStream' = Forget(orderStream)

(* main cancels its tasks.  A cancelled handler stops at its await, and    *)
(* its finally clause still acknowledges the message in hand; cancelled in *)
(* that acknowledgement, it may or may not have sent it.                   *)
Cancelled(s, pc) ==
    CASE pc \in {"idle", "dead"} -> {s}
      [] pc = "ack"              -> {s, Ack(s)}
      [] OTHER                   -> {Ack(s)}

ShutdownRestart ==
    /\ "local" \in kill
    /\ ProcessStarts
    /\ UNCHANGED faults
    /\ \E s \in Cancelled(signalStream, risk.pc) : signalStream' = Forget(s)
    /\ \E s \in Cancelled(orderStream, exec.pc) : orderStream' = Forget(s)

-----------------------------------------------------------------------------
Emission_ == EmitNext  /\ UNCHANGED <<risk, exec, watch>>
Risk_     == RiskNext  /\ UNCHANGED <<emit, exec, watch>>
Exec_     == ExecNext  /\ UNCHANGED <<emit, risk, watch>>
Watch_    == WatchNext /\ UNCHANGED <<emit, risk, exec>>

Environment ==
    \/ TimePasses
    \/ \E layer \in {"cli", "bot"} : ArmRedis(layer) \/ DisarmRedis(layer)
    \/ Signalled

Next == Emission_ \/ Risk_ \/ Exec_ \/ Watch_ \/ Environment
        \/ CrashRestart \/ ShutdownRestart

Spec == Init /\ [][Next]_vars

(* The event loop runs every task that is ready, time passes, and main     *)
(* ends a process that was signalled.  Nothing forces a failure, a crash,  *)
(* an operator or a strategy.                                              *)
Fairness ==
    /\ WF_vars(TimePasses)
    /\ WF_vars(RiskStep /\ UNCHANGED <<emit, exec, watch>>)
    /\ WF_vars(ExecStep /\ UNCHANGED <<emit, risk, watch>>)
    /\ WF_vars(WatchStep /\ UNCHANGED <<emit, risk, exec>>)
    /\ WF_vars(ShutdownRestart)

FairSpec == Spec /\ Fairness
=============================================================================
