----------------------------- MODULE AgentState -----------------------------
(***************************************************************************)
(* What the agent's tasks share: the Redis streams, the journal, the clock *)
(* and the kill switches.  Every task of the ingestor process              *)
(* (src/src/workers/ingestor.py) is a component module that extends this   *)
(* one and adds the task's own local state.                                *)
(*                                                                         *)
(* A task only loses the processor at an `await`, so an action of a task   *)
(* is what it does from one await that touches shared state to the next.   *)
(***************************************************************************)
EXTENDS EventBus, Journal

CONSTANTS MaxFaults,    \* bound: failures and restarts in a behaviour
          Mode          \* settings.mode: "paper", "shadow" or "live"

ASSUME StateAssumption == MaxFaults \in Nat

VARIABLES signalStream,   \* stream:signals, read by the risk engine
          orderStream,    \* stream:orders, read by the executor
          updates,        \* what was published to stream:order_updates
          kill,           \* the armed layers of the kill switch
          faults          \* model only: the failures so far

shared == <<now, tables, signalStream, orderStream, updates, kill, faults>>

(* The layers an operator can arm: "local" is KillSwitch.armed of the      *)
(* agent process, "env" its KILL_SWITCH setting, "cli" the Redis key       *)
(* trading_agent:kill_switch, "bot" the Redis key kill_switch:armed.       *)
Layers == {"local", "env", "cli", "bot"}

(* SignalCandidate and OrderRequest.                                       *)
SignalEvent == [id : Signals, ts : Time]
OrderEvent  == [signal : Signals, symbol : Symbols]

(* OrderUpdate: the order row it is about and the status it announces.     *)
Update == [row : Nat, status : {"COMPLETE", "REJECTED"}]

SharedTypeOK ==
    /\ now \in Time
    /\ JournalTypeOK
    /\ signalStream \in Stream(SignalEvent) /\ WellFormed(signalStream)
    /\ orderStream \in Stream(OrderEvent) /\ WellFormed(orderStream)
    /\ updates \subseteq Update
    /\ kill \subseteq Layers
    /\ faults \in 0 .. MaxFaults

SharedInit ==
    /\ now = StartTime
    /\ JournalInit
    /\ signalStream = EmptyStream
    /\ orderStream = EmptyStream
    /\ updates = {}
    /\ kill = {}
    /\ faults = 0

(* A failure happens: the model allows MaxFaults of them.                  *)
Fault == faults < MaxFaults /\ faults' = faults + 1
=============================================================================
