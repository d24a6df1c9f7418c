----------------------------- MODULE RiskEngine -----------------------------
(***************************************************************************)
(* The risk task: run_risk_loop and RiskEngine.assess                      *)
(* (src/src/risk/engine.py).                                               *)
(*                                                                         *)
(* One signal is handled at a time: the gates in the code's order, each of *)
(* which may read the journal in a session of its own, then the verdict in *)
(* the journal, then the order on the bus, then the acknowledgement.       *)
(***************************************************************************)
EXTENDS AgentState

CONSTANTS RiskBatch,               \* count of the XREADGROUP
          MaxConsecutiveLosses, MaxTradesPerDay,
          MaxDailyLoss, MaxConcurrentPositions

ASSUME RiskAssumption ==
    /\ RiskBatch \in Nat \ {0}
    /\ MaxConsecutiveLosses \in Nat /\ MaxTradesPerDay \in Nat
    /\ MaxDailyLoss \in Nat /\ MaxConcurrentPositions \in Nat

VARIABLE risk    \* the task: where it is, and its local variables

(* "dead": an exception left the loop; nothing restarts the task.          *)
RiskTask == [pc : {"idle", "gate", "contract", "outcome", "publish", "ack", "dead"},
             gate : 1 .. 4, accepted : BOOLEAN, symbol : Symbols]

RiskTypeOK == risk \in RiskTask

RiskIdle == [pc |-> "idle", gate |-> 1, accepted |-> FALSE,
             symbol |-> CHOOSE sym \in Symbols : TRUE]

RiskInit == risk = RiskIdle

Signal == Current(signalStream)

-----------------------------------------------------------------------------
(* The gates.                                                              *)

(* Faulty: the environment's switch is forgotten.                          *)
CheapGatesSkipEnv(sig) ==
    /\ "local" \notin kill
    /\ InEntryWindow(sig.ts)

(* Layers A to C: no await before them.  The Redis layers are not read.    *)
CheapGatesPass(sig) ==
    /\ kill \cap {"local", "env"} = {}
    /\ InEntryWindow(sig.ts)

(* Faulty: each daily limit may be reached, and then passed once.          *)
StateGatePassesAtLimit(g, sig) ==
    LET today == dailyPnl[Day(sig.ts)]
    IN  CASE g = 1 -> today.streak <= MaxConsecutiveLosses
          [] g = 2 -> today.count <= MaxTradesPerDay
          [] g = 3 -> today.net >= -MaxDailyLoss
          [] g = 4 -> CountOpen < MaxConcurrentPositions

(* Layers D to G, in order.  The day is the day of the signal's timestamp. *)
StateGatePasses(g, sig) ==
    LET today == dailyPnl[Day(sig.ts)]
    IN  CASE g = 1 -> today.streak < MaxConsecutiveLosses
          [] g = 2 -> today.count < MaxTradesPerDay
          [] g = 3 -> today.net > -MaxDailyLoss
          [] g = 4 -> CountOpen < MaxConcurrentPositions

(* Layer H, for the contract the selector returned.                        *)
NotDuplicate(sym) == ~IsPositionOpenFor(sym)

-----------------------------------------------------------------------------
(* A rejection still has its outcome journaled.                            *)
Reject == risk' = [RiskIdle EXCEPT !.pc = "outcome"]

RiskReceive ==
    /\ risk.pc = "idle"
    /\ HasNext(signalStream)
    /\ signalStream' = Take(signalStream, RiskBatch)
    /\ risk' = IF CheapGatesPass(Current(signalStream'))
               THEN [RiskIdle EXCEPT !.pc = "gate"]
               ELSE [RiskIdle EXCEPT !.pc = "outcome"]
    /\ UNCHANGED <<now, tables, orderStream, updates, kill, faults>>

RiskGate ==
    /\ risk.pc = "gate"
    /\ IF StateGatePasses(risk.gate, Signal)
       THEN risk' = IF risk.gate = 4 THEN [RiskIdle EXCEPT !.pc = "contract"]
                                     ELSE [risk EXCEPT !.gate = @ + 1]
       ELSE Reject
    /\ UNCHANGED shared

(* The contract comes from the catalogue and the spot price, the last      *)
(* gates read its quote: both may fail, and both are outside the model.    *)
RiskContract ==
    /\ risk.pc = "contract"
    /\ \/ \E sym \in Symbols :
             /\ NotDuplicate(sym)
             /\ risk' = [risk EXCEPT !.pc = "outcome", !.accepted = TRUE,
                                     !.symbol = sym]
       \/ Reject
    /\ UNCHANGED shared

RiskOutcome ==
    /\ risk.pc = "outcome"
    /\ MarkSignalOutcome(Signal.id,
                         IF risk.accepted THEN "accepted" ELSE "rejected")
    /\ risk' = IF risk.accepted THEN [risk EXCEPT !.pc = "publish"]
                                ELSE [RiskIdle EXCEPT !.pc = "ack"]
    /\ UNCHANGED <<now, orders, trades, dailyPnl, signalStream, orderStream,
                   updates, kill, faults>>

RiskPublish ==
    /\ risk.pc = "publish"
    /\ orderStream' = Publish(orderStream, [signal |-> Signal.id,
                                            symbol |-> risk.symbol])
    /\ risk' = [RiskIdle EXCEPT !.pc = "ack"]
    /\ UNCHANGED <<now, tables, signalStream, updates, kill, faults>>

RiskAck ==
    /\ risk.pc = "ack"
    /\ signalStream' = Ack(signalStream)
    /\ risk' = RiskIdle
    /\ UNCHANGED <<now, tables, orderStream, updates, kill, faults>>

(* An exception in the handler (the database, the bus) is logged, and the  *)
(* finally clause acknowledges the signal.                                 *)
RiskFail ==
    /\ risk.pc \in {"gate", "contract", "outcome", "publish"}
    /\ Fault
    /\ risk' = [RiskIdle EXCEPT !.pc = "ack"]
    /\ UNCHANGED <<now, tables, signalStream, orderStream, updates, kill>>

(* An exception of XREADGROUP or of XACK leaves the loop and ends the task. *)
RiskDie ==
    /\ risk.pc \in {"idle", "ack"}
    /\ Fault
    /\ risk' = [RiskIdle EXCEPT !.pc = "dead"]
    /\ UNCHANGED <<now, tables, signalStream, orderStream, updates, kill>>

RiskStep == RiskReceive \/ RiskGate \/ RiskContract \/ RiskOutcome
            \/ RiskPublish \/ RiskAck

RiskNext == RiskStep \/ RiskFail \/ RiskDie
=============================================================================
