-------------------------- MODULE SignalLifecycle ---------------------------
(***************************************************************************)
(* What the trading path promises for each signal: it is decided at most   *)
(* once, at most one order, fill and position come of it, and none of this *)
(* is ever undone.  A signal may stop at any stage.                        *)
(***************************************************************************)
CONSTANT Signals

VARIABLE stage

Stages == {"fresh", "emitted", "rejected", "accepted", "ordered", "placed",
           "filled", "open", "closed"}

(* The only way on from "emitted" that skips the verdict is an order for a *)
(* signal the journal has no row of: its order is then never placed.       *)
Edges == { <<"fresh", "emitted">>,
           <<"emitted", "rejected">>, <<"emitted", "accepted">>,
           <<"emitted", "ordered">>,
           <<"accepted", "ordered">>,
           <<"ordered", "placed">>,
           <<"placed", "filled">>,
           <<"filled", "open">>,
           <<"open", "closed">> }

Init == stage = [s \in Signals |-> "fresh"]

Advance(s, next) ==
    /\ <<stage[s], next>> \in Edges
    /\ stage' = [stage EXCEPT ![s] = next]

Next == \E s \in Signals, next \in Stages : Advance(s, next)

Spec == Init /\ [][Next]_stage
=============================================================================
