--------------------------- MODULE MCTradingAgent ---------------------------
(* TradingAgent on small instances: the cfgs choose the bounds.            *)
EXTENDS AgentInvariants, TLC

PnlValues == {-1, 0, 1}

(* For runs of safety and action properties only: nothing distinguishes    *)
(* one signal's identity from another's.                                   *)
SignalSymmetry == Permutations(Signals)
=============================================================================
