------------------------------ MODULE MCBroker ------------------------------
(***************************************************************************)
(* An instance of the broker client for TLC: two tasks and the refresh     *)
(* worker, over one expiry of the session.                                 *)
(***************************************************************************)
EXTENDS KiteClient

CONSTANTS t1, t2, w

MCTasks   == {t1, t2}
MCCallers == {t1, t2, w}
=============================================================================
