---------------------------- MODULE MCDeployment ----------------------------
(***************************************************************************)
(* An instance of the deployment for TLC: two agent processes over two     *)
(* trading days.                                                           *)
(***************************************************************************)
EXTENDS BotControl

FlatOrUp == {0, 1}
=============================================================================
