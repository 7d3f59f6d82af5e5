-------------------------- MODULE MCMysqlBootstrap --------------------------
(***************************************************************************)
(* Instances of MysqlBootstrap for TLC: how often containers are killed.   *)
(***************************************************************************)
EXTENDS MysqlBootstrap, TLC

Unkilled == [t \in Targets |-> 0]
OneEach == [t \in Targets |-> 1]
OneSidecar == "sidecar" :> 1 @@ Unkilled
=============================================================================
