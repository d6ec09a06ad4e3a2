----------------------------- MODULE MCFailover -----------------------------
(***************************************************************************)
(* A small instance of Failover.                                           *)
(***************************************************************************)
EXTENDS Failover

============================================================================
