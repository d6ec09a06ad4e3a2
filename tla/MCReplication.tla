--------------------------- MODULE MCReplication ---------------------------
(***************************************************************************)
(* A small instance of Replication: two writers, two writes, a backlog of  *)
(* one frame.                                                              *)
(***************************************************************************)
EXTENDS Replication

CONSTANTS w1, w2

============================================================================
