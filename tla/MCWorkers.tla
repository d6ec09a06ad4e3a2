----------------------------- MODULE MCWorkers -----------------------------
(***************************************************************************)
(* A small instance of Workers.                                            *)
(***************************************************************************)
EXTENDS Workers

============================================================================
