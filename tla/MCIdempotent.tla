---------------------------- MODULE MCIdempotent ----------------------------
(***************************************************************************)
(* A small instance of Idempotent.                                         *)
(***************************************************************************)
EXTENDS Idempotent

============================================================================
