------------------------------- MODULE MCRdb -------------------------------
(***************************************************************************)
(* A small instance of Rdb.  No operator of Rdb depends on which inode     *)
(* it is.                                                                  *)
(***************************************************************************)
EXTENDS Rdb, TLC

Symmetry == Permutations(Inode)

============================================================================
