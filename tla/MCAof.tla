------------------------------- MODULE MCAof -------------------------------
(***************************************************************************)
(* A small instance of Aof: two writers, three writes, two crashes or      *)
(* failing file operations.                                                *)
(***************************************************************************)
EXTENDS Aof, TLC

CONSTANTS w1, w2

Symmetry == Permutations(Writer)

============================================================================
