------------------------------ MODULE MCStore ------------------------------
(***************************************************************************)
(* A small instance of Store: two keys in two shards.                      *)
(***************************************************************************)
EXTENDS Store, TLC

CONSTANTS k1, k2, c1, c2

OneEach == (k1 :> 1) @@ (k2 :> 2)

============================================================================
