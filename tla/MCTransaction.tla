--------------------------- MODULE MCTransaction ---------------------------
(***************************************************************************)
(* A small instance of Transaction: two connections and two keys; each key *)
(* has a command that fires the notifier, k1 also one that does not.       *)
(***************************************************************************)
EXTENDS Transaction, TLC

CONSTANTS c1, c2, k1, k2

Fires(k)  == [key |-> k, fires |-> TRUE]
Silent(k) == [key |-> k, fires |-> FALSE]

Mixed     == {Fires(k1), Fires(k2), Silent(k1)}

WatchBoth == {<<k1>>, <<k1, k2>>}

Symmetry == Permutations(Conn)

============================================================================
