------------------------------ MODULE MCXTxn ------------------------------
(***************************************************************************)
(* A small instance of XTxn.                                               *)
(***************************************************************************)
EXTENDS XTxn

\* One operation fits each budget; one more exhausts the risk budget and one
\* more passes the others, that of cost once it is lowered; a price of 1 is too
\* high.
Tight == [cost |-> 2, carbon |-> 1, risk |-> 2, rate |-> 1, market |-> 0]

\* Every kind of gate, and both modes.
Small == {[gates |-> <<"cost", "risk">>, mode |-> "all"],
          [gates |-> <<"rate", "carbon">>, mode |-> "any"],
          [gates |-> <<"market">>, mode |-> "all"]}

============================================================================
