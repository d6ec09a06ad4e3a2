----------------------------- MODULE MCBlocking -----------------------------
(***************************************************************************)
(* Small instances of Blocking: which clients run which command.           *)
(***************************************************************************)
EXTENDS Blocking, TLC

CONSTANTS c1, c2, k1, k2

Cmd(op, keys, timed) ==
    [op |-> op, keys |-> keys, dst |-> IF op = "move" THEN k2 ELSE k1,
     timed |-> timed, atomic |-> FALSE]

\* BLMOVE with the geometry of RPopLPush.
Atomic(cmd) == [cmd EXCEPT !.atomic = TRUE]

Pair(a, b) == (c1 :> a) @@ (c2 :> b)

\* Two clients that wait for one key: BLPOP k1 k2 0 next to BLMOVE k1 k2 RIGHT
\* LEFT 1, next to BLMOVE k1 k2 LEFT RIGHT 0, and next to BLPOP k2 k1 0.
Contending == {Pair(cmd, Cmd("pop", <<k1, k2>>, FALSE)) :
                 cmd \in {Atomic(Cmd("move", <<k1>>, TRUE)), Cmd("move", <<k1>>, FALSE),
                          Cmd("pop", <<k2, k1>>, FALSE)}}

\* BLMOVE k1 k2 LEFT RIGHT, with and without a timeout, feeding BLPOP k2 0;
\* XREAD BLOCK STREAMS k1 0 next to BLPOP k2 0; XREAD BLOCK 1 STREAMS k1 $.
Feeding == {Pair(Cmd(op, <<k1>>, timed), Cmd("pop", <<k2>>, FALSE)) :
              op \in {"move", "read"}, timed \in BOOLEAN}
           \cup {Pair(Cmd("tail", <<k1>>, TRUE), Cmd("pop", <<k2>>, FALSE))}

=============================================================================
