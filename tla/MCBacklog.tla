----------------------------- MODULE MCBacklog -----------------------------
(***************************************************************************)
(* A ring of three bytes and frames of up to four: frames shorter than the *)
(* ring, as long as it and longer than it, in every order, until the ring  *)
(* has wrapped several times.                                              *)
(***************************************************************************)
EXTENDS Backlog

MCByte    == {0, 1}
MCPayload == UNION {[1 .. n -> MCByte] : n \in {1, 2, 3, 4}}

=============================================================================
