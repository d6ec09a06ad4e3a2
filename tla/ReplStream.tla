----------------------------- MODULE ReplStream -----------------------------
(***************************************************************************)
(* What the replication backlog promises, without its ring buffer: the     *)
(* bytes of every propagated write form one stream, and a window that ends *)
(* at the last byte and holds at most Capacity bytes can be replayed.      *)
(* Offsets are absolute: the byte at offset o is stream[o + 1].            *)
(***************************************************************************)
EXTENDS Integers, Sequences

CONSTANTS Payload,    \* the frames that may be propagated
          Capacity,   \* bytes the window holds at most
          MaxOffset   \* bound on the length of the stream

VARIABLES stream,     \* every byte propagated so far
          first       \* offset of the oldest byte that can be replayed

vars == <<stream, first>>

Last == Len(stream)

\* The window that holds as much of a stream of length n as it may.
Trim(f, n) == IF n - f > Capacity THEN n - Capacity ELSE f

Init == stream = <<>> /\ first = 0

Propagate(p) ==
    /\ Last + Len(p) <= MaxOffset
    /\ stream' = stream \o p
    /\ first' = Trim(first, Len(stream'))

Next == \E p \in Payload : Propagate(p)

Spec == Init /\ [][Next]_vars

=============================================================================
