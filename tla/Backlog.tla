------------------------------ MODULE Backlog ------------------------------
(***************************************************************************)
(* The replication backlog (replication/backlog.go): a ring of the last    *)
(* bytes of the propagated write stream.  Append and Read run under the    *)
(* ring's mutex, so each is one step.  The variable stream is history: all *)
(* the bytes ever appended, which the ring forgets.                        *)
(***************************************************************************)
EXTENDS Integers, Sequences

CONSTANTS Byte,           \* what a byte of a frame can be
          Zero,           \* the byte a new buffer is filled with
          Payload,        \* the frames the engine may propagate
          Size,           \* capacity; NewBacklog turns a request <= 0 into 1 << 20
          MaxOffset       \* bound on the length of the stream

ASSUME ByteAssumption    == Zero \in Byte
ASSUME PayloadAssumption == Payload \subseteq Seq(Byte)
ASSUME SizeAssumption    == Size \in Nat \ {0}
ASSUME BoundAssumption   == MaxOffset \in Nat

VARIABLES buf,      \* the ring
          begin,    \* absolute offset of the oldest live byte
          length,   \* live bytes
          head,     \* write cursor
          stream    \* history: every byte appended so far

vars == <<buf, begin, length, head, stream>>

----------------------------------------------------------------------------
Cell == 0 .. Size - 1

FirstOffset == begin
LastOffset  == begin + length

Contains(offset) == FirstOffset <= offset /\ offset <= LastOffset

----------------------------------------------------------------------------
(* Append *)

\* Slip: the cursor is left where it was when the payload fills the ring.
SlipKeepsHead(p) ==
    LET n == Len(p) IN
    /\ buf'    = [c \in Cell |-> p[n - Size + c + 1]]
    /\ head'   = head
    /\ begin'  = begin + length + (n - Size)
    /\ length' = Size

\* Slip: the start of the surviving bytes forgets the bytes that were live.
SlipForgetsLive(p) ==
    LET n == Len(p) IN
    /\ buf'    = [c \in Cell |-> p[n - Size + c + 1]]
    /\ head'   = 0
    /\ begin'  = begin + (n - Size)
    /\ length' = Size

\* The payload fills the ring: only its last Size bytes survive.
AppendWhole(p) ==
    LET n == Len(p) IN
    /\ buf'    = [c \in Cell |-> p[n - Size + c + 1]]
    /\ head'   = 0
    /\ begin'  = begin + length + (n - Size)
    /\ length' = Size

\* The two copies of Append: up to the end of the ring, then from its start.
CopyIn(p) ==
    LET n    == Len(p)
        tail == Size - head
    IN  [c \in Cell |->
           IF head <= c /\ c < head + n THEN p[c - head + 1]
           ELSE IF n > tail /\ c < n - tail THEN p[tail + c + 1]
           ELSE buf[c]]

AppendPart(p) ==
    LET newLen == length + Len(p) IN
    /\ buf'    = CopyIn(p)
    /\ head'   = (head + Len(p)) % Size
    /\ begin'  = IF newLen > Size THEN begin + (newLen - Size) ELSE begin
    /\ length' = IF newLen > Size THEN Size ELSE newLen

AppendFrame(p) ==
    /\ Len(stream) + Len(p) <= MaxOffset
    /\ IF Len(p) >= Size THEN AppendWhole(p) ELSE AppendPart(p)
    /\ stream' = stream \o p

----------------------------------------------------------------------------
(* Read *)

\* Ring cell of a live offset.
Start(offset) == (head - length + (offset - begin) + Size) % Size

\* How many bytes a destination of n bytes receives.
ReadLen(offset, n) ==
    LET avail == LastOffset - offset IN IF n > avail THEN avail ELSE n

\* The bytes Read copies out, in its two pieces around the wrap.
Read(offset, n) ==
    LET start == Start(offset)
        tail  == Size - start
    IN  [i \in 1 .. ReadLen(offset, n) |->
           IF i <= tail THEN buf[start + i - 1] ELSE buf[i - tail - 1]]

----------------------------------------------------------------------------
Init ==
    /\ buf = [c \in Cell |-> Zero]
    /\ begin = 0 /\ length = 0 /\ head = 0
    /\ stream = <<>>

Next == \E p \in Payload : AppendFrame(p)

Spec == Init /\ [][Next]_vars

----------------------------------------------------------------------------
\* Types; the cursor stays inside the ring and the ring never over-fills.
TypeOK ==
    /\ buf \in [Cell -> Byte]
    /\ begin \in Nat
    /\ length \in 0 .. Size
    /\ head \in Cell
    /\ stream \in Seq(Byte)

\* The ring ends where the stream ends and holds all of it until it wraps.
Accounting ==
    /\ LastOffset = Len(stream)
    /\ begin > 0 => length = Size

\* Every live byte is in the cell Read will look for it in.
RingHoldsTail ==
    \A i \in 0 .. Size - 1 :
        i < length => buf[Start(begin + i)] = stream[begin + i + 1]

\* A partial resync replays exactly the bytes of the stream from the offset
\* it asks for, however often the ring has wrapped (Backlog.Read).
ReadReturnsStream ==
    \A offset \in 0 .. Len(stream) : \A n \in 0 .. Len(stream) :
        Contains(offset) =>
            /\ ReadLen(offset, n) \in 0 .. n
            /\ \A i \in 1 .. ReadLen(offset, n) :
                  Read(offset, n)[i] = stream[offset + i]

Abstract == INSTANCE ReplStream WITH first <- begin, Capacity <- Size

\* The ring implements the stream with a bounded window of ReplStream.
Implements == Abstract!Spec

=============================================================================
