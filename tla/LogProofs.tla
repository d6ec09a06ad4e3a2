------------------------------ MODULE LogProofs ------------------------------
(***************************************************************************)
(* The two logs of the server.                                             *)
(*                                                                         *)
(* The ring of Backlog holds the tail of the propagated stream, for every  *)
(* capacity, every set of frames and every bound on the stream, and        *)
(* implements ReplStream.                                                  *)
(*                                                                         *)
(* The append-only file of Aof loses writes by the five mishaps only,      *)
(* tracks the keyspace, and restarts to a prefix of it, for every set of   *)
(* writers and every number of writes, crashes and rewrites.  What Replay  *)
(* rebuilds is defined by recursion over the file; the facts about it are  *)
(* proved by induction, in the form that a set of numbers has a least      *)
(* element.                                                                *)
(***************************************************************************)
EXTENDS Backlog, Aof, FiniteSetTheorems, WellFoundedInduction, TLAPS

----------------------------------------------------------------------------
(* Arithmetic of the ring *)

\* The remainder of a cursor that has not passed the end of the ring.
LEMMA ModBelow ==
    ASSUME NEW n \in Nat \ {0}, NEW x \in 0 .. n - 1
    PROVE  x % n = x
OBVIOUS

\* The remainder of a cursor that has wrapped once.
LEMMA ModWrapped ==
    ASSUME NEW n \in Nat \ {0}, NEW x \in n .. n + n - 1
    PROVE  x % n = x - n
OBVIOUS

----------------------------------------------------------------------------
(* Type correctness *)

\* The cursors stay inside the ring and the buffer keeps its size, whatever
\* frames Append is given (backlog.go, Append).
THEOREM TypeCorrect == Spec => []TypeOK
<1>1. Init => TypeOK
  BY SizeAssumption, ByteAssumption DEF Init, TypeOK, Cell
<1>2. TypeOK /\ [Next]_vars => TypeOK'
  <2> SUFFICES ASSUME TypeOK, [Next]_vars PROVE TypeOK'
    OBVIOUS
  <2> USE SizeAssumption
  <2>1. CASE UNCHANGED vars
    BY <2>1 DEF TypeOK, vars, Cell
  <2>2. ASSUME NEW p \in Payload, AppendFrame(p) PROVE TypeOK'
    <3>1. p \in Seq(Byte) /\ Len(p) \in Nat
      BY PayloadAssumption
    <3>2. stream' \in Seq(Byte)
      BY <2>2, <3>1 DEF AppendFrame, TypeOK
    <3>3. CASE Len(p) >= Size
      <4>1. AppendWhole(p)
        BY <2>2, <3>3 DEF AppendFrame
      <4>2. \A c \in Cell : p[Len(p) - Size + c + 1] \in Byte
        BY <3>1, <3>3 DEF Cell
      <4> QED
        BY <3>1, <3>2, <3>3, <4>1, <4>2 DEF AppendWhole, TypeOK, Cell
    <3>4. CASE ~(Len(p) >= Size)
      <4>1. AppendPart(p)
        BY <2>2, <3>4 DEF AppendFrame
      <4>2. buf' \in [Cell -> Byte]
        <5> SUFFICES ASSUME NEW c \in Cell PROVE CopyIn(p)[c] \in Byte
          BY <4>1 DEF AppendPart, CopyIn
        <5> QED
          BY <3>1, <3>4 DEF CopyIn, TypeOK, Cell
      <4>3. head' \in Cell
        BY <3>1, <4>1 DEF AppendPart, TypeOK, Cell
      <4> QED
        BY <3>1, <3>2, <3>4, <4>1, <4>2, <4>3 DEF AppendPart, TypeOK, Cell
    <3> QED BY <3>3, <3>4
  <2> QED BY <2>1, <2>2 DEF Next
<1> QED BY <1>1, <1>2, PTL DEF Spec

----------------------------------------------------------------------------
(* The ring holds the tail of the stream *)

\* Where Read looks for the i-th of l live bytes when the cursor is at h.
LEMMA LiveCell ==
    ASSUME NEW h \in Cell, NEW l \in 0 .. Size, NEW i \in 0 .. l - 1
    PROVE  (h - l + i + Size) % Size =
               IF h - l + i >= 0 THEN h - l + i ELSE h - l + i + Size
<1> USE SizeAssumption DEF Cell
<1> DEFINE x == h - l + i + Size
<1>1. x \in 0 .. Size + Size - 1
  OBVIOUS
<1>2. CASE x < Size
  <2>1. x % Size = x
    BY <1>1, <1>2, ModBelow
  <2> QED BY <1>2, <2>1
<1>3. CASE x >= Size
  <2>1. x % Size = x - Size
    BY <1>1, <1>3, ModWrapped
  <2> QED BY <1>3, <2>1
<1> QED BY <1>1, <1>2, <1>3

\* RingHoldsTail with the remainder worked out: the cell of the i-th live byte.
LiveIndex(i) == IF head - length + i >= 0 THEN head - length + i
                ELSE head - length + i + Size

LiveBytes == \A i \in 0 .. length - 1 : buf[LiveIndex(i)] = stream[begin + i + 1]

\* The two ways to say that the ring holds the tail of the stream agree.
LEMMA RingCells == TypeOK => (RingHoldsTail <=> LiveBytes)
<1> SUFFICES ASSUME TypeOK PROVE RingHoldsTail <=> LiveBytes
  OBVIOUS
<1>1. \A i \in 0 .. length - 1 : Start(begin + i) = LiveIndex(i)
  <2> TAKE i \in 0 .. length - 1
  <2>1. Start(begin + i) = (head - length + i + Size) % Size
    BY SizeAssumption DEF Start, TypeOK, Cell
  <2>2. (head - length + i + Size) % Size = LiveIndex(i)
    BY LiveCell DEF TypeOK, LiveIndex
  <2> QED BY <2>1, <2>2
<1>2. \A i : i \in 0 .. length - 1 <=> i \in 0 .. Size - 1 /\ i < length
  BY SizeAssumption DEF TypeOK
<1> QED BY <1>1, <1>2 DEF RingHoldsTail, LiveBytes

\* An append of a frame keeps the ring's accounting and its contents.
LEMMA AppendKeeps ==
    ASSUME TypeOK, TypeOK', Accounting, LiveBytes,
           NEW p \in Payload, AppendFrame(p)
    PROVE  Accounting' /\ LiveBytes'
<1> USE SizeAssumption
<1> DEFINE n == Len(p)
<1> DEFINE m == Len(stream)
<1>1. p \in Seq(Byte) /\ n \in Nat /\ stream \in Seq(Byte) /\ m \in Nat
  BY PayloadAssumption DEF TypeOK
<1>2. stream' = stream \o p
  BY DEF AppendFrame
<1>l. Len(stream') = m + n
  BY <1>1, <1>2
<1>3. \A k \in 1 .. m : stream'[k] = stream[k]
  BY <1>1, <1>2
<1>4. \A k \in m + 1 .. m + n : stream'[k] = p[k - m]
  BY <1>1, <1>2
<1>5. begin + length = m /\ (begin > 0 => length = Size)
  BY DEF Accounting, LastOffset
<1>t. begin \in Nat /\ length \in 0 .. Size /\ head \in 0 .. Size - 1 /\ n \in Nat /\ m \in Nat
  BY <1>1 DEF TypeOK, Cell
<1>a. ASSUME begin' + length' = m + n, begin' > 0 => length' = Size
      PROVE  Accounting'
  BY <1>l, <1>a DEF Accounting, LastOffset
<1>w. n >= Size => AppendWhole(p)
  BY DEF AppendFrame
<1>p. ~(n >= Size) => AppendPart(p)
  BY DEF AppendFrame
<1>c. CopyIn(p) = [c \in Cell |->
                     IF head <= c /\ c < head + n THEN p[c - head + 1]
                     ELSE IF n > Size - head /\ c < n - (Size - head)
                          THEN p[Size - head + c + 1]
                     ELSE buf[c]]
  BY DEF CopyIn
<1>x. AppendWhole(p) => /\ buf' = [c \in Cell |-> p[n - Size + c + 1]]
                        /\ head' = 0
                        /\ begin' = begin + length + (n - Size)
                        /\ length' = Size
  BY DEF AppendWhole
<1>y. AppendPart(p) =>
        /\ buf' = CopyIn(p)
        /\ head' = (head + n) % Size
        /\ begin' = IF length + n > Size THEN begin + (length + n - Size) ELSE begin
        /\ length' = IF length + n > Size THEN Size ELSE length + n
  BY <1>t DEF AppendPart
<1> HIDE DEF n, m
<1>6. CASE n >= Size
  <2>1. /\ buf' = [c \in Cell |-> p[n - Size + c + 1]]
        /\ head' = 0
        /\ begin' = begin + length + (n - Size)
        /\ length' = Size
    BY <1>6, <1>w, <1>x
  <2>2. Accounting'
    BY <1>5, <1>6, <1>t, <1>a, <2>1
  <2>3. ASSUME NEW i \in 0 .. length' - 1
        PROVE  buf'[LiveIndex(i)'] = stream'[begin' + i + 1]
    <3>1. LiveIndex(i)' = i /\ i \in Cell
      BY <2>1 DEF LiveIndex, Cell
    <3>2. buf'[i] = p[n - Size + i + 1]
      BY <2>1, <3>1
    <3>3. begin' + i + 1 \in m + 1 .. m + n
      BY <1>5, <1>6, <1>t, <2>1, <2>3
    <3>4. stream'[begin' + i + 1] = p[begin' + i + 1 - m]
      BY <1>4, <1>t, <2>1, <3>3
    <3>5. begin' + i + 1 - m = n - Size + i + 1
      BY <1>5, <1>t, <2>1, <2>3
    <3> QED BY <3>1, <3>2, <3>4, <3>5
  <2> QED BY <2>2, <2>3 DEF LiveBytes
<1>7. CASE n < Size
  <2>1. AppendPart(p)
    BY <1>7, <1>t, <1>p
  <2>2. /\ begin' = IF length + n > Size THEN begin + (length + n - Size) ELSE begin
        /\ length' = IF length + n > Size THEN Size ELSE length + n
    BY <1>y, <2>1
  <2>3. head' = IF head + n < Size THEN head + n ELSE head + n - Size
    <3>1. head + n \in 0 .. Size + Size - 1 /\ head' = (head + n) % Size
      BY <1>7, <1>t, <1>y, <2>1
    <3>2. CASE head + n < Size
      <4>1. head + n \in 0 .. Size - 1
        BY <3>1, <3>2
      <4> QED BY <3>1, <3>2, <4>1, ModBelow
    <3>3. CASE head + n >= Size
      <4>1. head + n \in Size .. Size + Size - 1
        BY <3>1, <3>3
      <4>2. (head + n) % Size = head + n - Size
        BY <1>t, <4>1, ModWrapped
      <4> QED BY <1>t, <3>1, <3>3, <4>2
    <3> QED BY <1>t, <3>2, <3>3
  <2>4. Accounting'
    BY <1>5, <1>7, <1>t, <1>a, <2>2
  <2>5. ASSUME NEW i \in 0 .. length' - 1
        PROVE  buf'[LiveIndex(i)'] = stream'[begin' + i + 1]
    <3> DEFINE c == IF head' - length' + i >= 0 THEN head' - length' + i
                    ELSE head' - length' + i + Size
    <3>1. LiveIndex(i)' = c
      BY DEF LiveIndex
    <3>2. i \in Int /\ 0 <= i /\ i < length'
      BY <1>t, <2>2, <2>5
    <3>3. c \in Cell
      BY <1>7, <1>t, <2>2, <2>3, <3>2 DEF Cell
    <3>4. buf'[c] = IF head <= c /\ c < head + n THEN p[c - head + 1]
                    ELSE IF n > Size - head /\ c < n - (Size - head)
                         THEN p[Size - head + c + 1]
                    ELSE buf[c]
      BY <1>c, <1>y, <2>1, <3>3
    <3>5. CASE begin' + i < m
      <4> DEFINE j == begin' - begin + i
      <4>1. j \in 0 .. length - 1 /\ begin + j + 1 \in 1 .. m
        BY <1>5, <1>7, <1>t, <2>2, <3>2, <3>5
      <4>2. LiveIndex(j) = c
        BY <1>5, <1>7, <1>t, <2>2, <2>3, <3>2, <3>5 DEF LiveIndex
      <4>3. ~(head <= c /\ c < head + n) /\ ~(n > Size - head /\ c < n - (Size - head))
        BY <1>5, <1>7, <1>t, <2>2, <2>3, <3>2, <3>5
      <4>4. buf'[c] = stream[begin + j + 1]
        BY <3>4, <4>1, <4>2, <4>3 DEF LiveBytes
      <4>5. begin + j + 1 = begin' + i + 1
        BY <1>t, <2>2, <3>2
      <4> QED BY <1>3, <3>1, <4>1, <4>4, <4>5
    <3>6. CASE begin' + i >= m
      <4> DEFINE k == begin' + i - m + 1
      <4>1. k \in 1 .. n /\ begin' + i + 1 = m + k
        BY <1>5, <1>7, <1>t, <2>2, <3>2, <3>6
      <4>2. \/ head <= c /\ c < head + n /\ c - head + 1 = k
            \/ /\ ~(head <= c /\ c < head + n)
               /\ n > Size - head /\ c < n - (Size - head) /\ Size - head + c + 1 = k
        BY <1>5, <1>7, <1>t, <2>2, <2>3, <3>2, <3>6
      <4>3. buf'[c] = p[k]
        BY <3>4, <4>2
      <4>4. m + k \in m + 1 .. m + n /\ (m + k) - m = k
        BY <1>t, <4>1
      <4>5. stream'[m + k] = p[k]
        BY <1>4, <4>4
      <4> QED BY <3>1, <4>1, <4>3, <4>5
    <3> QED BY <1>t, <2>2, <3>2, <3>5, <3>6
  <2> QED BY <2>4, <2>5 DEF LiveBytes
<1> QED BY <1>t, <1>6, <1>7

----------------------------------------------------------------------------
(* What the ring promises *)

\* The inductive invariant: the cursors account for every byte appended and
\* each live byte sits in the cell Read computes for it.
RingInv == TypeOK /\ Accounting /\ LiveBytes

\* Append keeps the cursors and the contents of the ring in step with the
\* stream, for any sequence of frames (backlog.go, Append).
LEMMA RingInvariant == Spec => []RingInv
<1>1. Init => RingInv
  <2> SUFFICES ASSUME Init PROVE RingInv
    OBVIOUS
  <2>1. TypeOK
    BY SizeAssumption, ByteAssumption DEF Init, TypeOK, Cell
  <2>2. Accounting /\ LiveBytes
    BY DEF Init, Accounting, LastOffset, LiveBytes
  <2> QED BY <2>1, <2>2 DEF RingInv
<1>2. RingInv /\ TypeOK' /\ [Next]_vars => RingInv'
  <2> SUFFICES ASSUME RingInv, TypeOK', [Next]_vars PROVE RingInv'
    OBVIOUS
  <2>1. CASE UNCHANGED vars
    BY <2>1 DEF RingInv, Accounting, LastOffset, LiveBytes, LiveIndex, vars
  <2>2. ASSUME NEW p \in Payload, AppendFrame(p) PROVE RingInv'
    BY <2>2, AppendKeeps DEF RingInv
  <2> QED BY <2>1, <2>2 DEF Next
<1> QED BY <1>1, <1>2, TypeCorrect, PTL DEF Spec

\* Every live byte is where Read looks for it (backlog.go, Append and Read).
THEOREM RingContents == Spec => [](Accounting /\ RingHoldsTail)
<1>1. RingInv => Accounting /\ RingHoldsTail
  BY RingCells DEF RingInv
<1> QED BY <1>1, RingInvariant, PTL

\* What Read copies out for any offset it accepts is the stream from there,
\* across the wrap and after any number of wraps (backlog.go, Read).
THEOREM ReadCorrect == Spec => []ReadReturnsStream
<1>1. RingInv => ReadReturnsStream
  <2> SUFFICES ASSUME RingInv,
                      NEW offset \in 0 .. Len(stream), NEW n \in 0 .. Len(stream),
                      Contains(offset)
               PROVE  /\ ReadLen(offset, n) \in 0 .. n
                      /\ \A i \in 1 .. ReadLen(offset, n) :
                            Read(offset, n)[i] = stream[offset + i]
    BY DEF ReadReturnsStream
  <2> USE SizeAssumption
  <2>1. /\ begin \in Nat /\ length \in 0 .. Size /\ head \in 0 .. Size - 1
        /\ Len(stream) \in Nat /\ offset \in Nat /\ n \in Nat
    BY DEF RingInv, TypeOK, Cell
  <2>2. begin <= offset /\ offset <= begin + length
    BY DEF Contains, FirstOffset, LastOffset
  <2>3. ReadLen(offset, n) = IF n > begin + length - offset THEN begin + length - offset ELSE n
    BY <2>1 DEF ReadLen, LastOffset
  <2>4. ASSUME NEW i \in 1 .. ReadLen(offset, n)
        PROVE  Read(offset, n)[i] = stream[offset + i]
    <3> DEFINE j == offset - begin
    <3> DEFINE start == IF head - length + j >= 0 THEN head - length + j
                        ELSE head - length + j + Size
    <3>1. i \in Nat /\ 1 <= i /\ i <= begin + length - offset
      BY <2>1, <2>2, <2>3, <2>4
    <3>2. j \in 0 .. length - 1 /\ j + i - 1 \in 0 .. length - 1
      BY <2>1, <2>2, <3>1
    <3>3. Start(offset) = start
      <4>1. Start(offset) = (head - length + j + Size) % Size
        BY DEF Start
      <4>2. (head - length + j + Size) % Size = start
        BY <2>1, <3>2, LiveCell DEF Cell
      <4> QED BY <4>1, <4>2
    <3>4. Read(offset, n)[i] = IF i <= Size - start THEN buf[start + i - 1]
                               ELSE buf[i - (Size - start) - 1]
      BY <2>4, <3>3 DEF Read
    <3>5. \/ i <= Size - start /\ start + i - 1 = LiveIndex(j + i - 1)
          \/ ~(i <= Size - start) /\ i - (Size - start) - 1 = LiveIndex(j + i - 1)
      BY <2>1, <2>2, <3>1, <3>2 DEF LiveIndex
    <3>6. Read(offset, n)[i] = buf[LiveIndex(j + i - 1)]
      BY <3>4, <3>5
    <3>7. buf[LiveIndex(j + i - 1)] = stream[begin + (j + i - 1) + 1]
      BY <3>2 DEF RingInv, LiveBytes
    <3>8. begin + (j + i - 1) + 1 = offset + i
      BY <2>1, <3>1
    <3> QED BY <3>6, <3>7, <3>8
  <2>5. ReadLen(offset, n) \in 0 .. n
    BY <2>1, <2>2, <2>3
  <2> QED BY <2>4, <2>5
<1> QED BY <1>1, RingInvariant, PTL

\* The ring is an implementation of the bounded window of ReplStream: every
\* append is one Propagate, and begin is the window's first offset.
THEOREM BacklogImplements == Spec => Implements
<1>1. Init => Abstract!Init
  BY DEF Init, Abstract!Init
<1>2. RingInv /\ [Next]_vars => [Abstract!Next]_(Abstract!vars)
  <2> SUFFICES ASSUME RingInv, [Next]_vars
               PROVE  [Abstract!Next]_(Abstract!vars)
    OBVIOUS
  <2> USE SizeAssumption
  <2>1. CASE UNCHANGED vars
    BY <2>1 DEF vars, Abstract!vars
  <2>2. ASSUME NEW p \in Payload, AppendFrame(p) PROVE Abstract!Next
    <3>1. p \in Seq(Byte) /\ Len(p) \in Nat /\ Len(stream) \in Nat
      BY PayloadAssumption DEF RingInv, TypeOK
    <3>2. begin \in Nat /\ length \in 0 .. Size
      BY DEF RingInv, TypeOK
    <3>3. begin + length = Len(stream) /\ (begin > 0 => length = Size)
      BY DEF RingInv, Accounting, LastOffset
    <3>4. stream' = stream \o p /\ Len(stream) + Len(p) <= MaxOffset
      BY <2>2 DEF AppendFrame
    <3>5. Len(stream') = Len(stream) + Len(p)
      BY <3>1, <3>4 DEF RingInv, TypeOK
    <3>6. begin' = Abstract!Trim(begin, Len(stream) + Len(p))
      <4>1. begin' = IF Len(p) >= Size THEN begin + length + (Len(p) - Size)
                     ELSE IF length + Len(p) > Size
                          THEN begin + (length + Len(p) - Size) ELSE begin
        BY <2>2, <3>1, <3>2 DEF AppendFrame, AppendWhole, AppendPart
      <4> QED BY <3>1, <3>2, <3>3, <4>1 DEF Abstract!Trim
    <3>7. Abstract!Propagate(p)
      BY <3>4, <3>5, <3>6 DEF Abstract!Propagate, Abstract!Last
    <3> QED BY <3>7 DEF Abstract!Next
  <2> QED BY <2>1, <2>2 DEF Next
<1> QED BY <1>1, <1>2, RingInvariant, PTL DEF Spec, Implements, Abstract!Spec

----------------------------------------------------------------------------
(* Induction over data: the least element of a set of numbers *)

\* A set of numbers that is not empty has a least element.
LEMMA LeastNumber ==
    ASSUME NEW S, S \subseteq Nat, S # {}
    PROVE  \E x \in S : \A y \in S : x <= y
<1> DEFINE T == {0 .. n : n \in S}
<1>1. \A n \in S : 0 .. n \subseteq Nat /\ IsFiniteSet(0 .. n)
  BY FS_Interval
<1>2. T \subseteq FiniteSubsetsOf(Nat)
  BY <1>1 DEF FiniteSubsetsOf
<1>3. T # {}
  OBVIOUS
<1>4. IsWellFoundedOn(StrictSubsetOrdering(Nat), FiniteSubsetsOf(Nat))
  BY FS_StrictSubsetOrderingWellFounded
<1> HIDE DEF T
<1>5. PICK X \in T : \A Y \in T : <<Y, X>> \notin StrictSubsetOrdering(Nat)
  BY <1>2, <1>3, <1>4, WFMin
<1> USE DEF T
<1>6. PICK x \in S : X = 0 .. x
  OBVIOUS
<1>7. ASSUME NEW y \in S, y < x PROVE FALSE
  <2>1. <<0 .. y, 0 .. x>> \notin StrictSubsetOrdering(Nat)
    BY <1>5, <1>6
  <2>2. 0 .. y \subseteq 0 .. x /\ 0 .. y # 0 .. x /\ 0 .. x \subseteq Nat
    BY <1>7
  <2> QED BY <2>1, <2>2 DEF StrictSubsetOrdering
<1> QED BY <1>7

\* A set that holds 0, and with a number the next one, up to N, holds them all.
LEMMA UpwardSet ==
    ASSUME NEW N \in Nat, NEW S, 0 \in S,
           \A n \in 0 .. N : n < N /\ n \in S => n + 1 \in S
    PROVE  0 .. N \subseteq S
<1> DEFINE Bad == (0 .. N) \ S
<1> SUFFICES ASSUME Bad # {} PROVE FALSE
  OBVIOUS
<1>1. PICK x \in Bad : \A y \in Bad : x <= y
  <2>1. Bad \subseteq Nat
    OBVIOUS
  <2> HIDE DEF Bad
  <2> QED BY <2>1, LeastNumber
<1>2. x # 0 /\ x - 1 \in 0 .. N /\ x - 1 \notin Bad
  BY <1>1
<1> QED BY <1>1, <1>2

----------------------------------------------------------------------------
(* Sequences joined *)

\* s is at the front of t.
Prefix(s, t) == Len(s) <= Len(t) /\ \A i \in 1 .. Len(s) : s[i] = t[i]

\* Concatenation under a name, for sequences of sequences.
Cat(x, y) == x \o y

\* Concatenation stays within the sequences.
LEMMA CatType == ASSUME NEW S PROVE \A x, y \in Seq(S) : Cat(x, y) \in Seq(S)
BY DEF Cat

\* g is a solution of the recursion of UpTo.
Solves(g, ss, L) == g[0] = <<>> /\ \A n \in 1 .. L : g[n] = Cat(g[n - 1], ss[n])

\* The recursion has a solution, so UpTo obeys it, and what it joins are
\* sequences of the elements.
LEMMA UpToDef ==
    ASSUME NEW S, NEW L \in Nat, NEW ss \in [1 .. L -> Seq(S)]
    PROVE  \E g \in [0 .. L -> Seq(S)] : UpTo(ss, L) = g /\ Solves(g, ss, L)
<1> DEFINE T == Seq(S)
           e == <<>>
           Good(m, u) == u[0] = e /\ \A n \in 1 .. m : u[n] = Cat(u[n - 1], ss[n])
           Done == {m \in 0 .. L : \E u \in [0 .. L -> T] : Good(m, u)}
<1>0. e \in T /\ ss \in [1 .. L -> T] /\ \A x, y \in T : Cat(x, y) \in T
  BY CatType
<1> HIDE DEF T, e
<1> SUFFICES \E g \in [0 .. L -> T] :
             /\ UpTo(ss, L) = g /\ g[0] = e
             /\ \A n \in 1 .. L : g[n] = Cat(g[n - 1], ss[n])
  BY Zenon DEF T, e, Solves
<1>1. 0 \in Done
  <2> DEFINE z == [n \in 0 .. L |-> e]
  <2>1. z \in [0 .. L -> T] /\ Good(0, z) /\ 0 \in 0 .. L
    BY <1>0
  <2> HIDE DEF Good, z
  <2> QED BY <2>1
<1>2. ASSUME NEW m \in 0 .. L, m < L, m \in Done PROVE m + 1 \in Done
  <2>1. PICK u \in [0 .. L -> T] : Good(m, u)
    BY <1>2
  <2>2. PICK a \in T : a = Cat(u[m], ss[m + 1])
    BY <1>0, <1>2
  <2> DEFINE v == [u EXCEPT ![m + 1] = a]
  <2>3. v \in [0 .. L -> T] /\ v[0] = e
    BY <2>1, <1>2
  <2>4. ASSUME NEW n \in 1 .. m + 1 PROVE v[n] = Cat(v[n - 1], ss[n])
    <3>1. CASE n = m + 1
      BY <3>1, <2>2, <1>2
    <3>2. CASE n # m + 1
      <4>1. n \in 1 .. m /\ v[n] = u[n] /\ v[n - 1] = u[n - 1]
        BY <3>2, <1>2
      <4> QED BY <4>1, <2>1
    <3> QED BY <3>1, <3>2
  <2>5. m + 1 \in 0 .. L
    BY <1>2
  <2>6. Good(m + 1, v)
    BY <2>3, <2>4
  <2> HIDE DEF Good, v
  <2> QED BY <2>3, <2>5, <2>6
<1>3. L \in Done
  <2> HIDE DEF Done
  <2>1. 0 .. L \subseteq Done
    BY <1>1, <1>2, UpwardSet
  <2> QED BY <2>1
<1>4. PICK u \in [0 .. L -> T] : Good(L, u)
  BY <1>3
<1>5. u = [n \in 0 .. L |-> IF n = 0 THEN e ELSE Cat(u[n - 1], ss[n])]
  <2>1. ASSUME NEW n \in 0 .. L PROVE u[n] = IF n = 0 THEN e ELSE Cat(u[n - 1], ss[n])
    BY <1>4
  <2> QED BY <2>1
<1>6. UpTo(ss, L) = CHOOSE g : g = [n \in 0 .. L |-> IF n = 0 THEN e ELSE Cat(g[n - 1], ss[n])]
  BY Zenon DEF UpTo, Cat, e
<1>7. UpTo(ss, L) = [n \in 0 .. L |-> IF n = 0 THEN e ELSE Cat(UpTo(ss, L)[n - 1], ss[n])]
  BY <1>5, <1>6
<1> DEFINE w == UpTo(ss, L)
<1> HIDE DEF w
<1>8. w = [n \in 0 .. L |-> IF n = 0 THEN e ELSE Cat(w[n - 1], ss[n])]
  BY <1>7 DEF w
<1>9. w[0] = e /\ \A n \in 1 .. L : w[n] = Cat(w[n - 1], ss[n])
  BY <1>8
<1> DEFINE Typed == {n \in 0 .. L : w[n] \in T}
<1>10. 0 \in Typed
  BY <1>0, <1>9
<1>11. ASSUME NEW n \in 0 .. L, n < L, n \in Typed PROVE n + 1 \in Typed
  <2>1. n + 1 \in 1 .. L /\ n + 1 \in 0 .. L /\ (n + 1) - 1 = n
    BY <1>11
  <2>2. w[n + 1] = Cat(w[n], ss[n + 1]) /\ ss[n + 1] \in T /\ w[n] \in T
    BY <1>0, <1>9, <1>11, <2>1
  <2> QED BY <1>0, <2>1, <2>2
<1>12. 0 .. L \subseteq Typed
  <2> HIDE DEF Typed
  <2> QED BY <1>10, <1>11, UpwardSet
<1>13. w \in [0 .. L -> T]
  BY <1>8, <1>12
<1> QED BY <1>9, <1>13, Zenon DEF w

\* L sequences over S; N of them the same.
Listed(ss, L, S) == L \in Nat /\ ss \in [1 .. L -> Seq(S)]
Agree(ss, tt, N) == \A i \in 1 .. N : ss[i] = tt[i]

\* What is joined of the first n sequences depends on these only.
LEMMA UpToSame ==
    ASSUME NEW S, NEW L, NEW ss, Listed(ss, L, S), NEW M, NEW tt, Listed(tt, M, S),
           NEW N \in Nat, N <= L, N <= M, Agree(ss, tt, N)
    PROVE  UpTo(ss, L)[N] = UpTo(tt, M)[N]
<1> USE DEF Listed, Agree
<1>1. PICK g \in [0 .. L -> Seq(S)] : UpTo(ss, L) = g /\ Solves(g, ss, L)
  BY UpToDef, Zenon
<1>2. PICK h \in [0 .. M -> Seq(S)] : UpTo(tt, M) = h /\ Solves(h, tt, M)
  BY UpToDef, Zenon
<1> DEFINE Done == {n \in 0 .. N : g[n] = h[n]}
<1>3. 0 \in Done
  BY <1>1, <1>2 DEF Solves
<1>4. ASSUME NEW n \in 0 .. N, n < N, n \in Done PROVE n + 1 \in Done
  <2>1. n + 1 \in 1 .. L /\ n + 1 \in 1 .. M /\ n + 1 \in 1 .. N /\ (n + 1) - 1 = n
    BY <1>4
  <2>2. g[n + 1] = Cat(g[n], ss[n + 1]) /\ h[n + 1] = Cat(h[n], tt[n + 1]) /\ ss[n + 1] = tt[n + 1]
    BY <2>1, <1>1, <1>2 DEF Solves
  <2>3. g[n] = h[n]
    BY <1>4
  <2>4. g[n + 1] = h[n + 1]
    BY <2>2, <2>3
  <2> QED BY <2>1, <2>4
<1> HIDE DEF Done
<1>5. 0 .. N \subseteq Done
  BY <1>3, <1>4, UpwardSet
<1>6. g[N] = h[N]
  BY <1>5 DEF Done
<1> QED BY <1>1, <1>2, <1>6, Zenon

\* ss is the front of tt.
Front(S, L, M, ss, tt) ==
    Listed(ss, L, S) /\ Listed(tt, M, S) /\ L <= M /\ Agree(ss, tt, L)

\* The front is joined alike, alone and in the whole.
LEMMA UpToFront == \A S, L, M, ss, tt : Front(S, L, M, ss, tt) => UpTo(ss, L)[L] = UpTo(tt, M)[L]
<1> TAKE S, L, M, ss, tt
<1> HAVE Front(S, L, M, ss, tt)
<1>1. Listed(ss, L, S) /\ Listed(tt, M, S) /\ L <= M /\ Agree(ss, tt, L)
  BY DEF Front
<1>2. L \in Nat /\ L <= L
  BY <1>1 DEF Listed
<1> QED BY <1>1, <1>2, UpToSame

\* A prefix of a sequence is one of its continuations.
LEMMA CatPrefix == ASSUME NEW S PROVE \A a, b, c \in Seq(S) : Prefix(a, b) => Prefix(a, Cat(b, c))
<1> TAKE a, b, c \in Seq(S)
<1> HAVE Prefix(a, b)
<1>1. Len(Cat(b, c)) = Len(b) + Len(c) /\ \A i \in 1 .. Len(b) : Cat(b, c)[i] = b[i]
  BY DEF Cat
<1>2. Len(a) \in Nat /\ Len(b) \in Nat /\ Len(c) \in Nat
  OBVIOUS
<1>3. Len(a) <= Len(b) /\ \A i \in 1 .. Len(a) : a[i] = b[i]
  BY DEF Prefix
<1>4. Len(a) <= Len(Cat(b, c))
  BY <1>1, <1>2, <1>3
<1>5. ASSUME NEW i \in 1 .. Len(a) PROVE a[i] = Cat(b, c)[i]
  BY <1>1, <1>2, <1>3
<1> QED BY <1>4, <1>5 DEF Prefix

\* A sequence is a prefix of itself.
LEMMA PrefixRefl == ASSUME NEW S PROVE \A a \in Seq(S) : Prefix(a, a)
BY DEF Prefix

\* Fewer sequences make a prefix.
LEMMA UpToPrefix ==
    ASSUME NEW S, NEW L \in Nat, NEW ss \in [1 .. L -> Seq(S)],
           NEW m \in 0 .. L, NEW k \in m .. L
    PROVE  Prefix(UpTo(ss, L)[m], UpTo(ss, L)[k])
<1>1. PICK g \in [0 .. L -> Seq(S)] : UpTo(ss, L) = g /\ Solves(g, ss, L)
  BY UpToDef, Zenon
<1> DEFINE T == Seq(S)
           Done == {n \in 0 .. L : m <= n => Prefix(g[m], g[n])}
<1>2. /\ g \in [0 .. L -> T] /\ ss \in [1 .. L -> T]
      /\ \A a \in T : Prefix(a, a)
      /\ \A a, b, c \in T : Prefix(a, b) => Prefix(a, Cat(b, c))
  BY PrefixRefl, CatPrefix
<1> HIDE DEF T
<1>3. 0 \in Done
  BY <1>2
<1>4. ASSUME NEW n \in 0 .. L, n < L, n \in Done PROVE n + 1 \in Done
  <2>1. n + 1 \in 1 .. L /\ n + 1 \in 0 .. L /\ (n + 1) - 1 = n
    BY <1>4
  <2>2. g[n + 1] = Cat(g[n], ss[n + 1])
    BY <1>1, <2>1 DEF Solves
  <2>3. g[m] \in T /\ g[n] \in T /\ ss[n + 1] \in T /\ g[n + 1] \in T
    BY <1>2, <2>1
  <2>4. CASE m = n + 1
    BY <1>2, <2>1, <2>3, <2>4
  <2>5. CASE m <= n
    BY <1>2, <1>4, <2>1, <2>2, <2>3, <2>5
  <2>6. CASE m > n + 1
    BY <2>1, <2>6
  <2> QED BY <2>4, <2>5, <2>6
<1> HIDE DEF Done
<1>5. 0 .. L \subseteq Done
  BY <1>3, <1>4, UpwardSet
<1>6. Prefix(g[m], g[k])
  BY <1>5 DEF Done
<1> QED BY <1>1, <1>6, Zenon

\* What is joined is a sequence of the elements.
LEMMA JoinedType ==
    ASSUME NEW S, NEW L \in Nat, NEW ss \in [1 .. L -> Seq(S)]
    PROVE  Joined(ss, L) \in Seq(S)
<1>1. PICK g \in [0 .. L -> Seq(S)] : UpTo(ss, L) = g /\ Solves(g, ss, L)
  BY UpToDef, Zenon
<1>2. g[L] \in Seq(S)
  OBVIOUS
<1> QED BY <1>1, <1>2, Zenon DEF Joined

\* Nothing joined is nothing.
LEMMA JoinedNone == ASSUME NEW ss \in [1 .. 0 -> Seq({})] PROVE Joined(ss, 0) = <<>>
<1>1. PICK g \in [0 .. 0 -> Seq({})] : UpTo(ss, 0) = g /\ Solves(g, ss, 0)
  BY UpToDef, Zenon
<1> QED BY <1>1, Zenon DEF Joined, Solves

\* One sequence more goes to the end.
LEMMA JoinedMore ==
    ASSUME NEW S, NEW L \in Nat, NEW ss \in [1 .. L -> Seq(S)], NEW tt \in [1 .. L + 1 -> Seq(S)],
           \A i \in 1 .. L : ss[i] = tt[i]
    PROVE  Joined(tt, L + 1) = Joined(ss, L) \o tt[L + 1]
<1>1. UpTo(ss, L)[L] = UpTo(tt, L + 1)[L]
  <2>1. Front(S, L, L + 1, ss, tt)
    BY DEF Front, Listed, Agree
  <2> QED BY <2>1, UpToFront
<1>2. L + 1 \in Nat
  OBVIOUS
<1>3. PICK h \in [0 .. L + 1 -> Seq(S)] : UpTo(tt, L + 1) = h /\ Solves(h, tt, L + 1)
  BY <1>2, UpToDef, Zenon
<1>4. L + 1 \in 1 .. L + 1 /\ (L + 1) - 1 = L
  OBVIOUS
<1>5. h[L + 1] = Cat(h[L], tt[L + 1])
  BY <1>3, <1>4, Zenon DEF Solves
<1> QED BY <1>1, <1>3, <1>5, Zenon DEF Joined, Cat

\* The sequences at the front make a prefix.
LEMMA JoinedPrefix ==
    ASSUME NEW S, NEW L \in Nat, NEW ss \in [1 .. L -> Seq(S)],
           NEW M \in Nat, NEW tt \in [1 .. M -> Seq(S)],
           L <= M, \A i \in 1 .. L : ss[i] = tt[i]
    PROVE  Prefix(Joined(ss, L), Joined(tt, M))
<1>1. L <= L /\ L \in 0 .. M /\ M \in L .. M
  OBVIOUS
<1>2. UpTo(ss, L)[L] = UpTo(tt, M)[L]
  <2>1. Front(S, L, M, ss, tt)
    BY DEF Front, Listed, Agree
  <2> QED BY <2>1, UpToFront
<1>3. Prefix(UpTo(tt, M)[L], UpTo(tt, M)[M])
  BY <1>1, UpToPrefix
<1> QED BY <1>2, <1>3, Zenon DEF Joined

----------------------------------------------------------------------------
(* Records of a file *)

\* The file ends with a whole record, and has no defect.
Intact(f) == 2 * Records(f) = Len(f)

\* The records before a whole one are whole.
LEMMA WholeDown ==
    ASSUME NEW f, NEW n \in Nat, NEW m \in 0 .. n, Whole(f, n)
    PROVE  Whole(f, m)
BY DEF Whole

\* Records is the greatest number of whole records.
LEMMA RecordsDef ==
    ASSUME NEW f, Len(f) \in Nat
    PROVE  /\ Records(f) \in Nat /\ 2 * Records(f) <= Len(f) /\ Whole(f, Records(f))
           /\ \A m \in Nat : 2 * m <= Len(f) /\ Whole(f, m) => m <= Records(f)
<1> DEFINE B == Len(f) \div 2
           Bad == {k \in Nat : k <= B /\ Whole(f, B - k)}
           Top(n) == Whole(f, n) /\ \A m \in 0 .. B : Whole(f, m) => m <= n
<1>1. B \in Nat /\ 2 * B <= Len(f) /\ Len(f) < 2 * B + 2
  OBVIOUS
<1>2. \A m \in Nat : 2 * m <= Len(f) <=> m <= B
  BY <1>1
<1> HIDE DEF B
<1>3. Bad # {}
  <2>1. Whole(f, 0)
    BY DEF Whole
  <2>2. B \in Nat /\ B <= B /\ B - B = 0
    BY <1>1
  <2>3. B \in Bad
    BY <2>1, <2>2, Zenon
  <2> QED BY <2>3
<1>4. PICK k \in Bad : \A j \in Bad : k <= j
  <2>1. Bad \subseteq Nat
    OBVIOUS
  <2> HIDE DEF Bad
  <2> QED BY <1>3, <2>1, LeastNumber
<1>5. B - k \in 0 .. B /\ Top(B - k)
  <2>1. B - k \in 0 .. B /\ Whole(f, B - k)
    BY <1>1
  <2>2. ASSUME NEW m \in 0 .. B, Whole(f, m) PROVE m <= B - k
    <3>1. B - m \in Nat /\ B - m <= B /\ B - (B - m) = m
      BY <1>1
    <3>2. B - m \in Bad
      BY <3>1, <2>2
    <3>3. k <= B - m /\ k \in Nat
      BY <1>4, <3>2
    <3> QED BY <1>1, <3>3
  <2> QED BY <2>1, <2>2
<1>6. Records(f) = CHOOSE n \in 0 .. B : Top(n)
  BY Zenon DEF Records, B
<1> HIDE DEF Top
<1>7. Records(f) \in 0 .. B /\ Top(Records(f))
  BY <1>5, <1>6, Zenon
<1> QED BY <1>1, <1>2, <1>7 DEF Top

\* n records are whole and the next is not, or there is no room for it.
LEMMA RecordsBy ==
    ASSUME NEW f, Len(f) \in Nat, NEW n \in Nat, 2 * n <= Len(f), Whole(f, n),
           2 * n + 2 > Len(f) \/ ~Whole(f, n + 1)
    PROVE  Records(f) = n
<1> DEFINE r == Records(f)
<1>1. /\ r \in Nat /\ 2 * r <= Len(f) /\ Whole(f, r)
      /\ \A m \in Nat : 2 * m <= Len(f) /\ Whole(f, m) => m <= r
  BY RecordsDef
<1> HIDE DEF r
<1>2. n <= r
  BY <1>1
<1>3. ASSUME n < r PROVE FALSE
  <2>1. n + 1 \in 0 .. r /\ 2 * n + 2 <= Len(f)
    BY <1>1, <1>3
  <2>2. Whole(f, n + 1)
    BY <1>1, <2>1, WholeDown
  <2> QED BY <2>1, <2>2
<1>4. r = n
  BY <1>1, <1>2, <1>3
<1> QED BY <1>4 DEF r

\* The writes of the first n records.
Ids(f, n) == [i \in 1 .. n |-> f[2 * i].ids]

\* The fields of a unit of the file.
LEMMA UnitFields ==
    /\ \A u \in Unit : u.ids \in Seq(Id) /\ u.part \in {1, 2}
    /\ \A ids \in Seq(Id), p \in {1, 2} : [ids |-> ids, part |-> p] \in Unit
<1> DEFINE T == Seq(Id)
<1>1. Unit = [ids : T, part : {1, 2}]
  BY DEF Unit
<1> HIDE DEF T
<1>2. /\ \A u \in Unit : u.ids \in T /\ u.part \in {1, 2}
      /\ \A ids \in T, p \in {1, 2} : [ids |-> ids, part |-> p] \in Unit
  BY <1>1
<1> QED BY <1>2 DEF T

\* The sequences that Replay joins.
LEMMA IdsType ==
    ASSUME NEW f \in Seq(Unit), NEW n \in Nat, 2 * n <= Len(f)
    PROVE  Ids(f, n) \in [1 .. n -> Seq(Id)]
<1> DEFINE T == Seq(Id)
<1>1. \A u \in Unit : u.ids \in T
  BY UnitFields
<1> HIDE DEF T
<1>2. ASSUME NEW i \in 1 .. n PROVE f[2 * i].ids \in T
  <2>1. 2 * i \in 1 .. Len(f)
    OBVIOUS
  <2>2. f[2 * i] \in Unit
    BY <2>1
  <2> QED BY <1>1, <2>2
<1>3. Ids(f, n) \in [1 .. n -> T]
  BY <1>2 DEF Ids
<1> QED BY <1>3 DEF T

\* Replay rebuilds a sequence of writes.
LEMMA ReplayType == ASSUME NEW f \in Seq(Unit) PROVE Replay(f) \in Seq(Id)
<1>1. Len(f) \in Nat
  OBVIOUS
<1>2. Records(f) \in Nat /\ 2 * Records(f) <= Len(f)
  BY <1>1, RecordsDef
<1>3. Ids(f, Records(f)) \in [1 .. Records(f) -> Seq(Id)]
  BY <1>2, IdsType
<1>4. Joined(Ids(f, Records(f)), Records(f)) \in Seq(Id)
  BY <1>2, <1>3, JoinedType, Zenon
<1> QED BY <1>4, Zenon DEF Replay, Ids

\* An empty file replays to nothing.
LEMMA ReplayNone == Intact(<<>>) /\ Replay(<<>>) = <<>>
<1> DEFINE e == <<>>
<1>1. Len(e) = 0
  OBVIOUS
<1> HIDE DEF e
<1>2. Whole(e, 0)
  BY DEF Whole
<1>3. Records(e) = 0
  BY <1>1, <1>2, RecordsBy
<1>4. [i \in 1 .. 0 |-> e[2 * i].ids] \in [1 .. 0 -> Seq({})]
  <2> DEFINE T == Seq({})
  <2> HIDE DEF T
  <2>1. [i \in 1 .. 0 |-> e[2 * i].ids] \in [1 .. 0 -> T]
    OBVIOUS
  <2> QED BY <2>1 DEF T
<1>5. Joined([i \in 1 .. 0 |-> e[2 * i].ids], 0) = <<>>
  BY <1>4, JoinedNone, Zenon
<1>6. Replay(e) = <<>>
  BY <1>3, <1>5, Zenon DEF Replay
<1>7. Intact(e)
  BY <1>1, <1>3 DEF Intact
<1> QED BY <1>6, <1>7 DEF e

\* Whole records stay whole when a file grows, and a prefix of it has its own.
LEMMA WholePrefix ==
    ASSUME NEW f \in Seq(Unit), NEW g \in Seq(Unit), Prefix(f, g), NEW n \in Nat, 2 * n <= Len(f)
    PROVE  Whole(f, n) <=> Whole(g, n)
<1>1. ASSUME NEW i \in 1 .. n PROVE f[2 * i - 1] = g[2 * i - 1] /\ f[2 * i] = g[2 * i]
  BY DEF Prefix
<1> QED BY <1>1 DEF Whole

\* A prefix of a file replays to a prefix of what the file replays to.
LEMMA ReplayPrefix ==
    ASSUME NEW f \in Seq(Unit), NEW g \in Seq(Unit), Prefix(f, g)
    PROVE  Records(f) <= Records(g) /\ Prefix(Replay(f), Replay(g))
<1>1. Len(f) \in Nat /\ Len(g) \in Nat /\ Len(f) <= Len(g)
  BY DEF Prefix
<1>2. /\ Records(f) \in Nat /\ 2 * Records(f) <= Len(f) /\ Whole(f, Records(f))
      /\ Records(g) \in Nat /\ 2 * Records(g) <= Len(g)
      /\ \A m \in Nat : 2 * m <= Len(g) /\ Whole(g, m) => m <= Records(g)
  BY <1>1, RecordsDef
<1>3. Whole(g, Records(f))
  BY <1>2, WholePrefix
<1>4. Records(f) <= Records(g)
  BY <1>1, <1>2, <1>3
<1>5. /\ Ids(f, Records(f)) \in [1 .. Records(f) -> Seq(Id)]
      /\ Ids(g, Records(g)) \in [1 .. Records(g) -> Seq(Id)]
  BY <1>2, IdsType
<1>6. \A i \in 1 .. Records(f) : Ids(f, Records(f))[i] = Ids(g, Records(g))[i]
  <2> DEFINE m == Records(f)
             n == Records(g)
  <2>1. m \in Nat /\ n \in Nat /\ m <= n /\ 2 * m <= Len(f)
    BY <1>2, <1>4
  <2> HIDE DEF m, n
  <2>2. ASSUME NEW i \in 1 .. m PROVE f[2 * i] = g[2 * i] /\ i \in 1 .. n
    BY <2>1 DEF Prefix
  <2>3. \A i \in 1 .. m : Ids(f, m)[i] = Ids(g, n)[i]
    BY <2>2 DEF Ids
  <2> QED BY <2>3 DEF m, n
<1>7. Prefix(Joined(Ids(f, Records(f)), Records(f)), Joined(Ids(g, Records(g)), Records(g)))
  BY <1>2, <1>4, <1>5, <1>6, JoinedPrefix, Zenon
<1> QED BY <1>4, <1>7, Zenon DEF Replay, Ids

\* As many records in a longer file: the same replay.
LEMMA ReplaySame ==
    ASSUME NEW f \in Seq(Unit), NEW g \in Seq(Unit), Prefix(f, g), Records(f) = Records(g)
    PROVE  Replay(g) = Replay(f)
<1>1. Len(f) \in Nat
  OBVIOUS
<1>2. Records(f) \in Nat /\ 2 * Records(f) <= Len(f)
  BY <1>1, RecordsDef
<1> DEFINE n == Records(f)
<1>3. n \in Nat /\ 2 * n <= Len(f) /\ Records(f) = n /\ Records(g) = n
  BY <1>2
<1> HIDE DEF n
<1>4. ASSUME NEW i \in 1 .. n PROVE f[2 * i] = g[2 * i]
  BY <1>3 DEF Prefix
<1>5. [i \in 1 .. n |-> f[2 * i].ids] = [i \in 1 .. n |-> g[2 * i].ids]
  BY <1>4
<1> QED BY <1>3, <1>5, Zenon DEF Replay

\* The two halves of a record.
LEMMA RecordUnits ==
    ASSUME NEW ids \in Seq(Id)
    PROVE  \E u, v \in Unit : /\ Record(ids) = <<u, v>> /\ u.part = 1 /\ u.ids = ids
                              /\ v = [ids |-> ids, part |-> 2] /\ v.ids = ids
<1> DEFINE T == Seq(Id)
<1>1. ids \in T /\ \A i \in T, p \in {1, 2} : [ids |-> i, part |-> p] \in Unit
  BY UnitFields
<1> HIDE DEF T
<1> DEFINE u == [ids |-> ids, part |-> 1]
           v == [ids |-> ids, part |-> 2]
<1>2. u \in Unit /\ v \in Unit /\ u.part = 1 /\ u.ids = ids /\ v.ids = ids
  BY <1>1
<1>3. Record(ids) = <<u, v>>
  BY Zenon DEF Record
<1> HIDE DEF u
<1>4. v = [ids |-> ids, part |-> 2]
  OBVIOUS
<1> HIDE DEF v
<1> QED BY <1>2, <1>3, <1>4

\* Where the elements of a concatenation come from.
LEMMA ConcatPrefix ==
    ASSUME NEW S, NEW f \in Seq(S), NEW g \in Seq(S)
    PROVE  /\ f \o g \in Seq(S) /\ Len(f \o g) = Len(f) + Len(g) /\ Prefix(f, f \o g)
           /\ \A i \in 1 .. Len(f) : (f \o g)[i] = f[i]
           /\ \A i \in 1 .. Len(g) : (f \o g)[Len(f) + i] = g[i]
BY DEF Prefix

\* A record behind whole ones is replayed after them.
LEMMA ReplayRecord ==
    ASSUME NEW f \in Seq(Unit), NEW ids \in Seq(Id), Intact(f)
    PROVE  /\ Intact(f \o Record(ids))
           /\ Replay(f \o Record(ids)) = Replay(f) \o ids
<1>1. PICK u, v \in Unit : /\ Record(ids) = <<u, v>> /\ u.part = 1 /\ u.ids = ids
                           /\ v = [ids |-> ids, part |-> 2] /\ v.ids = ids
  BY RecordUnits, Zenon
<1> DEFINE g == f \o <<u, v>>
           n == Records(f)
<1>2. Len(f) \in Nat /\ <<u, v>> \in Seq(Unit) /\ Len(<<u, v>>) = 2
  OBVIOUS
<1>3. /\ g \in Seq(Unit) /\ Len(g) = Len(f) + 2 /\ Prefix(f, g)
      /\ g[Len(f) + 1] = u /\ g[Len(f) + 2] = v
  BY <1>2 DEF Prefix
<1>4. n \in Nat /\ 2 * n = Len(f) /\ Whole(f, n)
  BY <1>2, RecordsDef DEF Intact
<1> HIDE DEF g, n
<1>5. Whole(g, n)
  BY <1>3, <1>4, WholePrefix
<1>6. Whole(g, n + 1)
  <2> SUFFICES ASSUME NEW i \in 1 .. n + 1
               PROVE  g[2 * i - 1].part = 1 /\ g[2 * i] = [ids |-> g[2 * i - 1].ids, part |-> 2]
    BY Zenon DEF Whole
  <2>1. CASE i = n + 1
    <3>1. 2 * i - 1 = Len(f) + 1 /\ 2 * i = Len(f) + 2
      BY <1>4, <2>1
    <3> QED BY <1>1, <1>3, <3>1, Zenon
  <2>2. CASE i \in 1 .. n
    BY <1>5, <2>2, Zenon DEF Whole
  <2> QED BY <1>4, <2>1, <2>2
<1>7. Records(g) = n + 1
  <2>1. Len(g) \in Nat /\ n + 1 \in Nat /\ 2 * (n + 1) <= Len(g) /\ 2 * (n + 1) + 2 > Len(g)
    BY <1>3, <1>4
  <2> QED BY <1>6, <2>1, RecordsBy
<1>8. Ids(f, n) \in [1 .. n -> Seq(Id)] /\ Ids(g, n + 1) \in [1 .. n + 1 -> Seq(Id)]
  <2>1. 2 * (n + 1) <= Len(g) /\ n + 1 \in Nat /\ 2 * n <= Len(f)
    BY <1>3, <1>4
  <2> QED BY <1>3, <1>4, <2>1, IdsType
<1>9. (\A i \in 1 .. n : Ids(f, n)[i] = Ids(g, n + 1)[i]) /\ Ids(g, n + 1)[n + 1] = ids
  <2>1. ASSUME NEW i \in 1 .. n PROVE f[2 * i] = g[2 * i] /\ i \in 1 .. n + 1
    BY <1>3, <1>4 DEF Prefix
  <2>2. 2 * (n + 1) = Len(f) + 2 /\ n + 1 \in 1 .. n + 1
    BY <1>4
  <2>3. g[2 * (n + 1)].ids = ids
    BY <1>1, <1>3, <2>2, Zenon
  <2>4. \A i \in 1 .. n : Ids(f, n)[i] = Ids(g, n + 1)[i]
    BY <2>1 DEF Ids
  <2>5. Ids(g, n + 1)[n + 1] = g[2 * (n + 1)].ids
    BY <2>2 DEF Ids
  <2> QED BY <2>3, <2>4, <2>5
<1>10. Joined(Ids(g, n + 1), n + 1) = Joined(Ids(f, n), n) \o Ids(g, n + 1)[n + 1]
  BY <1>4, <1>8, <1>9, JoinedMore, Zenon
<1>11. Replay(g) = Replay(f) \o ids
  BY <1>7, <1>9, <1>10, Zenon DEF Replay, Ids, n
<1>12. Intact(g)
  BY <1>3, <1>4, <1>7 DEF Intact
<1> QED BY <1>1, <1>11, <1>12, Zenon DEF g

\* What follows a defect is not replayed, unless it completes the record.
LEMMA ReplayTorn ==
    ASSUME NEW f \in Seq(Unit), NEW h \in Seq(Unit), ~Intact(f), h # <<>> => h[1].part = 1
    PROVE  ~Intact(f \o h) /\ Replay(f \o h) = Replay(f)
<1> DEFINE g == f \o h
           n == Records(f)
<1>1. /\ g \in Seq(Unit) /\ Len(g) = Len(f) + Len(h) /\ Prefix(f, g)
      /\ \A i \in 1 .. Len(h) : g[Len(f) + i] = h[i]
      /\ Len(f) \in Nat /\ Len(g) \in Nat /\ Len(h) \in Nat
  BY ConcatPrefix
<1>2. /\ n \in Nat /\ 2 * n <= Len(f) /\ Whole(f, n)
      /\ \A m \in Nat : 2 * m <= Len(f) /\ Whole(f, m) => m <= n
  BY <1>1, RecordsDef
<1>3. 2 * n # Len(f)
  BY DEF Intact
<1> HIDE DEF g, n
<1>4. Whole(g, n)
  BY <1>1, <1>2, WholePrefix
<1>5. ASSUME 2 * n + 2 <= Len(g), Whole(g, n + 1) PROVE FALSE
  <2>1. CASE 2 * n + 2 <= Len(f)
    <3>1. n + 1 \in Nat /\ 2 * (n + 1) <= Len(f)
      BY <1>2, <2>1
    <3>2. Whole(f, n + 1)
      BY <1>1, <1>5, <3>1, WholePrefix
    <3> QED BY <1>2, <3>1, <3>2
  <2>2. CASE Len(f) = 2 * n + 1
    <3>1. 1 \in 1 .. Len(h) /\ 2 * (n + 1) = Len(f) + 1 /\ n + 1 \in 1 .. n + 1
      BY <1>1, <1>2, <1>5, <2>2
    <3>2. h # <<>>
      BY <3>1
    <3>3. g[2 * (n + 1)].part = 1
      BY <1>1, <3>1, <3>2
    <3>4. g[2 * (n + 1)] = [ids |-> g[2 * (n + 1) - 1].ids, part |-> 2]
      BY <1>5, <3>1, Zenon DEF Whole
    <3>5. g[2 * (n + 1)].part = 2
      BY <3>4
    <3> QED BY <3>3, <3>5
  <2> QED BY <1>1, <1>2, <1>3, <2>1, <2>2
<1>6. Records(g) = n
  <2>1. 2 * n <= Len(g)
    BY <1>1, <1>2
  <2>2. 2 * n + 2 > Len(g) \/ ~Whole(g, n + 1)
    BY <1>1, <1>2, <1>5
  <2> QED BY <1>1, <1>2, <1>4, <2>1, <2>2, RecordsBy
<1>7. Replay(g) = Replay(f)
  BY <1>1, <1>6, ReplaySame DEF n
<1>8. ~Intact(g)
  BY <1>1, <1>2, <1>3, <1>6 DEF Intact
<1> QED BY <1>7, <1>8 DEF g

\* Half a record is not replayed.
LEMMA ReplayHalf ==
    ASSUME NEW f \in Seq(Unit), NEW u \in Unit, u.part = 1
    PROVE  ~Intact(f \o <<u>>) /\ Replay(f \o <<u>>) = Replay(f)
<1> DEFINE h == <<u>>
<1>1. h \in Seq(Unit) /\ h[1].part = 1 /\ Len(h) = 1
  OBVIOUS
<1> HIDE DEF h
<1>2. CASE ~Intact(f)
  <2>1. ~Intact(f \o h) /\ Replay(f \o h) = Replay(f)
    BY <1>1, <1>2, ReplayTorn
  <2> QED BY <2>1 DEF h
<1>3. CASE Intact(f)
  <2> DEFINE g == f \o h
             n == Records(f)
  <2>1. /\ g \in Seq(Unit) /\ Len(g) = Len(f) + 1 /\ Prefix(f, g)
        /\ Len(f) \in Nat /\ Len(g) \in Nat
    <3>1. f \o h \in Seq(Unit) /\ Len(f \o h) = Len(f) + Len(h) /\ Prefix(f, f \o h)
      BY <1>1, ConcatPrefix
    <3>2. Len(f) \in Nat
      OBVIOUS
    <3> QED BY <1>1, <3>1, <3>2
  <2>2. n \in Nat /\ 2 * n = Len(f) /\ Whole(f, n)
    BY <1>3, <2>1, RecordsDef DEF Intact
  <2> HIDE DEF g, n
  <2>3. Whole(g, n)
    BY <2>1, <2>2, WholePrefix
  <2>4. Records(g) = n
    <3>1. 2 * n <= Len(g) /\ 2 * n + 2 > Len(g)
      BY <2>1, <2>2
    <3> QED BY <2>1, <2>2, <2>3, <3>1, RecordsBy
  <2>5. Replay(g) = Replay(f)
    BY <2>1, <2>4, ReplaySame DEF n
  <2>6. ~Intact(g)
    BY <2>1, <2>2, <2>4 DEF Intact
  <2> QED BY <2>5, <2>6 DEF g, h
<1> QED BY <1>2, <1>3

\* The export is a sequence of writes, and the keyspace itself when every type
\* is emitted.
LEMMA EmittedDef ==
    ASSUME NEW s \in Seq(Id)
    PROVE  /\ Emitted(s) \in Seq(Id)
           /\ ElementsOf(s) \cap Unserialized = {} => Emitted(s) = s
<1> DEFINE L == Len(s)
           E(i) == IF s[i] \in Unserialized THEN <<>> ELSE <<s[i]>>
           ss == [i \in 1 .. L |-> E(i)]
<1>1. L \in Nat /\ DOMAIN s = 1 .. L
  OBVIOUS
<1>2. ss \in [1 .. L -> Seq(Id)]
  <2>1. ASSUME NEW i \in 1 .. L PROVE E(i) \in Seq(Id)
    OBVIOUS
  <2> DEFINE T == Seq(Id)
  <2>2. \A i \in 1 .. L : E(i) \in T
    BY <2>1
  <2> HIDE DEF T, E
  <2>3. ss \in [1 .. L -> T]
    BY <2>2
  <2> QED BY <2>3 DEF T
<1>3. Emitted(s) = Joined(ss, L)
  BY <1>1, Zenon DEF Emitted
<1>4. Emitted(s) \in Seq(Id)
  <2> HIDE DEF ss, L
  <2> QED BY <1>1, <1>2, <1>3, JoinedType, Zenon
<1>5. ASSUME ElementsOf(s) \cap Unserialized = {} PROVE Emitted(s) = s
  <2>1. ASSUME NEW i \in 1 .. L PROVE ss[i] = <<s[i]>>
    <3>1. s[i] \notin Unserialized
      BY <1>1, <1>5 DEF ElementsOf
    <3> QED BY <3>1
  <2> HIDE DEF ss, L
  <2>2. PICK g \in [0 .. L -> Seq(Id)] : UpTo(ss, L) = g /\ Solves(g, ss, L)
    BY <1>1, <1>2, UpToDef, Zenon
  <2> DEFINE Done == {n \in 0 .. L : g[n] = SubSeq(s, 1, n)}
  <2>3. 0 \in Done
    <3>1. g[0] = <<>>
      BY <2>2, Zenon DEF Solves
    <3>2. SubSeq(s, 1, 0) = <<>>
      OBVIOUS
    <3> QED BY <1>1, <3>1, <3>2
  <2>4. ASSUME NEW n \in 0 .. L, n < L, n \in Done PROVE n + 1 \in Done
    <3>1. n + 1 \in 1 .. L /\ n + 1 \in 0 .. L /\ (n + 1) - 1 = n
      BY <1>1, <2>4
    <3>2. g[n + 1] = Cat(g[n], ss[n + 1]) /\ ss[n + 1] = <<s[n + 1]>>
      BY <2>1, <2>2, <3>1 DEF Solves
    <3>3. g[n] = SubSeq(s, 1, n)
      BY <2>4
    <3>4. Cat(SubSeq(s, 1, n), <<s[n + 1]>>) = SubSeq(s, 1, n + 1)
      BY <3>1 DEF Cat, L
    <3>5. g[n + 1] = SubSeq(s, 1, n + 1)
      BY <3>2, <3>3, <3>4, Zenon
    <3> QED BY <3>1, <3>5
  <2> HIDE DEF Done
  <2>5. 0 .. L \subseteq Done
    BY <1>1, <2>3, <2>4, UpwardSet
  <2>6. g[L] = SubSeq(s, 1, L)
    BY <1>1, <2>5 DEF Done
  <2>7. SubSeq(s, 1, L) = s
    BY DEF L
  <2> QED BY <1>3, <2>2, <2>6, <2>7, Zenon DEF Joined
<1> QED BY <1>4, <1>5

----------------------------------------------------------------------------
(* Files cut and continued *)

\* Concatenations and cuts.
LEMMA SeqFacts ==
    ASSUME NEW S
    PROVE  /\ \A f, g, h \in Seq(S) : (f \o g) \o h = f \o (g \o h)
           /\ \A f \in Seq(S) : f \o <<>> = f /\ <<>> \o f = f
           /\ \A f, g \in Seq(S) : \A n \in 0 .. Len(f) : SubSeq(f \o g, 1, n) = SubSeq(f, 1, n)
           /\ \A f \in Seq(S) : SubSeq(f, 1, Len(f)) = f
<1>1. \A f, g, h \in Seq(S) : (f \o g) \o h = f \o (g \o h)
  OBVIOUS
<1>2. \A f \in Seq(S) : f \o <<>> = f /\ <<>> \o f = f
  OBVIOUS
<1>3. \A f, g \in Seq(S) : \A n \in 0 .. Len(f) : SubSeq(f \o g, 1, n) = SubSeq(f, 1, n)
  OBVIOUS
<1>4. \A f \in Seq(S) : SubSeq(f, 1, Len(f)) = f
  OBVIOUS
<1> QED BY <1>1, <1>2, <1>3, <1>4

\* A sequence is the concatenation of its two parts.
LEMMA SplitFacts ==
    ASSUME NEW S
    PROVE  \A b, x, y \in Seq(S) : \A n \in Nat :
             (/\ Len(x) = n /\ Len(b) = n + Len(y)
              /\ (\A i \in 1 .. n : x[i] = b[i]) /\ \A i \in 1 .. Len(y) : y[i] = b[n + i])
             => x \o y = b
<1> TAKE b, x, y \in Seq(S)
<1> DEFINE z == x \o y
<1>1. /\ z \in Seq(S) /\ Len(z) = Len(x) + Len(y)
      /\ \A i \in 1 .. Len(x) : z[i] = x[i]
      /\ \A i \in 1 .. Len(y) : z[Len(x) + i] = y[i]
  BY ConcatPrefix
<1> SUFFICES ASSUME NEW n \in Nat, Len(x) = n, Len(b) = n + Len(y),
                    \A i \in 1 .. n : x[i] = b[i],
                    \A i \in 1 .. Len(y) : y[i] = b[n + i]
             PROVE  x \o y = b
  OBVIOUS
<1> HIDE DEF z
<1>2. ASSUME NEW i \in 1 .. Len(b) PROVE z[i] = b[i]
  <2>1. CASE i <= n
    BY <1>1, <2>1
  <2>2. CASE i > n
    <3>1. i - n \in 1 .. Len(y) /\ n + (i - n) = i
      BY <2>2
    <3>2. z[n + (i - n)] = y[i - n] /\ y[i - n] = b[n + (i - n)]
      BY <1>1, <3>1
    <3> QED BY <3>1, <3>2
  <2> QED BY <2>1, <2>2
<1>3. z = b
  BY <1>1, <1>2
<1> QED BY <1>3 DEF z

\* A file and a buffer that give units from one to the other are the same log.
LEMMA SpillFacts ==
    ASSUME NEW S, NEW f \in Seq(S), NEW b \in Seq(S), b # <<>>
    PROVE  /\ Append(f, Head(b)) \in Seq(S) /\ Tail(b) \in Seq(S)
           /\ Append(f, Head(b)) \o Tail(b) = f \o b
           /\ Append(f, Head(b)) = f \o <<Head(b)>> /\ <<Head(b)>> \in Seq(S)
<1>1. /\ Append(f, Head(b)) \in Seq(S) /\ Tail(b) \in Seq(S)
      /\ Append(f, Head(b)) = f \o <<Head(b)>> /\ <<Head(b)>> \in Seq(S)
  OBVIOUS
<1>2. Append(f, Head(b)) \o Tail(b) = f \o b
  OBVIOUS
<1> QED BY <1>1, <1>2

\* A flush that stops after n units leaves the same log.
LEMMA SplitLog ==
    ASSUME NEW S, NEW f \in Seq(S), NEW b \in Seq(S), NEW n \in 0 .. Len(b)
    PROVE  /\ SubSeq(b, 1, n) \in Seq(S) /\ SubSeq(b, n + 1, Len(b)) \in Seq(S)
           /\ (f \o SubSeq(b, 1, n)) \o SubSeq(b, n + 1, Len(b)) = f \o b
<1>1. SubSeq(b, 1, n) \in Seq(S) /\ Len(SubSeq(b, 1, n)) = n
      /\ \A i \in 1 .. n : SubSeq(b, 1, n)[i] = b[i]
  OBVIOUS
<1>2. /\ SubSeq(b, n + 1, Len(b)) \in Seq(S) /\ Len(SubSeq(b, n + 1, Len(b))) = Len(b) - n
      /\ \A i \in 1 .. Len(b) - n : SubSeq(b, n + 1, Len(b))[i] = b[n + i]
  OBVIOUS
<1> DEFINE x == SubSeq(b, 1, n)
           y == SubSeq(b, n + 1, Len(b))
<1>3. x \in Seq(S) /\ y \in Seq(S) /\ Len(x) = n /\ Len(y) = Len(b) - n
      /\ (\A i \in 1 .. n : x[i] = b[i]) /\ \A i \in 1 .. Len(b) - n : y[i] = b[n + i]
  BY <1>1, <1>2
<1> HIDE DEF x, y
<1>4. x \o y = b
  <2>1. n \in Nat /\ Len(x) = n /\ Len(b) = n + Len(y)
    BY <1>3
  <2>2. (\A i \in 1 .. n : x[i] = b[i]) /\ \A i \in 1 .. Len(y) : y[i] = b[n + i]
    BY <1>3
  <2> QED BY <1>3, <2>1, <2>2, SplitFacts
<1>5. (f \o x) \o y = f \o b
  BY <1>3, <1>4, SeqFacts
<1> QED BY <1>3, <1>5 DEF x, y

\* Cutting a file.
LEMMA CutFacts ==
    ASSUME NEW S, NEW t \in Seq(S), NEW n \in 0 .. Len(t)
    PROVE  /\ SubSeq(t, 1, n) \in Seq(S) /\ Len(SubSeq(t, 1, n)) = n /\ Prefix(SubSeq(t, 1, n), t)
           /\ \A m \in 0 .. n : SubSeq(SubSeq(t, 1, n), 1, m) = SubSeq(t, 1, m)
<1> DEFINE x == SubSeq(t, 1, n)
<1>1. x \in Seq(S) /\ Len(x) = n /\ (\A i \in 1 .. n : x[i] = t[i]) /\ Prefix(x, t)
  BY DEF Prefix
<1> HIDE DEF x
<1>2. ASSUME NEW m \in 0 .. n PROVE SubSeq(x, 1, m) = SubSeq(t, 1, m)
  BY <1>1
<1> QED BY <1>1, <1>2 DEF x

\* Elements of concatenations and prefixes.
LEMMA ElementsFacts ==
    ASSUME NEW S, NEW s \in Seq(S)
    PROVE  /\ ElementsOf(s) \subseteq S
           /\ \A t \in Seq(S) : ElementsOf(s \o t) = ElementsOf(s) \cup ElementsOf(t)
           /\ \A t \in Seq(S) : Prefix(s, t) => ElementsOf(s) \subseteq ElementsOf(t)
           /\ \A x \in S : ElementsOf(<<x>>) = {x} /\ Append(s, x) = s \o <<x>> /\ <<x>> \in Seq(S)
           /\ ElementsOf(<<>>) = {}
<1>1. ElementsOf(s) \subseteq S /\ ElementsOf(<<>>) = {}
  BY DEF ElementsOf
<1>2. ASSUME NEW t \in Seq(S) PROVE ElementsOf(s \o t) = ElementsOf(s) \cup ElementsOf(t)
  <2>1. ASSUME NEW i \in DOMAIN (s \o t) PROVE (s \o t)[i] \in ElementsOf(s) \cup ElementsOf(t)
    <3>1. CASE i <= Len(s)
      BY <2>1, <3>1 DEF ElementsOf
    <3>2. CASE i > Len(s)
      <4>1. i - Len(s) \in DOMAIN t /\ (s \o t)[i] = t[i - Len(s)]
        BY <2>1, <3>2
      <4> QED BY <4>1 DEF ElementsOf
    <3> QED BY <3>1, <3>2
  <2>2. ASSUME NEW i \in DOMAIN s PROVE s[i] \in ElementsOf(s \o t)
    <3>1. i \in DOMAIN (s \o t) /\ (s \o t)[i] = s[i]
      OBVIOUS
    <3> QED BY <3>1 DEF ElementsOf
  <2>3. ASSUME NEW i \in DOMAIN t PROVE t[i] \in ElementsOf(s \o t)
    <3>1. Len(s) + i \in DOMAIN (s \o t) /\ (s \o t)[Len(s) + i] = t[i]
      OBVIOUS
    <3> QED BY <3>1 DEF ElementsOf
  <2>4. ElementsOf(s \o t) \subseteq ElementsOf(s) \cup ElementsOf(t)
    BY <2>1, Zenon DEF ElementsOf
  <2>5. ElementsOf(s) \cup ElementsOf(t) \subseteq ElementsOf(s \o t)
    <3> DEFINE A == ElementsOf(s \o t)
    <3>1. (\A i \in DOMAIN s : s[i] \in A) /\ \A i \in DOMAIN t : t[i] \in A
      BY <2>2, <2>3
    <3> HIDE DEF A
    <3>2. ElementsOf(s) \subseteq A /\ ElementsOf(t) \subseteq A
      BY <3>1, Zenon DEF ElementsOf
    <3> QED BY <3>2 DEF A
  <2> QED BY <2>4, <2>5
<1>3. ASSUME NEW t \in Seq(S), Prefix(s, t) PROVE ElementsOf(s) \subseteq ElementsOf(t)
  BY <1>3 DEF ElementsOf, Prefix
<1>4. ASSUME NEW x \in S PROVE ElementsOf(<<x>>) = {x} /\ Append(s, x) = s \o <<x>> /\ <<x>> \in Seq(S)
  BY DEF ElementsOf
<1> QED BY <1>1, <1>2, <1>3, <1>4

\* A record is two units, and replays to its writes.
LEMMA RecordFacts ==
    ASSUME NEW ids \in Seq(Id)
    PROVE  /\ Record(ids) \in Seq(Unit) /\ Len(Record(ids)) = 2 /\ Record(ids) # <<>>
           /\ Record(ids)[1].part = 1 /\ Intact(Record(ids)) /\ Replay(Record(ids)) = ids
           /\ SubSeq(Record(ids), 1, 0) = <<>> /\ SubSeq(Record(ids), 1, 2) = Record(ids)
           /\ \E u \in Unit : u.part = 1 /\ SubSeq(Record(ids), 1, 1) = <<u>>
<1>1. PICK u, v \in Unit : Record(ids) = <<u, v>> /\ u.part = 1
  BY RecordUnits, Zenon
<1> DEFINE r == <<u, v>>
<1>2. /\ r \in Seq(Unit) /\ Len(r) = 2 /\ r # <<>> /\ r[1] = u
      /\ SubSeq(r, 1, 0) = <<>> /\ SubSeq(r, 1, 2) = r /\ SubSeq(r, 1, 1) = <<u>>
  <2>1. r \in Seq(Unit) /\ Len(r) = 2 /\ r[1] = u
    OBVIOUS
  <2> HIDE DEF r
  <2>2. r # <<>> /\ SubSeq(r, 1, 0) = <<>>
    BY <2>1
  <2>3. SubSeq(r, 1, 2) = r
    BY <2>1, SeqFacts
  <2>4. SubSeq(r, 1, 1) = <<u>>
    <3> DEFINE x == SubSeq(r, 1, 1)
               y == <<u>>
    <3>1. x \in Seq(Unit) /\ Len(x) = 1 /\ x[1] = u
      BY <2>1
    <3>2. y \in Seq(Unit) /\ Len(y) = 1 /\ y[1] = u
      OBVIOUS
    <3> HIDE DEF x, y
    <3>3. x = y
      BY <3>1, <3>2
    <3> QED BY <3>3 DEF x, y
  <2> QED BY <2>1, <2>2, <2>3, <2>4
<1> HIDE DEF r
<1>3. Record(ids) = r
  BY <1>1 DEF r
<1>4. <<>> \in Seq(Unit) /\ <<>> \o r = r /\ <<>> \o ids = ids
  BY <1>2, SeqFacts
<1>5. Intact(<<>>) /\ Replay(<<>>) = <<>>
  BY ReplayNone
<1>6. Intact(<<>> \o Record(ids)) /\ Replay(<<>> \o Record(ids)) = Replay(<<>>) \o ids
  BY <1>4, <1>5, ReplayRecord, Zenon
<1>7. Intact(r) /\ Replay(r) = ids
  BY <1>3, <1>4, <1>5, <1>6
<1> QED BY <1>1, <1>2, <1>3, <1>7, Zenon

\* The empty keyspace, and the empty file.
LEMMA EmptySeqs == <<>> \in Seq(Id) /\ <<>> \in Seq(Unit)
OBVIOUS

\* One write more.
LEMMA OneWrite ==
    ASSUME NEW x \in Id
    PROVE  /\ <<x>> \in Seq(Id)
           /\ Record(<<x>>) \in Seq(Unit) /\ Len(Record(<<x>>)) = 2 /\ Record(<<x>>)[1].part = 1
           /\ \A s \in Seq(Id) : /\ Append(s, x) = s \o <<x>> /\ Append(s, x) \in Seq(Id)
                                 /\ ElementsOf(s \o <<x>>) = ElementsOf(s) \cup {x}
                                 /\ ElementsOf(Append(s, x)) = ElementsOf(s) \cup {x}
<1>1. <<x>> \in Seq(Id)
  OBVIOUS
<1>2. /\ Record(<<x>>) \in Seq(Unit) /\ Len(Record(<<x>>)) = 2 /\ Record(<<x>>)[1].part = 1
  BY <1>1, RecordFacts
<1>3. ASSUME NEW s \in Seq(Id)
      PROVE  /\ Append(s, x) = s \o <<x>> /\ Append(s, x) \in Seq(Id)
             /\ ElementsOf(s \o <<x>>) = ElementsOf(s) \cup {x}
  <2>1. Append(s, x) = s \o <<x>> /\ Append(s, x) \in Seq(Id)
    OBVIOUS
  <2>2. ElementsOf(<<x>>) = {x}
    BY <1>1, ElementsFacts
  <2>3. ElementsOf(s \o <<x>>) = ElementsOf(s) \cup ElementsOf(<<x>>)
    BY <1>1, ElementsFacts
  <2> QED BY <2>1, <2>2, <2>3
<1>4. \A s \in Seq(Id) : /\ Append(s, x) = s \o <<x>> /\ Append(s, x) \in Seq(Id)
                         /\ ElementsOf(s \o <<x>>) = ElementsOf(s) \cup {x}
                         /\ ElementsOf(Append(s, x)) = ElementsOf(s) \cup {x}
  BY <1>3, Zenon
<1> QED BY <1>1, <1>2, <1>4

----------------------------------------------------------------------------
(* The inductive invariant *)

\* The log as the process sees it, and what a power failure leaves of it.
TheLog  == file \o bufw
Durable == Replay(SubSeq(file, 1, synced))

\* A writer that is busy has a write; "always" leaves nothing in the buffer; a
\* process that is down has no buffer, no rewrite and no connections.
Named   == \A w \in Writer : wpc[w] # "idle" => wid[w] # 0
Flushed == policy = "always" => bufw = <<>>
Resting == phase = "down" => bufw = <<>> /\ rw = "none" /\ \A w \in Writer : wpc[w] = "idle"

\* An export that no write overlapped and that left nothing out is the keyspace.
Exported == rw = "install" /\ mishap \cap {"raced", "partial"} = {}
              => snap = data /\ \A w \in Writer : wpc[w] # "append"

\* As long as writes overlap neither each other nor a rewrite, the log replays
\* to a prefix of the keyspace; and to all of it but the write under way while
\* the log takes writes and has no defect.
Alone   == \A v, w \in Writer : wpc[v] = "append" /\ wpc[w] = "append" => v = w
Live    == phase = "up" \/ (phase = "closed" /\ mishap = {})
InStep  == /\ \A w \in Writer : wpc[w] = "append" => data = Append(Replay(TheLog), wid[w])
           /\ (\A w \in Writer : wpc[w] # "append") => data = Replay(TheLog)
Ordered == mishap \subseteq {"torn", "late", "failed"} =>
             /\ Alone
             /\ Prefix(Replay(TheLog), data)
             /\ Live /\ Intact(TheLog) => InStep

\* As long as nothing but crossing writes went wrong, the log has no defect and
\* holds every write but those under way, and what was promised is on disk.
Complete == phase # "down" =>
              Intact(TheLog) /\ ElementsOf(data) = ElementsOf(Replay(TheLog)) \cup Unlogged
OnDisk   == /\ policy # "no" => ticked \subseteq ElementsOf(Durable)
            /\ policy = "always" =>
                 /\ acked \subseteq ElementsOf(Durable)
                 /\ \A w \in Writer : wpc[w] = "reply" => wid[w] \in ElementsOf(Durable)
Kept     == mishap \subseteq {"crossed"} => Complete /\ OnDisk

AofInv == AofTypeOK /\ Named /\ Flushed /\ Resting /\ Exported /\ Ordered /\ Kept

\* What the log and its durable part replay to.
LEMMA LogFacts ==
    ASSUME NEW f \in Seq(Unit), NEW b \in Seq(Unit), NEW n \in 0 .. Len(f)
    PROVE  /\ f \o b \in Seq(Unit) /\ SubSeq(f, 1, n) \in Seq(Unit)
           /\ Replay(f \o b) \in Seq(Id) /\ Replay(SubSeq(f, 1, n)) \in Seq(Id)
           /\ Prefix(Replay(SubSeq(f, 1, n)), Replay(f \o b))
           /\ Prefix(Replay(f), Replay(f \o b))
           /\ ElementsOf(Replay(SubSeq(f, 1, n))) \subseteq ElementsOf(Replay(f \o b))
<1>1. f \o b \in Seq(Unit) /\ Prefix(f, f \o b) /\ n \in 0 .. Len(f \o b)
  BY ConcatPrefix
<1>2. SubSeq(f, 1, n) \in Seq(Unit) /\ SubSeq(f \o b, 1, n) = SubSeq(f, 1, n)
  BY CutFacts, SeqFacts
<1>3. Prefix(SubSeq(f, 1, n), f \o b)
  <2>1. Prefix(SubSeq(f \o b, 1, n), f \o b)
    BY <1>1, CutFacts
  <2> QED BY <1>2, <2>1
<1>4. Replay(f \o b) \in Seq(Id) /\ Replay(SubSeq(f, 1, n)) \in Seq(Id)
  BY <1>1, <1>2, ReplayType
<1>5. Prefix(Replay(SubSeq(f, 1, n)), Replay(f \o b)) /\ Prefix(Replay(f), Replay(f \o b))
  BY <1>1, <1>2, <1>3, ReplayPrefix
<1>6. ElementsOf(Replay(SubSeq(f, 1, n))) \subseteq ElementsOf(Replay(f \o b))
  BY <1>4, <1>5, ElementsFacts
<1> QED BY <1>1, <1>2, <1>4, <1>5, <1>6

\* The same of the variables.
LEMMA AofTypes ==
    ASSUME AofTypeOK
    PROVE  /\ TheLog \in Seq(Unit) /\ Replay(TheLog) \in Seq(Id) /\ Durable \in Seq(Id)
           /\ Prefix(Durable, Replay(TheLog)) /\ Prefix(Replay(file), Replay(TheLog))
           /\ ElementsOf(Durable) \subseteq ElementsOf(Replay(TheLog))
           /\ SubSeq(file, 1, synced) \in Seq(Unit)
<1>1. file \in Seq(Unit) /\ bufw \in Seq(Unit) /\ synced \in 0 .. Len(file)
  BY DEF AofTypeOK
<1> QED BY <1>1, LogFacts DEF TheLog, Durable

\* A log that only moves from the buffer to the file or to the disk.
LEMMA OrderedKept ==
    ASSUME Ordered, TheLog' = TheLog, UNCHANGED <<data, wpc, wid>>,
           mishap \subseteq mishap', Live' => Live
    PROVE  Ordered'
<1>1. Alone' <=> Alone
  BY DEF Alone
<1>2. InStep' <=> InStep
  BY DEF InStep
<1> HIDE DEF Alone, InStep, Live
<1> QED BY <1>1, <1>2 DEF Ordered

\* The log that stays the same stays complete.
LEMMA CompleteKept ==
    ASSUME Complete, TheLog' = TheLog, UNCHANGED <<data, wpc, wid>>, phase' # "down" => phase # "down"
    PROVE  Complete'
BY DEF Complete, Unlogged

\* More on disk, for the same writes.
LEMMA OnDiskKept ==
    ASSUME OnDisk, UNCHANGED <<policy, acked>>,
           ElementsOf(Durable) \subseteq ElementsOf(Durable'),
           \A w \in Writer : wpc'[w] = "reply" => wpc[w] = "reply" /\ wid'[w] = wid[w],
           policy # "no" => ticked' \subseteq ElementsOf(Durable')
    PROVE  OnDisk'
BY DEF OnDisk

\* The same synced part of a file that only grew.
LEMMA DurableKept ==
    ASSUME NEW f \in Seq(Unit), file \in Seq(Unit), file' = file \o f,
           synced \in 0 .. Len(file), synced' = synced
    PROVE  Durable' = Durable /\ synced' \in 0 .. Len(file') /\ file' \in Seq(Unit)
<1>1. SubSeq(file \o f, 1, synced) = SubSeq(file, 1, synced)
  BY SeqFacts
<1>2. synced \in 0 .. Len(file \o f) /\ file \o f \in Seq(Unit)
  BY ConcatPrefix
<1> QED BY <1>1, <1>2 DEF Durable

\* The whole log on disk.
LEMMA DurableAll ==
    ASSUME file' \in Seq(Unit), bufw' = <<>>, synced' = Len(file')
    PROVE  Durable' = Replay(TheLog') /\ synced' \in 0 .. Len(file')
<1>1. SubSeq(file', 1, Len(file')) = file' /\ file' \o <<>> = file'
  BY SeqFacts
<1>2. Len(file') \in 0 .. Len(file')
  OBVIOUS
<1> QED BY <1>1, <1>2 DEF Durable, TheLog

----------------------------------------------------------------------------
(* The write path *)

\* A command takes effect (dispatch).
LEMMA MutateInv == ASSUME AofInv, NEW w \in Writer, Mutate(w) PROVE AofInv'
<1> USE DEF AofInv
<1>0. /\ phase # "down" /\ wpc[w] = "idle" /\ issued < MaxWrite
      /\ issued' = issued + 1 /\ data' = Append(data, issued + 1)
      /\ wid' = [wid EXCEPT ![w] = issued + 1] /\ wpc' = [wpc EXCEPT ![w] = "append"]
      /\ UNCHANGED <<policy, acked, ticked, bufw, file, synced, phase, rw, snap>>
  BY DEF Mutate, log, rewrite
<1>1. /\ mishap \subseteq mishap' /\ mishap' \subseteq mishap \cup {"raced", "crossed"}
      /\ rw = "install" => "raced" \in mishap'
      /\ Unlogged # {} => "crossed" \in mishap'
  BY DEF Mutate
<1>2. PICK x \in Id : x = issued + 1 /\ x # 0
  BY <1>0, AofBounds DEF AofTypeOK, Id
<1>3. AofTypeOK'
  <2>1. data' \in Seq(Id) /\ issued' \in 0 .. MaxWrite
    <3>1. issued' \in 0 .. MaxWrite
      BY <1>0, AofBounds DEF AofTypeOK
    <3> QED BY <1>0, <1>2, <3>1, OneWrite DEF AofTypeOK
  <2>2. wpc' \in [Writer -> {"idle", "append", "reply"}] /\ wid' \in [Writer -> Id]
    BY <1>0, <1>2 DEF AofTypeOK
  <2> QED BY <1>0, <1>1, <2>1, <2>2 DEF AofTypeOK
<1>4. /\ wpc'[w] = "append" /\ wid'[w] = x
      /\ \A v \in Writer : v # w => wpc'[v] = wpc[v] /\ wid'[v] = wid[v]
  BY <1>0, <1>2 DEF AofTypeOK
<1>5. Named' /\ Flushed' /\ Resting'
  BY <1>0, <1>2, <1>4 DEF Named, Flushed, Resting
<1>6. Exported'
  BY <1>0, <1>1 DEF Exported
<1>7. TheLog' = TheLog /\ Durable' = Durable
  BY <1>0 DEF TheLog, Durable
<1>8. data \in Seq(Id) /\ Replay(TheLog) \in Seq(Id) /\ data' = data \o <<x>> /\ <<x>> \in Seq(Id)
  BY <1>0, <1>2, AofTypes, OneWrite DEF AofTypeOK
<1>9. Ordered'
  <2> SUFFICES ASSUME mishap' \subseteq {"torn", "late", "failed"}
               PROVE  /\ Alone' /\ Prefix(Replay(TheLog)', data')
                      /\ Live' /\ Intact(TheLog)' => InStep'
    BY DEF Ordered
  <2>1. mishap \subseteq {"torn", "late", "failed"} /\ \A v \in Writer : wpc[v] # "append"
    BY <1>1 DEF Unlogged
  <2>2. Alone'
    BY <1>4, <2>1 DEF Alone
  <2>3. Prefix(Replay(TheLog), data) /\ (Live /\ Intact(TheLog) => InStep)
    BY <2>1 DEF Ordered
  <2>4. Prefix(Replay(TheLog), data')
    BY <1>8, <2>3, CatPrefix DEF Cat
  <2>5. Live' => Live
    BY <1>0, <1>1 DEF Live
  <2>6. ASSUME Live', Intact(TheLog)' PROVE InStep'
    <3>1. data = Replay(TheLog)
      BY <1>7, <2>1, <2>3, <2>5, <2>6 DEF InStep
    <3>2. data' = Append(Replay(TheLog), x)
      BY <1>0, <1>2, <3>1
    <3> QED BY <1>4, <1>7, <2>1, <3>2 DEF InStep
  <2> QED BY <1>7, <2>2, <2>4, <2>6
<1>10. Kept'
  <2> SUFFICES ASSUME mishap' \subseteq {"crossed"} PROVE Complete' /\ OnDisk'
    BY DEF Kept
  <2>1. Complete /\ OnDisk
    BY <1>1 DEF Kept
  <2>2. Unlogged' = Unlogged \cup {x}
    BY <1>0, <1>4 DEF Unlogged
  <2>3. ElementsOf(data') = ElementsOf(data) \cup {x}
    BY <1>8, OneWrite
  <2>4. Complete'
    BY <1>0, <1>7, <2>1, <2>2, <2>3 DEF Complete
  <2>5. OnDisk'
    <3>1. \A v \in Writer : wpc'[v] = "reply" => wpc[v] = "reply" /\ wid'[v] = wid[v]
      BY <1>4
    <3>2. policy # "no" => ticked' \subseteq ElementsOf(Durable')
      BY <1>0, <1>7, <2>1 DEF OnDisk
    <3> QED BY <1>0, <1>7, <2>1, <3>1, <3>2, OnDiskKept
  <2> QED BY <2>4, <2>5
<1> QED BY <1>3, <1>5, <1>6, <1>9, <1>10

\* A record that reaches the log whole.
LEMMA RecordedInStep ==
    ASSUME AofTypeOK, Ordered, NEW w \in Writer, wpc[w] = "append", wid[w] \in Id, Live,
           mishap \subseteq {"torn", "late", "failed"},
           wpc' = [wpc EXCEPT ![w] = "reply"], UNCHANGED <<data, wid>>,
           TheLog' = TheLog \o Record(<<wid[w]>>)
    PROVE  /\ Alone' /\ Prefix(Replay(TheLog)', data')
           /\ Intact(TheLog)' => InStep'
<1>1. /\ TheLog \in Seq(Unit) /\ Replay(TheLog) \in Seq(Id) /\ <<wid[w]>> \in Seq(Id)
      /\ Record(<<wid[w]>>) \in Seq(Unit) /\ Record(<<wid[w]>>)[1].part = 1
  BY AofTypes, OneWrite
<1>2. Alone /\ Prefix(Replay(TheLog), data) /\ (Intact(TheLog) => InStep)
  BY DEF Ordered
<1>3. /\ wpc'[w] = "reply" /\ \A v \in Writer : v # w => wpc'[v] = wpc[v]
  BY DEF AofTypeOK
<1>4. \A v \in Writer : wpc'[v] # "append"
  BY <1>2, <1>3 DEF Alone
<1>5. Alone'
  BY <1>4 DEF Alone
<1>6. CASE Intact(TheLog)
  <2>1. Replay(TheLog') = Replay(TheLog) \o <<wid[w]>>
    BY <1>1, <1>6, ReplayRecord
  <2>2. data = Append(Replay(TheLog), wid[w])
    BY <1>2, <1>6 DEF InStep
  <2>3. data' = Replay(TheLog')
    BY <1>1, <2>1, <2>2, OneWrite
  <2>4. Prefix(data', data')
    BY PrefixRefl DEF AofTypeOK
  <2> QED BY <1>4, <1>5, <2>3, <2>4 DEF InStep
<1>7. CASE ~Intact(TheLog)
  <2>1. ~Intact(TheLog') /\ Replay(TheLog') = Replay(TheLog)
    BY <1>1, <1>7, ReplayTorn
  <2> QED BY <1>2, <1>5, <2>1
<1> QED BY <1>6, <1>7

\* A step that leaves log and keyspace alone, with fewer writes under way.
LEMMA OrderedFewer ==
    ASSUME Ordered, TheLog' = TheLog, data' = data, wid' = wid, mishap \subseteq mishap',
           \A v \in Writer : wpc'[v] = "append" => wpc[v] = "append",
           mishap' \subseteq {"torn", "late", "failed"} => ~Live' \/ ~Intact(TheLog)
    PROVE  Ordered'
<1>1. Alone => Alone'
  BY DEF Alone
<1> HIDE DEF Alone, Live, InStep
<1> QED BY <1>1 DEF Ordered

\* A write reaches the log (RecordWrite, AOF.Append).
LEMMA AppendRecordInv == ASSUME AofInv, NEW w \in Writer, AppendRecord(w) PROVE AofInv'
<1> USE DEF AofInv
<1> DEFINE all == bufw \o Record(<<wid[w]>>)
<1>0. /\ phase # "down" /\ wpc[w] = "append"
      /\ IF phase = "up" /\ policy = "always"
         THEN file' = file \o all /\ bufw' = <<>> /\ synced' = Len(file) + Len(all)
         ELSE bufw' = (IF phase = "up" THEN all ELSE bufw) /\ UNCHANGED <<file, synced>>
      /\ wpc' = [wpc EXCEPT ![w] = "reply"]
      /\ mishap' = (IF phase = "closed" THEN mishap \cup {"late"} ELSE mishap)
      /\ UNCHANGED <<policy, data, issued, wid, acked, ticked, phase, rw, snap>>
  BY DEF AppendRecord, rewrite
<1>1. wid[w] \in Id
  BY <1>0 DEF AofTypeOK, Named
<1>2. <<wid[w]>> \in Seq(Id) /\ Record(<<wid[w]>>) \in Seq(Unit)
  BY <1>1, OneWrite
<1>3. file \in Seq(Unit) /\ bufw \in Seq(Unit) /\ all \in Seq(Unit) /\ synced \in 0 .. Len(file)
  BY <1>2 DEF AofTypeOK
<1>4. /\ wpc'[w] = "reply" /\ \A v \in Writer : v # w => wpc'[v] = wpc[v]
      /\ \A v \in Writer : wpc'[v] = "append" => wpc[v] = "append" /\ v # w
  BY <1>0 DEF AofTypeOK
<1>5. file' \in Seq(Unit) /\ bufw' \in Seq(Unit) /\ synced' \in 0 .. Len(file')
  <2>1. CASE phase = "up" /\ policy = "always"
    <3>1. file \o all \in Seq(Unit) /\ Len(file \o all) = Len(file) + Len(all) /\ <<>> \in Seq(Unit)
      BY <1>3, ConcatPrefix
    <3>2. file' = file \o all /\ bufw' = <<>> /\ synced' = Len(file \o all)
      BY <1>0, <2>1, <3>1
    <3> QED BY <3>1, <3>2
  <2>2. CASE ~(phase = "up" /\ policy = "always")
    BY <1>0, <1>3, <2>2
  <2> QED BY <2>1, <2>2
<1>6. AofTypeOK'
  BY <1>0, <1>5 DEF AofTypeOK
<1>7. Named' /\ Flushed' /\ Resting'
  BY <1>0, <1>1, <1>4 DEF Named, Flushed, Resting
<1>8. Exported'
  BY <1>0, <1>4 DEF Exported
<1>9. CASE phase = "up"
  <2>1. TheLog' = TheLog \o Record(<<wid[w]>>)
    <3>1. file' \o bufw' = file \o all
      <4>1. (file \o all) \o <<>> = file \o all
        BY <1>3, ConcatPrefix, SeqFacts
      <4> HIDE DEF all
      <4> QED BY <1>0, <1>9, <4>1
    <3>2. file \o all = (file \o bufw) \o Record(<<wid[w]>>)
      BY <1>2, <1>3, SeqFacts
    <3> QED BY <3>1, <3>2 DEF TheLog
  <2>2. mishap' = mishap
    BY <1>0, <1>9
  <2>3. Ordered'
    <3>1. ASSUME mishap \subseteq {"torn", "late", "failed"}
          PROVE  /\ Alone' /\ Prefix(Replay(TheLog)', data')
                 /\ Intact(TheLog)' => InStep'
      BY <1>0, <1>1, <1>9, <2>1, <3>1, RecordedInStep DEF Live
    <3> HIDE DEF Alone, InStep
    <3> QED BY <2>2, <3>1 DEF Ordered
  <2>4. Kept'
    <3> SUFFICES ASSUME mishap \subseteq {"crossed"} PROVE Complete' /\ OnDisk'
      BY <2>2 DEF Kept
    <3>1. Complete /\ OnDisk
      BY DEF Kept
    <3>2. /\ TheLog \in Seq(Unit) /\ Replay(TheLog) \in Seq(Id)
          /\ Intact(TheLog) /\ ElementsOf(data) = ElementsOf(Replay(TheLog)) \cup Unlogged
      BY <1>9, <3>1, AofTypes DEF Complete
    <3>3. Intact(TheLog') /\ Replay(TheLog') = Replay(TheLog) \o <<wid[w]>>
      BY <1>2, <2>1, <3>2, ReplayRecord
    <3>4. ElementsOf(Replay(TheLog')) = ElementsOf(Replay(TheLog)) \cup {wid[w]}
      BY <1>1, <3>2, <3>3, OneWrite
    <3>5. Unlogged = Unlogged' \cup {wid[w]}
      BY <1>0, <1>4 DEF Unlogged
    <3>6. Complete'
      BY <1>0, <3>2, <3>3, <3>4, <3>5 DEF Complete
    <3>7. OnDisk'
      <4>1. CASE policy = "always"
        <5>1. file' = file \o all /\ bufw' = <<>> /\ synced' = Len(file')
          <6>1. Len(file \o all) = Len(file) + Len(all)
            BY <1>3, ConcatPrefix
          <6> HIDE DEF all
          <6> QED BY <1>0, <1>9, <4>1, <6>1
        <5>2. Durable' = Replay(TheLog')
          BY <1>5, <5>1, DurableAll
        <5>3. ElementsOf(Durable) \subseteq ElementsOf(Replay(TheLog))
          BY AofTypes
        <5>4. ElementsOf(Durable) \subseteq ElementsOf(Durable') /\ wid[w] \in ElementsOf(Durable')
          BY <3>4, <5>2, <5>3
        <5> QED BY <1>0, <1>4, <3>1, <4>1, <5>4 DEF OnDisk
      <4>2. CASE policy # "always"
        <5>1. Durable' = Durable
          BY <1>0, <4>2 DEF Durable
        <5> QED BY <1>0, <3>1, <4>2, <5>1 DEF OnDisk
      <4> QED BY <4>1, <4>2
    <3> QED BY <3>6, <3>7
  <2> QED BY <1>6, <1>7, <1>8, <2>3, <2>4
<1>10. CASE phase = "closed"
  <2>1. mishap' = mishap \cup {"late"} /\ TheLog' = TheLog /\ ~Live'
    BY <1>0, <1>10 DEF TheLog, Live
  <2>2. Ordered'
    BY <1>0, <1>4, <2>1, OrderedFewer
  <2>3. Kept'
    BY <2>1 DEF Kept
  <2> QED BY <1>6, <1>7, <1>8, <2>2, <2>3
<1> QED BY <1>0, <1>9, <1>10 DEF AofTypeOK

\* The file refuses a write under appendfsync always.
LEMMA AppendFailsInv == ASSUME AofInv, NEW w \in Writer, AppendFails(w) PROVE AofInv'
<1> USE DEF AofInv
<1> DEFINE all == Record(<<wid[w]>>)
<1>0. /\ phase = "up" /\ policy = "always" /\ wpc[w] = "append"
      /\ wpc' = [wpc EXCEPT ![w] = "reply"]
      /\ mishap' = mishap \cup {"failed"}
      /\ UNCHANGED <<policy, data, issued, wid, acked, ticked, bufw, synced, rw, snap>>
  BY DEF AppendFails, rewrite
<1>1. PICK n \in 0 .. Len(all) : file' = file \o SubSeq(all, 1, n)
                                 /\ phase' = IF n < Len(all) THEN "closed" ELSE "up"
  BY DEF AppendFails
<1>2. wid[w] \in Id
  BY <1>0 DEF AofTypeOK, Named
<1>3. /\ <<wid[w]>> \in Seq(Id) /\ all \in Seq(Unit) /\ Len(all) = 2
      /\ SubSeq(all, 1, 0) = <<>> /\ SubSeq(all, 1, 2) = all
      /\ \E u \in Unit : u.part = 1 /\ SubSeq(all, 1, 1) = <<u>>
  <2>1. <<wid[w]>> \in Seq(Id)
    BY <1>2, OneWrite
  <2> QED BY <2>1, RecordFacts, Zenon
<1> HIDE DEF all
<1>4. /\ file \in Seq(Unit) /\ synced \in 0 .. Len(file) /\ bufw = <<>>
      /\ SubSeq(all, 1, n) \in Seq(Unit) /\ n \in {0, 1, 2}
  <2>1. SubSeq(all, 1, n) \in Seq(Unit)
    BY <1>3, CutFacts
  <2> QED BY <1>0, <1>3, <2>1 DEF AofTypeOK, Flushed
<1>5. file' \in Seq(Unit) /\ synced' \in 0 .. Len(file')
  BY <1>0, <1>1, <1>4, DurableKept
<1>6. /\ wpc'[w] = "reply" /\ \A v \in Writer : v # w => wpc'[v] = wpc[v]
      /\ \A v \in Writer : wpc'[v] = "append" => wpc[v] = "append" /\ v # w
  BY <1>0 DEF AofTypeOK
<1>7. AofTypeOK'
  BY <1>0, <1>1, <1>5 DEF AofTypeOK
<1>8. Named' /\ Flushed' /\ Resting'
  BY <1>0, <1>1, <1>2, <1>6 DEF Named, Flushed, Resting
<1>9. Exported'
  BY <1>0, <1>6 DEF Exported
<1>10. Kept'
  BY <1>0 DEF Kept
<1>11. TheLog = file /\ TheLog' = TheLog \o SubSeq(all, 1, n)
  <2>1. file \o <<>> = file /\ file' \o <<>> = file'
    BY <1>4, <1>5, SeqFacts
  <2> QED BY <1>0, <1>1, <1>4, <2>1 DEF TheLog
<1>12. Ordered'
  <2>1. CASE n = 0
    <3>1. TheLog' = TheLog
      BY <1>3, <1>4, <1>11, <2>1, SeqFacts
    <3>2. ~Live'
      BY <1>0, <1>1, <1>3, <2>1 DEF Live
    <3> QED BY <1>0, <1>6, <3>1, <3>2, OrderedFewer
  <2>2. CASE n = 1
    <3>1. Replay(TheLog') = Replay(TheLog)
      <4>1. PICK u \in Unit : u.part = 1 /\ SubSeq(all, 1, 1) = <<u>>
        BY <1>3
      <4> QED BY <1>4, <1>11, <2>2, <4>1, ReplayHalf
    <3>2. ~Live'
      BY <1>0, <1>1, <1>3, <2>2 DEF Live
    <3>3. Alone => Alone'
      BY <1>6 DEF Alone
    <3> HIDE DEF Live, Alone, InStep
    <3> QED BY <1>0, <3>1, <3>2, <3>3 DEF Ordered
  <2>3. CASE n = 2
    <3>1. TheLog' = TheLog \o Record(<<wid[w]>>) /\ Live
      BY <1>0, <1>3, <1>11, <2>3 DEF all, Live
    <3>2. ASSUME mishap \subseteq {"torn", "late", "failed"}
          PROVE  /\ Alone' /\ Prefix(Replay(TheLog)', data')
                 /\ Intact(TheLog)' => InStep'
      BY <1>0, <1>2, <3>1, <3>2, RecordedInStep
    <3> HIDE DEF Alone, InStep
    <3> QED BY <1>0, <3>2 DEF Ordered
  <2> QED BY <1>4, <2>1, <2>2, <2>3
<1> QED BY <1>7, <1>8, <1>9, <1>10, <1>12

\* The client gets its reply.
LEMMA ReplyInv == ASSUME AofInv, NEW w \in Writer, Reply(w) PROVE AofInv'
<1> USE DEF AofInv
<1>0. /\ phase # "down" /\ wpc[w] = "reply" /\ acked' = acked \cup {wid[w]}
      /\ wpc' = [wpc EXCEPT ![w] = "idle"]
      /\ UNCHANGED <<policy, data, issued, wid, ticked, bufw, file, synced, phase, rw, snap, mishap>>
  BY DEF Reply, log, rewrite
<1>1. wid[w] \in Id
  BY <1>0 DEF AofTypeOK, Named
<1>2. /\ wpc'[w] = "idle" /\ \A v \in Writer : v # w => wpc'[v] = wpc[v]
      /\ \A v \in Writer : wpc'[v] = "append" <=> wpc[v] = "append"
  BY <1>0 DEF AofTypeOK
<1>3. AofTypeOK'
  BY <1>0, <1>1 DEF AofTypeOK
<1>4. Named' /\ Flushed' /\ Resting'
  BY <1>0, <1>2 DEF Named, Flushed, Resting
<1>5. Exported'
  BY <1>0, <1>2 DEF Exported
<1>6. TheLog' = TheLog /\ Durable' = Durable
  BY <1>0 DEF TheLog, Durable
<1>7. Ordered'
  <2>1. Alone' <=> Alone
    BY <1>2 DEF Alone
  <2>2. (InStep' <=> InStep) /\ (Live' <=> Live)
    BY <1>0, <1>2, <1>6 DEF InStep, Live
  <2> HIDE DEF Alone, InStep, Live
  <2> QED BY <1>0, <1>6, <2>1, <2>2 DEF Ordered
<1>8. Kept'
  <2> SUFFICES ASSUME mishap \subseteq {"crossed"} PROVE Complete' /\ OnDisk'
    BY <1>0 DEF Kept
  <2>1. Complete /\ OnDisk
    BY DEF Kept
  <2>2. Unlogged' = Unlogged
    BY <1>0, <1>2 DEF Unlogged
  <2>3. Complete'
    BY <1>0, <1>6, <2>1, <2>2 DEF Complete
  <2>4. OnDisk'
    BY <1>0, <1>2, <1>6, <2>1 DEF OnDisk
  <2> QED BY <2>3, <2>4
<1> QED BY <1>3, <1>4, <1>5, <1>7, <1>8

----------------------------------------------------------------------------
(* The log moves: buffer, file, disk *)

\* Units go from the buffer to the file, and the log stays as it is.
LEMMA MovedInv ==
    ASSUME AofInv, NEW f \in Seq(Unit), file' = file \o f, bufw' \in Seq(Unit),
           TheLog' = TheLog, policy = "always" => bufw' = <<>>,
           synced' = synced \/ (synced' = Len(file') /\ bufw' = <<>>),
           phase = "up", phase' \in {"up", "closed"}, mishap' = mishap,
           UNCHANGED <<policy, data, issued, wpc, wid, acked>>,
           \/ ticked' = ticked
           \/ ticked' = ElementsOf(data) \ Unlogged /\ bufw' = <<>>
              /\ (policy # "no" => synced' = Len(file')),
           (rw' = rw /\ snap' = snap) \/ (rw' = "none" /\ snap' = <<>>)
    PROVE  AofInv'
<1> USE DEF AofInv
<1>1. file \in Seq(Unit) /\ bufw \in Seq(Unit) /\ synced \in 0 .. Len(file) /\ data \in Seq(Id)
  BY DEF AofTypeOK
<1>2. file' \in Seq(Unit)
  BY <1>1, ConcatPrefix
<1>3. synced' \in 0 .. Len(file')
  <2>1. CASE synced' = synced
    BY <1>1, <2>1, DurableKept
  <2>2. CASE synced' = Len(file') /\ bufw' = <<>>
    BY <1>2, <2>2, DurableAll
  <2> QED BY <2>1, <2>2
<1>4. ticked' \subseteq Id
  BY <1>1, ElementsFacts DEF AofTypeOK
<1>5. AofTypeOK'
  <2>1. snap' \in Seq(Id) /\ rw' \in {"none", "export", "install"}
    BY EmptySeqs, Zenon DEF AofTypeOK
  <2> QED BY <1>2, <1>3, <1>4, <2>1 DEF AofTypeOK
<1>6. Named' /\ Flushed' /\ Resting'
  BY DEF Named, Flushed, Resting
<1>7. Exported'
  BY DEF Exported
<1>8. Ordered'
  <2>1. Live' => Live
    BY DEF Live
  <2> QED BY <2>1, OrderedKept
<1>9. Kept'
  <2> SUFFICES ASSUME mishap \subseteq {"crossed"} PROVE Complete' /\ OnDisk'
    BY DEF Kept
  <2>1. Complete /\ OnDisk
    BY DEF Kept
  <2>2. Complete'
    BY <2>1, CompleteKept
  <2>3. ElementsOf(Durable) \subseteq ElementsOf(Durable')
    <3>1. CASE synced' = synced
      BY <1>1, <3>1, DurableKept
    <3>2. CASE synced' = Len(file') /\ bufw' = <<>>
      <4>1. Durable' = Replay(TheLog)
        BY <1>2, <3>2, DurableAll
      <4> QED BY <4>1, AofTypes
    <3> QED BY <3>1, <3>2
  <2>4. ASSUME policy # "no" PROVE ticked' \subseteq ElementsOf(Durable')
    <3>1. CASE ticked' = ticked
      BY <2>1, <2>3, <2>4, <3>1 DEF OnDisk
    <3>2. CASE /\ ticked' = ElementsOf(data) \ Unlogged /\ bufw' = <<>>
               /\ synced' = Len(file')
      <4>1. Durable' = Replay(TheLog)
        BY <1>2, <3>2, DurableAll
      <4>2. ElementsOf(data) = ElementsOf(Replay(TheLog)) \cup Unlogged
        BY <2>1 DEF Complete
      <4> QED BY <3>2, <4>1, <4>2
    <3> QED BY <2>4, <3>1, <3>2
  <2>5. OnDisk'
    BY <2>1, <2>3, <2>4, OnDiskKept
  <2> QED BY <2>2, <2>5
<1> QED BY <1>5, <1>6, <1>7, <1>8, <1>9

\* A full bufio.Writer writes through.
LEMMA SpillInv == ASSUME AofInv, Spill PROVE AofInv'
<1>0. /\ phase = "up" /\ bufw # <<>> /\ file' = Append(file, Head(bufw)) /\ bufw' = Tail(bufw)
      /\ UNCHANGED <<policy, data, issued, wpc, wid, acked, ticked, synced, phase, rw, snap, mishap>>
  BY DEF Spill, writers, rewrite
<1>1. file \in Seq(Unit) /\ bufw \in Seq(Unit) /\ policy # "always"
  BY <1>0 DEF AofInv, AofTypeOK, Flushed
<1>2. /\ file' = file \o <<Head(bufw)>> /\ <<Head(bufw)>> \in Seq(Unit) /\ bufw' \in Seq(Unit)
      /\ TheLog' = TheLog
  BY <1>0, <1>1, SpillFacts DEF TheLog
<1> QED BY <1>0, <1>1, <1>2, MovedInv

\* The buffer goes to the file.
LEMMA FlushFacts ==
    ASSUME AofTypeOK, file' = file \o bufw, bufw' = <<>>
    PROVE  /\ bufw' \in Seq(Unit) /\ bufw \in Seq(Unit) /\ TheLog' = TheLog
           /\ Len(file') = Len(file) + Len(bufw)
<1>1. file \in Seq(Unit) /\ bufw \in Seq(Unit) /\ file \o bufw \in Seq(Unit)
  BY ConcatPrefix DEF AofTypeOK
<1>2. (file \o bufw) \o <<>> = file \o bufw /\ <<>> \in Seq(Unit)
  BY <1>1, SeqFacts
<1>3. Len(file \o bufw) = Len(file) + Len(bufw)
  BY <1>1, ConcatPrefix
<1> QED BY <1>1, <1>2, <1>3 DEF TheLog

\* flushLoop flushes and syncs.
LEMMA TickInv == ASSUME AofInv, Tick PROVE AofInv'
<1>0. /\ phase = "up" /\ policy # "no" /\ file' = file \o bufw /\ bufw' = <<>>
      /\ synced' = Len(file) + Len(bufw) /\ ticked' = ElementsOf(data) \ Unlogged
      /\ UNCHANGED <<policy, data, issued, wpc, wid, acked, phase, rw, snap, mishap>>
  BY DEF Tick, writers, rewrite
<1>1. bufw' \in Seq(Unit) /\ bufw \in Seq(Unit) /\ TheLog' = TheLog /\ synced' = Len(file')
  BY <1>0, FlushFacts DEF AofInv
<1> QED BY <1>0, <1>1, MovedInv

\* A flush stops in the middle.
LEMMA FlushFailsInv == ASSUME AofInv, FlushFails PROVE AofInv'
<1>0. /\ phase = "up" /\ bufw # <<>> /\ phase' = "closed"
      /\ UNCHANGED <<policy, data, issued, wpc, wid, acked, ticked, synced, rw, snap, mishap>>
  BY DEF FlushFails, writers, rewrite
<1>1. PICK n \in 0 .. Len(bufw) - 1 :
         file' = file \o SubSeq(bufw, 1, n) /\ bufw' = SubSeq(bufw, n + 1, Len(bufw))
  BY DEF FlushFails
<1>2. file \in Seq(Unit) /\ bufw \in Seq(Unit) /\ policy # "always" /\ n \in 0 .. Len(bufw)
  BY <1>0 DEF AofInv, AofTypeOK, Flushed
<1>3. SubSeq(bufw, 1, n) \in Seq(Unit) /\ bufw' \in Seq(Unit) /\ TheLog' = TheLog
  <2>1. /\ SubSeq(bufw, 1, n) \in Seq(Unit) /\ SubSeq(bufw, n + 1, Len(bufw)) \in Seq(Unit)
        /\ (file \o SubSeq(bufw, 1, n)) \o SubSeq(bufw, n + 1, Len(bufw)) = file \o bufw
    BY <1>2, SplitLog
  <2> QED BY <1>1, <2>1, Zenon DEF TheLog
<1> QED BY <1>0, <1>1, <1>2, <1>3, MovedInv

\* The close of the old file or the rename fails.
LEMMA RenameFailsInv == ASSUME AofInv, RenameFails PROVE AofInv'
<1>0. /\ phase = "up" /\ file' = file \o bufw /\ bufw' = <<>> /\ rw' = "none" /\ snap' = <<>>
      /\ phase' \in {"up", "closed"}
      /\ UNCHANGED <<policy, data, issued, wpc, wid, acked, ticked, synced, mishap>>
  BY DEF RenameFails, writers
<1>1. bufw' \in Seq(Unit) /\ bufw \in Seq(Unit) /\ TheLog' = TheLog
  BY <1>0, FlushFacts DEF AofInv
<1> QED BY <1>0, <1>1, MovedInv

\* AOF.Close.
LEMMA CloseInv == ASSUME AofInv, Close PROVE AofInv'
<1>0. /\ phase = "up" /\ file' = file \o bufw /\ bufw' = <<>> /\ phase' = "closed"
      /\ synced' = (IF policy = "no" THEN synced ELSE Len(file) + Len(bufw))
      /\ ticked' = ElementsOf(data) \ Unlogged
      /\ UNCHANGED <<policy, data, issued, wpc, wid, acked, rw, snap, mishap>>
  BY DEF Close, writers, rewrite
<1>1. /\ bufw' \in Seq(Unit) /\ bufw \in Seq(Unit) /\ TheLog' = TheLog
      /\ synced' = IF policy = "no" THEN synced ELSE Len(file')
  BY <1>0, FlushFacts DEF AofInv
<1> QED BY <1>0, <1>1, MovedInv

----------------------------------------------------------------------------
(* BGREWRITEAOF *)

\* A step that leaves the log, the writers and the keyspace alone.
LEMMA StillInv ==
    ASSUME AofInv, mishap \subseteq mishap',
           mishap' \subseteq {"torn", "spliced", "raced", "late", "failed", "crossed", "partial"},
           rw' \in {"none", "export", "install"}, snap' \in Seq(Id),
           phase # "down", Exported',
           UNCHANGED <<policy, data, issued, wpc, wid, acked, ticked, bufw, file, synced, phase>>
    PROVE  AofInv'
<1> USE DEF AofInv
<1>1. AofTypeOK'
  BY DEF AofTypeOK
<1>2. Named' /\ Flushed' /\ Resting'
  BY DEF Named, Flushed, Resting
<1>3. TheLog' = TheLog /\ Durable' = Durable
  BY DEF TheLog, Durable
<1>4. Ordered'
  <2>1. Live' => Live
    BY DEF Live
  <2> QED BY <1>3, <2>1, OrderedKept
<1>5. Kept'
  <2> SUFFICES ASSUME mishap' \subseteq {"crossed"} PROVE Complete' /\ OnDisk'
    BY DEF Kept
  <2>1. Complete /\ OnDisk
    BY DEF Kept
  <2>2. Complete'
    BY <1>3, <2>1, CompleteKept
  <2>3. policy # "no" => ticked' \subseteq ElementsOf(Durable')
    BY <1>3, <2>1 DEF OnDisk
  <2> QED BY <1>3, <2>1, <2>2, <2>3, OnDiskKept
<1> QED BY <1>1, <1>2, <1>4, <1>5

\* BGRewriteAOF starts.
LEMMA RewriteStartInv == ASSUME AofInv, RewriteStart PROVE AofInv'
<1>0. /\ phase # "down" /\ rw' = "export"
      /\ UNCHANGED <<policy, data, issued, wpc, wid, acked, ticked, bufw, file, synced, phase, snap, mishap>>
  BY DEF RewriteStart, writers, log
<1>1. Exported' /\ snap' \in Seq(Id)
  BY <1>0 DEF Exported, AofInv, AofTypeOK
<1>2. mishap' \subseteq {"torn", "spliced", "raced", "late", "failed", "crossed", "partial"}
  BY <1>0 DEF AofInv, AofTypeOK
<1> QED BY <1>0, <1>1, <1>2, StillInv

\* The keyspace is exported to the temporary file.
LEMMA ExportInv == ASSUME AofInv, Export PROVE AofInv'
<1>0. /\ phase # "down" /\ rw' = "install" /\ snap' = Emitted(data)
      /\ UNCHANGED <<policy, data, issued, wpc, wid, acked, ticked, bufw, file, synced, phase>>
  BY DEF Export, writers, log
<1>1. /\ mishap \subseteq mishap' /\ mishap' \subseteq mishap \cup {"raced", "partial"}
      /\ Unlogged # {} => "raced" \in mishap'
      /\ ElementsOf(data) \cap Unserialized # {} => "partial" \in mishap'
  BY DEF Export
<1>2. Emitted(data) \in Seq(Id) /\ (ElementsOf(data) \cap Unserialized = {} => Emitted(data) = data)
  BY EmittedDef DEF AofInv, AofTypeOK
<1>3. Exported'
  <2> SUFFICES ASSUME mishap' \cap {"raced", "partial"} = {}
               PROVE  snap' = data' /\ \A w \in Writer : wpc'[w] # "append"
    BY DEF Exported
  <2>1. Unlogged = {} /\ ElementsOf(data) \cap Unserialized = {}
    BY <1>1
  <2>2. \A w \in Writer : wpc[w] # "append"
    BY <2>1 DEF Unlogged
  <2> QED BY <1>0, <1>2, <2>1, <2>2
<1>4. mishap' \subseteq {"torn", "spliced", "raced", "late", "failed", "crossed", "partial"}
  BY <1>1 DEF AofInv, AofTypeOK
<1> QED BY <1>0, <1>1, <1>2, <1>3, <1>4, StillInv

\* A rewrite gives up on a closed log.
LEMMA InstallFailsInv == ASSUME AofInv, InstallFails \/ TempFails PROVE AofInv'
<1>0. /\ phase # "down" /\ rw' = "none" /\ snap' = <<>>
      /\ UNCHANGED <<policy, data, issued, wpc, wid, acked, ticked, bufw, file, synced, phase, mishap>>
  BY DEF InstallFails, TempFails, writers, log
<1>1. Exported' /\ snap' \in Seq(Id)
  BY <1>0, EmptySeqs DEF Exported
<1>2. mishap' \subseteq {"torn", "spliced", "raced", "late", "failed", "crossed", "partial"}
  BY <1>0 DEF AofInv, AofTypeOK
<1> QED BY <1>0, <1>1, <1>2, StillInv

\* The exported keyspace becomes the log, on disk at once.
LEMMA RenamedInv ==
    ASSUME AofInv, phase = "up", rw = "install",
           file' = Record(snap), synced' = 2, bufw' = <<>>, rw' = "none", snap' = <<>>,
           phase' \in {"up", "closed"},
           UNCHANGED <<policy, data, issued, wpc, wid, acked, ticked, mishap>>
    PROVE  AofInv'
<1> USE DEF AofInv
<1>1. snap \in Seq(Id)
  BY DEF AofTypeOK
<1>2. /\ file' \in Seq(Unit) /\ Len(file') = 2 /\ Intact(file') /\ Replay(file') = snap
  BY <1>1, RecordFacts
<1>3. /\ synced' = Len(file') /\ synced' \in 0 .. Len(file')
      /\ bufw' \in Seq(Unit) /\ snap' \in Seq(Id)
  BY <1>2, EmptySeqs
<1>4. AofTypeOK'
  BY <1>2, <1>3 DEF AofTypeOK
<1>5. Named' /\ Flushed' /\ Resting' /\ Exported'
  BY DEF Named, Flushed, Resting, Exported
<1>6. TheLog' = file' /\ Durable' = snap
  <2>1. file' \o <<>> = file'
    BY <1>2, SeqFacts
  <2>2. TheLog' = file'
    BY <2>1 DEF TheLog
  <2>3. Durable' = Replay(TheLog')
    BY <1>2, <1>3, DurableAll
  <2> QED BY <1>2, <2>2, <2>3
<1>7. ASSUME mishap \cap {"raced", "partial"} = {}
      PROVE  snap = data /\ \A w \in Writer : wpc'[w] # "append"
  BY <1>7 DEF Exported
<1>8. Ordered'
  <2> SUFFICES ASSUME mishap \subseteq {"torn", "late", "failed"}
               PROVE  Alone' /\ Prefix(Replay(TheLog)', data') /\ InStep'
    BY DEF Ordered
  <2>1. snap = data /\ \A w \in Writer : wpc'[w] # "append"
    BY <1>7
  <2>2. Prefix(snap, snap)
    BY <1>1, PrefixRefl
  <2> QED BY <1>2, <1>6, <2>1, <2>2 DEF Alone, InStep
<1>9. Kept'
  <2> SUFFICES ASSUME mishap \subseteq {"crossed"} PROVE Complete' /\ OnDisk'
    BY DEF Kept
  <2>1. snap = data /\ \A w \in Writer : wpc'[w] # "append"
    BY <1>7
  <2>2. Complete /\ OnDisk
    BY DEF Kept
  <2>3. Unlogged' = {}
    BY <2>1 DEF Unlogged
  <2>4. Complete'
    BY <1>2, <1>6, <2>1, <2>3 DEF Complete
  <2>5. ElementsOf(Durable) \subseteq ElementsOf(Durable')
    <3>1. ElementsOf(Durable) \subseteq ElementsOf(Replay(TheLog))
      BY AofTypes
    <3>2. ElementsOf(Replay(TheLog)) \subseteq ElementsOf(data)
      BY <2>2 DEF Complete
    <3> QED BY <1>6, <2>1, <3>1, <3>2
  <2>6. policy # "no" => ticked' \subseteq ElementsOf(Durable')
    BY <2>2, <2>5 DEF OnDisk
  <2>7. OnDisk'
    BY <2>2, <2>5, <2>6, OnDiskKept
  <2> QED BY <2>4, <2>7
<1> QED BY <1>4, <1>5, <1>8, <1>9

\* The rewritten file takes the place of the old one.
LEMMA InstallInv == ASSUME AofInv, Install PROVE AofInv'
<1>0. /\ phase = "up" /\ rw = "install" /\ file' = Record(snap) /\ synced' = 2 /\ bufw' = <<>>
      /\ rw' = "none" /\ snap' = <<>>
      /\ UNCHANGED <<policy, data, issued, wpc, wid, acked, ticked, phase, mishap>>
  BY DEF Install, writers
<1> QED BY <1>0, RenamedInv

\* It does, and cannot be opened.
LEMMA ReopenFailsInv == ASSUME AofInv, ReopenFails PROVE AofInv'
<1>0. /\ phase = "up" /\ rw = "install" /\ file' = Record(snap) /\ synced' = 2 /\ bufw' = <<>>
      /\ rw' = "none" /\ snap' = <<>> /\ phase' = "closed"
      /\ UNCHANGED <<policy, data, issued, wpc, wid, acked, ticked, mishap>>
  BY DEF ReopenFails, writers
<1> QED BY <1>0, RenamedInv

----------------------------------------------------------------------------
(* Crashes, shutdown, restart *)

\* Prefixes of prefixes.
LEMMA PrefixTrans ==
    ASSUME NEW S, NEW a \in Seq(S), NEW b \in Seq(S), NEW c \in Seq(S), Prefix(a, b), Prefix(b, c)
    PROVE  Prefix(a, c)
BY DEF Prefix

\* The process ends: what is in the file replays to a prefix, and holds what
\* was on disk.
LEMMA DownInv ==
    ASSUME AofInv, phase # "down", Down,
           file' \in Seq(Unit), synced' \in 0 .. Len(file'),
           mishap \subseteq {"torn", "late", "failed"} => Prefix(Replay(file'), data),
           ElementsOf(Durable) \subseteq ElementsOf(Durable')
    PROVE  AofInv'
<1> USE DEF AofInv
<1>0. /\ phase' = "down" /\ bufw' = <<>> /\ rw' = "none" /\ snap' = <<>>
      /\ wpc' = [w \in Writer |-> "idle"]
      /\ UNCHANGED <<policy, data, issued, wid, acked, ticked, mishap>>
  BY DEF Down
<1>1. bufw' \in Seq(Unit) /\ snap' \in Seq(Id) /\ \A w \in Writer : wpc'[w] = "idle"
  BY <1>0, EmptySeqs
<1>2. AofTypeOK'
  BY <1>0, <1>1 DEF AofTypeOK
<1>3. Named' /\ Flushed' /\ Resting' /\ Exported'
  BY <1>0, <1>1 DEF Named, Flushed, Resting, Exported
<1>4. TheLog' = file'
  <2>1. file' \o <<>> = file'
    BY SeqFacts
  <2> QED BY <1>0, <2>1 DEF TheLog
<1>5. Ordered'
  <2>1. ~Live' /\ Alone'
    BY <1>0, <1>1 DEF Live, Alone
  <2> HIDE DEF Live, Alone, InStep
  <2> QED BY <1>0, <1>4, <2>1 DEF Ordered
<1>6. Kept'
  <2> SUFFICES ASSUME mishap \subseteq {"crossed"} PROVE Complete' /\ OnDisk'
    BY <1>0 DEF Kept
  <2>1. OnDisk
    BY DEF Kept
  <2>2. Complete'
    BY <1>0 DEF Complete
  <2>3. policy # "no" => ticked' \subseteq ElementsOf(Durable')
    BY <1>0, <2>1 DEF OnDisk
  <2>4. \A w \in Writer : wpc'[w] = "reply" => wpc[w] = "reply" /\ wid'[w] = wid[w]
    BY <1>1
  <2>5. OnDisk'
    BY <1>0, <2>1, <2>3, <2>4, OnDiskKept
  <2> QED BY <2>2, <2>5
<1> QED BY <1>2, <1>3, <1>5, <1>6

\* The process ends and the file stays as it is.
LEMMA StopInv == ASSUME AofInv, phase # "down", Down, UNCHANGED <<file, synced>> PROVE AofInv'
<1> USE DEF AofInv
<1>1. /\ file \in Seq(Unit) /\ synced \in 0 .. Len(file) /\ data \in Seq(Id)
      /\ Replay(TheLog) \in Seq(Id) /\ Prefix(Replay(file), Replay(TheLog)) /\ Replay(file) \in Seq(Id)
  BY AofTypes, ReplayType DEF AofTypeOK
<1>2. mishap \subseteq {"torn", "late", "failed"} => Prefix(Replay(file'), data)
  <2> SUFFICES ASSUME mishap \subseteq {"torn", "late", "failed"} PROVE Prefix(Replay(file), data)
    OBVIOUS
  <2>1. Prefix(Replay(TheLog), data)
    BY DEF Ordered
  <2> QED BY <1>1, <2>1, PrefixTrans
<1>3. Durable' = Durable
  BY DEF Durable
<1> QED BY <1>1, <1>2, <1>3, DownInv

\* The process is killed.
LEMMA KillInv == ASSUME AofInv, Kill PROVE AofInv'
<1>0. phase # "down" /\ Down /\ UNCHANGED <<file, synced>>
  BY DEF Kill
<1> QED BY <1>0, StopInv

\* main returns.
LEMMA ExitInv == ASSUME AofInv, Exit PROVE AofInv'
<1>0. phase # "down" /\ Down /\ UNCHANGED <<file, synced>>
  BY DEF Exit
<1> QED BY <1>0, StopInv

\* Power is lost, and with it any part of the unsynced tail.
LEMMA PowerLossInv == ASSUME AofInv, PowerLoss PROVE AofInv'
<1> USE DEF AofInv
<1>0. phase = "up" /\ Down
  BY DEF PowerLoss
<1>1. PICK tail \in {file} \cup {file \o bufw \o Record(<<id>>) : id \in Unlogged} :
        \E n \in synced .. Len(tail) : file' = SubSeq(tail, 1, n) /\ synced' = n
  BY DEF PowerLoss
<1>2. PICK n \in synced .. Len(tail) : file' = SubSeq(tail, 1, n) /\ synced' = n
  BY <1>1
<1>3. /\ file \in Seq(Unit) /\ bufw \in Seq(Unit) /\ synced \in 0 .. Len(file) /\ data \in Seq(Id)
      /\ TheLog \in Seq(Unit) /\ Replay(TheLog) \in Seq(Id)
      /\ Prefix(Replay(file), Replay(TheLog)) /\ Replay(file) \in Seq(Id)
  BY AofTypes, ReplayType DEF AofTypeOK
<1>4. /\ tail \in Seq(Unit) /\ SubSeq(tail, 1, synced) = SubSeq(file, 1, synced)
      /\ mishap \subseteq {"torn", "late", "failed"} => Prefix(Replay(tail), data)
  <2>1. CASE tail = file
    <3>1. ASSUME mishap \subseteq {"torn", "late", "failed"} PROVE Prefix(Replay(file), data)
      <4>1. Prefix(Replay(TheLog), data)
        BY <3>1 DEF Ordered
      <4> QED BY <1>3, <4>1, PrefixTrans
    <3> QED BY <1>3, <2>1, <3>1
  <2>2. CASE \E id \in Unlogged : tail = file \o bufw \o Record(<<id>>)
    <3>1. PICK w \in Writer : wpc[w] = "append" /\ tail = file \o bufw \o Record(<<wid[w]>>)
      BY <2>2 DEF Unlogged
    <3>2. wid[w] \in Id
      BY <3>1 DEF AofTypeOK, Named
    <3> DEFINE r == Record(<<wid[w]>>)
    <3>3. <<wid[w]>> \in Seq(Id) /\ r \in Seq(Unit) /\ r[1].part = 1
      BY <3>2, OneWrite
    <3>4. tail = TheLog \o r
      BY <3>1 DEF TheLog
    <3>5. tail \in Seq(Unit)
      BY <1>3, <3>3, <3>4, ConcatPrefix
    <3>6. SubSeq(tail, 1, synced) = SubSeq(file, 1, synced)
      <4> HIDE DEF r
      <4>1. SubSeq(TheLog, 1, synced) = SubSeq(file, 1, synced)
        BY <1>3, SeqFacts DEF TheLog
      <4>2. synced \in 0 .. Len(TheLog)
        BY <1>3, ConcatPrefix DEF TheLog
      <4>3. SubSeq(TheLog \o r, 1, synced) = SubSeq(TheLog, 1, synced)
        BY <1>3, <3>3, <4>2, SeqFacts
      <4> QED BY <3>4, <4>1, <4>3
    <3>7. ASSUME mishap \subseteq {"torn", "late", "failed"} PROVE Prefix(Replay(tail), data)
      <4>1. /\ Prefix(Replay(TheLog), data)
            /\ Intact(TheLog) => data = Append(Replay(TheLog), wid[w])
        BY <1>0, <3>1, <3>7 DEF Ordered, Live, InStep
      <4>2. CASE Intact(TheLog)
        <5>1. Replay(tail) = Replay(TheLog) \o <<wid[w]>>
          BY <1>3, <3>3, <3>4, <4>2, ReplayRecord
        <5>2. Replay(tail) = data
          BY <1>3, <3>2, <4>1, <4>2, <5>1, OneWrite
        <5> QED BY <1>3, <5>2, PrefixRefl
      <4>3. CASE ~Intact(TheLog)
        <5>1. Replay(tail) = Replay(TheLog)
          BY <1>3, <3>3, <3>4, <4>3, ReplayTorn
        <5> QED BY <4>1, <5>1
      <4> QED BY <4>2, <4>3
    <3> QED BY <3>5, <3>6, <3>7
  <2> QED BY <1>1, <2>1, <2>2
<1>5. n \in 0 .. Len(tail) /\ synced \in 0 .. n
  BY <1>3, <1>4
<1>6. /\ file' \in Seq(Unit) /\ synced' \in 0 .. Len(file') /\ synced' = Len(file')
      /\ Prefix(file', tail) /\ SubSeq(file', 1, synced) = SubSeq(file, 1, synced)
  <2>1. /\ SubSeq(tail, 1, n) \in Seq(Unit) /\ Len(SubSeq(tail, 1, n)) = n
        /\ Prefix(SubSeq(tail, 1, n), tail)
        /\ SubSeq(SubSeq(tail, 1, n), 1, synced) = SubSeq(tail, 1, synced)
    BY <1>4, <1>5, CutFacts
  <2> QED BY <1>2, <1>4, <1>5, <2>1
<1>7. mishap \subseteq {"torn", "late", "failed"} => Prefix(Replay(file'), data)
  <2> SUFFICES ASSUME mishap \subseteq {"torn", "late", "failed"} PROVE Prefix(Replay(file'), data)
    OBVIOUS
  <2>1. Prefix(Replay(file'), Replay(tail)) /\ Prefix(Replay(tail), data)
    BY <1>4, <1>6, ReplayPrefix
  <2>2. Replay(file') \in Seq(Id) /\ Replay(tail) \in Seq(Id)
    BY <1>4, <1>6, ReplayType
  <2> QED BY <1>3, <2>1, <2>2, PrefixTrans
<1>8. ElementsOf(Durable) \subseteq ElementsOf(Durable')
  <2>1. Durable' = Replay(file')
    <3>1. SubSeq(file', 1, Len(file')) = file'
      BY <1>6, SeqFacts
    <3> QED BY <1>6, <3>1 DEF Durable
  <2>2. synced \in 0 .. Len(file')
    BY <1>2, <1>5, <1>6
  <2>3. Prefix(SubSeq(file', 1, synced), file') /\ SubSeq(file', 1, synced) \in Seq(Unit)
    BY <1>6, <2>2, CutFacts
  <2>4. Prefix(Durable, Durable')
    BY <1>6, <2>1, <2>3, ReplayPrefix DEF Durable
  <2>5. Durable \in Seq(Id) /\ Durable' \in Seq(Id)
    BY <1>6, <2>1, AofTypes, ReplayType
  <2> QED BY <2>4, <2>5, ElementsFacts
<1> QED BY <1>0, <1>6, <1>7, <1>8, DownInv

\* EnablePersistence replays the file.
LEMMA ReplaysFacts ==
    ASSUME NEW f \in Seq(Unit), NEW s \in Replays(f)
    PROVE  s \in Seq(Id) /\ (~Spliced(f) => s = Replay(f)) /\ (Intact(f) => ~Spliced(f))
<1>1. Replay(f) \in Seq(Id) /\ <<Stray>> \in Seq(Id)
  BY ReplayType DEF Id
<1>2. Intact(f) => ~Spliced(f)
  <2>1. Len(f) \in Nat
    OBVIOUS
  <2> QED BY <2>1 DEF Intact, Spliced
<1>3. CASE s = Replay(f)
  BY <1>1, <1>2, <1>3
<1>4. CASE s # Replay(f)
  <2>1. Spliced(f)
    BY <1>4 DEF Replays
  <2>2. PICK n \in 2 * Records(f) + 2 .. Len(f) + 1 :
               s = Replay(f) \o <<Stray>> \o Replay(SubSeq(f, n, Len(f)))
    BY <1>4, <2>1 DEF Replays
  <2>3. Records(f) \in Nat
    BY RecordsDef
  <2>4. SubSeq(f, n, Len(f)) \in Seq(Unit)
    <3>1. n \in 1 .. Len(f) + 1
      BY <2>3
    <3>2. \A i \in n .. Len(f) : f[i] \in Unit
      BY <3>1
    <3> HIDE DEF Unit
    <3> QED BY <3>1, <3>2
  <2>5. Replay(SubSeq(f, n, Len(f))) \in Seq(Id)
    BY <2>4, ReplayType
  <2>6. \A a, b, c \in Seq(Id) : a \o b \o c \in Seq(Id)
    OBVIOUS
  <2>7. s \in Seq(Id)
    BY <1>1, <2>2, <2>5, <2>6, Zenon
  <2> QED BY <1>2, <2>1, <2>7
<1> QED BY <1>3, <1>4

\* A start after a crash or an exit.
LEMMA RestartInv == ASSUME AofInv, Restart PROVE AofInv'
<1> USE DEF AofInv
<1>0. /\ phase = "down" /\ data' \in Replays(file) /\ phase' = "up"
      /\ mishap' = mishap \cup Defects(file)
      /\ UNCHANGED <<policy, issued, wpc, wid, acked, ticked, bufw, file, synced, rw, snap>>
  BY DEF Restart, writers, log, rewrite
<1>d. /\ mishap \subseteq mishap'
      /\ ("torn" \notin mishap' => Intact(file)) /\ ("spliced" \notin mishap' => ~Spliced(file))
  BY <1>0 DEF Defects, Intact
<1>1. bufw = <<>> /\ rw = "none" /\ (\A w \in Writer : wpc[w] = "idle") /\ file \in Seq(Unit)
  BY <1>0 DEF Resting, AofTypeOK
<1>2. TheLog = file /\ TheLog' = file /\ Durable' = Durable
  <2>1. file \o <<>> = file
    BY <1>1, SeqFacts
  <2> QED BY <1>0, <1>1, <2>1 DEF TheLog, Durable
<1>3. /\ data' \in Seq(Id) /\ Prefix(data', data')
      /\ "spliced" \notin mishap' => data' = Replay(file)
  BY <1>0, <1>1, <1>d, ReplaysFacts, PrefixRefl
<1>4. AofTypeOK'
  <2>1. mishap' \subseteq {"torn", "spliced", "raced", "late", "failed", "crossed", "partial"}
    BY <1>0 DEF AofTypeOK, Defects
  <2> QED BY <1>0, <1>3, <2>1 DEF AofTypeOK
<1>5. Named' /\ Flushed' /\ Resting' /\ Exported'
  BY <1>0, <1>1 DEF Named, Flushed, Resting, Exported
<1>6. Ordered'
  <2> SUFFICES ASSUME mishap' \subseteq {"torn", "late", "failed"}
               PROVE  Alone' /\ Prefix(Replay(TheLog), data)' /\ InStep'
    BY DEF Ordered
  <2>1. data' = Replay(TheLog')
    BY <1>2, <1>3
  <2> QED BY <1>0, <1>1, <1>3, <2>1 DEF Alone, InStep
<1>7. Kept'
  <2> SUFFICES ASSUME mishap' \subseteq {"crossed"} PROVE Complete' /\ OnDisk'
    BY DEF Kept
  <2>1. Intact(file) /\ OnDisk /\ data' = Replay(file)
    BY <1>3, <1>d DEF Kept
  <2>2. Unlogged' = {}
    BY <1>0, <1>1 DEF Unlogged
  <2>3. Complete'
    BY <1>0, <1>2, <2>1, <2>2 DEF Complete
  <2>4. OnDisk'
    BY <1>0, <1>2, <2>1 DEF OnDisk
  <2> QED BY <2>3, <2>4
<1> QED BY <1>4, <1>5, <1>6, <1>7

----------------------------------------------------------------------------
(* Theorems *)

\* The invariant holds of an empty server.
LEMMA AofInvInit == AofInit => AofInv
<1> SUFFICES ASSUME AofInit PROVE AofInv
  OBVIOUS
<1> USE DEF AofInit
<1>1. data \in Seq(Id) /\ snap \in Seq(Id) /\ bufw \in Seq(Unit) /\ file \in Seq(Unit)
  BY EmptySeqs
<1>2. AofTypeOK
  <2>1. Len(file) = 0 /\ synced \in 0 .. Len(file) /\ issued \in 0 .. MaxWrite
    BY AofBounds
  <2>2. wid \in [Writer -> Id]
    BY DEF Id, Stray
  <2> QED BY <1>1, <2>1, <2>2 DEF AofTypeOK
<1>3. Named /\ Flushed /\ Resting /\ Exported
  BY DEF Named, Flushed, Resting, Exported
<1>4. TheLog = <<>> /\ Durable = <<>> /\ Replay(TheLog) = <<>> /\ Intact(TheLog)
  <2>1. <<>> \o <<>> = <<>> /\ SubSeq(<<>>, 1, 0) = <<>>
    OBVIOUS
  <2>2. TheLog = <<>> /\ SubSeq(file, 1, synced) = <<>>
    BY <2>1, Zenon DEF TheLog
  <2> QED BY <2>2, ReplayNone, Zenon DEF Durable
<1>5. Prefix(data, data) /\ Unlogged = {} /\ \A w \in Writer : wpc[w] = "idle"
  BY <1>1, PrefixRefl DEF Unlogged
<1>6. Ordered
  <2>1. data = Replay(TheLog)
    BY <1>4
  <2> QED BY <1>5, <2>1 DEF Ordered, Alone, InStep
<1>7. Kept
  BY <1>4, <1>5 DEF Kept, Complete, OnDisk
<1> QED BY <1>2, <1>3, <1>6, <1>7 DEF AofInv

\* Every step keeps it.
LEMMA AofInvStep == AofInv /\ [AofNext]_aofVars => AofInv'
<1> SUFFICES ASSUME AofInv, [AofNext]_aofVars PROVE AofInv'
  OBVIOUS
<1>1. ASSUME NEW w \in Writer, Mutate(w) \/ AppendRecord(w) \/ AppendFails(w) \/ Reply(w)
      PROVE  AofInv'
  BY <1>1, MutateInv, AppendRecordInv, AppendFailsInv, ReplyInv
<1>2. CASE Spill \/ Tick \/ FlushFails
  BY <1>2, SpillInv, TickInv, FlushFailsInv
<1>3. CASE RewriteStart \/ Export \/ Install \/ TempFails \/ RenameFails \/ ReopenFails \/ InstallFails
  BY <1>3, RewriteStartInv, ExportInv, InstallInv, RenameFailsInv, ReopenFailsInv, InstallFailsInv
<1>4. CASE Kill \/ PowerLoss \/ Close \/ Exit \/ Restart
  BY <1>4, KillInv, PowerLossInv, CloseInv, ExitInv, RestartInv
<1>5. CASE UNCHANGED aofVars
  <2>1. UNCHANGED <<policy, data, issued, wpc, wid, acked, ticked, bufw, file, synced, phase,
                    rw, snap, mishap>>
    BY <1>5 DEF aofVars, writers, log, rewrite
  <2>2. AofTypeOK' /\ Named' /\ Flushed' /\ Resting' /\ Exported'
    BY <2>1 DEF AofInv, AofTypeOK, Named, Flushed, Resting, Exported
  <2>3. TheLog' = TheLog /\ Durable' = Durable /\ Live' = Live
    BY <2>1 DEF TheLog, Durable, Live
  <2>4. Ordered'
    BY <2>1, <2>3, OrderedKept DEF AofInv
  <2>5. Kept'
    BY <2>1, <2>3 DEF AofInv, Kept, Complete, OnDisk, Unlogged
  <2> QED BY <2>2, <2>4, <2>5 DEF AofInv
<1> QED BY <1>1, <1>2, <1>3, <1>4, <1>5 DEF AofNext

\* The inductive invariant holds in every behaviour of the log.
THEOREM AofInductive == AofSpec => []AofInv
BY AofInvInit, AofInvStep, PTL DEF AofSpec

\* It implies LostOnlyByMishap.
LEMMA AofInvLost == AofInv => LostOnlyByMishap
<1> SUFFICES ASSUME AofInv, mishap \subseteq {"crossed"}, phase = "up"
             PROVE  /\ policy = "always" => acked \subseteq ElementsOf(data)
                    /\ policy # "no" => ticked \subseteq ElementsOf(data)
  BY DEF LostOnlyByMishap, AckedSurvive, TickedSurvive
<1>1. ElementsOf(data) = ElementsOf(Replay(TheLog)) \cup Unlogged /\ OnDisk
  BY DEF AofInv, Kept, Complete
<1>2. ElementsOf(Durable) \subseteq ElementsOf(Replay(TheLog))
  BY AofTypes DEF AofInv
<1> QED BY <1>1, <1>2 DEF OnDisk

\* With appendfsync always no write whose client has the reply is lost, and
\* with always or everysec none that a completed tick saw, except after one of
\* the five mishaps, for every number of writers, writes, crashes and rewrites.
THEOREM LostCorrect == AofSpec => []LostOnlyByMishap
BY AofInductive, AofInvLost, PTL

\* It implies LogConsistent.
LEMMA AofInvTracks == AofInv => LogConsistent
<1> SUFFICES ASSUME AofInv, mishap = {}, phase # "down", Unlogged = {}
             PROVE  Replay(file \o bufw) = data
  BY DEF LogConsistent, LogTracksData, AofInv
<1>1. Intact(TheLog) /\ Live
  BY DEF AofInv, Kept, Complete, Live, AofTypeOK
<1>2. InStep
  BY <1>1 DEF AofInv, Ordered
<1>3. \A w \in Writer : wpc[w] # "append"
  BY DEF Unlogged
<1> QED BY <1>2, <1>3 DEF InStep, TheLog

\* The log has its types, and file and buffer together replay to the keyspace
\* whenever no write is under way and nothing has gone wrong.
THEOREM LogCorrect == AofSpec => []LogConsistent
BY AofInductive, AofInvTracks, PTL

\* A step out of "down" is a restart, and the invariant says what the file replays to.
LEMMA AofStepRestart ==
    AofInv /\ [AofNext]_aofVars
      => [phase = "down" /\ phase' = "up" /\ mishap' \subseteq {"torn", "late", "failed"}
            => Len(data') <= Len(data) /\ \A i \in DOMAIN data' : data'[i] = data[i]]_aofVars
<1> SUFFICES ASSUME AofInv, AofNext, phase = "down", phase' = "up",
                    mishap' \subseteq {"torn", "late", "failed"}
             PROVE  Len(data') <= Len(data) /\ \A i \in DOMAIN data' : data'[i] = data[i]
  BY DEF aofVars
<1>1. Restart
  <2>1. ASSUME NEW w \in Writer, Mutate(w) \/ AppendRecord(w) \/ AppendFails(w) \/ Reply(w)
        PROVE  FALSE
    BY <2>1 DEF Mutate, AppendRecord, AppendFails, Reply
  <2>2. CASE Spill \/ Tick \/ FlushFails
    BY <2>2 DEF Spill, Tick, FlushFails
  <2>3. CASE RewriteStart \/ Export \/ Install \/ TempFails \/ RenameFails \/ ReopenFails \/ InstallFails
    BY <2>3 DEF RewriteStart, Export, Install, TempFails, RenameFails, ReopenFails, InstallFails
  <2>4. CASE Kill \/ PowerLoss \/ Close \/ Exit
    BY <2>4 DEF Kill, PowerLoss, Close, Exit
  <2> QED BY <2>1, <2>2, <2>3, <2>4 DEF AofNext
<1>2. file \in Seq(Unit) /\ bufw = <<>> /\ data' = Replay(file) /\ mishap \subseteq mishap'
  <2>1. file \in Seq(Unit) /\ bufw = <<>>
    BY <1>1 DEF Restart, AofInv, Resting, AofTypeOK
  <2>2. data' \in Replays(file) /\ mishap' = mishap \cup Defects(file)
    BY <1>1 DEF Restart
  <2>3. ~Spliced(file)
    <3>1. "spliced" \notin mishap'
      OBVIOUS
    <3> QED BY <2>2, <3>1 DEF Defects
  <2> QED BY <2>1, <2>2, <2>3, ReplaysFacts
<1>3. TheLog = file
  BY <1>2, SeqFacts DEF TheLog
<1>4. Prefix(data', data)
  BY <1>2, <1>3 DEF AofInv, Ordered
<1>5. data' \in Seq(Id)
  BY <1>2, ReplayType
<1> QED BY <1>4, <1>5 DEF Prefix

\* A restart brings back a prefix of the writes, wherever the file was cut, as
\* long as no restart reads across a cut that an earlier one appended behind.
THEOREM RestartCorrect == AofSpec => RestartIsPrefix
<1>1. AofInv /\ [AofNext]_aofVars
        => [phase = "down" /\ phase' = "up" /\ mishap' \subseteq {"torn", "late", "failed"}
              => Len(data') <= Len(data) /\ \A i \in DOMAIN data' : data'[i] = data[i]]_aofVars
  BY AofStepRestart
<1> QED BY <1>1, AofInductive, PTL DEF AofSpec, RestartIsPrefix

=============================================================================
