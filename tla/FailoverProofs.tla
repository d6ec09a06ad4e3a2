--------------------------- MODULE FailoverProofs ---------------------------
(***************************************************************************)
(* For any nodes, backlog window and bounds: Failover keeps its types, a   *)
(* replication id names one history, and connected replicas are in step.   *)
(*                                                                         *)
(* Neither property is inductive by itself.  A partial resync grants the   *)
(* previous id too, an id survives the demotion of its owner, and a node   *)
(* keeps its replicas while it follows somebody else: the invariant speaks *)
(* of whoever minted an id, master or not, of both its ids, and of every   *)
(* open connection.                                                        *)
(***************************************************************************)
EXTENDS Failover, SequenceTheorems, TLAPS

-----------------------------------------------------------------------------
(* Sequences *)

\* A frame added to the stream is added to what is still to be sent.
LEMMA TailOfAppend ==
    ASSUME NEW s \in Seq(Nat), NEW e \in Nat, NEW k \in Nat, k <= Len(s)
    PROVE  SubSeq(Append(s, e), k + 1, Len(Append(s, e))) = Append(SubSeq(s, k + 1, Len(s)), e)
<1> DEFINE t == SubSeq(s, k + 1, Len(s))
           u == SubSeq(Append(s, e), k + 1, Len(s) + 1)
<1>1. /\ Append(s, e) \in Seq(Nat) /\ Len(Append(s, e)) = Len(s) + 1
      /\ \A i \in 1 .. Len(s) + 1 : Append(s, e)[i] = IF i = Len(s) + 1 THEN e ELSE s[i]
  OBVIOUS
<1>2. /\ t \in Seq(Nat) /\ Len(t) = Len(s) - k
      /\ \A i \in 1 .. Len(s) - k : t[i] = s[k + i]
  OBVIOUS
<1>3. /\ u \in Seq(Nat) /\ Len(u) = Len(s) + 1 - k
      /\ \A i \in 1 .. Len(s) + 1 - k : u[i] = Append(s, e)[k + i]
  BY <1>1
<1>4. /\ Append(t, e) \in Seq(Nat) /\ Len(Append(t, e)) = Len(s) - k + 1
      /\ \A i \in 1 .. Len(s) - k + 1 : Append(t, e)[i] = IF i = Len(s) - k + 1 THEN e ELSE t[i]
  BY <1>2
<1> HIDE DEF t, u
<1>5. \A i \in 1 .. Len(u) : u[i] = Append(t, e)[i]
  <2> SUFFICES ASSUME NEW i \in 1 .. Len(s) + 1 - k PROVE u[i] = Append(t, e)[i]
    BY <1>3
  <2>1. CASE i = Len(s) + 1 - k
    <3>1. k + i = Len(s) + 1 /\ k + i \in 1 .. Len(s) + 1
      BY <2>1
    <3> QED BY <2>1, <3>1, <1>1, <1>3, <1>4
  <2>2. CASE i # Len(s) + 1 - k
    <3>1. i \in 1 .. Len(s) - k /\ k + i \in 1 .. Len(s) + 1 /\ k + i # Len(s) + 1
      BY <2>2
    <3> QED BY <2>2, <3>1, <1>1, <1>2, <1>3, <1>4
  <2> QED BY <2>1, <2>2
<1>6. u = Append(t, e)
  BY <1>3, <1>4, <1>5, SeqEqual
<1> QED BY <1>1, <1>6 DEF t, u

\* So a node that lacks a tail of the stream lacks that tail and the frame.
LEMMA AppendBoth ==
    ASSUME NEW d \in Seq(Nat), NEW s \in Seq(Nat), NEW e \in Nat, NEW k \in Nat, k <= Len(s)
    PROVE  d \o SubSeq(Append(s, e), k + 1, Len(Append(s, e)))
              = Append(d \o SubSeq(s, k + 1, Len(s)), e)
<1> DEFINE t == SubSeq(s, k + 1, Len(s))
<1>1. t \in Seq(Nat)
  OBVIOUS
<1>2. SubSeq(Append(s, e), k + 1, Len(Append(s, e))) = Append(t, e)
  BY TailOfAppend
<1> HIDE DEF t
<1>3. d \o Append(t, e) = Append(d \o t, e)
  BY <1>1
<1> QED BY <1>2, <1>3 DEF t

\* Applying the next frame of the stream leaves one frame less to send.
LEMMA ApplyNext ==
    ASSUME NEW d \in Seq(Nat), NEW s \in Seq(Nat), NEW k \in Nat, k < Len(s)
    PROVE  Append(d, s[k + 1]) \o SubSeq(s, k + 2, Len(s)) = d \o SubSeq(s, k + 1, Len(s))
<1> DEFINE e == s[k + 1]
           u == SubSeq(s, k + 2, Len(s))
<1>1. e \in Nat /\ u \in Seq(Nat) /\ k + 1 \in 1 .. Len(s) /\ Len(s) \in (k + 1) .. Len(s)
  OBVIOUS
<1>2. (k + 1) + 1 = k + 2
  OBVIOUS
<1>3. SubSeq(s, k + 1, Len(s)) = <<e>> \o u
  BY <1>1, <1>2, SubSeqRecursiveFirst
<1> HIDE DEF e, u
<1> DEFINE v == <<e>>
<1>4. Append(d, e) = d \o v /\ v \in Seq(Nat)
  BY <1>1
<1> HIDE DEF v
<1>5. u \in Seq(Nat) /\ d \in Seq(Nat)
  BY <1>1
<1>6. ASSUME NEW x \in Seq(Nat), NEW y \in Seq(Nat), NEW z \in Seq(Nat)
      PROVE  (x \o y) \o z = x \o (y \o z)
  BY ConcatAssociative, SMTT(60)
<1>7. (d \o v) \o u = d \o (v \o u)
  BY <1>4, <1>5, <1>6
<1> QED BY <1>3, <1>4, <1>7 DEF e, u, v

-----------------------------------------------------------------------------
(* Types *)

\* The parts of TypeOK: ids, sequences, the other types, and what a connection
\* goes with.
Ids ==
    /\ replid \in [Node -> Node \X Nat] /\ prev \in [Node -> Node \X Nat]
    /\ minted \in [Node -> Nat]

Seqs == data \in [Node -> Seq(Nat)] /\ stream \in [Node -> Seq(Nat)]

Plain ==
    /\ role \in [Node -> {"master", "replica"}]
    /\ follows \in [Node -> Node \cup {None}]
    /\ active \in [Node -> BOOLEAN]
    /\ masterOff \in [Node -> Nat] /\ pos \in [Node -> Nat]
    /\ link \in [Node -> Node \cup {None}]
    /\ writes \in Nat /\ changes \in Nat
    /\ mishap \subseteq {"foreign", "local", "chain", "under", "torn", "lingered"}

Linked ==
    \A n \in Node : /\ role[n] = "master" <=> follows[n] = None
                    /\ link[n] # None => link[n] = follows[n]
                    /\ link[n] # None => pos[n] <= Offset(link[n])

OldClient == [to : Node, pc : {"read", "dial", "open"}, pos : Nat, last : Nat]
Sound(o)  == o.pc = "read" => o.last <= Offset(o.to)

Olds ==
    /\ old \in [Node -> Seq(OldClient)]
    /\ \A n \in Node : \A i \in 1 .. Len(old[n]) : Sound(old[n][i])

\* Streams only grow, so what is buffered stays part of them.
LEMMA OldsStay ==
    ASSUME Olds, Seqs, old' = old, \A m \in Node : Len(stream'[m]) >= Len(stream[m]), Seqs'
    PROVE  Olds'
<1>1. ASSUME NEW n \in Node, NEW i \in 1 .. Len(old[n]) PROVE Sound(old[n][i])'
  <2>1. PICK o \in OldClient : o = old[n][i]
    BY DEF Olds
  <2>2. Sound(o) /\ o.to \in Node /\ o.last \in Nat
    BY <2>1 DEF Olds, OldClient
  <2>3. Len(stream[o.to]) \in Nat /\ Len(stream'[o.to]) \in Nat
    BY <2>2 DEF Seqs
  <2>4. o.pc = "read" => o.last <= Len(stream'[o.to])
    BY <2>2, <2>3 DEF Sound, Offset
  <2> QED BY <2>1, <2>4 DEF Sound, Offset
<1> QED BY <1>1 DEF Olds

\* Stopping the client in charge may add one to those stopped.
LEMMA StopOlds ==
    ASSUME FailoverBounds, Ids, Seqs, Plain, Linked, Olds,
           NEW n \in Node, NEW m \in Node \cup {None}, follows[n] # None => m \in Node,
           Stop(n, m), stream' = stream
    PROVE  Olds'
<1>1. CASE follows[n] = None
  <2>1. old' = old
    BY <1>1 DEF Stop
  <2> QED BY <2>1 DEF Olds, Sound, Offset
<1>2. CASE follows[n] # None
  <2>1. old' = [old EXCEPT ![n] = old[n] \o Left(n, m)]
    BY <1>2 DEF Stop
  <2>2. PICK l \in Seq(OldClient) : l = Left(n, m) /\ \A i \in 1 .. Len(l) : Sound(l[i])
    <3>1. CASE link[n] = None
      <4> DEFINE o == [to |-> m, pc |-> "dial", pos |-> 0, last |-> 0]
      <4>1. o \in OldClient /\ o.pc = "dial"
        BY <1>2 DEF OldClient
      <4>2. Left(n, m) = <<o>>
        BY <3>1 DEF Left
      <4>a. Sound(o)
        BY DEF Sound
      <4> HIDE DEF o
      <4>3. <<o>> \in Seq(OldClient) /\ \A i \in 1 .. Len(<<o>>) : <<o>>[i] = o
        BY <4>1
      <4>4. \A i \in 1 .. Len(<<o>>) : Sound(<<o>>[i])
        BY <4>a, <4>3, Zenon
      <4> QED BY <4>2, <4>3, <4>4
    <3>2. CASE link[n] # None /\ pos[n] = Offset(link[n])
      <4>1. Left(n, m) = <<>>
        BY <3>2 DEF Left
      <4>2. <<>> \in Seq(OldClient) /\ Len(<<>>) = 0
        OBVIOUS
      <4>3. \A i \in 1 .. Len(<<>>) : Sound(<<>>[i])
        BY <4>2
      <4> QED BY <4>1, <4>2, <4>3, Zenon
    <3>3. CASE link[n] # None /\ pos[n] # Offset(link[n])
      <4> DEFINE o == [to |-> link[n], pc |-> "read", pos |-> pos[n], last |-> Offset(link[n])]
      <4>1. link[n] \in Node /\ pos[n] \in Nat /\ Offset(link[n]) \in Nat
        BY <3>3 DEF Plain, Seqs, Offset
      <4>2. o \in OldClient /\ o.last = Offset(o.to)
        BY <4>1 DEF OldClient
      <4>3. Left(n, m) = <<o>> /\ Offset(o.to) \in Nat
        BY <3>3, <4>1 DEF Left
      <4>a. Sound(o)
        BY <4>2, <4>3 DEF Sound
      <4> HIDE DEF o
      <4>4. <<o>> \in Seq(OldClient) /\ \A i \in 1 .. Len(<<o>>) : <<o>>[i] = o
        BY <4>2
      <4> QED BY <4>a, <4>3, <4>4
    <3> QED BY <3>1, <3>2, <3>3
  <2>3. ASSUME NEW k \in Node PROVE old'[k] \in Seq(OldClient) /\ \A i \in 1 .. Len(old'[k]) : Sound(old'[k][i])
    <3>1. CASE k = n
      <4>1. PICK s \in Seq(OldClient) : s = old[n] /\ \A i \in 1 .. Len(s) : Sound(s[i])
        BY DEF Olds
      <4>2. old'[k] = s \o l
        BY <2>1, <2>2, <3>1, <4>1 DEF Olds
      <4>3. s \o l \in Seq(OldClient) /\ \A i \in 1 .. Len(s \o l) :
               (i <= Len(s) /\ (s \o l)[i] = s[i])
               \/ (i - Len(s) \in 1 .. Len(l) /\ (s \o l)[i] = l[i - Len(s)])
        OBVIOUS
      <4>4. \A i \in 1 .. Len(s \o l) : i <= Len(s) => i \in 1 .. Len(s)
        OBVIOUS
      <4> QED BY <2>2, <4>1, <4>2, <4>3, <4>4
    <3>2. CASE k # n
      BY <2>1, <3>2 DEF Olds
    <3> QED BY <3>1, <3>2
  <2>4. old' \in [Node -> Seq(OldClient)]
    <3>1. old' = [k \in Node |-> old'[k]]
      BY <2>1 DEF Olds
    <3> QED BY <2>3, <3>1
  <2> QED BY <2>3, <2>4 DEF Olds, Sound, Offset
<1> QED BY <1>1, <1>2

\* A stopped client that goes on.
LEMMA PutOlds ==
    ASSUME Olds, NEW n \in Node, NEW i \in 1 .. Len(old[n]), NEW o \in OldClient, Sound(o),
           old' = [old EXCEPT ![n][i] = o], stream' = stream
    PROVE  Olds'
<1>1. ASSUME NEW k \in Node PROVE old'[k] \in Seq(OldClient) /\ \A j \in 1 .. Len(old'[k]) : Sound(old'[k][j])
  <2>1. PICK s \in Seq(OldClient) : s = old[n] /\ \A j \in 1 .. Len(s) : Sound(s[j])
    BY DEF Olds
  <2>2. CASE k = n
    <3>1. old'[k] = [s EXCEPT ![i] = o]
      BY <2>1, <2>2 DEF Olds
    <3>2. /\ [s EXCEPT ![i] = o] \in Seq(OldClient) /\ Len([s EXCEPT ![i] = o]) = Len(s)
          /\ \A j \in 1 .. Len(s) : [s EXCEPT ![i] = o][j] = IF j = i THEN o ELSE s[j]
      BY <2>1
    <3> QED BY <2>1, <3>1, <3>2
  <2>3. CASE k # n
    BY <2>3 DEF Olds
  <2> QED BY <2>2, <2>3
<1>2. old' = [k \in Node |-> old'[k]]
  BY DEF Olds
<1>3. old' \in [Node -> Seq(OldClient)]
  BY <1>1, <1>2
<1> QED BY <1>1, <1>3 DEF Olds, Sound, Offset

\* Nodes that start alone, each its own master.
LEMMA InitTypeOK == Init => TypeOK
<1> SUFFICES ASSUME Init PROVE TypeOK
  OBVIOUS
<1>1. \A n \in Node : old[n] = <<>> /\ Len(old[n]) = 0
  BY DEF Init
<1>2. old \in [Node -> Seq([to : Node, pc : {"read", "dial", "open"}, pos : Nat, last : Nat])]
  BY DEF Init
<1> QED BY <1>1, <1>2, FailoverBounds DEF Init, TypeOK, Offset

\* No write, role change, handshake, delivery or lost connection leaves the types.
LEMMA StepTypeOK == TypeOK /\ [Next]_vars => TypeOK'
<1> SUFFICES ASSUME TypeOK, [Next]_vars PROVE TypeOK'
  OBVIOUS
<1> USE FailoverBounds
<1>0. TypeOK <=> (Ids /\ Seqs /\ Plain /\ Linked /\ Olds)
  BY DEF TypeOK, Ids, Seqs, Plain, Linked, Olds, OldClient, Sound
<1>a. Ids /\ Seqs /\ Plain /\ Linked /\ Olds
  BY <1>0
<1>b. \A m \in Node : Offset(m) \in Nat
  BY <1>a DEF Seqs, Offset
<1>c. Ids' /\ Seqs' /\ Plain' /\ Linked' /\ Olds' => TypeOK'
  BY DEF TypeOK, Ids, Seqs, Plain, Linked, Olds, OldClient, Sound
<1>1. ASSUME NEW n \in Node, Write(n) PROVE TypeOK'
  <2>1. Ids' /\ Plain' /\ writes' \in Nat
    BY <1>a, <1>1 DEF Write, Ids, Plain, ids, conns
  <2>2. Seqs' /\ \A m \in Node : Len(stream'[m]) >= Len(stream[m])
    BY <1>a, <1>1, <2>1 DEF Write, Seqs
  <2>3. Linked'
    BY <1>a, <1>b, <1>1, <2>2 DEF Write, Plain, Linked, conns, Offset
  <2>4. Olds'
    BY <1>a, <1>1, <2>2, OldsStay DEF Write
  <2> QED BY <1>c, <2>1, <2>2, <2>3, <2>4
<1>2. ASSUME NEW n \in Node, Promote(n) PROVE TypeOK'
  <2>1. Ids'
    BY <1>a, <1>2 DEF Promote, Mint, Ids
  <2>2. Seqs'
    BY <1>a, <1>2 DEF Promote, streams, Seqs
  <2>3. Plain'
    BY <1>a, <1>2 DEF Promote, Change, Stop, streams, Plain
  <2>4. Linked'
    BY <1>a, <1>b, <1>2 DEF Promote, Stop, streams, Plain, Linked, Offset
  <2>5. Olds'
    <3>1. Stop(n, follows[n]) /\ stream' = stream
      BY <1>2 DEF Promote, streams
    <3>2. follows[n] \in Node \cup {None}
      BY <1>a DEF Plain
    <3> QED BY <1>a, <3>1, <3>2, StopOlds
  <2> QED BY <1>c, <2>1, <2>2, <2>3, <2>4, <2>5
<1>3. ASSUME NEW n \in Node, NEW m \in Node, Follow(n, m) PROVE TypeOK'
  <2>1. Ids'
    BY <1>a, <1>3 DEF Follow, ids, Ids
  <2>2. Seqs'
    BY <1>a, <1>3 DEF Follow, streams, Seqs
  <2>3. Plain'
    <3>1. link' = [link EXCEPT ![n] = None]
      BY <1>3 DEF Follow, Stop
    <3>2. /\ role' \in [Node -> {"master", "replica"}] /\ follows' \in [Node -> Node \cup {None}]
          /\ link' \in [Node -> Node \cup {None}] /\ changes' \in Nat
      BY <1>a, <1>3, <3>1 DEF Follow, Change, Plain
    <3> QED BY <1>a, <1>3, <3>2 DEF Follow, streams, Plain
  <2>4. Linked'
    BY <1>a, <1>b, <1>3 DEF Follow, Stop, streams, Plain, Linked, Offset
  <2>5. Olds'
    <3>1. (Stop(n, follows[n]) \/ Stop(n, m)) /\ stream' = stream
      BY <1>3 DEF Follow, streams
    <3>2. follows[n] \in Node \cup {None}
      BY <1>a DEF Plain
    <3> QED BY <1>a, <3>1, <3>2, StopOlds
  <2> QED BY <1>c, <2>1, <2>2, <2>3, <2>4, <2>5
<1>4. ASSUME NEW n \in Node, Rotate(n) PROVE TypeOK'
  <2>1. Ids'
    BY <1>a, <1>4 DEF Rotate, Mint, Ids
  <2>2. Seqs'
    BY <1>a, <1>4 DEF Rotate, streams, Seqs
  <2>3. Plain'
    BY <1>a, <1>4 DEF Rotate, Change, streams, conns, Plain
  <2>4. Linked'
    BY <1>a, <1>b, <1>4 DEF Rotate, streams, conns, Plain, Linked, Offset
  <2>5. Olds'
    BY <1>a, <1>4 DEF Rotate, streams, Olds, Sound, Offset
  <2> QED BY <1>c, <2>1, <2>2, <2>3, <2>4, <2>5
<1>5. ASSUME NEW n \in Node, NEW m \in Node, Continue(n, m) PROVE TypeOK'
  <2>1. Ids'
    BY <1>a, <1>5 DEF Continue, ids, Ids
  <2>2. Seqs'
    BY <1>a, <1>5 DEF Continue, Seqs
  <2>3. Plain'
    BY <1>a, <1>5 DEF Continue, Taken, Plain
  <2>4. Linked'
    BY <1>a, <1>b, <1>5 DEF Continue, Partial, Contains, Plain, Linked, Offset
  <2>5. Olds'
    BY <1>a, <1>5 DEF Continue, streams, Olds, Sound, Offset
  <2> QED BY <1>c, <2>1, <2>2, <2>3, <2>4, <2>5
<1>6. ASSUME NEW n \in Node, NEW m \in Node, FullResync(n, m) PROVE TypeOK'
  <2>1. Ids'
    BY <1>a, <1>6 DEF FullResync, TakeOver, Ids
  <2>2. Seqs'
    BY <1>a, <1>6 DEF FullResync, TakeOver, Seqs
  <2>3. Plain'
    BY <1>a, <1>6, <1>b DEF FullResync, TakeOver, Taken, Plain
  <2>4. Linked'
    BY <1>a, <1>b, <1>6 DEF FullResync, TakeOver, Plain, Linked, Offset
  <2>5. Olds'
    BY <1>a, <1>6 DEF FullResync, streams, Olds, Sound, Offset
  <2> QED BY <1>c, <2>1, <2>2, <2>3, <2>4, <2>5
<1>7. ASSUME NEW n \in Node, Deliver(n) PROVE TypeOK'
  <2>1. Ids'
    BY <1>a, <1>7 DEF Deliver, ids, Ids
  <2>2. Seqs'
    <3>1. link[n] \in Node /\ pos[n] \in Nat /\ pos[n] < Len(stream[link[n]])
      BY <1>a, <1>7 DEF Deliver, Offset, Plain
    <3>2. PICK f \in Seq(Nat) : f = stream[link[n]]
      BY <1>a, <3>1 DEF Seqs
    <3>3. PICK v \in Nat : v = f[pos[n] + 1]
      BY <3>1, <3>2
    <3>4. data' = [data EXCEPT ![n] = Append(data[n], v)] /\ stream' = stream
      BY <1>a, <1>7, <3>2, <3>3 DEF Deliver, streams, Seqs
    <3>5. Append(data[n], v) \in Seq(Nat)
      BY <1>a DEF Seqs
    <3> QED BY <1>a, <3>4, <3>5 DEF Seqs
  <2>3. Plain'
    BY <1>a, <1>7 DEF Deliver, streams, Plain
  <2>4. Linked'
    BY <1>a, <1>b, <1>7 DEF Deliver, streams, Plain, Linked, Offset
  <2>5. Olds'
    BY <1>a, <1>7 DEF Deliver, streams, Olds, Sound, Offset
  <2> QED BY <1>c, <2>1, <2>2, <2>3, <2>4, <2>5
<1>8. ASSUME NEW n \in Node, Break(n) PROVE TypeOK'
  <2>1. Ids'
    BY <1>a, <1>8 DEF Break, ids, Ids
  <2>2. Seqs'
    BY <1>a, <1>8 DEF Break, streams, Seqs
  <2>3. Plain'
    BY <1>a, <1>8 DEF Break, Change, streams, Plain
  <2>4. Linked'
    BY <1>a, <1>b, <1>8 DEF Break, streams, Plain, Linked, Offset
  <2>5. Olds'
    BY <1>a, <1>8 DEF Break, streams, Olds, Sound, Offset
  <2> QED BY <1>c, <2>1, <2>2, <2>3, <2>4, <2>5
<1>9. ASSUME NEW n \in Node, NEW m \in Node, Tear(n, m) PROVE TypeOK'
  <2>1. Ids'
    BY <1>a, <1>9 DEF Tear, TakeOver, Ids
  <2>2. Seqs'
    BY <1>a, <1>9 DEF Tear, TakeOver, Seqs
  <2>3. Plain'
    BY <1>a, <1>9, <1>b DEF Tear, TakeOver, Change, conns, Plain
  <2>4. Linked'
    BY <1>a, <1>b, <1>9 DEF Tear, TakeOver, conns, Plain, Linked, Offset
  <2>5. Olds'
    BY <1>a, <1>9 DEF Tear, Olds, Sound, Offset
  <2> QED BY <1>c, <2>1, <2>2, <2>3, <2>4, <2>5
<1>10. ASSUME NEW n \in Node, NEW i \in 1 .. Len(old[n]), OldDeliver(n, i) PROVE TypeOK'
  <2>0. PICK o \in OldClient : o = old[n][i] /\ Sound(o)
    BY <1>a DEF Olds
  <2>a. /\ o.to \in Node /\ o.pos \in Nat /\ o.last \in Nat /\ o.pos < Len(stream[o.to])
    BY <1>b, <1>10, <2>0 DEF OldDeliver, OldClient, Sound, Offset
  <2>b. /\ Change /\ Lingers
        /\ UNCHANGED <<role, follows, replid, prev, minted, stream, active, link, pos, writes>>
        /\ masterOff' = [masterOff EXCEPT ![n] = @ + 1]
        /\ data' = [data EXCEPT ![n] = Append(@, stream[o.to][o.pos + 1])]
        /\ old' = [old EXCEPT ![n][i] = [o EXCEPT !.pos = @ + 1]]
    BY <1>10, <2>0 DEF OldDeliver, ids, streams, conns
  <2>1. Ids'
    BY <1>a, <2>b DEF Ids
  <2>2. Seqs'
    <3>2. PICK f \in Seq(Nat) : f = stream[o.to]
      BY <1>a, <2>a DEF Seqs
    <3>3. PICK v \in Nat : v = f[o.pos + 1]
      BY <2>a, <3>2
    <3>4. data' = [data EXCEPT ![n] = Append(data[n], v)] /\ stream' = stream
      BY <1>a, <2>b, <3>2, <3>3 DEF Seqs
    <3>5. Append(data[n], v) \in Seq(Nat)
      BY <1>a DEF Seqs
    <3> QED BY <1>a, <3>4, <3>5 DEF Seqs
  <2>3. Plain'
    BY <1>a, <2>b DEF Change, Lingers, Plain
  <2>4. Linked'
    BY <1>a, <2>b DEF Linked, Offset
  <2>5. Olds'
    <3> DEFINE q == [o EXCEPT !.pos = @ + 1]
    <3>1. q \in OldClient /\ q.pc = o.pc /\ q.last = o.last /\ q.to = o.to
      BY <2>a DEF OldClient
    <3>a. Sound(q)
      BY <2>0, <3>1 DEF Sound
    <3>2. old' = [old EXCEPT ![n][i] = q] /\ stream' = stream
      BY <2>b
    <3> HIDE DEF q
    <3> QED BY <1>a, <3>1, <3>a, <3>2, PutOlds
  <2> QED BY <1>c, <2>1, <2>2, <2>3, <2>4, <2>5
<1>11. ASSUME NEW n \in Node, NEW i \in 1 .. Len(old[n]), OldHandshake(n, i) PROVE TypeOK'
  <2>0. PICK o \in OldClient : o = old[n][i] /\ Sound(o)
    BY <1>a DEF Olds
  <2>a. /\ o.to \in Node /\ o.pos \in Nat /\ o.last \in Nat /\ Offset(o.to) \in Nat
        /\ o.pc = "dial"
    BY <1>b, <1>11, <2>0 DEF OldHandshake, OldClient
  <2>b. /\ Change /\ Lingers
        /\ UNCHANGED <<role, follows, stream, link, pos, writes>>
        /\ active' = [active EXCEPT ![o.to] = TRUE]
    BY <1>11, <2>0 DEF OldHandshake, conns
  <2>c. \/ UNCHANGED <<replid, prev, minted, data, masterOff>>
        \/ \E whole \in BOOLEAN : TakeOver(n, o.to, whole)
    BY <1>11, <2>0 DEF OldHandshake, ids
  <2>1. Ids'
    <3>1. replid[o.to] \in Node \X Nat /\ replid[n] \in Node \X Nat
      BY <1>a, <2>a DEF Ids
    <3>2. ASSUME NEW w \in BOOLEAN, TakeOver(n, o.to, w) PROVE Ids'
      BY <1>a, <3>1, <3>2 DEF TakeOver, Ids
    <3> QED BY <1>a, <2>c, <3>2 DEF Ids
  <2>2. Seqs'
    BY <1>a, <2>a, <2>b, <2>c DEF TakeOver, Seqs
  <2>3. Plain'
    <3>1. masterOff' \in [Node -> Nat]
      <4>1. ASSUME NEW w \in BOOLEAN, TakeOver(n, o.to, w) PROVE masterOff' \in [Node -> Nat]
        BY <1>a, <2>a, <4>1 DEF TakeOver, Plain
      <4> QED BY <1>a, <2>c, <4>1 DEF Plain
    <3>2. active' \in [Node -> BOOLEAN]
      BY <1>a, <2>a, <2>b DEF Plain
    <3>3. changes' \in Nat
      BY <1>a, <2>b DEF Change, Plain
    <3> QED BY <1>a, <2>b, <3>1, <3>2, <3>3 DEF Lingers, Plain
  <2>4. Linked'
    BY <1>a, <2>b DEF Linked, Offset
  <2>5. Olds'
    <3>1. \/ old' = [old EXCEPT ![n][i] = [o EXCEPT !.pc = "open", !.pos = masterOff[n]]]
          \/ \E whole \in BOOLEAN :
                old' = [old EXCEPT ![n][i] = [o EXCEPT !.pc = IF whole THEN "open" ELSE "read",
                                                       !.pos = Offset(o.to), !.last = Offset(o.to)]]
      BY <1>11, <2>0 DEF OldHandshake
    <3>2. masterOff[n] \in Nat
      BY <1>a DEF Plain
    <3>3. PICK q \in OldClient : old' = [old EXCEPT ![n][i] = q] /\ Sound(q)
      <4>1. CASE old' = [old EXCEPT ![n][i] = [o EXCEPT !.pc = "open", !.pos = masterOff[n]]]
        <5> DEFINE q == [o EXCEPT !.pc = "open", !.pos = masterOff[n]]
        <5>1. q \in OldClient /\ q.pc = "open"
          BY <3>2 DEF OldClient
        <5> QED BY <4>1, <5>1 DEF Sound
      <4>2. ASSUME NEW w \in BOOLEAN,
                   old' = [old EXCEPT ![n][i] = [o EXCEPT !.pc = IF w THEN "open" ELSE "read",
                                                       !.pos = Offset(o.to), !.last = Offset(o.to)]]
            PROVE  \E q \in OldClient : old' = [old EXCEPT ![n][i] = q] /\ Sound(q)
        <5> DEFINE q == [o EXCEPT !.pc = IF w THEN "open" ELSE "read",
                                  !.pos = Offset(o.to), !.last = Offset(o.to)]
        <5>1. q \in OldClient /\ q.last = Offset(o.to) /\ q.to = o.to
          BY <2>a DEF OldClient
        <5>2. Sound(q)
          BY <2>a, <5>1 DEF Sound
        <5> QED BY <4>2, <5>1, <5>2
      <4> QED BY <3>1, <4>1, <4>2
    <3> QED BY <1>a, <2>b, <3>3, PutOlds
  <2> QED BY <1>c, <2>1, <2>2, <2>3, <2>4, <2>5
<1>12. CASE UNCHANGED vars
  BY <1>12 DEF vars, TypeOK, ids, streams, conns, Offset
<1> QED BY <1>1, <1>2, <1>3, <1>4, <1>5, <1>6, <1>7, <1>8, <1>9, <1>10, <1>11, <1>12 DEF Next, Handshake

\* Roles, ids, offsets and connections keep their types; a node is connected
\* only to the one it follows, and at an offset of that node's stream.
THEOREM TypeCorrect == Spec => []TypeOK
<1>1. Init => TypeOK
  BY InitTypeOK
<1>2. TypeOK /\ [Next]_vars => TypeOK'
  BY StepTypeOK
<1> QED BY <1>1, <1>2, PTL DEF Spec

-----------------------------------------------------------------------------
(* Ids and histories *)

\* A master's id is its own, nobody follows itself, and no id in use is newer
\* than the last its node minted.
OwnIds ==
    /\ \A n \in Node : follows[n] # n
    /\ \A n \in Node : role[n] = "master" => replid[n][1] = n
    /\ \A n \in Node : replid[n][2] <= minted[replid[n][1]]

\* An open connection is in step, to the offset the replica counts, with a
\* node that feeds its stream; unless the replica rotated its own id, it
\* carries one minted by that node.
ConnInv ==
    \A n \in Node : link[n] # None =>
        /\ active[link[n]] /\ masterOff[n] = pos[n] /\ Lacks(n, link[n], pos[n])
        /\ replid[n][1] \in {n, link[n]}

\* Who carries an id of m can rely on it: m feeds its stream; as long as m has
\* taken over no other id since, the data lacks frames of that stream only,
\* and m is not connected to anybody.
HistoryInv ==
    \A n, m \in Node : n # m /\ replid[n][1] = m =>
        /\ active[m]
        /\ replid[m][1] = m /\ replid[n] \in {replid[m], prev[m]} =>
               link[m] = None /\ Lacks(n, m, masterOff[n])

IdInv == mishap = {} => OwnIds /\ ConnInv /\ HistoryInv

\* Only the node that minted an id can carry a newer one.
LEMMA StepOwnIds == TypeOK /\ OwnIds /\ [Next]_vars /\ mishap' = {} => OwnIds'
<1> SUFFICES ASSUME TypeOK, OwnIds, [Next]_vars, mishap' = {} PROVE OwnIds'
  OBVIOUS
<1> USE FailoverBounds
<1>0. /\ role \in [Node -> {"master", "replica"}] /\ follows \in [Node -> Node \cup {None}]
      /\ replid \in [Node -> Node \X Nat] /\ minted \in [Node -> Nat]
      /\ \A n \in Node : role[n] = "master" <=> follows[n] = None
      /\ \A n \in Node : replid[n][1] \in Node /\ replid[n][2] \in Nat
  BY DEF TypeOK
<1>1. ASSUME NEW n \in Node, Write(n) PROVE OwnIds'
  BY <1>1 DEF Write, OwnIds, ids
<1>2. ASSUME NEW n \in Node, Mint(n) PROVE /\ \A k \in Node : replid'[k][2] <= minted'[replid'[k][1]]
                                          /\ \A k \in Node : replid'[k][1] = IF k = n THEN n ELSE replid[k][1]
  <2>1. /\ replid' = [replid EXCEPT ![n] = <<n, minted[n] + 1>>]
        /\ minted' = [minted EXCEPT ![n] = minted[n] + 1]
    BY <1>2 DEF Mint
  <2>2. \A k \in Node : k # n => replid'[k] = replid[k]
    BY <2>1, <1>0
  <2>3. replid'[n] = <<n, minted[n] + 1>> /\ minted'[n] = minted[n] + 1
    BY <2>1, <1>0
  <2>4. replid'[n][1] = n /\ replid'[n][2] = minted'[n]
    BY <2>3
  <2>5. \A k \in Node : minted[k] \in Nat /\ minted'[k] \in Nat /\ minted[k] <= minted'[k]
    BY <2>1, <1>0
  <2> QED BY <2>2, <2>4, <2>5, <1>0 DEF OwnIds
<1>3. ASSUME NEW n \in Node, Promote(n) PROVE OwnIds'
  BY <1>0, <1>2, <1>3 DEF Promote, OwnIds
<1>4. ASSUME NEW n \in Node, NEW m \in Node, Follow(n, m) PROVE OwnIds'
  BY <1>0, <1>4 DEF Follow, OwnIds, ids
<1>5. ASSUME NEW n \in Node, Rotate(n) PROVE OwnIds'
  BY <1>0, <1>2, <1>5 DEF Rotate, OwnIds
<1>6. ASSUME NEW n \in Node, NEW m \in Node, Continue(n, m) PROVE OwnIds'
  BY <1>6 DEF Continue, OwnIds, ids
<1>7. ASSUME NEW n \in Node, NEW m \in Node, FullResync(n, m) PROVE OwnIds'
  <2>1. \A k \in Node : replid'[k] = IF k = n THEN replid[m] ELSE replid[k]
    BY <1>0, <1>7 DEF FullResync, TakeOver
  <2>2. role[n] # "master"
    BY <1>0, <1>7 DEF FullResync
  <2> QED BY <1>0, <1>7, <2>1, <2>2 DEF FullResync, TakeOver, OwnIds
<1>8. ASSUME NEW n \in Node, Deliver(n) PROVE OwnIds'
  BY <1>8 DEF Deliver, OwnIds, ids
<1>9. ASSUME NEW n \in Node, Break(n) PROVE OwnIds'
  BY <1>9 DEF Break, OwnIds, ids
<1>10. CASE UNCHANGED vars
  BY <1>10 DEF vars, OwnIds, ids
<1>11. ASSUME NEW n \in Node, NEW m \in Node, Tear(n, m) PROVE FALSE
  BY <1>11 DEF Tear
<1>12. ASSUME NEW n \in Node, NEW i \in 1 .. Len(old[n]), OldDeliver(n, i) \/ OldHandshake(n, i) PROVE FALSE
  BY <1>12 DEF OldDeliver, OldHandshake, Lingers
<1> QED BY <1>1, <1>3, <1>4, <1>5, <1>6, <1>7, <1>8, <1>9, <1>10, <1>11, <1>12 DEF Next, Handshake

\* What Lacks says of the next state, for an offset of the next state.
LacksNext(n, m, off) ==
    /\ off <= Len(stream'[m])
    /\ data'[n] \o SubSeq(stream'[m], off + 1, Len(stream'[m])) = data'[m]

\* It keeps when neither side changes.
LEMMA LacksSame ==
    ASSUME NEW n \in Node, NEW m \in Node, NEW k \in Nat,
           Lacks(n, m, k), data'[n] = data[n], data'[m] = data[m], stream'[m] = stream[m]
    PROVE  LacksNext(n, m, k)
BY DEF Lacks, Frames, Offset, LacksNext

\* It keeps when the other side's data and stream get the same write.
LEMMA LacksWrite ==
    ASSUME TypeOK, NEW n \in Node, NEW m \in Node, NEW k \in Nat, NEW w \in Nat,
           Lacks(n, m, k), data'[n] = data[n],
           data'[m] = Append(data[m], w), stream'[m] = Append(stream[m], w)
    PROVE  LacksNext(n, m, k)
<1> DEFINE d == data[n]
           s == stream[m]
           c == data[m]
<1>1. d \in Seq(Nat) /\ s \in Seq(Nat) /\ Len(s) \in Nat
  BY DEF TypeOK
<1>2. k <= Len(s) /\ d \o SubSeq(s, k + 1, Len(s)) = c
  BY DEF Lacks, Frames, Offset
<1> HIDE DEF d, s, c
<1>3. d \o SubSeq(Append(s, w), k + 1, Len(Append(s, w))) = Append(d \o SubSeq(s, k + 1, Len(s)), w)
  BY <1>1, <1>2, AppendBoth
<1>4. d \o SubSeq(Append(s, w), k + 1, Len(Append(s, w))) = Append(c, w)
  BY <1>2, <1>3, Zenon
<1>5. k <= Len(Append(s, w))
  BY <1>1, <1>2
<1> QED BY <1>4, <1>5 DEF LacksNext, d, s, c

\* It moves on by one when the lacking side applies its next frame.
LEMMA LacksApply ==
    ASSUME TypeOK, NEW n \in Node, NEW m \in Node, NEW k \in Nat,
           Lacks(n, m, k), k < Len(stream[m]),
           data'[n] = Append(data[n], stream[m][k + 1]), data'[m] = data[m], stream'[m] = stream[m]
    PROVE  LacksNext(n, m, k + 1)
<1> DEFINE d == data[n]
           s == stream[m]
           c == data[m]
<1>1. d \in Seq(Nat) /\ s \in Seq(Nat) /\ Len(s) \in Nat /\ k < Len(s)
  BY DEF TypeOK
<1>2. d \o SubSeq(s, k + 1, Len(s)) = c
  BY DEF Lacks, Frames, Offset
<1> HIDE DEF d, s, c
<1>3. Append(d, s[k + 1]) \o SubSeq(s, k + 2, Len(s)) = d \o SubSeq(s, k + 1, Len(s))
  BY <1>1, ApplyNext
<1>4. Append(d, s[k + 1]) \o SubSeq(s, k + 2, Len(s)) = c
  BY <1>2, <1>3, Zenon
<1>5. (k + 1) + 1 = k + 2 /\ k + 1 <= Len(s)
  BY <1>1
<1> QED BY <1>4, <1>5 DEF LacksNext, d, s, c

\* Nothing lacks in a copy.
LEMMA LacksNothing ==
    ASSUME TypeOK, NEW n \in Node, NEW m \in Node,
           data'[n] = data[m], data'[m] = data[m], stream'[m] = stream[m]
    PROVE  LacksNext(n, m, Len(stream[m]))
<1>0. data[m] \in Seq(Nat) /\ stream[m] \in Seq(Nat) /\ Len(stream[m]) \in Nat
  BY DEF TypeOK
<1>1. SubSeq(stream[m], Len(stream[m]) + 1, Len(stream[m])) = <<>>
  BY <1>0, SubSeqEmpty
<1>2. data[m] \o <<>> = data[m]
  BY <1>0, ConcatEmptySeq
<1>3. data'[n] \o SubSeq(stream'[m], Len(stream[m]) + 1, Len(stream'[m])) = data'[m]
  BY <1>1, <1>2
<1>4. Len(stream[m]) <= Len(stream'[m])
  BY <1>0
<1> QED BY <1>3, <1>4 DEF LacksNext

\* ConnInv and HistoryInv of the next state, pair by pair.
ConnNext(a) ==
    link'[a] # None =>
        /\ active'[link'[a]] /\ masterOff'[a] = pos'[a] /\ LacksNext(a, link'[a], pos'[a])
        /\ replid'[a][1] \in {a, link'[a]}

HistNext(a, b) ==
    a # b /\ replid'[a][1] = b =>
        /\ active'[b]
        /\ replid'[b][1] = b /\ replid'[a] \in {replid'[b], prev'[b]} =>
               link'[b] = None /\ LacksNext(a, b, masterOff'[a])

\* They make up the two invariants.
LEMMA NextForm ==
    ASSUME \A a \in Node : ConnNext(a), \A a, b \in Node : HistNext(a, b)
    PROVE  ConnInv' /\ HistoryInv'
BY DEF ConnNext, HistNext, ConnInv, HistoryInv, LacksNext, Lacks, Frames, Offset

\* The facts of a state without mishap that the steps below use.
Good == TypeOK /\ OwnIds /\ ConnInv /\ HistoryInv

\* What TypeOK and OwnIds say of one node.
LEMMA NodeFacts ==
    ASSUME Good, NEW a \in Node
    PROVE  /\ role[a] \in {"master", "replica"} /\ follows[a] \in Node \cup {None}
           /\ role[a] = "master" <=> follows[a] = None
           /\ link[a] \in Node \cup {None} /\ (link[a] # None => link[a] = follows[a] /\ link[a] # a)
           /\ masterOff[a] \in Nat /\ pos[a] \in Nat
           /\ replid[a] \in Node \X Nat /\ replid[a][1] \in Node /\ replid[a][2] \in Nat
           /\ replid[a] = <<replid[a][1], replid[a][2]>>
           /\ minted[a] \in Nat
           /\ role[a] = "master" => replid[a][1] = a
           /\ replid[a][2] <= minted[replid[a][1]]
<1>1. /\ role[a] \in {"master", "replica"} /\ follows[a] \in Node \cup {None}
      /\ role[a] = "master" <=> follows[a] = None
      /\ link[a] \in Node \cup {None} /\ (link[a] # None => link[a] = follows[a])
      /\ masterOff[a] \in Nat /\ pos[a] \in Nat
      /\ replid[a] \in Node \X Nat /\ minted[a] \in Nat
  BY DEF Good, TypeOK
<1>2. /\ replid[a][1] \in Node /\ replid[a][2] \in Nat
      /\ replid[a] = <<replid[a][1], replid[a][2]>>
  BY <1>1
<1>3. /\ follows[a] # a
      /\ role[a] = "master" => replid[a][1] = a
      /\ replid[a][2] <= minted[replid[a][1]]
  BY DEF Good, OwnIds
<1> QED BY <1>1, <1>2, <1>3

\* A write to a master reaches its data and its stream; one to a node without
\* a stream finds nobody that carries its id.
LEMMA WriteKeeps ==
    ASSUME Good, NEW n \in Node, Write(n), mishap' = {}
    PROVE  ConnInv' /\ HistoryInv'
<1>0. /\ link' = link /\ pos' = pos /\ masterOff' = masterOff /\ active' = active
      /\ replid' = replid /\ prev' = prev
  BY DEF Write, ids, conns
<1>1. role[n] = "master" /\ replid[n][1] = n /\ link[n] = None
  <2>1. role[n] # "replica"
    BY DEF Write
  <2>2. role[n] = "master"
    BY <2>1, NodeFacts
  <2> QED BY <2>2, NodeFacts, FailoverBounds
<1>2. /\ writes' \in Nat /\ data'[n] = Append(data[n], writes')
      /\ active[n] => stream'[n] = Append(stream[n], writes')
      /\ \A a \in Node \ {n} : data'[a] = data[a] /\ stream'[a] = stream[a]
  BY <1>1 DEF Write, Good, TypeOK
<1>3. ASSUME NEW a \in Node, NEW b \in Node, a # b, a # n, b = n => active[n],
             NEW k \in Nat, Lacks(a, b, k)
      PROVE  LacksNext(a, b, k)
  <2>1. CASE b = n
    BY <1>2, <1>3, <2>1, LacksWrite DEF Good
  <2>2. CASE b # n
    BY <1>2, <1>3, <2>2, LacksSame
  <2> QED BY <2>1, <2>2
<1>4. ASSUME NEW a \in Node PROVE ConnNext(a)
  BY <1>0, <1>1, <1>3, NodeFacts DEF ConnNext, Good, ConnInv
<1>5. ASSUME NEW a \in Node, NEW b \in Node PROVE HistNext(a, b)
  BY <1>0, <1>1, <1>3, NodeFacts DEF HistNext, Good, HistoryInv
<1> QED BY <1>4, <1>5, NextForm

\* A fresh id is carried by its node alone; who carried the id before carries
\* the previous one now.
LEMMA MintFacts ==
    ASSUME Good, NEW n \in Node, Mint(n)
    PROVE  /\ \A a \in Node \ {n} : replid'[a] = replid[a] /\ prev'[a] = prev[a]
           /\ replid'[n][1] = n /\ prev'[n] = replid[n]
           /\ \A a \in Node \ {n} : replid'[a] # replid'[n]
<1>1. /\ \A a \in Node \ {n} : replid'[a] = replid[a] /\ prev'[a] = prev[a]
      /\ replid'[n] = <<n, minted[n] + 1>> /\ prev'[n] = replid[n]
  BY DEF Mint, Good, TypeOK
<1>2. replid'[n][1] = n /\ replid'[n][2] = minted[n] + 1
  BY <1>1
<1>3. ASSUME NEW a \in Node \ {n}, replid'[a] = replid'[n] PROVE FALSE
  <2>1. replid[a][1] = n /\ replid[a][2] = minted[n] + 1
    BY <1>1, <1>2, <1>3
  <2> QED BY <2>1, NodeFacts
<1> QED BY <1>1, <1>2, <1>3

\* Minting an id keeps what connections and histories rely on, wherever
\* the connections of n that stay open go.
LEMMA MintKeeps ==
    ASSUME Good, NEW n \in Node, Mint(n),
           link'[n] \in {link[n], None}, \A a \in Node \ {n} : link'[a] = link[a],
           data' = data, stream' = stream, active' = active, pos' = pos, masterOff' = masterOff
    PROVE  ConnInv' /\ HistoryInv'
<1>1. ASSUME NEW a \in Node, NEW b \in Node, NEW k \in Nat, Lacks(a, b, k)
      PROVE  LacksNext(a, b, k)
  BY <1>1, LacksSame
<1>2. ASSUME NEW a \in Node PROVE ConnNext(a)
  BY <1>1, MintFacts, NodeFacts DEF ConnNext, Good, ConnInv
<1>3. ASSUME NEW a \in Node, NEW b \in Node PROVE HistNext(a, b)
  <2> SUFFICES ASSUME a # b, replid'[a][1] = b
               PROVE  /\ active'[b]
                      /\ replid'[b][1] = b /\ replid'[a] \in {replid'[b], prev'[b]} =>
                             link'[b] = None /\ LacksNext(a, b, masterOff'[a])
    BY DEF HistNext
  <2>1. a # n /\ replid'[a] = replid[a]
    BY MintFacts
  <2>2. active'[b]
    BY <2>1 DEF Good, HistoryInv
  <2>3. CASE b = n
    <3>1. replid'[a] # replid'[b] /\ prev'[b] = replid[b]
      BY <2>1, <2>3, MintFacts
    <3>2. replid[a] = replid[b] => replid[b][1] = b /\ link[b] = None /\ Lacks(a, b, masterOff[a])
      BY <2>1 DEF Good, HistoryInv
    <3> QED BY <1>1, <2>1, <2>2, <2>3, <3>1, <3>2, NodeFacts
  <2>4. CASE b # n
    BY <1>1, <2>1, <2>2, <2>4, MintFacts, NodeFacts DEF Good, HistoryInv
  <2> QED BY <2>3, <2>4
<1> QED BY <1>2, <1>3, NextForm

\* Losing a connection, and following somebody else, keep them too.
LEMMA UnlinkKeeps ==
    ASSUME Good, NEW n \in Node,
           link'[n] = None, \A a \in Node \ {n} : link'[a] = link[a],
           replid' = replid, prev' = prev, data' = data, stream' = stream, active' = active,
           pos' = pos, masterOff' = masterOff
    PROVE  ConnInv' /\ HistoryInv'
<1>1. ASSUME NEW a \in Node, NEW b \in Node, NEW k \in Nat, Lacks(a, b, k)
      PROVE  LacksNext(a, b, k)
  BY <1>1, LacksSame
<1>2. ASSUME NEW a \in Node PROVE ConnNext(a)
  BY <1>1, NodeFacts DEF ConnNext, Good, ConnInv
<1>3. ASSUME NEW a \in Node, NEW b \in Node PROVE HistNext(a, b)
  BY <1>1, NodeFacts DEF HistNext, Good, HistoryInv
<1> QED BY <1>2, <1>3, NextForm

\* A handshake short of a mishap is with a master, by a replica that is
\* nobody's master.
LEMMA HandshakeFacts ==
    ASSUME Good, NEW n \in Node, NEW m \in Node, follows[n] = m, link[n] = None,
           NEW g \in BOOLEAN, Taken(n, m, g), mishap' = {}
    PROVE  /\ n # m /\ role[n] = "replica" /\ role[m] = "master" /\ replid[m][1] = m /\ link[m] = None
           /\ \A a \in Node : link[a] # n
           /\ g => replid[n] = replid[m] \/ replid[n][1] = m
<1>1. n # m /\ role[n] = "replica"
  BY NodeFacts, FailoverBounds DEF Good, OwnIds
<1>2. role[m] = "master" /\ ~HasReplicas(n)
  BY NodeFacts DEF Taken
<1>3. replid[m][1] = m /\ link[m] = None
  BY <1>2, NodeFacts, FailoverBounds
<1>4. g => replid[n] = replid[m] \/ replid[n][1] = m
  BY DEF Taken
<1> QED BY <1>1, <1>2, <1>3, <1>4 DEF HasReplicas

\* A partial resync is granted on an id whose history the replica shares.
LEMMA ContinueKeeps ==
    ASSUME Good, NEW n \in Node, NEW m \in Node, Continue(n, m), mishap' = {}
    PROVE  ConnInv' /\ HistoryInv'
<1>0. /\ follows[n] = m /\ link[n] = None /\ Taken(n, m, TRUE)
      /\ replid[n] \in {replid[m], prev[m]}
      /\ replid' = replid /\ prev' = prev /\ data' = data /\ stream' = stream /\ masterOff' = masterOff
      /\ \A a \in Node : active[a] => active'[a]
      /\ active'[m] /\ link'[n] = m /\ pos'[n] = masterOff[n]
      /\ \A a \in Node \ {n} : link'[a] = link[a] /\ pos'[a] = pos[a]
  BY DEF Continue, Partial, ids, Good, TypeOK
<1>1. /\ n # m /\ role[n] = "replica" /\ role[m] = "master" /\ replid[m][1] = m /\ link[m] = None
      /\ replid[n] = replid[m] \/ replid[n][1] = m
  BY <1>0, HandshakeFacts, ZenonT(60)
<1>2. replid[n][1] = m
  BY <1>1
<1>3. Lacks(n, m, masterOff[n])
  BY <1>0, <1>1, <1>2 DEF Good, HistoryInv
<1>4. ASSUME NEW a \in Node, NEW b \in Node, NEW k \in Nat, Lacks(a, b, k)
      PROVE  LacksNext(a, b, k)
  BY <1>0, <1>4, LacksSame
<1>5. ASSUME NEW a \in Node PROVE ConnNext(a)
  <2>1. CASE a = n
    BY <1>0, <1>2, <1>3, <1>4, <2>1, NodeFacts DEF ConnNext
  <2>2. CASE a # n
    BY <1>0, <1>4, <2>2, NodeFacts DEF ConnNext, Good, ConnInv
  <2> QED BY <2>1, <2>2
<1>6. ASSUME NEW a \in Node, NEW b \in Node PROVE HistNext(a, b)
  BY <1>0, <1>1, <1>2, <1>4, NodeFacts DEF HistNext, Good, HistoryInv
<1> QED BY <1>5, <1>6, NextForm

\* A full resync makes a copy, under the id of its master.
LEMMA FullResyncKeeps ==
    ASSUME Good, NEW n \in Node, NEW m \in Node, FullResync(n, m), mishap' = {}
    PROVE  ConnInv' /\ HistoryInv'
<1>0. /\ follows[n] = m /\ link[n] = None /\ Taken(n, m, FALSE)
      /\ stream' = stream
      /\ \A a \in Node : active[a] => active'[a]
      /\ active'[m] /\ link'[n] = m /\ pos'[n] = Len(stream[m]) /\ masterOff'[n] = Len(stream[m])
      /\ replid'[n] = replid[m] /\ data'[n] = data[m]
      /\ \A a \in Node \ {n} : /\ link'[a] = link[a] /\ pos'[a] = pos[a] /\ masterOff'[a] = masterOff[a]
                              /\ replid'[a] = replid[a] /\ prev'[a] = prev[a] /\ data'[a] = data[a]
  BY DEF FullResync, TakeOver, Good, TypeOK, Offset
<1>1. /\ n # m /\ role[m] = "master" /\ replid[m][1] = m /\ link[m] = None
      /\ \A a \in Node : link[a] # n
  BY <1>0, HandshakeFacts, ZenonT(60)
<1>2. LacksNext(n, m, Len(stream[m]))
  BY <1>0, <1>1, LacksNothing DEF Good
<1>3. ASSUME NEW a \in Node \ {n}, NEW b \in Node \ {n}, NEW k \in Nat, Lacks(a, b, k)
      PROVE  LacksNext(a, b, k)
  BY <1>0, <1>3, LacksSame
<1>4. ASSUME NEW a \in Node PROVE ConnNext(a)
  <2>1. CASE a = n
    BY <1>0, <1>1, <1>2, <2>1 DEF ConnNext
  <2>2. CASE a # n
    BY <1>0, <1>1, <1>3, <2>2, NodeFacts DEF ConnNext, Good, ConnInv
  <2> QED BY <2>1, <2>2
<1>5. ASSUME NEW a \in Node, NEW b \in Node PROVE HistNext(a, b)
  <2>1. CASE a = n
    BY <1>0, <1>1, <1>2, <2>1 DEF HistNext
  <2>2. CASE a # n /\ b = n
    BY <1>0, <1>1, <2>2 DEF HistNext, Good, HistoryInv
  <2>3. CASE a # n /\ b # n
    <3>1. /\ replid'[a] = replid[a] /\ masterOff'[a] = masterOff[a] /\ masterOff[a] \in Nat
          /\ replid'[b] = replid[b] /\ prev'[b] = prev[b] /\ link'[b] = link[b]
      BY <1>0, <2>3, NodeFacts
    <3>2. Lacks(a, b, masterOff[a]) => LacksNext(a, b, masterOff[a])
      BY <1>3, <2>3, <3>1
    <3> QED BY <1>0, <3>1, <3>2 DEF HistNext, Good, HistoryInv
  <2> QED BY <2>1, <2>2, <2>3
<1> QED BY <1>4, <1>5, NextForm

\* A frame brings the replica one step on, and nobody relies on its data.
LEMMA DeliverKeeps ==
    ASSUME Good, NEW n \in Node, Deliver(n), mishap' = {}
    PROVE  ConnInv' /\ HistoryInv'
<1> DEFINE m == link[n]
<1>0. /\ m \in Node /\ m # n /\ pos[n] < Len(stream[m])
      /\ active' = active /\ link' = link /\ replid' = replid /\ prev' = prev /\ stream' = stream
      /\ data'[n] = Append(data[n], stream[m][pos[n] + 1])
      /\ masterOff'[n] = masterOff[n] + 1 /\ pos'[n] = pos[n] + 1
      /\ \A a \in Node \ {n} : data'[a] = data[a] /\ masterOff'[a] = masterOff[a] /\ pos'[a] = pos[a]
  <2>1. m \in Node /\ m # n /\ pos[n] < Len(stream[m])
    BY NodeFacts DEF Deliver, Offset
  <2>2. active' = active /\ link' = link /\ replid' = replid /\ prev' = prev /\ stream' = stream
    BY DEF Deliver, ids, streams
  <2>3. /\ data \in [Node -> Seq(Nat)] /\ masterOff \in [Node -> Nat] /\ pos \in [Node -> Nat]
    BY DEF Good, TypeOK
  <2>4. /\ data' = [data EXCEPT ![n] = Append(data[n], stream[m][pos[n] + 1])]
        /\ masterOff' = [masterOff EXCEPT ![n] = masterOff[n] + 1]
        /\ pos' = [pos EXCEPT ![n] = pos[n] + 1]
    BY DEF Deliver
  <2> QED BY <2>1, <2>2, <2>3, <2>4
<1>1. \A a \in Node : link[a] # n
  BY DEF Deliver, HasReplicas
<1>2. active[m] /\ masterOff[n] = pos[n] /\ Lacks(n, m, pos[n]) /\ replid[n][1] \in {n, m}
  BY <1>0 DEF Good, ConnInv, Deliver
<1>3. LacksNext(n, m, pos[n] + 1)
  BY <1>0, <1>2, NodeFacts, LacksApply DEF Good
<1>4. ASSUME NEW a \in Node \ {n}, NEW b \in Node \ {n}, NEW k \in Nat, Lacks(a, b, k)
      PROVE  LacksNext(a, b, k)
  BY <1>0, <1>4, LacksSame
<1>5. ASSUME NEW a \in Node PROVE ConnNext(a)
  <2>1. CASE a = n
    BY <1>0, <1>2, <1>3, <2>1 DEF ConnNext
  <2>2. CASE a # n
    BY <1>0, <1>1, <1>4, <2>2, NodeFacts DEF ConnNext, Good, ConnInv
  <2> QED BY <2>1, <2>2
<1>6. ASSUME NEW a \in Node, NEW b \in Node PROVE HistNext(a, b)
  <2>1. CASE a = n
    BY <1>0, <1>2, <1>3, <2>1 DEF HistNext, Good, HistoryInv
  <2>2. CASE a # n /\ b = n
    BY <1>0, <2>2, FailoverBounds DEF HistNext, Good, HistoryInv
  <2>3. CASE a # n /\ b # n
    BY <1>0, <1>4, <2>3, NodeFacts DEF HistNext, Good, HistoryInv
  <2> QED BY <2>1, <2>2, <2>3
<1> QED BY <1>5, <1>6, NextForm

\* Nodes that start alone carry no id but their own.
LEMMA InitIdInv == Init => IdInv
<1> SUFFICES ASSUME Init PROVE IdInv
  OBVIOUS
<1>1. \A n \in Node : replid[n] = <<n, 1>> /\ minted[n] = 1 /\ link[n] = None /\ follows[n] = None
  BY DEF Init
<1>2. ASSUME NEW n \in Node PROVE replid[n][1] = n /\ replid[n][2] = 1
  <2>1. replid[n] = <<n, 1>>
    BY <1>1
  <2>2. <<n, 1>>[1] = n /\ <<n, 1>>[2] = 1
    OBVIOUS
  <2> QED BY <2>1, <2>2
<1> QED BY <1>1, <1>2, FailoverBounds DEF IdInv, OwnIds, ConnInv, HistoryInv

\* No step short of a mishap breaks the histories, and a mishap stays.
LEMMA StepIdInv == TypeOK /\ IdInv /\ [Next]_vars => IdInv'
<1> SUFFICES ASSUME TypeOK, IdInv, [Next]_vars, mishap' = {} PROVE OwnIds' /\ ConnInv' /\ HistoryInv'
  BY Zenon DEF IdInv
<1>1. mishap = {}
  <2>1. ASSUME NEW n \in Node, NEW m \in Node, Continue(n, m) \/ FullResync(n, m) \/ Tear(n, m)
        PROVE  mishap \subseteq mishap'
    BY <2>1 DEF Continue, FullResync, Tear, Taken
  <2>2. ASSUME NEW n \in Node, Write(n) \/ Promote(n) \/ Rotate(n) \/ Deliver(n) \/ Break(n)
        PROVE  mishap \subseteq mishap'
    BY <2>2 DEF Write, Promote, Rotate, Deliver, Break
  <2>3. ASSUME NEW n \in Node, NEW m \in Node, Follow(n, m) PROVE mishap \subseteq mishap'
    BY <2>3 DEF Follow
  <2>4. ASSUME NEW n \in Node, NEW i \in 1 .. Len(old[n]), OldDeliver(n, i) \/ OldHandshake(n, i)
        PROVE  mishap \subseteq mishap'
    BY <2>4 DEF OldDeliver, OldHandshake, Lingers
  <2>5. CASE UNCHANGED vars
    BY <2>5 DEF vars
  <2>6. mishap \subseteq mishap'
    BY <2>1, <2>2, <2>3, <2>4, <2>5 DEF Next, Handshake
  <2> QED BY <2>6
<1>0. OwnIds'
  BY <1>1, StepOwnIds DEF IdInv
<1>2. Good
  BY <1>1 DEF Good, IdInv
<1>3. ASSUME NEW n \in Node, Write(n) PROVE ConnInv' /\ HistoryInv'
  BY <1>2, <1>3, WriteKeeps
<1>4. ASSUME NEW n \in Node, Promote(n) PROVE ConnInv' /\ HistoryInv'
  <2>1. /\ Mint(n) /\ link'[n] = None /\ \A a \in Node \ {n} : link'[a] = link[a]
        /\ data' = data /\ stream' = stream /\ active' = active /\ pos' = pos /\ masterOff' = masterOff
    BY <1>4 DEF Promote, Stop, streams, TypeOK
  <2> QED BY <1>2, <2>1, MintKeeps
<1>5. ASSUME NEW n \in Node, NEW m \in Node, Follow(n, m) PROVE ConnInv' /\ HistoryInv'
  <2>1. /\ link'[n] = None /\ \A a \in Node \ {n} : link'[a] = link[a]
        /\ replid' = replid /\ prev' = prev
        /\ data' = data /\ stream' = stream /\ active' = active /\ pos' = pos /\ masterOff' = masterOff
    BY <1>5 DEF Follow, Stop, streams, ids, TypeOK
  <2> QED BY <1>2, <2>1, UnlinkKeeps
<1>6. ASSUME NEW n \in Node, Rotate(n) PROVE ConnInv' /\ HistoryInv'
  <2>1. /\ Mint(n) /\ \A a \in Node : link'[a] = link[a]
        /\ data' = data /\ stream' = stream /\ active' = active /\ pos' = pos /\ masterOff' = masterOff
    BY <1>6 DEF Rotate, streams, conns
  <2> QED BY <1>2, <2>1, MintKeeps
<1>7. ASSUME NEW n \in Node, NEW m \in Node, Continue(n, m) PROVE ConnInv' /\ HistoryInv'
  BY <1>2, <1>7, ContinueKeeps
<1>8. ASSUME NEW n \in Node, NEW m \in Node, FullResync(n, m) PROVE ConnInv' /\ HistoryInv'
  BY <1>2, <1>8, FullResyncKeeps
<1>9. ASSUME NEW n \in Node, Deliver(n) PROVE ConnInv' /\ HistoryInv'
  BY <1>2, <1>9, DeliverKeeps
<1>10. ASSUME NEW n \in Node, Break(n) PROVE ConnInv' /\ HistoryInv'
  <2>1. /\ link'[n] = None /\ \A a \in Node \ {n} : link'[a] = link[a]
        /\ replid' = replid /\ prev' = prev
        /\ data' = data /\ stream' = stream /\ active' = active /\ pos' = pos /\ masterOff' = masterOff
    BY <1>10 DEF Break, streams, ids, TypeOK
  <2> QED BY <1>2, <2>1, UnlinkKeeps
<1>11. CASE UNCHANGED vars
  <2>1. UNCHANGED <<replid, prev, data, stream, active, masterOff, link, pos>>
    BY <1>11 DEF vars, ids, streams, conns
  <2>3. ConnInv /\ HistoryInv
    BY <1>2 DEF Good
  <2>4. ConnInv'
    BY <2>1, <2>3 DEF ConnInv, Lacks, Frames, Offset
  <2>5. HistoryInv'
    BY <2>1, <2>3 DEF HistoryInv, Lacks, Frames, Offset
  <2> QED BY <1>0, <2>4, <2>5
<1>12. ASSUME NEW n \in Node, NEW m \in Node, Tear(n, m) PROVE FALSE
  BY <1>12 DEF Tear
<1>13. ASSUME NEW n \in Node, NEW i \in 1 .. Len(old[n]), OldDeliver(n, i) \/ OldHandshake(n, i) PROVE FALSE
  BY <1>13 DEF OldDeliver, OldHandshake, Lingers
<1>14. ConnInv' /\ HistoryInv'
  BY <1>3, <1>4, <1>5, <1>6, <1>7, <1>8, <1>9, <1>10, <1>11, <1>12, <1>13 DEF Next, Handshake
<1> QED BY <1>0, <1>14

\* A replication id names one history: whoever carries the id of a master has
\* that master's data up to its offset, after any promotions, demotions,
\* rotations and lost connections short of the named mishaps.
THEOREM IdNamesHistoryCorrect == Spec => []IdNamesHistory
<1>1. Init => TypeOK /\ IdInv
  BY InitTypeOK, InitIdInv
<1>2. TypeOK /\ IdInv /\ [Next]_vars => TypeOK' /\ IdInv'
  BY StepTypeOK, StepIdInv
<1>3. TypeOK /\ IdInv => IdNamesHistory
  BY DEF IdInv, OwnIds, HistoryInv, IdNamesHistory
<1> QED BY <1>1, <1>2, <1>3, PTL DEF Spec

\* A connected replica has its master's data up to the frames on their way,
\* also while its master is promoted anew, rotates its id or is demoted.
THEOREM AttachedInStepCorrect == Spec => []AttachedInStep
<1>1. Init => TypeOK /\ IdInv
  BY InitTypeOK, InitIdInv
<1>2. TypeOK /\ IdInv /\ [Next]_vars => TypeOK' /\ IdInv'
  BY StepTypeOK, StepIdInv
<1>3. TypeOK /\ IdInv => AttachedInStep
  BY DEF IdInv, ConnInv, AttachedInStep
<1> QED BY <1>1, <1>2, <1>3, PTL DEF Spec

=============================================================================
