-------------------------- MODULE ReplicationProofs --------------------------
(***************************************************************************)
(* For any writers, backlog capacity and bounds: Replication keeps its     *)
(* types, the notify channel strands no frame, the fan-out loses and       *)
(* repeats none, while writes do not overlap the offset, the backlog and   *)
(* the fan-out agree, and short of the named mishaps a replica that is     *)
(* connected converges and has applied what it acknowledged.               *)
(***************************************************************************)
EXTENDS Replication, SequenceTheorems, TLAPS

-----------------------------------------------------------------------------
(* Types *)

\* TypeOK by the tuples of variables that actions leave alone together.
WriterTypes ==
    /\ wpc \in [Writer -> {"idle", "gate", "append", "store", "enqueue", "notify"}]
    /\ wid \in [Writer -> Id \cup {0}] /\ wafter \in [Writer -> Nat]

ReplTypes ==
    /\ activated \in BOOLEAN /\ notify \in BOOLEAN
    /\ stream \in Seq(Id) /\ pending \in Seq(Id) /\ offset \in Nat

FanTypes ==
    /\ fpc \in {"wait", "drain", "list", "send"} /\ target \in BOOLEAN
    /\ batch \in Seq(Id) /\ fanned \in Seq(Id)

PsyncTypes ==
    /\ hpc \in {"none", "activate", "check", "offset", "slice", "snapshot", "reply", "attach"}
    /\ hbuf \in Seq(Id) /\ hoff \in Nat

LinkTypes == attached \in BOOLEAN /\ alive \in BOOLEAN /\ acked \in Nat

ReplicaTypes ==
    /\ rpc \in {"down", "psync", "sync", "stream"} /\ known \in BOOLEAN
    /\ rdata \in Seq(Id) /\ hand \in Seq(Id) /\ Len(hand) <= 1 /\ roff \in Nat

RestTypes ==
    /\ budget \in [{"write", "event"} -> Nat]
    /\ mishap \subseteq {"raced", "torn", "crossed", "getack", "refused"}

WireType == wire \in Seq(Message)

\* Writes are numbered in the order of the keyspace, and a writer inside
\* RecordWrite has one of them.
Issued ==
    /\ data \in Seq(Id) /\ Len(data) + budget["write"] = MaxWrite
    /\ \A w \in Writer : wpc[w] # "idle" => wid[w] \in 1 .. Len(data)

Types == /\ WriterTypes /\ ReplTypes /\ FanTypes /\ PsyncTypes /\ LinkTypes
         /\ ReplicaTypes /\ RestTypes /\ WireType /\ Issued

\* They make up TypeOK.
LEMMA TypesGiveTypeOK == Types => TypeOK
BY DEF Types, TypeOK, WriterTypes, ReplTypes, FanTypes, PsyncTypes, LinkTypes,
       ReplicaTypes, RestTypes, WireType, Issued

\* What is put on the wire is a sequence of messages.
LEMMA PutType ==
    ASSUME WireType, NEW ms \in Seq(Message), Put(ms)
    PROVE  WireType'
BY DEF WireType, Put

\* Frames of a sequence of writes are messages.
LEMMA FramesType ==
    ASSUME NEW s \in Seq(Id)
    PROVE  [i \in DOMAIN s |-> Frame(s[i])] \in Seq(Message)
<1>1. Len(s) \in Nat /\ DOMAIN s = 1 .. Len(s)
  OBVIOUS
<1>2. \A i \in DOMAIN s : Frame(s[i]) \in Message
  BY <1>1 DEF Frame, Message
<1>3. [i \in DOMAIN s |-> Frame(s[i])] \in [1 .. Len(s) -> Message]
  BY <1>1, <1>2
<1> QED BY <1>1, <1>3, SeqDef

\* Slice returns writes.
LEMMA SliceType ==
    ASSUME stream \in Seq(Id), NEW o \in Nat, NEW n \in Nat
    PROVE  Slice(o, n) \in Seq(Id)
<1> DEFINE e == IF o + n < Len(stream) THEN o + n ELSE Len(stream)
<1>1. Len(stream) \in Nat /\ e \in Int /\ e <= Len(stream)
  OBVIOUS
<1>2. \A i \in (o + 1) .. e : stream[i] \in Id
  BY <1>1
<1> HIDE DEF e
<1>3. SubSeq(stream, o + 1, e) \in Seq(Id)
  BY <1>1, <1>2, SubSeqProperties
<1>4. <<>> \in Seq(Id)
  OBVIOUS
<1> QED BY <1>3, <1>4 DEF Slice, e

\* The start, with nothing written and nothing connected.
LEMMA InitTypes == Init => Types
<1> SUFFICES ASSUME Init PROVE Types
  OBVIOUS
<1>0. <<>> \in Seq(Id) /\ Len(<<>>) = 0 /\ <<>> \in Seq(Message)
  OBVIOUS
<1>1. WriterTypes
  BY DEF Init, WriterTypes
<1>6. FanTypes
  BY <1>0 DEF Init, FanTypes
<1>7. PsyncTypes
  BY <1>0 DEF Init, PsyncTypes
<1>8. LinkTypes /\ WireType
  BY <1>0 DEF Init, LinkTypes, WireType
<1>2. ReplTypes
  BY <1>0 DEF Init, ReplTypes
<1>3. ReplicaTypes
  <2>1. <<>> \in Seq(Id) /\ Len(<<>>) <= 1
    OBVIOUS
  <2> QED BY <2>1 DEF Init, ReplicaTypes
<1>4. RestTypes /\ budget["write"] = MaxWrite
  <2>1. budget = [write |-> MaxWrite, event |-> MaxEvent] /\ mishap = {}
    BY DEF Init
  <2>2. MaxWrite \in Nat /\ MaxEvent \in Nat
    BY BoundAssumption
  <2>3. DOMAIN budget = {"write", "event"} /\ budget["write"] = MaxWrite /\ budget["event"] = MaxEvent
    BY <2>1
  <2>4. budget = [x \in {"write", "event"} |-> budget[x]]
    BY <2>1
  <2> QED BY <2>1, <2>2, <2>3, <2>4 DEF RestTypes
<1>5. Issued
  <2>1. data = <<>> /\ \A w \in Writer : wpc[w] = "idle"
    BY DEF Init
  <2>2. MaxWrite \in Nat
    BY BoundAssumption
  <2> QED BY <1>0, <1>4, <2>1, <2>2 DEF Issued
<1> QED BY <1>1, <1>2, <1>3, <1>4, <1>5, <1>6, <1>7, <1>8 DEF Types

\* A budget spent stays a budget.
LEMMA SpendType ==
    ASSUME RestTypes, NEW x \in {"write", "event"}, Spend(x)
    PROVE  /\ budget' \in [{"write", "event"} -> Nat]
           /\ x = "event" => budget'["write"] = budget["write"]
           /\ x = "write" => budget'["write"] = budget["write"] - 1 /\ budget["write"] > 0
BY DEF RestTypes, Spend

\* The steps of a writer.
LEMMA WriterStepTypes ==
    ASSUME Types, NEW w \in Writer, Mutate(w) \/ WriterStep(w)
    PROVE  Types'
<1> USE DEF Types
<1>1. CASE Mutate(w)
  <2>1. RestTypes' /\ budget["write"] > 0 /\ budget'["write"] = budget["write"] - 1
    BY <1>1, SpendType DEF Mutate, RestTypes
  <2>2. Len(data) \in Nat /\ budget["write"] \in Nat /\ Len(data) + 1 \in Id
    BY <2>1, BoundAssumption DEF Issued, RestTypes, Id
  <2>3. data' \in Seq(Id) /\ Len(data') = Len(data) + 1
    BY <1>1, <2>2 DEF Mutate, Issued
  <2>4. WriterTypes'
    BY <1>1, <2>2 DEF Mutate, WriterTypes
  <2>5. \A v \in Writer : wpc'[v] # "idle" => wid'[v] \in 1 .. Len(data')
    BY <1>1, <2>2, <2>3 DEF Mutate, WriterTypes, Issued
  <2>6. Issued'
    BY <2>1, <2>2, <2>3, <2>5, BoundAssumption DEF Issued
  <2> QED BY <1>1, <2>1, <2>4, <2>6 DEF Mutate, ReplTypes, FanTypes, PsyncTypes, LinkTypes,
             ReplicaTypes, WireType, repl, fan, psync, link, replica
<1>2. CASE WriterStep(w)
  <2>0. UNCHANGED <<data, wid, fan, psync, link, wire, replica, budget, mishap>>
    BY <1>2 DEF WriterStep, Gate, AppendFrame, StoreOffset, Enqueue, Notify
  <2>1. wpc[w] # "idle" /\ wid[w] \in Id /\ wid[w] \in 1 .. Len(data)
    BY <1>2 DEF WriterStep, Gate, AppendFrame, StoreOffset, Enqueue, Notify, WriterTypes, Issued, Id
  <2>2. /\ wpc' \in [Writer -> {"idle", "gate", "append", "store", "enqueue", "notify"}]
        /\ \A v \in Writer : wpc'[v] # "idle" => v = w \/ wpc[v] # "idle"
    BY <1>2 DEF WriterStep, Gate, AppendFrame, StoreOffset, Enqueue, Notify, WriterTypes
  <2>3. WriterTypes' /\ ReplTypes'
    <3>1. CASE Gate(w)
      BY <3>1, <2>2 DEF Gate, WriterTypes, ReplTypes, repl
    <3>2. CASE AppendFrame(w)
      BY <3>2, <2>1, <2>2 DEF AppendFrame, WriterTypes, ReplTypes
    <3>3. CASE StoreOffset(w)
      BY <3>3, <2>2 DEF StoreOffset, WriterTypes, ReplTypes
    <3>4. CASE Enqueue(w)
      BY <3>4, <2>1, <2>2 DEF Enqueue, WriterTypes, ReplTypes
    <3>5. CASE Notify(w)
      BY <3>5, <2>2 DEF Notify, WriterTypes, ReplTypes
    <3> QED BY <1>2, <3>1, <3>2, <3>3, <3>4, <3>5 DEF WriterStep
  <2>4. Issued'
    BY <2>0, <2>1, <2>2 DEF Issued
  <2> QED BY <2>0, <2>3, <2>4 DEF FanTypes, PsyncTypes, LinkTypes, ReplicaTypes, RestTypes,
             WireType, fan, psync, link, replica
<1> QED BY <1>1, <1>2

\* The steps of the fan-out loop.
LEMMA FanoutTypes == ASSUME Types, FanoutStep PROVE Types'
<1> USE DEF Types
<1>0. UNCHANGED <<data, writers, activated, stream, offset, psync, acked, alive, replica, budget, mishap>>
  BY DEF FanoutStep, Wake, Drain, ListReplicas, SendBatch, repl, link
<1>1. pending' \in Seq(Id) /\ notify' \in BOOLEAN
  <2>1. pending' \in {pending, <<>>} /\ notify' \in {notify, FALSE}
    BY DEF FanoutStep, Wake, Drain, ListReplicas, SendBatch, repl
  <2>2. pending \in Seq(Id) /\ <<>> \in Seq(Id)
    BY DEF ReplTypes
  <2>3. notify \in BOOLEAN
    BY DEF ReplTypes
  <2>4. pending' \in Seq(Id)
    BY <2>1, <2>2
  <2>5. notify' \in BOOLEAN
    BY <2>1, <2>3, Zenon
  <2> QED BY <2>4, <2>5
<1>2. FanTypes'
  <2>1. CASE Wake
    BY <2>1 DEF Wake, FanTypes
  <2>2. CASE Drain
    BY <2>2 DEF Drain, FanTypes, ReplTypes
  <2>3. CASE ListReplicas
    BY <2>3 DEF ListReplicas, FanTypes, LinkTypes
  <2>4. CASE SendBatch
    <3>1. fanned \o batch \in Seq(Id) /\ <<>> \in Seq(Id)
      BY DEF FanTypes
    <3>2. fanned' = fanned \o batch /\ batch' = <<>> /\ target' = FALSE /\ fpc' = "wait"
      BY <2>4 DEF SendBatch
    <3> QED BY <3>1, <3>2 DEF FanTypes
  <2> QED BY <2>1, <2>2, <2>3, <2>4 DEF FanoutStep
<1>3. WireType' /\ attached' \in BOOLEAN
  <2>1. CASE Wake \/ Drain \/ ListReplicas
    BY <2>1 DEF Wake, Drain, ListReplicas, link, WireType, LinkTypes
  <2>2. CASE SendBatch /\ target
    <3>1. Put([i \in DOMAIN batch |-> Frame(batch[i])]) /\ attached' = (attached /\ alive)
      BY <2>2 DEF SendBatch
    <3>2. [i \in DOMAIN batch |-> Frame(batch[i])] \in Seq(Message)
      BY FramesType DEF FanTypes
    <3>3. WireType'
      BY <3>1, <3>2, PutType
    <3> QED BY <3>1, <3>3 DEF LinkTypes
  <2>3. CASE SendBatch /\ ~target
    BY <2>3 DEF SendBatch, WireType, LinkTypes
  <2> QED BY <2>1, <2>2, <2>3 DEF FanoutStep
<1> QED BY <1>0, <1>1, <1>2, <1>3 DEF WriterTypes, ReplTypes, PsyncTypes, LinkTypes, ReplicaTypes,
           RestTypes, Issued, writers, psync, replica

\* The steps of the handshake at the master.
LEMMA PsyncStepTypes == ASSUME Types, PsyncStep PROVE Types'
<1> USE DEF Types
<1>0. UNCHANGED <<data, writers, stream, offset, pending, notify, fan, alive, replica, budget, mishap>>
  BY DEF PsyncStep, Activate, Decide, Continue, Replay, Snapshot, FullResync, Attach, repl, link
<1>1. activated' \in BOOLEAN /\ attached' \in BOOLEAN /\ acked' \in Nat
  <2>1. activated' \in {activated, TRUE} /\ attached' \in {attached, TRUE} /\ acked' \in {acked, 0}
    BY DEF PsyncStep, Activate, Decide, Continue, Replay, Snapshot, FullResync, Attach, repl, link
  <2>2. activated \in BOOLEAN /\ attached \in BOOLEAN /\ acked \in Nat
    BY DEF ReplTypes, LinkTypes
  <2>3. activated' \in BOOLEAN /\ attached' \in BOOLEAN
    BY <2>1, <2>2, Zenon
  <2> QED BY <2>1, <2>2, <2>3
<1>2. PsyncTypes'
  <2>1. CASE Activate \/ Decide \/ Replay
    BY <2>1 DEF Activate, Decide, Replay, PsyncTypes
  <2>2. CASE Continue
    BY <2>2 DEF Continue, PsyncTypes, ReplTypes
  <2>3. CASE Snapshot
    BY <2>3 DEF Snapshot, PsyncTypes, Issued
  <2>4. CASE FullResync
    BY <2>4 DEF FullResync, PsyncTypes
  <2>5. CASE Attach
    BY <2>5 DEF Attach, PsyncTypes
  <2> QED BY <2>1, <2>2, <2>3, <2>4, <2>5 DEF PsyncStep
<1>3. WireType'
  <2>1. CASE Activate \/ Decide \/ Snapshot \/ Attach
    BY <2>1 DEF Activate, Decide, Snapshot, Attach, WireType
  <2>2. CASE Continue
    <3>1. [t |-> "continue"] \in Message
      BY DEF Message
    <3>2. <<[t |-> "continue"]>> \in Seq(Message)
      BY <3>1
    <3> QED BY <2>2, <3>2, PutType DEF Continue
  <2>3. CASE Replay /\ hoff > roff
    <3> DEFINE s == Slice(roff, hoff - roff)
    <3>1. hoff - roff \in Nat /\ roff \in Nat /\ stream \in Seq(Id)
      BY <2>3 DEF PsyncTypes, ReplicaTypes, ReplTypes
    <3>2. s \in Seq(Id)
      BY <3>1, SliceType
    <3>3. Put([i \in DOMAIN s |-> Frame(s[i])])
      BY <2>3 DEF Replay
    <3> HIDE DEF s
    <3>4. [i \in DOMAIN s |-> Frame(s[i])] \in Seq(Message)
      BY <3>2, FramesType
    <3> QED BY <3>3, <3>4, PutType
  <2>4. CASE Replay /\ ~(hoff > roff)
    BY <2>4 DEF Replay, WireType
  <2>5. CASE FullResync
    <3>1. [t |-> "full", off |-> offset] \in Message /\ [t |-> "rdb", dump |-> hbuf] \in Message
      BY DEF Message, ReplTypes, PsyncTypes
    <3>2. <<[t |-> "full", off |-> offset], [t |-> "rdb", dump |-> hbuf]>> \in Seq(Message)
      BY <3>1
    <3> QED BY <2>5, <3>2, PutType DEF FullResync
  <2> QED BY <2>1, <2>2, <2>3, <2>4, <2>5 DEF PsyncStep
<1> QED BY <1>0, <1>1, <1>2, <1>3 DEF WriterTypes, ReplTypes, FanTypes, LinkTypes, ReplicaTypes,
           RestTypes, Issued, writers, fan, replica

\* A message received leaves the wire.
LEMMA ReceiveType ==
    ASSUME WireType, NEW k, Receive(k)
    PROVE  WireType' /\ Head(wire) \in Message /\ Head(wire).t = k
<1>1. wire \in Seq(Message) /\ wire # <<>> /\ wire' = Tail(wire) /\ Head(wire).t = k
  BY DEF WireType, Receive
<1>2. Head(wire) \in Message /\ Tail(wire) \in Seq(Message)
  BY <1>1, HeadTailProperties
<1> QED BY <1>1, <1>2 DEF WireType

\* What a message of each kind carries.
LEMMA MessageFields ==
    ASSUME NEW m \in Message
    PROVE  /\ m.t = "frame" => m.id \in Id
           /\ m.t = "full" => m.off \in Nat
           /\ m.t = "rdb" => m.dump \in Seq(Id)
BY DEF Message

\* The steps of the replica.
LEMMA ReplicaStepTypes == ASSUME Types, ReplicaStep PROVE Types'
<1> USE DEF Types
<1>0. UNCHANGED <<data, writers, repl, fan, hbuf, hoff, attached, acked, budget>>
  BY DEF ReplicaStep, Connect, RecvFull, RecvRdb, RecvContinue, RecvFrame, ApplyFrame, RefuseFrame, RecvGetAck,
         psync, link
<1>1. RestTypes'
  BY <1>0 DEF ReplicaStep, Connect, RecvFull, RecvRdb, RecvContinue, RecvFrame, ApplyFrame, RefuseFrame, RecvGetAck, RestTypes
<1>2. /\ hpc' \in {"none", "activate", "check", "offset", "slice", "snapshot", "reply", "attach"}
  BY DEF ReplicaStep, Connect, RecvFull, RecvRdb, RecvContinue, RecvFrame, ApplyFrame, RefuseFrame, RecvGetAck,
         psync, PsyncTypes
<1>3. alive' \in BOOLEAN
  <2>1. alive' \in {alive, TRUE}
    BY DEF ReplicaStep, Connect, RecvFull, RecvRdb, RecvContinue, RecvFrame, ApplyFrame, RefuseFrame, RecvGetAck, link
  <2>2. alive \in BOOLEAN
    BY DEF LinkTypes
  <2> QED BY <2>1, <2>2, Zenon
<1>4. WireType' /\ ReplicaTypes'
  <2>1. CASE Connect
    BY <2>1 DEF Connect, WireType, ReplicaTypes
  <2>2. CASE RecvFull
    <3>1. WireType' /\ Head(wire).off \in Nat
      BY <2>2, ReceiveType, MessageFields DEF RecvFull
    <3> QED BY <2>2, <3>1 DEF RecvFull, ReplicaTypes
  <2>3. CASE RecvRdb
    <3>1. WireType' /\ Head(wire).dump \in Seq(Id)
      BY <2>3, ReceiveType, MessageFields DEF RecvRdb
    <3> QED BY <2>3, <3>1 DEF RecvRdb, ReplicaTypes
  <2>4. CASE RecvContinue
    <3>1. WireType'
      BY <2>4, ReceiveType DEF RecvContinue
    <3> QED BY <2>4, <3>1 DEF RecvContinue, ReplicaTypes
  <2>5. CASE RecvFrame
    <3>1. WireType' /\ Head(wire).id \in Id
      BY <2>5, ReceiveType, MessageFields DEF RecvFrame
    <3>2. hand' = <<Head(wire).id>> /\ roff' = roff + 1 /\ UNCHANGED <<rpc, rdata, known>>
      BY <2>5 DEF RecvFrame
    <3>3. hand' \in Seq(Id) /\ Len(hand') <= 1
      BY <3>1, <3>2
    <3> QED BY <3>1, <3>2, <3>3 DEF ReplicaTypes
  <2>6. CASE RecvGetAck
    <3>1. WireType'
      BY <2>6, ReceiveType DEF RecvGetAck
    <3> QED BY <2>6, <3>1 DEF RecvGetAck, ReplicaTypes
  <2>7. CASE ApplyFrame \/ RefuseFrame
    <3>1. hand' = <<>> /\ rdata' \in {rdata, rdata \o hand} /\ UNCHANGED <<wire, rpc, roff, known>>
      BY <2>7 DEF ApplyFrame, RefuseFrame
    <3>2. /\ rdata \in Seq(Id) /\ rdata \o hand \in Seq(Id)
          /\ <<>> \in Seq(Id) /\ Len(<<>>) <= 1
      BY DEF ReplicaTypes
    <3>3. rdata' \in Seq(Id) /\ hand' \in Seq(Id) /\ Len(hand') <= 1
      BY <3>1, <3>2, Zenon
    <3> QED BY <3>1, <3>3 DEF WireType, ReplicaTypes
  <2> QED BY <2>1, <2>2, <2>3, <2>4, <2>5, <2>6, <2>7 DEF ReplicaStep
<1> QED BY <1>0, <1>1, <1>2, <1>3, <1>4 DEF WriterTypes, ReplTypes, FanTypes, PsyncTypes, LinkTypes,
           Issued, writers, repl, fan

\* Heartbeats, WAIT and lost connections.
LEMMA LinkStepTypes == ASSUME Types, DropLink \/ Ack \/ WaitCmd \/ Break \/ Tear PROVE Types'
<1> USE DEF Types
<1>0. UNCHANGED <<data, writers, repl, fan, psync, rdata, hand, roff, known>>
  BY DEF DropLink, Ack, WaitCmd, Break, Tear, Lose, replica
<1>1. RestTypes' /\ budget'["write"] = budget["write"]
  <2>1. CASE DropLink \/ Ack
    BY <2>1 DEF DropLink, Ack, RestTypes
  <2>2. CASE WaitCmd \/ Break \/ Tear
    <3>1. Spend("event") /\ mishap' \subseteq mishap \cup {"torn"}
      BY <2>2 DEF WaitCmd, Break, Tear
    <3> QED BY <3>1, SpendType DEF RestTypes
  <2> QED BY <2>1, <2>2
<1>2. attached' \in BOOLEAN /\ alive' \in BOOLEAN
  <2>1. attached' \in {attached, FALSE} /\ alive' \in {alive, FALSE}
    BY DEF DropLink, Ack, WaitCmd, Break, Tear, Lose, link
  <2>2. attached \in BOOLEAN /\ alive \in BOOLEAN
    BY DEF LinkTypes
  <2> QED BY <2>1, <2>2, Zenon
<1>3. acked' \in Nat /\ rpc' \in {"down", "psync", "sync", "stream"}
  BY DEF DropLink, Ack, WaitCmd, Break, Tear, Lose, link, replica, LinkTypes, ReplicaTypes
<1>4. WireType'
  <2>1. CASE DropLink \/ Ack
    BY <2>1 DEF DropLink, Ack, WireType
  <2>2. CASE WaitCmd
    <3>1. [t |-> "getack"] \in Message
      BY DEF Message
    <3>2. <<[t |-> "getack"]>> \in Seq(Message)
      BY <3>1
    <3> QED BY <2>2, <3>2, PutType DEF WaitCmd
  <2>3. CASE Break \/ Tear
    <3>1. wire' = <<>>
      BY <2>3 DEF Break, Tear, Lose
    <3>2. <<>> \in Seq(Message)
      OBVIOUS
    <3> QED BY <3>1, <3>2 DEF WireType
  <2> QED BY <2>1, <2>2, <2>3
<1> QED BY <1>0, <1>1, <1>2, <1>3, <1>4 DEF WriterTypes, ReplTypes, FanTypes, PsyncTypes, LinkTypes,
           ReplicaTypes, Issued, writers, repl, fan, psync

\* No step leaves the types.
LEMMA StepTypes == Types /\ [Next]_vars => Types'
<1> SUFFICES ASSUME Types, [Next]_vars PROVE Types'
  OBVIOUS
<1>1. CASE UNCHANGED vars
  BY <1>1 DEF Types, WriterTypes, ReplTypes, FanTypes, PsyncTypes, LinkTypes, ReplicaTypes, RestTypes,
              WireType, Issued, vars, writers, repl, fan, psync, link, replica
<1> QED BY <1>1, WriterStepTypes, FanoutTypes, PsyncStepTypes, ReplicaStepTypes, LinkStepTypes DEF Next

\* Offsets, buffers, frames on the wire and both keyspaces keep their types,
\* whatever is lost or refused and when.
THEOREM TypeCorrect == Spec => []TypeOK
<1>1. Init => Types
  BY InitTypes
<1>2. Types /\ [Next]_vars => Types'
  BY StepTypes
<1>3. Types => TypeOK
  BY TypesGiveTypeOK
<1> QED BY <1>1, <1>2, <1>3, PTL DEF Spec

-----------------------------------------------------------------------------
(* The notify channel *)

\* Only Enqueue fills the pending buffer, and the writer that did is about to
\* put a token into the channel.
LEMMA NotifyStep == ASSUME Types, NoLostNotify, [Next]_vars PROVE NoLostNotify'
<1> USE DEF NoLostNotify
<1>1. CASE UNCHANGED vars
  BY <1>1 DEF vars, writers, repl, fan
<1>2. ASSUME NEW w \in Writer, Mutate(w) \/ WriterStep(w) PROVE NoLostNotify'
  <2>0. wpc \in [Writer -> {"idle", "gate", "append", "store", "enqueue", "notify"}]
    BY DEF Types, WriterTypes
  <2>1. CASE Mutate(w)
    BY <2>0, <2>1 DEF Mutate, repl, fan
  <2>2. CASE Gate(w)
    BY <2>0, <2>2 DEF Gate, repl, fan
  <2>3. CASE AppendFrame(w)
    BY <2>0, <2>3 DEF AppendFrame, fan
  <2>4. CASE StoreOffset(w)
    BY <2>0, <2>4 DEF StoreOffset, fan
  <2>5. CASE Enqueue(w)
    BY <2>0, <2>5 DEF Enqueue, fan
  <2>6. CASE Notify(w)
    BY <2>0, <2>6 DEF Notify, fan
  <2> QED BY <1>2, <2>1, <2>2, <2>3, <2>4, <2>5, <2>6 DEF WriterStep
<1>3. CASE FanoutStep
  BY <1>3 DEF FanoutStep, Wake, Drain, ListReplicas, SendBatch, writers, repl
<1>4. CASE PsyncStep
  <2>1. UNCHANGED <<writers, pending, notify, fan>>
    BY <1>4 DEF PsyncStep, Activate, Decide, Continue, Replay, Snapshot, FullResync, Attach, repl
  <2> QED BY <2>1 DEF writers, fan
<1>5. CASE ReplicaStep \/ DropLink \/ Ack \/ WaitCmd \/ Break \/ Tear
  <2>1. UNCHANGED <<writers, repl, fan>>
    BY <1>5 DEF ReplicaStep, Connect, RecvFull, RecvRdb, RecvContinue, RecvFrame, ApplyFrame, RefuseFrame,
                RecvGetAck, DropLink, Ack, WaitCmd, Break, Tear, Lose
  <2> QED BY <2>1 DEF writers, repl, fan
<1> QED BY <1>1, <1>2, <1>3, <1>4, <1>5 DEF Next

\* However the wake-ups of the writers coalesce, no frame waits in the
\* pending buffer with nothing left to wake the loop.
THEOREM NotifyCorrect == Spec => []NoLostNotify
<1>1. Init => Types /\ NoLostNotify
  BY InitTypes DEF Init, NoLostNotify
<1>2. Types /\ NoLostNotify /\ [Next]_vars => Types' /\ NoLostNotify'
  BY StepTypes, NotifyStep
<1> QED BY <1>1, <1>2, PTL DEF Spec

-----------------------------------------------------------------------------
(* What the fan-out holds *)

\* The frames that have left Propagate, and a loop that holds frames only
\* between its drain and its send.
Out == fanned \o batch \o pending

BatchHeld == fpc \in {"wait", "drain"} => batch = <<>>

\* A step of the loop moves frames along and changes none of them.
LEMMA OutKept ==
    ASSUME Types, BatchHeld, FanoutStep
    PROVE  Out' = Out /\ BatchHeld'
<1> USE DEF Out, BatchHeld
<1>0. fanned \in Seq(Id) /\ batch \in Seq(Id) /\ pending \in Seq(Id)
  BY DEF Types, FanTypes, ReplTypes
<1>1. CASE Wake
  BY <1>1 DEF Wake
<1>2. CASE Drain
  <2>1. batch = <<>> /\ batch' = pending /\ pending' = <<>> /\ fanned' = fanned
    BY <1>2 DEF Drain
  <2>2. fpc' \in {"wait", "drain"} => pending = <<>>
    BY <1>2 DEF Drain
  <2>3. fanned \o <<>> \o pending = fanned \o pending \o <<>>
    BY <1>0
  <2> QED BY <2>1, <2>2, <2>3
<1>3. CASE ListReplicas
  BY <1>3 DEF ListReplicas, repl
<1>4. CASE SendBatch
  <2>1. fanned' = fanned \o batch /\ batch' = <<>> /\ pending' = pending
    BY <1>4 DEF SendBatch, repl
  <2>2. (fanned \o batch) \o <<>> \o pending = fanned \o batch \o pending
    BY <1>0
  <2> QED BY <2>1, <2>2
<1> QED BY <1>1, <1>2, <1>3, <1>4 DEF FanoutStep

\* A writer inside RecordWrite has a write of the keyspace.
LEMMA ActiveId ==
    ASSUME Types, NEW w \in Writer, wpc[w] # "idle"
    PROVE  wid[w] \in Id /\ wid[w] \in 1 .. Len(data)
<1>1. wid[w] \in 1 .. Len(data) /\ Len(data) \in Nat
  BY DEF Types, Issued
<1>2. wid[w] \in Id \cup {0}
  BY DEF Types, WriterTypes
<1> QED BY <1>1, <1>2

\* Enqueue adds the writer's frame at the end.
LEMMA OutGrows ==
    ASSUME Types, NEW w \in Writer, Enqueue(w)
    PROVE  Out' = Append(Out, wid[w])
<1>0. fanned \in Seq(Id) /\ batch \in Seq(Id) /\ pending \in Seq(Id)
  BY DEF Types, FanTypes, ReplTypes
<1>4. wid[w] \in Id
  BY ActiveId DEF Enqueue
<1>1. fanned' = fanned /\ batch' = batch /\ pending' = Append(pending, wid[w])
  BY DEF Enqueue, fan
<1>2. fanned \o batch \in Seq(Id)
  BY <1>0
<1> DEFINE f == fanned \o batch
<1> HIDE DEF f
<1>3. ASSUME f \in Seq(Id) PROVE f \o Append(pending, wid[w]) = Append(f \o pending, wid[w])
  BY <1>0, <1>3, <1>4
<1> QED BY <1>1, <1>2, <1>3 DEF f, Out

\* Out holds writes.
LEMMA OutType == ASSUME Types PROVE Out \in Seq(Id)
<1>1. fanned \in Seq(Id) /\ batch \in Seq(Id) /\ pending \in Seq(Id)
  BY DEF Types, FanTypes, ReplTypes
<1> QED BY <1>1 DEF Out

\* Every other step leaves the pipeline alone, and a mishap is not forgotten.
LEMMA Elsewhere ==
    ASSUME PsyncStep \/ ReplicaStep \/ DropLink \/ Ack \/ WaitCmd \/ Break \/ Tear
    PROVE  /\ UNCHANGED <<data, wpc, wid, wafter, stream, offset, fpc, batch>> /\ Out' = Out
           /\ mishap \subseteq mishap'
<1>1. UNCHANGED <<data, writers, stream, offset, pending, fan>> /\ mishap \subseteq mishap'
  BY DEF PsyncStep, Activate, Decide, Continue, Replay, Snapshot, FullResync, Attach, repl,
         ReplicaStep, Connect, RecvFull, RecvRdb, RecvContinue, RecvFrame, ApplyFrame, RefuseFrame,
         RecvGetAck, DropLink, Ack, WaitCmd, Break, Tear, Lose
<1> QED BY <1>1 DEF writers, fan, Out

\* A writer other than at Enqueue leaves Out alone.
LEMMA WriterOut ==
    ASSUME NEW w \in Writer, Mutate(w) \/ Gate(w) \/ AppendFrame(w) \/ StoreOffset(w) \/ Notify(w)
    PROVE  Out' = Out /\ UNCHANGED <<fpc, batch>>
BY DEF Mutate, Gate, AppendFrame, StoreOffset, Notify, Out, repl, fan

-----------------------------------------------------------------------------
(* Offset, backlog and fan-out *)

InStep == offset = Len(stream) /\ Out = stream

\* How far apart offset, backlog and fan-out are, by the step the one active
\* writer is at.
Stages ==
    "crossed" \notin mishap =>
      /\ \A v, w \in Writer : wpc[v] # "idle" /\ wpc[w] # "idle" => v = w
      /\ (\A w \in Writer : wpc[w] = "idle") => InStep
      /\ \A w \in Writer :
           /\ wpc[w] \in {"gate", "append", "notify"} => InStep
           /\ wpc[w] \in {"store", "enqueue"} => stream = Append(Out, wid[w])
           /\ wpc[w] = "store" => wafter[w] = Len(stream)
           /\ wpc[w] = "enqueue" => offset = Len(stream)

\* One step of a writer.
LEMMA StagesWriter ==
    ASSUME Types, Stages, NEW w \in Writer, Mutate(w) \/ WriterStep(w)
    PROVE  Stages'
<1>0. wpc \in [Writer -> {"idle", "gate", "append", "store", "enqueue", "notify"}]
  BY DEF Types, WriterTypes
<1>1. CASE Mutate(w)
  <2>1. ASSUME "crossed" \notin mishap'
        PROVE  "crossed" \notin mishap /\ \A v \in Writer : wpc[v] = "idle"
    BY <1>1, <2>1 DEF Mutate
  <2>2. UNCHANGED <<offset, stream>> /\ Out' = Out /\ wpc' = [wpc EXCEPT ![w] = "gate"]
    BY <1>1, WriterOut DEF Mutate, repl
  <2> QED BY <1>0, <2>1, <2>2 DEF Stages, InStep
<1>2. CASE Gate(w)
  <2>1. UNCHANGED <<offset, stream, wid, wafter, mishap>> /\ Out' = Out /\ wpc[w] = "gate"
    BY <1>2, WriterOut DEF Gate, repl
  <2>2. wpc' = [wpc EXCEPT ![w] = IF activated THEN "append" ELSE "idle"]
    BY <1>2 DEF Gate
  <2> QED BY <1>0, <2>1, <2>2 DEF Stages, InStep
<1>3. CASE AppendFrame(w)
  <2>1. /\ UNCHANGED <<offset, wid, mishap>> /\ Out' = Out /\ wpc[w] = "append"
        /\ stream' = Append(stream, wid[w]) /\ wafter' = [wafter EXCEPT ![w] = Len(stream) + 1]
        /\ wpc' = [wpc EXCEPT ![w] = "store"]
    BY <1>3, WriterOut DEF AppendFrame
  <2>2. stream \in Seq(Id) /\ wid[w] \in Id /\ wafter \in [Writer -> Nat]
    BY <2>1 DEF Types, ReplTypes, WriterTypes, Issued, Id
  <2>3. Len(stream') = Len(stream) + 1
    BY <2>1, <2>2
  <2> QED BY <1>0, <2>1, <2>2, <2>3 DEF Stages, InStep
<1>4. CASE StoreOffset(w)
  <2>1. /\ UNCHANGED <<stream, wid, wafter, mishap>> /\ Out' = Out /\ wpc[w] = "store"
        /\ offset' = wafter[w] /\ wpc' = [wpc EXCEPT ![w] = "enqueue"]
    BY <1>4, WriterOut DEF StoreOffset
  <2> QED BY <1>0, <2>1 DEF Stages, InStep
<1>5. CASE Enqueue(w)
  <2>1. /\ UNCHANGED <<stream, offset, wid, wafter, mishap>> /\ Out' = Append(Out, wid[w])
        /\ wpc[w] = "enqueue" /\ wpc' = [wpc EXCEPT ![w] = "notify"]
    BY <1>5, OutGrows DEF Enqueue
  <2> QED BY <1>0, <2>1 DEF Stages, InStep
<1>6. CASE Notify(w)
  <2>1. /\ UNCHANGED <<stream, offset, wid, wafter, mishap>> /\ Out' = Out
        /\ wpc[w] = "notify" /\ wpc' = [wpc EXCEPT ![w] = "idle"]
    BY <1>6, WriterOut DEF Notify
  <2> QED BY <1>0, <2>1 DEF Stages, InStep
<1> QED BY <1>1, <1>2, <1>3, <1>4, <1>5, <1>6 DEF WriterStep

\* Any step.
LEMMA StagesStep ==
    ASSUME Types, BatchHeld, Stages, [Next]_vars
    PROVE  BatchHeld' /\ Stages'
<1>1. CASE UNCHANGED vars
  BY <1>1 DEF vars, writers, repl, fan, BatchHeld, Stages, InStep, Out
<1>2. ASSUME NEW w \in Writer, Mutate(w) \/ WriterStep(w) PROVE BatchHeld' /\ Stages'
  <2>1. UNCHANGED <<fpc, batch>>
    BY <1>2 DEF WriterStep, Mutate, Gate, AppendFrame, StoreOffset, Enqueue, Notify, fan
  <2> QED BY <1>2, <2>1, StagesWriter DEF BatchHeld
<1>3. CASE FanoutStep
  <2>1. UNCHANGED <<writers, stream, offset, mishap>>
    BY <1>3 DEF FanoutStep, Wake, Drain, ListReplicas, SendBatch, repl
  <2> QED BY <1>3, <2>1, OutKept DEF Stages, InStep, writers
<1>4. CASE PsyncStep \/ ReplicaStep \/ DropLink \/ Ack \/ WaitCmd \/ Break \/ Tear
  BY <1>4, Elsewhere DEF BatchHeld, Stages, InStep
<1> QED BY <1>1, <1>2, <1>3, <1>4 DEF Next

\* As long as writes do not overlap, the offset, the backlog and the fan-out
\* agree whenever no writer is inside Propagate.
THEOREM PipelineCorrect == Spec => []PipelineInStep
<1>1. Init => Types /\ BatchHeld /\ Stages
  <2> SUFFICES ASSUME Init PROVE BatchHeld /\ Stages
    BY InitTypes
  <2>1. /\ stream = <<>> /\ offset = 0 /\ batch = <<>> /\ fanned = <<>> /\ pending = <<>>
        /\ \A w \in Writer : wpc[w] = "idle"
    BY DEF Init
  <2>2. Out = stream /\ Len(stream) = 0
    BY <2>1 DEF Out
  <2> QED BY <2>1, <2>2 DEF BatchHeld, Stages, InStep
<1>2. Types /\ BatchHeld /\ Stages /\ [Next]_vars => Types' /\ BatchHeld' /\ Stages'
  BY StepTypes, StagesStep
<1>3. Stages => PipelineInStep
  BY DEF Stages, PipelineInStep, InStep, Out
<1> QED BY <1>1, <1>2, <1>3, PTL DEF Spec

-----------------------------------------------------------------------------
(* Frames are conserved *)

\* One more element at the end of a sequence.
LEMMA AppendRange ==
    ASSUME NEW s \in Seq(Id), NEW x \in Id
    PROVE  \A y : y \in Range(Append(s, x)) <=> y \in Range(s) \/ y = x
<1>1. Len(s) \in Nat /\ DOMAIN s = 1 .. Len(s)
  OBVIOUS
<1>2. /\ DOMAIN Append(s, x) = 1 .. (Len(s) + 1)
      /\ \A i \in 1 .. Len(s) : Append(s, x)[i] = s[i]
      /\ Append(s, x)[Len(s) + 1] = x
  OBVIOUS
<1>3. ASSUME NEW y, y \in Range(Append(s, x)) PROVE y \in Range(s) \/ y = x
  <2>1. PICK i \in 1 .. (Len(s) + 1) : y = Append(s, x)[i]
    BY <1>2, <1>3 DEF Range
  <2>2. i \in 1 .. Len(s) \/ i = Len(s) + 1
    BY <1>1, <2>1
  <2> QED BY <1>1, <1>2, <2>1, <2>2 DEF Range
<1>4. ASSUME NEW y, y \in Range(s) \/ y = x PROVE y \in Range(Append(s, x))
  <2>1. CASE y = x
    BY <1>1, <1>2, <2>1 DEF Range
  <2>2. CASE y \in Range(s)
    <3>1. PICK i \in 1 .. Len(s) : y = s[i]
      BY <1>1, <2>2 DEF Range
    <3>2. i \in 1 .. (Len(s) + 1)
      BY <1>1, <3>1
    <3> QED BY <1>2, <3>1, <3>2 DEF Range
  <2> QED BY <1>4, <2>1, <2>2
<1> QED BY <1>3, <1>4

\* A new element keeps a sequence free of repetitions.
LEMMA NewStaysInjective ==
    ASSUME NEW s \in Seq(Id), NEW x \in Id, IsInjective(s), x \notin Range(s)
    PROVE  IsInjective(Append(s, x))
<1>1. Len(s) \in Nat /\ DOMAIN s = 1 .. Len(s)
  OBVIOUS
<1>2. /\ DOMAIN Append(s, x) = 1 .. (Len(s) + 1)
      /\ \A i \in 1 .. Len(s) : Append(s, x)[i] = s[i]
      /\ Append(s, x)[Len(s) + 1] = x
  OBVIOUS
<1>3. \A i \in 1 .. Len(s) : s[i] # x
  BY <1>1 DEF Range
<1>4. \A i, j \in 1 .. Len(s) : s[i] = s[j] => i = j
  BY <1>1 DEF IsInjective
<1>5. \A i \in 1 .. (Len(s) + 1) : i \in 1 .. Len(s) \/ i = Len(s) + 1
  BY <1>1
<1> QED BY <1>2, <1>3, <1>4, <1>5 DEF IsInjective

Carries(w) == wpc[w] \in {"store", "enqueue"}

\* The frames in the backlog are those behind Propagate and those writers
\* carry; a writer's frame is its own and is nowhere it has not been put.
Conserved ==
    /\ IsInjective(stream) /\ IsInjective(Out)
    /\ \A x : x \in Range(stream) <=>
                x \in Range(Out) \/ \E w \in Writer : Carries(w) /\ wid[w] = x
    /\ \A x \in Range(stream) : x \in 1 .. Len(data)
    /\ \A v, w \in Writer : wpc[v] # "idle" /\ wpc[w] # "idle" /\ wid[v] = wid[w] => v = w
    /\ \A w \in Writer : wpc[w] \in {"gate", "append"} => wid[w] \notin Range(stream)
    /\ \A w \in Writer : Carries(w) => wid[w] \notin Range(Out)

\* One step of a writer.
LEMMA ConservedWriter ==
    ASSUME Types, Conserved, NEW w \in Writer, Mutate(w) \/ WriterStep(w)
    PROVE  Conserved'
<1>0. /\ wpc \in [Writer -> {"idle", "gate", "append", "store", "enqueue", "notify"}]
      /\ wid \in [Writer -> Id \cup {0}]
  BY DEF Types, WriterTypes
<1>1. CASE Mutate(w)
  <2>1. /\ UNCHANGED stream /\ Out' = Out /\ wpc[w] = "idle" /\ wpc' = [wpc EXCEPT ![w] = "gate"]
        /\ wid' = [wid EXCEPT ![w] = Len(data) + 1]
    BY <1>1, WriterOut DEF Mutate, repl
  <2>2. Len(data) \in Nat /\ Len(data') = Len(data) + 1
    BY <1>1 DEF Mutate, Types, Issued
  <2>3. \A v \in Writer : wpc[v] # "idle" => wid[v] \in 1 .. Len(data)
    BY DEF Types, Issued
  <2>4. \A x \in Range(stream) : x \in 1 .. Len(data')
    BY <2>2 DEF Conserved
  <2>5. Len(data) + 1 \notin Range(stream)
    BY <2>2 DEF Conserved
  <2>6. \A v \in Writer : wpc[v] # "idle" => wid[v] # Len(data) + 1
    BY <2>2, <2>3
  <2>7. \A v \in Writer : Carries(v)' <=> Carries(v)
    BY <1>0, <2>1 DEF Carries
  <2>8. \A v \in Writer : Carries(v) => wid'[v] = wid[v]
    BY <1>0, <2>1 DEF Carries
  <2>9. \A v \in Writer : v # w => wid'[v] = wid[v] /\ wpc'[v] = wpc[v]
    BY <1>0, <2>1
  <2>10. wid'[w] = Len(data) + 1 /\ wpc'[w] = "gate"
    BY <1>0, <2>1
  <2> HIDE DEF Carries
  <2> QED BY <2>1, <2>4, <2>5, <2>6, <2>7, <2>8, <2>9, <2>10 DEF Conserved
<1>2. CASE Gate(w) \/ StoreOffset(w) \/ Notify(w)
  <2>1. /\ UNCHANGED <<data, stream, wid>> /\ Out' = Out /\ wpc[w] # "idle"
    BY <1>2, WriterOut DEF Gate, StoreOffset, Notify, repl
  <2>2. \A v \in Writer : /\ wpc'[v] # "idle" => wpc[v] # "idle"
                          /\ wpc'[v] \in {"gate", "append"} => wpc[v] \in {"gate", "append"}
    BY <1>0, <1>2 DEF Gate, StoreOffset, Notify
  <2>3. \A v \in Writer : Carries(v)' <=> Carries(v)
    BY <1>0, <1>2 DEF Gate, StoreOffset, Notify, Carries
  <2> QED BY <2>1, <2>2, <2>3 DEF Conserved
<1>3. CASE AppendFrame(w)
  <2>1. /\ UNCHANGED <<data, wid>> /\ Out' = Out /\ wpc[w] = "append"
        /\ stream' = Append(stream, wid[w]) /\ wpc' = [wpc EXCEPT ![w] = "store"]
    BY <1>3, WriterOut DEF AppendFrame
  <2>2. stream \in Seq(Id) /\ wid[w] \in Id /\ wid[w] \in 1 .. Len(data)
    BY <2>1, ActiveId DEF Types, ReplTypes
  <2>3. wid[w] \notin Range(stream) /\ wid[w] \notin Range(Out)
    BY <2>1 DEF Conserved
  <2>4. /\ \A y : y \in Range(stream') <=> y \in Range(stream) \/ y = wid[w]
        /\ IsInjective(stream')
    BY <2>1, <2>2, <2>3, AppendRange, NewStaysInjective DEF Conserved
  <2>5. \A v \in Writer : Carries(v)' <=> Carries(v) \/ v = w
    BY <1>0, <2>1 DEF Carries
  <2>6. \A v \in Writer : v # w => wpc'[v] = wpc[v]
    BY <1>0, <2>1
  <2>7. wpc'[w] = "store"
    BY <1>0, <2>1
  <2> QED BY <2>1, <2>2, <2>3, <2>4, <2>5, <2>6, <2>7 DEF Conserved
<1>4. CASE Enqueue(w)
  <2>1. /\ UNCHANGED <<data, wid, stream>> /\ Out' = Append(Out, wid[w])
        /\ wpc[w] = "enqueue" /\ wpc' = [wpc EXCEPT ![w] = "notify"]
    BY <1>4, OutGrows DEF Enqueue
  <2>2. Out \in Seq(Id) /\ wid[w] \in Id
    BY <2>1, OutType, ActiveId
  <2>3. wid[w] \notin Range(Out) /\ IsInjective(Out)
    BY <2>1 DEF Conserved, Carries
  <2>4. /\ \A y : y \in Range(Out') <=> y \in Range(Out) \/ y = wid[w]
        /\ IsInjective(Out')
    BY <2>1, <2>2, <2>3, AppendRange, NewStaysInjective
  <2>5. Carries(w) /\ \A v \in Writer : Carries(v)' <=> Carries(v) /\ v # w
    BY <1>0, <2>1 DEF Carries
  <2>6. \A v \in Writer : v # w => wpc'[v] = wpc[v]
    BY <1>0, <2>1
  <2>7. wpc'[w] = "notify"
    BY <1>0, <2>1
  <2>8. \A v \in Writer : Carries(v) => wpc[v] # "idle"
    BY DEF Carries
  <2> QED BY <2>1, <2>4, <2>5, <2>6, <2>7, <2>8 DEF Conserved
<1> QED BY <1>1, <1>2, <1>3, <1>4 DEF WriterStep

\* Any step.
LEMMA ConservedStep ==
    ASSUME Types, BatchHeld, Conserved, [Next]_vars
    PROVE  BatchHeld' /\ Conserved'
<1>1. CASE UNCHANGED vars
  BY <1>1 DEF vars, writers, repl, fan, BatchHeld, Conserved, Carries, Out
<1>2. ASSUME NEW w \in Writer, Mutate(w) \/ WriterStep(w) PROVE BatchHeld' /\ Conserved'
  <2>1. UNCHANGED <<fpc, batch>>
    BY <1>2 DEF WriterStep, Mutate, Gate, AppendFrame, StoreOffset, Enqueue, Notify, fan
  <2> QED BY <1>2, <2>1, ConservedWriter DEF BatchHeld
<1>3. CASE FanoutStep
  <2>1. UNCHANGED <<data, writers, stream>>
    BY <1>3 DEF FanoutStep, Wake, Drain, ListReplicas, SendBatch, repl
  <2> QED BY <1>3, <2>1, OutKept DEF Conserved, Carries, writers
<1>4. CASE PsyncStep \/ ReplicaStep \/ DropLink \/ Ack \/ WaitCmd \/ Break \/ Tear
  BY <1>4, Elsewhere DEF BatchHeld, Conserved, Carries
<1> QED BY <1>1, <1>2, <1>3, <1>4 DEF Next

\* The pipeline behind Backlog.Append neither loses nor repeats a frame, for
\* any number of writers, overlapping or not.
THEOREM FramesCorrect == Spec => []FramesConserved
<1>1. Init => Types /\ BatchHeld /\ Conserved
  <2> SUFFICES ASSUME Init PROVE BatchHeld /\ Conserved
    BY InitTypes
  <2>1. /\ stream = <<>> /\ batch = <<>> /\ fanned = <<>> /\ pending = <<>>
        /\ \A w \in Writer : wpc[w] = "idle"
    BY DEF Init
  <2>2. Out = <<>>
    BY <2>1 DEF Out
  <2>3. IsInjective(<<>>) /\ \A x : x \notin Range(<<>>)
    BY DEF IsInjective, Range
  <2> QED BY <2>1, <2>2, <2>3 DEF BatchHeld, Conserved, Carries
<1>2. Types /\ BatchHeld /\ Conserved /\ [Next]_vars => Types' /\ BatchHeld' /\ Conserved'
  BY StepTypes, ConservedStep
<1>3. Conserved => FramesConserved
  BY DEF Conserved, FramesConserved, Out, Carries
<1> QED BY <1>1, <1>2, <1>3, PTL DEF Spec

-----------------------------------------------------------------------------
(* The connection *)

\* What the ends of the connection know of each other, mishap or not: a
\* replica that is up has a link or a handshake in progress, and nothing was
\* ever propagated before the first PSYNC.
Joined ==
    /\ alive <=> rpc # "down"
    /\ ~alive => wire = <<>>
    /\ hpc # "none" => ~attached /\ ~target
    /\ alive /\ hpc = "none" => attached
    /\ fpc \in {"list", "send"} => batch # <<>>

Asleep ==
    ~activated =>
      /\ stream = <<>> /\ acked = 0 /\ wire = <<>> /\ ~known /\ ~attached /\ ~target
      /\ hpc \in {"none", "activate"}
      /\ \A w \in Writer : wpc[w] \in {"idle", "gate"}

\* Joined is kept by every step.
LEMMA JoinedStep ==
    ASSUME Types, BatchHeld, Joined, [Next]_vars
    PROVE  Joined'
<1> USE DEF Joined
<1>1. CASE UNCHANGED vars
  BY <1>1 DEF vars, fan, psync, link, replica
<1>2. ASSUME NEW w \in Writer, Mutate(w) \/ WriterStep(w) PROVE Joined'
  BY <1>2 DEF WriterStep, Mutate, Gate, AppendFrame, StoreOffset, Enqueue, Notify, fan, psync, link, replica
<1>3. CASE FanoutStep
  <2>1. CASE Wake
    BY <2>1 DEF Wake, psync, link, replica
  <2>2. CASE Drain
    BY <2>2 DEF Drain, psync, link, replica
  <2>3. CASE ListReplicas
    BY <2>3 DEF ListReplicas, psync, link, replica
  <2>4. CASE SendBatch
    <3>1. /\ target' = FALSE /\ fpc' = "wait" /\ UNCHANGED <<hpc, alive, rpc>>
          /\ attached' \in {attached, attached /\ alive}
          /\ ~alive => wire' = wire
      BY <2>4 DEF SendBatch, Put, psync, replica
    <3>2. hpc # "none" => ~attached'
      BY <3>1
    <3>3. alive /\ hpc = "none" => attached'
      BY <3>1
    <3> QED BY <3>1, <3>2, <3>3
  <2> QED BY <1>3, <2>1, <2>2, <2>3, <2>4 DEF FanoutStep
<1>4. CASE PsyncStep
  <2>1. UNCHANGED <<fan, alive, rpc>> /\ (~alive => wire' = wire)
    BY <1>4 DEF PsyncStep, Activate, Decide, Continue, Replay, Snapshot, FullResync, Attach, repl, link,
                replica, Put
  <2>2. \/ hpc # "none" /\ hpc' # "none" /\ attached' = attached
        \/ hpc' = "none" /\ attached' = TRUE
    BY <1>4 DEF PsyncStep, Activate, Decide, Continue, Replay, Snapshot, FullResync, Attach, link
  <2> QED BY <2>1, <2>2 DEF fan
<1>5. CASE ReplicaStep
  <2>1. CASE Connect
    BY <2>1 DEF Connect, fan
  <2>2. CASE RecvFull \/ RecvRdb \/ RecvContinue \/ RecvFrame \/ ApplyFrame \/ RefuseFrame \/ RecvGetAck
    BY <2>2 DEF RecvFull, RecvRdb, RecvContinue, RecvFrame, ApplyFrame, RefuseFrame, RecvGetAck, Receive, fan, psync, link
  <2> QED BY <1>5, <2>1, <2>2 DEF ReplicaStep
<1>6. CASE DropLink \/ Ack
  BY <1>6 DEF DropLink, Ack, fan, psync, replica
<1>7. CASE WaitCmd
  BY <1>7 DEF WaitCmd, Put, fan, psync, link, replica
<1>8. CASE Break \/ Tear
  BY <1>8 DEF Break, Tear, Lose, fan, psync
<1> QED BY <1>1, <1>2, <1>3, <1>4, <1>5, <1>6, <1>7, <1>8 DEF Next

\* And so is Asleep: Gate turns every write back until PSYNC is served.
LEMMA AsleepStep ==
    ASSUME Types, Joined, Asleep, [Next]_vars
    PROVE  Asleep'
<1> USE DEF Asleep
<1>0. wpc \in [Writer -> {"idle", "gate", "append", "store", "enqueue", "notify"}]
  BY DEF Types, WriterTypes
<1>1. CASE UNCHANGED vars
  BY <1>1 DEF vars, writers, repl, fan, psync, link, replica
<1>2. ASSUME NEW w \in Writer, Mutate(w) \/ WriterStep(w) PROVE Asleep'
  <2>1. UNCHANGED <<activated, target, psync, link, wire, replica>>
    BY <1>2 DEF WriterStep, Mutate, Gate, AppendFrame, StoreOffset, Enqueue, Notify, repl, fan
  <2>2. ASSUME ~activated
        PROVE  stream' = stream /\ \A v \in Writer : wpc'[v] \in {"idle", "gate"}
    BY <1>0, <1>2, <2>2 DEF WriterStep, Mutate, Gate, AppendFrame, StoreOffset, Enqueue, Notify, repl
  <2> QED BY <2>1, <2>2 DEF psync, link, replica
<1>3. CASE FanoutStep
  <2>1. /\ UNCHANGED <<writers, activated, stream, psync, acked, known>> /\ (attached' => attached)
        /\ target' => target \/ attached
        /\ wire' = wire \/ target
    <3>1. CASE Wake \/ Drain \/ ListReplicas
      BY <3>1 DEF Wake, Drain, ListReplicas, repl, link, replica
    <3>2. CASE SendBatch
      BY <3>2 DEF SendBatch, repl, replica
    <3> QED BY <1>3, <3>1, <3>2 DEF FanoutStep
  <2> QED BY <2>1 DEF writers, psync
<1>4. CASE PsyncStep
  <2>1. CASE Activate
    BY <2>1 DEF Activate
  <2>2. CASE ~Activate
    <3>1. activated' = activated /\ hpc \notin {"none", "activate"}
      <4>1. Decide \/ Continue \/ Replay \/ Snapshot \/ FullResync \/ Attach
        BY <1>4, <2>2 DEF PsyncStep
      <4> QED BY <4>1 DEF Decide, Continue, Replay, Snapshot, FullResync, Attach, repl
    <3> QED BY <3>1
  <2> QED BY <2>1, <2>2
<1>5. CASE ReplicaStep
  <2>1. CASE Connect
    BY <2>1 DEF Connect, writers, repl, fan
  <2>2. CASE RecvFull \/ RecvRdb \/ RecvContinue \/ RecvFrame \/ ApplyFrame \/ RefuseFrame \/ RecvGetAck
    BY <2>2 DEF RecvFull, RecvRdb, RecvContinue, RecvFrame, ApplyFrame, RefuseFrame, RecvGetAck, Receive,
                writers, repl, fan, psync, link
  <2> QED BY <1>5, <2>1, <2>2 DEF ReplicaStep
<1>6. CASE DropLink \/ Ack \/ WaitCmd \/ Break \/ Tear
  BY <1>6 DEF DropLink, Ack, WaitCmd, Break, Tear, Lose, writers, repl, fan, psync, link, replica
<1> QED BY <1>1, <1>2, <1>3, <1>4, <1>5, <1>6 DEF Next

-----------------------------------------------------------------------------
(* What a replica that met no mishap holds *)

Clean == mishap \subseteq {"refused"}

\* A write that is in the keyspace and not yet in the backlog, and the number
\* of writes that were made before anything was propagated.
Lag  == IF \E w \in Writer : wpc[w] \in {"gate", "append"} THEN 1 ELSE 0
Base == Len(data) - Len(stream) - Lag

Numbered(s) == \A i \in 1 .. Len(s) : s[i] = i

\* While writes do not overlap the backlog holds the writes after Base, in
\* the order of the keyspace.
Numbers ==
    /\ Numbered(data)
    /\ "crossed" \notin mishap =>
         /\ Base \in Nat
         /\ \A j \in 1 .. Len(stream) : stream[j] = Base + j
         /\ \A w \in Writer : wpc[w] \in {"gate", "append"} => wid[w] = Len(data)

\* One step of a writer, which moves Base only before the first PSYNC.
LEMMA NumbersWriter ==
    ASSUME Types, Stages, Asleep, Numbers, NEW w \in Writer, Mutate(w) \/ WriterStep(w)
    PROVE  Numbers' /\ ("crossed" \notin mishap' /\ activated => Base' = Base)
<1>0. /\ wpc \in [Writer -> {"idle", "gate", "append", "store", "enqueue", "notify"}]
      /\ wid \in [Writer -> Id \cup {0}]
  BY DEF Types, WriterTypes
<1>a. data \in Seq(Id) /\ stream \in Seq(Id) /\ Len(data) \in Nat /\ Len(stream) \in Nat
  BY DEF Types, Issued, ReplTypes
<1>b. "crossed" \notin mishap =>
        \A v, u \in Writer : wpc[v] # "idle" /\ wpc[u] # "idle" => v = u
  BY DEF Stages
<1>1. CASE Mutate(w)
  <2>1. /\ UNCHANGED stream /\ data' = Append(data, Len(data) + 1) /\ wid' = [wid EXCEPT ![w] = Len(data) + 1]
        /\ wpc' = [wpc EXCEPT ![w] = "gate"]
    BY <1>1 DEF Mutate, repl
  <2>2. Len(data') = Len(data) + 1 /\ Numbered(data')
    <3>1. Numbered(data)
      BY DEF Numbers
    <3> QED BY <1>a, <2>1, <3>1 DEF Numbered
  <2>3. ASSUME "crossed" \notin mishap'
        PROVE  "crossed" \notin mishap /\ \A v \in Writer : wpc[v] = "idle"
    BY <1>1, <2>3 DEF Mutate
  <2>4. ASSUME "crossed" \notin mishap' PROVE Lag = 0 /\ Lag' = 1
    BY <1>0, <2>1, <2>3, <2>4 DEF Lag
  <2>5. ASSUME "crossed" \notin mishap' PROVE Base' = Base
    BY <1>a, <2>1, <2>2, <2>4, <2>5 DEF Base
  <2>6. ASSUME "crossed" \notin mishap', NEW v \in Writer, wpc'[v] \in {"gate", "append"}
        PROVE  wid'[v] = Len(data')
    BY <1>0, <2>1, <2>2, <2>3, <2>6
  <2> QED BY <2>1, <2>2, <2>3, <2>5, <2>6 DEF Numbers
<1>2. CASE Gate(w)
  <2>1. /\ UNCHANGED <<stream, data, wid, mishap>> /\ wpc[w] = "gate"
        /\ wpc' = [wpc EXCEPT ![w] = IF activated THEN "append" ELSE "idle"]
    BY <1>2 DEF Gate, repl
  <2>2. CASE activated
    <3>1. Lag' = Lag
      BY <1>0, <2>1, <2>2 DEF Lag
    <3>2. Base' = Base
      BY <2>1, <3>1 DEF Base
    <3> QED BY <1>0, <2>1, <2>2, <3>2 DEF Numbers, Numbered
  <2>3. CASE ~activated
    <3>1. Len(stream) = 0
      BY <2>3 DEF Asleep
    <3>2. ASSUME "crossed" \notin mishap PROVE Lag = 1 /\ Lag' = 0
      BY <1>0, <1>b, <2>1, <2>3, <3>2 DEF Lag
    <3>3. ASSUME "crossed" \notin mishap PROVE Base' = Base + 1 /\ Base \in Nat
      BY <1>a, <2>1, <3>2, <3>3 DEF Base, Numbers
    <3>4. \A v \in Writer : wpc'[v] \in {"gate", "append"} => wpc[v] \in {"gate", "append"}
      BY <1>0, <2>1, <2>3
    <3> HIDE DEF Base
    <3> QED BY <2>1, <2>3, <3>1, <3>3, <3>4 DEF Numbers, Numbered
  <2> QED BY <2>2, <2>3
<1>3. CASE AppendFrame(w)
  <2>1. /\ UNCHANGED <<data, wid, mishap>> /\ wpc[w] = "append"
        /\ stream' = Append(stream, wid[w]) /\ wpc' = [wpc EXCEPT ![w] = "store"]
    BY <1>3 DEF AppendFrame
  <2>2. wid[w] \in Id
    BY <2>1, ActiveId
  <2>3. /\ Len(stream') = Len(stream) + 1 /\ stream'[Len(stream) + 1] = wid[w]
        /\ \A j \in 1 .. Len(stream) : stream'[j] = stream[j]
    BY <1>a, <2>1, <2>2
  <2>4. ASSUME "crossed" \notin mishap PROVE Lag = 1 /\ Lag' = 0
    BY <1>0, <1>b, <2>1, <2>4 DEF Lag
  <2>5. ASSUME "crossed" \notin mishap PROVE Base' = Base /\ wid[w] = Base + Len(stream) + 1
    <3>1. wid[w] = Len(data)
      BY <2>1, <2>5 DEF Numbers
    <3> QED BY <1>a, <2>1, <2>3, <2>4, <2>5, <3>1 DEF Base
  <2>6. \A v \in Writer : wpc'[v] \in {"gate", "append"} => wpc[v] \in {"gate", "append"}
    BY <1>0, <2>1
  <2>7. ASSUME "crossed" \notin mishap PROVE \A j \in 1 .. Len(stream') : stream'[j] = Base + j
    <3>1. \A j \in 1 .. Len(stream') : j \in 1 .. Len(stream) \/ j = Len(stream) + 1
      BY <1>a, <2>3
    <3>2. \A j \in 1 .. Len(stream) : stream[j] = Base + j
      BY <2>7 DEF Numbers
    <3>3. Base \in Nat
      BY <2>7 DEF Numbers
    <3>4. stream'[Len(stream) + 1] = Base + (Len(stream) + 1)
      <4> HIDE DEF Base
      <4> QED BY <1>a, <2>3, <2>5, <2>7, <3>3
    <3> HIDE DEF Base
    <3> QED BY <2>3, <3>1, <3>2, <3>4
  <2> HIDE DEF Base
  <2> QED BY <2>1, <2>5, <2>6, <2>7 DEF Numbers, Numbered
<1>4. CASE StoreOffset(w) \/ Enqueue(w) \/ Notify(w)
  <2>1. /\ UNCHANGED <<data, stream, wid, mishap>>
        /\ \A v \in Writer : wpc'[v] \in {"gate", "append"} <=> wpc[v] \in {"gate", "append"}
    BY <1>0, <1>4 DEF StoreOffset, Enqueue, Notify
  <2>2. Base' = Base
    BY <2>1 DEF Base, Lag
  <2> QED BY <2>1, <2>2 DEF Numbers, Numbered
<1> QED BY <1>1, <1>2, <1>3, <1>4 DEF WriterStep

\* Other steps leave the keyspace, the backlog and the writers alone.
LEMMA NumbersKept ==
    ASSUME Numbers, UNCHANGED <<data, wpc, wid, stream>>, mishap \subseteq mishap'
    PROVE  Numbers' /\ Base' = Base
<1>1. Base' = Base
  BY DEF Base, Lag
<1> QED BY <1>1 DEF Numbers, Numbered

\* The steps of the loop.
LEMMA FanoutKeeps ==
    ASSUME FanoutStep
    PROVE  UNCHANGED <<data, wpc, wid, wafter, activated, stream, offset, hpc, hbuf, hoff,
                       acked, alive, rpc, rdata, hand, roff, known, mishap>>
BY DEF FanoutStep, Wake, Drain, ListReplicas, SendBatch, writers, repl, psync, link, replica

\* Any step.
LEMMA NumbersStep ==
    ASSUME Types, Stages, Asleep, Numbers, [Next]_vars
    PROVE  Numbers' /\ ("crossed" \notin mishap' /\ activated => Base' = Base)
<1>1. CASE UNCHANGED vars
  <2>1. UNCHANGED <<data, wpc, wid, stream, mishap>>
    BY <1>1 DEF vars, writers, repl
  <2> QED BY <2>1, NumbersKept
<1>2. ASSUME NEW w \in Writer, Mutate(w) \/ WriterStep(w)
      PROVE  Numbers' /\ ("crossed" \notin mishap' /\ activated => Base' = Base)
  BY <1>2, NumbersWriter
<1>3. CASE FanoutStep
  BY <1>3, FanoutKeeps, NumbersKept
<1>4. CASE PsyncStep \/ ReplicaStep \/ DropLink \/ Ack \/ WaitCmd \/ Break \/ Tear
  BY <1>4, Elsewhere, NumbersKept
<1> QED BY <1>1, <1>2, <1>3, <1>4 DEF Next

\* A handshake that raced with nothing found nothing on its way, and the loop
\* sends to the link that is up.
Calm ==
    Clean => /\ hpc # "none" => ~Busy
             /\ alive /\ fpc = "send" => target

\* Calm is kept: what would end it is a mishap.
LEMMA CalmStep ==
    ASSUME Types, BatchHeld, Joined, Calm, [Next]_vars
    PROVE  Calm'
<1>0. wpc \in [Writer -> {"idle", "gate", "append", "store", "enqueue", "notify"}]
  BY DEF Types, WriterTypes
<1>1. CASE UNCHANGED vars
  BY <1>1 DEF vars, writers, repl, fan, psync, link, Calm, Clean, Busy
<1>2. ASSUME NEW w \in Writer, Mutate(w) \/ WriterStep(w) PROVE Calm'
  <2>1. UNCHANGED <<hpc, alive, fpc, target>>
    BY <1>2 DEF WriterStep, Mutate, Gate, AppendFrame, StoreOffset, Enqueue, Notify, fan, psync, link
  <2>2. CASE Mutate(w)
    <3>1. Clean' => Clean /\ hpc = "none"
      <4>1. mishap \subseteq mishap' /\ (hpc # "none" => "raced" \in mishap')
        BY <2>2 DEF Mutate
      <4> QED BY <4>1 DEF Clean
    <3> QED BY <2>1, <3>1 DEF Calm
  <2>3. CASE WriterStep(w)
    <3>1. mishap' = mishap /\ wpc[w] # "idle"
      BY <2>3 DEF WriterStep, Gate, AppendFrame, StoreOffset, Enqueue, Notify
    <3>2. Clean' => Clean /\ hpc = "none"
      BY <3>1 DEF Clean, Calm, Busy
    <3> QED BY <2>1, <3>2 DEF Calm
  <2> QED BY <1>2, <2>2, <2>3
<1>3. CASE FanoutStep
  <2>1. UNCHANGED <<wpc, hpc, alive, mishap>>
    BY <1>3, FanoutKeeps
  <2>2. CASE Wake
    BY <2>1, <2>2 DEF Wake, Calm, Clean, Busy
  <2>3. CASE Drain
    BY <2>1, <2>3 DEF Drain, Calm, Clean, Busy
  <2>4. CASE ListReplicas
    <3>1. UNCHANGED <<pending, batch>> /\ target' = attached /\ batch # <<>>
      BY <2>4 DEF ListReplicas, Joined, repl
    <3>2. Clean => hpc = "none"
      BY <3>1 DEF Calm, Busy
    <3>3. Clean /\ alive => attached
      BY <3>2 DEF Joined
    <3> QED BY <2>1, <3>1, <3>2, <3>3 DEF Calm, Clean
  <2>5. CASE SendBatch
    BY <2>1, <2>5 DEF SendBatch, Calm, Clean, Busy, repl
  <2> QED BY <1>3, <2>2, <2>3, <2>4, <2>5 DEF FanoutStep
<1>4. CASE PsyncStep
  <2>1. UNCHANGED <<wpc, pending, batch, fpc, target, alive, mishap>> /\ hpc # "none"
    BY <1>4 DEF PsyncStep, Activate, Decide, Continue, Replay, Snapshot, FullResync, Attach,
                writers, repl, fan, link
  <2> QED BY <2>1 DEF Calm, Clean, Busy
<1>5. CASE Connect
  <2>1. UNCHANGED <<wpc, pending, batch, fpc, target>>
    BY <1>5 DEF Connect, writers, repl, fan
  <2>2. Clean' => Clean /\ ~Busy
    BY <1>5 DEF Connect, Clean
  <2>3. fpc = "send" => Busy
    BY DEF Joined, Busy
  <2> QED BY <2>1, <2>2, <2>3 DEF Calm, Busy
<1>6. CASE \/ RecvFull \/ RecvRdb \/ RecvContinue \/ RecvFrame \/ ApplyFrame \/ RefuseFrame \/ RecvGetAck
           \/ DropLink \/ Ack \/ WaitCmd \/ Break \/ Tear
  <2>1. UNCHANGED <<wpc, pending, batch, fpc, target, hpc>>
    BY <1>6 DEF RecvFull, RecvRdb, RecvContinue, RecvFrame, ApplyFrame, RefuseFrame, RecvGetAck,
                DropLink, Ack, WaitCmd, Break, Tear, Lose, writers, repl, fan, psync
  <2>2. (alive' => alive) /\ mishap \subseteq mishap'
    BY <1>6 DEF RecvFull, RecvRdb, RecvContinue, RecvFrame, ApplyFrame, RefuseFrame, RecvGetAck,
                DropLink, Ack, WaitCmd, Break, Tear, Lose, link
  <2>3. Clean' => Clean
    BY <2>2 DEF Clean
  <2> QED BY <2>1, <2>2, <2>3 DEF Calm, Busy
<1> QED BY <1>1, <1>2, <1>3, <1>4, <1>5, <1>6 DEF Next, ReplicaStep

\* The messages of w behind the first k are frames of st from offset s up to
\* m, as far as no GETACK is in between.
FlowOn(w, m, st, k, s) ==
    \A n \in k .. Len(w) :
      (\A j \in (k + 1) .. n : w[j].t = "frame") =>
        /\ s + n - k <= m
        /\ n > k => w[n].id = st[s + n - k]
        /\ n = Len(w) => s + n - k = m

\* The wire goes on from s up to what the loop has sent.
Flow(k, s) == FlowOn(wire, Len(fanned), stream, k, s)

\* A message of the header is read.
LEMMA FlowTail ==
    ASSUME NEW w \in Seq(Message), w # <<>>, NEW m \in Nat, NEW st \in Seq(Id),
           NEW k \in Nat \ {0}, NEW s \in Nat, FlowOn(w, m, st, k, s)
    PROVE  FlowOn(Tail(w), m, st, k - 1, s)
<1>1. /\ Tail(w) \in Seq(Message) /\ Len(Tail(w)) = Len(w) - 1 /\ Len(w) \in Nat
      /\ \A i \in 1 .. Len(w) - 1 : Tail(w)[i] = w[i + 1]
  OBVIOUS
<1> DEFINE u == Tail(w)
<1> HIDE DEF u
<1>a. (k - 1) + 1 = k
  OBVIOUS
<1> SUFFICES FlowOn(u, m, st, k - 1, s)
  BY DEF u
<1> SUFFICES ASSUME NEW n \in (k - 1) .. Len(u), \A j \in ((k - 1) + 1) .. n : u[j].t = "frame"
             PROVE  /\ s + n - (k - 1) <= m
                    /\ n > k - 1 => u[n].id = st[s + n - (k - 1)]
                    /\ n = Len(u) => s + n - (k - 1) = m
  BY Zenon DEF FlowOn
<1>b. \A j \in k .. n : u[j].t = "frame"
  BY <1>a
<1>2. n + 1 \in k .. Len(w) /\ n \in Int
  BY <1>1 DEF u
<1>3. \A j \in (k + 1) .. (n + 1) : w[j].t = "frame"
  <2> SUFFICES ASSUME NEW j \in (k + 1) .. (n + 1) PROVE w[j].t = "frame"
    OBVIOUS
  <2>1. j - 1 \in k .. n /\ j - 1 \in 1 .. Len(w) - 1 /\ (j - 1) + 1 = j
    BY <1>1, <1>2
  <2> QED BY <1>1, <1>b, <2>1 DEF u
<1>4. /\ s + (n + 1) - k <= m
      /\ n + 1 > k => w[n + 1].id = st[s + (n + 1) - k]
      /\ n + 1 = Len(w) => s + (n + 1) - k = m
  BY <1>2, <1>3 DEF FlowOn
<1>5. s + (n + 1) - k = s + n - (k - 1)
  BY <1>2
<1>6. n > k - 1 => n \in 1 .. Len(w) - 1
  BY <1>2
<1>7. n > k - 1 => u[n] = w[n + 1]
  BY <1>1, <1>6 DEF u
<1>8. (n > k - 1 => n + 1 > k) /\ (n = Len(u) => n + 1 = Len(w))
  <2>1. Len(u) = Len(w) - 1 /\ Len(w) \in Nat
    BY <1>1 DEF u
  <2> QED BY <1>2, <2>1
<1> QED BY <1>4, <1>5, <1>7, <1>8

\* A frame is read.
LEMMA FlowFrame ==
    ASSUME NEW w \in Seq(Message), w # <<>>, NEW m \in Nat, NEW st \in Seq(Id),
           NEW s \in Nat, FlowOn(w, m, st, 0, s), w[1].t = "frame"
    PROVE  s + 1 <= m /\ w[1].id = st[s + 1] /\ FlowOn(Tail(w), m, st, 0, s + 1)
<1>1. /\ Tail(w) \in Seq(Message) /\ Len(Tail(w)) = Len(w) - 1 /\ Len(w) \in Nat /\ Len(w) >= 1
      /\ \A i \in 1 .. Len(w) - 1 : Tail(w)[i] = w[i + 1]
  OBVIOUS
<1>2. s + 1 <= m /\ w[1].id = st[s + 1]
  <2>1. 1 \in 0 .. Len(w) /\ \A j \in (0 + 1) .. 1 : w[j].t = "frame"
    BY <1>1
  <2>2. s + 1 - 0 <= m /\ w[1].id = st[s + 1 - 0]
    BY <2>1 DEF FlowOn
  <2> QED BY <2>2
<1>3. FlowOn(Tail(w), m, st, 0, s + 1)
  <2> DEFINE u == Tail(w)
  <2> HIDE DEF u
  <2> SUFFICES ASSUME NEW n \in 0 .. Len(u), \A j \in (0 + 1) .. n : u[j].t = "frame"
               PROVE  /\ (s + 1) + n - 0 <= m
                      /\ n > 0 => u[n].id = st[(s + 1) + n - 0]
                      /\ n = Len(u) => (s + 1) + n - 0 = m
    BY DEF FlowOn, u
  <2>1. n + 1 \in 0 .. Len(w) /\ n \in Int /\ n <= Len(w) - 1
    BY <1>1 DEF u
  <2>2. \A j \in (0 + 1) .. (n + 1) : w[j].t = "frame"
    <3> SUFFICES ASSUME NEW j \in 1 .. (n + 1) PROVE w[j].t = "frame"
      OBVIOUS
    <3>1. CASE j = 1
      BY <3>1
    <3>2. CASE j # 1
      <4>1. j - 1 \in 1 .. n /\ j - 1 \in 1 .. Len(w) - 1 /\ (j - 1) + 1 = j
        BY <2>1, <3>2
      <4>2. w[j] = u[j - 1]
        BY <1>1, <4>1 DEF u
      <4> QED BY <4>1, <4>2
    <3> QED BY <3>1, <3>2
  <2>3. /\ s + (n + 1) - 0 <= m
        /\ n + 1 > 0 => w[n + 1].id = st[s + (n + 1) - 0]
        /\ n + 1 = Len(w) => s + (n + 1) - 0 = m
    BY <2>1, <2>2 DEF FlowOn
  <2>4. s + (n + 1) - 0 = (s + 1) + n - 0
    BY <2>1
  <2>5. n > 0 => n \in 1 .. Len(w) - 1
    BY <2>1
  <2>6. n > 0 => u[n] = w[n + 1]
    BY <1>1, <2>5 DEF u
  <2>7. (n > 0 => n + 1 > 0) /\ (n = Len(u) => n + 1 = Len(w))
    <3>1. Len(u) = Len(w) - 1 /\ Len(w) \in Nat
      BY <1>1 DEF u
    <3> QED BY <2>1, <3>1
  <2> QED BY <2>3, <2>4, <2>6, <2>7
<1> QED BY <1>2, <1>3

\* The bound of what the header leaves.
LEMMA FlowBound ==
    ASSUME NEW w \in Seq(Message), NEW m \in Nat, NEW st \in Seq(Id),
           NEW k \in Nat, NEW s \in Nat, k <= Len(w), FlowOn(w, m, st, k, s)
    PROVE  s <= m
<1>1. k \in k .. Len(w) /\ \A j \in (k + 1) .. k : w[j].t = "frame"
  OBVIOUS
<1>2. s + k - k <= m
  BY <1>1 DEF FlowOn
<1> QED BY <1>2

\* A GETACK is put on the wire: what lies behind it no longer counts.
LEMMA FlowMark ==
    ASSUME NEW w \in Seq(Message), NEW m \in Nat, NEW st \in Seq(Id),
           NEW k \in Nat, NEW s \in Nat, k <= Len(w), FlowOn(w, m, st, k, s)
    PROVE  FlowOn(w \o <<[t |-> "getack"]>>, m, st, k, s)
<1> DEFINE g == [t |-> "getack"]
           u == w \o <<g>>
<1>0. g \in Message
  BY DEF Message
<1>1. /\ Len(u) = Len(w) + 1 /\ Len(w) \in Nat /\ u[Len(w) + 1].t = "getack"
      /\ \A i \in 1 .. Len(w) : u[i] = w[i]
  BY <1>0
<1> HIDE DEF u
<1> SUFFICES ASSUME NEW n \in k .. Len(u), \A j \in (k + 1) .. n : u[j].t = "frame"
             PROVE  /\ s + n - k <= m
                    /\ n > k => u[n].id = st[s + n - k]
                    /\ n = Len(u) => s + n - k = m
  BY DEF FlowOn, u
<1>2. n # Len(w) + 1
  <2>1. ASSUME n = Len(w) + 1 PROVE FALSE
    <3>1. Len(w) + 1 \in (k + 1) .. n
      BY <1>1, <2>1
    <3> QED BY <1>1, <3>1
  <2> QED BY <2>1
<1>3. n \in k .. Len(w) /\ n # Len(u)
  BY <1>1, <1>2
<1>4. \A j \in (k + 1) .. n : w[j].t = "frame"
  <2> SUFFICES ASSUME NEW j \in (k + 1) .. n PROVE w[j].t = "frame"
    OBVIOUS
  <2>1. j \in 1 .. Len(w)
    BY <1>1, <1>3
  <2> QED BY <1>1, <2>1
<1>5. s + n - k <= m /\ (n > k => w[n].id = st[s + n - k])
  BY <1>3, <1>4 DEF FlowOn
<1>6. n > k => n \in 1 .. Len(w)
  BY <1>1, <1>3
<1> QED BY <1>1, <1>3, <1>5, <1>6

\* Frames are put on the wire.
LEMMA FlowSend ==
    ASSUME NEW w \in Seq(Message), NEW m \in Nat, NEW st \in Seq(Id), NEW b \in Seq(Id),
           NEW k \in Nat, NEW s \in Nat, k <= Len(w), FlowOn(w, m, st, k, s),
           \A i \in 1 .. Len(b) : st[m + i] = b[i]
    PROVE  FlowOn(w \o [i \in DOMAIN b |-> Frame(b[i])], m + Len(b), st, k, s)
<1> DEFINE f == [i \in DOMAIN b |-> Frame(b[i])]
           u == w \o f
<1>1. Len(w) \in Nat /\ Len(b) \in Nat /\ f \in Seq(Message) /\ Len(f) = Len(b)
  <2>1. f \in Seq(Message) /\ DOMAIN f = 1 .. Len(b)
    BY FramesType
  <2> HIDE DEF f
  <2> QED BY <2>1, LenProperties
<1>2. \A i \in 1 .. Len(b) : f[i] = Frame(b[i])
  OBVIOUS
<1>a. Len(w) \in Nat /\ Len(b) \in Nat
  BY <1>1
<1> HIDE DEF f
<1>3. /\ Len(u) = Len(w) + Len(b)
      /\ \A i \in 1 .. Len(w) : u[i] = w[i]
      /\ \A i \in 1 .. Len(b) : u[Len(w) + i] = f[i]
  <2>1. /\ Len(u) = Len(w) + Len(f)
        /\ \A i \in 1 .. Len(w) + Len(f) : u[i] = IF i <= Len(w) THEN w[i] ELSE f[i - Len(w)]
    BY <1>1, ConcatProperties
  <2> HIDE DEF u
  <2>2. \A i \in 1 .. Len(b) : Len(w) + i \in 1 .. Len(w) + Len(f) /\ ~(Len(w) + i <= Len(w)) /\ (Len(w) + i) - Len(w) = i
    BY <1>1
  <2>3. \A i \in 1 .. Len(w) : i \in 1 .. Len(w) + Len(f) /\ i <= Len(w)
    BY <1>1
  <2> QED BY <1>1, <2>1, <2>2, <2>3
<1> HIDE DEF u
<1> SUFFICES ASSUME NEW n \in k .. Len(u), \A j \in (k + 1) .. n : u[j].t = "frame"
             PROVE  /\ s + n - k <= m + Len(b)
                    /\ n > k => u[n].id = st[s + n - k]
                    /\ n = Len(u) => s + n - k = m + Len(b)
  BY DEF FlowOn, u, f
<1>b. n \in Int /\ n >= k /\ n <= Len(w) + Len(b)
  BY <1>a, <1>3
<1>4. ASSUME NEW p \in k .. Len(w), p <= n
      PROVE  /\ s + p - k <= m
             /\ p > k => w[p].id = st[s + p - k]
             /\ p = Len(w) => s + p - k = m
  <2>1. \A j \in (k + 1) .. p : w[j].t = "frame"
    <3> SUFFICES ASSUME NEW j \in (k + 1) .. p PROVE w[j].t = "frame"
      OBVIOUS
    <3>1. j \in 1 .. Len(w) /\ j \in (k + 1) .. n
      BY <1>a, <1>3, <1>4
    <3> QED BY <1>3, <3>1
  <2> QED BY <1>4, <2>1 DEF FlowOn
<1>5. CASE n <= Len(w)
  <2>1. n \in k .. Len(w)
    BY <1>a, <1>3, <1>5
  <2>2. /\ s + n - k <= m
        /\ n > k => w[n].id = st[s + n - k]
        /\ n = Len(w) => s + n - k = m
    BY <1>4, <2>1
  <2>3. n > k => n \in 1 .. Len(w)
    BY <2>1
  <2>4. n = Len(u) => n = Len(w) /\ Len(b) = 0
    BY <1>a, <1>3, <1>5
  <2>5. n > k => u[n].id = st[s + n - k]
    BY <1>3, <2>2, <2>3
  <2>6. s + n - k <= m + Len(b)
    BY <1>a, <2>1, <2>2
  <2>7. n = Len(u) => s + n - k = m + Len(b)
    BY <1>a, <2>2, <2>4
  <2> QED BY <2>5, <2>6, <2>7
<1>6. CASE n > Len(w)
  <2>1. Len(w) \in k .. Len(w) /\ Len(w) <= n
    BY <1>a, <1>6
  <2>2. s + Len(w) - k = m
    BY <1>4, <2>1
  <2>3. n - Len(w) \in 1 .. Len(b) /\ n = Len(w) + (n - Len(w))
    BY <1>a, <1>3, <1>6
  <2>4. s + n - k = m + (n - Len(w))
    <3>1. ASSUME NEW l \in Nat, NEW p \in Int, s + l - k = m PROVE s + p - k = m + (p - l)
      BY <3>1
    <3> QED BY <1>a, <1>b, <2>2, <3>1
  <2>5. u[n] = Frame(b[n - Len(w)])
    BY <1>2, <1>3, <2>3
  <2>6. u[n].id = st[s + n - k]
    <3>1. u[n].id = b[n - Len(w)]
      BY <2>5 DEF Frame
    <3> QED BY <2>3, <2>4, <3>1
  <2>7. n = Len(u) => n - Len(w) = Len(b)
    BY <1>a, <1>3
  <2>8. s + n - k <= m + Len(b)
    BY <1>a, <1>b, <2>4
  <2>9. n = Len(u) => s + n - k = m + Len(b)
    BY <1>a, <1>b, <2>4, <2>7
  <2> QED BY <2>6, <2>8, <2>9
<1> QED BY <1>a, <1>3, <1>5, <1>6

\* The wire and what was sent stay while the backlog grows.
LEMMA FlowGrows ==
    ASSUME NEW w \in Seq(Message), NEW m \in Nat, NEW st \in Seq(Id), NEW su \in Seq(Id),
           NEW k \in Nat, NEW s \in Nat, FlowOn(w, m, st, k, s),
           \A i \in 1 .. m : su[i] = st[i]
    PROVE  FlowOn(w, m, su, k, s)
<1> SUFFICES ASSUME NEW n \in k .. Len(w), \A j \in (k + 1) .. n : w[j].t = "frame"
             PROVE  /\ s + n - k <= m
                    /\ n > k => w[n].id = su[s + n - k]
                    /\ n = Len(w) => s + n - k = m
  BY DEF FlowOn
<1>1. /\ s + n - k <= m
      /\ n > k => w[n].id = st[s + n - k]
      /\ n = Len(w) => s + n - k = m
  BY DEF FlowOn
<1>2. n > k => s + n - k \in 1 .. m
  BY <1>1
<1> QED BY <1>1, <1>2

\* A header with nothing behind it.
LEMMA FlowStart ==
    ASSUME NEW w \in Seq(Message), NEW st \in Seq(Id), NEW s \in Nat
    PROVE  FlowOn(w, s, st, Len(w), s)
<1>1. Len(w) \in Nat
  OBVIOUS
<1>2. \A n \in Len(w) .. Len(w) : n = Len(w)
  BY <1>1
<1> QED BY <1>1, <1>2 DEF FlowOn

\* The k-th message is a dump of the keyspace as of offset s.
Dump(k, s) ==
    /\ k <= Len(wire) /\ wire[k].t = "rdb"
    /\ Len(wire[k].dump) = Base + s /\ Numbered(wire[k].dump)
    /\ acked <= s

\* What the replica has still to read once the master is through with PSYNC.
Unread ==
    \/ /\ rpc = "psync" /\ wire # <<>> /\ wire[1].t = "continue"
       /\ known /\ Flow(1, roff)
    \/ /\ rpc = "psync" /\ wire # <<>> /\ wire[1].t = "full"
       /\ Dump(2, wire[1].off) /\ Flow(2, wire[1].off)
    \/ /\ rpc = "sync" /\ known /\ Dump(1, roff) /\ Flow(1, roff)
    \/ /\ rpc = "stream" /\ known /\ Flow(0, roff)

\* The wire by the step psyncCmd is at.
Wired ==
    Clean /\ alive =>
      /\ hpc \in {"activate", "check", "offset", "snapshot", "reply"} => wire = <<>> /\ rpc = "psync"
      /\ hpc \in {"offset", "slice"} => known /\ Contains(roff)
      /\ hpc = "slice" => /\ hoff = Len(stream)
                          /\ \/ rpc = "psync" /\ wire = <<[t |-> "continue"]>>
                             \/ rpc = "stream" /\ wire = <<>>
      /\ hpc = "reply" => hbuf = data
      /\ hpc \in {"attach", "none"} => Unread

\* What the replica has counted: the frame in the applier's hands included.
Held == rdata \o hand

\* That is the master's keyspace as of the replica's offset, and it covers
\* what was acknowledged.
Copied ==
    /\ Clean => /\ acked <= Len(stream)
                /\ known /\ rpc # "sync" => roff <= Len(stream)
    /\ mishap = {} =>
         /\ Numbered(Held)
         /\ known /\ rpc # "sync" => Len(Held) = Base + roff
         /\ acked # 0 => Base + acked <= Len(Held)

\* It is a sequence of writes.
LEMMA HeldType == ASSUME Types PROVE Held \in Seq(Id) /\ Len(Held) \in Nat
<1>1. rdata \in Seq(Id) /\ hand \in Seq(Id)
  BY DEF Types, ReplicaTypes
<1> QED BY <1>1 DEF Held

\* What the loop has sent and what it holds is the start of the backlog.
LEMMA SentPrefix ==
    ASSUME Types, Stages, "crossed" \notin mishap
    PROVE  /\ Len(fanned) \in Nat /\ Len(batch) \in Nat /\ Len(stream) \in Nat
           /\ Len(fanned) + Len(batch) <= Len(stream)
           /\ \A i \in 1 .. Len(batch) : stream[Len(fanned) + i] = batch[i]
           /\ batch = <<>> /\ pending = <<>> /\ (\A w \in Writer : wpc[w] = "idle")
                => Len(fanned) = Len(stream) /\ offset = Len(stream)
<1>0. fanned \in Seq(Id) /\ batch \in Seq(Id) /\ pending \in Seq(Id) /\ stream \in Seq(Id)
  BY DEF Types, FanTypes, ReplTypes
<1>1. wpc \in [Writer -> {"idle", "gate", "append", "store", "enqueue", "notify"}]
  BY DEF Types, WriterTypes
<1>2. /\ Len(Out) = Len(fanned) + Len(batch) + Len(pending)
      /\ \A i \in 1 .. Len(batch) : Out[Len(fanned) + i] = batch[i]
  <2> DEFINE f == fanned \o batch
  <2>1. /\ f \in Seq(Id) /\ Len(f) = Len(fanned) + Len(batch)
        /\ \A i \in 1 .. Len(batch) : f[Len(fanned) + i] = batch[i]
    BY <1>0
  <2> HIDE DEF f
  <2>2. Len(f \o pending) = Len(f) + Len(pending) /\ \A i \in 1 .. Len(f) : (f \o pending)[i] = f[i]
    <3>1. \A g, h \in Seq(Id) : Len(g \o h) = Len(g) + Len(h) /\ \A i \in 1 .. Len(g) : (g \o h)[i] = g[i]
      OBVIOUS
    <3> QED BY <1>0, <2>1, <3>1
  <2>3. \A i \in 1 .. Len(batch) : Len(fanned) + i \in 1 .. Len(f)
    BY <1>0, <2>1
  <2>4. Out = f \o pending
    BY DEF Out, f
  <2> QED BY <2>1, <2>2, <2>3, <2>4
<1>3. Out \in Seq(Id)
  BY OutType
<1>4. Out = stream \/ \E w \in Writer : wpc[w] # "idle" /\ wid[w] \in Id /\ stream = Append(Out, wid[w])
  <2>1. CASE \A w \in Writer : wpc[w] = "idle"
    BY <2>1 DEF Stages, InStep
  <2>2. ASSUME NEW w \in Writer, wpc[w] # "idle"
        PROVE  Out = stream \/ (wid[w] \in Id /\ stream = Append(Out, wid[w]))
    <3>1. wid[w] \in Id
      BY <2>2, ActiveId
    <3>2. wpc[w] \in {"gate", "append", "notify"} \/ wpc[w] \in {"store", "enqueue"}
      BY <1>1, <2>2
    <3>3. /\ wpc[w] \in {"gate", "append", "notify"} => Out = stream
          /\ wpc[w] \in {"store", "enqueue"} => stream = Append(Out, wid[w])
      BY DEF Stages, InStep
    <3> QED BY <3>1, <3>2, <3>3
  <2> QED BY <2>1, <2>2
<1>5. Len(Out) <= Len(stream) /\ \A i \in 1 .. Len(Out) : stream[i] = Out[i]
  <2>1. CASE Out = stream
    BY <1>3, <2>1
  <2>2. ASSUME NEW w \in Writer, wid[w] \in Id, stream = Append(Out, wid[w])
        PROVE  Len(Out) <= Len(stream) /\ \A i \in 1 .. Len(Out) : stream[i] = Out[i]
    <3> DEFINE o == Out
    <3>1. o \in Seq(Id)
      BY <1>3
    <3> HIDE DEF o
    <3>2. Len(o) <= Len(Append(o, wid[w])) /\ \A i \in 1 .. Len(o) : Append(o, wid[w])[i] = o[i]
      BY <2>2, <3>1
    <3> QED BY <2>2, <3>2 DEF o
  <2> QED BY <1>4, <2>1, <2>2
<1>6. Len(fanned) \in Nat /\ Len(batch) \in Nat /\ Len(pending) \in Nat /\ Len(stream) \in Nat
  BY <1>0
<1>7. \A i \in 1 .. Len(batch) : stream[Len(fanned) + i] = batch[i]
  <2>1. \A i \in 1 .. Len(batch) : Len(fanned) + i \in 1 .. Len(Out)
    BY <1>2, <1>6
  <2> QED BY <1>2, <1>5, <2>1
<1>8. Len(fanned) + Len(batch) <= Len(stream)
  BY <1>2, <1>5, <1>6
<1>9. ASSUME batch = <<>>, pending = <<>>, \A w \in Writer : wpc[w] = "idle"
      PROVE  Len(fanned) = Len(stream) /\ offset = Len(stream)
  <2>1. offset = Len(stream) /\ Len(Out) = Len(stream)
    BY <1>9 DEF Stages, InStep
  <2>2. Len(batch) = 0 /\ Len(pending) = 0
    BY <1>9
  <2> QED BY <1>2, <1>6, <2>1, <2>2
<1> QED BY <1>6, <1>7, <1>8, <1>9

\* During a handshake that races with nothing everything is at rest.
LEMMA AtRest ==
    ASSUME Types, Stages, Numbers, Calm, Clean, hpc # "none"
    PROVE  /\ Len(fanned) = Len(stream) /\ offset = Len(stream)
           /\ Len(data) = Base + Len(stream)
<1>1. "crossed" \notin mishap
  BY DEF Clean
<1>2. batch = <<>> /\ pending = <<>> /\ \A w \in Writer : wpc[w] = "idle"
  BY DEF Calm, Busy
<1>3. Lag = 0
  BY <1>2 DEF Lag
<1>4. Len(data) \in Nat /\ Len(stream) \in Nat
  BY DEF Types, Issued, ReplTypes
<1> QED BY <1>1, <1>2, <1>3, <1>4, SentPrefix DEF Base

\* Messages already on the wire keep their meaning while more are put behind
\* them, the backlog grows or the loop goes on.
LEMMA UnreadKept ==
    ASSUME Types, Unread, WireType',
           Len(wire) <= Len(wire'), \A i \in 1 .. Len(wire) : wire'[i] = wire[i],
           UNCHANGED <<rpc, roff, known>>, Base' = Base,
           acked' \in {acked, 0},
           \A k, s \in Nat : k <= Len(wire) /\ FlowOn(wire, Len(fanned), stream, k, s)
                               => FlowOn(wire', Len(fanned'), stream', k, s)
    PROVE  Unread'
<1>0. wire \in Seq(Message) /\ wire' \in Seq(Message) /\ Len(wire) \in Nat /\ Len(wire') \in Nat
      /\ roff \in Nat /\ acked \in Nat
  BY DEF Types, WireType, ReplicaTypes, LinkTypes
<1>1. \A k \in Nat \ {0} : k <= Len(wire) => wire'[k] = wire[k] /\ k <= Len(wire')
  BY <1>0
<1>2. wire # <<>> => 1 <= Len(wire) /\ wire' # <<>>
  <2>1. wire # <<>> => 1 <= Len(wire)
    BY <1>0
  <2>2. wire' = <<>> => Len(wire') = 0
    OBVIOUS
  <2> QED BY <1>0, <2>1, <2>2
<1>3. ASSUME NEW k \in Nat \ {0}, NEW s \in Nat, Dump(k, s)
      PROVE  /\ k <= Len(wire') /\ wire'[k].t = "rdb"
             /\ Len(wire'[k].dump) = Base' + s /\ Numbered(wire'[k].dump)
             /\ acked' <= s
  BY <1>0, <1>1, <1>3 DEF Dump
<1>4. CASE rpc = "psync" /\ wire # <<>> /\ wire[1].t = "continue" /\ known /\ Flow(1, roff)
  BY <1>0, <1>1, <1>2, <1>4 DEF Unread, Flow
<1>5. CASE rpc = "psync" /\ wire # <<>> /\ wire[1].t = "full"
           /\ Dump(2, wire[1].off) /\ Flow(2, wire[1].off)
  <2>1. wire[1].off \in Nat
    <3>1. wire[1] \in Message
      BY <1>0, <1>2, <1>5
    <3> QED BY <1>5, <3>1, MessageFields
  <2>2. wire'[1] = wire[1] /\ wire' # <<>> /\ rpc' = "psync" /\ 2 <= Len(wire)
    BY <1>1, <1>2, <1>5 DEF Dump
  <2>3. Flow(2, wire[1].off)'
    BY <1>5, <2>1, <2>2 DEF Flow
  <2>4. Dump(2, wire[1].off)'
    BY <1>3, <1>5, <2>1, <2>2 DEF Dump
  <2> QED BY <1>5, <2>2, <2>3, <2>4 DEF Unread
<1>6. CASE rpc = "sync" /\ known /\ Dump(1, roff) /\ Flow(1, roff)
  <2>1. Dump(1, roff)'
    BY <1>0, <1>3, <1>6 DEF Dump
  <2>2. Flow(1, roff)'
    BY <1>0, <1>6 DEF Flow, Dump
  <2> QED BY <1>6, <2>1, <2>2 DEF Unread
<1>7. CASE rpc = "stream" /\ known /\ Flow(0, roff)
  <2>1. Flow(0, roff)'
    BY <1>0, <1>7 DEF Flow
  <2> QED BY <1>7, <2>1 DEF Unread
<1> QED BY <1>4, <1>5, <1>6, <1>7 DEF Unread

\* A handshake is over when a writer moves, or there is a mishap.
LEMMA WiredWriter ==
    ASSUME Types, Types', Stages, Joined, Asleep, Numbers, Calm, Wired,
           NEW w \in Writer, Mutate(w) \/ WriterStep(w)
    PROVE  Wired'
<1> SUFFICES ASSUME Clean', alive' PROVE Wired'
  BY DEF Wired
<1>1. /\ UNCHANGED <<wire, fanned, rpc, roff, known, acked, alive, hpc>>
      /\ mishap \subseteq mishap'
  BY DEF WriterStep, Mutate, Gate, AppendFrame, StoreOffset, Enqueue, Notify, fan, psync, link, replica
<1>2. Clean /\ "crossed" \notin mishap' /\ "crossed" \notin mishap
  BY <1>1 DEF Clean
<1>3. hpc = "none"
  <2>1. CASE Mutate(w)
    <3>1. hpc # "none" => "raced" \in mishap'
      BY <2>1 DEF Mutate
    <3> QED BY <3>1 DEF Clean
  <2>2. CASE WriterStep(w)
    <3>1. wpc[w] # "idle"
      BY <2>2 DEF WriterStep, Gate, AppendFrame, StoreOffset, Enqueue, Notify
    <3> QED BY <1>2, <3>1 DEF Calm, Busy
  <2> QED BY <2>1, <2>2
<1>4. activated /\ Unread
  BY <1>1, <1>2, <1>3 DEF Joined, Asleep, Wired
<1>5. Base' = Base
  BY <1>2, <1>4, NumbersWriter
<1>6. stream' \in Seq(Id) /\ \A i \in 1 .. Len(fanned) : stream'[i] = stream[i]
  <2>1. stream \in Seq(Id) /\ Len(fanned) <= Len(stream) /\ Len(fanned) \in Nat /\ Len(stream) \in Nat
    <3>1. /\ Len(fanned) \in Nat /\ Len(batch) \in Nat /\ Len(stream) \in Nat
          /\ Len(fanned) + Len(batch) <= Len(stream)
      BY <1>2, SentPrefix
    <3> QED BY <3>1 DEF Types, ReplTypes
  <2>2. stream' = stream \/ (wid[w] \in Id /\ stream' = Append(stream, wid[w]))
    <3>1. CASE AppendFrame(w)
      <4>1. wid[w] \in Id
        BY <3>1, ActiveId DEF AppendFrame
      <4> QED BY <3>1, <4>1 DEF AppendFrame
    <3>2. CASE Mutate(w) \/ Gate(w) \/ StoreOffset(w) \/ Enqueue(w) \/ Notify(w)
      BY <3>2 DEF Mutate, Gate, StoreOffset, Enqueue, Notify, repl
    <3> QED BY <3>1, <3>2 DEF WriterStep
  <2>3. stream' \in Seq(Id)
    BY DEF Types, ReplTypes
  <2>4. ASSUME wid[w] \in Id, stream' = Append(stream, wid[w])
        PROVE  \A i \in 1 .. Len(stream) : stream'[i] = stream[i]
    BY <2>1, <2>4
  <2>5. \A i \in 1 .. Len(fanned) : i \in 1 .. Len(stream)
    BY <2>1
  <2> QED BY <2>2, <2>3, <2>4, <2>5
<1>7. ASSUME NEW k \in Nat, NEW s \in Nat, FlowOn(wire, Len(fanned), stream, k, s)
      PROVE  FlowOn(wire', Len(fanned'), stream', k, s)
  <2>1. wire \in Seq(Message) /\ Len(fanned) \in Nat /\ stream \in Seq(Id)
    BY DEF Types, WireType, FanTypes, ReplTypes
  <2> QED BY <1>1, <1>6, <1>7, <2>1, FlowGrows
<1>8. WireType' /\ Len(wire) \in Nat
  BY DEF Types, WireType
<1>9. Unread'
  BY <1>1, <1>4, <1>5, <1>7, <1>8, UnreadKept
<1> QED BY <1>1, <1>3, <1>9 DEF Wired

\* The loop sends what the wire is short of.
LEMMA WiredFanout ==
    ASSUME Types, Types', BatchHeld, Stages, Joined, Numbers, Calm, Wired, FanoutStep
    PROVE  Wired'
<1> SUFFICES ASSUME Clean', alive' PROVE Wired'
  BY DEF Wired
<1>1. UNCHANGED <<data, wpc, wid, activated, stream, offset, hpc, hbuf, hoff,
                  acked, alive, rpc, rdata, hand, roff, known, mishap>>
  BY FanoutKeeps
<1>2. Clean /\ "crossed" \notin mishap /\ Base' = Base
  BY <1>1, NumbersKept DEF Clean
<1>3. wire \in Seq(Message) /\ Len(wire) \in Nat /\ stream \in Seq(Id) /\ batch \in Seq(Id) /\ fanned \in Seq(Id)
  BY DEF Types, WireType, FanTypes, ReplTypes
<1>4. CASE Wake \/ Drain \/ ListReplicas
  <2>1. UNCHANGED <<wire, fanned>>
    BY <1>4 DEF Wake, Drain, ListReplicas
  <2>2. Unread => Unread'
    BY <1>1, <1>2, <2>1 DEF Unread, Dump, Flow
  <2> QED BY <1>1, <1>2, <2>1, <2>2 DEF Wired, Contains, First
<1>5. CASE SendBatch
  <2>1. hpc = "none" /\ target
    <3>1. batch # <<>>
      BY <1>5 DEF SendBatch, Joined
    <3> QED BY <1>1, <1>2, <1>5, <3>1 DEF Calm, Busy, SendBatch
  <2>2. wire' = wire \o [i \in DOMAIN batch |-> Frame(batch[i])] /\ fanned' = fanned \o batch
    <3>1. Put([i \in DOMAIN batch |-> Frame(batch[i])]) /\ fanned' = fanned \o batch
      BY <1>5, <2>1 DEF SendBatch
    <3>2. alive
      BY <1>1
    <3> QED BY <3>1, <3>2, Zenon DEF Put
  <2>3. /\ Len(fanned) \in Nat /\ \A i \in 1 .. Len(batch) : stream[Len(fanned) + i] = batch[i]
    BY <1>2, SentPrefix
  <2>4. Len(fanned') = Len(fanned) + Len(batch)
    BY <1>3, <2>2
  <2>5. ASSUME NEW k \in Nat, NEW s \in Nat, k <= Len(wire), FlowOn(wire, Len(fanned), stream, k, s)
        PROVE  FlowOn(wire', Len(fanned'), stream', k, s)
    <3>1. FlowOn(wire \o [i \in DOMAIN batch |-> Frame(batch[i])], Len(fanned) + Len(batch), stream, k, s)
      BY <1>3, <2>3, <2>5, FlowSend
    <3> QED BY <1>1, <2>2, <2>4, <3>1, Zenon
  <2>6. Len(wire) <= Len(wire') /\ \A i \in 1 .. Len(wire) : wire'[i] = wire[i]
    <3> DEFINE f == [i \in DOMAIN batch |-> Frame(batch[i])]
    <3>1. f \in Seq(Message)
      BY <1>3, FramesType
    <3> HIDE DEF f
    <3>2. \A g, h \in Seq(Message) : Len(g) <= Len(g \o h) /\ \A i \in 1 .. Len(g) : (g \o h)[i] = g[i]
      OBVIOUS
    <3> QED BY <1>3, <2>2, <3>1, <3>2 DEF f
  <2>7. WireType' /\ Unread
    BY <1>1, <1>2, <2>1 DEF Types, Wired
  <2>8. Unread'
    BY <1>1, <1>2, <2>5, <2>6, <2>7, UnreadKept
  <2> QED BY <1>1, <2>1, <2>8 DEF Wired
<1> QED BY <1>4, <1>5 DEF FanoutStep

\* What Backlog.Slice returns up to the end of the backlog.
LEMMA SliceAll ==
    ASSUME stream \in Seq(Id), NEW o \in Nat, Contains(o), NEW n \in Nat, o + n = Len(stream)
    PROVE  /\ Slice(o, n) \in Seq(Id) /\ Len(Slice(o, n)) = Len(stream) - o
           /\ \A i \in 1 .. Len(stream) - o : Slice(o, n)[i] = stream[o + i]
<1>1. Slice(o, n) = SubSeq(stream, o + 1, Len(stream))
  BY DEF Slice
<1>2. o <= Len(stream) /\ Len(stream) \in Nat
  BY DEF Contains
<1>3. /\ Len(SubSeq(stream, o + 1, Len(stream))) = Len(stream) - o
      /\ \A i \in 1 .. Len(stream) - o : SubSeq(stream, o + 1, Len(stream))[i] = stream[o + i]
  BY <1>2
<1> QED BY <1>1, <1>3, SliceType

\* The replay of the backlog puts exactly the missing frames on the wire.
LEMMA ReplayUnread ==
    ASSUME Types, Types', Stages, Joined, Numbers, Calm, Wired, Clean, alive, Replay
    PROVE  Unread'
<1>0. wire \in Seq(Message) /\ stream \in Seq(Id) /\ roff \in Nat /\ Len(stream) \in Nat
  BY DEF Types, WireType, ReplTypes, ReplicaTypes
<1>1. UNCHANGED <<stream, fanned, rpc, roff, known>> /\ hpc = "slice"
  BY DEF Replay, repl, fan, replica
<1>2. Len(fanned) = Len(stream)
  BY <1>1, AtRest
<1>3. known /\ Contains(roff) /\ hoff = Len(stream) /\ roff <= Len(stream)
  BY <1>1 DEF Wired, Contains
<1>4. \/ rpc = "psync" /\ wire = <<[t |-> "continue"]>>
      \/ rpc = "stream" /\ wire = <<>>
  BY <1>1 DEF Wired
<1>5. FlowOn(wire', Len(stream), stream, Len(wire), roff)
  <2>1. FlowOn(wire, roff, stream, Len(wire), roff)
    BY <1>0, FlowStart
  <2>2. CASE hoff > roff
    <3> DEFINE b == Slice(roff, hoff - roff)
    <3>1. hoff - roff \in Nat /\ roff + (hoff - roff) = Len(stream)
      BY <1>0, <1>3, <2>2
    <3>2. /\ b \in Seq(Id) /\ Len(b) = Len(stream) - roff
          /\ \A i \in 1 .. Len(stream) - roff : b[i] = stream[roff + i]
      BY <1>0, <1>3, <3>1, SliceAll
    <3>3. Put([i \in DOMAIN b |-> Frame(b[i])])
      BY <2>2 DEF Replay
    <3> HIDE DEF b
    <3>4. wire' = wire \o [i \in DOMAIN b |-> Frame(b[i])]
      BY <3>3, Zenon DEF Put
    <3>5. Len(wire) \in Nat /\ Len(wire) <= Len(wire) /\ \A i \in 1 .. Len(b) : stream[roff + i] = b[i]
      BY <1>0, <3>2
    <3>6. FlowOn(wire \o [i \in DOMAIN b |-> Frame(b[i])], roff + Len(b), stream, Len(wire), roff)
      BY <1>0, <2>1, <3>2, <3>5, FlowSend
    <3>7. roff + Len(b) = Len(stream)
      BY <1>0, <3>2
    <3> QED BY <3>4, <3>6, <3>7, Zenon
  <2>3. CASE ~(hoff > roff)
    <3>1. roff = Len(stream)
      BY <1>0, <1>3, <2>3
    <3>2. wire' = wire
      BY <2>3 DEF Replay
    <3> QED BY <2>1, <3>1, <3>2
  <2> QED BY <2>2, <2>3
<1>6. CASE rpc = "psync" /\ wire = <<[t |-> "continue"]>>
  <2>1. Len(wire) = 1 /\ wire[1].t = "continue"
    BY <1>6
  <2>2. Flow(1, roff)'
    BY <1>1, <1>2, <1>5, <2>1 DEF Flow
  <2>3. wire' # <<>> /\ wire'[1] = wire[1]
    <3>1. PICK f \in Seq(Message) : wire' = wire \o f
      <4>1. CASE hoff > roff
        <5> DEFINE b == Slice(roff, hoff - roff)
        <5>1. hoff - roff \in Nat /\ Put([i \in DOMAIN b |-> Frame(b[i])])
          BY <1>0, <1>3, <4>1 DEF Replay
        <5>2. b \in Seq(Id)
          BY <1>0, <5>1, SliceType
        <5> HIDE DEF b
        <5>3. [i \in DOMAIN b |-> Frame(b[i])] \in Seq(Message)
          BY <5>2, FramesType
        <5> QED BY <5>1, <5>3, Zenon DEF Put
      <4>2. CASE ~(hoff > roff)
        <5>1. wire' = wire /\ <<>> \in Seq(Message)
          BY <4>2 DEF Replay
        <5>2. wire \o <<>> = wire
          BY <1>0
        <5> QED BY <5>1, <5>2
      <4> QED BY <4>1, <4>2
    <3>2. \A g, h \in Seq(Message) : Len(g) = 1 => g \o h # <<>> /\ (g \o h)[1] = g[1]
      <4> SUFFICES ASSUME NEW g \in Seq(Message), NEW h \in Seq(Message), Len(g) = 1
                   PROVE  g \o h # <<>> /\ (g \o h)[1] = g[1]
        OBVIOUS
      <4>1. Len(g \o h) = 1 + Len(h) /\ Len(h) \in Nat /\ (g \o h)[1] = g[1]
        <5>1. Len(h) \in Nat /\ 1 \in 1 .. Len(g) + Len(h) /\ 1 <= Len(g)
          OBVIOUS
        <5> QED BY <5>1, ConcatProperties
      <4>2. g \o h = <<>> => Len(g \o h) = 0
        OBVIOUS
      <4> QED BY <4>1, <4>2
    <3> QED BY <1>0, <2>1, <3>1, <3>2
  <2> QED BY <1>1, <1>3, <1>6, <2>1, <2>2, <2>3 DEF Unread
<1>7. CASE rpc = "stream" /\ wire = <<>>
  <2>1. Len(wire) = 0
    BY <1>7
  <2>2. Flow(0, roff)'
    BY <1>1, <1>2, <1>5, <2>1 DEF Flow
  <2> QED BY <1>1, <1>3, <1>7, <2>2 DEF Unread
<1> QED BY <1>4, <1>6, <1>7

\* A full resync puts the dump of the very offset it announces on the wire.
LEMMA FullUnread ==
    ASSUME Types, Types', Stages, Joined, Numbers, Calm, Wired, Copied, Clean, alive, FullResync
    PROVE  Unread'
<1>0. stream \in Seq(Id) /\ Len(stream) \in Nat /\ data \in Seq(Id)
  BY DEF Types, ReplTypes, Issued
<1>1. UNCHANGED <<data, wpc, wid, stream, fanned, rpc, acked, mishap>> /\ hpc = "reply"
  BY DEF FullResync, writers, repl, fan, link, replica
<1>2. Len(fanned) = Len(stream) /\ offset = Len(stream) /\ Len(data) = Base + Len(stream)
  BY <1>1, AtRest
<1>3. wire = <<>> /\ rpc = "psync" /\ hbuf = data
  BY <1>1 DEF Wired
<1> DEFINE f == [t |-> "full", off |-> offset]
           d == [t |-> "rdb", dump |-> hbuf]
<1>4. /\ f \in Message /\ d \in Message /\ f.t = "full" /\ f.off = Len(stream)
      /\ d.t = "rdb" /\ d.dump = data
  BY <1>0, <1>2, <1>3 DEF Message
<1>5. wire' = wire \o <<f, d>>
  <2>1. Put(<<f, d>>)
    BY DEF FullResync
  <2> HIDE DEF f, d
  <2> QED BY <2>1, Zenon DEF Put
<1> HIDE DEF f, d
<1>6. wire' = <<f, d>>
  BY <1>3, <1>4, <1>5
<1>7. wire' \in Seq(Message) /\ Len(wire') = 2 /\ wire'[1] = f /\ wire'[2] = d /\ wire' # <<>>
  BY <1>4, <1>6
<1>8. Base' = Base /\ Numbered(data)
  BY <1>1, NumbersKept DEF Numbers
<1>9. Flow(2, wire[1].off)'
  <2>1. FlowOn(<<f, d>>, Len(stream), stream, 2, Len(stream))
    <3>1. <<f, d>> \in Seq(Message) /\ Len(<<f, d>>) = 2
      BY <1>4
    <3>2. FlowOn(<<f, d>>, Len(stream), stream, Len(<<f, d>>), Len(stream))
      BY <1>0, <3>1, FlowStart
    <3> QED BY <3>1, <3>2
  <2> QED BY <1>1, <1>2, <1>4, <1>6, <1>7, <2>1 DEF Flow
<1>10. Dump(2, wire[1].off)'
  <2>1. acked <= Len(stream)
    BY DEF Copied
  <2> QED BY <1>1, <1>2, <1>4, <1>7, <1>8, <2>1 DEF Dump
<1> QED BY <1>1, <1>3, <1>4, <1>7, <1>9, <1>10 DEF Unread

\* The steps of psyncCmd.
LEMMA WiredPsync ==
    ASSUME Types, Types', Stages, Joined, Numbers, Calm, Wired, Copied, PsyncStep
    PROVE  Wired'
<1> SUFFICES ASSUME Clean', alive' PROVE Wired'
  BY DEF Wired
<1>1. UNCHANGED <<data, wpc, wid, stream, fanned, alive, rpc, roff, known, mishap>>
  BY DEF PsyncStep, Activate, Decide, Continue, Replay, Snapshot, FullResync, Attach,
         writers, repl, fan, link, replica
<1>2. Clean /\ alive
  BY <1>1 DEF Clean
<1>3. CASE Activate
  BY <1>1, <1>2, <1>3 DEF Activate, Wired
<1>4. CASE Decide
  <2>1. /\ UNCHANGED wire /\ hpc = "check"
        /\ hpc' = IF known /\ Contains(roff) THEN "offset" ELSE "snapshot"
    BY <1>4 DEF Decide
  <2> QED BY <1>1, <1>2, <2>1 DEF Wired, Contains, First
<1>5. CASE Continue
  <2>1. Put(<<[t |-> "continue"]>>) /\ hpc = "offset" /\ hpc' = "slice" /\ hoff' = offset
    BY <1>5 DEF Continue
  <2>2. wire = <<>> /\ rpc = "psync" /\ known /\ Contains(roff)
    BY <1>2, <2>1 DEF Wired
  <2>3. wire' = <<[t |-> "continue"]>>
    <3>1. wire' = wire \o <<[t |-> "continue"]>>
      BY <1>2, <2>1, Zenon DEF Put
    <3> QED BY <2>2, <3>1
  <2>4. hoff' = Len(stream)
    BY <1>2, <2>1, AtRest
  <2> QED BY <1>1, <2>1, <2>2, <2>3, <2>4 DEF Wired, Contains, First
<1>6. CASE Replay
  <2>1. Unread' /\ hpc' = "attach"
    BY <1>2, <1>6, ReplayUnread DEF Replay
  <2> QED BY <2>1 DEF Wired
<1>7. CASE Snapshot
  <2>1. hpc = "snapshot" /\ hpc' = "reply" /\ hbuf' = data /\ UNCHANGED wire
    BY <1>7 DEF Snapshot
  <2> QED BY <1>1, <1>2, <2>1 DEF Wired
<1>8. CASE FullResync
  <2>1. Unread' /\ hpc' = "attach"
    BY <1>2, <1>8, FullUnread DEF FullResync
  <2> QED BY <2>1 DEF Wired
<1>9. CASE Attach
  <2>1. hpc = "attach" /\ hpc' = "none" /\ acked' = 0 /\ UNCHANGED wire
    BY <1>9 DEF Attach
  <2>2. Unread /\ Base' = Base /\ WireType' /\ Len(wire) \in Nat
    BY <1>1, <1>2, <2>1, NumbersKept DEF Wired, Types, WireType
  <2>3. Unread'
    BY <1>1, <2>1, <2>2, UnreadKept
  <2> QED BY <2>1, <2>3 DEF Wired
<1> QED BY <1>3, <1>4, <1>5, <1>6, <1>7, <1>8, <1>9 DEF PsyncStep

\* What is read from a wire: its first message, and the rest stays in order.
LEMMA ReceiveRest ==
    ASSUME Types, NEW kind, Receive(kind)
    PROVE  /\ alive /\ wire \in Seq(Message) /\ wire # <<>> /\ wire[1] = Head(wire) /\ wire[1].t = kind
           /\ wire[1] \in Message
           /\ wire' = Tail(wire) /\ Len(wire') = Len(wire) - 1 /\ Len(wire) \in Nat /\ Len(wire) >= 1
           /\ \A i \in 1 .. Len(wire) - 1 : wire'[i] = wire[i + 1]
<1>1. alive /\ wire # <<>> /\ Head(wire).t = kind /\ wire' = Tail(wire) /\ wire \in Seq(Message)
  BY DEF Receive, Types, WireType
<1>2. /\ wire[1] = Head(wire) /\ wire[1] \in Message /\ Len(Tail(wire)) = Len(wire) - 1
      /\ Len(wire) \in Nat /\ Len(wire) >= 1
      /\ \A i \in 1 .. Len(wire) - 1 : Tail(wire)[i] = wire[i + 1]
  BY <1>1
<1> QED BY <1>1, <1>2

\* What the replica may read, and where it then stands.
LEMMA ReadUnread ==
    ASSUME Types, Types', Stages, Joined, Numbers, Wired, Clean, hpc \in {"attach", "none"},
           RecvFull \/ RecvRdb \/ RecvContinue \/ RecvFrame
    PROVE  Unread'
<1>0. Len(fanned) \in Nat /\ stream \in Seq(Id) /\ roff \in Nat
  BY DEF Types, FanTypes, ReplTypes, ReplicaTypes
<1>1. /\ UNCHANGED <<data, wpc, wid, stream, fanned, acked>> /\ mishap \subseteq mishap'
      /\ \E kind : Receive(kind)
  BY DEF RecvFull, RecvRdb, RecvContinue, RecvFrame, writers, repl, fan, link
<1>2. Base' = Base
  BY <1>1, NumbersKept
<1>3. /\ alive /\ wire \in Seq(Message) /\ wire # <<>> /\ wire[1] = Head(wire) /\ wire[1] \in Message
      /\ wire' = Tail(wire) /\ Len(wire') = Len(wire) - 1 /\ Len(wire) \in Nat /\ Len(wire) >= 1
      /\ \A i \in 1 .. Len(wire) - 1 : wire'[i] = wire[i + 1]
  BY <1>1, ReceiveRest
<1>4. Unread
  BY <1>3 DEF Wired
<1>5. CASE RecvFull
  <2>1. rpc = "psync" /\ wire[1].t = "full" /\ known' = TRUE /\ roff' = wire[1].off /\ rpc' = "sync"
    BY <1>3, <1>5 DEF RecvFull, Receive
  <2>2. Dump(2, wire[1].off) /\ Flow(2, wire[1].off)
    BY <1>4, <2>1 DEF Unread
  <2>3. wire[1].off \in Nat
    BY <1>3, <2>1, MessageFields
  <2>4. FlowOn(wire', Len(fanned), stream, 1, roff')
    <3>1. FlowOn(Tail(wire), Len(fanned), stream, 2 - 1, wire[1].off)
      BY <1>0, <1>3, <2>2, <2>3, FlowTail DEF Flow
    <3> QED BY <1>3, <2>1, <3>1
  <2>5. Flow(1, roff)'
    BY <1>1, <2>4 DEF Flow
  <2>6. Dump(1, roff)'
    <3>1. 1 <= Len(wire') /\ wire'[1] = wire[2]
      BY <1>3, <2>2 DEF Dump
    <3> QED BY <1>1, <1>2, <2>1, <2>2, <3>1 DEF Dump
  <2> QED BY <2>1, <2>5, <2>6 DEF Unread
<1>6. CASE RecvRdb
  <2>1. rpc = "sync" /\ rpc' = "stream" /\ UNCHANGED <<roff, known>>
    BY <1>6 DEF RecvRdb
  <2>2. known /\ Flow(1, roff)
    BY <1>4, <2>1 DEF Unread
  <2>3. FlowOn(Tail(wire), Len(fanned), stream, 1 - 1, roff)
    BY <1>0, <1>3, <2>2, FlowTail DEF Flow
  <2>4. Flow(0, roff)'
    BY <1>1, <1>3, <2>1, <2>3 DEF Flow
  <2> QED BY <2>1, <2>2, <2>4 DEF Unread
<1>7. CASE RecvContinue
  <2>1. rpc = "psync" /\ wire[1].t = "continue" /\ rpc' = "stream" /\ UNCHANGED <<roff, known>>
    BY <1>3, <1>7 DEF RecvContinue, Receive
  <2>2. known /\ Flow(1, roff)
    BY <1>4, <2>1 DEF Unread
  <2>3. FlowOn(Tail(wire), Len(fanned), stream, 1 - 1, roff)
    BY <1>0, <1>3, <2>2, FlowTail DEF Flow
  <2>4. Flow(0, roff)'
    BY <1>1, <1>3, <2>1, <2>3 DEF Flow
  <2> QED BY <2>1, <2>2, <2>4 DEF Unread
<1>8. CASE RecvFrame
  <2>1. rpc = "stream" /\ wire[1].t = "frame" /\ roff' = roff + 1 /\ UNCHANGED <<rpc, known>>
    BY <1>3, <1>8 DEF RecvFrame, Receive
  <2>2. known /\ Flow(0, roff)
    BY <1>4, <2>1 DEF Unread
  <2>3. FlowOn(Tail(wire), Len(fanned), stream, 0, roff + 1)
    BY <1>0, <1>3, <2>1, <2>2, FlowFrame DEF Flow
  <2>4. Flow(0, roff)'
    BY <1>1, <1>3, <2>1, <2>3 DEF Flow
  <2> QED BY <2>1, <2>2, <2>4 DEF Unread
<1> QED BY <1>5, <1>6, <1>7, <1>8

\* The steps of the replica.
LEMMA WiredReplica ==
    ASSUME Types, Types', Stages, Joined, Numbers, Wired, ReplicaStep
    PROVE  Wired'
<1> SUFFICES ASSUME Clean', alive' PROVE Wired'
  BY DEF Wired
<1>0. mishap \subseteq mishap' /\ Clean
  BY Elsewhere DEF Clean
<1>1. CASE Connect
  BY <1>1 DEF Connect, Joined, Wired
<1>2. CASE RecvGetAck
  <2>1. "getack" \in mishap'
    BY <1>2 DEF RecvGetAck
  <2> QED BY <2>1 DEF Clean
<1>3. CASE RecvFull \/ RecvRdb \/ RecvContinue \/ RecvFrame
  <2>1. UNCHANGED <<data, stream, hpc, hbuf, hoff>> /\ \E kind : Receive(kind)
    BY <1>3 DEF RecvFull, RecvRdb, RecvContinue, RecvFrame, repl, psync
  <2>2. alive /\ wire # <<>> /\ wire' = Tail(wire) /\ wire[1] = Head(wire)
    BY <2>1, ReceiveRest
  <2>3. hpc \in {"attach", "none", "slice"}
    BY <1>0, <2>2 DEF Wired, Types, PsyncTypes
  <2>4. CASE hpc \in {"attach", "none"}
    <3>1. Unread'
      BY <1>0, <1>3, <2>4, ReadUnread
    <3> QED BY <2>1, <2>4, <3>1 DEF Wired
  <2>5. CASE hpc = "slice"
    <3>1. /\ known /\ Contains(roff) /\ hoff = Len(stream)
          /\ rpc = "psync" /\ wire = <<[t |-> "continue"]>>
      BY <1>0, <2>2, <2>5 DEF Wired
    <3>2. wire[1].t = "continue" /\ Tail(wire) = <<>>
      BY <3>1
    <3>3. RecvContinue
      BY <1>3, <2>2, <3>1, <3>2 DEF RecvFull, RecvRdb, RecvFrame, Receive
    <3>4. rpc' = "stream" /\ UNCHANGED <<roff, known>>
      BY <3>3 DEF RecvContinue
    <3> QED BY <2>1, <2>2, <2>5, <3>1, <3>2, <3>4 DEF Wired, Contains, First
  <2> QED BY <2>3, <2>4, <2>5
<1>4. CASE ApplyFrame \/ RefuseFrame
  <2>1. UNCHANGED <<data, wpc, wid, stream, fanned, acked, alive, hpc, hbuf, hoff, rpc, roff, known, wire>>
    BY <1>4 DEF ApplyFrame, RefuseFrame, writers, repl, fan, psync, link
  <2>2. Base' = Base
    BY <1>0, <2>1, NumbersKept
  <2> QED BY <1>0, <2>1, <2>2 DEF Wired, Contains, First, Unread, Dump, Flow
<1> QED BY <1>1, <1>2, <1>3, <1>4 DEF ReplicaStep

\* Heartbeats, WAIT and lost connections.
LEMMA WiredLink ==
    ASSUME Types, Types', Stages, Joined, Numbers, Wired,
           DropLink \/ Ack \/ WaitCmd \/ Break \/ Tear
    PROVE  Wired'
<1> SUFFICES ASSUME Clean', alive' PROVE Wired'
  BY DEF Wired
<1>0. mishap \subseteq mishap' /\ Clean /\ UNCHANGED <<data, wpc, wid, stream, offset>>
  BY Elsewhere DEF Clean
<1>1. Base' = Base
  BY <1>0, NumbersKept
<1>2. CASE DropLink \/ Break \/ Tear
  BY <1>2 DEF DropLink, Break, Tear, Lose
<1>3. CASE Ack
  <2>1. /\ UNCHANGED <<hpc, hbuf, hoff, wire, rpc, roff, known, fanned>>
        /\ attached /\ alive /\ rpc = "stream"
    BY <1>3 DEF Ack, psync, replica, fan
  <2>2. hpc = "none"
    BY <2>1 DEF Joined
  <2>3. Unread
    BY <1>0, <2>1, <2>2 DEF Wired
  <2>4. Unread'
    BY <1>0, <2>1, <2>3 DEF Unread, Flow
  <2> QED BY <2>1, <2>2, <2>4 DEF Wired
<1>4. CASE WaitCmd
  <2>1. /\ UNCHANGED <<hpc, rpc, roff, known, fanned, acked, alive>> /\ attached
        /\ Put(<<[t |-> "getack"]>>)
    BY <1>4 DEF WaitCmd, psync, replica, fan, link
  <2>2. hpc = "none" /\ alive
    BY <2>1 DEF Joined
  <2>3. Unread
    BY <1>0, <2>2 DEF Wired
  <2>4. wire' = wire \o <<[t |-> "getack"]>>
    BY <2>1, <2>2, Zenon DEF Put
  <2>5. wire \in Seq(Message) /\ Len(fanned) \in Nat /\ stream \in Seq(Id) /\ [t |-> "getack"] \in Message
    BY DEF Types, WireType, FanTypes, ReplTypes, Message
  <2>6. Len(wire) <= Len(wire') /\ \A i \in 1 .. Len(wire) : wire'[i] = wire[i]
    BY <2>4, <2>5
  <2>7. ASSUME NEW k \in Nat, NEW s \in Nat, k <= Len(wire), FlowOn(wire, Len(fanned), stream, k, s)
        PROVE  FlowOn(wire', Len(fanned'), stream', k, s)
    <3>1. FlowOn(wire \o <<[t |-> "getack"]>>, Len(fanned), stream, k, s)
      BY <2>5, <2>7, FlowMark
    <3> QED BY <1>0, <2>1, <2>4, <3>1
  <2>8. WireType'
    BY DEF Types
  <2>9. Unread'
    BY <1>1, <2>1, <2>3, <2>6, <2>7, <2>8, UnreadKept
  <2> QED BY <2>1, <2>2, <2>9 DEF Wired
<1> QED BY <1>2, <1>3, <1>4

\* What holds of the replica stays while it reads nothing and no dump is torn.
LEMMA CopiedKept ==
    ASSUME Types, Types', Copied, mishap \subseteq mishap', Len(stream) <= Len(stream'),
           UNCHANGED <<Held, roff, known>>, rpc' # "sync" => rpc # "sync",
           acked' \in {acked, 0},
           known \/ acked # 0 => (Clean' => Base' = Base)
    PROVE  Copied'
<1>1. Len(stream) \in Nat /\ Len(stream') \in Nat /\ roff \in Nat /\ acked \in Nat
  BY DEF Types, ReplTypes, ReplicaTypes, LinkTypes
<1>2. (Clean' => Clean) /\ (mishap' = {} => mishap = {} /\ Clean')
  BY DEF Clean
<1> QED BY <1>1, <1>2 DEF Copied

\* The steps of the replica, each reading one message.
LEMMA CopiedReplica ==
    ASSUME Types, Types', Stages, Joined, Numbers, Wired, Copied, ReplicaStep
    PROVE  Copied'
<1>0. /\ mishap \subseteq mishap' /\ UNCHANGED <<data, wpc, wid, stream>>
      /\ Len(stream) \in Nat /\ roff \in Nat /\ acked \in Nat
  BY Elsewhere DEF Types, ReplTypes, ReplicaTypes, LinkTypes
<1>1. Base' = Base
  BY <1>0, NumbersKept
<1>2. CASE Connect \/ RecvFull \/ RecvContinue
  <2>1. CASE Connect \/ RecvContinue
    <3>1. UNCHANGED <<Held, roff, known, acked>> /\ rpc # "sync"
      BY <2>1 DEF Connect, RecvContinue, link, Held
    <3> QED BY <1>0, <1>1, <3>1, CopiedKept
  <2>2. CASE RecvFull
    <3>1. UNCHANGED <<Held, acked, mishap>> /\ rpc' = "sync"
      BY <2>2 DEF RecvFull, link, Held
    <3> QED BY <1>0, <1>1, <3>1 DEF Copied, Clean
  <2> QED BY <1>2, <2>1, <2>2
<1>3. CASE RecvGetAck
  <2>1. "getack" \in mishap'
    BY <1>3 DEF RecvGetAck
  <2> QED BY <2>1 DEF Clean, Copied
<1>4. ASSUME RecvRdb \/ RecvFrame, Clean'
      PROVE  /\ Clean /\ Unread /\ Base \in Nat /\ Len(fanned) <= Len(stream) /\ Len(fanned) \in Nat
             /\ wire \in Seq(Message) /\ wire # <<>> /\ wire[1] = Head(wire) /\ wire[1] \in Message
             /\ acked' = acked /\ known' = known
             /\ Len(wire) \in Nat /\ Len(wire) >= 1
  <2>1. Clean /\ "crossed" \notin mishap
    BY <1>0, <1>4 DEF Clean
  <2>2. (\E kind : Receive(kind)) /\ rpc \in {"sync", "stream"} /\ acked' = acked /\ known' = known
    BY <1>4 DEF RecvRdb, RecvFrame, link
  <2>3. /\ alive /\ wire \in Seq(Message) /\ wire # <<>> /\ wire[1] = Head(wire) /\ wire[1] \in Message
        /\ Len(wire) \in Nat /\ Len(wire) >= 1
    BY <2>2, ReceiveRest
  <2>4. hpc \in {"attach", "none"}
    BY <2>1, <2>2, <2>3 DEF Wired, Types, PsyncTypes
  <2>5. Unread
    BY <2>1, <2>3, <2>4 DEF Wired
  <2>6. Len(fanned) \in Nat /\ Len(fanned) <= Len(stream)
    <3>1. /\ Len(fanned) \in Nat /\ Len(batch) \in Nat /\ Len(stream) \in Nat
          /\ Len(fanned) + Len(batch) <= Len(stream)
      BY <2>1, SentPrefix
    <3> QED BY <3>1
  <2>7. Base \in Nat
    BY <2>1 DEF Numbers
  <2> QED BY <2>1, <2>2, <2>3, <2>5, <2>6, <2>7
<1>a. stream \in Seq(Id)
  BY DEF Types, ReplTypes
<1>5. CASE RecvRdb
  <2> SUFFICES ASSUME Clean' PROVE Copied'
    BY DEF Copied, Clean
  <2>0. rpc = "sync" /\ rdata' = wire[1].dump /\ hand = <<>> /\ UNCHANGED <<hand, roff, mishap>>
    BY <1>4, <1>5 DEF RecvRdb, Receive
  <2>1. rpc = "sync" /\ Held' = wire[1].dump /\ UNCHANGED <<roff, mishap>>
    <3>1. rdata' \in Seq(Id)
      BY DEF Types, ReplicaTypes
    <3>2. rdata' \o <<>> = rdata'
      BY <3>1
    <3> QED BY <2>0, <3>2 DEF Held
  <2>2. Dump(1, roff) /\ Flow(1, roff)
    BY <1>4, <1>5, <2>1 DEF Unread
  <2>3. roff <= Len(fanned)
    BY <1>0, <1>a, <1>4, <1>5, <2>2, FlowBound DEF Flow
  <2>4. roff <= Len(stream)
    BY <1>0, <1>4, <1>5, <2>3
  <2>5. Len(Held') = Base + roff /\ Numbered(Held') /\ acked <= roff
    BY <2>1, <2>2 DEF Dump
  <2>6. acked' <= Len(stream') /\ roff' <= Len(stream') /\ Base' + acked' <= Len(Held')
    <3>1. Base \in Nat /\ acked' = acked
      BY <1>4, <1>5
    <3> HIDE DEF Base
    <3> QED BY <1>0, <1>1, <2>1, <2>4, <2>5, <3>1
  <2> QED BY <1>1, <2>1, <2>5, <2>6 DEF Copied
<1>6. CASE RecvFrame
  <2> SUFFICES ASSUME Clean' PROVE Copied'
    BY DEF Copied, Clean
  <2>1. rpc = "stream" /\ rpc' = "stream" /\ wire[1].t = "frame" /\ roff' = roff + 1
    BY <1>4, <1>6 DEF RecvFrame, Receive
  <2>2. known /\ Flow(0, roff)
    BY <1>4, <1>6, <2>1 DEF Unread
  <2>3. roff + 1 <= Len(fanned) /\ wire[1].id = stream[roff + 1]
    BY <1>0, <1>a, <1>4, <1>6, <2>1, <2>2, FlowFrame DEF Flow
  <2>4. roff + 1 <= Len(stream) /\ roff + 1 \in 1 .. Len(stream)
    BY <1>0, <1>4, <1>6, <2>3
  <2>5. acked' = acked /\ known' /\ acked <= Len(stream)
    BY <1>4, <1>6, <2>2 DEF Copied
  <2>6. ASSUME mishap' = {}
        PROVE  Numbered(Held') /\ Len(Held') = Base + roff + 1 /\ (acked # 0 => Base + acked <= Len(Held'))
    <3>1. mishap = {}
      BY <1>0, <2>6
    <3>2. Held' = Append(Held, wire[1].id)
      <4>1. rdata' = rdata /\ hand = <<>> /\ hand' = <<wire[1].id>>
        BY <1>4, <1>6 DEF RecvFrame, Receive
      <4>2. rdata \in Seq(Id)
        BY DEF Types, ReplicaTypes
      <4>3. wire[1].id \in Id
        BY <1>4, <1>6, <2>1, MessageFields
      <4>4. /\ rdata \o <<>> = rdata
            /\ rdata \o <<wire[1].id>> = Append(rdata, wire[1].id)
        BY <4>2, <4>3
      <4> QED BY <4>1, <4>4 DEF Held
    <3>3. /\ Held \in Seq(Id) /\ Numbered(Held) /\ Len(Held) = Base + roff
          /\ acked # 0 => Base + acked <= Len(Held)
      BY <2>1, <2>2, <3>1, HeldType DEF Copied
    <3>4. wire[1].id = Base + (roff + 1) /\ Base \in Nat /\ wire[1].id \in Id
      <4>1. stream[roff + 1] = Base + (roff + 1) /\ Base \in Nat
        BY <2>4, <3>1 DEF Numbers
      <4>2. wire[1].id \in Id
        BY <1>4, <1>6, <2>1, MessageFields
      <4> QED BY <2>3, <4>1, <4>2
    <3> HIDE DEF Base
    <3>5. Len(Held) + 1 = wire[1].id
      BY <1>0, <3>3, <3>4
    <3>6. Len(Held') = Len(Held) + 1 /\ Numbered(Held')
      <4>1. /\ Len(Append(Held, wire[1].id)) = Len(Held) + 1 /\ Len(Held) \in Nat
            /\ \A i \in 1 .. Len(Held) : Append(Held, wire[1].id)[i] = Held[i]
            /\ Append(Held, wire[1].id)[Len(Held) + 1] = wire[1].id
        BY <3>3, <3>4, AppendProperties
      <4>2. \A i \in 1 .. Len(Held) + 1 : i \in 1 .. Len(Held) \/ i = Len(Held) + 1
        BY <4>1
      <4> QED BY <3>2, <3>3, <3>5, <4>1, <4>2 DEF Numbered
    <3> QED BY <1>0, <3>3, <3>4, <3>6
  <2>7. roff' <= Len(stream') /\ acked' <= Len(stream')
    BY <1>0, <2>1, <2>4, <2>5
  <2>8. mishap' = {} => Len(Held') = Base' + roff'
    <3>1. mishap' = {} => Base \in Nat
      BY <1>4, <1>6
    <3> HIDE DEF Base
    <3> QED BY <1>0, <1>1, <2>1, <2>6, <3>1
  <2> QED BY <1>1, <2>5, <2>6, <2>7, <2>8 DEF Copied
<1>7. CASE ApplyFrame
  <2>1. /\ UNCHANGED <<data, wpc, wid, stream, roff, known, rpc, acked, mishap>>
        /\ hand' = <<>> /\ rdata' = rdata \o hand
    BY <1>7 DEF ApplyFrame, writers, repl, link
  <2>2. Held' = Held
    <3>1. rdata \o hand \in Seq(Id)
      BY DEF Types, ReplicaTypes
    <3>2. (rdata \o hand) \o <<>> = rdata \o hand
      BY <3>1
    <3> QED BY <2>1, <3>2 DEF Held
  <2> QED BY <1>0, <1>1, <2>1, <2>2, CopiedKept
<1>8. CASE RefuseFrame
  <2>1. "refused" \in mishap' /\ UNCHANGED <<stream, roff, known, rpc, acked>>
    BY <1>8 DEF RefuseFrame, repl, link
  <2>2. Clean' => Clean
    BY <1>0 DEF Clean
  <2> QED BY <2>1, <2>2 DEF Copied
<1> QED BY <1>2, <1>3, <1>5, <1>6, <1>7, <1>8 DEF ReplicaStep

\* Any step.
LEMMA CopiedStep ==
    ASSUME Types, Types', Stages, Joined, Asleep, Numbers, Wired, Copied, [Next]_vars
    PROVE  Copied'
<1>0. Len(stream) \in Nat /\ stream \in Seq(Id)
  BY DEF Types, ReplTypes
<1>1. CASE UNCHANGED vars
  <2>1. UNCHANGED <<data, wpc, wid, stream, Held, roff, known, rpc, acked, mishap>>
    BY <1>1 DEF vars, writers, repl, link, replica, Held
  <2>2. Base' = Base
    BY <2>1, NumbersKept
  <2> QED BY <1>0, <2>1, <2>2, CopiedKept
<1>2. ASSUME NEW w \in Writer, Mutate(w) \/ WriterStep(w) PROVE Copied'
  <2>1. UNCHANGED <<Held, roff, known, rpc, acked>> /\ mishap \subseteq mishap'
    BY <1>2 DEF WriterStep, Mutate, Gate, AppendFrame, StoreOffset, Enqueue, Notify, link, replica, Held
  <2>2. Len(stream) <= Len(stream')
    <3>1. CASE AppendFrame(w)
      <4>1. wid[w] \in Id
        BY <3>1, ActiveId DEF AppendFrame
      <4> QED BY <1>0, <3>1, <4>1 DEF AppendFrame
    <3>2. CASE Mutate(w) \/ Gate(w) \/ StoreOffset(w) \/ Enqueue(w) \/ Notify(w)
      BY <1>0, <3>2 DEF Mutate, Gate, StoreOffset, Enqueue, Notify, repl
    <3> QED BY <1>2, <3>1, <3>2 DEF WriterStep
  <2>3. known \/ acked # 0 => (Clean' => Base' = Base)
    <3>1. known \/ acked # 0 => activated
      BY DEF Asleep
    <3>2. Clean' => "crossed" \notin mishap'
      BY DEF Clean
    <3> QED BY <1>2, <3>1, <3>2, NumbersWriter
  <2> QED BY <2>1, <2>2, <2>3, CopiedKept
<1>3. CASE FanoutStep
  <2>1. UNCHANGED <<data, wpc, wid, stream, Held, roff, known, rpc, acked, mishap>>
    BY <1>3, FanoutKeeps DEF Held
  <2>2. Base' = Base
    BY <2>1, NumbersKept
  <2> QED BY <1>0, <2>1, <2>2, CopiedKept
<1>4. CASE PsyncStep
  <2>1. UNCHANGED <<data, wpc, wid, stream, Held, roff, known, rpc, mishap>> /\ acked' \in {acked, 0}
    BY <1>4 DEF PsyncStep, Activate, Decide, Continue, Replay, Snapshot, FullResync, Attach,
                writers, repl, link, replica, Held
  <2>2. Base' = Base
    BY <2>1, NumbersKept
  <2> QED BY <1>0, <2>1, <2>2, CopiedKept
<1>5. CASE ReplicaStep
  BY <1>5, CopiedReplica
<1>6. CASE DropLink \/ WaitCmd \/ Break \/ (Tear /\ rpc # "sync")
  <2>1. UNCHANGED <<data, wpc, wid, stream, Held, roff, known, acked>> /\ mishap \subseteq mishap'
    BY <1>6 DEF DropLink, WaitCmd, Break, Tear, Lose, writers, repl, link, replica, Held
  <2>2. rpc' # "sync" => rpc # "sync"
    BY <1>6 DEF DropLink, WaitCmd, Break, Tear, Lose, replica
  <2>3. Base' = Base
    BY <2>1, NumbersKept
  <2> QED BY <1>0, <2>1, <2>2, <2>3, CopiedKept
<1>7. CASE Tear /\ rpc = "sync"
  <2>1. "torn" \in mishap'
    BY <1>7 DEF Tear
  <2> QED BY <2>1 DEF Copied, Clean
<1>8. CASE Ack
  <2>1. /\ UNCHANGED <<data, wpc, wid, stream, Held, roff, known, rpc, mishap>>
        /\ acked' = roff /\ attached /\ alive /\ rpc = "stream"
    BY <1>8 DEF Ack, writers, repl, replica, Held
  <2>2. Base' = Base
    BY <2>1, NumbersKept
  <2>3. Clean => known
    BY <2>1 DEF Joined, Wired, Unread
  <2>4. Clean' => Clean
    BY <2>1 DEF Clean
  <2>5. mishap' = {} => mishap = {} /\ Clean
    BY <2>1 DEF Clean
  <2>6. Clean' => acked' <= Len(stream') /\ roff' <= Len(stream')
    BY <2>1, <2>3, <2>4 DEF Copied
  <2>7. mishap' = {} => Base' + acked' <= Len(Held')
    <3>1. mishap' = {} => Len(Held) = Base + roff
      BY <2>1, <2>3, <2>5 DEF Copied
    <3>2. Len(Held) \in Nat
      BY HeldType
    <3> QED BY <2>1, <2>2, <3>1, <3>2
  <2> QED BY <2>1, <2>2, <2>3, <2>5, <2>6, <2>7 DEF Copied
<1> QED BY <1>1, <1>2, <1>3, <1>4, <1>5, <1>6, <1>7, <1>8 DEF Next

\* All of it together.
SyncInv ==
    /\ Types /\ BatchHeld /\ Stages /\ Joined /\ Asleep
    /\ Numbers /\ Calm /\ Wired /\ Copied

\* The start.
LEMMA SyncInit == Init => SyncInv
<1> SUFFICES ASSUME Init PROVE SyncInv
  OBVIOUS
<1>1. /\ stream = <<>> /\ offset = 0 /\ batch = <<>> /\ fanned = <<>> /\ pending = <<>> /\ data = <<>>
      /\ \A w \in Writer : wpc[w] = "idle"
      /\ fpc = "wait" /\ target = FALSE /\ hpc = "none" /\ attached = FALSE /\ acked = 0
      /\ alive = FALSE /\ wire = <<>> /\ rpc = "down" /\ rdata = <<>> /\ hand = <<>>
      /\ roff = 0 /\ known = FALSE
  BY DEF Init
<1>2. Out = stream /\ Len(stream) = 0 /\ Len(data) = 0 /\ Len(Held) = 0
  BY <1>1 DEF Out, Held
<1>3. BatchHeld /\ Stages
  BY <1>1, <1>2 DEF BatchHeld, Stages, InStep
<1>4. Joined /\ Asleep
  BY <1>1 DEF Joined, Asleep
<1>5. Base = 0
  <2>1. Lag = 0
    BY <1>1 DEF Lag
  <2> QED BY <1>2, <2>1 DEF Base
<1>6. Numbers
  BY <1>1, <1>2, <1>5 DEF Numbers, Numbered
<1>7. Calm /\ Wired
  BY <1>1 DEF Calm, Wired
<1>8. Copied
  BY <1>1, <1>2 DEF Copied, Numbered
<1> QED BY <1>3, <1>4, <1>6, <1>7, <1>8, InitTypes DEF SyncInv

\* Any step.
LEMMA SyncStep == SyncInv /\ [Next]_vars => SyncInv'
<1> SUFFICES ASSUME SyncInv, [Next]_vars PROVE SyncInv'
  OBVIOUS
<1> USE DEF SyncInv
<1>1. Types'
  BY StepTypes
<1>2. BatchHeld' /\ Stages'
  BY StagesStep
<1>3. Joined' /\ Asleep'
  BY JoinedStep, AsleepStep
<1>4. Numbers' /\ Calm'
  BY NumbersStep, CalmStep
<1>5. Wired'
  <2>1. CASE UNCHANGED vars
    <3>1. UNCHANGED <<data, wpc, wid, stream, fanned, mishap, acked, alive, hpc, hbuf, hoff,
                      rpc, roff, known, wire>>
      BY <2>1 DEF vars, writers, repl, fan, psync, link, replica
    <3>2. Base' = Base
      BY <3>1, NumbersKept
    <3> QED BY <3>1, <3>2 DEF Wired, Clean, Contains, First, Unread, Dump, Flow
  <2>2. ASSUME NEW w \in Writer, Mutate(w) \/ WriterStep(w) PROVE Wired'
    BY <1>1, <2>2, WiredWriter
  <2>3. CASE FanoutStep
    BY <1>1, <2>3, WiredFanout
  <2>4. CASE PsyncStep
    BY <1>1, <2>4, WiredPsync
  <2>5. CASE ReplicaStep
    BY <1>1, <2>5, WiredReplica
  <2>6. CASE DropLink \/ Ack \/ WaitCmd \/ Break \/ Tear
    BY <1>1, <2>6, WiredLink
  <2> QED BY <2>1, <2>2, <2>3, <2>4, <2>5, <2>6 DEF Next
<1>6. Copied'
  BY <1>1, CopiedStep
<1> QED BY <1>1, <1>2, <1>3, <1>4, <1>5, <1>6

\* A replica that has caught up, short of a mishap, has the master's offset
\* and, unless its applier refused a frame, the master's keyspace.
THEOREM ConvergesCorrect == Spec => []Converges
<1>1. SyncInv => Converges
  <2> SUFFICES ASSUME SyncInv, Quiet
               PROVE  /\ Clean => roff = Len(stream)
                      /\ mishap = {} => rdata = data
    BY DEF Converges, Clean
  <2> USE DEF SyncInv
  <2>1. /\ hpc = "none" /\ alive /\ wire = <<>> /\ rpc = "stream" /\ hand = <<>>
        /\ batch = <<>> /\ pending = <<>> /\ \A w \in Writer : wpc[w] = "idle"
    BY DEF Quiet, Busy
  <2>2. ASSUME Clean PROVE roff = Len(stream) /\ known /\ Base + Len(stream) = Len(data)
    <3>1. known /\ Flow(0, roff)
      BY <2>1, <2>2 DEF Wired, Unread
    <3>2. Len(fanned) = Len(stream)
      BY <2>1, <2>2, SentPrefix DEF Clean
    <3>3. Len(wire) = 0 /\ roff \in Nat /\ Len(stream) \in Nat /\ Len(data) \in Nat
      BY <2>1 DEF Types, ReplicaTypes, ReplTypes, Issued
    <3>4. roff = Len(stream)
      <4>1. 0 \in 0 .. Len(wire) /\ \A j \in (0 + 1) .. 0 : wire[j].t = "frame"
        BY <3>3
      <4>2. roff + 0 - 0 = Len(fanned)
        BY <3>1, <3>3, <4>1 DEF Flow, FlowOn
      <4> QED BY <3>2, <3>3, <4>2
    <3>5. Lag = 0
      BY <2>1 DEF Lag
    <3> QED BY <3>1, <3>3, <3>4, <3>5 DEF Base
  <2>3. ASSUME mishap = {} PROVE rdata = data
    <3>1. Clean
      BY <2>3 DEF Clean
    <3>2. Numbered(rdata) /\ Len(rdata) = Len(data)
      <4>1. Numbered(Held) /\ Len(Held) = Len(data)
        BY <2>1, <2>2, <2>3, <3>1 DEF Copied
      <4>2. rdata \in Seq(Id) /\ hand = <<>>
        BY <2>1 DEF Types, ReplicaTypes
      <4>3. rdata \o <<>> = rdata
        BY <4>2
      <4> QED BY <4>1, <4>2, <4>3 DEF Held
    <3>3. rdata \in Seq(Id) /\ data \in Seq(Id) /\ Numbered(data)
      BY DEF Types, ReplicaTypes, Issued, Numbers
    <3>4. \A i \in 1 .. Len(rdata) : rdata[i] = data[i]
      BY <3>2, <3>3 DEF Numbered
    <3> QED BY <3>2, <3>3, <3>4, SeqEqual
  <2> QED BY <2>2, <2>3
<1> QED BY <1>1, SyncInit, SyncStep, PTL DEF Spec

\* Short of a mishap the replica has applied every frame its last ACK covers,
\* but for at most the one its applier is at.
THEOREM AcksCorrect == Spec => []AcksLineUp
<1>0. SyncInv => Len(hand) <= 1
  BY DEF SyncInv, Types, ReplicaTypes
<1>1. SyncInv => AcksLineUp
  <2> SUFFICES ASSUME SyncInv, mishap = {}
               PROVE  acked <= Len(stream) /\ Range(SubSeq(stream, 1, acked)) \subseteq Range(Held)
    BY <1>0 DEF AcksLineUp, Held
  <2> USE DEF SyncInv
  <2>1. Clean /\ "crossed" \notin mishap
    BY DEF Clean
  <2>2. /\ acked <= Len(stream) /\ Numbered(Held) /\ acked \in Nat /\ Len(stream) \in Nat
        /\ acked # 0 => Base + acked <= Len(Held)
    BY <2>1 DEF Copied, Types, LinkTypes, ReplTypes
  <2>3. Base \in Nat /\ \A j \in 1 .. Len(stream) : stream[j] = Base + j
    BY <2>1 DEF Numbers
  <2>4. Held \in Seq(Id) /\ stream \in Seq(Id) /\ Len(Held) \in Nat /\ DOMAIN Held = 1 .. Len(Held)
    <3>1. stream \in Seq(Id)
      BY DEF Types, ReplTypes
    <3> QED BY <3>1, HeldType
  <2> DEFINE s == SubSeq(stream, 1, acked)
  <2>5. DOMAIN s = 1 .. acked /\ \A i \in 1 .. acked : s[i] = stream[i]
    BY <2>2, <2>4
  <2> HIDE DEF s, Base
  <2>6. ASSUME NEW x \in Range(s) PROVE x \in Range(Held)
    <3>1. PICK i \in 1 .. acked : x = s[i]
      BY <2>5 DEF Range
    <3>2. x = Base + i /\ i \in 1 .. Len(stream) /\ acked # 0
      BY <2>2, <2>3, <2>5, <3>1
    <3>3. Base + i \in 1 .. Len(Held)
      BY <2>2, <2>3, <2>4, <3>1, <3>2
    <3>4. Held[Base + i] = Base + i
      BY <2>2, <3>3 DEF Numbered
    <3> QED BY <2>4, <3>2, <3>3, <3>4 DEF Range
  <2> QED BY <2>2, <2>6 DEF s
<1> QED BY <1>1, SyncInit, SyncStep, PTL DEF Spec

=============================================================================
