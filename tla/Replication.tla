---------------------------- MODULE Replication ----------------------------
(***************************************************************************)
(* A master, one replica and the link between them: Propagate and the      *)
(* fan-out loop of replication/master.go, psyncCmd and waitCmd of          *)
(* resp/commands_repl.go, RecordWrite of engine/engine.go, and the         *)
(* replica's handshake and apply loop of replication/replica.go.           *)
(*                                                                         *)
(* A write is a number, and a keyspace the sequence of the writes it has   *)
(* seen.  Every frame has length one, so an offset counts frames.  The     *)
(* backlog is the windowed stream of ReplStream, which the ring buffer of  *)
(* Backlog implements.                                                     *)
(*                                                                         *)
(* A new connection starts once the master has forgotten the old one: a    *)
(* Send to a dead link has no effect but to remove the link.               *)
(***************************************************************************)
EXTENDS Integers, Sequences, Functions

CONSTANTS Writer,      \* connections that write on the master
          Capacity,    \* frames the backlog holds
          MaxWrite,    \* bound on writes
          MaxEvent     \* bound on lost connections and WAIT calls

ASSUME CapacityAssumption == Capacity \in Nat \ {0}
ASSUME BoundAssumption    == {MaxWrite, MaxEvent} \subseteq Nat

VARIABLES
    data,        \* keyspace of the master
    wpc, wid, wafter,   \* writers: next step, the write, Append's result
    activated,   \* Master.activated
    stream,      \* every frame appended to the backlog
    offset,      \* State.offset
    pending,     \* Master.pending
    notify,      \* Master.notify holds a token
    fpc, batch, target, \* fan-out loop: next step, drained frames, link in Replicas()
    fanned,      \* history: frames the loop is done with
    hpc, hbuf, hoff,    \* psyncCmd: next step, snapshot or slice, offset
    attached,    \* the link is in State.replicas
    acked,       \* ReplicaLink.AckOffset
    alive,       \* the connection is up
    wire,        \* master to replica
    rpc,         \* the replica client
    rdata,       \* keyspace of the replica
    hand,        \* the frame counted in masterOff and not applied yet, if any
    roff,        \* State.masterOff of the replica
    known,       \* the replica holds the master's replid
    budget,      \* writes, failures and WAIT calls left
    mishap       \* history, a set: "raced", a handshake overlapped a write or its
                 \* fan-out; "torn", a connection was lost inside a full resync;
                 \* "crossed", two writes overlapped; "getack", one was received;
                 \* "refused", the applier returned an error

writers == <<wpc, wid, wafter>>
repl    == <<activated, stream, offset, pending, notify>>
fan     == <<fpc, batch, target, fanned>>
psync   == <<hpc, hbuf, hoff>>
link    == <<attached, acked, alive>>
replica == <<rpc, rdata, hand, roff, known>>
vars    == <<data, writers, repl, fan, psync, link, wire, replica, budget, mishap>>

\* Backlog.Contains and Backlog.Slice.
First       == IF Len(stream) > Capacity THEN Len(stream) - Capacity ELSE 0
Contains(o) == First <= o /\ o <= Len(stream)
Slice(o, n) ==
    IF Contains(o) THEN SubSeq(stream, o + 1, IF o + n < Len(stream) THEN o + n ELSE Len(stream))
    ELSE <<>>

Frame(id) == [t |-> "frame", id |-> id]

\* Bytes written to the socket: lost when the connection is down.
Put(ms) == wire' = IF alive THEN wire \o ms ELSE wire

\* A write is between its mutation and the end of its fan-out.
Busy == (\E w \in Writer : wpc[w] # "idle") \/ pending # <<>> \/ batch # <<>>

Spend(what) == budget[what] > 0 /\ budget' = [budget EXCEPT ![what] = @ - 1]

----------------------------------------------------------------------------
(* The write path of the master *)

\* dispatch: the command takes effect in the keyspace.
Mutate(w) ==
    /\ wpc[w] = "idle"
    /\ Spend("write")
    /\ data' = Append(data, Len(data) + 1)
    /\ wid' = [wid EXCEPT ![w] = Len(data) + 1]
    /\ wpc' = [wpc EXCEPT ![w] = "gate"]
    /\ mishap' = mishap \cup {m \in {"raced", "crossed"} :
                                \/ m = "raced" /\ hpc # "none"
                                \/ m = "crossed" /\ \E v \in Writer : wpc[v] # "idle"}
    /\ UNCHANGED <<wafter, repl, fan, psync, link, wire, replica>>

\* RecordWrite: nothing is propagated before the first PSYNC.
Gate(w) ==
    /\ wpc[w] = "gate"
    /\ wpc' = [wpc EXCEPT ![w] = IF activated THEN "append" ELSE "idle"]
    /\ UNCHANGED <<data, wid, wafter, repl, fan, psync, link, wire, replica, budget, mishap>>

\* Propagate, first critical section: Backlog.Append.
AppendFrame(w) ==
    /\ wpc[w] = "append"
    /\ stream' = Append(stream, wid[w])
    /\ wafter' = [wafter EXCEPT ![w] = Len(stream) + 1]
    /\ wpc' = [wpc EXCEPT ![w] = "store"]
    /\ UNCHANGED <<data, wid, activated, offset, pending, notify, fan, psync, link, wire, replica, budget, mishap>>

\* ... the offset, ...
StoreOffset(w) ==
    /\ wpc[w] = "store"
    /\ offset' = wafter[w]
    /\ wpc' = [wpc EXCEPT ![w] = "enqueue"]
    /\ UNCHANGED <<data, wid, wafter, activated, stream, pending, notify, fan, psync, link, wire, replica, budget, mishap>>

\* ... the pending buffer, ...
Enqueue(w) ==
    /\ wpc[w] = "enqueue"
    /\ pending' = Append(pending, wid[w])
    /\ wpc' = [wpc EXCEPT ![w] = "notify"]
    /\ UNCHANGED <<data, wid, wafter, activated, stream, offset, notify, fan, psync, link, wire, replica, budget, mishap>>

\* Slip: only the write that finds the buffer short wakes the loop.
SlipNotifyOnce(w) ==
    /\ wpc[w] = "notify"
    /\ notify' = (notify \/ Len(pending) = 1)
    /\ wpc' = [wpc EXCEPT ![w] = "idle"]
    /\ UNCHANGED <<data, wid, wafter, activated, stream, offset, pending, fan, psync, link, wire, replica, budget, mishap>>

\* ... and the wake-up, a send that is dropped when a token is there.
Notify(w) ==
    /\ wpc[w] = "notify"
    /\ notify' = TRUE
    /\ wpc' = [wpc EXCEPT ![w] = "idle"]
    /\ UNCHANGED <<data, wid, wafter, activated, stream, offset, pending, fan, psync, link, wire, replica, budget, mishap>>

WriterStep(w) == Gate(w) \/ AppendFrame(w) \/ StoreOffset(w) \/ Enqueue(w) \/ Notify(w)

----------------------------------------------------------------------------
(* The fan-out loop *)

Wake ==
    /\ fpc = "wait" /\ notify
    /\ notify' = FALSE
    /\ fpc' = "drain"
    /\ UNCHANGED <<data, writers, activated, stream, offset, pending, batch, target, fanned, psync, link, wire, replica, budget, mishap>>

\* Slip: the buffer is not emptied.
SlipDrainKeeps ==
    /\ fpc = "drain"
    /\ batch' = pending
    /\ fpc' = IF pending = <<>> THEN "wait" ELSE "list"
    /\ UNCHANGED <<data, writers, repl, target, fanned, psync, link, wire, replica, budget, mishap>>

Drain ==
    /\ fpc = "drain"
    /\ batch' = pending
    /\ pending' = <<>>
    /\ fpc' = IF pending = <<>> THEN "wait" ELSE "list"
    /\ UNCHANGED <<data, writers, activated, stream, offset, notify, target, fanned, psync, link, wire, replica, budget, mishap>>

\* State.Replicas(), a snapshot.
ListReplicas ==
    /\ fpc = "list"
    /\ target' = attached
    /\ fpc' = "send"
    /\ UNCHANGED <<data, writers, repl, batch, fanned, psync, link, wire, replica, budget, mishap>>

\* Send to the link of the snapshot; a link that fails is removed.
SendBatch ==
    /\ fpc = "send"
    /\ IF target THEN /\ Put([i \in DOMAIN batch |-> Frame(batch[i])])
                      /\ attached' = (attached /\ alive)
       ELSE UNCHANGED <<wire, attached>>
    /\ fanned' = fanned \o batch
    /\ batch' = <<>> /\ target' = FALSE
    /\ fpc' = "wait"
    /\ UNCHANGED <<data, writers, repl, psync, acked, alive, replica, budget, mishap>>

FanoutStep == Wake \/ Drain \/ ListReplicas \/ SendBatch

----------------------------------------------------------------------------
(* psyncCmd, on the replica's connection at the master *)

Activate ==
    /\ hpc = "activate"
    /\ activated' = TRUE
    /\ hpc' = "check"
    /\ UNCHANGED <<data, writers, stream, offset, pending, notify, fan, hbuf, hoff, link, wire, replica, budget, mishap>>

\* The request carries the replica's replid and offset.
Decide ==
    /\ hpc = "check"
    /\ hpc' = IF known /\ Contains(roff) THEN "offset" ELSE "snapshot"
    /\ UNCHANGED <<data, writers, repl, fan, hbuf, hoff, link, wire, replica, budget, mishap>>

\* CONTINUE, and the end of what is to be replayed.
Continue ==
    /\ hpc = "offset"
    /\ Put(<<[t |-> "continue"]>>)
    /\ hoff' = offset
    /\ hpc' = "slice"
    /\ UNCHANGED <<data, writers, repl, fan, hbuf, link, replica, budget, mishap>>

\* Slip: the replay starts one frame late.
SlipSliceLate ==
    /\ hpc = "slice"
    /\ IF hoff > roff
       THEN LET s == Slice(roff + 1, hoff - roff) IN Put([i \in DOMAIN s |-> Frame(s[i])])
       ELSE UNCHANGED wire
    /\ hpc' = "attach"
    /\ UNCHANGED <<data, writers, repl, fan, hbuf, hoff, link, replica, budget, mishap>>

\* Backlog.Slice from the requested offset.  The replica has not received
\* anything since it asked, so roff is still what it asked for.
Replay ==
    /\ hpc = "slice"
    /\ IF hoff > roff
       THEN LET s == Slice(roff, hoff - roff) IN Put([i \in DOMAIN s |-> Frame(s[i])])
       ELSE UNCHANGED wire
    /\ hpc' = "attach"
    /\ UNCHANGED <<data, writers, repl, fan, hbuf, hoff, link, replica, budget, mishap>>

\* RDBBlob: all shards are locked for the export.
Snapshot ==
    /\ hpc = "snapshot"
    /\ hbuf' = data
    /\ hpc' = "reply"
    /\ UNCHANGED <<data, writers, repl, fan, hoff, link, wire, replica, budget, mishap>>

\* FULLRESYNC with the offset of now, then the dump.
FullResync ==
    /\ hpc = "reply"
    /\ Put(<<[t |-> "full", off |-> offset], [t |-> "rdb", dump |-> hbuf]>>)
    /\ hpc' = "attach" /\ hbuf' = <<>>
    /\ UNCHANGED <<data, writers, repl, fan, hoff, link, replica, budget, mishap>>

\* AddReplica; a new link starts with AckOffset 0.
Attach ==
    /\ hpc = "attach"
    /\ attached' = TRUE /\ acked' = 0
    /\ hpc' = "none" /\ hoff' = 0
    /\ UNCHANGED <<data, writers, repl, fan, hbuf, alive, wire, replica, budget, mishap>>

PsyncStep == Activate \/ Decide \/ Continue \/ Replay \/ Snapshot \/ FullResync \/ Attach

\* ConsumeReplicaHeartbeats sees the connection die.
DropLink ==
    /\ attached /\ ~alive
    /\ attached' = FALSE
    /\ UNCHANGED <<data, writers, repl, fan, psync, acked, alive, wire, replica, budget, mishap>>

\* ... or receives REPLCONF ACK, which the replica's ackLoop sends with its
\* offset; the time an ACK spends on the wire is left out.
Ack ==
    /\ attached /\ alive /\ rpc = "stream"
    /\ acked # roff
    /\ acked' = roff
    /\ UNCHANGED <<data, writers, repl, fan, psync, attached, alive, wire, replica, budget, mishap>>

\* WAIT sends REPLCONF GETACK to every replica, past the backlog.
WaitCmd ==
    /\ Spend("event")
    /\ attached
    /\ Put(<<[t |-> "getack"]>>)
    /\ UNCHANGED <<data, writers, repl, fan, psync, link, replica, mishap>>

----------------------------------------------------------------------------
(* The replica *)

\* Dial and send PSYNC replid offset.
Connect ==
    /\ rpc = "down" /\ ~alive /\ hand = <<>>
    /\ hpc = "none" /\ ~attached /\ ~target
    /\ alive' = TRUE
    /\ rpc' = "psync"
    /\ hpc' = "activate"
    /\ mishap' = IF Busy THEN mishap \cup {"raced"} ELSE mishap
    /\ UNCHANGED <<data, writers, repl, fan, hbuf, hoff, attached, acked, wire, rdata, hand, roff, known, budget>>

\* The client is one goroutine: it reads on when the applier is done.
Receive(kind) ==
    /\ alive /\ hand = <<>>
    /\ wire # <<>> /\ Head(wire).t = kind /\ wire' = Tail(wire)

\* +FULLRESYNC: replid and offset are taken over before the dump is read.
RecvFull ==
    /\ rpc = "psync" /\ Receive("full")
    /\ known' = TRUE
    /\ roff' = Head(wire).off
    /\ rpc' = "sync"
    /\ UNCHANGED <<data, writers, repl, fan, psync, link, rdata, hand, budget, mishap>>

\* consumeRDB: the keyspace is replaced.
RecvRdb ==
    /\ rpc = "sync" /\ Receive("rdb")
    /\ rdata' = Head(wire).dump
    /\ rpc' = "stream"
    /\ UNCHANGED <<data, writers, repl, fan, psync, link, hand, roff, known, budget, mishap>>

RecvContinue ==
    /\ rpc = "psync" /\ Receive("continue")
    /\ rpc' = "stream"
    /\ UNCHANGED <<data, writers, repl, fan, psync, link, rdata, hand, roff, known, budget, mishap>>

\* Slip: the frame is counted twice.
SlipCountTwice ==
    /\ rpc = "stream" /\ Receive("frame")
    /\ roff' = roff + 2
    /\ hand' = <<Head(wire).id>>
    /\ UNCHANGED <<data, writers, repl, fan, psync, link, rpc, rdata, known, budget, mishap>>

\* applyStream: the frame is counted before it is handed to the applier; the
\* ackLoop is another goroutine and may send the new offset in between.
RecvFrame ==
    /\ rpc = "stream" /\ Receive("frame")
    /\ roff' = roff + 1
    /\ hand' = <<Head(wire).id>>
    /\ UNCHANGED <<data, writers, repl, fan, psync, link, rpc, rdata, known, budget, mishap>>

\* The applier; it does not ask whether the connection is still up.
ApplyFrame ==
    /\ hand # <<>>
    /\ rdata' = rdata \o hand
    /\ hand' = <<>>
    /\ UNCHANGED <<data, writers, repl, fan, psync, link, wire, rpc, roff, known, budget, mishap>>

\* An error of the applier (a command the replayer does not know, a key of
\* another type) is logged; the frame stays counted.
RefuseFrame ==
    /\ hand # <<>>
    /\ hand' = <<>>
    /\ mishap' = mishap \cup {"refused"}
    /\ UNCHANGED <<data, writers, repl, fan, psync, link, wire, rpc, rdata, roff, known, budget>>

\* REPLCONF GETACK is counted too; the applier does not know it.
RecvGetAck ==
    /\ rpc = "stream" /\ Receive("getack")
    /\ roff' = roff + 1
    /\ mishap' = mishap \cup {"getack"}
    /\ UNCHANGED <<data, writers, repl, fan, psync, link, rpc, rdata, hand, known, budget>>

\* The connection is lost, and what is on the wire with it; a client that
\* still reads frames it had buffered reads them before this step.
Lose ==
    /\ alive
    /\ alive' = FALSE /\ wire' = <<>> /\ rpc' = "down"
    /\ UNCHANGED <<data, writers, repl, fan, psync, attached, acked, rdata, hand, roff, known>>

Break == /\ rpc = "stream" /\ Spend("event") /\ Lose
         /\ UNCHANGED mishap

\* In the handshake; "sync" is between +FULLRESYNC and the end of the dump. A
\* dump that does not restore ends the connection too.
Tear == /\ rpc \in {"psync", "sync"} /\ Spend("event") /\ Lose
        /\ mishap' = IF rpc = "sync" THEN mishap \cup {"torn"} ELSE mishap

ReplicaStep ==
    \/ Connect \/ RecvFull \/ RecvRdb \/ RecvContinue \/ RecvGetAck
    \/ RecvFrame \/ ApplyFrame \/ RefuseFrame

----------------------------------------------------------------------------
Init ==
    /\ data = <<>>
    /\ wpc = [w \in Writer |-> "idle"] /\ wid = [w \in Writer |-> 0] /\ wafter = [w \in Writer |-> 0]
    /\ activated = FALSE /\ stream = <<>> /\ offset = 0 /\ pending = <<>> /\ notify = FALSE
    /\ fpc = "wait" /\ batch = <<>> /\ target = FALSE /\ fanned = <<>>
    /\ hpc = "none" /\ hbuf = <<>> /\ hoff = 0
    /\ attached = FALSE /\ acked = 0 /\ alive = FALSE /\ wire = <<>>
    /\ rpc = "down" /\ rdata = <<>> /\ hand = <<>> /\ roff = 0 /\ known = FALSE
    /\ budget = [write |-> MaxWrite, event |-> MaxEvent]
    /\ mishap = {}

Next ==
    \/ \E w \in Writer : Mutate(w) \/ WriterStep(w)
    \/ FanoutStep \/ PsyncStep \/ DropLink \/ Ack \/ WaitCmd
    \/ ReplicaStep \/ Break \/ Tear

Spec == Init /\ [][Next]_vars

\* A goroutine that can run does run; nobody owes the master a write.
FairSpec ==
    /\ Spec
    /\ \A w \in Writer : WF_vars(WriterStep(w))
    /\ WF_vars(FanoutStep) /\ WF_vars(PsyncStep)
    /\ WF_vars(DropLink) /\ WF_vars(ReplicaStep)

----------------------------------------------------------------------------
(* Properties *)

Id == 1 .. MaxWrite

Message == [t : {"frame"}, id : Id] \cup [t : {"full"}, off : Nat] \cup [t : {"rdb"}, dump : Seq(Id)]
             \cup [t : {"continue", "getack"}]

\* Types of the fields of Master, State, the handler, the wire and the replica.
TypeOK ==
    /\ data \in Seq(Id) /\ rdata \in Seq(Id) /\ hand \in Seq(Id) /\ stream \in Seq(Id)
    /\ pending \in Seq(Id) /\ batch \in Seq(Id) /\ fanned \in Seq(Id) /\ hbuf \in Seq(Id)
    /\ wpc \in [Writer -> {"idle", "gate", "append", "store", "enqueue", "notify"}]
    /\ wid \in [Writer -> Id \cup {0}] /\ wafter \in [Writer -> Nat]
    /\ activated \in BOOLEAN /\ notify \in BOOLEAN /\ target \in BOOLEAN
    /\ attached \in BOOLEAN /\ alive \in BOOLEAN /\ known \in BOOLEAN
    /\ wire \in Seq(Message)
    /\ budget \in [{"write", "event"} -> Nat]
    /\ mishap \subseteq {"raced", "torn", "crossed", "getack", "refused"}
    /\ offset \in Nat /\ hoff \in Nat /\ acked \in Nat /\ roff \in Nat
    /\ fpc \in {"wait", "drain", "list", "send"}
    /\ hpc \in {"none", "activate", "check", "offset", "slice", "snapshot", "reply", "attach"}
    /\ rpc \in {"down", "psync", "sync", "stream"}

\* The pipeline behind Backlog.Append neither loses nor repeats a frame:
\* what the fan-out has sent, holds or will drain is what was appended, less
\* the frames of writers that are still inside Propagate.
FramesConserved ==
    LET out == fanned \o batch \o pending IN
    /\ IsInjective(stream) /\ IsInjective(out)
    /\ Range(stream) = Range(out) \cup
          {wid[w] : w \in {v \in Writer : wpc[v] \in {"store", "enqueue"}}}

\* Pending frames are never stranded by the notify channel of capacity one:
\* a token is there, or will be put there, or the loop is about to drain.
NoLostNotify ==
    pending # <<>> => notify \/ fpc = "drain" \/ \E w \in Writer : wpc[w] = "notify"

\* Nothing is on its way, and the replica is connected.
Quiet ==
    /\ ~Busy /\ hpc = "none" /\ fpc = "wait" /\ ~notify
    /\ attached /\ alive /\ wire = <<>> /\ rpc = "stream" /\ hand = <<>>

\* A replica ends with the master's keyspace and the master's offset, after
\* any number of lost connections, whether the backlog still held its offset
\* or not, unless the behaviour has met one of the five mishaps; a frame the
\* applier refused puts the keyspaces apart and not the offsets.
Converges ==
    /\ Quiet /\ mishap \subseteq {"refused"} => roff = Len(stream)
    /\ Quiet /\ mishap = {} => rdata = data

\* "Count the bytes as the master does so ACKs line up" (applyStream): short
\* of a mishap every frame the last ACK covers has reached the replica and is
\* applied, but for at most the one the applier still has in its hands.
AcksLineUp ==
    mishap = {} =>
        /\ acked <= Len(stream) /\ Len(hand) <= 1
        /\ Range(SubSeq(stream, 1, acked)) \subseteq Range(rdata \o hand)

\* "the sum of every command propagated so far" (State.Offset) and "any bytes
\* appended to the backlog must be mirrored" (Master): as long as writes do
\* not overlap, the offset, the backlog and the fan-out agree whenever no
\* writer is inside Propagate, whatever handshakes and lost connections do.
PipelineInStep ==
    "crossed" \notin mishap /\ (\A w \in Writer : wpc[w] = "idle")
      => offset = Len(stream) /\ fanned \o batch \o pending = stream

\* Every frame handed to Propagate goes through the fan-out loop, however the
\* wake-ups of the writers coalesce in the notify channel.
FramesFanOut == \A id \in Id : (id \in Range(stream)) ~> (id \in Range(fanned))

============================================================================
