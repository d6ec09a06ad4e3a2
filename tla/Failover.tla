------------------------------ MODULE Failover ------------------------------
(***************************************************************************)
(* Role changes: REPLICAOF, FAILOVER and DEBUG CHANGE-REPL-ID on several   *)
(* nodes, with the replication ids, previous ids and offsets by which a    *)
(* reconnecting replica is granted a partial resync (replication/state.go, *)
(* psyncCmd, Engine.FollowMaster and PromoteToMaster, Client.handshake).   *)
(*                                                                         *)
(* What happens inside one connection is the module Replication; here a    *)
(* handshake is one step, a connection delivers frames in order until it   *)
(* breaks, and a frame has length one.  A keyspace is the sequence of the  *)
(* writes it has seen, and a replication id is the node that minted it     *)
(* with a number.                                                          *)
(***************************************************************************)
EXTENDS Naturals, Sequences

CONSTANTS Node,
          None,
          Window,      \* frames the backlog keeps
          MaxWrite,    \* bound on writes
          MaxChange    \* bound on role changes, rotations, lost connections
                       \* and steps of stopped clients

ASSUME FailoverBounds == {Window, MaxWrite, MaxChange} \subseteq Nat /\ None \notin Node

VARIABLES
    role, follows,   \* State.role, State.masterHost
    replid, prev,    \* State.replID, State.replIDPrev
    minted,          \* ids each node has minted
    data,            \* the keyspace
    stream,          \* all frames the node ever propagated; the backlog keeps the last
    active,          \* Master.activated
    masterOff,       \* State.masterOff
    link,            \* the node this one has a connection to, or None
    pos,             \* frames of that node's stream sent over it
    old,             \* the clients stopped so far, which may not be done yet
    writes, changes, \* writes done, changes left
    mishap           \* history, a set: "foreign", a partial resync granted on
                     \* an id of another node; "local", a write to a replica;
                     \* "chain", a resync from a replica; "under", a node
                     \* with replicas took over the data of another; "torn", a
                     \* full resync broke off; "lingered", a stopped client
                     \* wrote to the node

ids     == <<replid, prev, minted>>
conns   == <<link, pos>>
streams == <<stream, active>>
vars    == <<role, follows, ids, data, streams, masterOff, conns, old, writes, changes, mishap>>

Offset(n)   == Len(stream[n])
Contains(n, off) == off <= Offset(n) /\ off + Window >= Offset(n)
Frames(n, from)  == SubSeq(stream[n], from + 1, Offset(n))
HasReplicas(n)   == \E r \in Node : link[r] = n
Change == changes > 0 /\ changes' = changes - 1

----------------------------------------------------------------------------
(* Writes *)

\* A command and its RecordWrite: a replica keeps it to itself, a master
\* propagates it once some replica has begun a handshake.
Write(n) ==
    /\ writes < MaxWrite
    /\ writes' = writes + 1
    /\ data' = [data EXCEPT ![n] = Append(@, writes')]
    /\ stream' = IF role[n] = "master" /\ active[n]
                 THEN [stream EXCEPT ![n] = Append(@, writes')] ELSE stream
    /\ mishap' = IF role[n] = "replica" THEN mishap \cup {"local"} ELSE mishap
    /\ UNCHANGED <<role, follows, ids, active, masterOff, conns, old, changes>>

----------------------------------------------------------------------------
(* Role changes *)

\* A fresh id; the old one becomes the previous one.
Mint(n) ==
    /\ minted' = [minted EXCEPT ![n] = @ + 1]
    /\ prev' = [prev EXCEPT ![n] = replid[n]]
    /\ replid' = [replid EXCEPT ![n] = <<n, minted[n] + 1>>]

\* What a client may still do when it is stopped: "read", it was connected, and
\* applies the frames that were sent so far, or some of them; "dial", it was not,
\* and goes through with a handshake; "open", it has, and nobody closes that
\* connection.
Left(n, m) ==
    IF link[n] = None THEN <<[to |-> m, pc |-> "dial", pos |-> 0, last |-> 0]>>
    ELSE IF pos[n] = Offset(link[n]) THEN <<>>
    ELSE <<[to |-> link[n], pc |-> "read", pos |-> pos[n], last |-> Offset(link[n])]>>

\* Client.Stop closes the connection, if there is one, and does not wait for the
\* client, whose next handshake is with m.
Stop(n, m) ==
    /\ link' = [link EXCEPT ![n] = None]
    /\ old' = IF follows[n] = None THEN old ELSE [old EXCEPT ![n] = @ \o Left(n, m)]

\* Slip: the id survives the promotion.
SlipPromoteKeepsId(n) ==
    /\ Change
    /\ role' = [role EXCEPT ![n] = "master"] /\ follows' = [follows EXCEPT ![n] = None]
    /\ Stop(n, follows[n])
    /\ UNCHANGED <<ids, data, streams, masterOff, pos, writes, mishap>>

\* PromoteToMaster: REPLICAOF NO ONE, FAILOVER on a replica or on a master.
\* The client is stopped; connected replicas stay.
Promote(n) ==
    /\ Change
    /\ role' = [role EXCEPT ![n] = "master"] /\ follows' = [follows EXCEPT ![n] = None]
    /\ Stop(n, follows[n])
    /\ Mint(n)
    /\ UNCHANGED <<data, streams, masterOff, pos, writes, mishap>>

\* FollowMaster: REPLICAOF host port, FAILOVER TO.  The role changes before the
\* old client is stopped, so it may dial either master.
Follow(n, m) ==
    /\ Change /\ n # m
    /\ role' = [role EXCEPT ![n] = "replica"] /\ follows' = [follows EXCEPT ![n] = m]
    /\ Stop(n, follows[n]) \/ Stop(n, m)
    /\ UNCHANGED <<ids, data, streams, masterOff, pos, writes, mishap>>

\* BumpReplID
Rotate(n) ==
    /\ Change /\ Mint(n)
    /\ UNCHANGED <<role, follows, data, streams, masterOff, conns, old, writes, mishap>>

----------------------------------------------------------------------------
(* Resynchronisation *)

\* What the data of n having changed under it means for its own replicas.
Taken(n, m, granted) ==
    mishap' = mishap \cup (IF HasReplicas(n) THEN {"under"} ELSE {})
                     \cup (IF role[m] = "replica" THEN {"chain"} ELSE {})
                     \cup (IF granted /\ replid[n] # replid[m] /\ replid[n][1] # m THEN {"foreign"} ELSE {})

\* The test of psyncCmd, for what the handshake of n sends: no id when nothing
\* was applied and the node is not a replica.
Partial(n, m) ==
    /\ ~ (masterOff[n] = 0 /\ role[n] = "master")
    /\ replid[n] \in {replid[m], prev[m]} /\ Contains(m, masterOff[n])

\* +CONTINUE: the replica ignores the id that comes with it.
Continue(n, m) ==
    /\ follows[n] = m /\ link[n] = None /\ Partial(n, m)
    /\ active' = [active EXCEPT ![m] = TRUE]
    /\ link' = [link EXCEPT ![n] = m] /\ pos' = [pos EXCEPT ![n] = masterOff[n]]
    /\ Taken(n, m, TRUE)
    /\ UNCHANGED <<role, follows, ids, data, stream, masterOff, old, writes, changes>>

\* Id and offset of the other node (SetReplID, SetMasterOffset), and its keyspace
\* (restoreFromRDBBlob), unless the connection is lost or closed before.
TakeOver(n, m, whole) ==
    /\ prev' = [prev EXCEPT ![n] = replid[n]] /\ replid' = [replid EXCEPT ![n] = replid[m]]
    /\ masterOff' = [masterOff EXCEPT ![n] = Offset(m)]
    /\ data' = IF whole THEN [data EXCEPT ![n] = data[m]] ELSE data
    /\ UNCHANGED minted

\* +FULLRESYNC
FullResync(n, m) ==
    /\ follows[n] = m /\ link[n] = None /\ ~Partial(n, m)
    /\ active' = [active EXCEPT ![m] = TRUE]
    /\ link' = [link EXCEPT ![n] = m] /\ pos' = [pos EXCEPT ![n] = Offset(m)]
    /\ TakeOver(n, m, TRUE)
    /\ Taken(n, m, FALSE)
    /\ UNCHANGED <<role, follows, stream, old, writes, changes>>

\* The dump does not arrive, or is refused.
Tear(n, m) ==
    /\ Change /\ follows[n] = m /\ link[n] = None /\ ~Partial(n, m)
    /\ active' = [active EXCEPT ![m] = TRUE]
    /\ TakeOver(n, m, FALSE)
    /\ mishap' = mishap \cup {"torn"}
    /\ UNCHANGED <<role, follows, stream, conns, old, writes>>

\* The fan-out and applyStream: replicaMode keeps the frame out of the
\* replica's own stream.
Deliver(n) ==
    /\ link[n] # None /\ pos[n] < Offset(link[n])
    /\ data' = [data EXCEPT ![n] = Append(@, stream[link[n]][pos[n] + 1])]
    /\ masterOff' = [masterOff EXCEPT ![n] = @ + 1]
    /\ pos' = [pos EXCEPT ![n] = @ + 1]
    /\ mishap' = IF HasReplicas(n) THEN mishap \cup {"under"} ELSE mishap
    /\ UNCHANGED <<role, follows, ids, streams, link, old, writes, changes>>

Break(n) ==
    /\ Change /\ link[n] # None
    /\ link' = [link EXCEPT ![n] = None]
    /\ UNCHANGED <<role, follows, ids, data, streams, masterOff, pos, old, writes, mishap>>

----------------------------------------------------------------------------
(* Clients that were stopped *)

Lingers == mishap' = mishap \cup {"lingered"}

\* applyStream goes on through what is buffered, or through a connection that
\* Stop did not know.
OldDeliver(n, i) ==
    LET o == old[n][i] IN
    /\ Change
    /\ \/ o.pc = "read" /\ o.pos < o.last
       \/ o.pc = "open" /\ o.pos < Offset(o.to)
    /\ data' = [data EXCEPT ![n] = Append(@, stream[o.to][o.pos + 1])]
    /\ masterOff' = [masterOff EXCEPT ![n] = @ + 1]
    /\ old' = [old EXCEPT ![n][i] = [o EXCEPT !.pos = @ + 1]]
    /\ Lingers
    /\ UNCHANGED <<role, follows, ids, streams, conns, writes>>

\* The dial returns after Stop, or the answer to PSYNC was read before it: the
\* handshake is taken to its end, or breaks off in the dump.
OldHandshake(n, i) ==
    LET o == old[n][i] IN
    /\ Change /\ o.pc = "dial"
    /\ active' = [active EXCEPT ![o.to] = TRUE]
    /\ \/ /\ Partial(n, o.to)
          /\ old' = [old EXCEPT ![n][i] = [o EXCEPT !.pc = "open", !.pos = masterOff[n]]]
          /\ UNCHANGED <<ids, data, masterOff>>
       \/ \E whole \in BOOLEAN :
            /\ ~Partial(n, o.to) /\ TakeOver(n, o.to, whole)
            /\ old' = [old EXCEPT ![n][i] = [o EXCEPT !.pc = IF whole THEN "open" ELSE "read",
                                                     !.pos = Offset(o.to), !.last = Offset(o.to)]]
    /\ Lingers
    /\ UNCHANGED <<role, follows, stream, conns, writes>>

----------------------------------------------------------------------------
Init ==
    /\ role = [n \in Node |-> "master"] /\ follows = [n \in Node |-> None]
    /\ replid = [n \in Node |-> <<n, 1>>] /\ prev = [n \in Node |-> <<n, 0>>]
    /\ minted = [n \in Node |-> 1]
    /\ data = [n \in Node |-> <<>>]
    /\ stream = [n \in Node |-> <<>>] /\ active = [n \in Node |-> FALSE]
    /\ masterOff = [n \in Node |-> 0]
    /\ link = [n \in Node |-> None] /\ pos = [n \in Node |-> 0] /\ old = [n \in Node |-> <<>>]
    /\ writes = 0 /\ changes = MaxChange /\ mishap = {}

\* Slip: a refused partial resync is not followed by a full one.
SlipPartialOnly(n) == \E m \in Node : Continue(n, m)

Handshake(n) == \E m \in Node : Continue(n, m) \/ FullResync(n, m)

Next ==
    \E n \in Node :
        \/ Write(n) \/ Promote(n) \/ Rotate(n) \/ Deliver(n) \/ Break(n) \/ Handshake(n)
        \/ \E m \in Node : Follow(n, m) \/ Tear(n, m)
        \/ \E i \in 1 .. Len(old[n]) : OldDeliver(n, i) \/ OldHandshake(n, i)

Spec == Init /\ [][Next]_vars

\* The replica client dials again and again, and frames on an open connection
\* arrive; nobody owes a write or a role change.
FairSpec == Spec /\ \A n \in Node : WF_vars(Handshake(n)) /\ WF_vars(Deliver(n))

----------------------------------------------------------------------------
(* Properties *)

\* Types of roles, ids, offsets and connections.
TypeOK ==
    /\ role \in [Node -> {"master", "replica"}]
    /\ follows \in [Node -> Node \cup {None}]
    /\ replid \in [Node -> Node \X Nat] /\ prev \in [Node -> Node \X Nat]
    /\ minted \in [Node -> Nat]
    /\ data \in [Node -> Seq(Nat)] /\ stream \in [Node -> Seq(Nat)]
    /\ active \in [Node -> BOOLEAN]
    /\ masterOff \in [Node -> Nat] /\ pos \in [Node -> Nat]
    /\ link \in [Node -> Node \cup {None}]
    /\ \A n \in Node : /\ role[n] = "master" <=> follows[n] = None
                       /\ link[n] # None => link[n] = follows[n]
                       /\ link[n] # None => pos[n] <= Offset(link[n])
    /\ old \in [Node -> Seq([to : Node, pc : {"read", "dial", "open"}, pos : Nat, last : Nat])]
    /\ \A n \in Node : \A i \in 1 .. Len(old[n]) :
           old[n][i].pc = "read" => old[n][i].last <= Offset(old[n][i].to)
    /\ writes \in Nat /\ changes \in Nat
    /\ mishap \subseteq {"foreign", "local", "chain", "under", "torn", "lingered"}

\* The data of n is that of m but for the frames of m's stream from off on.
Lacks(n, m, off) == off <= Offset(m) /\ data[n] \o Frames(m, off) = data[m]

\* A replication id names one history: a node that carries the id of a master
\* has that master's data up to its offset, connected or not.  This is what
\* makes a partial resync on the current id exact.
IdNamesHistory ==
    mishap = {} =>
        \A n, m \in Node : n # m /\ role[m] = "master" /\ replid[n] = replid[m] =>
            Lacks(n, m, masterOff[n])

\* A connected replica has its master's data up to the frames on their way,
\* also after the master was promoted anew or rotated its id.
AttachedInStep ==
    mishap = {} =>
        \A n \in Node : link[n] # None /\ role[link[n]] = "master" => Lacks(n, link[n], pos[n])

\* Whatever sequence of promotions, demotions, rotations and lost connections
\* went before: once they stop, a replica of a master ends with its data.
ReplicasConverge ==
    \A n, m \in Node : <>[](follows[n] = m /\ role[m] = "master" => data[n] = data[m] \/ mishap # {})

============================================================================
