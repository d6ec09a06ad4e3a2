---------------------------- MODULE Transaction ----------------------------
(***************************************************************************)
(* MULTI / EXEC / DISCARD / WATCH / UNWATCH: transaction/transaction.go,   *)
(* the handlers of resp/commands.go and resp/resp.go, and the key versions *)
(* of engine/engine.go with the gauge that gates them.                     *)
(*                                                                         *)
(* Each connection is a goroutine.  A transaction.State and the flag       *)
(* watchContributed belong to one connection, so a step is one access to   *)
(* what connections share: a shard of the keyspace, the atomic gauge, the  *)
(* version table, the write log.  A write mutates its shard, then reads    *)
(* the gauge, then bumps the version: three steps.                         *)
(*                                                                         *)
(* A value is abstracted to the number of mutations its key has had.       *)
(***************************************************************************)
EXTENDS Integers, Sequences, FiniteSets

CONSTANTS Conn,        \* connections
          Key,
          Cmd,         \* write commands: [key, fires]
          WatchArgs,   \* argument lists of WATCH
          MaxWrite,    \* bound on mutations of a key
          MaxQueue     \* bound on the commands of a MULTI block

\* A command that fires calls the store's notifier after its mutation (SET,
\* DEL, LPUSH, HSET, ZADD, XADD, ...); one that does not (INCR, APPEND,
\* MSET, LPOP, RENAME, ...) mutates and returns.
ASSUME CmdAssumption   == Cmd \subseteq [key : Key, fires : BOOLEAN]
ASSUME WatchAssumption == WatchArgs \subseteq Seq(Key) \ {<<>>}
ASSUME ConnAssumption  == IsFiniteSet(Conn)
ASSUME BoundAssumption == MaxWrite \in Nat /\ MaxQueue \in Nat

VARIABLES
    epoch,        \* mutations of a key so far
    versions,     \* Engine.versions
    watchers,     \* Engine.watchers
    active,       \* State.active
    queue,        \* State.queue
    watched,      \* State.watched, Absent where there is no entry
    dirty,        \* State.dirty
    contributed,  \* conn.watchContributed
    pc,           \* what the connection does next
    args,         \* keys WATCH has still to read
    unchecked,    \* keys CheckDirty has still to read
    todo,         \* commands EXEC has still to replay
    cur,          \* the key of the write in progress
    replaying,    \* that write belongs to an EXEC
    changed,      \* history: watched keys mutated by a command that fires,
                  \* since WATCH, before EXEC
    touched       \* history: watched keys whose notification has finished,
                  \* since WATCH, before EXEC

engine == <<epoch, versions, watchers>>
state  == <<active, queue, watched, dirty>>
local  == <<args, unchecked, todo, cur, replaying>>
ghost  == <<changed, touched>>
vars   == <<engine, state, contributed, pc, local, ghost>>

Absent == -1

Watching(c)  == \E k \in Key : watched[c][k] # Absent
Watched(c)   == {k \in Key : watched[c][k] # Absent}
Goto(c, l)   == pc' = [pc EXCEPT ![c] = l]

\* History: key k was reached for every connection that watches it and has
\* not called EXEC yet.
Mark(g, k) == [c \in Conn |-> IF watched[c][k] # Absent /\ pc[c] \notin {"check", "commit"}
                              THEN g[c] \cup {k} ELSE g[c]]

----------------------------------------------------------------------------
(* Connection-local changes of a transaction.State *)

ClearWatch(c) ==
    /\ watched' = [watched EXCEPT ![c] = [k \in Key |-> Absent]]
    /\ dirty'   = [dirty EXCEPT ![c] = FALSE]
    /\ changed' = [changed EXCEPT ![c] = {}]
    /\ touched' = [touched EXCEPT ![c] = {}]

ClearQueue(c) ==
    /\ active' = [active EXCEPT ![c] = FALSE]
    /\ queue'  = [queue EXCEPT ![c] = <<>>]

\* MULTI; nested calls are refused and change nothing.
Begin(c) ==
    /\ pc[c] = "idle" /\ ~active[c]
    /\ active' = [active EXCEPT ![c] = TRUE]
    /\ queue'  = [queue EXCEPT ![c] = <<>>]
    /\ UNCHANGED <<engine, watched, dirty, contributed, pc, local, ghost>>

\* A write command inside a MULTI block.
Queue(c, cmd) ==
    /\ pc[c] = "idle" /\ active[c]
    /\ Len(queue[c]) < MaxQueue
    /\ queue' = [queue EXCEPT ![c] = Append(@, cmd)]
    /\ UNCHANGED <<engine, active, watched, dirty, contributed, pc, local, ghost>>

\* DISCARD; without MULTI it is refused and changes nothing.
Discard(c) ==
    /\ pc[c] = "idle" /\ active[c]
    /\ ClearQueue(c)
    /\ ClearWatch(c)
    /\ Goto(c, "sync")
    /\ UNCHANGED <<engine, contributed, local>>

\* UNWATCH, and RESET outside a MULTI block.
Unwatch(c) ==
    /\ pc[c] = "idle"
    /\ ClearWatch(c)
    /\ Goto(c, "sync")
    /\ UNCHANGED <<engine, active, queue, contributed, local>>

----------------------------------------------------------------------------
(* WATCH and the gauge *)

\* WATCH raises the gauge before it reads a version, even inside MULTI.
Watch(c, keys) ==
    /\ pc[c] = "idle"
    /\ watchers' = IF contributed[c] THEN watchers ELSE watchers + 1
    /\ contributed' = [contributed EXCEPT ![c] = TRUE]
    /\ args' = [args EXCEPT ![c] = keys]
    /\ Goto(c, "watch")
    /\ UNCHANGED <<epoch, versions, state, unchecked, todo, cur, replaying, ghost>>

\* KeyVersion and State.Watch for the next key, which inside MULTI fails.
\* A key watched again forgets the version of the first WATCH.
WatchKey(c) ==
    LET k == Head(args[c]) IN
    /\ pc[c] = "watch"
    /\ IF active[c]
       THEN /\ args' = [args EXCEPT ![c] = <<>>]
            /\ Goto(c, "sync")
            /\ UNCHANGED <<watched, ghost>>
       ELSE /\ watched' = [watched EXCEPT ![c][k] = versions[k]]
            /\ changed' = [changed EXCEPT ![c] = @ \ {k}]
            /\ touched' = [touched EXCEPT ![c] = @ \ {k}]
            /\ args' = [args EXCEPT ![c] = Tail(@)]
            /\ Goto(c, IF Len(args[c]) = 1 THEN "idle" ELSE "watch")
    /\ UNCHANGED <<engine, active, queue, dirty, contributed, unchecked, todo, cur, replaying>>

\* syncWatchGauge.
Sync(c) ==
    /\ pc[c] = "sync"
    /\ watchers' = CASE Watching(c) = contributed[c] -> watchers
                     [] Watching(c) /\ ~contributed[c] -> watchers + 1
                     [] OTHER -> watchers - 1
    /\ contributed' = [contributed EXCEPT ![c] = Watching(c)]
    /\ Goto(c, "idle")
    /\ UNCHANGED <<epoch, versions, state, local, ghost>>

\* Slip: the connection's share of the gauge outlives it.
SlipKeepGauge(c) ==
    /\ pc[c] = "idle"
    /\ ClearQueue(c)
    /\ ClearWatch(c)
    /\ Goto(c, "closed")
    /\ UNCHANGED <<engine, contributed, local>>

\* The client disconnects between two commands: cleanup drops the share of
\* the gauge, and the State dies with the connection.
Disconnect(c) ==
    /\ pc[c] = "idle"
    /\ watchers' = IF contributed[c] THEN watchers - 1 ELSE watchers
    /\ contributed' = [contributed EXCEPT ![c] = FALSE]
    /\ ClearQueue(c)
    /\ ClearWatch(c)
    /\ Goto(c, "closed")
    /\ UNCHANGED <<epoch, versions, local>>

----------------------------------------------------------------------------
(* Writes *)

\* Where a write goes when its notification is over: RecordWrite, which a
\* command replayed by EXEC skips (dispatch, not executeUpper, runs it).
AfterNotify(c) == IF replaying[c] THEN "exec" ELSE "record"

\* Slip: the store method returns without calling fire.
SlipNoFire(c, cmd, replay) ==
    /\ epoch[cmd.key] < MaxWrite
    /\ epoch' = [epoch EXCEPT ![cmd.key] = @ + 1]
    /\ cur' = [cur EXCEPT ![c] = cmd.key]
    /\ replaying' = [replaying EXCEPT ![c] = replay]
    /\ changed' = IF cmd.fires THEN Mark(changed, cmd.key) ELSE changed
    /\ Goto(c, IF replay THEN "exec" ELSE "record")
    /\ UNCHANGED touched

\* The mutation, in its shard's critical section; a command that does not
\* fire is over, and nobody hears of it.
Mutate(c, cmd, replay) ==
    /\ epoch[cmd.key] < MaxWrite
    /\ epoch' = [epoch EXCEPT ![cmd.key] = @ + 1]
    /\ cur' = [cur EXCEPT ![c] = cmd.key]
    /\ replaying' = [replaying EXCEPT ![c] = replay]
    /\ changed' = IF cmd.fires THEN Mark(changed, cmd.key) ELSE changed
    /\ Goto(c, IF cmd.fires THEN "load" ELSE IF replay THEN "exec" ELSE "record")
    /\ UNCHANGED touched

Write(c, cmd) ==
    /\ pc[c] = "idle" /\ ~active[c]
    /\ Mutate(c, cmd, FALSE)
    /\ UNCHANGED <<versions, watchers, state, contributed, args, unchecked, todo>>

\* BumpKey's gate.
Load(c) ==
    /\ pc[c] = "load"
    /\ IF watchers = 0
       THEN Goto(c, AfterNotify(c)) /\ touched' = Mark(touched, cur[c])
       ELSE Goto(c, "bump") /\ UNCHANGED touched
    /\ UNCHANGED <<engine, state, contributed, local, changed>>

BumpKey(c) ==
    /\ pc[c] = "bump"
    /\ versions' = [versions EXCEPT ![cur[c]] = @ + 1]
    /\ touched' = Mark(touched, cur[c])
    /\ Goto(c, AfterNotify(c))
    /\ UNCHANGED <<epoch, watchers, state, contributed, local, changed>>

\* The hand-over to the log and to the replicas, which are the modules Aof and
\* Replication.  A write that EXEC replays does not come here.
RecordWrite(c) ==
    /\ pc[c] = "record"
    /\ Goto(c, "idle")
    /\ UNCHANGED <<engine, state, contributed, local, ghost>>

----------------------------------------------------------------------------
(* EXEC *)

\* EXEC, which nothing refuses when there was no MULTI.
Exec(c) ==
    /\ pc[c] = "idle"
    /\ unchecked' = [unchecked EXCEPT ![c] = Watched(c)]
    /\ Goto(c, IF Watching(c) THEN "check" ELSE "commit")
    /\ UNCHANGED <<engine, state, contributed, args, todo, cur, replaying, ghost>>

\* Slip: CheckDirty looks at one key only.
SlipCheckOne(c) ==
    /\ pc[c] = "check"
    /\ \E k \in unchecked[c] :
          /\ dirty' = [dirty EXCEPT ![c] = versions[k] # watched[c][k]]
          /\ unchecked' = [unchecked EXCEPT ![c] = {}]
          /\ Goto(c, "commit")
    /\ UNCHANGED <<engine, active, queue, watched, contributed, args, todo, cur, replaying, ghost>>

\* CheckDirty: the map is visited in any order, up to the first difference.
CheckDirty(c) ==
    /\ pc[c] = "check"
    /\ \E k \in unchecked[c] :
          IF versions[k] # watched[c][k]
          THEN /\ dirty' = [dirty EXCEPT ![c] = TRUE]
               /\ unchecked' = [unchecked EXCEPT ![c] = {}]
               /\ Goto(c, "commit")
          ELSE /\ unchecked' = [unchecked EXCEPT ![c] = @ \ {k}]
               /\ Goto(c, IF unchecked[c] = {k} THEN "commit" ELSE "check")
               /\ UNCHANGED dirty
    /\ UNCHANGED <<engine, active, queue, watched, contributed, args, todo, cur, replaying, ghost>>

Commit(c) ==
    /\ pc[c] = "commit"
    /\ todo' = [todo EXCEPT ![c] = IF dirty[c] THEN <<>> ELSE queue[c]]
    /\ Goto(c, IF dirty[c] THEN "sync" ELSE "exec")
    /\ ClearQueue(c)
    /\ ClearWatch(c)
    /\ UNCHANGED <<engine, contributed, args, unchecked, cur, replaying>>

\* The next queued command, or the syncWatchGauge that follows the last one.
ExecNext(c) ==
    /\ pc[c] = "exec"
    /\ \/ /\ todo[c] = <<>>
          /\ Goto(c, "sync")
          /\ UNCHANGED <<epoch, cur, replaying, ghost, todo>>
       \/ /\ todo[c] # <<>>
          /\ Mutate(c, Head(todo[c]), TRUE)
          /\ todo' = [todo EXCEPT ![c] = Tail(@)]
    /\ UNCHANGED <<versions, watchers, state, contributed, args, unchecked>>

----------------------------------------------------------------------------
Init ==
    /\ epoch = [k \in Key |-> 0] /\ versions = [k \in Key |-> 0]
    /\ watchers = 0
    /\ active = [c \in Conn |-> FALSE] /\ queue = [c \in Conn |-> <<>>]
    /\ watched = [c \in Conn |-> [k \in Key |-> Absent]]
    /\ dirty = [c \in Conn |-> FALSE] /\ contributed = [c \in Conn |-> FALSE]
    /\ pc = [c \in Conn |-> "idle"]
    /\ args = [c \in Conn |-> <<>>] /\ unchecked = [c \in Conn |-> {}]
    /\ todo = [c \in Conn |-> <<>>]
    /\ cur \in [Conn -> Key] /\ replaying = [c \in Conn |-> FALSE]
    /\ changed = [c \in Conn |-> {}] /\ touched = [c \in Conn |-> {}]

Step(c) ==
    \/ Begin(c) \/ Discard(c) \/ Unwatch(c) \/ Disconnect(c)
    \/ \E cmd \in Cmd : Queue(c, cmd) \/ Write(c, cmd)
    \/ \E keys \in WatchArgs : Watch(c, keys)
    \/ WatchKey(c) \/ Sync(c) \/ Load(c) \/ BumpKey(c) \/ RecordWrite(c)
    \/ Exec(c) \/ CheckDirty(c) \/ Commit(c) \/ ExecNext(c)

Next == \E c \in Conn : Step(c)

Spec == Init /\ [][Next]_vars

----------------------------------------------------------------------------
(* Properties *)

Place == {"idle", "closed", "watch", "sync", "load", "bump", "record",
          "check", "commit", "exec"}

\* The fields of engine and connections keep their types; in particular the
\* gauge never goes negative.
TypeOK ==
    /\ epoch \in [Key -> Nat] /\ versions \in [Key -> Nat]
    /\ watchers \in Nat
    /\ active \in [Conn -> BOOLEAN] /\ queue \in [Conn -> Seq(Cmd)]
    /\ watched \in [Conn -> [Key -> Nat \cup {Absent}]]
    /\ dirty \in [Conn -> BOOLEAN] /\ contributed \in [Conn -> BOOLEAN]
    /\ pc \in [Conn -> Place]
    /\ args \in [Conn -> Seq(Key)] /\ unchecked \in [Conn -> SUBSET Key]
    /\ todo \in [Conn -> Seq(Cmd)]
    /\ cur \in [Conn -> Key] /\ replaying \in [Conn -> BOOLEAN]
    /\ changed \in [Conn -> SUBSET Key] /\ touched \in [Conn -> SUBSET Key]

\* The gauge counts the connections that raised it; a connection watches
\* only while it is counted, and between commands it is counted only if it
\* watches: no share leaks, on any path out of a transaction.
GaugeExact ==
    /\ watchers = Cardinality({c \in Conn : contributed[c]})
    /\ \A c \in Conn : Watching(c) => contributed[c]
    /\ \A c \in Conn : pc[c] \in {"idle", "closed"} => (contributed[c] <=> Watching(c))

\* "a write real-time-after a completed WATCH always bumps" (FEATURES.md):
\* a notification that has finished for a watched key shows in its version,
\* however the writer's look at the gauge interleaves with WATCH.
NotificationsShow ==
    \A c \in Conn : \A k \in touched[c] : versions[k] # watched[c][k]

\* A step in which EXEC goes on to replay a queue that is not empty.
Runs(c) == pc[c] = "commit" /\ pc'[c] = "exec" /\ queue[c] # <<>>

\* EXEC runs its queue only if no watched key had a write whose notification
\* finished after WATCH and before EXEC was called (execCmd, CheckDirty).  A
\* command that does not fire has none, and EXEC runs past it.
ExecAborts ==
    [][\A c \in Conn : Runs(c) => touched[c] = {}]_vars

\* A writer has mutated k and not yet reached the version table.
InFlight(k) == \E d \in Conn : pc[d] \in {"load", "bump"} /\ cur[d] = k

\* "aborted == true when a WATCH-ed key was mutated since WATCH ran"
\* (transaction.go), for the commands that notify, whatever commands that do
\* not run beside them: the only such mutation of a watched key that the
\* versions do not show is one whose writer is still between the shard and
\* the version table, so EXEC can miss none that was answered to its client.
MissesAreInFlight ==
    \A c \in Conn : \A k \in changed[c] :
        versions[k] # watched[c][k] \/ InFlight(k)

============================================================================
