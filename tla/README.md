# A TLA+ verification of NeuroCache

NeuroCache is a Redis-compatible in-memory server written in Go
(`src/apps/api`): a sharded keyspace behind a RESP and an HTTP front end, with
an append-only file, snapshots, replication, transactions, blocking commands
and a large family of AI-oriented commands on top. This project models the
parts of it whose correctness depends on what happens *between* two steps:
another connection's command, a lost connection, a crash. It model-checks them
with TLC on small instances and proves what it can with TLAPS for every value
of the constants.

Paths below are relative to `src/apps/api/internal` unless they start with
`src/`.

## 1. Inventory

### 1.1 Parts that carry the concurrency of the server

| part | state | operations | interacts with |
|---|---|---|---|
| connection goroutines, `resp/resp.go`, `resp/commands*.go` | per-connection transaction state, the flag `watchContributed` | one handler per command; `executeUpper` queues inside MULTI, dispatches, then calls `RecordWrite` | everything below |
| store, `store/` | 256 shards, each a map under an RWMutex | data-type operations in one shard's critical section, multi-key ones over several; `fire` after the unlock | notifier of the engine |
| notifier and engine, `engine/engine.go` | key versions, watcher gauge, busy flags | `BumpKey`, `Blocker.Notify`, `RecordWrite`, `BGRewriteAOF`, `EnablePersistence`, `Stop` | transactions, blocking, AOF, replication |
| transactions, `transaction/transaction.go` | active, queue, watched versions, dirty | `Begin`, `Queue`, `Commit`, `Discard`, `Watch`, `Unwatch`, `CheckDirty` | key versions and gauge |
| blocking hub, `blocking/waiters.go` | waiters per key and per client, an atomic count | `RegisterFor`, `Wait`, `Cancel`, `Notify`, `NotifyAll`, `Unblock` | blocking commands, notifier |
| blocking commands, `resp/commands_block.go`, `XREAD` in `resp/commands.go` | loop locals | fast path, register, re-check, wait, cancel | hub, store |
| replication backlog, `replication/backlog.go` | ring, begin, length, head | `Append`, `Read`, `Contains`, `Slice` | master |
| replication master, `replication/master.go`, `state.go`, `resp/commands_repl.go` | offset, pending frames, notify channel, links | `Propagate`, `fanoutLoop`, `psyncCmd`, ACKs, WAIT | backlog, replicas |
| replica client, `replication/replica.go` | replid, applied offset, link state | handshake, `consumeRDB`, `applyStream`, `ackLoop`, reconnect | master, engine |
| append-only file, `persistence/aof.go` | buffer, file | `Append`, `flushLoop`, `Rewrite`, `Replay`, `Close` | engine |
| snapshots, `persistence/rdb.go` | temporary and final file | `SaveNow` from SAVE, BGSAVE, ticker and `Stop`; `LoadRDB` | engine, store |
| role changes, `replication/state.go`, `FollowMaster`, `PromoteToMaster` | role, id, previous id, applied offset | REPLICAOF, FAILOVER, DEBUG CHANGE-REPL-ID, the handshake's choice of resync | replication of every node |
| expiry and eviction, `ttlLoop` in `store/store.go`, `evictLoop` in the engine | cached clock, byte counter | sweep, lazy expiry, eviction down to the cap | every write |
| idempotency keys, `primitives/idempotent.go` | entry per key: in flight, expiry, result, channel | `Acquire`, `Complete`, `Discard`, sweep | the connections that run, wait or reuse |
| worker queue, `aiops/worker.go` | heap, reservations, dead-letter list | `Enqueue`, `Dequeue`, `Ack`, `Nack`, `Requeue`, sweep | workers, which may die |
| cross-primitive transactions, `llmstack/xtxn.go`, `engine/xtxn_participants.go`, `engine/quota_eval.go` | transactions, tokens the participants staged, budgets | BEGIN, STAGE, PREPARE, COMMIT, ABORT, FORGET, QUOTA.ADMIT, COST.BUDGET, COST.CHARGE and their like | quota policies over cost, carbon, risk, rate and market |

### 1.2 What makes each of them correct

* **Backlog**: a partial resync replays exactly the propagated bytes.
* **Blocking**: nobody sleeps beside an item, every timeout ends, no waiter is
  left behind, `CLIENT UNBLOCK` does what it answers.
* **Transactions**: EXEC runs only if no watched key changed; the gauge that
  lets writers skip the version table is exact.
* **Replication**: every replica converges to the master; offsets, ACKs and
  the order of frames agree on both sides.
* **AOF**: an acknowledged write survives what the policy says it survives; a
  restart brings back a prefix of the history.
* **Store**: no increment is lost between the two representations of a number,
  multi-key commands do not deadlock, expiry and eviction delete only what they
  may, and the byte counter eviction acts on is right.
* **Snapshots**: the file always loads, and keeps what a save has reported.
* **Role changes**: a replication id names one history, so that a partial resync
  granted on it is exact.
* **Idempotency**: one run per window, fresh replies, nobody waits for ever.
* **Worker queue**: a job is in one place, a running reservation is honoured,
  every job settles.
* **Cross transactions**: committed is everything, aborted is nothing.
* **Hard behaviours**: a write is several critical sections (shard, gauge,
  version, hub, log, backlog, fan-out), all of which other goroutines can
  separate; connections and processes die between any two of them.

### 1.3 The rest

`acl`, `cluster`, `config`, `glob`, `http`, `introspect`, `memory`, `metrics`,
`modules`, `probstruct`, `pubsub`, `rembed`, `retrieval`, `scripting`,
`semcache`, `sentinel`, `vector`, `vectorindex`, `webui`, the other features of
`aiops`, `llmstack` and `primitives`, the Rust hot path, the dashboard and the
SDK are listed in `PROJECT.json` with the reason each is left out: sequential
string, number or vector processing, one mutex around one map, an interpreter,
pure translation, or later in the plan.

## 2. Modules

| module | models | shape |
|---|---|---|
| `ReplStream` | what the backlog promises | one stream, one window |
| `Backlog` | `replication/backlog.go` | the ring, byte by byte; `Implements` is the refinement of `ReplStream` with `first <- begin` |
| `Blocking` | `blocking/waiters.go`, the loops of the blocking commands, the notifier's switch | one step per critical section or atomic operation |
| `Transaction` | `transaction/transaction.go`, its handlers, `BumpKey`, the gauge | connections as processes |
| `Replication` | `master.go`, `psyncCmd`, `waitCmd`, `replica.go` | writers, fan-out loop, handshake handler, wire, replica; the backlog is the stream `Backlog` implements |
| `Aof` | `persistence/aof.go`, `EnablePersistence`, `BGRewriteAOF`, `Stop` | writers, buffer, file, disk, crashes |
| `Failover` | `replication/state.go`, `FollowMaster`, `PromoteToMaster`, the choice in `psyncCmd` | several nodes; a handshake is one step, what is inside a connection is `Replication` |
| `Rdb` | `persistence/rdb.go`, `SaveRDB`, `BGSaveRDB`, the shutdown | savers, inodes and names, disk, crashes |
| `Store` | `store/store.go`, `store/shard.go`, `store/string.go`, `evictLoop` | one-shard commands as one step, multi-shard ones lock by lock; the sweep and eviction loops |
| `Idempotent` | `primitives/idempotent.go`, `idempotentCmd` | connections of one key, a clock |
| `JobQueue` | what the worker queue promises | status and attempts per job |
| `Workers` | `aiops/worker.go` | workers that answer, answer twice or die; `Implements` is the refinement of `JobQueue` |
| `XTxn` | `llmstack/xtxn.go`, its participants, `QuotaEvaluate` | clients, mutexes and transaction objects, one step per critical section |
| `LogProofs`, `BlockingProofs`, `KeyspaceProofs`, `ReplicationProofs`, `FailoverProofs`, `RdbProofs`, `WorkersProofs`, `PrimitivesProofs` | | theorems and proofs |
| `MC*` | | instances for TLC |

Operators named `Slip...` are the definitions that follow them with a plausible
mistake; they are used to see that each property can fail, and no specification
refers to them.

### 2.1 State and actions against the code

**Backlog.** `buf`, `begin`, `length`, `head` are the fields; `stream` is
history. `AppendWhole` and `AppendPart` are the two branches of `Append`,
`CopyIn` its two copies, `Read` the two copies of `Read` with `Start` for the
index arithmetic. The guard `MaxOffset` is the only bound.

**Blocking.** `byKey`, `byClient`, `waiterCount` are the hub; `wt[c]` is the
current waiter with its channel of capacity one (`full`) and flags; `pc` walks
the loop: fast path, `register` (under the hub's mutex), `count` (the atomic
add that follows), re-check, deadline, `wait`, the reads of the two flags,
the three critical sections of `Cancel`. A write of another connection is
`Push`, `Del` or `Shift` (RPOPLPUSH, which fires no event); its notification is
in flight in `fired`, `notifying`, `firedAll`, `sending` until the step of
`Notify` or `NotifyAll` that performs it. `CLIENT UNBLOCK` is three steps, one
per lock it takes. Values are counts: `items[k]` is the length of a list or the
number of entries of a stream. `woken` and `stray` are history: whom `Notify` has
woken for which key and who has not tried it since, and the keys one of whose
wakes reached nobody who could use it (3.1 says how that happens).

**Transaction.** `epoch[k]` counts the mutations of a key. A write is `Mutate`
(in its shard), `Load` (the gauge), `BumpKey`, `RecordWrite`. WATCH is one step
that raises the gauge, then one per key; EXEC is one step per key it checks,
`Commit`, and the replay, whose writes skip `RecordWrite` as the code's do.
`changed` and `touched` are history: which watched keys were mutated, and which
had their notification finished, between WATCH and EXEC.

**Replication.** A write is a number, a keyspace the sequence of the writes it
has seen, a frame has length one. `Propagate` is four steps (`AppendFrame`,
`StoreOffset`, `Enqueue`, `Notify`) after the `Gate` of `RecordWrite`; the
fan-out loop is `Wake`, `Drain`, `ListReplicas`, `SendBatch`; `psyncCmd` is
`Activate`, `Decide`, then `Continue`, `Replay` or `Snapshot`, `FullResync`,
then `Attach`. `Break` loses the connection of a streaming replica, `Tear` one
in the handshake. `RecvFrame` counts a frame and puts it in `hand`, where an
`Ack` may cover it; `ApplyFrame` and `RefuseFrame` are the two outcomes of the
applier, the HTTP dispatcher, which does not know every command, and may come
after the connection is lost. `mishap` is
history: a handshake overlapped a write (`raced`), a connection was lost
between FULLRESYNC and the dump (`torn`), two writes overlapped (`crossed`),
the replica received a GETACK (`getack`), the applier refused a frame
(`refused`).

**Aof.** A record is two halves, so that a file can end inside one; the first
`synced` units are on disk. `Spill` is a full `bufio.Writer`, `Kill` keeps the
page cache, `PowerLoss` keeps any prefix that contains the synced part.
`phase = "closed"` is the time between `AOF.Close` and the end of the process,
when connections are still served. `Replay` is what the records before the first
defect build, `Replays` what the reader may build in all: behind a half record
with bytes after it there may come a write that nobody made (`Stray`), and then
the rest from a later record on. `mishap` is history: a restart found a half
record (`torn`) or bytes behind one (`spliced`), a write overlapped a rewrite (`raced`), came after
`AOF.Close` (`late`), overlapped another write (`crossed`), a rewrite left out a
type it does not serialize (`partial`), or the file refused a write (`failed`).
`AppendFails` is a flush that fails half-way, after which `bufio` keeps the
error; `FlushFails` one of the ticker. `Rewrite` fails early and leaves the log
alone (`TempFails`), fails to close or to replace the old file (`RenameFails`),
or to open the new one (`ReopenFails`); the log may then be closed. A
rename is taken as durable here; `Rdb` is the module that takes it back.

**Store.** An entry has the string, the atomic integer, the flag that it is
promoted, expiry and size; a string is the number it spells, APPEND adds the
digit 1 (`AppendStr`), so the two representations can come apart as they do in the
code. `IncrFast` is INCR under the read lock; `IncrMiss` and `IncrSlow` are its
slow path, with other commands in between. RENAME, MSETNX and FLUSHALL take shard
locks one by one (`Lock`), MSET visits one shard after another. `SweepScan` and
`SweepDelete` are the two critical sections of the TTL sweep for each shard,
`EvictScan` and `EvictDel` eviction's snapshot and its deletions, with any
choice of victims. `ref` is history, the value the commands add up to.

**Rdb.** A name refers to an inode, an open file outlives its name, `os.Create`
truncates the inode a name has; blocks not synced may be lost or kept by a
power failure, a rename may be taken back by one. SAVE runs on a connection,
BGSAVE behind its flag, the ticker and `Stop`'s last save on one goroutine.
`Export` is one step, the copy under all shard locks, and a keyspace is the set
of the writes it has seen. `Fail` is a call whose error removes the temporary
file, if the removal succeeds, `FailKeeps` one that leaves it: `os.Create`,
`f.Close`, the rename. `mishap`: two savers had the temporary name open at once
(`shared`), an export was renamed after one taken later (`older`), a rename was
taken back (`undone`), a start did not read a whole file, which is only logged
(`unread`), the last save failed (`final`). `exports`, `nth` and `newest` are
history: the number of each export in the order they were taken.

**Failover.** `replid` and `prev` are pairs of the node that minted the id and a
number. `Promote`, `Follow` and `Rotate` are the three changes, `Partial` the
condition of `psyncCmd`, `Continue` and `FullResync` its outcomes, `Tear` a full
resync whose dump does not arrive, `Deliver` one frame applied. `Client.Stop` does
not wait for the client: `old` keeps those that were stopped, with the frames
they had buffered or the node they dial, and `OldDeliver` and `OldHandshake` are
what they still do to the node. `mishap`: a partial resync was granted on an id of
another node (`foreign`), a replica was written to (`local`), a replica served a
resync (`chain`), a node with replicas took over another's data (`under`), a full
resync broke off after the id was taken over (`torn`), a stopped client wrote to
the node (`lingered`). Role changes of one node come one after the other.

**Idempotent.** `AcquireHit`, `AcquireWait`, `AcquireLead` are the outcomes of
`Acquire`, `Woken` the second look-up of a released waiter; a leader ends by
`Complete`, `CompleteMissing` (its entry is gone), `Discard` or `Panic`, which
`resp/resp.go:290` recovers from without touching the entry. A reply is the number
of a run, 0 for an error and `Nil` for what an entry in flight would give to a
waiter that did not look at the flag. `done` and `since` are history.

**Workers.** Every operation of the queue is one critical section and one
action. Time is what is left until a deadline; `left[w]` is the worker's own
count, which the queue does not know. A worker answers with `Ack` or `Nack`,
may answer again after its reservation is over, or dies. `owner` and `done` are
history.

**XTxn.** A transaction is an object, `txns` the table of xids: a call looks an
object up under the coordinator's mutex and goes on with the pointer. `xmu`,
`tmu`, `qmu` are the mutexes. PREPARE and COMMIT call the participants in order
with the object locked; the quota participant peeks at PREPARE and peeks and
consumes at COMMIT (`Admit`, `Peek`, `Decide`, `Consume`). A policy is a list of
gates and a mode; `spent` and `limit` say of each of the five kinds of gate what
was taken and how much may be, and `HasRoom` when one more unit fits: a cost
budget of 0 is none, the last unit of a risk budget is refused, a price may reach
its ceiling. Other connections act outside the quota mutex: `Charge` takes a unit
(COST.CHARGE and a rate limit refuse without room, CARBON.CHARGE and
RISK.BUDGET.DEBIT do not, and a market price rises), `Refill` gives back (a window
passes, a bucket drains, a price falls, a RESET), `SetBudget` is COST.BUDGET,
CARBON.BUDGET or RISK.BUDGET.SET, the last of which begins with a full balance.
Abstracted: each operation asks one unit of each gate of one policy, in one scope
and session; the rate limiter is a counter; a carbon tenant without a budget is a
large one; amounts below zero and operations without a session are left out.
`moved`, `unknown` and `mishap` are history: gates closed by someone else's step,
tokens not found, and gates closed inside an evaluation by a step not its own.

## 3. Runs

Every run is a `.cfg` beside its MC module, and every run passes.

| run | instance | result |
|---|---|---|
| `backlog` | ring of 3, frames of 1 to 4 bytes over 2 values, 8 bytes: several wraps, frames below, at and above the capacity | every live offset reads back the stream; the ring implements `ReplStream` |
| `blocking` | two clients on one key: BLPOP k1 k2 without a timeout beside BLMOVE through RPopLPush with one, beside BLMOVE in two critical sections, or beside BLPOP k2 k1; any 3 calls of other connections among push, deletion, RPOPLPUSH and UNBLOCK | hub consistent, sleepers reachable, fast path sound, replies justified; asleep beside an item only where a wake went astray |
| `blocking_live` | BLMOVE in two critical sections feeding BLPOP, or XREAD BLOCK beside BLPOP, timed or not; any 2 of push, deletion, UNBLOCK | items are served; timed commands return |
| `transaction` | 2 connections, 2 keys, commands that notify and one that does not | gauge exact, no finished notification missed, EXEC aborts; what it misses is in flight |
| `replication` | 2 writers, 2 writes, backlog of 1 frame, one of: connection lost while streaming, in the handshake, a WAIT; frames the applier refuses | converges and ACKs line up short of a mishap, a refused frame shifts no offset; frames conserved, no lost wake-up, all fanned out in any case |
| `failover` | 3 nodes, 2 writes, window of 1 frame, any 4 promotions, demotions, rotations, lost connections and steps of stopped clients | short of a mishap an id names one history, and replicas of a master converge |
| `aof` | the three policies, 2 writers, 3 writes, the second of an unserialized type, 2 crashes or failing file operations, 1 rewrite, shutdowns | acknowledged and ticked writes lost only by a named mishap; the log replays to the keyspace; a restart is a prefix |
| `rdb` | 4 inodes, SAVE, BGSAVE, ticker, `Stop`: 2 of them, 2 writes, 2 faults | the file loads, reported saves stay, `Stop` saves all, each short of its mishaps |
| `store` | 2 keys on 2 shards, 2 connections, any 3 of 12 commands, 3 ticks, a cap of 3 bytes | values and byte counter exact short of a mishap, no lock cycle, the sweep spares live keys, a store over its cap settles |
| `idempotent` | 3 clients, window of 2 ticks, 4 ticks, 3 entries | one run per window, fresh replies, waiters return |
| `workers` | 2 workers, 2 jobs, 1 key, 2 attempts, dead-letter list of 1, reservation of 2 ticks, 1 operator call | one place, reservations honoured, one live job per key, jobs settle, implements `JobQueue` |
| `xtxn` | 2 clients, 1 xid begun at most twice, 2 operations; a policy of cost and risk, of rate or carbon, or of market; tight budgets that may be lowered to 1 or 0; 4 further calls | committed is whole, aborted is nothing, partial is contended, risk within budget, calls return |

A type invariant and a structural one that belong together are checked as one
property with named parts: `HubConsistent` (`TypeOK`, `NoLeakedWaiter`,
`SleepersReachable`, `FastPathSound` of `Blocking`), `LogConsistent` (`AofTypeOK`,
`LogTracksData` of `Aof`), `LocksConsistent` (`StoreTypeOK`, `NoLockCycle` of `Store`),
`BudgetsConsistent` (`TypeOK`, `RiskWithinBudget` of `XTxn`). The type invariants
of the other modules, `NotificationsShow`, `NoLostNotify`, `PipelineInStep` and
`AttachedInStep` are proved for every value of the constants (section 4), and no
run repeats them.

### 3.1 Conditions, and what happens without them

Several properties hold under a condition on a history variable or on the
instance. Each condition is there because the code needs it; removing it from
the property, or changing the instance as stated, makes TLC print the
behaviour.

* `NoSleeperNextToItem` excepts a key in `stray`: one of its wakes went astray and
  it has not been empty since. There are three ways, each a disagreement with a
  comment. No event is fired for the item: `Store.RPopLPush` (`store/list.go:271`)
  pushes without calling `fire`, for RPOPLPUSH as for BLMOVE, although
  `blocking/waiters.go:3` says "Producers (any list/zset/stream write) call
  Notify(key)". `Notify` sends the wake to a client it has woken for the key
  already and that has not looked yet, registered anew between the two, and both
  items have then one client awake. The client that was woken gives the wake up: it has popped
  another item in its re-check (`resp/commands_block.go:43`) or timed out or was
  unblocked, and cancels, although `blocking/waiters.go:195` says "Drops the wake
  when the recipient's channel is full — that's fine because a blocked consumer
  always reads exactly once"; or it is an XREAD BLOCK, which leaves the entry
  for the next reader, whom nobody wakes, although `resp/commands.go:2863` says
  "The blocker fires on every XADD". Without the exception TLC shows a BLPOP
  asleep beside an item in each of these ways.
* `ItemsAreServed` is checked where no two clients wait for one key and nobody calls
  RPOPLPUSH (`blocking_live`), for the same three reasons.
* `ItemsAreServed` does not say that XREAD BLOCK with `$` returns the first entry
  added after the call, and it does not: `xreadCmd` passes `$` to `XRead` in
  every pass of its loop, where it is resolved anew (`store/stream.go:347`), so
  the entry that woke the client is behind the tail. `store/stream.go:38` says
  "callers substitute the stream's last ID before calling"; no caller does.
* `UnblockRepliesJustified` is one direction only. The converse fails: a CLIENT
  UNBLOCK that marks the waiter after the loop has read its flags and before
  `Cancel` answers 1, and the command sleeps on, although
  `blocking/waiters.go:268` says it "will observe the unblock on its next loop
  iteration".
* `MissesAreInFlight` and not "EXEC sees every mutation":
  a write bumps the version after it has released its shard
  (`engine/engine.go:1448`), and `CheckDirty` may fall between the two.
* `NotificationsShow`, `MissesAreInFlight` and `ExecAborts` speak of mutations by a
  command that notifies (`changed`, `notified`). `Append` (`store/string.go:271`),
  `Incr`, `GetSet`, `MSet` (`:171`), `LPop` (`store/list.go:87`) and `Rename`
  (`store/store.go:442`) fire no event and bump no version, so EXEC runs past
  them, although `transaction/transaction.go:91` says "The RESP layer bumps
  KeyVersion on every write so EXEC can detect races". `Transaction` has such a
  command in its instance: it may change a watched key at any point, and
  nothing is claimed of that change.
* Writes of an EXEC are not logged and not propagated: `execCmd`
  (`resp/commands.go:3085`) replays through `dispatch`, and `RecordWrite` sees the
  name EXEC only, although `resp/writeset.go:4` says that commands are handed to
  the log "so durability tracks the live state".
* `Converges`, without `raced`: `psyncCmd` attaches the link
  (`resp/commands_repl.go:221`) after it has read the offset, sliced or taken the
  snapshot; a write fanned out in between reaches no one, although `:169` says
  "so every write from this point streams to the replica". Without `torn`: the
  replica takes over the master's offset at `+FULLRESYNC`
  (`replication/replica.go:195`), before the dump; a connection lost in between
  is followed by a CONTINUE from data it does not have. Without `crossed`: two
  writers may pass each other between `Backlog.Append`, the store of the offset
  (`replication/master.go:143`) and the pending buffer (`:146`), so the offset
  goes back and stays behind the stream, and connected replicas apply another
  order than the backlog holds (`PipelineInStep` excludes it too). Without `getack`
  (`AcksLineUp`): the replica counts WAIT's GETACK frames and the backlog does
  not (`resp/commands_repl.go:87`). Without `refused`: the applier's error is only
  logged (`replication/replica.go:275`) and the frame stays counted, so the
  keyspaces differ for good and the offsets do not.
* `AcksLineUp` says received, and applied but for one frame: `applyStream` stores
  the offset (`replication/replica.go:273`) before it calls the applier (`:275`),
  and the ACK loop, another goroutine, may send it in between, although `:282`
  says that it informs the master "of the latest applied offset". So WAIT may
  count a replica that has not applied the last write yet. With `rdata` in the
  place of `rdata \o hand` the property fails with no mishap.
* `IdNamesHistory`, `AttachedInStep`, `ReplicasConverge`, without `foreign`: a
  CONTINUE granted on the previous id compares offsets of two streams, as a
  promoted node's own backlog counts from zero; `replication/state.go:188` says
  that a rotated id "forces a full resync", while `psyncCmd` accepts the previous
  id (`resp/commands_repl.go:180`). Without `local`: a replica accepts writes and
  keeps them to itself. Without `chain`: a replica answers a PSYNC from its own,
  idle stream. Without `under`: `engine/engine.go:1597` says "Connected replicas
  stay", and a node that becomes a replica keeps its own replicas attached while
  its data is replaced under them. Without `torn`: the id and the offset are taken
  over before the dump (`replication/replica.go:193`), so what follows a broken
  resync is granted a partial one. Without `lingered`: `engine/engine.go:1582` says
  that a client that was running is stopped "first so the restart is clean", but
  `Client.Stop` (`replication/replica.go:57`) does not wait. A client inside
  `DialTimeout` (`:90`) does not look at `stop` before its handshake, on a
  connection nobody closes; it takes over id, offset and data of its master and
  applies that master's frames, beside the new connection or on a promoted node.
  One in `applyStream` goes on through the frames it has buffered. TLC shows a
  promoted node that carries its former master's id, and not its data, after four
  steps.
* `LostOnlyByMishap`, without `torn`: `EnablePersistence`
  (`engine/engine.go:1174`) appends behind the half record a crash has left, and
  the next replay loses what is there. Without `raced`: `Rewrite` takes the log's mutex
  (`persistence/aof.go:186`) after its temporary file is complete, so what was
  appended since the export goes with the old file, although `FEATURES.md:43` says
  "Async rewrite from live keyspace, atomic rename". Without `late`: `Engine.Stop`
  closes the file while connections are served, or the reopen after a rewrite
  failed, and `RecordWrite` drops the error. Without `failed`: `bufio` keeps the
  error of one failed flush and refuses every later record. Without `partial`:
  `writeAOFSnapshot` has no case for vector sets.
* `RestartIsPrefix`, without `spliced`: `readCommand` (`persistence/aof.go:260`)
  takes the number of arguments and their lengths from the half record and the
  bytes from what was appended behind it. Before it meets a byte it cannot parse
  it may return a command that nobody sent, with a value or a key made of both
  records, and Replay applies it; if the lengths happen to end where a record
  does, it reads on. `:207` says of a structural error that the stream "is corrupt
  or truncated" and "aborts"; the command before it is in the keyspace. A restart
  at a cut with nothing behind it is inside the property.
* `LogTracksData` and `RestartIsPrefix`, without `crossed`: `RecordWrite` runs
  after the shard is released, so two writers of a key may log in the other
  order.
* `FileLoads`, without `shared`: all savers use one temporary name
  (`persistence/rdb.go:117`); one renames what another is still writing, although
  `:116` says "a crash during write can't corrupt the file". `SavedStays`,
  without `older`: the order of the renames is not that of the exports; without
  `undone`: the directory is not synced; without `unread`: a start that cannot
  read the file logs a warning (`engine/engine.go:1182`) and serves an empty
  keyspace, which the next save puts in the file's place. `StopSavesAll`, without
  `final`: the loop ignores the error of the last save. With an interval of zero
  there is no loop and `Stop` saves nothing, although `:106` says "Stop flushes a
  final snapshot".
* `CounterExact`, without `tainted` and `lagging`: INCR's fast path
  leaves `Str` behind, which MGET, GETSET, STRLEN, GETRANGE, COPY, the export,
  APPEND and SETRANGE read, although `store/string.go:425` says "Str remains valid
  for callers that read it directly"; INCRBYFLOAT writes `Str` and leaves the
  entry promoted. `BytesExact`, without `ghost`: SETNX, APPEND, GETSET, MSETNX,
  INCR and INCRBYFLOAT overwrite an expired entry without uncounting it; without
  `self`: RENAME k k subtracts the key's bytes. No property says that MSET is
  seen whole: it visits shard after shard, although `store/string.go:169` says it
  "sets several key/value pairs atomically".
* `OncePerWindow` and `WaitersReturn`, without `late`: a leader slower than its
  window is joined by another, and its waiters' channel is never closed once the
  entry is replaced or swept, although `primitives/idempotent.go:84` says
  `Complete` "releases anyone waiting on the same id"; without `panic`: the entry
  stays in flight until it expires.
* `ReservationHonoured`, without `stale`: `Ack` and `Nack` do not ask who calls.
  `IdempotentWhileLive`, without `revived`: a requeued job is not compared with
  the live ones. Jobs dropped from a full dead-letter list are settled by
  `JobsSettle`; `JobQueue` calls them lost.
* `CommittedIsWhole`, when no gate that decides again (cost, rate) was closed
  inside an evaluation by someone else: such a COST.CHARGE or COST.BUDGET makes
  the evaluation admit and charge nothing. It is about policies of mode `all`; one
  of mode `any` consumes what it admitted. `PartialIsContended` and not "COMMIT
  does not fail": PREPARE only peeks, although `llmstack/xtxn.go:27` says "Reserve
  whatever's needed" and `:31` that a commit "Must not fail under normal
  operation"; what is left is that a gate was closed by someone else after PREPARE
  began ("A budget changed between prepare and commit",
  `engine/xtxn_participants.go:96`) or that operations of its own were committed
  before the one that failed, and that no token was missing. `RiskWithinBudget`,
  without `debit` and with no risk budget set between a peek and its debit: the
  ground participant and direct debits ask no one. FORGET of a prepared
  transaction leaves its tokens staged, so `AbortedIsNothing` is about aborted
  ones.

**Bounds.** The races found, and those excluded, take two actors and at most
three operations of each, and the bounds admit them: every counterexample of
3.1 is inside the bounds of the passing run whose condition excludes it. The
ring wraps more than once; the backlog of one frame is overrun by two writes
and holds one, so that both kinds of resync happen; two crashes are what a torn
tail needs to do harm. Bounds that would multiply are shared (`MaxCalls`,
`MaxEvent`): any mixture of calls, so many in all. Symmetry is used where only
safety is checked and the instance treats the elements alike (`Transaction`,
`Aof`, `Rdb`). Three nodes and four changes let a replica be promoted, followed,
demoted and followed again; three clients let one lead, one wait and one take
over a window; two transaction objects let an xid be forgotten and begun again
while a call still holds the first; two savers are what a shared name needs,
and four inodes never run out.

**Deadlock** is not checked where the environment's budget ends a behaviour:
clients that sleep for ever are what `NoSleeperNextToItem` and the liveness
properties are about.

**Fairness.** `Blocking!FairSpec` and `Replication!FairSpec` assume weak
fairness of each goroutine that is inside a command, of the delivery of a
notification (it runs on the writer's goroutine) and of the fan-out loop: Go's
scheduler is preemptive and no mutex is held across a wait. Nothing is assumed
of the environment: no push, no unblock, no write owes to happen. A timer is
assumed to fire (weak fairness of the waiting client), and a replica without a
connection to dial again, as the loop of `replication/replica.go` does. The same
holds of the other modules: `Store` assumes weak fairness of a command that has
begun, of the sweep and eviction tickers and of the clock refresh, and of no
command; `XTxn` of a call that has begun, none of which waits for anything but
a mutex; `Workers` of the clock, of the sweeper's ticker, and of workers that
ask, and then answer or die; `Failover` of handshakes and
deliveries, while changes are bounded; `Idempotent` of a leader's command and of
waiters whose channel is closed.

## 4. Proofs

All proofs are checked by TLAPS to the last leaf.

Every invariant and every action property the runs check is a theorem, for every
value of the constants and from no other assumption than those of the modules on
their constants: what 3.1 excepts is in the formula, as history, and not a
hypothesis. Liveness under fairness is outside the prover and stays with TLC.

**`LogProofs`**: the two logs, which share no name and no variable.

For `Backlog`, every capacity `Size \in Nat \ {0}` and every set of
frames, from `SizeAssumption`, `PayloadAssumption`, `ByteAssumption`.
`ReadReturnsStream` is not inductive: it says nothing of where the cursor is.
The invariant is `TypeOK`, `Accounting` (the ring ends where the stream does, and
is full once anything has been evicted) and `RingHoldsTail` (the i-th live byte
is in the cell `Start` computes). For the proof the cell is rewritten without
modulus (`LiveCell`), and `AppendKeeps` goes through the cases: frame above the
capacity, below it without and with wrap. `ReadCorrect` follows from the
invariant by the two pieces of `Read`, and `BacklogImplements` shows that each
append is one `Propagate` of `ReplStream`.

For `Aof`, any writers, writes, crashes, rewrites and policies, from `AofBounds`
and `PolicyAssumption`. What the file holds is what `Replay` makes of it, a
function defined by recursion, so facts about it need induction. The library's
induction theorems take a predicate as parameter, which no installed prover
instantiates; but a set is a term like any other, so `LeastNumber` (every set of
numbers has a least element, from `WFMin`) and `UpwardSet` (a set that contains
0, and with each number below N the next, contains the numbers up to N) do the same
work, with the set of indices at which the fact holds. `UpToDef` shows once that
the recursive function exists; from it follow the facts on files that the proof
uses: the replay of a prefix is a prefix (`ReplayPrefix`), a whole record adds its
writes (`ReplayRecord`), half a record adds nothing (`ReplayTorn`, `ReplayHalf`). All are about the records before the first defect,
which every replay applies; `ReplaysFacts` says that it applies no more unless bytes
follow a half record, the case `spliced` names.
`AofInv` is the types and
* `Named`, `Flushed`, `Resting`: where a writer has a number, and where the
  buffer is empty;
* `Exported`: an export that nothing raced with and that left nothing out is the
  keyspace;
* `Ordered`: as long as writes overlap neither each other nor a rewrite, file and
  buffer replay to a prefix of the keyspace, also while the process is down and
  the buffer gone; and to all of it but the one write between its mutation and its
  record, while the log takes writes and is intact (`InStep`);
* `Kept`: short of a mishap, the log has every write of the keyspace but those
  not yet recorded (`Complete`), and the synced part every ticked write, and under
  `always` every acknowledged one (`OnDisk`).

`LostOnlyByMishap` and `LogConsistent` follow from it, `RestartIsPrefix` from it
and `ReplayPrefix`. A file operation is one of a few shapes (`MovedInv`: the log
moves between buffer, file and disk; `StillInv`: it stays; `RenamedInv`; `DownInv`),
each proved once. `AofInv` was checked with TLC before.

**`KeyspaceProofs`**: `Transaction` and `Store`, again without a common variable.

For `Transaction`, every finite set of connections, every key set and every set
of argument lists. `GaugeExact` needs to know at which places of a
handler a connection may watch without being counted and the reverse
(`Settled`): the inductive invariant is `TypeOK /\ GaugeInv`. `CountIn`,
`CountOut` are the two facts on cardinality that a raise and a drop need; there
is one lemma for the actions that leave the gauge alone and one for each that
does not. `NotificationsShow` needs that a recorded version is never ahead of
the table (`WatchInv`), so that a bump makes them differ for good; `ExecAborts`
follows. Commands that notify and commands that do not may be mixed in any way.
`MissesAreInFlight` rests on `WatchInv` and on `MissInv`, which adds that such a
key is still watched: a writer that finds the gauge at zero then has missed
nobody.

For `Store`, any clients, commands and bounds, any finite set of keys and any
finite non-empty set of shards, from `ShardAssumption`, `KeyAssumption` and
`StoreBounds`. `StoreInv` has three parts that most actions disturb one at a time.
* `ValueInv`: types of the map, `CounterExact`, `BytesExact`. `BytesOf` is the
  cardinality of a set of pairs (key, place), so that a write is the exchange of
  one finite set for another (`BytesSplit`, `BytesPutOne`, `BytesPut`, `BytesGone`),
  and no sum over keys is needed. `ValueOne`, `ValueFresh` and `ValueGone` are the
  three shapes of a write: one entry changes, several keys get a fresh string, keys
  go. `NoGhost` is why `mishap` lacks "ghost" only where what a command leaves
  uncounted is absent; RENAME is a removal and a write (`ValueRename`).
* `JobInv`: types of the clients' jobs and `LockOrder`, the strengthening that
  `NoLockCycle` lacks to be inductive: who holds a lock is one of the three
  commands, and each lock it holds is below each it still needs. Then of the
  commands that wait, the one whose lowest missing shard is highest finds it free
  (`NobodyStuck`); that such a command exists is `HighestShard`, by
  well-foundedness of strict inclusion on finite sets.
* `LoopInv`: clocks and the loops' locals, with `sweep.at <= now`. It makes
  `SweepSparesLive` a fact about one step: what was expired when the sweep began
  is expired now.

Both conjuncts that the run does not check, `LockOrder` and that bound on
`sweep.at`, were checked with TLC on the instance of the run before the proof.

**`ReplicationProofs`**: for any writers, capacity and bounds, from
`CapacityAssumption` and `BoundAssumption`. `TypeOK` needs `Issued`: a writer
inside `RecordWrite` has a number the keyspace has given out, which keeps
frames, slices and dumps in range; it is proved by groups of variables, one
lemma per process. `NoLostNotify` is inductive with the types. The other two are
about `Out`, what the loop has sent, holds or will drain: `OutKept` shows that
the loop's own steps leave it alone (with `BatchHeld`: the loop holds frames
only between drain and send), `OutGrows` that `Enqueue` appends to it, and
`Elsewhere` that nobody else touches the pipeline. For `PipelineInStep` the
invariant `Stages` says how far offset, backlog and `Out` are apart at each step
of the one active writer; for `FramesConserved`, which holds for overlapping
writers too, `Conserved` adds that a writer's frame is its own and is nowhere it
has not been put.

`Converges` and `AcksLineUp` speak of states in which nothing is on its way, or of
the replica alone; the proof has to say what is on its way. The invariant
`SyncInv` adds to the types and to `Stages`:
* `Joined` and `Asleep`, which hold mishap or not: a replica that is up has a link
  or a handshake in progress, a dead connection has an empty wire, and nothing
  was propagated before the first PSYNC;
* `Numbers`: while writes do not overlap the backlog is the keyspace without the
  `Base` writes that came before the first PSYNC (and without the one write that
  is in the keyspace and not yet in the backlog, `Lag`), so what a replica holds
  can be stated by lengths;
* `Calm`: a handshake that raced with nothing found the pipeline empty and nobody
  writes while it runs, and the loop's snapshot of the links has the link that is
  up;
* `Wired`: the wire at each step of `psyncCmd`. Once the master is through,
  `Unread` is one of four shapes (CONTINUE, FULLRESYNC and dump, dump, nothing)
  followed by frames that go on from the replica's offset up to what the loop has
  sent (`FlowOn`), as far as no GETACK lies in between, and a dump is the keyspace
  of the very offset announced with it;
* `Copied`: the replica's keyspace is the master's as of the replica's offset,
  except between `+FULLRESYNC` and the dump, and covers what was acknowledged.

The lemmas `FlowTail`, `FlowFrame`, `FlowSend`, `FlowMark`, `FlowGrows` and
`FlowStart` are about sequences only: what reading, sending and a growing backlog
do to `FlowOn`. All of `SyncInv` was checked with TLC on the instance of the run
with one more lost connection before it was proved.

**`BlockingProofs`**: for any clients, keys, commands and bounds, from the
assumptions of `Blocking`. The inductive invariant of `HubConsistent` is `HubInv`:
`SleepersReachable` is strengthened to `Reachable` (from registering until it has
slept, a client without a wake is in the set of each of its keys or about to be
sent one), `Control` says at which labels the channel is open, and `CountExact`
carries the finiteness of the counted set. `UnblockRepliesJustified` needs
`Justified`: a flag set in a waiter, and each copy of it that the loop has taken,
goes back to a CLIENT UNBLOCK of that kind.

`NoLostWake` proves `NoSleeperNextToItem` for any number of clients on one key, any
mixture of commands, RPOPLPUSH and CLIENT UNBLOCK included. `Balance` is the
invariant: while a client that has found k empty has no wake (`Missed`) and none of
k's wakes went astray, each item of k has a wake, which is with a writer that
has fired or is notifying, with a BLMOVE that has pushed and not yet notified, or
with a client that was woken and has not tried k (`Bringing`). It is an inequality
between a count and the cardinality of a set, so the clients are finite
(`ClientAssumption`), and `BalanceArithmetic` has the four ways a step may move one
wake. `WokenSound` says that who has a wake is still able to use it: a client that
has tried all its keys with an empty channel has none. `FromFirst` and `Passed` say
which keys a pass has tried, and `Reachable` that the next `Notify` finds the
client that missed. When everyone sleeps nobody has a wake, and `Balance` leaves no item.

**`FailoverProofs`**: for any nodes, window and bounds, from `FailoverBounds`.
`IdNamesHistory` and `AttachedInStep` are proved together: `OwnIds` (every id was
minted by the node it names, ids in use are not above its count) and, short of a
mishap, `ConnInv` and `HistoryInv`, which tie offset, position and data of a
replica to the stream of the node whose id it carries. With a mishap not even
`OwnIds` stays: a stopped client may give a master the id of another node. The
sequence lemmas
(`AppendBoth`, `ApplyNext`) say that a write adds the same frame to the master
and to what a replica lacks, and a delivery takes one away.

**`RdbProofs`**: for any inodes and bounds, from `RdbBounds`. `FileLoads`
needs the stages of the one saver that has the temporary name (`Stages`: what is
in its inode by the step it is at, and what of it is on disk) and that named
files are whole and synced (`Kept`). `SavedStays` follows from `PathSteps`: a
step leaves the named file alone or renames a finished export over it, and from
`Lineage`: an export taken later has whatever one taken earlier in the same
process has, and the keyspace has what every export under way has.
`StopSavesAll` adds `Bounded` (writes are numbered upward, and all else copies
them) and what is known of the last save at each step.

**`PrimitivesProofs`**: two components without a common name or variable, so
that a theorem about the one leaves the other's variables free.

For `XTxn`, any clients, xids, budgets, bounds and policies of distinct gates,
from `XTxnBounds`. The four
invariants rest on one, `XInv`, stated per call and per transaction:

- `CallPlace`, `CallPhase`, `ObjPhase`: a call holds the mutexes of the place it
  is at, and the transaction is in the state that goes with it; only the holder
  changes a state;
- `CallTokens`, `ObjTokens`: an operation that was prepared has its token until
  it is committed, so COMMIT never finds one gone; effects are those of the
  operations committed, and of the one in evaluation the gates it has passed;
- `RoomKept`, `RoomFound`, `ObjRoom`: the room an evaluation found is there when it
  consumes, unless a mishap names the gate; and as long as no gate is closed by
  another's step (`Closes`: then the transactions under way are told), what was
  admitted in PREPARE is admitted in COMMIT. The second is what
  `PartialIsContended` needs, the first `CommittedIsWhole` and `RiskWithinBudget`.

`Frame` says what a step of one client leaves to the others, `Local` that it is
then enough to look at its own call and transaction; there is one lemma per
action. The bound on staged operations is a sum over the transactions, of which
the proof needs nothing.

For `Idempotent`, any connections, window and bounds, from `IdempotentBounds`.
The types include that an entry in flight has an open channel, so no channel is
closed twice.
`RepliesAreFresh` rests on `Sane` (times are in order) and `CacheFresh` (the
cached result is of a run that ended when the entry says); `OncePerWindow` on
`Window`, which ties the one running leader to the current entry until
`upset`.

**`WorkersProofs`**: for any workers, keys and bounds, from `WorkersBounds`.
`OnePlace` is inductive with the types; the lemmas on sequences say what cutting,
appending to and removing from the dead-letter list preserve. `WorkersImplements`
needs one more fact, `Untried` (an id not given out has no attempts), and maps
each operation, the sweep of many jobs included, to a step of `JobQueue`.
`ReservationHonoured` rests on `Reserved`, which ties each running reservation to
its worker: the queue's owner of the job is that worker and its remaining time is
the worker's. `IdempotentWhileLive` is inductive by itself, given the types
(`Keyed` adds that of the jobs' keys, which `TypeOK` leaves out).

Only model-checked: `FramesFanOut`, `OverCapSettles`, `ItemsAreServed`,
`TimedCommandsReturn`, `ReplicasConverge`, `JobsSettle`, `CallsReturn` and
`WaitersReturn`, which need fairness and so ENABLED, and the prover treats
neither.

## 5. Not modelled

Bytes of RESP frames and records; expiry times and relative TTLs in the log;
AOF and RDB enabled together; several replicas inside one connection's detail
(`Failover` has them with the handshake in one step); role changes issued by two
connections at once, of which `FollowMaster` may start two clients and forget
one; slow-replica deadlines;
XREADGROUP's pending lists; RENAMENX, MGET and the data types other than strings,
lists and streams; the sampling policies of eviction; ACL, authentication and
connection limits.

Three hazards of `PROJECT.json` have no property, because it would state what
the code does not do (3.1): `$`, EXEC's log and MSET's visibility. Of BLMOVE only
the notification is covered: keys hold one type in the models, so its push onto
a key of another type, which loses the item, does not happen.

## 6. Plan

Done: `Backlog`, `Blocking`, `Transaction`, `Replication`, `Failover`, `Aof`,
`Rdb`, `Store`, `Idempotent`, `Workers`, `XTxn` with their runs; the proofs of
section 4. Next, in this order:

1. **Composition**: `Transaction` with `Aof` and `Replication`, over one write
   path, and the refinement of an abstract durable log by `Aof`.
2. **Locks** with fencing and TTL, the circuit breaker's half-open probe, the
   scheduler's sleep.
3. **Pub/sub** and client tracking: subscribe and close against publish.
4. **Cluster** failover and **sentinel** votes on top of `Failover`.
