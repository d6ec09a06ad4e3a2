------------------------------- MODULE Store -------------------------------
(***************************************************************************)
(* The string half of the keyspace: the sharded map of store/store.go and  *)
(* store/shard.go, the commands of store/string.go with their two          *)
(* representations of a number, lazy and swept expiry, the byte counter,   *)
(* and the eviction loop of engine/engine.go that acts on it.              *)
(*                                                                         *)
(* A string is the number it spells; APPEND adds the digit 1.  A command   *)
(* on one key holds its shard's lock from its first to its last access, so *)
(* it is one step; a command on several shards takes their locks one by    *)
(* one.  Commands that only read are left out: what they would answer is a *)
(* function of the state.                                                  *)
(***************************************************************************)
EXTENDS Integers, FiniteSets

CONSTANTS StoreKey,    \* the keys
          Shard,       \* indices of Store.shards
          ShardOf,     \* shardForKey
          Client,      \* connections that run commands of several steps
          Calls,       \* the commands clients send
          MaxCalls,    \* bound on commands
          MaxTime,     \* bound on the clock
          Cap          \* MaxMemoryMB

\* The shards are an array and the keys those the clients name: finitely many.
ASSUME ShardAssumption == /\ Shard \subseteq Nat /\ Shard # {} /\ IsFiniteSet(Shard)
                          /\ ShardOf \in [StoreKey -> Shard]
ASSUME KeyAssumption   == IsFiniteSet(StoreKey)
ASSUME StoreBounds == {MaxCalls, MaxTime, Cap} \subseteq Nat

VARIABLES
    data,        \* shard.data of all shards: a function on the keys present
    bytes,       \* Store.bytes
    now, cached, \* the clock, and cachedNowNs
    job,         \* per client: the command it is in
    need, held,  \* per client: shards still to visit or lock, shards locked
    sweep,       \* ttlLoop
    evict,       \* evictLoop
    budget,      \* commands left
    ref,         \* history, per key: the value Redis would hold
    lagging,     \* history: keys INCR bumped since Str was last written
    tainted,     \* history: keys whose last write started from a lagging Str
    mishap       \* history, a set: "ghost", an expired entry was overwritten
                 \* and not uncounted; "self", RENAME k k

history == <<ref, lagging, tainted, mishap>>
jobs    == <<job, need, held>>
loops   == <<sweep, evict>>
clocks  == <<now, cached>>
storeVars == <<data, bytes, clocks, jobs, loops, budget, history>>

Keys(s)      == {k \in StoreKey : ShardOf[k] = s}
Shards(K)    == {ShardOf[k] : k \in K}
Unlocked(s)  == \A c \in Client : s \notin held[c]
Call(what)   == what \in Calls /\ budget > 0 /\ budget' = budget - 1

----------------------------------------------------------------------------
(* Entries *)

\* len(key) + len(value), with one-byte keys.
Size(v) == IF v < 10 THEN 2 ELSE 3

Expired(e, t) == e.exp # 0 /\ t > e.exp
Has(k)        == k \in DOMAIN data
Live(k)       == Has(k) /\ ~Expired(data[k], cached)

Fresh(v, exp) == [str |-> v, int |-> 0, isInt |-> FALSE, exp |-> exp, bytes |-> Size(v)]

\* What GET answers.
Shown(e) == IF e.isInt THEN e.int ELSE e.str

Put(K, e) == [k \in DOMAIN data \cup K |-> IF k \in K THEN e ELSE data[k]]
Without(K) == [k \in DOMAIN data \ K |-> data[k]]

\* The bytes of the entries of K, each by its key and its place, and how many
\* they are.
Stored(K)  == UNION {{k} \X (1 .. data[k].bytes) : k \in K \cap DOMAIN data}
BytesOf(K) == Cardinality(Stored(K))

\* The reference value of K is now v, and Str holds it.
Wrote(K, v) ==
    /\ ref' = [k \in StoreKey |-> IF k \in K THEN v ELSE ref[k]]
    /\ lagging' = lagging \ K
    /\ tainted' = tainted \ K

\* An entry that expired is in the map and is overwritten uncounted.
Ghost(K) == mishap' = IF \E k \in K : Has(k) /\ ~Live(k) THEN mishap \cup {"ghost"} ELSE mishap

Deadline(ttl) == IF ttl > 0 THEN cached + ttl ELSE 0

----------------------------------------------------------------------------
(* Commands on one key *)

\* Slip: the in-place update keeps the integer representation.
SlipSetKeepsInt(k, ttl) ==
    /\ Call("set") /\ Unlocked(ShardOf[k])
    /\ LET e == IF Has(k) THEN [data[k] EXCEPT !.str = 1, !.exp = Deadline(ttl), !.bytes = Size(1)]
                ELSE Fresh(1, Deadline(ttl))
       IN data' = Put({k}, e) /\ bytes' = bytes - BytesOf({k}) + e.bytes
    /\ Wrote({k}, 1)
    /\ UNCHANGED <<clocks, jobs, loops, mishap>>

\* Store.Set: a string is updated in place, anything else replaced.
Set(k, ttl) ==
    /\ Call("set") /\ Unlocked(ShardOf[k])
    /\ data' = Put({k}, Fresh(1, Deadline(ttl)))
    /\ bytes' = bytes - BytesOf({k}) + Size(1)
    /\ Wrote({k}, 1)
    /\ UNCHANGED <<clocks, jobs, loops, mishap>>

\* Store.SetNX: an expired entry counts as missing.
SetNX(k, ttl) ==
    /\ Call("setnx") /\ Unlocked(ShardOf[k])
    /\ ~Live(k)
    /\ data' = Put({k}, Fresh(1, Deadline(ttl)))
    /\ bytes' = bytes + Size(1)
    /\ Wrote({k}, 1) /\ Ghost({k})
    /\ UNCHANGED <<clocks, jobs, loops>>

\* Store.GetSet.
GetSet(k) ==
    /\ Call("getset") /\ Unlocked(ShardOf[k])
    /\ data' = Put({k}, Fresh(1, 0))
    /\ bytes' = bytes - (IF Live(k) THEN data[k].bytes ELSE 0) + Size(1)
    /\ Wrote({k}, 1) /\ Ghost({k})
    /\ UNCHANGED <<clocks, jobs, loops>>

\* A write of k that starts from Str: its result is right when Str was.
FromStr(k, want) ==
    /\ ref' = [ref EXCEPT ![k] = want]
    /\ tainted' = IF k \in lagging THEN tainted \cup {k} ELSE tainted
    /\ lagging' = lagging \ {k}

\* Store.Append; SETRANGE rewrites Str in the same way.
AppendStr(k) ==
    /\ Call("append") /\ Unlocked(ShardOf[k])
    /\ IF Live(k)
       THEN LET v == 10 * data[k].str + 1 IN
            /\ data' = [data EXCEPT ![k].str = v, ![k].isInt = FALSE, ![k].bytes = Size(v)]
            /\ bytes' = bytes - data[k].bytes + Size(v)
            /\ FromStr(k, 10 * ref[k] + 1) /\ UNCHANGED mishap
       ELSE /\ data' = Put({k}, Fresh(1, 0)) /\ bytes' = bytes + Size(1)
            /\ Wrote({k}, 1) /\ Ghost({k})
    /\ UNCHANGED <<clocks, jobs, loops>>

\* Store.IncrByFloat writes Str and leaves IsInt alone.
IncrByFloat(k) ==
    /\ Call("incrbyfloat") /\ Unlocked(ShardOf[k])
    /\ IF Live(k)
       THEN LET v == data[k].str + 1 IN
            /\ data' = [data EXCEPT ![k].str = v, ![k].bytes = Size(v)]
            /\ bytes' = bytes - data[k].bytes + Size(v)
            /\ ref' = [ref EXCEPT ![k] = @ + 1]
            /\ tainted' = IF data[k].isInt THEN tainted \cup {k} ELSE tainted
            /\ UNCHANGED <<lagging, mishap>>
       ELSE /\ data' = Put({k}, Fresh(1, 0)) /\ bytes' = bytes + Size(1)
            /\ Wrote({k}, 1) /\ Ghost({k})
    /\ UNCHANGED <<clocks, jobs, loops>>

\* Store.Del of one key, also by way of Evict.
Remove(K) ==
    /\ data' = Without(K)
    /\ bytes' = bytes - BytesOf(K)

Del(k) ==
    /\ Call("del") /\ Unlocked(ShardOf[k])
    /\ Has(k) /\ Remove({k})
    /\ UNCHANGED <<clocks, jobs, loops, history>>

\* Expire, and Persist for ttl 0; both also work on an expired entry.
Expire(k, ttl) ==
    /\ Call("expire") /\ Unlocked(ShardOf[k])
    /\ Has(k)
    /\ data' = [data EXCEPT ![k].exp = Deadline(ttl)]
    /\ UNCHANGED <<bytes, clocks, jobs, loops, history>>

----------------------------------------------------------------------------
(* INCR: an atomic add under the read lock, or a second, locked attempt *)

Promoted(k) == Live(k) /\ data[k].isInt

Bump(k) ==
    /\ data' = [data EXCEPT ![k].int = @ + 1]
    /\ ref' = [ref EXCEPT ![k] = @ + 1]
    /\ lagging' = lagging \cup {k}
    /\ UNCHANGED <<bytes, tainted, mishap>>

IncrFast(k) ==
    /\ Call("incr") /\ Unlocked(ShardOf[k])
    /\ Promoted(k) /\ Bump(k)
    /\ UNCHANGED <<clocks, jobs, loops>>

Idle(c)       == job[c].kind = "idle"
Done(c)       == job' = [job EXCEPT ![c] = [kind |-> "idle"]]
BeginJob(c, j, S) == /\ job' = [job EXCEPT ![c] = j]
                     /\ need' = [need EXCEPT ![c] = S]
                     /\ UNCHANGED held

\* The read lock is released before the write lock is taken.
IncrMiss(c, k) ==
    /\ Idle(c) /\ Call("incr") /\ Unlocked(ShardOf[k])
    /\ ~Promoted(k)
    /\ BeginJob(c, [kind |-> "incr", key |-> k], {})
    /\ UNCHANGED <<data, bytes, clocks, loops, history>>

\* The number is parsed from Str, and the entry promoted.
Parse(k) ==
    LET v == IF Live(k) THEN data[k].str + 1 ELSE 1 IN
    /\ data' = Put({k}, [str |-> v, int |-> v, isInt |-> TRUE,
                         exp |-> IF Live(k) THEN data[k].exp ELSE 0, bytes |-> Size(v)])
    /\ bytes' = bytes - (IF Live(k) THEN data[k].bytes ELSE 0) + Size(v)
    /\ IF Live(k) THEN FromStr(k, ref[k] + 1) ELSE Wrote({k}, 1)
    /\ Ghost({k})

IncrSlow(c) ==
    /\ job[c].kind = "incr" /\ Unlocked(ShardOf[job[c].key])
    /\ IF Promoted(job[c].key) THEN Bump(job[c].key) ELSE Parse(job[c].key)
    /\ Done(c)
    /\ UNCHANGED <<clocks, need, held, loops, budget>>

----------------------------------------------------------------------------
(* Commands on several shards *)

\* MSET buckets its keys and locks one shard after the other, in the order
\* of a Go map.
MSetBegin(c) ==
    /\ Idle(c) /\ Call("mset")
    /\ BeginJob(c, [kind |-> "mset"], Shard)
    /\ UNCHANGED <<data, bytes, clocks, loops, history>>

MSetShard(c, s) ==
    /\ job[c].kind = "mset" /\ s \in need[c] /\ Unlocked(s)
    /\ data' = Put(Keys(s), Fresh(1, 0))
    /\ bytes' = bytes - BytesOf(Keys(s)) + Size(1) * Cardinality(Keys(s))
    /\ Wrote(Keys(s), 1)
    /\ need' = [need EXCEPT ![c] = @ \ {s}]
    /\ IF need[c] = {s} THEN Done(c) ELSE UNCHANGED job
    /\ UNCHANGED <<held, clocks, loops, budget, mishap>>

\* RENAME, MSETNX of all keys and FLUSHALL lock their shards first.
LockBegin(c) ==
    /\ Idle(c)
    /\ \/ Call("rename") /\ \E src, dst \in StoreKey :
            BeginJob(c, [kind |-> "rename", src |-> src, dst |-> dst], Shards({src, dst}))
       \/ Call("msetnx") /\ BeginJob(c, [kind |-> "msetnx"], Shard)
       \/ Call("flushall") /\ BeginJob(c, [kind |-> "flushall"], Shard)
    /\ UNCHANGED <<data, bytes, clocks, loops, history>>

Locking(c) == job[c].kind \in {"rename", "msetnx", "flushall"}

\* Slip: the locks are taken in any order.
SlipLockAnyOrder(c, s) ==
    /\ Locking(c) /\ s \in need[c] /\ Unlocked(s)
    /\ need' = [need EXCEPT ![c] = @ \ {s}]
    /\ held' = [held EXCEPT ![c] = @ \cup {s}]
    /\ UNCHANGED <<data, bytes, clocks, job, loops, budget, history>>

\* lockTwoW, lockShardsW, lockAllW: the lowest index first.
Lock(c, s) ==
    /\ Locking(c) /\ s \in need[c] /\ \A t \in need[c] : s <= t
    /\ Unlocked(s)
    /\ need' = [need EXCEPT ![c] = @ \ {s}]
    /\ held' = [held EXCEPT ![c] = @ \cup {s}]
    /\ UNCHANGED <<data, bytes, clocks, job, loops, budget, history>>

\* Store.Rename moves the entry with its deadline; a missing or expired
\* source changes nothing.
Rename(src, dst) ==
    IF Live(src)
    THEN /\ data' = [k \in (DOMAIN data \ {src}) \cup {dst} |-> IF k = dst THEN data[src] ELSE data[k]]
         /\ bytes' = bytes - BytesOf({dst})
         /\ ref' = [ref EXCEPT ![dst] = ref[src]]
         /\ lagging' = (lagging \ {dst}) \cup (IF src \in lagging THEN {dst} ELSE {})
         /\ tainted' = (tainted \ {dst}) \cup (IF src \in tainted THEN {dst} ELSE {})
         /\ mishap' = IF src = dst THEN mishap \cup {"self"} ELSE mishap
    ELSE UNCHANGED <<data, bytes, history>>

\* Store.MSetNX.
MSetNX ==
    IF \E k \in StoreKey : Live(k)
    THEN UNCHANGED <<data, bytes, history>>
    ELSE /\ data' = Put(StoreKey, Fresh(1, 0))
         /\ bytes' = bytes + Size(1) * Cardinality(StoreKey)
         /\ Wrote(StoreKey, 1) /\ Ghost(StoreKey)

\* Slip: FLUSHALL forgets the byte counter.
SlipFlushKeepsBytes ==
    /\ data' = Without(StoreKey)
    /\ UNCHANGED <<bytes, history>>

FlushAll ==
    /\ data' = Without(StoreKey) /\ bytes' = 0
    /\ UNCHANGED history

\* All locks are held: the command takes effect and unlocks.
Apply(c) ==
    /\ Locking(c) /\ need[c] = {}
    /\ \/ job[c].kind = "rename" /\ Rename(job[c].src, job[c].dst)
       \/ job[c].kind = "msetnx" /\ MSetNX
       \/ job[c].kind = "flushall" /\ FlushAll
    /\ held' = [held EXCEPT ![c] = {}]
    /\ Done(c)
    /\ UNCHANGED <<need, clocks, loops, budget>>

ClientStep(c) == IncrSlow(c) \/ Apply(c) \/ \E s \in Shard : MSetShard(c, s) \/ Lock(c, s)

----------------------------------------------------------------------------
(* ttlLoop: per shard, a scan under the read lock, then deletes *)

SweepIdle == [pc |-> "wait"]

SweepTick ==
    /\ sweep.pc = "wait"
    /\ sweep' = [pc |-> "scan", at |-> now, left |-> Shard, cand |-> {}]
    /\ UNCHANGED <<data, bytes, clocks, jobs, evict, budget, history>>

Lowest(S) == CHOOSE s \in S : \A t \in S : s <= t

SweepScan ==
    /\ sweep.pc = "scan" /\ Unlocked(Lowest(sweep.left))
    /\ LET s    == Lowest(sweep.left)
           cand == {k \in Keys(s) : Has(k) /\ Expired(data[k], sweep.at)}
       IN sweep' = IF cand # {} THEN [sweep EXCEPT !.pc = "delete", !.cand = cand]
                   ELSE IF sweep.left = {s} THEN SweepIdle
                   ELSE [sweep EXCEPT !.left = @ \ {s}]
    /\ UNCHANGED <<data, bytes, clocks, jobs, evict, budget, history>>

\* Slip: the candidates are not looked at again.
SlipSweepNoRecheck ==
    /\ sweep.pc = "delete" /\ Unlocked(Lowest(sweep.left))
    /\ Remove(sweep.cand)
    /\ sweep' = IF sweep.left = {Lowest(sweep.left)} THEN SweepIdle
                ELSE [sweep EXCEPT !.pc = "scan", !.left = @ \ {Lowest(sweep.left)}, !.cand = {}]
    /\ UNCHANGED <<clocks, jobs, evict, budget, history>>

SweepDelete ==
    /\ sweep.pc = "delete" /\ Unlocked(Lowest(sweep.left))
    /\ Remove({k \in sweep.cand : Has(k) /\ Expired(data[k], sweep.at)})
    /\ sweep' = IF sweep.left = {Lowest(sweep.left)} THEN SweepIdle
                ELSE [sweep EXCEPT !.pc = "scan", !.left = @ \ {Lowest(sweep.left)}, !.cand = {}]
    /\ UNCHANGED <<clocks, jobs, evict, budget, history>>

SweepStep == SweepTick \/ SweepScan \/ SweepDelete

----------------------------------------------------------------------------
(* evictLoop: BytesUsed, Snapshot shard by shard, PickVictims, Evict *)

EvictIdle == [pc |-> "wait"]

\* Slip: the cap is taken in other units.
SlipEvictCheckUnits ==
    /\ evict.pc = "wait" /\ bytes > 2 * Cap
    /\ evict' = [pc |-> "scan", left |-> Shard, snap |-> {}]
    /\ UNCHANGED <<data, bytes, clocks, jobs, sweep, budget, history>>

EvictCheck ==
    /\ evict.pc = "wait" /\ bytes > Cap
    /\ evict' = [pc |-> "scan", left |-> Shard, snap |-> {}]
    /\ UNCHANGED <<data, bytes, clocks, jobs, sweep, budget, history>>

EvictScan ==
    /\ evict.pc = "scan" /\ evict.left # {} /\ Unlocked(Lowest(evict.left))
    /\ evict' = [evict EXCEPT !.left = @ \ {Lowest(evict.left)},
                              !.snap = @ \cup {k \in Keys(Lowest(evict.left)) : Live(k)}]
    /\ UNCHANGED <<data, bytes, clocks, jobs, sweep, budget, history>>

\* A tenth of the snapshot, at least one key: here one, of any score.
EvictDel ==
    /\ evict.pc = "scan" /\ evict.left = {}
    /\ IF evict.snap = {} THEN UNCHANGED <<data, bytes>>
       ELSE \E k \in evict.snap : Unlocked(ShardOf[k]) /\ Remove({k})
    /\ evict' = EvictIdle
    /\ UNCHANGED <<clocks, jobs, sweep, budget, history>>

EvictStep == EvictCheck \/ EvictScan \/ EvictDel

----------------------------------------------------------------------------
Tick    == /\ now < MaxTime /\ now' = now + 1
           /\ UNCHANGED <<data, bytes, cached, jobs, loops, budget, history>>

\* startCachedClock
Refresh == /\ cached # now /\ cached' = now
           /\ UNCHANGED <<data, bytes, now, jobs, loops, budget, history>>

StoreInit ==
    /\ data = [k \in {} |-> 0] /\ bytes = 0
    /\ now = 1 /\ cached = 1
    /\ job = [c \in Client |-> [kind |-> "idle"]]
    /\ need = [c \in Client |-> {}] /\ held = [c \in Client |-> {}]
    /\ sweep = SweepIdle /\ evict = EvictIdle
    /\ budget = MaxCalls
    /\ ref = [k \in StoreKey |-> 0] /\ lagging = {} /\ tainted = {} /\ mishap = {}

Command ==
    \/ \E k \in StoreKey : \E ttl \in {0, 1} : Set(k, ttl) \/ SetNX(k, ttl) \/ Expire(k, ttl)
    \/ \E k \in StoreKey : GetSet(k) \/ AppendStr(k) \/ IncrByFloat(k) \/ Del(k) \/ IncrFast(k)
    \/ \E c \in Client : MSetBegin(c) \/ LockBegin(c) \/ \E k \in StoreKey : IncrMiss(c, k)

StoreNext ==
    \/ Command
    \/ \E c \in Client : ClientStep(c)
    \/ SweepStep \/ EvictStep \/ Tick \/ Refresh

StoreSpec == StoreInit /\ [][StoreNext]_storeVars

\* Go's locks are starvation-free and the tickers of the loops keep firing;
\* nobody owes the store a command.
StoreFairSpec ==
    /\ StoreSpec
    /\ \A c \in Client : WF_storeVars(ClientStep(c))
    /\ WF_storeVars(SweepStep) /\ WF_storeVars(EvictStep) /\ WF_storeVars(Refresh)

----------------------------------------------------------------------------
(* Properties *)

Entry == [str : Nat, int : Nat, isInt : BOOLEAN, exp : Nat, bytes : Nat]

Job == [kind : {"idle", "mset", "msetnx", "flushall"}]
         \cup [kind : {"incr"}, key : StoreKey] \cup [kind : {"rename"}, src : StoreKey, dst : StoreKey]

SweepState == [pc : {"wait"}]
    \cup [pc : {"scan", "delete"}, at : Nat, left : (SUBSET Shard) \ {{}}, cand : SUBSET StoreKey]

EvictState == [pc : {"wait"}] \cup [pc : {"scan"}, left : SUBSET Shard, snap : SUBSET StoreKey]

\* Types of the map, of the counters and of the loops' locals.
StoreTypeOK ==
    /\ DOMAIN data \subseteq StoreKey /\ \A k \in DOMAIN data : data[k] \in Entry
    /\ bytes \in Int
    /\ now \in Nat /\ cached \in Nat /\ cached <= now
    /\ job \in [Client -> Job]
    /\ need \in [Client -> SUBSET Shard] /\ held \in [Client -> SUBSET Shard]
    /\ sweep \in SweepState /\ evict \in EvictState
    /\ budget \in Nat
    /\ ref \in [StoreKey -> Nat] /\ lagging \subseteq StoreKey /\ tainted \subseteq StoreKey
    /\ mishap \subseteq {"ghost", "self"}

\* Whatever the order of SET, INCR's two paths, APPEND, RENAME, expiry and
\* eviction, GET answers the value the commands add up to: no increment is
\* lost between the atomic integer and the string.  Not after a write that
\* started from a string INCR had left behind (Append, SetRange) or that left
\* a promoted entry promoted (IncrByFloat).  Str itself, which MGET, GETSET,
\* STRLEN, GETRANGE, COPY and the export of a snapshot read, is that value too,
\* unless INCR's fast path ran since Str was last written.
CounterExact ==
    \A k \in DOMAIN data \ tainted :
        /\ Shown(data[k]) = ref[k]
        /\ k \notin lagging => data[k].str = ref[k]

\* The counter the eviction loop acts on is the size of what is stored, unless
\* an expired entry was overwritten or a key renamed to itself.
BytesExact == mishap = {} => bytes = BytesOf(StoreKey)

\* Two commands that lock several shards never wait for each other: if any
\* command waits for a lock, one that holds locks can go on (lockTwoW,
\* lockShardsW, lockAllW).
NoLockCycle ==
    (\E c \in Client : Locking(c)) =>
        \E c \in Client : Locking(c) /\
            (need[c] = {} \/ \E s \in need[c] : Unlocked(s) /\ \A t \in need[c] : s <= t)

\* The map, the loops' locals and the clients' locks keep their types, and the
\* locks are never held in a cycle.
LocksConsistent == StoreTypeOK /\ NoLockCycle

\* The sweep deletes a key only while it is expired: one that was written,
\* renamed or given a new deadline between the scan and the delete stays.
SweepSparesLive ==
    [][sweep.pc = "delete" /\ sweep' # sweep =>
         \A k \in DOMAIN data \ DOMAIN data' : Expired(data[k], now)]_storeVars

\* Once the store is over its cap, eviction and expiry bring it back under.
OverCapSettles == (bytes > Cap) ~> (bytes <= Cap \/ mishap # {})

============================================================================
