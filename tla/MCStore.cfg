CONSTANTS
    k1 = k1
    k2 = k2
    c1 = c1
    c2 = c2
    StoreKey = {k1, k2}
    Shard = {1, 2}
    ShardOf <- OneEach
    Client = {c1, c2}
    Calls = {"set", "setnx", "getset", "append", "incr", "incrbyfloat", "del", "expire", "mset", "msetnx", "rename", "flushall"}
    MaxCalls = 3
    MaxTime = 3
    Cap = 3
SPECIFICATION StoreFairSpec
INVARIANTS CounterExact BytesExact LocksConsistent
PROPERTIES SweepSparesLive OverCapSettles
CHECK_DEADLOCK FALSE
