CONSTANTS
    c1 = c1
    c2 = c2
    k1 = k1
    k2 = k2
    Client = {c1, c2}
    Key = {k1, k2}
    Workload <- Contending
    Calls = {"push", "del", "shift", "unblock"}
    MaxCalls = 3
SPECIFICATION Spec
INVARIANTS HubConsistent UnblockRepliesJustified NoSleeperNextToItem
CHECK_DEADLOCK FALSE
