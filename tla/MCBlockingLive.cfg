CONSTANTS
    c1 = c1
    c2 = c2
    k1 = k1
    k2 = k2
    Client = {c1, c2}
    Key = {k1, k2}
    Workload <- Feeding
    Calls = {"push", "del", "unblock"}
    MaxCalls = 2
SPECIFICATION FairSpec
PROPERTIES ItemsAreServed TimedCommandsReturn
CHECK_DEADLOCK FALSE
