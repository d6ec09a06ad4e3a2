CONSTANTS
    Conn = {a, b, c}
    Ttl = 2
    MaxTime = 4
    MaxRun = 3
SPECIFICATION IdemFairSpec
INVARIANTS OncePerWindow RepliesAreFresh
PROPERTY WaitersReturn
CHECK_DEADLOCK FALSE
