CONSTANTS
    c1 = c1
    c2 = c2
    k1 = k1
    k2 = k2
    Conn = {c1, c2}
    Key = {k1, k2}
    Cmd <- Mixed
    WatchArgs <- WatchBoth
    MaxWrite = 1
    MaxQueue = 1
SPECIFICATION Spec
SYMMETRY Symmetry
INVARIANTS GaugeExact MissesAreInFlight
PROPERTIES ExecAborts
CHECK_DEADLOCK FALSE
