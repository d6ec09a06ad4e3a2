CONSTANTS
    Node = {a, b, c}
    None = None
    Window = 1
    MaxWrite = 2
    MaxChange = 4
SPECIFICATION FairSpec
INVARIANTS IdNamesHistory
PROPERTY ReplicasConverge
CHECK_DEADLOCK FALSE
