CONSTANTS
    Inode = {i1, i2, i3, i4}
    None = None
    Periodic = TRUE
    MaxWrite = 2
    MaxSave = 2
    MaxFault = 2
SPECIFICATION Spec
SYMMETRY Symmetry
INVARIANTS FileLoads SavedStays StopSavesAll
CHECK_DEADLOCK FALSE
