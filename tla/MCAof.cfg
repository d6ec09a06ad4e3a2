CONSTANTS
    w1 = w1
    w2 = w2
    Writer = {w1, w2}
    Policies = {"always", "everysec", "no"}
    Unserialized = {2}
    MaxWrite = 3
    MaxCrash = 2
    MaxRewrite = 1
SPECIFICATION AofSpec
SYMMETRY Symmetry
INVARIANTS LostOnlyByMishap LogConsistent
PROPERTIES RestartIsPrefix
CHECK_DEADLOCK FALSE
