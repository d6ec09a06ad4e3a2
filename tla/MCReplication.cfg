CONSTANTS
    w1 = w1
    w2 = w2
    Writer = {w1, w2}
    Capacity = 1
    MaxWrite = 2
    MaxEvent = 1
SPECIFICATION FairSpec
INVARIANTS Converges AcksLineUp FramesConserved
PROPERTIES FramesFanOut
CHECK_DEADLOCK FALSE
