SPECIFICATION Spec
CONSTANTS
    t1 = t1
    t2 = t2
    u1 = u1
    i1 = i1
    None = None
    Tasks <- TwoTasks
    Urls <- OneUrl
    Images <- OneImage
    PrepareErrors <- NegativeError
    Faults <- AllFaults
    FDs = {1, 2}
SYMMETRY TaskSymmetry
INVARIANTS
    ProgressIsReported
    HandlersBelong
    NoChannelLeak
PROPERTIES
    VerdictLatched
