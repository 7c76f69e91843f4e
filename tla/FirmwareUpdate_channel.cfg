SPECIFICATION FairSpec
CONSTANTS
    t1 = t1
    t2 = t2
    u1 = u1
    i1 = i1
    None = None
    Tasks <- TwoTasks
    Urls <- OneUrl
    Images <- OneImage
    PrepareErrors <- BothErrors
    Faults <- FaultsButReopen
    FDs = {1, 2}
INVARIANTS
    ChannelHeld
PROPERTIES
    StatusSettles
