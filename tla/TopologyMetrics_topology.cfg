SPECIFICATION TopologyFairSpec
CONSTANTS
    p1 = p1
    p2 = p2
    bare = bare
    unclaimed = unclaimed
    foreign = foreign
    Calls <- AllCalls
    PVs <- Cluster
    Earlier <- EarlierLists
    Provisioners = {{"pmax"}, {"other"}}
    MaxReadings = 2
INVARIANTS
    TopologyInv
    ReturnNeedsReader
    LabelsCurrent
    RecorderInv
    ReturnedIsAccounted
PROPERTIES
    TopologyImplementsCollection
    WaitingReturns
    TopologyTerminates
CHECK_DEADLOCK FALSE
