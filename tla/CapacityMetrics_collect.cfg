SPECIFICATION FairSpec
CONSTANTS
    v1 = v1
    v2 = v2
    v3 = v3
    v4 = v4
    v5 = v5
    A = A
    B = B
    C = C
    NoArray = NoArray
    Volumes <- FiveVolumes
    Info <- VolumeInfo
    MaxPowerMaxConnections = 2
INVARIANTS
    CapacityInv
    NoSendOnClosed
    SlotsMatchWorkers
    SumsMatchRecords
PROPERTIES
    CollectTerminates
    CapacityImplementsCollection
CHECK_DEADLOCK FALSE
