SPECIFICATION FairSpec
CONSTANTS
    v1 = v1
    v2 = v2
    v3 = v3
    v4 = v4
    A = A
    B = B
    NoArray = NoArray
    Volumes <- FourVolumes
    PVLists <- Lists
    Info <- VolumeInfo
    Totals <- GroupTotals
    SGCountCacheTTL = 1
    RatioNum = 1
    RatioDen = 4
    QuerySettings <- Settings
    DefaultMaxPowerMaxConnections = 1
INVARIANTS
    PerformanceInv
    NoSendOnClosed
PROPERTIES
    PerformanceImplementsCollection
    StaleCountExpires
    CollectTerminates
