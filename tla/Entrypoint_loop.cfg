SPECIFICATION FairSpec
CONSTANTS
    Settings <- TwoSettings
    Edits <- OneEdit
    DefaultTickInterval = 5
    MinimumTickInterval = 5
    MaximumTickInterval = 9
    Scenarios <- FaultsOrEdits
INVARIANTS
    CollectedOnlyAsLeader
    ErrorNotLost
PROPERTIES
    LeaderCollects
    CapacityAndTopologyPolled
    IntervalsApplied
    LeavesLoop
CHECK_DEADLOCK FALSE
