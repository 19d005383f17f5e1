SPECIFICATION PerformanceSpec
CONSTANTS
    Settings <- OneSetting
    Edits <- NoEdit
    DefaultTickInterval = 5
    MinimumTickInterval = 5
    MaximumTickInterval = 9
    Scenarios <- NoFaults
PROPERTIES
    PerformancePolled
CHECK_DEADLOCK FALSE
