SPECIFICATION FairSpec
CONSTANTS
    Settings <- OneSetting
    Edits <- NoEdit
    DefaultTickInterval = 5
    MinimumTickInterval = 5
    MaximumTickInterval = 9
    Scenarios <- ExporterFails
PROPERTIES
    ReturnsWhenTold
CHECK_DEADLOCK FALSE
