SPECIFICATION Spec
CONSTANTS
    a1 = a1
    a2 = a2
    e1 = e1
    e2 = e2
    e3 = e3
    Arrays <- TwoArrays
    Endpoints <- ThreeEndpoints
    NoEndpoint = NoEndpoint
    Configs <- TwoConfigs
    Main = main
    Watchers = {informer}
    Collectors = {capacity}
    MayFail = FALSE
    NilMap = NilMap
PROPERTIES
    SuccessMeansLive
CHECK_DEADLOCK FALSE
