SPECIFICATION Spec
CONSTANTS
    a1 = a1
    a2 = a2
    e1 = e1
    e2 = e2
    e3 = e3
    Arrays <- TwoArrays
    Endpoints <- ThreeEndpoints
    NoEndpoint = NoEndpoint
    Configs <- TwoConfigs
    Main = main
    Watchers = {informer, proxyConfig}
    Collectors = {capacity, topology}
    MayFail = TRUE
    NilMap = NilMap
INVARIANTS
    MapsInv
    PrimaryPreferred
CHECK_DEADLOCK FALSE
