SPECIFICATION FairSpec
CONSTANTS
    Pods = {p1, p2}
    None = None
    LeaseDuration = 7
    RenewDeadline = 4
    RetryPeriod = 2
INVARIANTS
    AtMostOneLeading
    ElectionInv
PROPERTIES
    NoTakeover
    CampaignElects
