SPECIFICATION Spec
CONSTANTS
    Pods = {p1, p2}
    None = None
    LeaseDuration = 15
    RenewDeadline = 10
    RetryPeriod = 2
INVARIANTS
    OneReportedLeader
