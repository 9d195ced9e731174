SPECIFICATION FairSpec
CONSTANTS
    Accounts = {"acct"}
    Threshold = 2
    Ops <- EveryOp
    MaxOps = 5
INVARIANTS
    TypeOK
    HealthyHasQuota
    MirrorAgrees
PROPERTY RoutingConverges
