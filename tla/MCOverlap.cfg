\* Two billing runs over one subscription, and one request that cancels it.
SPECIFICATION Spec
CONSTANTS
    Users = {u1}
    NoUser = NoUser
    Requests = {r1}
    Batches = {b1, b2}
    Ops <- OverlapOps
    Subscribed = {u1}
    MaxPayments = 4
    MaxSubs = 1
    MaxMethods = 1
    MaxCrashes = 0
    Horizon = 1
    Month = 1
    MaxFailures = 2
SYMMETRY Symmetry
INVARIANTS
    ExpiredOnlyAfterMaxFailures
    PeriodBounded

    
CHECK_DEADLOCK FALSE
