\* One billing run, one request at a time, every kind of request.
SPECIFICATION Spec
CONSTANTS
    Users = {u1}
    NoUser = NoUser
    Requests = {r1}
    Batches = {b1}
    Ops <- AllOps
    Subscribed = {}
    MaxPayments = 3
    MaxSubs = 2
    MaxMethods = 2
    MaxCrashes = 1
    Horizon = 1
    Month = 1
    MaxFailures = 2
INVARIANTS
    TypeOK
    ApprovedIsBacked
    
    ProWasPaid
CHECK_DEADLOCK FALSE
