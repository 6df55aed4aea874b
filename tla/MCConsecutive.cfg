\* Cron runs and a checkout.
SPECIFICATION Spec
CONSTANTS
    Users = {u1}
    NoUser = NoUser
    Requests = {r1}
    Batches = {b1}
    Ops <- RenewOps
    Subscribed = {u1}
    MaxPayments = 5
    MaxSubs = 1
    MaxMethods = 2
    MaxCrashes = 0
    Horizon = 2
    Month = 1
    MaxFailures = 3
SYMMETRY Symmetry
INVARIANTS
    ExpiredAfterConsecutiveFailures
CHECK_DEADLOCK FALSE
