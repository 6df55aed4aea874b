\* One run at a time, started nightly, a reserved cancellation and a restart.
SPECIFICATION FairSpec
CONSTANTS
    Users = {u1}
    NoUser = NoUser
    Requests = {r1}
    Batches = {b1}
    Ops <- ReserveOps
    Subscribed = {u1}
    MaxPayments = 4
    MaxSubs = 1
    MaxMethods = 1
    MaxCrashes = 1
    Horizon = 4
    Month = 2
    MaxFailures = 3
PROPERTIES
    DueIsSettled
    NoSecondChargeInPaidPeriod
CHECK_DEADLOCK FALSE
