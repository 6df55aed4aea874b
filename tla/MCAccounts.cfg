\* Two requests of one scenario at a time, two users.
SPECIFICATION Spec
CONSTANTS
    Users = {u1, u2}
    NoUser = NoUser
    Emails = {e1, e2}
    NoEmail = NoEmail
    Short = e1
    Within <- AddressesWith
    Secrets = {p1, p2}
    NoSecret = NoSecret
    Devices = {d1}
    NoDevice = NoDevice
    Consents <- ConsentOrder
    Required <- RequiredTypes
    PinMax = 2
    Requests = {r1, r2}
    Scenarios <- AccountScenarios
    MaxVerifications = 1
    MaxChallenges = 1
    MaxSessions = 3
    MaxTokens = 2
    MaxFaults = 1
SYMMETRY Symmetry
INVARIANTS
    TypeOK
    AccountsConsistent
    VerificationUsesBounded
    ChallengeUsesBounded
    SessionsBounded
    LoginKeepsSession
    LockoutBounded
    ConsentsComplete
    DeviceStaysReachable
CHECK_DEADLOCK FALSE
