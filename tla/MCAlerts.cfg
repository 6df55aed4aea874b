\* Two requests and one run, two alerts of one document.
SPECIFICATION FairSpec
CONSTANTS
    Docs = {d1}
    NoDoc = NoDoc
    Offsets = {"M1", "CUSTOM"}
    NoOffset = NoOffset
    Devices <- AppOnly
    ChannelSets <- AlertChannels
    Given <- GivenAlerts
    Runs = {k1, k2}
    FirstRun = k1
    FirstRequest = r1
    Requests = {r1, r2}
    Scenarios <- AlertScenarios
    MaxAlerts = 2
    MaxDay = 1
    MaxFaults = 1
    MaxCount = 8
INVARIANTS
    TypeOK
    SentWasAnnounced
    AnnouncementsBounded
    
    NoAlertWithoutDocument
PROPERTIES
    DueIsSent
CHECK_DEADLOCK FALSE
