\* Two documents, duplicate requests, two threads, and one call that fails.
SPECIFICATION FairSpec
CONSTANTS
    Docs = {d1, d2}
    NoDoc = NoDoc
    Files = {f1}
    NoFile = NoFile
    Requests = {r1}
    Workers = {w1, w2}
    Ops <- RequestOps
    MaxPages = 1
    LastPage = 1
    MaxJobs = 2
    MaxCrashes = 0
    MaxFaults = 1
PROPERTIES
    AcceptedIsDecided
    StaleIsRemoved
CHECK_DEADLOCK FALSE
