\* A temp file is deleted while it is analysed.
SPECIFICATION Spec
CONSTANTS
    Docs = {d1}
    NoDoc = NoDoc
    Files = {f1}
    NoFile = NoFile
    Requests = {r1}
    Workers = {w1}
    Ops <- AnalysisOps
    MaxPages = 1
    LastPage = 1
    MaxJobs = 1
    MaxCrashes = 0
    MaxFaults = 0
INVARIANTS
    SavedImagesKept
CHECK_DEADLOCK FALSE
