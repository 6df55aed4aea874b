\* Two threads, duplicate requests, deletions, a restart and a failed call.
SPECIFICATION Spec
CONSTANTS
    Docs = {d1}
    NoDoc = NoDoc
    Files = {f1, f2}
    NoFile = NoFile
    Requests = {r1}
    Workers = {w1, w2}
    Ops <- AnalysisOps
    MaxPages = 1
    LastPage = 1
    MaxJobs = 2
    MaxCrashes = 1
    MaxFaults = 1
SYMMETRY Symmetry
INVARIANTS
    TypeOK
    DoneIsSaved
    InProgressIsOwned
    NoPhantomUsage
PROPERTIES
    ServedAtMostOnce
CHECK_DEADLOCK FALSE
