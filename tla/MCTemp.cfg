\* Two requests of every kind for temp documents, one analysis.
SPECIFICATION Spec
CONSTANTS
    Docs = {d1}
    NoDoc = NoDoc
    Files = {f1, f2}
    NoFile = NoFile
    Requests = {r1, r2}
    Workers = {w1}
    Ops <- TempOps
    MaxPages = 2
    LastPage = 2
    MaxJobs = 1
    MaxCrashes = 0
    MaxFaults = 0
SYMMETRY Symmetry
INVARIANTS
    TempFilesStored
CHECK_DEADLOCK FALSE
