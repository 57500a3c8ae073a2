CONSTANTS
    Jobs = {j1}
    Tasks = {t1, t2}
    Concurrency = 2
    BatchCap = 10
    Overfill = 0
    RedeliverAt = {"lookup", "handler", "report", "count", "untrack", "release"}
    Directives = {"active"}
    MaxPanics = 1
    BadReplies = TRUE
    Cancellable = TRUE
    NoJob = NoJob
    Beats = 4
    Slow = 1
    MaxBurst = 1
    MaxLost = 0
SPECIFICATION ServiceSpec
INVARIANTS
    ServiceTypeOK
    LeaseHeldWhileRunning
    NoConcurrentRuns
SYMMETRY Symmetry
