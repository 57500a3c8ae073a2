CONSTANTS
    Jobs = {j1}
    Tasks = {t1}
    Concurrency = 1
    BatchCap = 10
    Overfill = 0
    RedeliverAt = {"lookup", "handler", "report", "count", "untrack", "release"}
    Directives = {"active"}
    MaxPanics = 1
    BadReplies = FALSE
    Cancellable = FALSE
    NoJob = NoJob
    Beats = 4
    Slow = 1
    MaxBurst = 1
    MaxLost = 1
SPECIFICATION FairServiceSpec
PROPERTY OrphanFreed
