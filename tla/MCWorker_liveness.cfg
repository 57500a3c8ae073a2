CONSTANTS
    Jobs = {j1, j2, j3}
    Tasks = {t1, t2}
    Concurrency = 2
    BatchCap = 10
    Overfill = 0
    RedeliverAt = {"release"}
    Directives = {"active", "quiet", "terminate"}
    MaxPanics = 1
    BadReplies = FALSE
    Cancellable = FALSE
    NoJob = NoJob
SPECIFICATION FairSpec
INVARIANTS
    DispatchWaitsOnlyForCleanup
PROPERTIES
    GracefulShutdown
    ShutdownStops
    LastingTerminateStops
    QuietStopsFetching
    RunningFetches
