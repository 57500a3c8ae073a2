CONSTANTS
    Jobs = {j1, j2, j3}
    Tasks = {t1, t2, t3}
    Concurrency = 2
    BatchCap = 10
    Overfill = 1
    RedeliverAt = {"release"}
    Directives = {"active", "quiet", "terminate"}
    MaxPanics = 1
    BadReplies = TRUE
    Cancellable = TRUE
    NoJob = NoJob
SYMMETRY Symmetry
SPECIFICATION Spec
INVARIANTS
    TypeOK
    PermitsConserved
    ConcurrencyRespected
    CountAccurate
    JoinSetBounded
    TrackingExact
