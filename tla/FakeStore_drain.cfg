CONSTANTS
    Threads = {t1, t2}
    Types = {a, b}
    Queues = {q, r}
    MaxJobs = 4
    None = None
SPECIFICATION Spec
INVARIANTS
    PerformedIsSettled
PROPERTIES
    DrainCompletes
