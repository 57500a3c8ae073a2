CONSTANTS
    Records = {"good", "bad", "garbled"}
    Pushes = {"push"}
    Directs = {"direct"}
    Type <- MCType
    Garbage = "garbage"
    Good = {"good"}
    Invocations = {i1, i2}
    MaxBatch = 2
    MaxDeaths = 1
SPECIFICATION Spec
INVARIANTS
    DeletedMeansDone
PROPERTIES
    GoodRecordsLeave
