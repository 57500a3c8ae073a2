CONSTANTS
    Keys = {"a", "b"}
    Values = {0, 1}
    Programs <- MCPrograms
    MaxFailures = 2
    None = None
SPECIFICATION Spec
INVARIANTS
    ReplayIdentical
    LogTellsAll
PROPERTIES
    RecordedEffectsOnce
