CONSTANTS
    RetryLimits = {0, 1, 5, 15}
    Backoffs = {0, 3, 15, 20}
    RetryAfters = {2, 40}
    U32Max = 15
    U64Bits = 4
    U64Max = 15
SPECIFICATION Spec
INVARIANTS
    TypeOK
    EffectsBounded
    AtMostOnce
    RateLimitedMeansUnexecuted
    SleepBounded
    DelayAsDocumented
    ReturnsFromLoop
