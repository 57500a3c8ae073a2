CONSTANTS
    KeyIds = {k1, k2}
    Keys = {x, y}
    None = None
    Middlewares <- MCMiddlewares
    MaxChain = 3
    MaxChanges = 3
    MaxLayers = 2
SYMMETRY Symmetry
SPECIFICATION Spec
INVARIANTS
    OutcomeRecorded
    EncryptionTransparent
    NestingAsRegistered
