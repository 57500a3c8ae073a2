CONSTANTS
    Lines <- MCLines
    MaxLines = 4
    MaxChunk = 3
    Capacity = 1
SPECIFICATION Spec
INVARIANT
    EventsWhole
PROPERTY
    SubscriptionEnds
