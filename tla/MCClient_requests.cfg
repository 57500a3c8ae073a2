CONSTANTS
    None = None
    MAX_TYPE_LENGTH = 4
    MAX_QUEUE_LENGTH = 4
    MaxDuration = 20
    MaxDate = 10
    MillisRange = 4
    FirstItems <- MCFirstItems
    MoreItems <- MCMoreItems
    CallbackItems <- MCCallbackItems
    QueueNames <- MCQueueNames
    Timeouts = {3, 5}
    Delays = {2, 15, 30}
    Dates = {3}
    Policies = {p}
    Metas = {m1, m2}
    Schemas = {s1, s2}
    Times = {1}
    MaxCalls = 5
SPECIFICATION Spec
INVARIANTS
    RequestAsBuilt
    WorkflowOrder
PROPERTY
    WorkflowCompletes
CHECK_DEADLOCK FALSE
