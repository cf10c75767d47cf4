SPECIFICATION Spec
CHECK_DEADLOCK FALSE
CONSTANTS
    IgnoreUnknown = FALSE
    Channels <- AllChannels
    Threshold = 2
    Locations = {q0, q1}
    Obligated = {q0, q1}
    SlackLists <- SomeSlackLists
    MaxEvents = 3
    q0 = q0
    q1 = q1
SYMMETRY Renamings
INVARIANTS
    InStep
    ObligationsBalance
    CoverageCountsOnce
    ExpiryCountsOnce
    SlackIsLeast
