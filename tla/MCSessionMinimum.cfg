SPECIFICATION Spec
CHECK_DEADLOCK FALSE
CONSTANTS
    IgnoreUnknown = TRUE
    Channels <- AllChannels
    Threshold = 2
    Locations = {q0}
    Obligated = {q0}
    SlackLists <- AllSlackLists
    MaxEvents = 1
    q0 = q0
INVARIANTS
    MinSlackIsMinimum
