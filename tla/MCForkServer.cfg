SPECIFICATION Spec
CHECK_DEADLOCK FALSE
CONSTANTS
    Modes <- MCModes
    MaxRuns = 3
INVARIANTS
    FaultTellsDeath
    OneTarget
    FreshTarget
PROPERTIES
    RunEnds
