SPECIFICATION Spec
CONSTANTS
    Modes <- MCDirect
    MaxRuns = 2
PROPERTY
    RunEndsWithoutServer
CHECK_DEADLOCK FALSE
