SPECIFICATION Spec
CHECK_DEADLOCK FALSE
CONSTANTS
    Cap = 4
    Setup <- Several
    AcceptingSpace <- SpacesOfSeveral
INVARIANTS
    NoRunLost
    NoRunInvented
    NeverBothOut
    VerdictIsRight
PROPERTIES
    Implements
