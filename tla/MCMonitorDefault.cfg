SPECIFICATION Spec
CHECK_DEADLOCK FALSE
CONSTANTS
    Cap = 4
    Setup <- Default
    AcceptingSpace <- SpacesOfDefault
INVARIANTS
    VerdictIsExact
