SPECIFICATION Spec
CHECK_DEADLOCK FALSE
CONSTANTS
    Cap = 4
    Setup <- Several
    AcceptingSpace <- SpacesOfSeveral
    Modulus = 16
INVARIANTS
    EstimateIsExact
    NoWrappedClock
PROPERTIES
    Implements
