SPECIFICATION Spec
CHECK_DEADLOCK FALSE
CONSTANTS
    Cap = 4
    Setup <- Late
    AcceptingSpace <- SpacesOfLate
    Modulus = 16
INVARIANTS
    NeverBothOut
