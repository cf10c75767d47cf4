SPECIFICATION Spec
CHECK_DEADLOCK FALSE
CONSTANTS
    Cap = 4
    Setup <- Unordered
    AcceptingSpace <- SpacesOfUnordered
    Modulus = 16
PROPERTIES
    PastIsRefused
