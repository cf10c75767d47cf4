SPECIFICATION Spec
CHECK_DEADLOCK FALSE
CONSTANTS
    Cap = 1
    Automata <- FourLocations
INVARIANTS
    AlwaysReturns
