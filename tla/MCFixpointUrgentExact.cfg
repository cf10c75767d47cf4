SPECIFICATION Spec
CHECK_DEADLOCK FALSE
CONSTANTS
    Cap = 2
    Automata <- Urgent
INVARIANTS
    ResultIsAccepting
