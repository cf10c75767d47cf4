SPECIFICATION Spec
CHECK_DEADLOCK FALSE
CONSTANTS
    Cap = 2
    Automata <- TwoLocationsOrUrgent
INVARIANTS
    TypeOK
    NothingForgotten
    ResultCovers
    ResultIsSound
    ResultIsSpace
PROPERTIES
    Advances
    Ends
