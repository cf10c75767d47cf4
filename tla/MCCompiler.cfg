SPECIFICATION Spec
CONSTANTS
    Formulas <- MCFormulas
    Delays = {0, 1}
    MaxEvents <- MCMaxEvents
    Cap = 3
INVARIANTS AcceptsFiniteModels AcceptsInfiniteModels
CHECK_DEADLOCK FALSE
