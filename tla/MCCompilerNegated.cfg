SPECIFICATION Spec
CONSTANTS
    Formulas <- Negated
    Delays = {0, 1}
    MaxEvents <- MCMaxEvents
    Cap = 3
INVARIANT AcceptsFiniteModels
CHECK_DEADLOCK FALSE
