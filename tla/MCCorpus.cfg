SPECIFICATION Spec
CHECK_DEADLOCK FALSE
CONSTANTS
    Bits <- MCBits
    Setups <- MCSetups
    Seeds <- MCSeeds
    Mutants <- MCMutants
    MaxInitial = 2
    WarmUp = 1
    Few = 1
    Counter = 256
INVARIANTS
    TableHasRoom
    ListedIffReachable
    TraceKept
    FavoredCover
    MutatesAfterTarget
PROPERTIES
    SelectionEnds
