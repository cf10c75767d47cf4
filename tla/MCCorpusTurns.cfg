SPECIFICATION Spec
CONSTANTS
    Bits <- MCBits
    Setups <- MCSetups
    Seeds <- MCSeeds
    Mutants <- MCMutants
    MaxInitial = 2
    WarmUp = 1
    Few = 1
    Counter = 256
INVARIANTS
    FuzzedPerState
    PendingFavoredIsCount
CHECK_DEADLOCK FALSE
