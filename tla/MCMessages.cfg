SPECIFICATION Spec
CHECK_DEADLOCK FALSE
CONSTANTS
    Seeds <- MCSeeds
    Regions <- MCRegions
    max_seed_region_count = 2
    stage_max = 4
    MaxNodes = 12
INVARIANTS
    NodesAccounted
PROPERTIES
    Implements
