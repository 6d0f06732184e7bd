SPECIFICATION SearchSpec
CONSTANTS
    Bytes = {0}
    Wildcard = 2
    MaxPattern = 1
    MemorySize = 6
    ChunkSize = 3
    Layouts <- MCLayouts
    Ranges <- MCRanges
    Page = 2
    Granularity = 4
    MaxDistance = 8
    Lowest = 4
    Highest = 20
    Sizes = {1}
INVARIANT FailsOnlyWhenFull
CHECK_DEADLOCK FALSE
