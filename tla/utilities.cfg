SPECIFICATION UtilitiesSpec
CONSTANTS
    Values = {1, 2}
    Priorities = {1, 2, 3}
    QueueCapacity = 6
    HeapSize = 6
    Keys = {1, 2, 3}
    Stored = {11, 12}
    Others <- MCOthers
    Mixed <- MCMixed
    Capacities = {0, 2, 4}
    Default = 4
    ArrayCapacity = 3
    RingCapacity = 4
    ArraySlots = 7
    Cap = 2
    Bound = 4
    MaxNodes = 5
    CacheNodes = 4
    MaxCapacity = 8
    MaxSize = 6
    IntMax = 7
    Separator = 3
    ToSort <- MCSorted
    ItemSlices <- MCItems
    Numbers <- MCNumbers
    LogConfigs <- MCLogConfigs
    Rotations <- MCRotations
    Texts <- MCTexts
    Counts <- MCCounts
    Sections <- MCSections
    ShardValues <- MCShardValues
    Blocks <- MCBlocks
    mlMask = 3
    incompressible = 6
    hashTableSize = 16
    MaxInputSize = 1000
    Times = {0, 1, 2, 3}
    Wait = 2
    MaxCalls = 4
    MaxTime = 8
    Slices <- MCSlices
    MaxSteps = 5
    Addresses = {1, 2, 3}
    Contents <- MCContents
    Items = {1, 2}
    limit = 1
INVARIANTS
    QueuesKeepOrder
    LargestLeads
    LinksAreLists
    ListEditsInPlace
    ListsAgreeWithSets
    TreeIsSearchTree
    MapFindsLast
    CacheHoldsRecent
    SortsAndSearches
    SlicesAgree
    MemoryAnswers
    LevelsReachOutputs
    ShardsRoute
    BlocksRoundTrip
    CallsCounted
    ItemsLeft
CHECK_DEADLOCK FALSE
