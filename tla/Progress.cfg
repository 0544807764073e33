SPECIFICATION ProgressSpec
CONSTANTS
    c1 = c1
    c2 = c2
    c3 = c3
    k1 = k1
    NoKey = NoKey
    NoClient = NoClient
    MEMORY_NODE_NUM = 1
    NR_DIRECTORY = 2
    bitmap_len = 3
    kChunkSize = 6
    Align = 2
    LeafSize = 1
    PageSize = 3
    Threads = {1, 2}
    Origin <- SameOrigin
    AllocMax = 5
    kBatchCount = 2
    DIR_MESSAGE_NR = 2
    APP_MESSAGE_NR = 2
    SIGNAL_BATCH = 0
INVARIANTS
    OneWakeupEach VerdictsAreTrue
    BlocksAreDisjoint BlocksAreInMemory MessagesAreKept BarriersHold
PROPERTIES
    EveryOperationReturns CallsReturn AllocReturns StartupCompletes RingsCarryMessages
