SPECIFICATION SafetySpec
CONSTANTS
    c1 = c1
    c2 = c2
    c3 = c3
    Clients = {c1, c2}
    Keys <- SplitKeys
    keyLen = 4
    hPartialLenMax = 2
    NodeNum <- Slots35
    UseCache = FALSE
    Preload <- SplitPreload
    LoadClient = c1
    InsertKeys <- SplitNew
    SearchKeys <- SplitSearch
    InsertMax = 3
    SearchMax = 1
    Scanner = c2
    Ranges <- WideRange
    MaxByte = 1
    RangeMax = 0
SYMMETRY Symmetric
INVARIANTS
    SplitTypesOK SlotsStayASet KeysStayReachable SearchesFindInserted CachedValueIsFresh
    UpdatesExclude SwitchedKeysStay SwitchedTypesCoverSlots ScanIsComplete CacheMatchesKeys
PROPERTIES SwitchKeepsBytes
