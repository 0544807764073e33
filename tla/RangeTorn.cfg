SPECIFICATION RSpec
CONSTANTS
    Clients = {c1, c2}
    Keys <- CacheKeys
    keyLen = 3
    hPartialLenMax = 6
    NodeNum <- Slots35
    UseCache = TRUE
    Preload <- CachePreload
    LoadClient = c1
    InsertKeys <- CacheMixed
    SearchKeys <- CacheMixed
    InsertMax = 1
    SearchMax = 0
    Scanner = c2
    Ranges <- WideRange
    MaxByte = 1
    RangeMax = 1
INVARIANT RangeValuesWereWritten
