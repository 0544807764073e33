SPECIFICATION Spec
CONSTANTS
    Clients = {c1, c2}
    Keys <- CacheKeys
    keyLen = 3
    hPartialLenMax = 6
    NodeNum <- Slots35
    UseCache = TRUE
    Preload <- CachePreload
    LoadClient = c1
    InsertKeys <- CacheNew
    SearchKeys <- CacheNew
    InsertMax = 2
    SearchMax = 1
INVARIANT InsertedKeysAreFound
