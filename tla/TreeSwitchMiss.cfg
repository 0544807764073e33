SPECIFICATION Spec
CONSTANTS
    Clients = {c1, c2}
    Keys <- SwitchKeys
    keyLen = 2
    hPartialLenMax = 1
    NodeNum <- Slots35
    UseCache = FALSE
    Preload <- SwitchPreload
    LoadClient = c1
    InsertKeys <- SwitchNew
    SearchKeys <- SwitchNew
    InsertMax = 2
    SearchMax = 1
INVARIANT InsertedKeysAreFound
