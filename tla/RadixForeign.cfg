SPECIFICATION Spec
CONSTANTS
    Threads = {t1, t2}
    Bytes = {0, 1}
    CachedPrefixes <- PartingPrefixes
    SearchKeys <- KeyBeside
    Capacity = 20
    EntrySize = 2
    RecordSize = 1
    safely_free_epoch = 1
    InsertMax = 2
    SearchMax = 1
    None = None
INVARIANTS HitsAreForTheKey
