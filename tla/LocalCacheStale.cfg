SPECIFICATION Spec
CONSTANTS
    a1 = a1
    t1 = t1
    k1 = k1
    None = None
    Coros = {a1}
    thread <- OneThread
    Keys = {k1}
    Requests <- SearchAndUpdate
    candidates <- TwoCandidates
    Preload <- InTheFirst
    capacity = 2
    bucket_elements_limit = 2
    MIGRATION_THRESHOLD = 2
    OpMax = 3
INVARIANTS SearchSeesUpdate
