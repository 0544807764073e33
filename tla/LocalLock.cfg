SPECIFICATION Spec
CONSTANTS
    Clients = {c1, c2, c3}
    Keys = {k1, k2}
    NoKey = NoKey
    NoClient = NoClient
    TicketMod = 4
    Workloads <- SafetyWorkloads
SYMMETRY Symmetry
INVARIANTS TypeOK MutualExclusion HandoverSameKey HandoverToWaiters WindowWithinQueue WindowCloses
