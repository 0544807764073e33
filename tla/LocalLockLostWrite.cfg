SPECIFICATION Spec
CONSTANTS
    Clients = {c1, c2, c3}
    Keys = {k1}
    NoKey = NoKey
    NoClient = NoClient
    TicketMod = 4
    Workloads <- ThreeInserts
SYMMETRY Symmetry
INVARIANT HandedOverIsProcessed
