CONSTANTS
    w1 = w1
    w2 = w2
    m1 = m1
    m2 = m2
    c1 = c1
    c2 = c2
    c3 = c3
    NoConn = NoConn
    NoTracker = NoTracker
    NumTrackers = 1
    Workers <- MCOneWorker
    MaintThreads <- MCTwoMaint
    MaintHandle = m2
    Conns <- MCConns
    MaxClock = 1
    ExpireTime = 0
    RequestOutcomes = {"Success", "TransportError"}
SPECIFICATION Spec
INVARIANT TrackerPartition
INVARIANT ConnectionOwnership
PROPERTY MaintenanceStops
