CONSTANTS
    w1 = w1
    w2 = w2
    m1 = m1
    m2 = m2
    c1 = c1
    c2 = c2
    c3 = c3
    NoConn = NoConn
    NoTracker = NoTracker
    NumTrackers = 2
    Workers <- MCWorkers
    MaintThreads <- MCNoMaint
    MaintHandle = m1
    Conns <- MCConns
    MaxClock = 0
    ExpireTime = 0
    RequestOutcomes = {"Success", "TransportError"}
SPECIFICATION Spec
SYMMETRY WorkerSymmetry
INVARIANT InactiveTrackerHasNoPooledConnections
