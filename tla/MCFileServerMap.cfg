CONSTANTS
    t1 = t1
    t2 = t2
    t3 = t3
    h1 = h1
    h2 = h2
    Callers <- MCCallers
    Hosts <- MCHosts
    MaxServers = 3
    NoServer = 0
    NoThread = NoThread
SPECIFICATION Spec
SYMMETRY CallerSymmetry
INVARIANTS
    OneServerPerHost
