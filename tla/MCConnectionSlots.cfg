CONSTANTS
    Urls = {u1, u2}
    HttpRequests = {h1, h2}
    TcpConnections = {c1}
    Counters = {k1, k2, k3}
    None = None
    Limits = {0, 1, 2}
    PruneThreshold = 1
SYMMETRY Symmetry
SPECIFICATION SlotsSpec
INVARIANTS OneCounterPerUrl CountIsExact
PROPERTY AdmissionWithinLimit
