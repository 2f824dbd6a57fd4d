CONSTANTS
    Modes = {"", "tcp", "tcp+sni", "https+tcp+sni", "tcp-dynamic", "udp"}
    Addresses = {"", "bad", "p1"}
    Ports = {"p1", "p2"}
    Tables = {"both", "one"}
    PortRoutes <- MCPortRoutes
    SniRoutes <- MCSniRoutes
    Unsafe = {"t2"}
    Proxied = {"t1"}
    Hellos = {"named", "short", "plain"}
    Shape <- MCShape
    Boundaries <- MCBoundaries
    MaxConnections = 1
    MaxBackoff = 2
    Tasks = {k1, k2, k3}
    Conns = {c1, c2}
    MaxChanges = 2
    None = None
SPECIFICATION Spec
CHECK_DEADLOCK FALSE
INVARIANTS NothingLeaks BytesAreRespected
PROPERTY ListenersFollow
