CONSTANTS
    Consul = {c}
    Admins = {a1, a2}
    Urls = {u1}
    Payloads <- RoutePayloads
    MaxStatic = 1
    CbConfigs = {off, x}
    Ttls = {d1, d2}
    Cidrs = {p1, p2}
    Invalid <- OffWithP1
    Trackers = {k1, k2}
    u1 = u1
    off = off
    p1 = p1
    None = None
SYMMETRY Symmetry
SPECIFICATION Spec
INVARIANTS TableIsCurrent BreakersUseSettings SettingsInForce
PROPERTIES ImplementsRouteSources BreakersSurviveRebuilds UpdatesAreMerged
