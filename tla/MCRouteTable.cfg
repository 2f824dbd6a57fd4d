CONSTANTS
    HostOf <- MCHostOf
    PathOf <- MCPathOf
    WeightOf <- MCWeightOf
    TagsOf <- MCTagsOf
    OptsOf <- MCOptsOf
    Unit = 120
    MAX_WEIGHT = 240
    Lower <- MCLower
    Fold <- MCFold
    Rank <- MCRank
    Wildcard = "*"
    Scheme <- MCScheme
    LastPart <- MCLastPart
    ParsePort <- MCParsePort
    PortName <- MCPortName
    CatchAll <- MCCatchAll
    LocalAddrs <- MCLocalAddrs
    Slots = 12
    RequestPaths <- MCRequestPaths
    Commands <- MCCommands
    Discovered <- MCDiscovered
    Junk <- MCJunk
    MaxCommands = 4
SPECIFICATION TableSpec
INVARIANTS TableIsRight LookupsAreRight
PROPERTY TrafficFollowsWeights
