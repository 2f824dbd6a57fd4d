CONSTANTS
    Worlds = {"well", "moved"}
    Checks <- MCChecks
    Catalog <- MCCatalog
    KvStates = {"none", "some"}
    KvPairs <- MCKvPairs
    FirstWorlds = {"well"}
    FirstKv = {"some"}
    IdOf <- MCIdOf
    Whitelist = {}
    Blacklist = {"c"}
    IncludeWarning = FALSE
    MaxBackoff = 1
    ChannelSize = 1
    MaxChanges = 2
    MaxLag = 1
    MaxFaults = 1
CHECK_DEADLOCK FALSE
SPECIFICATION WatchSpec
INVARIANTS UpdatesAreRight NeverSpins
PROPERTY RoutesCatchUp
