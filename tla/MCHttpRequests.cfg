CONSTANTS
    Requests = {r1, r2}
    Urls = {"u1", "u2"}
    Tables <- MCTables
    Configs <- MCConfigs
    Headers = {"h"}
    None = None
    MaxProbes = 1
    Reused = {"u1"}
    MaxLost = 1
    Flaky = {"u1"}
    Errors = {"ConnectTimedout", "other"}
SYMMETRY Symmetry
SPECIFICATION Spec
INVARIANTS HoldingsAreReturned SelectionsAreRight
PROPERTIES NoTargetMissed RefusalsDoNotFeedBack
