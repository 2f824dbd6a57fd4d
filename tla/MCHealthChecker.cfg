CONSTANTS
    Upstreams = {u1, u2}
    HcConfigs <- MCHcConfigs
    MaxRun = 3
    MaxResets = 1
SPECIFICATION FairHealthSpec
PROPERTIES VerdictsFollowProbes VerdictsCatchUp
