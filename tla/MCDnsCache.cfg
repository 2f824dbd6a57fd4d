CONSTANTS
    Resolvers = {r1, r2}
    Targets <- MCTargets
    Answers <- MCAnswers
    Private = {"priv"}
    Blocked = {}
    Ttls <- MCTtls
    Capacity = 1
    MaxTime = 1
    NoEntry = NoEntry
SYMMETRY Symmetry
SPECIFICATION Spec
INVARIANTS SizeBounded TtlInForce
PROPERTY AnswersAreGood
