SPECIFICATION FairSpec
CONSTANTS
    Root = Root
    Repairs = {c1}
    Strangers = {u1}
    None = None
    MaxAttempts = 2
    MaxMoves = 2
    MaxFaults = 1
CONSTRAINT TwoDisturbances
INVARIANTS
    ClaimsAreExclusive
    NothingIsRepeated
PROPERTY LoopFinishes
