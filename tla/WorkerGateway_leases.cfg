SPECIFICATION FairSpec
CONSTANTS
    Keys = {k1}
    NoKey = NoKey
    Results = {r1, r2}
    NoResult = NoResult
    MaxRequests = 2
    MaxLeases = 2
    RequestTTL = 2
    LeaseTTL = 1
    MaxActive = 2
    MaxFaults = 2
INVARIANTS
    DecidedByNewest
    AcceptedIsDurable
    RepeatsAgree
PROPERTY RequestsEnd
CHECK_DEADLOCK FALSE
