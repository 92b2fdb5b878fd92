SPECIFICATION FairSpec
CONSTANTS
    Tasks = {1, 2}
    Executions = {e1, e2}
    NoExecution = NoExecution
    Host = Host
    NoNode = NoNode
    NoReport = NoReport
    NoLeaseHeld = NoLeaseHeld
    LeaseTTL = 1
    MaxLeases = 7
    MaxTorn = 0
    MaxEntries = 3
    MaxSkewed = 1
    MaxCrashes = 1
    MaxLost = 0
    MaxLapses = 0
    MaxFaults = 0
PROPERTY EveryTaskEnds
