SPECIFICATION Spec
CONSTANTS
    Tasks = {1}
    Executions = {e1}
    NoExecution = NoExecution
    Host = Host
    NoNode = NoNode
    NoReport = NoReport
    NoLeaseHeld = NoLeaseHeld
    LeaseTTL = 1
    MaxLeases = 2
    MaxTorn = 0
    MaxEntries = 3
    MaxSkewed = 0
    MaxCrashes = 1
    MaxLost = 0
    MaxLapses = 0
    MaxFaults = 0
INVARIANT SequenceFresh
