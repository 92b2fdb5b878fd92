SPECIFICATION Spec
CONSTANTS
    Tasks = {1}
    Executions = {e1}
    NoExecution = NoExecution
    Host = Host
    NoNode = NoNode
    NoReport = NoReport
    NoLeaseHeld = NoLeaseHeld
    LeaseTTL = 1
    MaxLeases = 2
    MaxTorn = 1
    MaxEntries = 2
    MaxSkewed = 0
    MaxCrashes = 1
    MaxLost = 1
    MaxLapses = 1
    MaxFaults = 1
CONSTRAINT ThreeFailures
INVARIANTS
    CodexAfterAccepted
    NoEnvelopeLost
    QuarantineIsFinal
PROPERTIES
    NoOvertaking
    ImplementsLifecycle
