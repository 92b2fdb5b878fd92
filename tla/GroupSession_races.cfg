SPECIFICATION FairSession
CONSTANTS
    Primary = native
    Fallback = claude
    Callers = {l1}
    Outside = outside
    None = None
    MaxRetries = 1
    Threshold = 2
    MaxGeneration = 2
    MaxSessionAttempts = 2
    MaxCrashes = 1
    MaxOperations = 2
CONSTRAINT Undisputed
INVARIANTS
    StreamsAsWriter
    OneExecutor
    DeliveredWasCompleted
    NotLockedOut
PROPERTY FakeRunningEnds
CHECK_DEADLOCK FALSE
