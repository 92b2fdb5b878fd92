SPECIFICATION Spec
CONSTANTS
    Steps = {"first", "second"}
    Initial = {"first"}
    DependsOn <- Chain
    Delivering = {"first"}
    MaxParallelSteps = 1
    MaxAttempts = 2
    Targets = {"cancelled"}
    Reports = {r1}
    Kinds = {"blocked", "PROGRESS_UPDATED", "ARTIFACT_PRODUCED", "COMPLETION_REQUESTED"}
    Deliveries = {d1, d2}
    None = None
    MaxLines = 6
    MaxFaults = 1
SYMMETRY Symmetry
INVARIANTS
    EffectsAreLogged
    OnlyGateCompletes
    ReportsLandOnce
CHECK_DEADLOCK FALSE
