SPECIFICATION Spec
CONSTANTS
    Tasks = {1, 2}
    Executions = {e1}
    NoExecution = NoExecution
    Nodes = {n1, n2}
    NoNode = NoNode
    Reports = {busy}
    NoReport = NoReport
    Deliveries = {d1, d2}
    EventSeqs = {1, 2}
    Finals = {"succeeded", "failed"}
    LeaseTTL = 1
    MaxLeases = 3
    MaxTorn = 1
SYMMETRY Symmetry
INVARIANTS
    GenerationsUnique
    AckedIsDurable
    AckedOutcomeIsFinal
PROPERTY OnlyNewestGenerationEnters
