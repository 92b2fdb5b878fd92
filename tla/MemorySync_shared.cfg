SPECIFICATION FairSpec
CONSTANTS
    Processes = {p1, p2}
    Nobody = Nobody
    Events = {a, b}
    Slots = {1, 2}
    Entities = {x, y}
    MaxBatch = 2
    PageSize = 1
    MaxTroubles = 1

INVARIANTS
    AckedIsCommitted
    RefusedIsNotCommitted
    NoLostUpdate
    ReplicaHasNoGaps
PROPERTY SyncCompletes
CHECK_DEADLOCK FALSE
