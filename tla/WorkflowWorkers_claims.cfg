SPECIFICATION Spec
CONSTANTS
    Stages = {"s1", "p1", "s2"}
    Items = {"i", "j"}
    ItemOf <- Of
    DependsOn <- After
    Rank <- Order
    Definitions = {"script", "picture"}
    DefinitionOf <- For
    CapabilityOf <- For
    MaxAttempts <- Attempts
    Slots = {"a", "b"}
    Serves <- Station
    Can <- Skills
    Batch <- Size
    ItemLimit <- Limit
    Claims = {1, 2, 3}
    NoClaim = 0
    MaxGeneration <- Generations
INVARIANTS
    OneHolder
    NothingStranded
    WaitingIsWoken
CHECK_DEADLOCK FALSE
