SPECIFICATION StationsSpec
CONSTANTS
    Stages = {"s1", "p1", "s2"}
    Items = {"i", "j"}
    ItemOf <- Of
    DependsOn <- After
    Rank <- Order
    Definitions = {"script", "picture"}
    DefinitionOf <- For
    CapabilityOf <- For
    MaxAttempts <- Attempts
    Slots = {"a", "c"}
    Serves <- Station
    Can <- Skills
    Batch <- Size
    ItemLimit <- Limit
    Claims = {1, 2, 3}
    NoClaim = 0
    MaxGeneration <- Generations
PROPERTY
    WokenForWork
CHECK_DEADLOCK FALSE
