SPECIFICATION MCSpec
CONSTANTS
    w1 = w1
    w2 = w2
    w3 = w3
    Workers <- MCWorkers
    TaskCount = 4
    MaxBuffer = 1
    FilelistsExt = FALSE
    Update = TRUE
    MaxFails = 1
    Srpm <- MCSrpm
INVARIANTS
    Complete
    BufferBounded
    
PROPERTIES
    ImplementsOrderedDump
    Termination
