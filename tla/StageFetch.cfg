CONSTANTS
    w1 = w1
    w2 = w2
    s1 = s1
    Workers <- MCWorkers
    Stages <- MCStages
    NCache <- MCNCache
SPECIFICATION Spec
INVARIANTS
    TypeOK
    FetchedImageStaysLocal
    CachesRefilled
    IInv
    RInv
PROPERTIES
    FetchTerminates
    ImplementsStageHostImages
CHECK_DEADLOCK FALSE
