CONSTANTS
    w1 = w1
    w2 = w2
    s1 = s1
    Workers <- MCWorkers
    Stages <- MCStages
    NCache <- MCNCache
SPECIFICATION Spec
INVARIANTS
    PrepareFailureIsWarning
CHECK_DEADLOCK FALSE
