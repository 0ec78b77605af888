CONSTANTS
    w1 = w1
    w2 = w2
    s1 = s1
    s2 = s2
    Workers <- MCWorkers
    Stages <- MCStages

SPECIFICATION Spec

INVARIANTS
    ListHasNoDuplicates
    ReplicatedStageListed

PROPERTIES
    ImplementsFinalStagesListCache

\* Every call and the cleanup end; nothing is left to do then.
CHECK_DEADLOCK FALSE
