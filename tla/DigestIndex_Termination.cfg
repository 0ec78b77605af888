CONSTANTS
    b1 = b1
    b2 = b2
    i1 = i1
    i2 = i2
    NoOne = NoOne
    Builders <- MCBuilders
    IDs <- MCOneID
    NCache <- MCNCache
    WithLocalManifestCache = TRUE

SPECIFICATION Spec

PROPERTIES
    DigestCallsTerminate

\* Once every call has returned nothing is left to do.
CHECK_DEADLOCK FALSE
