CONSTANTS
    r1 = r1
    r2 = r2
    Releases <- MCReleases
    MaxVersion <- MCMaxVersion
SPECIFICATION Spec
INVARIANTS
    TypeOK
    ReleaseListsNameEachReleaseOnce
    ReleaseDataIsNewestRevision
    DeletedReleaseHasNoRevisions
