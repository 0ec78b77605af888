---------------------------- MODULE MC_DigestIndex ----------------------------
EXTENDS DigestIndex

CONSTANTS b1, b2, i1, i2

MCBuilders == {b1, b2}
MCIDs == {i1, i2}

\* One stage: enough for every wait on the lock, and small enough for the
\* liveness check.
MCOneID == {i1}
MCNCache == 1

=============================================================================
