------------------------ MODULE MC_MaintenanceHelper ------------------------
EXTENDS MaintenanceHelperProofs

CONSTANTS r1, r2

MCReleases == {r1, r2}
MCMaxVersion == 2

=============================================================================
