------------------------ MODULE MC_DigestIndexProofs ------------------------
(* The instance of MC_DigestIndex, for checking the properties of          *)
(* DigestIndex together with the inductive invariant of DigestIndexProofs. *)
EXTENDS DigestIndexProofs

CONSTANTS b1, b2, i1, i2

MCBuilders == {b1, b2}
MCIDs == {i1, i2}
MCNCache == 1

=============================================================================
