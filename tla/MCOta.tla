------------------------------- MODULE MCOta -------------------------------
(* Ota on small instances: one or two releases beside the factory one.     *)
EXTENDS OtaRefinement

CONSTANTS v0, v1, v2, r1, r2

OneRelease == {[version |-> v1, requestId |-> r1]}
TwoReleases == OneRelease \cup {[version |-> v2, requestId |-> r2]}
=============================================================================
