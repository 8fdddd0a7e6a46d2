------------------------------ MODULE MCUplink ------------------------------
(* Uplink on small instances.                                              *)
EXTENDS UplinkRefinement
=============================================================================
