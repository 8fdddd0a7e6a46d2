------------------------------- MODULE MCWifi -------------------------------
(* WifiSetup on small instances.                                           *)
EXTENDS WifiSetup

CONSTANTS home, cafe, typo
=============================================================================
