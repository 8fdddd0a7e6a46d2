--------------------------- MODULE FirmwareTrial ---------------------------
(***************************************************************************)
(* What the update flow promises, without records, timers or reboots: a    *)
(* device has a firmware it trusts; a new one replaces it only on trial,   *)
(* is kept only after it proved itself, and otherwise gives way to the     *)
(* very firmware it replaced.                                              *)
(***************************************************************************)
CONSTANTS Versions, FactoryVersion, Nothing

VARIABLES
  selected,  \* the firmware the device boots
  fallback,  \* during a trial, the firmware it goes back to; Nothing otherwise
  proven     \* the firmware on trial has passed validation

vars == <<selected, fallback, proven>>

OnTrial == fallback # Nothing

Init == selected = FactoryVersion /\ fallback = Nothing /\ proven = FALSE

Start(v) ==
  /\ ~OnTrial
  /\ v # selected
  /\ selected' = v
  /\ fallback' = selected
  /\ proven' = FALSE

Prove ==
  /\ OnTrial
  /\ proven' = TRUE
  /\ UNCHANGED <<selected, fallback>>

Keep ==
  /\ OnTrial
  /\ proven
  /\ fallback' = Nothing
  /\ proven' = FALSE
  /\ UNCHANGED selected

GiveUp ==
  /\ OnTrial
  /\ selected' = fallback
  /\ fallback' = Nothing
  /\ proven' = FALSE

Next == (\E v \in Versions : Start(v)) \/ Prove \/ Keep \/ GiveUp

Spec == Init /\ [][Next]_vars
=============================================================================
