--------------------------- MODULE OtaRefinement ---------------------------
(***************************************************************************)
(* Ota implements FirmwareTrial.  A trial lasts from the moment the new    *)
(* image is selected until otadata keeps it and the record says so, or     *)
(* until the other image is selected again.                                *)
(***************************************************************************)
EXTENDS Ota

ImageOnTrial ==
  \/ imgState[bootSlot] \in OnTrial
  \/ nvs.phase # "Idle" /\ nvs.target.version = image[bootSlot]

FallbackImage == IF ImageOnTrial THEN image[Other(bootSlot)] ELSE NoImage

TrialProven == ImageOnTrial /\ proof[bootSlot] = "proven"

Trial == INSTANCE FirmwareTrial WITH
  Nothing <- NoImage,
  selected <- image[bootSlot],
  fallback <- FallbackImage,
  proven <- TrialProven

\* The update flow keeps the promise of FirmwareTrial, when a crash does not fall
\* between esp_ota_set_boot_partition() and the save of the record.
ImplementsTrial == Trial!Spec
=============================================================================
