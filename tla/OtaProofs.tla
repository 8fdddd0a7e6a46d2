----------------------------- MODULE OtaProofs -----------------------------
(***************************************************************************)
(* The safety of the update flow, for every value of the constants: first  *)
(* what holds whatever fails (Safe), then what a reliable NVS adds to it   *)
(* (Consistent), the bound on trials and the cause of a conviction with    *)
(* the factory image listed (Trialed), and the refinement of FirmwareTrial *)
(* without a crash before the record is saved (Refining).                  *)
(***************************************************************************)
EXTENDS OtaRefinement, TLAPS, SequenceTheorems

USE ConstantsAssumption

-----------------------------------------------------------------------------
(* The policy: what it does to a record                                    *)

\* A record with another bad list is a record.
LEMMA WithBadType ==
  ASSUME NEW r \in Records, NEW b \in Seq(Published), Len(b) <= MaxBad
  PROVE  /\ [r EXCEPT !.bad = b] \in Records
         /\ [r EXCEPT !.bad = b].phase = r.phase
         /\ [r EXCEPT !.bad = b].target = r.target
         /\ [r EXCEPT !.bad = b].attempts = r.attempts
  BY DEF Records

\* markBad keeps everything of a record but the bad list.
LEMMA MarkBadType ==
  ASSUME NEW r \in Records, NEW m \in Published
  PROVE  /\ MarkBad(r, m) \in Records
         /\ MarkBad(r, m).phase = r.phase
         /\ MarkBad(r, m).target = r.target
         /\ MarkBad(r, m).attempts = r.attempts
<1>1. CASE IsBad(r, m)
  BY <1>1 DEF MarkBad
<1>2. CASE ~IsBad(r, m)
  <2>1. r.bad \in Seq(Published)
    BY DEF Records
  <2>2. <<m>> \in Seq(Published)
    OBVIOUS
  <2>3. <<m>> \o r.bad \in Seq(Published)
    BY <2>1, <2>2, ConcatProperties
  <2>4. Len(r.bad) >= MaxBad => SubSeq(r.bad, 1, MaxBad - 1) \in Seq(Published)
    <3>1. ASSUME Len(r.bad) >= MaxBad
          PROVE  \A i \in 1 .. MaxBad - 1 : r.bad[i] \in Published
      BY <2>1, <3>1, LenProperties, ElementOfSeq
    <3>. QED
      BY <2>1, <3>1, SubSeqProperties
  <2>5. Len(r.bad) >= MaxBad => <<m>> \o SubSeq(r.bad, 1, MaxBad - 1) \in Seq(Published)
    BY <2>2, <2>4, ConcatProperties
  <2>6. Len(r.bad) \in Nat
    BY <2>1, LenProperties
  <2>. DEFINE b == IF Len(r.bad) < MaxBad THEN <<m>> \o r.bad
                   ELSE <<m>> \o SubSeq(r.bad, 1, MaxBad - 1)
  <2>7. b \in Seq(Published)
    BY <2>3, <2>5, <2>6
  <2>9. Len(b) <= MaxBad
    <3>1. CASE Len(r.bad) < MaxBad
      BY <2>1, <2>2, <2>6, <3>1, ConcatProperties
    <3>2. CASE Len(r.bad) >= MaxBad
      <4>1. \A i \in 1 .. MaxBad - 1 : r.bad[i] \in Published
        BY <2>1, <3>2, LenProperties, ElementOfSeq
      <4>2. SubSeq(r.bad, 1, MaxBad - 1) \in Seq(Published)
            /\ Len(SubSeq(r.bad, 1, MaxBad - 1)) = MaxBad - 1
        BY <2>1, <4>1, SubSeqProperties
      <4>. QED
        BY <2>2, <3>2, <4>2, ConcatProperties
    <3>. QED
      BY <2>6, <3>1, <3>2
  <2>8. MarkBad(r, m) = [r EXCEPT !.bad = b]
    BY <1>2 DEF MarkBad
  <2>. HIDE DEF b
  <2>. QED
    BY <2>7, <2>8, <2>9, WithBadType
<1>. QED
  BY <1>1, <1>2

\* recordInstalled: the record is about the release just written, and not idle.
LEMMA InstalledType ==
  ASSUME NEW r \in Records, NEW m \in Published
  PROVE  /\ RecordInstalled(r, m) \in Records
         /\ RecordInstalled(r, m).phase = "Installed"
         /\ RecordInstalled(r, m).target = m
<1>. DEFINE n == IF r.target = m THEN r.attempts + 1 ELSE 1
<1>1. n \in Nat
  BY DEF Records
<1>2. RecordInstalled(r, m) =
        [r EXCEPT !.phase = "Installed", !.target = m, !.lastFailure = "none", !.attempts = n]
  BY DEF RecordInstalled
<1>. HIDE DEF n
<1>. QED
  BY <1>1, <1>2 DEF Records, Phases, Failures

\* recordRollback: the record stays about the release that failed, and not idle.
LEMMA RollbackType ==
  ASSUME NEW r \in Records, r.target # NoManifest,
         NEW verdict \in {"RollbackSelfTest", "RollbackNoConnectivity"}
  PROVE  /\ RecordRollback(r, verdict) \in Records
         /\ RecordRollback(r, verdict).phase # "Idle"
         /\ RecordRollback(r, verdict).target = r.target
<1>1. CASE verdict = "RollbackSelfTest"
  BY <1>1 DEF RecordRollback, Records, Phases, Failures
<1>2. CASE verdict = "RollbackNoConnectivity"
  BY <1>2 DEF RecordRollback, Records, Phases, Failures
<1>. QED
  BY <1>1, <1>2

\* recordConfirmed: the record goes idle.
LEMMA ConfirmedType ==
  ASSUME NEW r \in Records
  PROVE  /\ RecordConfirmed(r) \in Records
         /\ RecordConfirmed(r).phase = "Idle"
         /\ RecordConfirmed(r).target = r.target
  BY DEF RecordConfirmed, Records, Phases, Failures

\* Going idle with a cleared failure, as onBoot and recordProbeResult end.
LEMMA IdleType ==
  ASSUME NEW r \in Records
  PROVE  /\ [r EXCEPT !.phase = "Idle", !.lastFailure = "none"] \in Records
         /\ [r EXCEPT !.phase = "Idle", !.lastFailure = "none"].phase = "Idle"
         /\ [r EXCEPT !.phase = "Idle", !.lastFailure = "none"].target = r.target
  BY DEF Records, Phases, Failures

\* recordProbeResult: whatever the verdict, the record goes idle.
LEMMA ProbeResultType ==
  ASSUME NEW r \in Records, r.target # NoManifest, NEW verdict
  PROVE  /\ RecordProbeResult(r, verdict) \in Records
         /\ RecordProbeResult(r, verdict).phase = "Idle"
         /\ RecordProbeResult(r, verdict).target = r.target
<1>1. r.target \in Published
  BY DEF Records
<1>. DEFINE q == IF verdict = "NewVersionGuilty" \/ r.attempts >= MaxAttempts
                 THEN MarkBad(r, r.target) ELSE r
<1>2. q \in Records /\ q.target = r.target
  BY <1>1, MarkBadType
<1>3. RecordProbeResult(r, verdict) = [q EXCEPT !.phase = "Idle", !.lastFailure = "none"]
  BY DEF RecordProbeResult
<1>. HIDE DEF q
<1>. QED
  BY <1>2, <1>3, IdleType

\* What onBoot makes of the record, by the situation it finds.
LEMMA BootType ==
  ASSUME NEW r \in Records, NEW v
  PROVE  /\ BootRecord(r, v) \in Records
         /\ BootRecord(r, v).target = r.target
         /\ BootSituation(r, v) \in {"Normal", "Validating", "RolledBack", "Probing"}
         /\ BootSituation(r, v) = "Validating" =>
              /\ BootRecord(r, v).phase = "Installed"
              /\ r.target # NoManifest
              /\ r.target.version = v
         /\ BootSituation(r, v) = "Probing" =>
              /\ BootRecord(r, v).phase = "Probing"
              /\ r.target # NoManifest
              /\ r.target.version # v
         /\ r.phase = "Idle" <=> BootSituation(r, v) = "Normal"
         /\ r.phase = "Installed" /\ r.target.version = v =>
              BootSituation(r, v) = "Validating"
<1>1. CASE r.phase = "Idle"
  <2>1. BootSituation(r, v) = "Normal"
    BY <1>1 DEF BootSituation
  <2>2. BootRecord(r, v) = r
    BY <2>1 DEF BootRecord
  <2>. QED
    BY <1>1, <2>1, <2>2
<1>2. CASE r.phase # "Idle" /\ r.target.version = v
  <2>1. BootSituation(r, v) = "Validating"
    BY <1>2 DEF BootSituation
  <2>2. BootRecord(r, v) = [r EXCEPT !.phase = "Installed"]
    BY <2>1 DEF BootRecord
  <2>3. r.target # NoManifest
    BY <1>2 DEF Records
  <2>. QED
    BY <1>2, <2>1, <2>2, <2>3 DEF Records, Phases
<1>3. CASE r.phase = "Installed" /\ r.target.version # v
  <2>1. BootSituation(r, v) = "RolledBack"
    BY <1>3 DEF BootSituation
  <2>. DEFINE q == IF r.attempts >= MaxAttempts THEN MarkBad(r, r.target) ELSE r
  <2>2. r.target \in Published
    BY <1>3 DEF Records
  <2>3. q \in Records /\ q.target = r.target
    BY <2>2, MarkBadType
  <2>4. BootRecord(r, v) = [q EXCEPT !.phase = "Idle", !.lastFailure = "none"]
    BY <2>1 DEF BootRecord
  <2>. HIDE DEF q
  <2>. QED
    BY <1>3, <2>1, <2>3, <2>4, IdleType
<1>4. CASE r.phase = "Probing" /\ r.target.version # v
  <2>1. BootSituation(r, v) = "Probing"
    BY <1>4 DEF BootSituation
  <2>2. BootRecord(r, v) = r
    BY <2>1 DEF BootRecord
  <2>. QED
    BY <1>4, <2>1, <2>2 DEF Records
<1>. QED
  BY <1>1, <1>2, <1>3, <1>4 DEF Records, Phases

\* A device without a record in NVS starts with one that is a record.
LEMMA EmptyType == EmptyRecord \in Records
  BY DEF EmptyRecord, Records, Phases, Failures

\* A reset leaves the Controller as a boot finds it.
LEMMA ResetType ==
  ASSUME NEW s \in Slots, Reset(s)
  PROVE  /\ running' \in Slots
         /\ record' \in Records
         /\ situation' = "Normal"
         /\ pendingVerify' = FALSE
         /\ selfTests' = "unknown"
         /\ reachableAt' \in 0 .. MaxUptime
         /\ mailbox' \in Published \cup {NoManifest, Unchanged}
         /\ current' \in Published \cup {NoManifest}
         /\ uptime' \in 0 .. MaxUptime
         /\ server' = "silent"
  BY EmptyType DEF Reset

\* A save leaves the record or, if it fails, what NVS held.
LEMMA SaveType ==
  ASSUME NEW r \in Records, nvs \in Records, Save(r)
  PROVE  nvs' \in Records /\ nvs' \in {r, nvs}
  BY DEF Save

-----------------------------------------------------------------------------
(* The controller: what a step reads before it decides                     *)

\* serverReachable() latches an uptime the clock has shown.
LEMMA LatchType ==
  ASSUME TypeOK
  PROVE  LatchedReachableAt \in 0 .. MaxUptime
  BY DEF TypeOK, Situations, LatchedReachableAt

\* What every step of validate() starts from and leaves behind.
LEMMA ValidationFacts ==
  ASSUME TypeOK, NEW verdict, ValidationTick(verdict)
  PROVE  /\ pc = "wait"
         /\ situation = "Validating"
         /\ reachableAt' \in 0 .. MaxUptime
         /\ selfTests' \in {"unknown", "passed", "failed"}
<1>1. SelfTestOutcomes \subseteq {"unknown", "passed", "failed"}
  BY DEF TypeOK, Situations, SelfTestOutcomes
<1>. QED
  BY <1>1, LatchType DEF ValidationTick

\* The manifest handled at a tick is a published one, or none.
LEMMA EffectiveType ==
  ASSUME TypeOK
  PROVE  Effective \in Published \cup {NoManifest}
  BY DEF TypeOK, Situations, Effective

\* What the controller knows once decideManifest says Install.
LEMMA InstallFacts ==
  ASSUME TypeOK, Decision = "Install"
  PROVE  Effective \in Published /\ record.phase = "Idle" /\ ~pendingVerify
  BY EffectiveType DEF Decision, DecideManifest

-----------------------------------------------------------------------------
(* The invariant                                                           *)

\* A device as it comes from the cable is coherent.
LEMMA SafeInit == Init => Safe
<1>. SUFFICES ASSUME Init PROVE Safe
  OBVIOUS
<1>1. TypeOK
  <2>1. /\ image \in [Slots -> Versions \cup {NoImage}]
        /\ imgState \in [Slots -> ImageStates]
        /\ proof \in [Slots -> {"factory", "unproven", "proven"}]
        /\ recorded \in [Slots -> BOOLEAN]
    BY DEF Init, ImageStates, Trustable, OnTrial
  <2>2. nvs \in Records /\ record \in Records
    BY EmptyType DEF Init
  <2>3. trials \in [of : Published \cup {NoManifest}, count : 0 .. MaxAttempts + 1]
    BY DEF Init
  <2>4. bootSlot \in Slots /\ running \in Slots /\ reachableAt \in 0 .. MaxUptime
        /\ uptime \in 0 .. MaxUptime
    BY DEF Init, Slots
  <2>. QED
    BY <2>1, <2>2, <2>3, <2>4 DEF Init, TypeOK, Situations
<1>2. Coherent
  BY DEF Init, Coherent, AlwaysBootable, OnlyProvenKept, SituationMatchesImage, SlotsInv,
     PendingInv, DownloadingInv, ProvingInv, AnnouncedInv, Slots, Other, Installing,
     Bootable, Trustable, OnTrial, EmptyRecord
<1>. QED
  BY <1>1, <1>2 DEF Safe

\* Every step of the controller, the bootloader and the world keeps the device coherent,
\* crashes and failed saves included.
LEMMA SafeNext == Safe /\ [Next]_vars => Safe'
<1>. SUFFICES ASSUME Safe, [Next]_vars PROVE Safe'
  OBVIOUS
<1>. USE DEF Safe, Situations, flashVars, ramVars, historyVars
<1>1. CASE PowerOn
  <2>1. TypeOK'
    <3>1. imgState' \in [Slots -> ImageStates] /\ bootSlot' \in Slots
      BY <1>1 DEF PowerOn, TypeOK, Slots, Other, ImageStates, Trustable, OnTrial
    <3>. QED
      BY <1>1, <3>1, ResetType DEF PowerOn, TypeOK
  <2>2. Coherent'
    BY <1>1 DEF PowerOn, Reset, TypeOK, Coherent, AlwaysBootable, OnlyProvenKept,
       SituationMatchesImage, SlotsInv, PendingInv, DownloadingInv, ProvingInv, AnnouncedInv,
       Slots, Other, Installing, Bootable, Trustable, OnTrial
  <2>. QED
    BY <2>1, <2>2
<1>2. CASE Crash
  <2>1. TypeOK'
    <3>1. running \in Slots
      BY DEF TypeOK
    <3>. QED
      BY <1>2, <3>1, ResetType DEF Crash, TypeOK, Slots, Other, ImageStates
  <2>2. Coherent'
    BY <1>2 DEF Crash, Reset, TypeOK, Coherent, AlwaysBootable, OnlyProvenKept,
       SituationMatchesImage, SlotsInv, PendingInv, DownloadingInv, ProvingInv, AnnouncedInv,
       Slots, Other, Installing, Bootable, Trustable, OnTrial
  <2>. QED
    BY <2>1, <2>2
<1>3. CASE Begin
  <2>. DEFINE v == image[running]
              now == BootSituation(nvs, v)
  <2>1. nvs \in Records
    BY DEF TypeOK
  <2>2. /\ BootRecord(nvs, v) \in Records
        /\ BootRecord(nvs, v).target = nvs.target
        /\ now \in {"Normal", "Validating", "RolledBack", "Probing"}
        /\ now = "Validating" => /\ BootRecord(nvs, v).phase = "Installed"
                                 /\ nvs.target # NoManifest
                                 /\ nvs.target.version = v
        /\ now = "Probing" => /\ BootRecord(nvs, v).phase = "Probing"
                              /\ nvs.target # NoManifest
                              /\ nvs.target.version # v
        /\ nvs.phase = "Installed" /\ nvs.target.version = v => now = "Validating"
    BY <2>1, BootType
  <2>3. /\ pc = "begin" /\ pc' = "beginSave"
        /\ situation' = now /\ record' = BootRecord(nvs, v)
        /\ pendingVerify' = (imgState[running] = "pending" /\ now # "Normal")
        /\ imgState' = IF imgState[running] = "pending" /\ now = "Normal"
                       THEN [imgState EXCEPT ![running] = "valid"] ELSE imgState
        /\ UNCHANGED <<image, bootSlot, nvs, running, selfTests, reachableAt, mailbox, current,
                       uptime, server, historyVars>>
    <3>1. Loaded = nvs
      BY <2>1 DEF Loaded, Decoded, Records
    <3>. QED
      BY <1>3, <3>1 DEF Begin
  <2>. HIDE DEF now
  <2>4. TypeOK'
    BY <2>2, <2>3 DEF TypeOK, ImageStates, Trustable
  <2>5. /\ running \in Slots /\ bootSlot = running
        /\ imgState[running] = "pending" /\ now = "Normal" => ~recorded[running]
        /\ image[running] # NoImage
    BY <2>2, <2>3 DEF TypeOK, Coherent, AlwaysBootable, SlotsInv, AnnouncedInv, Installing
  <2>6. (AlwaysBootable /\ OnlyProvenKept /\ SlotsInv)'
    BY <2>3, <2>5 DEF TypeOK, Coherent, AlwaysBootable, OnlyProvenKept, SlotsInv,
       Slots, Other, Installing, Bootable, Trustable, OnTrial
  <2>7. (SituationMatchesImage /\ ProvingInv)'
    BY <2>2, <2>3 DEF SituationMatchesImage, ProvingInv
  <2>8. (PendingInv /\ DownloadingInv /\ AnnouncedInv)'
    BY <2>3, <2>5 DEF TypeOK, Coherent, SlotsInv, PendingInv, DownloadingInv, AnnouncedInv,
       Slots, Installing, Trustable, OnTrial
  <2>9. Coherent'
    BY <2>6, <2>7, <2>8 DEF Coherent
  <2>. QED
    BY <2>4, <2>9
<1>4. CASE BeginSave
  <2>1. TypeOK'
    BY <1>4, SaveType DEF BeginSave, Reset, TypeOK, Slots, Other, ImageStates, Trustable, OnTrial
  <2>2. Coherent'
    BY <1>4 DEF BeginSave, Reset, TypeOK, Coherent, AlwaysBootable, OnlyProvenKept,
       SituationMatchesImage, SlotsInv, PendingInv, DownloadingInv, ProvingInv, AnnouncedInv,
       Slots, Other, Installing, Bootable, Trustable, OnTrial
  <2>. QED
    BY <2>1, <2>2
<1>5. CASE ValidateWait
  <2>1. TypeOK'
    BY <1>5, ValidationFacts DEF ValidateWait, Reset, TypeOK, Slots, Other, ImageStates, Trustable, OnTrial
  <2>2. Coherent'
    BY <1>5, ValidationFacts DEF ValidateWait, Reset, TypeOK, Coherent, AlwaysBootable, OnlyProvenKept,
       SituationMatchesImage, SlotsInv, PendingInv, DownloadingInv, ProvingInv, AnnouncedInv,
       Slots, Other, Installing, Bootable, Trustable, OnTrial
  <2>. QED
    BY <2>1, <2>2
<1>6. CASE ConfirmMark
  <2>1. TypeOK'
    BY <1>6, ValidationFacts, ConfirmedType DEF ConfirmMark, Reset, TypeOK, Slots, Other, ImageStates, Trustable, OnTrial
  <2>2. Coherent'
    BY <1>6, ValidationFacts, ConfirmedType DEF ConfirmMark, Reset, TypeOK, Coherent, AlwaysBootable, OnlyProvenKept,
       SituationMatchesImage, SlotsInv, PendingInv, DownloadingInv, ProvingInv, AnnouncedInv,
       Slots, Other, Installing, Bootable, Trustable, OnTrial
  <2>. QED
    BY <2>1, <2>2
<1>7. CASE ConfirmSave
  <2>1. trials' \in [of : Published \cup {NoManifest}, count : 0 .. MaxAttempts + 1]
    BY <1>7 DEF ConfirmSave
  <2>2. TypeOK'
    BY <1>7, <2>1, SaveType DEF ConfirmSave, TypeOK
  <2>3. Coherent'
    BY <1>7 DEF ConfirmSave, TypeOK, Coherent, AlwaysBootable, OnlyProvenKept,
       SituationMatchesImage, SlotsInv, PendingInv, DownloadingInv, ProvingInv, AnnouncedInv,
       Slots, Other, Installing, Bootable, Trustable, OnTrial
  <2>. QED
    BY <2>2, <2>3
<1>8. CASE RollbackRecord
  <2>1. PICK verdict \in {"RollbackSelfTest", "RollbackNoConnectivity"} :
          /\ ValidationTick(verdict)
          /\ record' = RecordRollback(record, verdict)
          /\ Save(record')
          /\ pc' = "rollback"
          /\ UNCHANGED <<flashVars, running, situation, pendingVerify, mailbox, current,
                         uptime, server, historyVars>>
    BY <1>8 DEF RollbackRecord
  <2>2. record.target # NoManifest /\ record \in Records /\ nvs \in Records
    BY <2>1, ValidationFacts DEF TypeOK, Coherent, ProvingInv
  <2>3. /\ record' \in Records
        /\ record'.phase # "Idle"
        /\ record'.target = record.target
    BY <2>1, <2>2, RollbackType
  <2>4. TypeOK'
    BY <2>1, <2>2, <2>3, ValidationFacts, SaveType DEF TypeOK
  <2>5. Coherent'
    BY <2>1, <2>2, <2>3, ValidationFacts DEF TypeOK, Coherent, AlwaysBootable, OnlyProvenKept,
       SituationMatchesImage, SlotsInv, PendingInv, DownloadingInv, ProvingInv, AnnouncedInv,
       Slots, Other, Installing, Bootable, Trustable, OnTrial
  <2>. QED
    BY <2>4, <2>5
<1>9. CASE RollbackReboot
  <2>1. TypeOK'
    <3>1. running \in Slots
      BY DEF TypeOK
    <3>2. imgState' \in [Slots -> ImageStates] /\ bootSlot' \in Slots
      BY <1>9, <3>1 DEF RollbackReboot, TypeOK, Slots, Other, ImageStates
    <3>. QED
      BY <1>9, <3>1, <3>2, ResetType DEF RollbackReboot, TypeOK
  <2>2. Coherent'
    BY <1>9 DEF RollbackReboot, Reset, RollbackPossible, TypeOK, Coherent, AlwaysBootable, OnlyProvenKept,
       SituationMatchesImage, SlotsInv, PendingInv, DownloadingInv, ProvingInv, AnnouncedInv,
       Slots, Other, Installing, Bootable, Trustable, OnTrial
  <2>. QED
    BY <2>1, <2>2
<1>10. CASE RollbackImpossible
  <2>1. TypeOK'
    BY <1>10, SaveType, ConfirmedType DEF RollbackImpossible, Reset, TypeOK, Slots, Other, ImageStates, Trustable, OnTrial
  <2>2. Coherent'
    BY <1>10, SaveType, ConfirmedType DEF RollbackImpossible, Reset, TypeOK, Coherent, AlwaysBootable, OnlyProvenKept,
       SituationMatchesImage, SlotsInv, PendingInv, DownloadingInv, ProvingInv, AnnouncedInv,
       Slots, Other, Installing, Bootable, Trustable, OnTrial
  <2>. QED
    BY <2>1, <2>2
<1>11. CASE ProbeWait
  <2>1. TypeOK'
    BY <1>11, LatchType DEF ProbeWait, Reset, TypeOK, Slots, Other, ImageStates, Trustable, OnTrial
  <2>2. Coherent'
    BY <1>11 DEF ProbeWait, Reset, TypeOK, Coherent, AlwaysBootable, OnlyProvenKept,
       SituationMatchesImage, SlotsInv, PendingInv, DownloadingInv, ProvingInv, AnnouncedInv,
       Slots, Other, Installing, Bootable, Trustable, OnTrial
  <2>. QED
    BY <2>1, <2>2
<1>12. CASE ProbeVerdict
  <2>1. record.target # NoManifest /\ record \in Records /\ nvs \in Records
    BY <1>12 DEF ProbeVerdict, TypeOK, Coherent, ProvingInv
  <2>2. record' \in Records /\ record'.phase = "Idle" /\ record'.target = record.target
    BY <1>12, <2>1, ProbeResultType DEF ProbeVerdict
  <2>3. TypeOK'
    BY <1>12, <2>1, <2>2, LatchType, SaveType DEF ProbeVerdict, TypeOK
  <2>4. Coherent'
    BY <1>12, <2>2 DEF ProbeVerdict, TypeOK, Coherent, AlwaysBootable, OnlyProvenKept,
       SituationMatchesImage, SlotsInv, PendingInv, DownloadingInv, ProvingInv, AnnouncedInv,
       Slots, Other, Installing, Bootable, Trustable, OnTrial
  <2>. QED
    BY <2>3, <2>4
<1>13. CASE TickSettled
  <2>1. TypeOK'
    BY <1>13 DEF TickSettled, Reset, TypeOK, Slots, Other, ImageStates, Trustable, OnTrial
  <2>2. Coherent'
    BY <1>13 DEF TickSettled, Reset, TypeOK, Coherent, AlwaysBootable, OnlyProvenKept,
       SituationMatchesImage, SlotsInv, PendingInv, DownloadingInv, ProvingInv, AnnouncedInv,
       Slots, Other, Installing, Bootable, Trustable, OnTrial
  <2>. QED
    BY <2>1, <2>2
<1>14. CASE ManifestDeferred
  <2>1. TypeOK'
    BY <1>14, EffectiveType DEF ManifestDeferred, Reset, TypeOK, Slots, Other, ImageStates, Trustable, OnTrial
  <2>2. Coherent'
    BY <1>14 DEF ManifestDeferred, Reset, TypeOK, Coherent, AlwaysBootable, OnlyProvenKept,
       SituationMatchesImage, SlotsInv, PendingInv, DownloadingInv, ProvingInv, AnnouncedInv,
       Slots, Other, Installing, Bootable, Trustable, OnTrial
  <2>. QED
    BY <2>1, <2>2
<1>15. CASE ManifestIgnored
  <2>1. TypeOK'
    BY <1>15 DEF ManifestIgnored, Reset, TypeOK, Slots, Other, ImageStates, Trustable, OnTrial
  <2>2. Coherent'
    BY <1>15 DEF ManifestIgnored, Reset, TypeOK, Coherent, AlwaysBootable, OnlyProvenKept,
       SituationMatchesImage, SlotsInv, PendingInv, DownloadingInv, ProvingInv, AnnouncedInv,
       Slots, Other, Installing, Bootable, Trustable, OnTrial
  <2>. QED
    BY <2>1, <2>2
<1>16. CASE DownloadStart
  <2>1. TypeOK'
    BY <1>16, EffectiveType, InstallFacts DEF DownloadStart, Reset, TypeOK, Slots, Other, ImageStates, Trustable, OnTrial
  <2>2. Coherent'
    BY <1>16, InstallFacts DEF DownloadStart, Reset, TypeOK, Coherent, AlwaysBootable, OnlyProvenKept,
       SituationMatchesImage, SlotsInv, PendingInv, DownloadingInv, ProvingInv, AnnouncedInv,
       Slots, Other, Installing, Bootable, Trustable, OnTrial
  <2>. QED
    BY <2>1, <2>2
<1>17. CASE DownloadErase
  <2>1. TypeOK'
    BY <1>17 DEF DownloadErase, Reset, TypeOK, Slots, Other, ImageStates, Trustable, OnTrial
  <2>2. Coherent'
    BY <1>17 DEF DownloadErase, Reset, TypeOK, Coherent, AlwaysBootable, OnlyProvenKept,
       SituationMatchesImage, SlotsInv, PendingInv, DownloadingInv, ProvingInv, AnnouncedInv,
       Slots, Other, Installing, Bootable, Trustable, OnTrial
  <2>. QED
    BY <2>1, <2>2
<1>18. CASE DownloadBroken
  <2>1. TypeOK'
    BY <1>18 DEF DownloadBroken, Reset, TypeOK, Slots, Other, ImageStates, Trustable, OnTrial
  <2>2. Coherent'
    BY <1>18 DEF DownloadBroken, Reset, TypeOK, Coherent, AlwaysBootable, OnlyProvenKept,
       SituationMatchesImage, SlotsInv, PendingInv, DownloadingInv, ProvingInv, AnnouncedInv,
       Slots, Other, Installing, Bootable, Trustable, OnTrial
  <2>. QED
    BY <2>1, <2>2
<1>19. CASE DownloadWrong
  <2>1. current \in Published /\ record \in Records /\ nvs \in Records
    BY <1>19 DEF DownloadWrong, TypeOK, Coherent, DownloadingInv
  <2>2. record' \in Records /\ record'.phase = record.phase /\ record'.target = record.target
    BY <1>19, <2>1, MarkBadType DEF DownloadWrong
  <2>3. TypeOK'
    BY <1>19, <2>1, <2>2, SaveType DEF DownloadWrong, TypeOK
  <2>4. Coherent'
    BY <1>19, <2>2 DEF DownloadWrong, TypeOK, Coherent, AlwaysBootable, OnlyProvenKept,
       SituationMatchesImage, SlotsInv, PendingInv, DownloadingInv, ProvingInv, AnnouncedInv,
       Slots, Other, Installing, Bootable, Trustable, OnTrial
  <2>. QED
    BY <2>3, <2>4
<1>20. CASE DownloadDone
  <2>1. current \in Published /\ current.version \in Versions /\ current.version # NoImage
    BY <1>20 DEF DownloadDone, TypeOK, Coherent, DownloadingInv, Manifest
  <2>2. TypeOK'
    BY <1>20, <2>1 DEF DownloadDone, TypeOK, Slots, Other, ImageStates, OnTrial
  <2>3. /\ bootSlot = running
        /\ imgState[running] \in Trustable
        /\ image[running] # NoImage
    BY <1>20 DEF DownloadDone, TypeOK, Coherent, AlwaysBootable, SlotsInv, PendingInv,
       DownloadingInv, Installing, Trustable, OnTrial
  <2>4. Coherent'
    BY <1>20, <2>1, <2>3 DEF DownloadDone, TypeOK, Coherent, AlwaysBootable, OnlyProvenKept,
       SituationMatchesImage, SlotsInv, PendingInv, DownloadingInv, ProvingInv, AnnouncedInv,
       Slots, Other, Installing, Bootable, Trustable, OnTrial
  <2>. QED
    BY <2>2, <2>4
<1>21. CASE InstallRecord
  <2>1. current \in Published /\ record \in Records /\ nvs \in Records
    BY <1>21 DEF InstallRecord, TypeOK, Coherent, DownloadingInv
  <2>2. record' \in Records /\ record'.phase = "Installed" /\ record'.target = current
    BY <1>21, <2>1, InstalledType DEF InstallRecord
  <2>3. trials' \in [of : Published \cup {NoManifest}, count : 0 .. MaxAttempts + 1]
    BY <1>21, <2>1 DEF InstallRecord, TypeOK
  <2>4. TypeOK'
    BY <1>21, <2>1, <2>2, <2>3, SaveType DEF InstallRecord, TypeOK, Slots, Other
  <2>5. Coherent'
    BY <1>21, <2>1, <2>2 DEF InstallRecord, TypeOK, Coherent, AlwaysBootable, OnlyProvenKept,
       SituationMatchesImage, SlotsInv, PendingInv, DownloadingInv, ProvingInv, AnnouncedInv,
       Slots, Other, Installing, Bootable, Trustable, OnTrial
  <2>. QED
    BY <2>4, <2>5
<1>22. CASE Restart
  <2>1. TypeOK'
    <3>1. running \in Slots
      BY DEF TypeOK
    <3>. QED
      BY <1>22, <3>1, ResetType DEF Restart, TypeOK, Slots, Other, ImageStates
  <2>2. Coherent'
    BY <1>22 DEF Restart, Reset, TypeOK, Coherent, AlwaysBootable, OnlyProvenKept,
       SituationMatchesImage, SlotsInv, PendingInv, DownloadingInv, ProvingInv, AnnouncedInv,
       Slots, Other, Installing, Bootable, Trustable, OnTrial
  <2>. QED
    BY <2>1, <2>2
<1>23. CASE UptimePasses
  <2>1. TypeOK'
    BY <1>23 DEF UptimePasses, Reset, TypeOK, Slots, Other, ImageStates, Trustable, OnTrial
  <2>2. Coherent'
    BY <1>23 DEF UptimePasses, Reset, TypeOK, Coherent, AlwaysBootable, OnlyProvenKept,
       SituationMatchesImage, SlotsInv, PendingInv, DownloadingInv, ProvingInv, AnnouncedInv,
       Slots, Other, Installing, Bootable, Trustable, OnTrial
  <2>. QED
    BY <2>1, <2>2
<1>24. CASE ServerAnswers
  <2>1. TypeOK'
    BY <1>24 DEF ServerAnswers, Reset, TypeOK, Slots, Other, ImageStates, Trustable, OnTrial
  <2>2. Coherent'
    BY <1>24 DEF ServerAnswers, Reset, TypeOK, Coherent, AlwaysBootable, OnlyProvenKept,
       SituationMatchesImage, SlotsInv, PendingInv, DownloadingInv, ProvingInv, AnnouncedInv,
       Slots, Other, Installing, Bootable, Trustable, OnTrial
  <2>. QED
    BY <2>1, <2>2
<1>25. ASSUME NEW m \in Messages, ManifestArrives(m)
     PROVE  Safe'
  <2>1. TypeOK'
    BY <1>25 DEF ManifestArrives, Parsed, Messages, TypeOK
  <2>2. Coherent'
    BY <1>25 DEF ManifestArrives, Parsed, Messages, Coherent, AlwaysBootable, OnlyProvenKept,
       SituationMatchesImage, SlotsInv, PendingInv, DownloadingInv, ProvingInv, AnnouncedInv,
       Other, Installing, Bootable
  <2>. QED
    BY <2>1, <2>2
<1>26. CASE UNCHANGED vars
  BY <1>26 DEF vars, TypeOK, Coherent, AlwaysBootable, OnlyProvenKept,
     SituationMatchesImage, SlotsInv, PendingInv, DownloadingInv, ProvingInv, AnnouncedInv,
     Other, Installing, Bootable
<1>. QED
  BY <1>1, <1>2, <1>3, <1>4, <1>5, <1>6, <1>7, <1>8, <1>9, <1>10, <1>11, <1>12, <1>13, <1>14, <1>15, <1>16, <1>17, <1>18, <1>19, <1>20, <1>21, <1>22, <1>23, <1>24, <1>25, <1>26
     DEF Next, Boot, Prove, Install, Environment

-----------------------------------------------------------------------------
(* The theorems                                                            *)

\* Whatever is written, lost, refused or interrupted, the task, the record and the
\* flash are coherent: the inductive invariant.
THEOREM SafeInvariant == Spec => []Safe
<1>1. Init => Safe
  BY SafeInit
<1>2. Safe /\ [Next]_vars => Safe'
  BY SafeNext
<1>. QED
  BY <1>1, <1>2, PTL DEF Spec

\* Every variable keeps its type; above all the record, whose optional target is
\* there whenever its phase needs it (OtaPolicy.cpp reads it without a check).
THEOREM TypeCorrect == Spec => []TypeOK
<1>1. Safe => TypeOK
  BY DEF Safe
<1>. QED
  BY <1>1, SafeInvariant, PTL

\* No interruption of an update, NVS failing or not, leaves the bootloader with
\* nothing to boot.
THEOREM AlwaysBootableHolds == Spec => []AlwaysBootable
<1>1. Safe => AlwaysBootable
  BY DEF Safe, Coherent
<1>. QED
  BY <1>1, SafeInvariant, PTL

\* The bootloader gives up going back only for an image that validate() confirmed,
\* if the record of its install reached NVS.
THEOREM OnlyProvenKeptHolds == Spec => []OnlyProvenKept
<1>1. Safe => OnlyProvenKept
  BY DEF Safe, Coherent
<1>. QED
  BY <1>1, SafeInvariant, PTL

\* The verdict of a validation or of a probe is about the right image: what runs is
\* the release of the record when validating, and another one when probing.
THEOREM SituationMatchesImageHolds == Spec => []SituationMatchesImage
<1>1. Safe => SituationMatchesImage
  BY DEF Safe, Coherent
<1>. QED
  BY <1>1, SafeInvariant, PTL

-----------------------------------------------------------------------------
(* The policy: attempts and condemned releases                             *)

\* markBad condemns at most the release it is given.
LEMMA MarkBadCondemns ==
  ASSUME NEW r \in Records, NEW m \in Published
  PROVE  Condemned(MarkBad(r, m)) \subseteq Condemned(r) \cup {m}
<1>1. r.bad \in Seq(Published) /\ Len(r.bad) \in Nat /\ Len(r.bad) <= MaxBad
  BY LenProperties DEF Records
<1>2. CASE IsBad(r, m)
  BY <1>2 DEF MarkBad
<1>3. CASE ~IsBad(r, m) /\ Len(r.bad) < MaxBad
  <2>1. MarkBad(r, m).bad = <<m>> \o r.bad
    BY <1>3 DEF MarkBad, Records
  <2>2. Len(<<m>> \o r.bad) = Len(r.bad) + 1
        /\ \A i \in 1 .. Len(r.bad) + 1 : (<<m>> \o r.bad)[i] = IF i = 1 THEN m ELSE r.bad[i - 1]
    BY <1>1, ConcatProperties
  <2>. QED
    BY <1>1, <2>1, <2>2 DEF Condemned
<1>4. CASE ~IsBad(r, m) /\ ~(Len(r.bad) < MaxBad)
  <2>. DEFINE s == SubSeq(r.bad, 1, MaxBad - 1)
  <2>1. MarkBad(r, m).bad = <<m>> \o s
    BY <1>4 DEF MarkBad, Records
  <2>2. \A i \in 1 .. MaxBad - 1 : r.bad[i] \in Published
    BY <1>1, <1>4, LenProperties, ElementOfSeq
  <2>3. s \in Seq(Published) /\ Len(s) = MaxBad - 1 /\ \A i \in 1 .. MaxBad - 1 : s[i] = r.bad[i]
    BY <1>1, <2>2, SubSeqProperties
  <2>. HIDE DEF s
  <2>4. Len(<<m>> \o s) = MaxBad
        /\ \A i \in 1 .. MaxBad : (<<m>> \o s)[i] = IF i = 1 THEN m ELSE s[i - 1]
    BY <2>3, ConcatProperties
  <2>. QED
    BY SMTT(30), <1>1, <1>4, <2>1, <2>3, <2>4 DEF Condemned
<1>. QED
  BY <1>2, <1>3, <1>4

\* Going idle condemns nothing.
LEMMA IdleKeeps ==
  ASSUME NEW r \in Records
  PROVE  /\ Condemned([r EXCEPT !.phase = "Idle", !.lastFailure = "none"]) = Condemned(r)
         /\ [r EXCEPT !.phase = "Idle", !.lastFailure = "none"].attempts = r.attempts
  BY DEF Condemned, Records

\* recordProbeResult keeps the count, and condemns the release on trial only for cause.
LEMMA ProbeResultCondemns ==
  ASSUME NEW r \in Records, r.target # NoManifest, NEW verdict
  PROVE  /\ RecordProbeResult(r, verdict).attempts = r.attempts
         /\ Condemned(RecordProbeResult(r, verdict)) \subseteq Condemned(r) \cup {r.target}
         /\ verdict # "NewVersionGuilty" /\ r.attempts < MaxAttempts =>
              Condemned(RecordProbeResult(r, verdict)) = Condemned(r)
<1>1. r.target \in Published /\ r.attempts \in Nat
  BY DEF Records
<1>. DEFINE q == IF verdict = "NewVersionGuilty" \/ r.attempts >= MaxAttempts
                 THEN MarkBad(r, r.target) ELSE r
<1>2. q \in Records /\ q.attempts = r.attempts /\ Condemned(q) \subseteq Condemned(r) \cup {r.target}
  BY <1>1, MarkBadType, MarkBadCondemns
<1>3. verdict # "NewVersionGuilty" /\ r.attempts < MaxAttempts => q = r
  BY <1>1
<1>4. RecordProbeResult(r, verdict) = [q EXCEPT !.phase = "Idle", !.lastFailure = "none"]
  BY DEF RecordProbeResult
<1>. HIDE DEF q
<1>. QED
  BY <1>2, <1>3, <1>4, IdleKeeps

\* onBoot keeps the count; it condemns only a release that used up its attempts and
\* does not run, and ends the trial only of one that does not run.
LEMMA BootCondemns ==
  ASSUME NEW r \in Records, NEW v
  PROVE  /\ BootRecord(r, v).attempts = r.attempts
         /\ BootRecord(r, v).phase # "Idle" => r.phase # "Idle"
         /\ r.phase # "Idle" /\ r.target.version = v => BootRecord(r, v).phase # "Idle"
         /\ \A m \in Condemned(BootRecord(r, v)) \ Condemned(r) :
              m = r.target /\ r.phase # "Idle" /\ m.version # v /\ r.attempts >= MaxAttempts
<1>1. CASE r.phase = "Idle"
  <2>1. BootRecord(r, v) = r
    BY <1>1 DEF BootSituation, BootRecord
  <2>. QED
    BY <1>1, <2>1
<1>2. CASE r.phase # "Idle" /\ r.target.version = v
  <2>1. BootSituation(r, v) = "Validating"
    BY <1>2 DEF BootSituation
  <2>2. BootRecord(r, v) = [r EXCEPT !.phase = "Installed"]
    BY <2>1 DEF BootRecord
  <2>3. BootRecord(r, v).attempts = r.attempts /\ BootRecord(r, v).phase = "Installed"
        /\ BootRecord(r, v).bad = r.bad
    BY <2>2 DEF Records
  <2>. QED
    BY <1>2, <2>3 DEF Condemned
<1>3. CASE r.phase = "Installed" /\ r.target.version # v
  <2>1. BootSituation(r, v) = "RolledBack"
    BY <1>3 DEF BootSituation
  <2>. DEFINE q == IF r.attempts >= MaxAttempts THEN MarkBad(r, r.target) ELSE r
  <2>2. r.target \in Published
    BY <1>3 DEF Records
  <2>3. q \in Records /\ q.attempts = r.attempts /\ Condemned(q) \subseteq Condemned(r) \cup {r.target}
        /\ (~(r.attempts >= MaxAttempts) => q = r)
    BY <2>2, MarkBadType, MarkBadCondemns
  <2>4. BootRecord(r, v) = [q EXCEPT !.phase = "Idle", !.lastFailure = "none"]
    BY <2>1 DEF BootRecord
  <2>. HIDE DEF q
  <2>5. BootRecord(r, v).phase = "Idle" /\ BootRecord(r, v).attempts = r.attempts
        /\ Condemned(BootRecord(r, v)) = Condemned(q)
    BY <2>3, <2>4, IdleKeeps, IdleType
  <2>. QED
    BY <1>3, <2>3, <2>5
<1>4. CASE r.phase = "Probing" /\ r.target.version # v
  <2>1. BootRecord(r, v) = r
    BY <1>4 DEF BootSituation, BootRecord
  <2>. QED
    BY <1>4, <2>1
<1>. QED
  BY <1>1, <1>2, <1>3, <1>4 DEF Records, Phases

-----------------------------------------------------------------------------
(* Trials, with a reliable NVS                                             *)

\* RAM, NVS and flash agree on a device as it comes from the cable.
LEMMA ConsistentInit == Init => Consistent
  BY DEF Init, Consistent, SavedInv, TrialInv, InstallInv, RecordOnTrial, EmptyRecord, Trustable, OnTrial, Slots

\* Steps that touch neither flash nor record, and start no install.
LEMMA ConsistentQuiet ==
  ASSUME Safe, Consistent, UNCHANGED <<flashVars, nvs, record, running, proof>>,
         \/ pc' = pc /\ current' = current
         \/ pc' \in {"wait", "manifest"} /\ pc \in {"wait", "manifest", "download", "downloading"}
         \/ pc' = "off"
  PROVE  Consistent'
  BY DEF Safe, Consistent, SavedInv, TrialInv, InstallInv, RecordOnTrial, flashVars, Bootable, Other

\* Every step, a crash between two of them included, keeps RAM, NVS and flash in agreement
\* when saves do not fail.
LEMMA ConsistentNext ==
  ASSUME Safe, Consistent, ~NvsCanFail, [Next]_vars
  PROVE  Consistent'
<1>. USE DEF flashVars, ramVars, historyVars
<1>0. nvs \in Records /\ record \in Records /\ running \in Slots /\ bootSlot \in Slots
      /\ imgState \in [Slots -> ImageStates] /\ image \in [Slots -> Versions \cup {NoImage}]
      /\ proof \in [Slots -> {"factory", "unproven", "proven"}]
  BY DEF Safe, TypeOK
<1>1. CASE PowerOn
  <2>1. UNCHANGED <<image, nvs, proof>> /\ pc' \in {"begin", "bricked"}
    BY <1>1 DEF PowerOn
  <2>2. SavedInv' /\ InstallInv'
    BY <2>1 DEF SavedInv, InstallInv
  <2>3. CASE imgState[bootSlot] = "pending"
    <3>1. imgState' = [imgState EXCEPT ![bootSlot] = "aborted"] /\ bootSlot' = Other(bootSlot)
      BY <1>1, <2>3 DEF PowerOn
    <3>2. imgState'[bootSlot'] = imgState[Other(bootSlot)] /\ imgState[Other(bootSlot)] \notin OnTrial
      BY <1>0, <3>1 DEF Slots, Other, Safe, Coherent, SlotsInv
    <3>3. ~RecordOnTrial'
      BY <1>0, <2>1, <2>3, <3>1 DEF Consistent, TrialInv, RecordOnTrial, OnTrial
    <3>. QED
      BY <2>2, <3>2, <3>3 DEF Consistent, TrialInv
  <2>4. CASE imgState[bootSlot] # "pending"
    <3>1. imgState' = [imgState EXCEPT ![bootSlot] = IF @ = "new" THEN "pending" ELSE @] /\ bootSlot' = bootSlot
      BY <1>1, <2>4 DEF PowerOn
    <3>2. TrialInv'
      BY <1>0, <2>1, <3>1 DEF Consistent, TrialInv, RecordOnTrial, Bootable, Slots, Other, OnTrial
    <3>. QED
      BY <2>2, <3>2 DEF Consistent
  <2>. QED
    BY <2>3, <2>4
<1>2. CASE Crash
  BY <1>2 DEF Crash, Reset, Consistent, SavedInv, TrialInv, InstallInv, RecordOnTrial, Bootable, Other
<1>3. CASE Restart
  BY <1>3 DEF Restart, Reset, Consistent, SavedInv, TrialInv, InstallInv, RecordOnTrial, Bootable, Other
<1>4. CASE Begin
  <2>1. Loaded = nvs
    BY <1>0 DEF Loaded, Decoded, Records
  <2>2. /\ pc' = "beginSave" /\ record' = BootRecord(nvs, image[running]) /\ UNCHANGED <<image, bootSlot, nvs, running, proof>>
        /\ imgState' \in {imgState, [imgState EXCEPT ![running] = "valid"]}
    BY <1>4, <2>1 DEF Begin
  <2>3. bootSlot = running
    BY <1>4 DEF Begin, Safe, Coherent, SlotsInv, Installing
  <2>4. SavedInv' /\ InstallInv'
    BY <2>2 DEF SavedInv, InstallInv
  <2>5. TrialInv'
    BY <1>0, <2>2, <2>3 DEF Consistent, TrialInv, RecordOnTrial, Bootable, Slots, Other, OnTrial
  <2>. QED
    BY <2>4, <2>5 DEF Consistent
<1>5. CASE BeginSave
  <2>1. nvs' = record /\ pc' = "wait" /\ UNCHANGED <<flashVars, record, running, proof>>
    BY <1>5 DEF BeginSave, Save
  <2>2. record = BootRecord(nvs, image[running]) /\ bootSlot = running
    BY <1>5 DEF BeginSave, Consistent, SavedInv, Safe, Coherent, SlotsInv, Installing
  <2>3. /\ record.phase # "Idle" => nvs.phase # "Idle"
        /\ nvs.phase # "Idle" /\ nvs.target.version = image[running] => record.phase # "Idle"
        /\ record.target = nvs.target
    BY <1>0, <2>2, BootCondemns, BootType
  <2>4. RecordOnTrial' <=> RecordOnTrial
    BY <2>1, <2>2, <2>3 DEF RecordOnTrial
  <2>5. TrialInv'
    BY <2>1, <2>3, <2>4 DEF Consistent, TrialInv, Bootable, Other
  <2>. QED
    BY <2>1, <2>5 DEF Consistent, SavedInv, InstallInv
<1>6. CASE ConfirmMark
  <2>1. /\ pc = "wait" /\ pc' = "confirmSave" /\ situation = "Validating"
        /\ record' = RecordConfirmed(record) /\ UNCHANGED <<image, bootSlot, nvs, running>>
        /\ imgState' = [imgState EXCEPT ![running] = "valid"] /\ proof' = [proof EXCEPT ![running] = "proven"]
    BY <1>6 DEF ConfirmMark, ValidationTick
  <2>2. record = nvs /\ nvs.phase # "Idle" /\ bootSlot = running
    BY <2>1 DEF Consistent, SavedInv, Safe, Coherent, ProvingInv, SlotsInv, Installing
  <2>3. SavedInv' /\ InstallInv'
    BY <2>1, <2>2 DEF SavedInv, InstallInv
  <2>4. TrialInv'
    BY <1>0, <2>1, <2>2 DEF Consistent, TrialInv, RecordOnTrial, Bootable, Slots, Other, OnTrial
  <2>. QED
    BY <2>3, <2>4 DEF Consistent
<1>7. CASE ConfirmSave
  <2>1. nvs' = record /\ pc' = "manifest" /\ UNCHANGED <<flashVars, record, running, proof>>
    BY <1>7 DEF ConfirmSave, Save
  <2>2. record.phase = "Idle"
    BY <1>0, <1>7, ConfirmedType DEF ConfirmSave, Consistent, SavedInv
  <2>. QED
    BY <2>1, <2>2 DEF Consistent, SavedInv, InstallInv, TrialInv, RecordOnTrial
<1>8. CASE RollbackRecord
  <2>1. PICK verdict \in {"RollbackSelfTest", "RollbackNoConnectivity"} :
          record' = RecordRollback(record, verdict) /\ ValidationTick(verdict)
    BY <1>8 DEF RollbackRecord
  <2>2. nvs' = record' /\ pc' = "rollback" /\ UNCHANGED <<flashVars, running, proof>>
    BY <1>8 DEF RollbackRecord, Save
  <2>3. record = nvs /\ nvs.phase # "Idle" /\ record.target # NoManifest
    BY <2>1 DEF ValidationTick, Consistent, SavedInv, Safe, Coherent, ProvingInv
  <2>4. nvs'.phase # "Idle" /\ nvs'.target = nvs.target
    BY <1>0, <2>1, <2>2, <2>3, RollbackType
  <2>. QED
    BY <2>2, <2>3, <2>4 DEF Consistent, SavedInv, InstallInv, TrialInv, RecordOnTrial, Bootable, Other
<1>9. CASE RollbackReboot
  <2>1. /\ pc = "rollback" /\ pc' = "off" /\ UNCHANGED <<image, nvs, proof>>
        /\ imgState' = [imgState EXCEPT ![running] = "invalid"] /\ bootSlot' = Other(running)
    BY <1>9 DEF RollbackReboot
  <2>2. bootSlot = running /\ situation = "Validating" /\ record = nvs /\ nvs.phase # "Idle"
    BY <2>1 DEF Consistent, SavedInv, Safe, Coherent, ProvingInv, SlotsInv, Installing
  <2>3. RecordOnTrial
    BY <2>2 DEF Safe, Coherent, SituationMatchesImage, RecordOnTrial
  <2>4. ~RecordOnTrial'
    BY <2>1, <2>2, <2>3 DEF Consistent, TrialInv, RecordOnTrial
  <2>5. imgState'[bootSlot'] \notin OnTrial
    BY <1>0, <2>1, <2>2 DEF Safe, Coherent, SlotsInv, Slots, Other
  <2>. QED
    BY <2>1, <2>4, <2>5 DEF Consistent, SavedInv, InstallInv, TrialInv
<1>10. CASE RollbackImpossible \/ ProbeVerdict
  <2>1. record' \in {RecordConfirmed(record)} \cup {RecordProbeResult(record, v) : v \in {EvaluateProbe(reachableAt')}}
        /\ nvs' = record' /\ pc' = "manifest" /\ UNCHANGED <<flashVars, running, proof>>
    BY <1>10 DEF RollbackImpossible, ProbeVerdict, Save
  <2>2. record'.phase = "Idle"
    <3>1. CASE RollbackImpossible
      BY <1>0, <3>1, ConfirmedType DEF RollbackImpossible
    <3>2. CASE ProbeVerdict
      <4>1. record.target # NoManifest
        BY <3>2 DEF ProbeVerdict, Safe, Coherent, ProvingInv
      <4>. QED
        BY <1>0, <3>2, <4>1, ProbeResultType DEF ProbeVerdict
    <3>. QED
      BY <1>10, <3>1, <3>2
  <2>. QED
    BY <2>1, <2>2 DEF Consistent, SavedInv, InstallInv, TrialInv, RecordOnTrial
<1>11. CASE ValidateWait \/ ProbeWait \/ TickSettled \/ ManifestDeferred \/ ManifestIgnored \/ DownloadBroken
            \/ UptimePasses \/ ServerAnswers \/ \E m \in Messages : ManifestArrives(m)
  BY <1>11, ConsistentQuiet DEF ValidateWait, ProbeWait, TickSettled, ManifestDeferred, ManifestIgnored,
     DownloadBroken, UptimePasses, ServerAnswers, ManifestArrives, ValidationTick
<1>12. CASE DownloadStart
  <2>1. /\ pc = "manifest" /\ pc' = "download" /\ current' = Effective /\ Decision = "Install"
        /\ UNCHANGED <<flashVars, nvs, running, record, proof>>
    BY <1>12 DEF DownloadStart
  <2>2. Effective.version # image[running] /\ (record.target = Effective => record.attempts < MaxAttempts)
    BY <1>0, <2>1 DEF Decision, DecideManifest, Records
  <2>3. InstallInv'
    BY <2>1, <2>2 DEF InstallInv
  <2>4. SavedInv' /\ TrialInv'
    BY <2>1 DEF Consistent, SavedInv, TrialInv, RecordOnTrial, Bootable, Other
  <2>. QED
    BY <2>3, <2>4 DEF Consistent
<1>13. CASE DownloadErase
  <2>1. /\ pc = "download" /\ pc' = "downloading" /\ UNCHANGED <<imgState, bootSlot, nvs, ramVars, proof>>
        /\ image' = [image EXCEPT ![Other(running)] = NoImage]
    BY <1>13 DEF DownloadErase
  <2>2. bootSlot = running /\ record = nvs /\ nvs.phase = "Idle"
    BY <2>1 DEF Consistent, SavedInv, Safe, Coherent, SlotsInv, DownloadingInv, Installing
  <2>3. image'[running] = image[running]
    BY <1>0, <2>1 DEF Slots, Other
  <2>. QED
    BY <2>1, <2>2, <2>3 DEF Consistent, SavedInv, InstallInv, TrialInv, RecordOnTrial
<1>14. CASE DownloadWrong
  <2>1. /\ pc' = "wait" /\ nvs' = record' /\ record' = MarkBad(record, current) /\ UNCHANGED <<flashVars, running, proof>>
        /\ pc \in {"download", "downloading"}
    BY <1>14 DEF DownloadWrong, Save
  <2>2. record'.phase = "Idle"
    BY <1>0, <2>1, MarkBadType DEF Safe, TypeOK, Coherent, DownloadingInv
  <2>. QED
    BY <2>1, <2>2 DEF Consistent, SavedInv, InstallInv, TrialInv, RecordOnTrial
<1>15. CASE DownloadDone
  <2>1. /\ pc = "downloading" /\ pc' = "record" /\ UNCHANGED <<nvs, ramVars>> /\ bootSlot' = Other(running)
        /\ image' = [image EXCEPT ![Other(running)] = current.version]
        /\ proof' = [proof EXCEPT ![Other(running)] = "unproven"]
    BY <1>15 DEF DownloadDone
  <2>2. record = nvs /\ nvs.phase = "Idle"
    BY <2>1 DEF Consistent, SavedInv, Safe, Coherent, DownloadingInv
  <2>3. image'[running] = image[running] /\ proof'[bootSlot'] = "unproven"
    BY <1>0, <2>1 DEF Slots, Other
  <2>. QED
    BY <2>1, <2>2, <2>3 DEF Consistent, SavedInv, InstallInv, TrialInv, RecordOnTrial
<1>16. CASE InstallRecord
  <2>1. /\ pc = "record" /\ pc' = "restart" /\ nvs' = record' /\ record' = RecordInstalled(record, current)
        /\ UNCHANGED <<flashVars, running, proof>>
    BY <1>16 DEF InstallRecord, Save
  <2>2. current \in Published
    BY <2>1 DEF Safe, TypeOK, Coherent, DownloadingInv
  <2>3. nvs'.target = current /\ image[bootSlot] = current.version /\ current.version # image[running]
        /\ bootSlot = Other(running) /\ imgState[bootSlot] = "new" /\ proof[bootSlot] = "unproven"
    BY <1>0, <2>1, <2>2, InstalledType
       DEF Consistent, InstallInv, Safe, Coherent, SlotsInv, DownloadingInv, Installing
  <2>4. Bootable(Other(bootSlot)) /\ Other(bootSlot) = running
    BY <1>0, <2>3 DEF Safe, Coherent, AlwaysBootable, OnTrial, Other, Slots
  <2>. QED
    BY <2>1, <2>3, <2>4 DEF Consistent, SavedInv, InstallInv, TrialInv, RecordOnTrial, Bootable, Other
<1>17. CASE UNCHANGED vars
  BY <1>17, ConsistentQuiet DEF vars
<1>. QED
  BY <1>1, <1>2, <1>3, <1>4, <1>5, <1>6, <1>7, <1>8, <1>9, <1>10, <1>11, <1>12, <1>13, <1>14, <1>15, <1>16, <1>17
     DEF Next, Boot, Prove, Install, Environment

-----------------------------------------------------------------------------
(* Attempts, with a reliable NVS and the factory image listed              *)

\* recordRollback condemns nothing and keeps the count.
LEMMA RollbackKeeps ==
  ASSUME NEW r \in Records, NEW verdict \in {"RollbackSelfTest", "RollbackNoConnectivity"}
  PROVE  /\ RecordRollback(r, verdict).attempts = r.attempts
         /\ Condemned(RecordRollback(r, verdict)) = Condemned(r)
<1>1. CASE verdict = "RollbackSelfTest"
  BY <1>1 DEF RecordRollback, Records, Condemned
<1>2. CASE verdict = "RollbackNoConnectivity"
  BY <1>2 DEF RecordRollback, Records, Condemned
<1>. QED
  BY <1>1, <1>2

\* recordConfirmed condemns nothing and forgets the attempts.
LEMMA ConfirmedForgets ==
  ASSUME NEW r \in Records
  PROVE  /\ RecordConfirmed(r).attempts = 0
         /\ Condemned(RecordConfirmed(r)) = Condemned(r)
  BY DEF RecordConfirmed, Records, Condemned

\* recordInstalled condemns nothing and counts the install of the same request.
LEMMA InstalledCounts ==
  ASSUME NEW r \in Records, NEW m \in Published
  PROVE  /\ RecordInstalled(r, m).attempts = IF r.target = m THEN r.attempts + 1 ELSE 1
         /\ Condemned(RecordInstalled(r, m)) = Condemned(r)
<1>. DEFINE n == IF r.target = m THEN r.attempts + 1 ELSE 1
<1>1. RecordInstalled(r, m) =
        [r EXCEPT !.phase = "Installed", !.target = m, !.lastFailure = "none", !.attempts = n]
  BY DEF RecordInstalled
<1>2. RecordInstalled(r, m).attempts = n
  <2>. HIDE DEF n
  <2>. QED
    BY <1>1 DEF Records
<1>3. RecordInstalled(r, m).bad = r.bad
  <2>. HIDE DEF n
  <2>. QED
    BY <1>1 DEF Records
<1>. QED
  BY <1>2, <1>3 DEF Condemned

\* A trial that has to be given up always has an image to go back to.
LEMMA AlwaysFallsBack ==
  ASSUME Safe, Consistent, ListedInv, pc = "rollback"
  PROVE  RollbackPossible
<1>1. bootSlot = running /\ record = nvs /\ nvs.phase # "Idle" /\ nvs.target.version = image[running]
  BY DEF Safe, Coherent, SlotsInv, Installing, ProvingInv, SituationMatchesImage, Consistent, SavedInv
<1>2. Bootable(Other(running))
  BY <1>1 DEF Consistent, TrialInv, RecordOnTrial
<1>3. Other(running) \in Slots
  BY DEF Safe, TypeOK, Slots, Other
<1>. QED
  BY <1>2, <1>3 DEF ListedInv, Bootable, Trustable, RollbackPossible

\* No request has been tried yet.
LEMMA CountInit == FactoryListed /\ Init => ListedInv /\ CountInv
  BY DEF Init, ListedInv, CountInv, EmptyRecord, Slots

\* Only the erasure of a slot, which empties it, goes without an entry in otadata.
LEMMA ListedNext ==
  ASSUME Safe, ListedInv, [Next]_vars
  PROVE  ListedInv'
<1>. USE DEF flashVars, ramVars, historyVars
<1>0. running \in Slots /\ bootSlot \in Slots
      /\ imgState \in [Slots -> ImageStates] /\ image \in [Slots -> Versions \cup {NoImage}]
  BY DEF Safe, TypeOK
<1>1. CASE PowerOn \/ Begin \/ ConfirmMark \/ RollbackReboot
  <2>1. image' = image
        /\ \E s \in Slots : \E v \in {"aborted", "pending", "valid", "invalid", imgState[s]} : imgState' = [imgState EXCEPT ![s] = v]
    <3>1. CASE PowerOn
      BY <1>0, <3>1 DEF PowerOn
    <3>2. CASE Begin
      BY <1>0, <3>2 DEF Begin
    <3>3. CASE ConfirmMark
      BY <1>0, <3>3 DEF ConfirmMark
    <3>4. CASE RollbackReboot
      BY <1>0, <3>4 DEF RollbackReboot
    <3>. QED
      BY <1>1, <3>1, <3>2, <3>3, <3>4
  <2>. QED
    BY <1>0, <2>1 DEF ListedInv
<1>2. CASE DownloadErase
  BY <1>0, <1>2 DEF DownloadErase, ListedInv
<1>3. CASE DownloadDone
  BY <1>0, <1>3 DEF DownloadDone, ListedInv
<1>4. CASE UNCHANGED <<image, imgState>>
  BY <1>4 DEF ListedInv
<1>. QED
  BY <1>1, <1>2, <1>3, <1>4
     DEF Next, Boot, Prove, Install, Environment, vars, Crash, BeginSave, ValidateWait, ConfirmSave, RollbackRecord,
         RollbackImpossible, ProbeWait, ProbeVerdict, TickSettled, ManifestDeferred, ManifestIgnored, DownloadStart,
         DownloadBroken, DownloadWrong, InstallRecord, Restart, UptimePasses, ServerAnswers, ManifestArrives

\* The attempts in NVS follow the installs of the request, one for one.
LEMMA CountNext ==
  ASSUME Safe, Consistent, ListedInv, CountInv, ~NvsCanFail, [Next]_vars
  PROVE  CountInv'
<1>. USE DEF flashVars, ramVars, historyVars
<1>0. nvs \in Records /\ record \in Records
      /\ trials \in [of : Published \cup {NoManifest}, count : 0 .. MaxAttempts + 1]
  BY DEF Safe, TypeOK
<1>1. CASE BeginSave
  <2>1. nvs' = BootRecord(nvs, image[running]) /\ trials' = trials
    BY <1>1 DEF BeginSave, Save, Consistent, SavedInv
  <2>2. nvs'.attempts = nvs.attempts /\ nvs'.target = nvs.target /\ (nvs'.phase # "Idle" => nvs.phase # "Idle")
    BY <1>0, <2>1, BootCondemns, BootType
  <2>. QED
    BY <2>1, <2>2 DEF CountInv
<1>2. CASE ConfirmSave
  <2>1. nvs' = RecordConfirmed(nvs) /\ trials' = [of |-> NoManifest, count |-> 0]
    BY <1>2 DEF ConfirmSave, Save, Consistent, SavedInv
  <2>. QED
    BY <1>0, <2>1, ConfirmedForgets, ConfirmedType DEF CountInv
<1>3. CASE RollbackRecord
  <2>1. PICK verdict \in {"RollbackSelfTest", "RollbackNoConnectivity"} :
          record' = RecordRollback(record, verdict) /\ ValidationTick(verdict)
    BY <1>3 DEF RollbackRecord
  <2>2. nvs' = record' /\ trials' = trials
    BY <1>3 DEF RollbackRecord, Save
  <2>3. record = nvs /\ nvs.phase # "Idle" /\ record.target # NoManifest
    BY <2>1 DEF ValidationTick, Consistent, SavedInv, Safe, Coherent, ProvingInv
  <2>4. nvs'.attempts = nvs.attempts /\ nvs'.target = nvs.target
    BY <1>0, <2>1, <2>2, <2>3, RollbackType, RollbackKeeps
  <2>. QED
    BY <2>2, <2>3, <2>4 DEF CountInv
<1>4. CASE RollbackImpossible
  BY <1>4, AlwaysFallsBack DEF RollbackImpossible
<1>5. CASE ProbeVerdict
  <2>1. record.target # NoManifest /\ record = nvs
    BY <1>5 DEF ProbeVerdict, Safe, Coherent, ProvingInv, Consistent, SavedInv
  <2>2. nvs' = RecordProbeResult(nvs, EvaluateProbe(reachableAt')) /\ trials' = trials
    BY <1>5, <2>1 DEF ProbeVerdict, Save
  <2>3. nvs'.attempts = nvs.attempts /\ nvs'.target = nvs.target /\ nvs'.phase = "Idle"
    BY <1>0, <2>1, <2>2, ProbeResultType, ProbeResultCondemns
  <2>. QED
    BY <2>2, <2>3 DEF CountInv
<1>6. CASE DownloadWrong
  <2>1. record = nvs /\ current \in Published
    BY <1>6 DEF DownloadWrong, Safe, TypeOK, Coherent, DownloadingInv, Consistent, SavedInv
  <2>2. nvs' = MarkBad(nvs, current) /\ trials' = trials
    BY <1>6, <2>1 DEF DownloadWrong, Save
  <2>3. nvs'.attempts = nvs.attempts /\ nvs'.target = nvs.target /\ nvs'.phase = nvs.phase
    BY <1>0, <2>1, <2>2, MarkBadType
  <2>. QED
    BY <2>2, <2>3 DEF CountInv
<1>7. CASE InstallRecord
  <2>1. pc = "record" /\ record = nvs /\ current \in Published /\ (nvs.target = current => nvs.attempts < MaxAttempts)
    BY <1>7 DEF InstallRecord, Safe, TypeOK, Coherent, DownloadingInv, Consistent, SavedInv, InstallInv
  <2>2. nvs' = RecordInstalled(nvs, current)
    BY <1>7, <2>1 DEF InstallRecord, Save
  <2>3. nvs'.target = current /\ nvs'.attempts = IF nvs.target = current THEN nvs.attempts + 1 ELSE 1
    BY <1>0, <2>1, <2>2, InstalledType, InstalledCounts
  <2>4. trials'.of = current
        /\ trials'.count = IF trials.of # current THEN 1
                           ELSE IF trials.count > MaxAttempts THEN trials.count ELSE trials.count + 1
    BY <1>7 DEF InstallRecord
  <2>5. nvs.attempts \in Nat /\ nvs.attempts <= MaxAttempts /\ trials.count \in Nat
    BY <1>0 DEF CountInv, Records
  <2>6. CASE trials.of = NoManifest
    BY <2>1, <2>3, <2>4, <2>5, <2>6 DEF CountInv
  <2>7. CASE trials.of # NoManifest
    BY <2>1, <2>3, <2>4, <2>5, <2>7 DEF CountInv
  <2>. QED
    BY <2>6, <2>7
<1>8. CASE UNCHANGED <<nvs, trials>>
  BY <1>8 DEF CountInv
<1>. QED
  BY <1>1, <1>2, <1>3, <1>4, <1>5, <1>6, <1>7, <1>8
     DEF Next, Boot, Prove, Install, Environment, vars, PowerOn, Begin, Crash, ValidateWait, ConfirmMark,
         RollbackReboot, ProbeWait, TickSettled, ManifestDeferred, ManifestIgnored, DownloadStart, DownloadErase,
         DownloadBroken, DownloadDone, Restart, UptimePasses, ServerAnswers, ManifestArrives

\* The inductive invariant of trials.
LEMMA TrialedInvariant ==
  ASSUME FactoryListed, ~NvsCanFail
  PROVE  Spec => []Trialed
<1>1. Init => Trialed
  BY SafeInit, ConsistentInit, CountInit DEF Trialed
<1>2. Trialed /\ [Next]_vars => Trialed'
  BY SafeNext, ConsistentNext, ListedNext, CountNext DEF Trialed
<1>. QED
  BY <1>1, <1>2, PTL DEF Spec

\* No request is installed more than MaxAttempts times before it is confirmed, whatever
\* crashes come between (OtaPolicy.cpp:8-28), as long as saves succeed and the image
\* flashed by cable can be rolled back to.
THEOREM BoundedTrialsHolds ==
  ASSUME FactoryListed, ~NvsCanFail
  PROVE  Spec => []BoundedTrials
<1>1. Trialed => BoundedTrials
  BY DEF Trialed, Safe, TypeOK, CountInv, BoundedTrials
<1>. QED
  BY <1>1, TrialedInvariant, PTL

\* The step that condemns a release has a cause to.
LEMMA CauseStep ==
  ASSUME Trialed, ~NvsCanFail, [Next]_vars,
         NEW m \in Condemned(nvs') \ Condemned(nvs)
  PROVE  /\ m.version # image[running]
         /\ pc \in {"beginSave", "wait"} =>
              /\ trials.of = m
              /\ trials.count = MaxAttempts \/ reachableAt' \in 1 .. DeadlineAt
<1>. USE DEF flashVars, ramVars, historyVars, Trialed
<1>0. nvs \in Records /\ record \in Records
      /\ trials \in [of : Published \cup {NoManifest}, count : 0 .. MaxAttempts + 1]
  BY DEF Safe, TypeOK
<1>1. CASE BeginSave
  <2>1. nvs' = BootRecord(nvs, image[running])
    BY <1>1 DEF BeginSave, Save, Consistent, SavedInv
  <2>2. m = nvs.target /\ nvs.phase # "Idle" /\ m.version # image[running] /\ nvs.attempts >= MaxAttempts
    BY <1>0, <2>1, BootCondemns
  <2>3. nvs.attempts \in Nat
    BY <1>0 DEF Records
  <2>. QED
    BY <2>2, <2>3 DEF CountInv
<1>2. CASE ConfirmSave
  <2>1. nvs' = RecordConfirmed(nvs)
    BY <1>2 DEF ConfirmSave, Save, Consistent, SavedInv
  <2>. QED
    BY <1>0, <2>1, ConfirmedForgets
<1>3. CASE RollbackRecord
  <2>1. PICK verdict \in {"RollbackSelfTest", "RollbackNoConnectivity"} :
          record' = RecordRollback(record, verdict) /\ ValidationTick(verdict)
    BY <1>3 DEF RollbackRecord
  <2>2. nvs' = record'
    BY <1>3 DEF RollbackRecord, Save
  <2>3. record = nvs
    BY <2>1 DEF ValidationTick, Consistent, SavedInv
  <2>. QED
    BY <1>0, <2>1, <2>2, <2>3, RollbackKeeps
<1>4. CASE RollbackImpossible
  BY <1>4, AlwaysFallsBack DEF RollbackImpossible
<1>5. CASE ProbeVerdict
  <2>1. pc = "wait" /\ record.target # NoManifest /\ record = nvs /\ nvs.phase # "Idle" /\ image[running] # nvs.target.version
    BY <1>5 DEF ProbeVerdict, Safe, Coherent, ProvingInv, SituationMatchesImage, Consistent, SavedInv
  <2>2. nvs' = RecordProbeResult(nvs, EvaluateProbe(reachableAt'))
    BY <1>5, <2>1 DEF ProbeVerdict, Save
  <2>3. m = nvs.target /\ (EvaluateProbe(reachableAt') = "NewVersionGuilty" \/ ~(nvs.attempts < MaxAttempts))
    BY <1>0, <2>1, <2>2, ProbeResultCondemns
  <2>4. nvs.attempts \in Nat
    BY <1>0 DEF Records
  <2>5. trials.of = m /\ trials.count = nvs.attempts /\ trials.count <= MaxAttempts
    BY <1>0, <2>1, <2>3, <2>4 DEF CountInv
  <2>6. EvaluateProbe(reachableAt') = "NewVersionGuilty" => reachableAt' \in 1 .. DeadlineAt
    <3>1. CASE reachableAt' = 0
      BY <3>1 DEF EvaluateProbe
    <3>2. CASE reachableAt' # 0 /\ reachableAt' \notin 1 .. DeadlineAt
      BY <3>2 DEF EvaluateProbe
    <3>. QED
      BY <3>1, <3>2
  <2>. QED
    BY <2>1, <2>3, <2>4, <2>5, <2>6
<1>6. CASE DownloadWrong
  <2>1. record = nvs /\ current \in Published /\ current.version # image[running] /\ pc \in {"download", "downloading"}
    BY <1>6 DEF DownloadWrong, Safe, TypeOK, Coherent, DownloadingInv, Consistent, SavedInv, InstallInv
  <2>2. nvs' = MarkBad(nvs, current)
    BY <1>6, <2>1 DEF DownloadWrong, Save
  <2>3. m = current
    BY <1>0, <2>1, <2>2, MarkBadCondemns
  <2>. QED
    BY <2>1, <2>3
<1>7. CASE InstallRecord
  <2>1. record = nvs /\ current \in Published
    BY <1>7 DEF InstallRecord, Safe, TypeOK, Coherent, DownloadingInv, Consistent, SavedInv
  <2>2. nvs' = RecordInstalled(nvs, current)
    BY <1>7, <2>1 DEF InstallRecord, Save
  <2>. QED
    BY <1>0, <2>1, <2>2, InstalledCounts
<1>8. CASE UNCHANGED nvs
  BY <1>8
<1>. QED
  BY <1>1, <1>2, <1>3, <1>4, <1>5, <1>6, <1>7, <1>8
     DEF Next, Boot, Prove, Install, Environment, vars, PowerOn, Begin, Crash, ValidateWait, ConfirmMark,
         RollbackReboot, ProbeWait, TickSettled, ManifestDeferred, ManifestIgnored, DownloadStart, DownloadErase,
         DownloadBroken, DownloadDone, Restart, UptimePasses, ServerAnswers, ManifestArrives

\* A release is condemned only by another one, and for its own doing: its download was
\* wrong, its attempts are used up, or the network it missed was there
\* (OtaPolicy.cpp:36-66, :107-119, OtaController.cpp:389-397).
THEOREM CondemnedForCauseHolds ==
  ASSUME FactoryListed, ~NvsCanFail
  PROVE  Spec => CondemnedForCause
<1>. DEFINE Cause == \A m \in Condemned(nvs') \ Condemned(nvs) :
                       /\ m.version # image[running]
                       /\ pc \in {"beginSave", "wait"} =>
                            /\ trials.of = m
                            /\ trials.count = MaxAttempts \/ reachableAt' \in 1 .. DeadlineAt
<1>1. Trialed /\ [Next]_vars => [Cause]_vars
  BY CauseStep
<1>2. CondemnedForCause <=> [][Cause]_vars
  BY DEF CondemnedForCause
<1>. HIDE DEF Cause
<1>. QED
  BY <1>1, <1>2, TrialedInvariant, PTL DEF Spec

-----------------------------------------------------------------------------
(* The refinement of FirmwareTrial                                         *)

\* Every step leaves at most the image just selected without a record, until its save.
LEMMA RecordedNext ==
  ASSUME Safe, InstallsRecorded, ~NvsCanFail, ~CrashBeforeRecord, [Next]_vars
  PROVE  InstallsRecorded'
<1>. USE DEF flashVars, ramVars, historyVars
<1>0. running \in Slots /\ bootSlot \in Slots /\ recorded \in [Slots -> BOOLEAN]
  BY DEF Safe, TypeOK
<1>1. CASE DownloadDone
  <2>1. /\ recorded' = [recorded EXCEPT ![Other(running)] = FALSE] /\ bootSlot' = Other(running)
        /\ pc = "downloading" /\ pc' = "record"
    BY <1>1 DEF DownloadDone
  <2>. QED
    BY <1>0, <2>1 DEF InstallsRecorded
<1>2. CASE InstallRecord
  <2>1. /\ recorded' = [recorded EXCEPT ![Other(running)] = TRUE] /\ bootSlot' = bootSlot
        /\ bootSlot = Other(running)
    BY <1>2 DEF InstallRecord, Save, Safe, Coherent, SlotsInv, Installing
  <2>. QED
    BY <1>0, <2>1 DEF InstallsRecorded
<1>3. CASE recorded' = recorded /\ pc # "record"
  BY <1>3 DEF InstallsRecorded
<1>4. CASE recorded' = recorded /\ pc' = pc /\ bootSlot' = bootSlot
  BY <1>4 DEF InstallsRecorded
<1>5. CASE UptimePasses \/ ServerAnswers \/ (\E m \in Messages : ManifestArrives(m)) \/ UNCHANGED vars
  BY <1>4, <1>5 DEF UptimePasses, ServerAnswers, ManifestArrives, vars
<1>6. CASE PowerOn \/ Begin \/ BeginSave \/ Prove
  BY <1>3, <1>6 DEF PowerOn, Begin, BeginSave, Prove, ValidateWait, ConfirmMark, ConfirmSave, RollbackRecord,
     RollbackReboot, RollbackImpossible, ProbeWait, ProbeVerdict, TickSettled, ValidationTick
<1>7. CASE Crash
  BY <1>3, <1>7 DEF Crash
<1>8. CASE Install
  BY <1>1, <1>2, <1>3, <1>8 DEF Install, ManifestDeferred, ManifestIgnored, DownloadStart, DownloadErase, DownloadBroken,
     DownloadWrong, Restart
<1>. QED
  BY <1>5, <1>6, <1>7, <1>8 DEF Next, Boot, Environment

\* The device starts on the firmware flashed by cable, with nothing on trial.
LEMMA TrialInit == Init => Trial!Init
  BY DEF Init, Trial!Init, FallbackImage, TrialProven, ImageOnTrial, EmptyRecord, OnTrial, Slots

\* What is selected, and whether it is on trial, is in flash and NVS alone.
LEMMA TrialStutters ==
  ASSUME UNCHANGED <<image, bootSlot, proof>>, ImageOnTrial' <=> ImageOnTrial
  PROVE  UNCHANGED Trial!vars
  BY DEF Trial!vars, FallbackImage, TrialProven, Other

\* Every step of the controller is a step of the trial, or none.
LEMMA TrialSteps ==
  ASSUME Refining, ~NvsCanFail, [Next]_vars
  PROVE  [Trial!Next]_(Trial!vars)
<1>. USE DEF flashVars, ramVars, historyVars, Refining
<1>0. nvs \in Records /\ record \in Records /\ running \in Slots /\ bootSlot \in Slots
      /\ imgState \in [Slots -> ImageStates] /\ image \in [Slots -> Versions \cup {NoImage}]
      /\ proof \in [Slots -> {"factory", "unproven", "proven"}]
      /\ image[bootSlot] # NoImage
  BY DEF Safe, TypeOK, Coherent, AlwaysBootable
<1>1. CASE PowerOn
  <2>1. UNCHANGED <<image, nvs, proof>>
    BY <1>1 DEF PowerOn
  <2>2. CASE imgState[bootSlot] = "pending"
    <3>1. imgState' = [imgState EXCEPT ![bootSlot] = "aborted"] /\ bootSlot' = Other(bootSlot)
      BY <1>1, <2>2 DEF PowerOn
    <3>2. ImageOnTrial /\ image[Other(bootSlot)] # NoImage
      BY <2>2 DEF ImageOnTrial, OnTrial, Safe, Coherent, AlwaysBootable, Bootable
    <3>3. imgState'[bootSlot'] = imgState[Other(bootSlot)] /\ imgState[Other(bootSlot)] \notin OnTrial
      BY <1>0, <3>1 DEF Slots, Other, Safe, Coherent, SlotsInv
    <3>4. ~(nvs'.phase # "Idle" /\ nvs'.target.version = image'[bootSlot'])
      BY <1>0, <2>1, <2>2, <3>1 DEF Consistent, TrialInv, RecordOnTrial, OnTrial
    <3>5. ~ImageOnTrial'
      BY <3>3, <3>4 DEF ImageOnTrial
    <3>6. Trial!GiveUp
      BY <2>1, <3>1, <3>2, <3>5 DEF Trial!GiveUp, Trial!OnTrial, FallbackImage, TrialProven
    <3>. QED
      BY <3>6 DEF Trial!Next
  <2>3. CASE imgState[bootSlot] # "pending"
    <3>1. imgState' = [imgState EXCEPT ![bootSlot] = IF @ = "new" THEN "pending" ELSE @] /\ bootSlot' = bootSlot
      BY <1>1, <2>3 DEF PowerOn
    <3>2. ImageOnTrial' <=> ImageOnTrial
      BY <1>0, <2>1, <2>3, <3>1 DEF ImageOnTrial, OnTrial
    <3>. QED
      BY <2>1, <3>1, <3>2, TrialStutters
  <2>. QED
    BY <2>2, <2>3
<1>2. CASE Begin
  <2>1. Loaded = nvs
    BY <1>0 DEF Loaded, Decoded, Records
  <2>2. /\ pc = "begin" /\ UNCHANGED <<image, bootSlot, nvs, running, proof>>
        /\ imgState' = IF imgState[running] = "pending" /\ BootSituation(nvs, image[running]) = "Normal"
                       THEN [imgState EXCEPT ![running] = "valid"] ELSE imgState
    BY <1>2, <2>1 DEF Begin
  <2>3. bootSlot = running /\ recorded[bootSlot]
    BY <1>0, <2>2 DEF Safe, Coherent, SlotsInv, Installing, InstallsRecorded
  <2>4. imgState[running] = "pending" => nvs.phase # "Idle"
    BY <2>2, <2>3 DEF Safe, Coherent, AnnouncedInv
  <2>5. imgState' = imgState
    BY <1>0, <2>2, <2>4, BootType
  <2>. QED
    BY <2>2, <2>5, TrialStutters DEF ImageOnTrial
<1>3. CASE BeginSave
  <2>1. nvs' = record /\ UNCHANGED <<flashVars, proof>>
    BY <1>3 DEF BeginSave, Save
  <2>2. record = BootRecord(nvs, image[running]) /\ bootSlot = running
    BY <1>3 DEF BeginSave, Consistent, SavedInv, Safe, Coherent, SlotsInv, Installing
  <2>3. /\ record.phase # "Idle" => nvs.phase # "Idle"
        /\ nvs.phase # "Idle" /\ nvs.target.version = image[running] => record.phase # "Idle"
        /\ record.target = nvs.target
    BY <1>0, <2>2, BootCondemns, BootType
  <2>4. ImageOnTrial' <=> ImageOnTrial
    BY <2>1, <2>2, <2>3 DEF ImageOnTrial
  <2>. QED
    BY <2>1, <2>4, TrialStutters
<1>4. CASE ConfirmMark
  <2>1. /\ pc = "wait" /\ situation = "Validating" /\ UNCHANGED <<image, bootSlot, nvs>>
        /\ imgState' = [imgState EXCEPT ![running] = "valid"] /\ proof' = [proof EXCEPT ![running] = "proven"]
    BY <1>4 DEF ConfirmMark, ValidationTick
  <2>2. record = nvs /\ bootSlot = running /\ RecordOnTrial
    BY <2>1 DEF Consistent, SavedInv, Safe, Coherent, ProvingInv, SituationMatchesImage, SlotsInv, Installing, RecordOnTrial
  <2>3. ImageOnTrial /\ ImageOnTrial' /\ image[Other(bootSlot)] # NoImage
    BY <2>1, <2>2 DEF ImageOnTrial, RecordOnTrial, Consistent, TrialInv, Bootable
  <2>4. Trial!Prove
    BY <1>0, <2>1, <2>2, <2>3 DEF Trial!Prove, Trial!OnTrial, FallbackImage, TrialProven, Other
  <2>. QED
    BY <2>4 DEF Trial!Next
<1>5. CASE ConfirmSave
  <2>1. pc = "confirmSave" /\ nvs' = record /\ UNCHANGED <<flashVars, proof>>
    BY <1>5 DEF ConfirmSave, Save
  <2>2. nvs.phase # "Idle" /\ record = RecordConfirmed(nvs) /\ bootSlot = running
        /\ image[running] = record.target.version /\ imgState[running] = "valid" /\ proof[running] = "proven"
    BY <2>1 DEF Consistent, SavedInv, Safe, Coherent, ProvingInv, SituationMatchesImage, SlotsInv, Installing, PendingInv,
       AnnouncedInv
  <2>3. record.target = nvs.target /\ record.phase = "Idle"
    BY <1>0, <2>2, ConfirmedType
  <2>4. RecordOnTrial
    BY <2>2, <2>3 DEF RecordOnTrial
  <2>5. ImageOnTrial /\ image[Other(bootSlot)] # NoImage /\ ~ImageOnTrial'
    BY <2>1, <2>2, <2>3, <2>4 DEF ImageOnTrial, RecordOnTrial, Consistent, TrialInv, Bootable, OnTrial
  <2>6. Trial!Keep
    BY <2>1, <2>2, <2>5 DEF Trial!Keep, Trial!OnTrial, FallbackImage, TrialProven
  <2>. QED
    BY <2>6 DEF Trial!Next
<1>6. CASE RollbackRecord
  <2>1. PICK verdict \in {"RollbackSelfTest", "RollbackNoConnectivity"} :
          record' = RecordRollback(record, verdict) /\ ValidationTick(verdict)
    BY <1>6 DEF RollbackRecord
  <2>2. nvs' = record' /\ UNCHANGED <<flashVars, proof>>
    BY <1>6 DEF RollbackRecord, Save
  <2>3. record = nvs /\ nvs.phase # "Idle" /\ record.target # NoManifest
    BY <2>1 DEF ValidationTick, Consistent, SavedInv, Safe, Coherent, ProvingInv
  <2>4. nvs'.phase # "Idle" /\ nvs'.target = nvs.target
    BY <1>0, <2>1, <2>2, <2>3, RollbackType
  <2>5. ImageOnTrial' <=> ImageOnTrial
    BY <2>2, <2>3, <2>4 DEF ImageOnTrial
  <2>. QED
    BY <2>2, <2>5, TrialStutters
<1>7. CASE RollbackReboot
  <2>1. /\ pc = "rollback" /\ UNCHANGED <<image, nvs, proof>>
        /\ imgState' = [imgState EXCEPT ![running] = "invalid"] /\ bootSlot' = Other(running)
    BY <1>7 DEF RollbackReboot
  <2>2. bootSlot = running /\ RecordOnTrial
    BY <2>1 DEF Consistent, SavedInv, Safe, Coherent, ProvingInv, SlotsInv, Installing, SituationMatchesImage, RecordOnTrial
  <2>3. ImageOnTrial /\ image[Other(bootSlot)] # NoImage /\ image[Other(bootSlot)] # image[bootSlot]
    BY <2>2 DEF ImageOnTrial, RecordOnTrial, Consistent, TrialInv, Bootable
  <2>4. imgState'[bootSlot'] \notin OnTrial
    BY <1>0, <2>1, <2>2 DEF Safe, Coherent, SlotsInv, Slots, Other
  <2>5. ~ImageOnTrial'
    BY <2>1, <2>2, <2>3, <2>4 DEF ImageOnTrial, RecordOnTrial
  <2>6. Trial!GiveUp
    BY <2>1, <2>2, <2>3, <2>5 DEF Trial!GiveUp, Trial!OnTrial, FallbackImage, TrialProven
  <2>. QED
    BY <2>6 DEF Trial!Next
<1>8. CASE RollbackImpossible
  <2>1. /\ pc = "rollback" /\ nvs' = record' /\ record' = RecordConfirmed(record) /\ UNCHANGED <<flashVars, proof>>
    BY <1>8 DEF RollbackImpossible, Save
  <2>2. bootSlot = running /\ RecordOnTrial /\ recorded[bootSlot]
    BY <1>0, <2>1 DEF Consistent, SavedInv, Safe, Coherent, ProvingInv, SlotsInv, Installing, SituationMatchesImage,
       RecordOnTrial, InstallsRecorded
  <2>3. nvs'.phase = "Idle"
    BY <1>0, <2>1, ConfirmedType
  <2>4. ImageOnTrial /\ image[Other(bootSlot)] # NoImage
        /\ imgState[bootSlot] # "undefined" /\ proof[bootSlot] # "factory"
    BY <2>2 DEF ImageOnTrial, RecordOnTrial, Consistent, TrialInv, Bootable
  <2>5. CASE imgState[bootSlot] \in OnTrial
    BY <2>1, <2>5, TrialStutters DEF ImageOnTrial
  <2>6. CASE imgState[bootSlot] \notin OnTrial
    <3>1. imgState[bootSlot] = "valid"
      BY <2>4, <2>6 DEF Safe, Coherent, SlotsInv, Trustable
    <3>2. proof[bootSlot] = "proven"
      BY <1>0, <2>2, <2>4, <3>1 DEF Safe, Coherent, OnlyProvenKept
    <3>3. ~ImageOnTrial'
      BY <2>1, <2>3, <2>6 DEF ImageOnTrial
    <3>4. Trial!Keep
      BY <2>1, <2>4, <3>2, <3>3 DEF Trial!Keep, Trial!OnTrial, FallbackImage, TrialProven
    <3>. QED
      BY <3>4 DEF Trial!Next
  <2>. QED
    BY <2>5, <2>6
<1>9. CASE ProbeVerdict
  <2>1. pc = "wait" /\ situation = "Probing" /\ UNCHANGED <<flashVars, proof>>
        /\ nvs' = RecordProbeResult(record, EvaluateProbe(reachableAt'))
    BY <1>9 DEF ProbeVerdict, Save
  <2>2. record = nvs /\ bootSlot = running /\ image[running] # record.target.version /\ record.target # NoManifest
    BY <2>1 DEF Consistent, SavedInv, Safe, Coherent, ProvingInv, SituationMatchesImage, SlotsInv, Installing
  <2>3. nvs'.phase = "Idle"
    BY <1>0, <2>1, <2>2, ProbeResultType
  <2>4. ImageOnTrial' <=> ImageOnTrial
    BY <2>1, <2>2, <2>3 DEF ImageOnTrial
  <2>. QED
    BY <2>1, <2>4, TrialStutters
<1>10. pc \in {"download", "downloading"} => bootSlot = running /\ nvs.phase = "Idle" /\ record = nvs /\ ~ImageOnTrial
  <2>. SUFFICES ASSUME pc \in {"download", "downloading"}
                PROVE  bootSlot = running /\ nvs.phase = "Idle" /\ record = nvs /\ ~ImageOnTrial
    OBVIOUS
  <2>1. bootSlot = running /\ nvs.phase = "Idle" /\ record = nvs /\ ~pendingVerify
    BY DEF Consistent, SavedInv, Safe, Coherent, DownloadingInv, SlotsInv, Installing
  <2>2. imgState[running] # "new" /\ imgState[running] # "pending"
    BY <2>1 DEF Safe, Coherent, SlotsInv, PendingInv, Installing
  <2>. QED
    BY <2>1, <2>2 DEF ImageOnTrial, OnTrial
<1>11. CASE DownloadErase
  <2>1. pc = "download" /\ UNCHANGED <<imgState, bootSlot, nvs, proof>>
        /\ image' = [image EXCEPT ![Other(running)] = NoImage]
    BY <1>11 DEF DownloadErase
  <2>2. image'[bootSlot] = image[bootSlot]
    BY <1>0, <1>10, <2>1 DEF Slots, Other
  <2>. QED
    BY <1>10, <2>1, <2>2 DEF Trial!vars, FallbackImage, TrialProven, ImageOnTrial
<1>12. CASE DownloadWrong
  <2>1. pc \in {"download", "downloading"} /\ UNCHANGED <<flashVars, proof>> /\ nvs' = MarkBad(record, current)
    BY <1>12 DEF DownloadWrong, Save
  <2>2. current \in Published
    BY <2>1 DEF Safe, TypeOK, Coherent, DownloadingInv
  <2>3. nvs'.phase = "Idle"
    BY <1>0, <1>10, <2>1, <2>2, MarkBadType
  <2>. QED
    BY <1>10, <2>1, <2>3, TrialStutters DEF ImageOnTrial
<1>13. CASE DownloadDone
  <2>1. /\ pc = "downloading" /\ nvs' = nvs /\ bootSlot' = Other(running)
        /\ image' = [image EXCEPT ![Other(running)] = current.version]
        /\ imgState' = [imgState EXCEPT ![Other(running)] = "new"]
        /\ proof' = [proof EXCEPT ![Other(running)] = "unproven"]
    BY <1>13 DEF DownloadDone
  <2>2. current.version \in Versions /\ current.version # image[running]
    BY <2>1 DEF Safe, TypeOK, Coherent, DownloadingInv, Consistent, InstallInv, Manifest
  <2>3. /\ Other(running) \in Slots /\ Other(Other(running)) = running /\ Other(running) # running
    BY <1>0 DEF Slots, Other
  <2>4. /\ image'[bootSlot'] = current.version /\ image'[Other(bootSlot')] = image[running]
        /\ proof'[bootSlot'] = "unproven" /\ imgState'[bootSlot'] = "new"
    BY <1>0, <2>1, <2>3
  <2>5. Other(bootSlot)' = Other(bootSlot')
    BY DEF Other
  <2>6. Trial!Start(current.version)
    BY <1>10, <2>1, <2>2, <2>4, <2>5 DEF Trial!Start, Trial!OnTrial, FallbackImage, TrialProven, ImageOnTrial, OnTrial
  <2>. QED
    BY <2>2, <2>6 DEF Trial!Next
<1>14. CASE InstallRecord
  <2>1. pc = "record" /\ UNCHANGED <<flashVars, proof>>
    BY <1>14 DEF InstallRecord
  <2>2. imgState[bootSlot] = "new"
    BY <2>1 DEF Safe, Coherent, SlotsInv, Installing
  <2>. QED
    BY <2>1, <2>2, TrialStutters DEF ImageOnTrial, OnTrial
<1>15. CASE UNCHANGED <<image, imgState, bootSlot, nvs, proof>>
  BY <1>15, TrialStutters DEF ImageOnTrial
<1>. QED
  BY <1>1, <1>2, <1>3, <1>4, <1>5, <1>6, <1>7, <1>8, <1>9, <1>11, <1>12, <1>13, <1>14, <1>15
     DEF Next, Boot, Prove, Install, Environment, vars, Crash, ValidateWait, ProbeWait, TickSettled, ManifestDeferred,
         ManifestIgnored, DownloadStart, DownloadBroken, Restart, UptimePasses, ServerAnswers, ManifestArrives

\* The flow of OtaController.cpp:170-345 and :399-402, seen from the flash, is a trial: a new firmware is kept
\* only once it proved itself, and otherwise gives way to the very one it replaced.
THEOREM ImplementsTrialHolds ==
  ASSUME ~NvsCanFail, ~CrashBeforeRecord
  PROVE  Spec => ImplementsTrial
<1>1. Init => Refining /\ Trial!Init
  BY SafeInit, ConsistentInit, TrialInit DEF Refining, InstallsRecorded, Init
<1>2. Refining /\ [Next]_vars => Refining'
  BY SafeNext, ConsistentNext, RecordedNext DEF Refining
<1>3. Refining /\ [Next]_vars => [Trial!Next]_(Trial!vars)
  BY TrialSteps
<1>. QED
  BY <1>1, <1>2, <1>3, PTL DEF Spec, ImplementsTrial, Trial!Spec
=============================================================================
