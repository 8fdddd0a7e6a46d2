-------------------------------- MODULE Ota --------------------------------
(***************************************************************************)
(* Firmware updates over the air (components/croniot/src/ota).             *)
(*                                                                         *)
(* The policy is the set of pure functions of OtaPolicy.cpp over the       *)
(* record kept in NVS.  The controller is the croniot_ota task of          *)
(* OtaController.cpp, cut into one action per durable effect, so that a    *)
(* crash can fall between any two of them.  Flash, otadata and the         *)
(* bootloader are external: they are modelled from the calls the           *)
(* controller makes (esp_ota_...).                                         *)
(*                                                                         *)
(* Abstractions.  Uptime is cut into the intervals the policy compares     *)
(* (StableAt, DeadlineAt).  nextAttemptAtMs_ only delays: a tick before it *)
(* is due is a tick that defers.  previousVersion is only reported.  The   *)
(* device's transport is WiFi (any other never installs).                  *)
(***************************************************************************)
EXTENDS Integers, Sequences

CONSTANTS
  Versions,           \* firmware versions
  Requests,           \* request ids the server has generated
  Published,          \* the manifests the server may publish
  FactoryVersion,     \* the version flashed by cable
  NoManifest,         \* std::nullopt, in pending_ and current_
  Unchanged,          \* the mailbox has nothing new: pendingChanged_ = false
  NoImage,            \* an app partition without a whole image
  MaxAttempts,        \* CONFIG_CRONIOT_OTA_MAX_ATTEMPTS
  MaxBad,             \* kMaxBadReleases
  StableAt,           \* kStableMs, in units of the model's clock
  DeadlineAt,         \* kDeadlineMs
  MaxUptime,          \* bound: the clock saturates here
  FactoryListed,      \* otadata has an entry for the image flashed by cable
  NvsCanFail,         \* nvs_set_str or nvs_commit may fail
  CrashBeforeRecord   \* a crash may fall between set_boot_partition and save

Manifest == [version : Versions, requestId : Requests]

ASSUME ConstantsAssumption ==
  /\ Published \subseteq Manifest
  /\ FactoryVersion \in Versions
  /\ NoImage \notin Versions
  /\ NoManifest \notin Manifest
  /\ Unchanged \notin Manifest \cup {NoManifest}
  /\ MaxAttempts \in Nat \ {0}
  /\ MaxBad \in Nat \ {0}
  /\ StableAt \in Nat
  /\ DeadlineAt \in Nat
  /\ MaxUptime \in Nat
  /\ 0 < StableAt /\ StableAt < DeadlineAt /\ DeadlineAt < MaxUptime
  /\ FactoryListed \in BOOLEAN
  /\ NvsCanFail \in BOOLEAN
  /\ CrashBeforeRecord \in BOOLEAN

VARIABLES
  \* Flash: two app partitions and the otadata that selects one.
  image,          \* slot -> the version it holds, or NoImage
  imgState,       \* slot -> the state otadata gives its image
  bootSlot,       \* the slot the bootloader tries next
  \* NVS
  nvs,            \* the record saved in NVS (croniot_ota/rec)
  \* RAM of the Controller, lost at every reset
  pc,             \* where the croniot_ota task is
  running,        \* the slot the running image was booted from
  record,         \* record_
  situation,      \* situation_
  pendingVerify,  \* runningPendingVerify_
  selfTests,      \* selfTestsPassed_
  reachableAt,    \* reachableAtMs_
  mailbox,        \* pending_ with pendingChanged_
  current,        \* current_
  uptime,         \* esp_timer_get_time
  server,         \* authenticated_ and Uplink's acksReceived()
  \* History, read by the properties only
  proof,          \* slot -> how its image came to be trusted
  recorded,       \* slot -> its install was recorded in NVS
  trials          \* installs in a row of one request, none confirmed

flashVars == <<image, imgState, bootSlot>>
ramVars == <<running, record, situation, pendingVerify, selfTests, reachableAt,
             mailbox, current, uptime, server>>
historyVars == <<proof, recorded, trials>>
vars == <<flashVars, nvs, pc, ramVars, historyVars>>

Slots == {0, 1}
Other(s) == 1 - s

-----------------------------------------------------------------------------
(* OtaPolicy                                                               *)

Phases == {"Idle", "Installed", "Probing"}
Failures == {"none", "self_test", "no_connectivity"}

EmptyRecord == [phase |-> "Idle", target |-> NoManifest, attempts |-> 0,
                lastFailure |-> "none", bad |-> <<>>]

IsBad(r, m) == \E i \in 1 .. Len(r.bad) : r.bad[i] = m

\* The newest condemned release comes first; beyond MaxBad the oldest falls off.
MarkBad(r, m) ==
  IF IsBad(r, m) THEN r
  ELSE [r EXCEPT !.bad = IF Len(r.bad) < MaxBad
                         THEN <<m>> \o r.bad
                         ELSE <<m>> \o SubSeq(r.bad, 1, MaxBad - 1)]

\* Mutant: an update in progress does not keep another from starting.
DecideManifestAnytime(r, m, runningVersion, pending) ==
  IF m.version = runningVersion THEN "IgnoreSameVersion"
  ELSE IF IsBad(r, m) THEN "IgnoreBad"
  ELSE IF r.target = m /\ r.attempts >= MaxAttempts THEN "IgnoreAttemptsExhausted"
  ELSE "Install"

DecideManifest(r, m, runningVersion, pending) ==
  IF m.version = runningVersion THEN "IgnoreSameVersion"
  ELSE IF pending \/ r.phase # "Idle" THEN "IgnoreBusy"
  ELSE IF IsBad(r, m) THEN "IgnoreBad"
  ELSE IF r.target = m /\ r.attempts >= MaxAttempts THEN "IgnoreAttemptsExhausted"
  ELSE "Install"

\* Mutants: the attempts of a request are not added up; the record forgets what it is
\* about; the record stays idle.
RecordInstalledAfresh(r, m) ==
  [r EXCEPT !.phase = "Installed", !.target = m, !.lastFailure = "none", !.attempts = 1]
RecordInstalledUntargeted(r, m) ==
  [r EXCEPT !.phase = "Installed", !.lastFailure = "none", !.attempts = r.attempts + 1]
RecordInstalledIdle(r, m) == [r EXCEPT !.target = m, !.attempts = 1]

RecordInstalled(r, m) ==
  [r EXCEPT !.phase = "Installed", !.target = m, !.lastFailure = "none",
            !.attempts = IF r.target = m THEN r.attempts + 1 ELSE 1]

RecordRollback(r, verdict) ==
  CASE verdict = "RollbackSelfTest" ->
         [r EXCEPT !.phase = "Installed", !.lastFailure = "self_test"]
    [] verdict = "RollbackNoConnectivity" ->
         [r EXCEPT !.phase = "Probing", !.lastFailure = "no_connectivity"]
    [] OTHER -> r

RecordConfirmed(r) ==
  [r EXCEPT !.phase = "Idle", !.lastFailure = "none", !.attempts = 0]

Situations == {"Normal", "Validating", "RolledBack", "Probing"}

BootSituation(r, runningVersion) ==
  IF r.phase = "Idle" THEN "Normal"
  ELSE IF r.target.version = runningVersion THEN "Validating"
  ELSE IF r.phase = "Installed" THEN "RolledBack"
  ELSE "Probing"

\* The record after onBoot.
BootRecord(r, runningVersion) ==
  CASE BootSituation(r, runningVersion) = "Validating" ->
         [r EXCEPT !.phase = "Installed"]
    [] BootSituation(r, runningVersion) = "RolledBack" ->
         [(IF r.attempts >= MaxAttempts THEN MarkBad(r, r.target) ELSE r)
            EXCEPT !.phase = "Idle", !.lastFailure = "none"]
    [] OTHER -> r

EvaluateValidation(up, tests, reachable) ==
  CASE tests = "failed" -> "RollbackSelfTest"
    [] tests = "passed" /\ up >= StableAt /\ reachable -> "Confirm"
    [] tests # "failed" /\ up >= DeadlineAt /\ ~reachable -> "RollbackNoConnectivity"
    [] OTHER -> "Wait"

\* Mutant: an answer after the deadline is not taken for an answer.
EvaluateProbeInTime(at) == IF at \in 1 .. DeadlineAt THEN "NewVersionGuilty" ELSE "Wait"

EvaluateProbe(at) ==
  CASE at = 0 -> "Wait"
    [] at \in 1 .. DeadlineAt -> "NewVersionGuilty"
    [] OTHER -> "ExternalFault"

\* Mutant: a probe condemns the release whatever it finds.
RecordProbeResultGuilty(r, verdict) ==
  [MarkBad(r, r.target) EXCEPT !.phase = "Idle", !.lastFailure = "none"]

RecordProbeResult(r, verdict) ==
  [(IF verdict = "NewVersionGuilty" \/ r.attempts >= MaxAttempts
    THEN MarkBad(r, r.target) ELSE r)
     EXCEPT !.phase = "Idle", !.lastFailure = "none"]

-----------------------------------------------------------------------------
(* Flash and bootloader (external)                                         *)

Trustable == {"valid", "undefined"}
OnTrial == {"new", "pending"}
ImageStates == Trustable \cup OnTrial \cup {"aborted", "invalid"}

Bootable(s) == image[s] # NoImage /\ imgState[s] \in Trustable

\* What esp_ota_mark_app_invalid_rollback_and_reboot() needs: otadata lists
\* the other partition as valid and its image is whole.
RollbackPossible == image[Other(running)] # NoImage /\ imgState[Other(running)] = "valid"

Init ==
  /\ image = [s \in Slots |-> IF s = 0 THEN FactoryVersion ELSE NoImage]
  /\ imgState = [s \in Slots |-> IF s = 0 /\ FactoryListed THEN "valid" ELSE "undefined"]
  /\ bootSlot = 0
  /\ nvs = EmptyRecord
  /\ pc = "off"
  /\ running = 0
  /\ record = EmptyRecord
  /\ situation = "Normal"
  /\ pendingVerify = FALSE
  /\ selfTests = "unknown"
  /\ reachableAt = 0
  /\ mailbox = Unchanged
  /\ current = NoManifest
  /\ uptime = 0
  /\ server = "silent"
  /\ proof = [s \in Slots |-> "factory"]
  /\ recorded = [s \in Slots |-> TRUE]
  /\ trials = [of |-> NoManifest, count |-> 0]

\* A reset loses everything in RAM.
Reset(s) ==
  /\ running' = s
  /\ record' = EmptyRecord
  /\ situation' = "Normal"
  /\ pendingVerify' = FALSE
  /\ selfTests' = "unknown"
  /\ reachableAt' = 0
  /\ mailbox' = Unchanged
  /\ current' = NoManifest
  /\ uptime' = 0
  /\ server' = "silent"

\* The bootloader gives a new image one boot.  One that is still pending
\* when the device resets is aborted, and the other partition boots.
PowerOn ==
  /\ pc = "off"
  /\ IF imgState[bootSlot] = "pending"
     THEN /\ imgState' = [imgState EXCEPT ![bootSlot] = "aborted"]
          /\ bootSlot' = Other(bootSlot)
          /\ pc' = IF Bootable(Other(bootSlot)) THEN "begin" ELSE "bricked"
     ELSE /\ imgState' = [imgState EXCEPT ![bootSlot] = IF @ = "new" THEN "pending" ELSE @]
          /\ pc' = "begin"
          /\ UNCHANGED bootSlot
  /\ Reset(bootSlot')
  /\ UNCHANGED <<image, nvs, historyVars>>

Crash ==
  /\ pc \notin {"off", "bricked"}
  /\ pc = "record" => CrashBeforeRecord
  /\ pc' = "off"
  /\ Reset(running)
  /\ UNCHANGED <<flashVars, nvs, historyVars>>

-----------------------------------------------------------------------------
(* Controller                                                              *)

\* nvs_set_str or nvs_commit may fail: the error is logged and nvs is what it was.
Save(r) == nvs' \in IF NvsCanFail THEN {r, nvs} ELSE {r}

\* decodeRecord(): what cannot be read back whole is the empty record; what
\* encodeRecord() wrote can, unless it condemns more releases than there is room for.
Decoded(stored) == IF Len(stored.bad) <= MaxBad THEN stored ELSE EmptyRecord

\* load(): where nothing is stored, the record stays the empty one.
Loaded == Decoded(nvs)

\* Mutant: begin() accepts whatever image runs.
BeginAccepting ==
  /\ pc = "begin"
  /\ situation' = BootSituation(Loaded, image[running])
  /\ record' = BootRecord(Loaded, image[running])
  /\ pendingVerify' = FALSE
  /\ imgState' = [imgState EXCEPT ![running] = IF @ = "pending" THEN "valid" ELSE @]
  /\ pc' = "beginSave"
  /\ UNCHANGED <<image, bootSlot, nvs, running, selfTests, reachableAt, mailbox, current,
                 uptime, server, historyVars>>

\* begin(), up to the save: the record is read and onBoot decides.
Begin ==
  /\ pc = "begin"
  /\ LET pending == imgState[running] = "pending"
         now == BootSituation(Loaded, image[running])
     IN  /\ situation' = now
         /\ record' = BootRecord(Loaded, image[running])
         /\ pendingVerify' = (pending /\ now # "Normal")
         /\ imgState' = IF pending /\ now = "Normal"
                        THEN [imgState EXCEPT ![running] = "valid"] ELSE imgState
  /\ pc' = "beginSave"
  /\ UNCHANGED <<image, bootSlot, nvs, running, selfTests, reachableAt, mailbox, current,
                 uptime, server, historyVars>>

\* The end of begin(): the record is saved and the croniot_ota task starts.
BeginSave ==
  /\ pc = "beginSave"
  /\ Save(record)
  /\ pc' = "wait"
  /\ UNCHANGED <<flashVars, ramVars, historyVars>>

\* serverReachable(): latches the uptime of the first tick that sees an answer.
LatchedReachableAt ==
  IF reachableAt = 0 /\ server = "answered"
  THEN IF uptime = 0 THEN 1 ELSE uptime
  ELSE reachableAt

\* The self-tests run once, at the first tick after the stability window.
SelfTestOutcomes ==
  IF uptime >= StableAt /\ selfTests = "unknown" THEN {"passed", "failed"} ELSE {selfTests}

\* The part of validate() before its switch, with the verdict it comes to.
ValidationTick(verdict) ==
  /\ pc = "wait"
  /\ situation = "Validating"
  /\ reachableAt' = LatchedReachableAt
  /\ selfTests' \in SelfTestOutcomes
  /\ EvaluateValidation(uptime, selfTests', reachableAt' # 0) = verdict

ValidateWait ==
  /\ ValidationTick("Wait")
  /\ pc' = "manifest"
  /\ UNCHANGED <<flashVars, nvs, running, record, situation, pendingVerify, mailbox, current,
                 uptime, server, historyVars>>

\* Confirm, first effect: esp_ota_mark_app_valid_cancel_rollback().
ConfirmMark ==
  /\ ValidationTick("Confirm")
  /\ imgState' = [imgState EXCEPT ![running] = "valid"]
  /\ record' = RecordConfirmed(record)
  /\ proof' = [proof EXCEPT ![running] = "proven"]
  /\ pc' = "confirmSave"
  /\ UNCHANGED <<image, bootSlot, nvs, running, situation, pendingVerify, mailbox, current,
                 uptime, server, recorded, trials>>

\* Confirm, second effect: the record.
ConfirmSave ==
  /\ pc = "confirmSave"
  /\ Save(record)
  /\ pendingVerify' = FALSE
  /\ situation' = "Normal"
  /\ trials' = [of |-> NoManifest, count |-> 0]
  /\ pc' = "manifest"
  /\ UNCHANGED <<flashVars, running, record, selfTests, reachableAt, mailbox, current,
                 uptime, server, proof, recorded>>

\* Rollback, first effect: recordRollback() and save().
RollbackRecord ==
  \E verdict \in {"RollbackSelfTest", "RollbackNoConnectivity"} :
    /\ ValidationTick(verdict)
    /\ record' = RecordRollback(record, verdict)
    /\ Save(record')
    /\ pc' = "rollback"
    /\ UNCHANGED <<flashVars, running, situation, pendingVerify, mailbox, current,
                   uptime, server, historyVars>>

\* Rollback, second effect: esp_ota_mark_app_invalid_rollback_and_reboot().
RollbackReboot ==
  /\ pc = "rollback"
  /\ RollbackPossible
  /\ imgState' = [imgState EXCEPT ![running] = "invalid"]
  /\ bootSlot' = Other(running)
  /\ pc' = "off"
  /\ Reset(running)
  /\ UNCHANGED <<image, nvs, historyVars>>

\* The same call returning: there is no previous valid image.
RollbackImpossible ==
  /\ pc = "rollback"
  /\ ~RollbackPossible
  /\ record' = RecordConfirmed(record)
  /\ Save(record')
  /\ situation' = "Normal"
  /\ pc' = "manifest"
  /\ UNCHANGED <<flashVars, running, pendingVerify, selfTests, reachableAt, mailbox, current,
                 uptime, server, historyVars>>

ProbeWait ==
  /\ pc = "wait"
  /\ situation = "Probing"
  /\ reachableAt' = LatchedReachableAt
  /\ EvaluateProbe(reachableAt') = "Wait"
  /\ pc' = "manifest"
  /\ UNCHANGED <<flashVars, nvs, running, record, situation, pendingVerify, selfTests, mailbox,
                 current, uptime, server, historyVars>>

ProbeVerdict ==
  /\ pc = "wait"
  /\ situation = "Probing"
  /\ reachableAt' = LatchedReachableAt
  /\ EvaluateProbe(reachableAt') # "Wait"
  /\ record' = RecordProbeResult(record, EvaluateProbe(reachableAt'))
  /\ Save(record')
  /\ situation' = "Normal"
  /\ pc' = "manifest"
  /\ UNCHANGED <<flashVars, running, pendingVerify, selfTests, mailbox, current,
                 uptime, server, historyVars>>

\* A tick with nothing to validate or probe.
TickSettled ==
  /\ pc = "wait"
  /\ situation \in {"Normal", "RolledBack"}
  /\ pc' = "manifest"
  /\ UNCHANGED <<flashVars, nvs, ramVars, historyVars>>

\* The manifest this tick works on: the mailbox replaces current_ when it changed.
Effective == IF mailbox = Unchanged THEN current ELSE mailbox

Decision ==
  IF Effective = NoManifest THEN "Nothing"
  ELSE DecideManifest(record, Effective, image[running], pendingVerify)

\* Nothing to do, or not yet: no manifest, nextAttemptAtMs_ not reached, busy, or
\* the project's gate is closed.
ManifestDeferred ==
  /\ pc = "manifest"
  /\ mailbox = Unchanged \/ Decision \in {"Nothing", "IgnoreBusy", "Install"}
  /\ current' = Effective
  /\ mailbox' = Unchanged
  /\ pc' = "wait"
  /\ UNCHANGED <<flashVars, nvs, running, record, situation, pendingVerify, selfTests,
                 reachableAt, uptime, server, historyVars>>

ManifestIgnored ==
  /\ pc = "manifest"
  /\ Decision \in {"IgnoreSameVersion", "IgnoreBad", "IgnoreAttemptsExhausted"}
  /\ current' = NoManifest
  /\ mailbox' = Unchanged
  /\ pc' = "wait"
  /\ UNCHANGED <<flashVars, nvs, running, record, situation, pendingVerify, selfTests,
                 reachableAt, uptime, server, historyVars>>

DownloadStart ==
  /\ pc = "manifest"
  /\ Decision = "Install"
  /\ current' = Effective
  /\ mailbox' = Unchanged
  /\ pc' = "download"
  /\ UNCHANGED <<flashVars, nvs, running, record, situation, pendingVerify, selfTests,
                 reachableAt, uptime, server, historyVars>>

\* esp_ota_begin() erases the partition the running image does not use.
DownloadErase ==
  /\ pc = "download"
  /\ image' = [image EXCEPT ![Other(running)] = NoImage]
  /\ pc' = "downloading"
  /\ UNCHANGED <<imgState, bootSlot, nvs, ramVars, historyVars>>

\* A failure whose message starts with "download": retried later.
DownloadBroken ==
  /\ pc \in {"download", "downloading"}
  /\ pc' = "wait"
  /\ UNCHANGED <<flashVars, nvs, ramVars, historyVars>>

\* Any other failure condemns the release.
DownloadWrong ==
  /\ pc \in {"download", "downloading"}
  /\ record' = MarkBad(record, current)
  /\ Save(record')
  /\ current' = NoManifest
  /\ pc' = "wait"
  /\ UNCHANGED <<flashVars, running, situation, pendingVerify, selfTests, reachableAt, mailbox,
                 uptime, server, historyVars>>

\* The whole image is written and verified; download() ends with
\* esp_ota_set_boot_partition().
DownloadDone ==
  /\ pc = "downloading"
  /\ image' = [image EXCEPT ![Other(running)] = current.version]
  /\ imgState' = [imgState EXCEPT ![Other(running)] = "new"]
  /\ bootSlot' = Other(running)
  /\ proof' = [proof EXCEPT ![Other(running)] = "unproven"]
  /\ recorded' = [recorded EXCEPT ![Other(running)] = FALSE]
  /\ pc' = "record"
  /\ UNCHANGED <<nvs, ramVars, trials>>

\* recordInstalled() and save().
InstallRecord ==
  /\ pc = "record"
  /\ record' = RecordInstalled(record, current)
  /\ Save(record')
  /\ recorded' = [recorded EXCEPT ![Other(running)] = (nvs' = record')]
  /\ trials' = [of |-> current,
                count |-> IF trials.of # current THEN 1
                          ELSE IF trials.count > MaxAttempts THEN trials.count
                          ELSE trials.count + 1]
  /\ pc' = "restart"
  /\ UNCHANGED <<flashVars, running, situation, pendingVerify, selfTests, reachableAt, mailbox,
                 current, uptime, server, proof>>

\* The gate opens and restart() calls esp_restart().
Restart ==
  /\ pc = "restart"
  /\ pc' = "off"
  /\ Reset(running)
  /\ UNCHANGED <<flashVars, nvs, historyVars>>

-----------------------------------------------------------------------------
(* The rest of the device, and the server                                  *)

TaskStarted == pc \notin {"off", "bricked", "begin", "beginSave"}

UptimePasses ==
  /\ TaskStarted
  /\ uptime < MaxUptime
  /\ uptime' = uptime + 1
  /\ UNCHANGED <<flashVars, nvs, pc, running, record, situation, pendingVerify, selfTests,
                 reachableAt, mailbox, current, server, historyVars>>

\* CommonSetup: onServerAuthenticated(), then the uplink starts and is acknowledged.
ServerAnswers ==
  /\ TaskStarted
  /\ server # "answered"
  /\ server' = IF server = "silent" THEN "authenticated" ELSE "answered"
  /\ UNCHANGED <<flashVars, nvs, pc, running, record, situation, pendingVerify, selfTests,
                 reachableAt, mailbox, current, uptime, historyVars>>

\* What the server may send: a manifest of its own, or one of which something that
\* parseManifest() asks for is missing or malformed (an empty message, all of it).
Requirements == {"shape", "requestId", "version", "path", "size", "sha256", "port"}
Messages == [manifest : Published, wrong : {{}, Requirements} \cup {{r} : r \in Requirements}]

Parsed(message) == IF message.wrong = {} THEN message.manifest ELSE NoManifest

\* onManifestJson(), on the MQTT task.  What does not parse clears the request.
ManifestArrives(message) ==
  /\ TaskStarted
  /\ server # "silent"
  /\ mailbox' = Parsed(message)
  /\ UNCHANGED <<flashVars, nvs, pc, running, record, situation, pendingVerify, selfTests,
                 reachableAt, current, uptime, server, historyVars>>

-----------------------------------------------------------------------------

Boot == PowerOn \/ Begin \/ BeginSave

Prove ==
  \/ ValidateWait \/ ConfirmMark \/ ConfirmSave
  \/ RollbackRecord \/ RollbackReboot \/ RollbackImpossible
  \/ ProbeWait \/ ProbeVerdict
  \/ TickSettled

Install ==
  \/ ManifestDeferred \/ ManifestIgnored
  \/ DownloadStart \/ DownloadErase \/ DownloadBroken \/ DownloadWrong \/ DownloadDone
  \/ InstallRecord \/ Restart

Environment ==
  \/ Crash
  \/ UptimePasses
  \/ ServerAnswers
  \/ \E message \in Messages : ManifestArrives(message)

Next == Boot \/ Prove \/ Install \/ Environment

Spec == Init /\ [][Next]_vars

\* The scheduler runs the task and the clock; the bootloader runs after a reset.
\* The gate of the project opens in the end (a pump does not run for ever).
DeviceRuns ==
  /\ WF_vars(Boot \/ Prove \/ Install)
  /\ WF_vars(UptimePasses)

\* The server, or the way to it, comes back and stays long enough to be noticed.
ServerComesBack == WF_vars(ServerAnswers)

FairSpec == Spec /\ DeviceRuns /\ ServerComesBack

-----------------------------------------------------------------------------
(* Properties                                                              *)

\* A record that is not idle is about a request, and condemns few enough releases
\* to be read back.
Records ==
  {r \in [phase : Phases, target : Published \cup {NoManifest}, attempts : Nat,
          lastFailure : Failures, bad : Seq(Published)] :
     Len(r.bad) <= MaxBad /\ (r.phase # "Idle" => r.target # NoManifest)}

TypeOK ==
  /\ image \in [Slots -> Versions \cup {NoImage}]
  /\ imgState \in [Slots -> ImageStates]
  /\ bootSlot \in Slots
  /\ nvs \in Records
  /\ pc \in {"off", "bricked", "begin", "beginSave", "wait", "manifest", "confirmSave",
             "rollback", "download", "downloading", "record", "restart"}
  /\ running \in Slots
  /\ record \in Records
  /\ situation \in Situations
  /\ pendingVerify \in BOOLEAN
  /\ selfTests \in {"unknown", "passed", "failed"}
  /\ reachableAt \in 0 .. MaxUptime
  /\ mailbox \in Published \cup {NoManifest, Unchanged}
  /\ current \in Published \cup {NoManifest}
  /\ uptime \in 0 .. MaxUptime
  /\ server \in {"silent", "authenticated", "answered"}
  /\ proof \in [Slots -> {"factory", "unproven", "proven"}]
  /\ recorded \in [Slots -> BOOLEAN]
  /\ trials \in [of : Published \cup {NoManifest}, count : 0 .. MaxAttempts + 1]

\* The device can always boot: whatever the update flow has written and
\* wherever it was interrupted, the bootloader finds a whole image in the
\* selected partition, or one to go back to in the other.
AlwaysBootable ==
  /\ pc # "bricked"
  /\ image[bootSlot] # NoImage
  /\ imgState[bootSlot] \in OnTrial => Bootable(Other(bootSlot))

\* An image is kept (valid in otadata: the bootloader no longer goes back) only
\* after it passed validate(), unless its install never reached the record in
\* NVS: begin() takes such an image for one flashed by cable.
OnlyProvenKept ==
  \A s \in Slots : imgState[s] = "valid" /\ recorded[s] => proof[s] # "unproven"

\* The same without the exception, as OtaPolicy.h promises of a new image
\* ("still has to prove itself").
EveryImageProvesItself ==
  \A s \in Slots : imgState[s] = "valid" => proof[s] # "unproven"

\* While the record is Installed or Probing, what it says and what is in flash
\* agree: Probing never runs on the release it suspects, and Validating only
\* runs the release it is about.
SituationMatchesImage ==
  /\ situation = "Validating" => image[running] = record.target.version
  /\ situation = "Probing" => /\ record.phase = "Probing"
                              /\ image[running] # record.target.version

\* A request is installed at most MaxAttempts times in a row before it is
\* confirmed, whatever crashes or outages end its trials.
BoundedTrials == trials.count <= MaxAttempts

\* A release is condemned for a cause that can be told from its own history: its
\* download was wrong, or MaxAttempts installs in a row of that very request came to
\* nothing, or the firmware before it reached the server within the deadline that it
\* had missed itself.  And the verdict is never passed by an image on itself.
Condemned(r) == {r.bad[i] : i \in 1 .. Len(r.bad)}
CondemnedForCause ==
  [][\A m \in Condemned(nvs') \ Condemned(nvs) :
       /\ m.version # image[running]
       /\ pc \in {"beginSave", "wait"} =>
            /\ trials.of = m
            /\ trials.count = MaxAttempts \/ reachableAt' \in 1 .. DeadlineAt]_vars

\* Every update ends.  An image that is pending is confirmed, rolled back or aborted, or
\* validate() found nothing to roll back to and gave the trial up; and once the device stops
\* crashing, the record says so (OtaController.cpp:87-153, OtaPolicy.cpp:92-120).
UpdatesEnd ==
  /\ \A s \in Slots : imgState[s] = "pending" ~>
       imgState[s] # "pending" \/ (pc = "wait" /\ situation = "Normal")
  /\ <>[][~Crash]_vars => (nvs.phase # "Idle" ~> nvs.phase = "Idle")

-----------------------------------------------------------------------------
(* The inductive invariant                                                 *)

\* From the reset to the switch of partitions, the device runs what it selected;
\* from the switch to the restart, the other partition holds the new image.
Installing == pc \in {"record", "restart"}
SlotsInv ==
  /\ pc \notin {"off", "bricked"} => bootSlot = IF Installing THEN Other(running) ELSE running
  /\ Installing => imgState[bootSlot] = "new"
  /\ imgState[bootSlot] \in Trustable \cup OnTrial
  /\ imgState[bootSlot] = "new" => Installing \/ pc = "off"
  /\ imgState[Other(bootSlot)] \notin OnTrial

\* The controller knows whether it runs a pending image.
PendingInv ==
  /\ pc \notin {"off", "bricked", "begin"} /\ imgState[running] = "pending" => pendingVerify
  /\ pc = "confirmSave" => imgState[running] = "valid"

\* What the record says of the step the task is at.
DownloadingInv ==
  pc \in {"download", "downloading", "record"} =>
    /\ current # NoManifest
    /\ record.phase = "Idle"
    /\ ~pendingVerify
    /\ pc = "record" => image[bootSlot] = current.version
ProvingInv ==
  /\ situation \in {"Validating", "Probing"} =>
       \/ record.phase # "Idle"
       \/ pc = "confirmSave"
  /\ situation = "Probing" => record.phase = "Probing"
  /\ situation \in {"Validating", "Probing"} => record.target # NoManifest
  /\ pc \in {"confirmSave", "rollback"} => situation = "Validating"
  /\ pc \in {"download", "downloading", "record", "restart"} =>
       situation \in {"Normal", "RolledBack"}

\* The record in NVS announces every new image that has yet to boot and decide,
\* but for those whose record was not saved.
AnnouncedInv ==
  /\ /\ recorded[bootSlot]
     /\ imgState[bootSlot] = "new" \/ (imgState[bootSlot] = "pending" /\ pc = "begin")
     => (nvs.phase = "Installed" /\ nvs.target.version = image[bootSlot])
  /\ pc = "record" => ~recorded[bootSlot]
  /\ pc = "confirmSave" => proof[running] = "proven"

Coherent ==
  /\ AlwaysBootable
  /\ OnlyProvenKept
  /\ SituationMatchesImage
  /\ SlotsInv
  /\ PendingInv
  /\ DownloadingInv
  /\ ProvingInv
  /\ AnnouncedInv

Safe == TypeOK /\ Coherent

-----------------------------------------------------------------------------
(* What a reliable NVS adds (NvsCanFail = FALSE)                           *)

\* The record in NVS is about the selected image.
RecordOnTrial == nvs.phase # "Idle" /\ nvs.target.version = image[bootSlot]

\* The record in NVS is one save behind the one in RAM.
SavedInv ==
  /\ pc = "beginSave" => record = BootRecord(nvs, image[running])
  /\ pc = "confirmSave" => nvs.phase # "Idle" /\ record = RecordConfirmed(nvs)
  /\ pc \notin {"off", "bricked", "begin", "beginSave", "confirmSave"} => record = nvs

\* An image on trial replaced another one, which is still there to go back to.
TrialInv ==
  /\ imgState[bootSlot] \in OnTrial => nvs.phase = "Idle" \/ RecordOnTrial
  /\ RecordOnTrial =>
       /\ Bootable(Other(bootSlot))
       /\ image[Other(bootSlot)] # image[bootSlot]
       /\ imgState[bootSlot] # "undefined"
       /\ proof[bootSlot] # "factory"

\* decideManifest() still holds of what is being installed.
InstallInv ==
  /\ pc \in {"download", "downloading", "record"} =>
       /\ current.version # image[running]
       /\ record.target = current => record.attempts < MaxAttempts
  /\ pc = "record" => proof[bootSlot] = "unproven"

\* The record counts the installs of its request since the last confirmation.
CountInv ==
  /\ IF trials.of = NoManifest THEN nvs.attempts = 0 /\ trials.count = 0
     ELSE nvs.target = trials.of /\ nvs.attempts = trials.count
  /\ nvs.phase # "Idle" => nvs.attempts > 0
  /\ nvs.attempts <= MaxAttempts

\* With the factory image listed, only an empty slot has no entry in otadata.
ListedInv == \A s \in Slots : imgState[s] = "undefined" => image[s] = NoImage

\* RAM, NVS and flash agree on the trial.
Consistent == SavedInv /\ TrialInv /\ InstallInv

\* With the factory image listed besides, the record in NVS is the whole history of a
\* request: what bounds its trials and convicts its release.
Trialed == Safe /\ Consistent /\ ListedInv /\ CountInv

\* Without a crash before the record, every install is recorded before it boots.
InstallsRecorded == \A s \in Slots : ~recorded[s] => pc = "record" /\ s = bootSlot

\* What the refinement of FirmwareTrial rests on.
Refining == Safe /\ Consistent /\ InstallsRecorded
=============================================================================
