# Formal models of croniot-iot

croniot-iot is the firmware of an ESP32 device: sensors and tasks controlled over MQTT
and BLE, a persistent journal of logs, events and sensor data that is sent to a server
until the server confirms it, and firmware updates over the air. This directory holds
TLA+ models of its core, the TLC runs that check them on small instances, and proofs
that TLAPS checks for every value of the constants.

All source paths below are relative to `components/croniot/src/` of the repository.

| file | what it is |
| --- | --- |
| `*.tla` without a prefix | a component, or what a component promises |
| `*Refinement.tla` | a component together with the mapping to what it promises |
| `*Proofs.tla` | theorems about a component, with their proofs |
| `MC*.tla`, `MC*.cfg` | instances for TLC |
| `PROJECT.json` | components, runs, mutants, the source lines of each definition, findings, hazards, theorems |

To check a run: `tlc -workers 2 -config MCOta.cfg MCOta`. To check proofs:
`tlapm OtaProofs.tla`. An operator whose comment begins with "Mutant" is a plausible
bug in the definition that follows it; nothing uses it, and replacing the definition by
it makes a run fail, which shows that the run's property depends on the definition.

## 1. The system

Tasks (FreeRTOS) and who calls whom:

```
 log macros, any task          sensors, app            MQTT broker / BLE peer
      |                            |                         |      ^
 LogRouter -> NoinitRing      SensorReportBuffer        esp-mqtt task  |
      |         (RTC RAM)          | sensor_flush           | queue(10) |
 croniot_log task                  |                   mqtt_worker     |
      |                            |                    |   |   |      |
      v                            v                    |   |   |      |
  Journal: Logs, Events, Data (LittleFS, one mutex)     |   |   |      |
      ^            ^                                    |   |   |      |
      | read       | ack <------------------------------+   |   |      |
  croniot_uplink --+---- batches ---------------------------|---|------+
                                    commands: TaskController+   |      |
                                       | per-task queues        |      |
                                       task_N --- progress queue+--> publish
                                    manifests: OtaController.pending_ -> croniot_ota
```

### 1.1 Inventory

For each component: its state, its operations, what is hard about it, and what makes it
correct. Components in bold are modelled.

**Firmware update** (`ota/`). State: a record in NVS (phase, target, attempts, last
failure, condemned releases), its copy in RAM, the otadata and the images of two slots,
a one-place mailbox for the manifest. Operations: manifest arrives (mqtt_worker), decide,
download, switch partitions, record, restart; at boot: find the situation, validate the
image on trial, keep it or roll back, and after a rollback probe whether it was the
image's fault. Hard: two durable stores changed one after the other with resets in
between, a bootloader that acts on its own, a server that is down while an image is
judged. Correct: it can always boot; an image is kept only when it proved itself; a
release is condemned only for cause; a release gets a bounded number of trials; an
update comes to an end.

**Journal** (`log/Journal.cpp`, `JournalCursor.h`, `SpaceReclaimer.cpp`,
`FrameAccumulator.cpp`). State per stream: segment files, an index file, the table of
segments, cursor (next, oldest, acked). Operations: append, rotate, read a batch,
acknowledge, reclaim space, recover at boot. Hard: the index is stale after any reset,
unsynced frames vanish, writes and index saves fail, reclaiming races with neither but
is cut by resets. Correct: a record's number is its position in its segment; nothing
synced and not acknowledged disappears without a gap event; a batch has no hole; reading
serves the oldest record the server lacks.

**Uplink** (`telemetry/`). State: per stream a slot for the batch in flight, its attempt
and when it is due; since when each stream has a backlog. Operations: choose a stream,
read and send a batch, retry or give up, handle an acknowledgement (another task). Hard:
a network that loses, delays, repeats and reorders, resets, an acknowledgement between
any two steps, streams that starve each other. Correct: what is confirmed is at the
server, the server's copy has no hole nobody told of, everything is delivered in the
end, every stream gets its turns.

**Log capture** (`log/LogRouter.cpp`, `NoinitRing.cpp`, `RateLimiter.h`, `LogTask.cpp`,
`LineParser.cpp`, `ConsoleSink.cpp`). State: the run of duplicates, a ring of 32 records in
memory that survives a reset, counters. Operations: a line is logged (any task), drain,
flush a run. Hard: any task at any priority, the logger logging about itself, wrap of
indexes, resets. Correct: every line is in the ring, counted in a run, or counted as
dropped; order is kept; a run's count is exact; a reset spoils nothing (but see section 11).

**Incident recovery** (`log/IncidentRecovery.cpp`, `IncidentDetector.h`, `RtcCriticalStore.cpp`).
State: critical records in RTC memory, what the ring holds of the boot before. Correct:
one incident for each crash, none for a deliberate restart.

**WiFi** (`network/connection_provider/`) and **WiFi setup** (`provision/`). State: the
driver's configuration, flags shared by three tasks (`idle_`, `expectLeave_`,
`wifiConnected`), the bits an attempt waits for, the reconnect timer, the dialog, `wifi.json`. Operations:
driver events, timer, a network tried, saved, left or cleared from the serial console. Hard:
the timer's callback cannot be stopped once it has begun, events of the network that is
left come late, power cuts. Correct: a device with credentials is never left without another
attempt; an attempt is judged by its own events; the file is whole and holds what was meant.

**MQTT client** (`network/mqtt/WifiMqttController.cpp`), **channels and routing** (`comm/`), **bring-up and
registration** (`CommonSetup.cpp`, `AuthenticationController.cpp`), **HTTP client**
(`network/http/WifiHttpController.cpp`). State: the account on flash and its token,
how far bring-up is, the maps of topics, a queue of 10 messages to mqtt_worker, the session and its
subscriptions. Hard: topics are registered while sessions begin and break, a lost answer
leaves device and server with different tokens, the account in the firmware changes. Correct: a session has every topic and
shows the device as online; the device registers as what it is configured to be; handlers never block the
client's own task; a retained configuration takes effect.

**Log levels** (`log/Log.cpp`, `LevelResolver.h`, `RemoteLogConfig.cpp`). State: levels
set by code, by the server and for a while, what ESP-IDF was told, sinks, a file. Correct: a restart
changes nothing that could be stored, and a sink that asks for a line gets it.

**Tasks** (`Tasks/`) and **storage** (`Storage.cpp`). State: a queue per task, a queue of
progress reports, files. Hard: tasks that fill a queue also empty another one. Correct: nobody waits for a queue
that only he empties, everything that came in is dealt with.

**BLE channel** (`comm/BleChannel.cpp`). State: connection, MTU, one schema sync at a time on a
task of its own. Hard: connections end and begin while a sync runs. Correct: a phone
that stays gets the whole schema.

**Sensors** (`Sensors/`). State: a policy, a buffer per sensorUid. Hard: readings come from
another task than the one that flushes. Correct: no reading stays behind.

Not state machines: health report, spans and context, CBOR and JSON scanners,
clock, write accounting, message value objects, the SIM7600 modem driver (AT commands with fixed
delays; its MQTT and HTTP controllers are stubs).

The `hazards` of `PROJECT.json` list what can go wrong where, with the properties that
are about it.

## 2. Plan

| | module | state |
| --- | --- | --- |
| 1 | `Ota` implements `FirmwareTrial` | modelled, checked, safety and refinement proved |
| 2 | `Journal` implements `DurableLog` | modelled, checked, safety and refinement proved |
| 3 | `Uplink` on top of `DurableLog`, `UplinkScheduler`, `UplinkTurns` | modelled, checked, safety and refinement proved |
| 4 | `LogCapture` implements `BlackBox`: hook, rate limiter, ring, drain task, incident recovery, resets | modelled, checked, safety and refinement proved |
| 5 | `Wifi` and `WifiSetup`: driver events, timer, console, `wifi.json` | modelled, checked, safety proved |
| 6 | `Commands` and `Ble`: commands and reports on both channels, the schema | modelled, checked, types and locks proved |
| 7 | `Link` and `Levels`: bring-up, registration, sessions, the log's configuration | modelled, checked, safety proved |
| 8 | `Sensors` and `Telemetry`: readings up to the uplink | modelled, checked, safety proved |
| 9 | `LogText`: parsing and masking of a line, as operators compared with each other | modelled, checked, agreement proved |

Every invariant of a passing run is proved, for every value of the constants and under the
hypotheses its section names; liveness is model-checked (section 12). What is not modelled is
in section 12 too.

## 3. Firmware update

`Ota` has the policy as operators with the names of `OtaPolicy.cpp` (`IsBad`, `MarkBad`,
`DecideManifest`, `RecordInstalled`, `EvaluateValidation`, ...) and the controller as one
action per durable effect, so that `Crash` can fall between any two of them: `pc` says
where the croniot_ota task is. Flash, otadata and the bootloader's rollback are external
and modelled from the calls made; the rollback option of the bootloader is on, and writes
to otadata succeed. `save()` may fail if `NvsCanFail`. The server's answers and the clock
run independently. A firmware flashed by cable is in slot 0 at the start, and its otadata
entry exists or not (`FactoryListed`).

`FirmwareTrial` is what an update promises, without records, timers or reboots.
`OtaRefinement` maps `Ota` to it: a trial lasts as long as otadata or the record says so.

| run | bounds | shows |
| --- | --- | --- |
| `MCOta` | 2 releases, 2 attempts, 1 condemned release, factory image in otadata | types, always bootable, only proven images kept, bounded trials, condemned for cause |
| `MCOtaLive` | the same, factory image not in otadata, no crash between switch and record | implements `FirmwareTrial`; every update ends, in a trial and in the record |
| `MCOtaUnproven` | 1 release | a counterexample, see section 11 |

Two releases are the least that replace each other in the mailbox and fill the list of
condemned releases (one place); two attempts are the least at which a count can be
exceeded. The clock has four values: before stable, stable, past the deadline, later.

Fairness (`MCOtaLive`): the task takes its steps and the clock runs, since the task has no
wait that is not bounded by a delay. `UpdatesEnd` says that every trial ends, for which
the deadline suffices, and that the record comes to rest once crashes end, for which
the server must answer at some time after each boot, since a probe waits for it without limit.

The record in NVS is its encoding: what a boot makes of it (`Decoded`) refuses one that
`decodeRecord()` would, such as a list of condemned releases that is too long.

Proved (`OtaProofs`): `SafeInvariant` is inductive; from it `TypeCorrect`,
`AlwaysBootableHolds`, `OnlyProvenKeptHolds`, `SituationMatchesImageHolds`, with crashes
anywhere and NVS writes that fail, for any releases, clock and limits. It adds to the properties what
relates them: at most one slot is on trial, the controller's flags agree with the otadata
of the slot that runs, and at every step of an installation the slot that is written is
not the only one that boots.

The other three theorems need saves that succeed (`~NvsCanFail`): the record in NVS is then one
save behind the one in RAM and no more (`SavedInv`), and an image on trial, or one whose record
says so, has a bootable image of another version beside it (`TrialInv`). With the image flashed by cable
listed in otadata (`ListedInv`), a rollback that is asked for is always possible, so nothing but a
confirmation resets the attempts, and they count the installs of the request one for one (`CountInv`): that is
`BoundedTrialsHolds`, and, with the counts known at each of the four steps that
condemn, `CondemnedForCauseHolds`. `ImplementsTrialHolds` maps each action to a step of `FirmwareTrial` or to none,
listed factory image or not: `DownloadDone` starts, `ConfirmMark` proves, `ConfirmSave` keeps, `PowerOn` after
an unconfirmed boot and `RollbackReboot` give up, and a rollback that is impossible keeps an image that
was proven before a crash, or leaves one pending. It needs `~CrashBeforeRecord`, since without
a record nothing is on trial (section 11). Without these hypotheses TLC finds counterexamples. Liveness is model-checked only.

## 4. Journal

`Journal` is one stream. Every public operation holds one recursive mutex, so each is
one action, cut where a reset leaves another flash: after a write that fills a segment,
and between the removals and the index of a reclaim. A frame is the number stamped in its
record; sizes count frames, so all frames have one size. `synced` is how much of the open file a reset cannot take.
Free space is not counted: the reclaimer may run at any time and delete any
number of segments, in the order of `SpaceReclaimer.cpp`, which is what any amount of free space could make it do.
Four constants switch faults on: `WritesCanFail`, `IndexCanFail`,
`CrashInReclaim`, `GapEventsCanBeLost`. Truncating and closing files work, and the
partition is mounted.

`DurableLog` is one log of consecutive records that loses an unsynced end at a reset, and `JournalRefinement`
maps segments, table, index and recovery to it. It is also the journal `Uplink` stands on.

| run | bounds | shows |
| --- | --- | --- |
| `MCJournal` | Logs, 2 frames a segment, 9 records, writes fail | types; every loss is told and only losses are; batches are right; implements `DurableLog` |
| `MCJournalFaults` | Data beyond its retention, a table of 2 segments, 4 records, every fault but a failing write | positions with a full table |

Nine records in segments of two are five segments: some acknowledged, one partly, some not
at all and one open, which is what the reclaimer tells apart. Batches of three span two segments.

Proved, for any sizes (`JournalProofs`):

- `TypeOKHolds`, with all faults on and a table that may be full. Its inductive invariant adds
  (`Fits`) that no segment of the table, or of the index a boot may still read back, ends
  beyond the numbers handed out, and that both place a segment they share alike.
- `PositionIsSeqHolds`, that a record's number is its position in its segment, with all faults on, under
  `[]TableHasRoom` (the table of segments is never full; without it the property is false,
  see section 11). The inductive invariant says the same of the index and of the files a stale
  index will find: each listed file holds consecutive numbers from the first one the index
  gives it, so recovery counts frames and gets it right.

And for Logs and Events, under `[]TableHasRoom` and `IndexIsCurrent` (the index can
be written, and no reset falls between the removals of a reclaim and the index):

- `ImplementsLogHolds`: the stream implements `DurableLog`; `AckedIsWrittenHolds`.
- `LossIsToldHolds`, if no reset loses a gap event (`~GapEventsCanBeLost`).
- `BatchIsRightHolds`, for batches of any size: what `readFrom()` gathers, segment after segment,
  is one run of numbers that starts with the oldest record kept and not confirmed.

Their invariant (`Durable`, `Told`) has the segments follow each other, every closed one full of what its entry
says (`Chained`), every number from `oldestSeq` on in one of them (`Covers`), nothing owed or
confirmed beyond what is synced (`Safe`), and index and table alike but for the open segment (`Recorded`), which is
what makes a boot a stutter of the log. From `Chained` follows that the reclaimer takes the oldest
segment: if a younger one is confirmed in full, so are all older ones. What goes wrong without
each assumption is in section 11, and for Data TLC refutes `LossIsTold` too, since ages restart
at boot and a middle segment may go first.

`BatchIsRightHolds` adds that the sizes and the newest number of the entries count frames (`Counted`). The scan is a
recursive function of the segments; that after each of them the batch holds what the segments up to there
do, or is full (`Scanned`), is shown by least counterexample: a set of numbers that is not empty has a least one (`Minimum`, from the
well-foundedness of `<`), and the step before it shows that it is none.

## 5. Uplink

`Uplink` has `serviceOnce()` in four steps (`Pick`, `Retry` or `Fetch`, `Send`), because
`onAck()` runs on another task in between and shares the slot without a lock. `Pick`
reads all backlogs in one step; an acknowledgement between two of those reads only
changes which stream is chosen. The network is a set of messages: with `Duplicates` a message stays after
delivery, and so arrives again, late and out of order. A message may always be lost.
The server commits a batch and then acknowledges its last record. `Reboot` takes RAM and
any part of the unsynced end of each stream. Timeouts and quotas are not measured: they
may pass at any time. Acknowledgements of numbers the server never got are not modelled.

`UplinkTurns` is the choice alone under traffic that never ends, with time counted in passes
of the task (one each 200 ms); section 10 has its specification and its run.

| run | bounds | shows |
| --- | --- | --- |
| `MCUplink` | Logs, 3 records, batches of 2, 2 boots, duplicates, reclaiming | confirmed is stored, no holes at the server, the log keeps its promise |
| `MCUplinkLive` | 2 streams, 1 record each, 3 attempts, losses | everything is delivered |

Streams meet only in `PickNext`, so one stream suffices for safety; three records in
batches of two make a batch that overlaps the one before it after a partial loss.

Fairness (`MCUplinkLive`): weak for the task and for the timeout of a batch, which a clock
provides. Strong for "publishing a batch succeeds", "the server gets a batch" and "an acknowledgement
arrives": what is sent again and again is not lost every time. Nothing is assumed of the choice of a stream.

Proved (`UplinkProofs`): `SettlementHolds`, and from it `ConfirmedIsStoredHolds` and
`ServerHasNoHolesHolds`, for any streams, limits and number of resets. `Settlement` says that every batch in the slot
or on the network holds synced records of the journal as they were written, and that
everything before it, before every acknowledged number and before every row is stored or was told as a gap. That
needs the journal to sync what it hands out: otherwise a reset gives a sent number to another
record. The proof shows first that what is settled stays settled (`SettledPersists`), then takes each action.

From it, with `TellsOfSynced` (an acknowledgement, however late, is one of synced records), `KeepsLogsHolds`: the uplink
uses each journal within `DurableLog`, the log `Journal` is proved to implement. `TypeOKHolds` bounds
the attempts of a batch: by `kMaxAttempts`, or by two where `Kconfig` allows a lower limit, since a batch is sent before
the limit is looked at.

## 6. Log capture and incidents

`LogCapture` follows a line from the hook to the sinks. What happens under the lock of
`LogRouter` is one step (`Log`, `Event`, `Flush`), the drain task is cut between taking a
record, printing it and storing it, and `log::init()` between `install()` and the
inspection of the boot, because `Journal::init()` logs there. A line stands for level, tag
and message together, which is what the limiter compares. `Reset` takes ordinary memory. A
warm one may come in the middle of anything that is pushed or taken (`FoundWarm`; also a deliberate restart, while
the other core of an ESP32 logs): the ring is then as before or after, empty, if its header
is ahead of the CRC, or, if only the slot was written, the same ring with another record in that slot, whole or torn
(`Interrupted`). The slot is that of no record, but in a full ring it is that of the oldest. The ring has its slots and
indices, since that is where it could go
wrong; the indices are numbers without a width (2^32 lines), and so is the count of a run,
which the drain task flushes every three seconds.

`BlackBox` is what the capture promises: a queue that never refuses a record, counts what
it gives up for lack of room, serves one record at a time in order and to each sink at most
once. It comes through a reset as it was, with what was just coming in, empty, or, if it is full, with
another record in place of its oldest, which nothing counts; the last is in section 11, with
the stricter `NothingIsSpoiled`. A record taken at the moment of a reset is
lost, here and in the code.

| run | bounds | shows |
| --- | --- | --- |
| `MCLogCapture` | 2 lines, 1 event, a ring of 2, 4 lines and events, 1 reset; lines with one character wrong, a tag of 3 and a message of 5 characters | runs are exact, evidence is told, implements `BlackBox`, runs and records come out, both parsers and both redactors agree |

A ring of two records is lapped by one step that pushes two (a count and the line that
ended the run), and four lines fill it beyond that. With two resets and three lines
the run also passes; it takes longer.

Fairness: the drain task, which has the lowest priority, runs when the others wait, and the clock it
reads in each pass goes on, so that among its passes there is always another one in
which the flush is due (strong fairness of `Flush`). The bound on lines means that
`NothingIsHeldBack` speaks of callers that fall silent in the end.

`LogText` has what happens to a line before that: the hook's parser and redactor, which work in place between
indices, and the ones on strings. A character is the class they tell apart. What they are given is constant:
`Parts`, of which lines of the documented form are made, `RawLines` for both parsers, `Messages` and `SecretLists`
for both redactors. In the run these are 216 lines, each of them with one character
replaced or left out, and every message of up to five characters with one or two secrets, of which some
overlap, some are shorter than their mask and one is a character of the mask. `LineIsReadTheSame` is
evaluated in the initial state alone. The overflow of the uptime is left out.

Proved (`LogCaptureProofs`): `CaptureImplementsBlackBox`, for every capacity and any lines
and resets, `EvidenceIsToldHolds` and `RunsAreExactHolds`. The core is arithmetic of the ring: two indices less
than a capacity apart have different slots (`SlotsApart`), hence a push disturbs no unread slot
but the one it evicts (`PushOne`, `PushTwo`), and a slot that is written before the indices is at most that of the
oldest record of a full ring (`OneSlotWritten`, `SlotSpoils`), also between the two pushes of one step
(`AllInterruptedSurvives`). The invariant adds to the types that the
drain task runs exactly from the inspection on, and that until then nothing of what the
reset left is gone. `RunsAreExactHolds` is by another invariant, `Exact`, which adds that a run that is counted is
one of lines. `TellOf` says where among the lines each record ends; a step of the hook either adds a record of
one line (`OneMoreIsTold`) or makes the last count one higher (`OneMoreIsCounted`), and a flush only moves the open
run among the records told.

`LineIsReadTheSameHolds` is for every well-formed line, every other line, every message that fits and every list
of registered secrets. The copy that the parser on strings shortens is the buffer between two indices, shifted
(`IsCopy`), so digits, separators and fields are found at the same distance (`CopiedDigitsEnd`, `CopiedSeparators`,
`ReadsBetween`); where the parts of a well-formed line lie (`LineIsLaidOut`) gives what is read back. The
redactors' loops are iterations of one step (`IterationExists`), again by least counterexample: the scan in place is
always between two steps of the search, never past the next occurrence (`IsBehind`), and it leaves nothing
behind it, since a mask over one place makes no new occurrence before it (`NothingNew`). The
last holds of secrets without a `*` (`IsUnlikeMask`), and the property promises only those hidden: a secret made of
asterisks is found in its own mask. Where a mask is longer than its secret the
two redactors differ when the buffer is full (`Redactor.h:50-53`), so agreement is said of the others.

## 7. WiFi

`Wifi` is the connection: the driver (external: `link`, its queue of events), the handler of its events,
the timer and its callback on a third task, and `applyCredentials()` in three steps, since the
others run in between. Every flag the tasks share is in `wifi`. `WifiSetup` adds the person at the
console, the dialog, an attempt with its verdict, and `wifi.json` written aside and
renamed, over cuts of power. Delays are not measured: a timer may fire at once, a wait may end at any time.

| run | bounds | shows |
| --- | --- | --- |
| `MCWifi` | 1 network and 1 mistyped name, 1 command, 2 boots, 2 events in the queue, out of range once, flash may fail | never stranded, an attempt is judged by its own events, typed-ahead keys answer nothing, what is saved is meant, the device comes back |

One command is a whole dialog with an attempt that may be saved, insisted on or reverted. Two commands also
pass (8.4 million states), in more time than a run should take. Two events are a late one of the
network that is left and one of the new.

Fairness: console, event task and timer run, the driver ends each attempt, and a network in range
with the right name does not refuse every attempt (strong fairness of `Join`).

`AttemptIsHonest` holds of attempts that begin while the network before is silent; `expectLeave_` cannot tell
a drop of the network before from the disconnection it asked for. Section 11 has what fails
when the access point itself says that it leaves, and when `esp_wifi_connect()` fails.

Proved (`WifiProofs`): `TypeOKHolds`, `AttemptIsHonestHolds`, `NothingTypedBlindHolds`, `SavedIsMeantHolds`, for any
networks, names and queue lengths and with every fault on, and `NeverStrandedHolds` under the two assumptions it is checked with
(`~ApLeaves`, `~ConnectCanFail`; see section 11). From the moment `beginAttempt()` clears the bits, three things happen
in turn: nothing is on its way, then only the leave the attempt asked for, then that leave and behind it events of the new network
(`AttemptInv`), so the bits are set by the new network. What is saved had an address (`JoinedInv`) or was insisted on. A connection that is down was told of
after the last leave of our own (`OnItsWay`), hence the handler or the timer will try again.

## 8. Commands and BLE

`Commands` follows a command from the MQTT client's task, which calls the handler with its lock held, over
the queue of mqtt_worker to the queue of a task, and the progress reports back to one publishing task that needs the
client's lock. `Ble` adds the NimBLE host, which carries commands itself, the phone, and the task that sends the
schema in chunks. What is waited for is modelled as such: room in the progress queue without limit,
room in a task's queue for 100 ms (the command is dropped, `TaskBase.cpp:41`), the mutex for a second.

| run | bounds | shows |
| --- | --- | --- |
| `MCChannels` | 1 task, every queue of 1 place, 4 commands and other stimuli, 2 MTUs, a schema of 3 or 2 chunks | everything is served, the schema arrives |

Queues of one place are full at once, which is what a circle of waiting takes. Four stimuli let both carriers
fill the progress queue while a phone comes and goes. `TaskController` prepared before commands come is
`StrayHandle = FALSE`; see section 11.

Fairness: FreeRTOS runs whoever can run, and gives room and mutex in turn, so the
publisher is not passed over. A phone that stays pairs, exchanges the MTU and asks again when a sync was cut
off. `SchemaArrives` speaks of such a phone.

Proved (`ChannelsProofs`), for any tasks, queues, commands, MTUs and schema: `TypeOKHolds`; `LocksAreHeldHolds`, the
safety half of `EverythingIsServed`: whoever has the client's lock has a message in hand and waits for nothing, and the
mutex is held while publishing and no longer; and `CanBeFoundHolds`, if no connection that is reported failed
(`~ConnectCanFail`): a phone that is gone was told of in an event still to be handled, or the device advertises
(`FoundOrToldOf`). That assumption is the finding in section 11.

## 9. Bring-up, sessions and log levels

`Link` is the way from power-on to the last subscription: the account on flash, registration and
types over HTTP with retries and lost answers, then the topics, each put into a map and subscribed to in two
steps, while sessions begin and break and the event handler walks the maps on the client's task. The
broker keeps a session's subscriptions, the retained configuration and the status that birth and will leave. The server
gives a new token with each registration. `Levels` is `Log.cpp` with `LevelResolver.h`: three origins of a
level, what ESP-IDF was told for each tag and for all others, the sinks, the file. Both files may fail to open, which
leaves what was in them, or to be written, which leaves less than a configuration or an account, and the code sees neither:
`unsaved` and `unstored` note what could not be stored, and the properties except it, and no more. A
configuration longer than 511 bytes is stored and not read back (`fits`). Under another account than it has, or none, a
device registers all the same; whether the server answers one without an account is left open (`Nobody`).

| run | bounds | shows |
| --- | --- | --- |
| `MCLink` | 1 tag, 3 levels, 3 configurations, 3 firmwares, 1 power cut, 1 fault (a connection that breaks, or a file that is not opened or not written), 2 messages, 1 failed registration, a queue of 1 place | sessions are complete, the device registers as configured, levels are as asked, the configuration arrives |

The three configurations raise one tag, everything, in more than 511 bytes, and everything for a while; the firmwares are one account over the
network, another over both channels, and that one over BLE only. Two messages fill the queue. With two faults the safety properties also pass. The application sets levels and sinks
when bring-up is over (`AppWaits`); the safety properties also pass when it does not wait.

Fairness: bring-up, the client's task and mqtt_worker run, and the server answers in the end, since failures are bounded,
but not a device without an account. `ConfigArrives` excepts that device, and a configuration that found the queue full.

Proved (`LinkProofs`): `SessionIsCompleteHolds` and `RegistersAsConfiguredHolds`, for any firmwares with the channels
of `LinkAssumption`, any configurations, retries, power cuts, broken connections and messages. That a session is
complete once its handler has run is not inductive, as nothing says how far a running handler is:
`SessionInvariant` adds that the broker has every topic of the maps which the handler has passed, but the one between
its map and its subscription (`Covered`), and that there is no client before messaging (`ClientInOrder`). The
subscription waits for the client's lock, so it never falls behind the handler unseen. `RegistrationInvariant` follows the account: from the
comparison into the file, from the file into the request, from the answer back into the file, as far as each could be
stored: types go out under the account that was registered, whichever that is. `TypeOKHolds` and
`LevelsAreAsAskedHolds` come from `LevelsInvariant`, for any tags, levels and configurations: a configuration that is in
effect and would not come back is in the worker's hands, could not be stored, or is in the file and too long (`WorkerInOrder`), every change of an origin tells ESP-IDF of all the tags it was ever told of, with one
reading of the clock, and the ceiling is recomputed from the sinks each time (`LevelsInOrder`). All three
are also invariants of `MCLink`'s instance in TLC.

## 10. Sensors and turns

`Sensors` has policies, one buffer for each sensorUid and the flush task, cut between moving
a buffer out and clearing it. One reading is marked, any one, and the others are counted. `Telemetry` puts its frames
into the Data stream of `UplinkTurns`, where one batch holds the backlog.

| run | bounds | shows |
| --- | --- | --- |
| `MCTelemetry` | 1 sensorUid, 3 policies, up to 2 readings and 2 seconds; 3 streams, answers take 2 passes | no reading is forgotten on its way, each is offered or known lost, every stream gets turns |

The two properties are checked in two scenes of one specification, readings that never end and backlogs that
never end, chosen at the start.

Fairness: the tasks run and the clock goes on; no answer ever has to come, but a batch without
one is given up in the end, since its attempts are counted (strong fairness of `GivesUp`).

A reading can be lost, which the property allows and the code does not tell: between the move and the clear of
`SensorReportBuffer::flush()`, and when the frame cannot be written. `setReporting()` does not change buffers there are.

Proved (`TelemetryProofs`): `ReadingsAreKeptHolds`, for any sensorUids, policies, sizes and streams beside Data. The
invariant is inductive as it stands: the types, that a buffer with readings has a policy that flushes it
(`BuffersAreFlushable`), and that a reading is where the next step will look for it (`ReadingIsSomewhere`). It needs a
mounted Data stream (`TelemetryAssumption`) and a `NoUid` that is no sensorUid.

## 11. Findings

`MCOtaUnproven` is a run that TLC must find violated, with the lines that disagree in
`PROJECT.json`: a reset between the switch of partitions and the save of the record, and the new image is kept
without validation.

The passing runs leave out these properties, or the conditions under which they fail; adding the
property to the `.cfg`, or changing a constant, gives the counterexample:

| run, change | property | what happens |
| --- | --- | --- |
| `MCOta`, `FactoryListed = FALSE` | `BoundedTrials` | After a rollback that was impossible (`OtaController.cpp:313`) the attempts are set to 0 and the release is tried again without limit; `runningPendingVerify_` stays true, so manifests are answered "busy". |
| `MCJournal`, `Stream = "Data"` | `BatchIsRight` | Ages are measured with an uptime that restarts (`Journal.cpp:478`): a middle segment is deleted and a batch spans the hole, against `Journal.h:45-46`. |
| `MCJournal`, `CrashInReclaim = TRUE` | `BatchIsRight` | A reset between the removal of a segment and the save of the index (`Journal.cpp:491`, `:521`): the index lists a file that is gone, and reading yields nothing. |
| `MCJournal`, Events, `MaxSegments = 2` | `PositionIsSeq` | With the table full, `openSegmentBytes` restarts at 0 (`Journal.cpp:443`), and a failed write cuts the file too short. |
| `MCJournal`, `IndexCanFail = TRUE` | `LossIsTold` | The index was not saved at a rotation: the new segment is deleted at boot, without a gap event. |
| the same | `AckedIsWritten` | Two failed index saves put the next number behind the acknowledged one. |
| `MCJournal`, `GapEventsCanBeLost = TRUE` | `LossIsTold` | The loss is durable before the event that tells of it (`Journal.cpp:502`, `:521`). |
| `MCUplink` | `StoredOnce` | A record sent again after a reset has another boot number (`Uplink.cpp:235`), so the server's key (`RemoteChannel.cpp:134-135`, `BootCounter.h:8-9`) takes it for another record. |
| `MCTelemetry`, `AnswerPasses = 0` | `EveryStreamGetsATurn` | `pendingSince` is cleared only by an empty backlog (`Uplink.cpp:184`): with answers within one pass a stream past its quota wins every pass, and Events and Logs send nothing. |
| `MCLogCapture` | `CleanRestartIsQuiet` | Nothing empties the RTC store, so after the first event every deliberate restart is reported as an incident, against `IncidentDetector.h:57-63`. |
| `MCLogCapture` | `NothingIsSpoiled` | A push writes the slot before the indices and the CRC (`NoinitRing.cpp:65`, `:66`, `:74`), and the CRC covers the header only: a reset in between leaves a full ring valid, its oldest unread record replaced or torn and not counted, against `NoinitRing.h:47` ("never a silent drop"). |
| `MCLink` | `RegistersWhateverFails` | `saveUserCredentials()` does nothing when the file does not open and does not look at the write (`Storage.cpp:174-178`), and its callers cannot know (`CommonSetup.cpp:57`, `AuthenticationController.cpp:66`): the device registers under the old account, or none, and sends its types with the old token. |
| `MCLink` | `RestartKeepsLevels` | A configuration is in effect, and then the file does not open or the write is not looked at (`Log.cpp:125-126`), or it is longer than the 511 bytes that are read (`Log.cpp:133-134`): a restart drops it or brings back an older one, against `Log.h:67-68` ("surviving a reboot"). |
| `MCWifi`, `ApLeaves = TRUE` | `NeverStranded` | An access point that leaves gives the reason that `expectLeave_` waits for (`WifiNetworkConnectionController.cpp:225-227`): its drop is taken for our own disconnection, and nothing connects again. |
| `MCWifi`, `ConnectCanFail = TRUE` | `NeverStranded` | `esp_wifi_connect()` fails in the timer's callback: no event follows, and the timer fires once. |
| `MCWifi` | `InUseIsTrue` | The network works but could not be saved (`WifiSetupConsole.cpp:182`): `inUse` keeps the one before, and a later attempt that fails goes back to that. |
| `MCChannels` | `ChunksFit` | The MTU of the last connection is used for the next one (`BleChannel.cpp:442`): chunks are longer than it takes. |
| `MCChannels` | `CanBeFound` | A connection that fails is not followed by advertising (`BleChannel.cpp:228-230`). |
| `MCChannels`, `StrayHandle = TRUE` | `NeverFaults` | A phone sends a command before `init()`; the queue handle tested for null (`TaskController.cpp:258`) was never initialised (`TaskController.h:65`). |
| `MCChannels`, `TaskCanFail = TRUE` | `SchemaArrives` | The sync task cannot be created (`BleChannel.cpp:414`), and the flag stays set. |

Read while modelling, without a property of their own: a remote configuration that is an empty object "changes nothing" (`RemoteLogConfig.h:29-30`)
but clears the remote origin; its "default" never changes what ESP-IDF is told of all other tags;
one with an end that is retained begins anew at each
reconnection; a sink that asks for more than the capture level (`Log.cpp:92-93`) does not get it of tags with a level of their own.
A type whose registration fails stays unregistered until the next boot, and `deviceDescription` is not compared
(`CommonSetup.cpp:51`). `TaskController.cpp:115` reads a field of a command that was not set when its key is missing.

## 12. What is not modelled

The components not in bold above: the health report and spans format and write; write accounting counts (the daily budget is off by
default and only warns); the clock asks the server for hour, minute and second one after the other and counts on, for
the poll for scheduled tasks, of which none is ever stored (`Storage.cpp:241` makes a directory where nothing is mounted);
the SIM7600 driver sends one AT command at a time with fixed delays, and its controllers are stubs; CBOR and
JSON are one pass over data. `LoggingCommChannel` cannot be constructed, and nothing calls `flushBeforeSleep()`.

Of the modelled components: the text of the NVS record, of manifests and of commands (what is refused is modelled),
frames cut short (dropped by the scan), an account or a configuration of the log that is on flash and cannot be read, mounting, usage queries, counters of the uplink, fragments of an MQTT message longer than the
client's buffer (`WifiMqttController.cpp:190`), a reset of the BLE host (it is only logged), the wording of the
console. Data races are interleavings of whole reads and writes: the uplink's slot, the flags of
the WiFi controller, the maps of topics (`WifiMqttController.cpp:131`, `:152`), the levels. An insertion into a map
or vector while another task walks it is undefined in C++, and atomic here.

Model-checked only, since liveness and `ENABLED` are out of the prover's reach: all liveness
(`EveryStreamGetsATurn`, `ReadingsAreOffered`, `NothingIsHeldBack`, `Drained`, `UpdatesEnd`, `EverythingIsServed`,
`SchemaArrives`, `ConfigArrives`, `ComesBack`), under the
fairness each section states. The library's induction theorems cannot be used either; where a recursive
function had to be reasoned about (`ReadBatch`, `Redacted`), a least counterexample takes their place.
