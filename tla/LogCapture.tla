----------------------------- MODULE LogCapture -----------------------------
(***************************************************************************)
(* From a log line to the sinks, over resets: the hook behind ESP_LOGx     *)
(* (log/LogRouter.cpp), the rate limiter, the ring that survives a warm    *)
(* reset (log/NoinitRing.cpp), the store in RTC memory, the croniot_log    *)
(* task that empties the ring (log/LogTask.cpp), and what a boot makes of  *)
(* the records it finds (log/IncidentRecovery.cpp).                        *)
(*                                                                         *)
(* A line is its level, tag and message together, which is what the        *)
(* limiter compares; a record is a line and how often it was repeated.     *)
(* Lines in another format than esp_log's go past all this to the console  *)
(* and are left out, like levels and sequence numbers; what is done to the *)
(* text of a line before all this is LogText's, with a property here.  The *)
(* durable copy of an event is the Events stream of Journal, which nothing *)
(* here reads.                                                             *)
(*                                                                         *)
(* What happens under LogRouter's lock is one step, but for a reset, which *)
(* may come in the middle of it: Reset then finds a header with a wrong    *)
(* CRC, hence nothing, or, where the slot is written and the header not    *)
(* yet, the ring with another record in that slot.                         *)
(***************************************************************************)
EXTENDS LogText, FiniteSets

CONSTANTS
  Lines,         \* what may be logged
  MountLines,    \* what may be logged before the boot is inspected
  ErrorLines,    \* the lines of level Error
  Events,        \* names of events
  Incident,      \* "incident_previous_boot"
  Torn,          \* what a record written in part says
  ConsoleWants,  \* what passes the console's threshold
  FlashWants,    \* what passes the threshold of the Logs stream
  Capacity,      \* NoinitRing::kCapacity
  RtcCapacity,   \* RtcCriticalStore::kCapacity
  NoLine,        \* no line yet
  NoReport,      \* nothing was said about the boot before
  MaxSaid,       \* bound: lines and events of all boots
  MaxResets      \* bound: resets

ASSUME CaptureAssumption ==
  /\ MountLines \subseteq Lines
  /\ ErrorLines \subseteq Lines
  /\ Capacity \in Nat \ {0}
  /\ RtcCapacity \in Nat \ {0}
  /\ MaxSaid \in Nat
  /\ MaxResets \in Nat
  /\ NoLine \notin Lines \cup Events \cup {Incident, Torn}
  /\ NoReport \notin [ring : Nat, rtc : Nat]

Names == Lines \cup Events \cup {Incident, Torn}
Records == [line : Names, times : Nat]
NoRecord == [line |-> NoLine, times |-> 0]
TornRecord == [line |-> Torn, times |-> 0]

SinkNames == {"console", "flash"}
(* Reset causes: isCrashLikeReset() tells the first two from the third. *)
Causes == {"crash", "restart", "cold"}

VARIABLES
  ring,      \* slots, writeIndex, readIndex and dropped, in .noinit memory
  rtc,       \* records in RTC memory
  limiter,   \* lastTag_, lastMessage_, lastLevel_ and repeatCount_
  boot,      \* how far log::init() is
  cause,     \* esp_reset_reason()
  drain,     \* where the croniot_log task is
  held,      \* the record it took
  output,    \* sink -> the record that reached it last
  said,      \* lines and events so far
  resets,    \* resets so far
  report,    \* what IncidentRecovery::run() said in this boot
  left,      \* history: the records found in ring and store at the reset
  heard,     \* history: the lines of this boot
  told       \* history: the records made of them

memory == <<ring, rtc>>
task == <<drain, held>>
start == <<boot, cause, report, left>>
bounds == <<said, resets>>
vars == <<memory, limiter, start, task, output, bounds, heard, told>>
-----------------------------------------------------------------------------
(* The ring *)

Rings ==
  [slots : [0..(Capacity - 1) -> Records \cup {NoRecord}], write : Nat, read : Nat, dropped : Nat]

EmptyRing == [slots |-> [i \in 0..(Capacity - 1) |-> NoRecord], write |-> 0, read |-> 0, dropped |-> 0]

Size(r) == r.write - r.read

(* Mutant: one record too early. *)
LapsEarly(r) == r.write + 1 - r.read >= Capacity

(* The producer laps the consumer. *)
Laps(r) == r.write + 1 - r.read > Capacity

(* Mutant: the index is not moved past the slot that was overwritten. *)
PushedOver(r, record) ==
  [r EXCEPT !.slots[r.write % Capacity] = record, !.write = @ + 1]

Pushed(r, record) ==
  [slots |-> [r.slots EXCEPT ![r.write % Capacity] = record],
   write |-> r.write + 1,
   read |-> IF Laps(r) THEN r.write + 1 - Capacity ELSE r.read,
   dropped |-> IF Laps(r) THEN r.dropped + 1 ELSE r.dropped]

RtcPushed(n) == IF n < RtcCapacity THEN n + 1 ELSE n

(* The limiter: a run of one line, and how many of it were held back. *)

FreshLimiter == [last |-> NoLine, repeats |-> 0]

(* Mutant: a new run begins with the count of the one before. *)
FedKeepingCount(lim, l) ==
  IF lim.last = l THEN [lim EXCEPT !.repeats = @ + 1] ELSE [lim EXCEPT !.last = l]

Fed(lim, l) ==
  IF lim.last = l THEN [lim EXCEPT !.repeats = @ + 1] ELSE [last |-> l, repeats |-> 0]

Original(l) == [line |-> l, times |-> 0]

Summary(lim) == [line |-> lim.last, times |-> lim.repeats]

PendingFlush(lim) == IF lim.repeats > 0 THEN <<Summary(lim)>> ELSE <<>>

Emitted(lim, l) ==
  IF lim.last = l THEN <<>>
  ELSE IF lim.repeats > 0 THEN <<Summary(lim), Original(l)>> ELSE <<Original(l)>>

Flushed(lim) == [lim EXCEPT !.repeats = 0]

PushedAll(r, rs) ==
  CASE Len(rs) = 0 -> r
    [] Len(rs) = 1 -> Pushed(r, rs[1])
    [] OTHER       -> Pushed(Pushed(r, rs[1]), rs[2])
-----------------------------------------------------------------------------
Init ==
  /\ ring = EmptyRing
  /\ rtc = 0
  /\ limiter = FreshLimiter
  /\ boot = "off"
  /\ cause = "cold"
  /\ drain = "absent"
  /\ held = NoRecord
  /\ output = [s \in SinkNames |-> NoRecord]
  /\ said = 0
  /\ resets = 0
  /\ report = NoReport
  /\ left = [ring |-> 0, rtc |-> 0]
  /\ heard = <<>>
  /\ told = <<>>

(* Mutant: the drain task is started before the boot was inspected. *)
InstallAndStart ==
  /\ boot = "off"
  /\ boot' = "mounting"
  /\ drain' = "pop"
  /\ UNCHANGED <<memory, limiter, cause, report, left, held, output, bounds, heard, told>>

(* LogRouter::install(): the hook takes every line from here on. *)
Install ==
  /\ boot = "off"
  /\ boot' = "mounting"
  /\ UNCHANGED <<memory, limiter, cause, report, left, task, output, bounds, heard, told>>

(* The lines that may come now. *)
Loggable ==
  {l \in Lines : said < MaxSaid /\ (boot = "running" \/ (boot = "mounting" /\ l \in MountLines))}

IsCritical(l) == l \in ErrorLines /\ limiter.last # l

(* LogRouter::vprintfHook(), on the task that logs: any one, at any moment, *)
(* croniot_log inside a journal append that fails included.                 *)
Log(l) ==
  /\ l \in Loggable
  /\ ring' = PushedAll(ring, Emitted(limiter, l))
  /\ rtc' = IF IsCritical(l) THEN RtcPushed(rtc) ELSE rtc
  /\ limiter' = Fed(limiter, l)
  /\ said' = said + 1
  /\ heard' = Append(heard, l)
  /\ told' = told \o Emitted(limiter, l)
  /\ UNCHANGED <<start, task, output, resets>>

(* pushEvent(): an event is never limited, and goes to RTC memory too. *)
PushEvent(e) == ring' = Pushed(ring, Original(e)) /\ rtc' = RtcPushed(rtc)

(* log::event() *)
Event(e) ==
  /\ boot = "running"
  /\ said < MaxSaid
  /\ PushEvent(e)
  /\ said' = said + 1
  /\ UNCHANGED <<limiter, start, task, output, resets, heard, told>>

CrashLike(c) == c \in {"crash", "restart"}

RaisesIncident(c, r, n) == CrashLike(c) /\ (Size(r) > 0 \/ n > 0)

(* IncidentRecovery::run(), then LogTask::start(). *)
Inspect ==
  /\ boot = "mounting"
  /\ IF RaisesIncident(cause, ring, rtc)
     THEN /\ report' = [ring |-> Size(ring), rtc |-> rtc]
          /\ PushEvent(Incident)
     ELSE UNCHANGED <<report, memory>>
  /\ boot' = "running"
  /\ drain' = "pop"
  /\ UNCHANGED <<limiter, cause, left, held, output, bounds, heard, told>>
-----------------------------------------------------------------------------
(* LogTask::run() *)

Pop ==
  /\ drain = "pop"
  /\ Size(ring) > 0
  /\ held' = ring.slots[ring.read % Capacity]
  /\ ring' = [ring EXCEPT !.read = @ + 1]
  /\ drain' = "print"
  /\ UNCHANGED <<rtc, limiter, start, output, bounds, heard, told>>

(* The ring was empty: vTaskDelay(). *)
Pause ==
  /\ drain = "pop"
  /\ Size(ring) = 0
  /\ drain' = "flush"
  /\ UNCHANGED <<memory, limiter, start, held, output, bounds, heard, told>>

(* ConsoleSink::write(): the line with its count, in either format. *)
Written(record) == [output EXCEPT !["console"] = record]

(* A torn record may have the level of either. *)
Show ==
  /\ drain = "print"
  /\ \/ held.line \in ConsoleWants \cup {Torn} /\ output' = Written(held)
     \/ held.line \notin ConsoleWants /\ UNCHANGED output
  /\ drain' = "store"
  /\ UNCHANGED <<memory, limiter, start, held, bounds, heard, told>>

(* Journal::appendLog(), which may fail: nothing asks it. *)
Store ==
  /\ drain = "store"
  /\ \/ held.line \in FlashWants \cup {Torn} /\ output' = [output EXCEPT !["flash"] = held]
     \/ UNCHANGED output
  /\ held' = NoRecord
  /\ drain' = "flush"
  /\ UNCHANGED <<memory, limiter, start, bounds, heard, told>>

(* Mutant: the time is noted, the run is not released. *)
FlushForgotten ==
  /\ drain = "flush"
  /\ drain' = "pop"
  /\ UNCHANGED <<memory, limiter, start, held, output, bounds, heard, told>>

(* LogRouter::flushRateLimiterPending(), once in kFlushIntervalTicks. *)
Flush ==
  /\ drain = "flush"
  /\ ring' = PushedAll(ring, PendingFlush(limiter))
  /\ told' = told \o PendingFlush(limiter)
  /\ limiter' = Flushed(limiter)
  /\ drain' = "pop"
  /\ UNCHANGED <<rtc, start, held, output, bounds, heard>>

NotYetDue ==
  /\ drain = "flush"
  /\ drain' = "pop"
  /\ UNCHANGED <<memory, limiter, start, held, output, bounds, heard, told>>

Drain == Pop \/ Pause \/ Show \/ Store \/ Flush \/ NotYetDue

-----------------------------------------------------------------------------
(* Resets *)

(* The first assignment of push(), in a full ring to the oldest record. *)
SlotWritten(r, record) == [r EXCEPT !.slots[r.write % Capacity] = record]

(* What a reset finds of a push: the ring before or after it; none, where   *)
(* the header is ahead of its CRC; or the slot written, or a part of it,    *)
(* and the header as it was.                                                *)
Interrupted(r, record) ==
  {r, SlotWritten(r, record), SlotWritten(r, TornRecord), EmptyRing, Pushed(r, record)}

AllInterrupted(r, rs) ==
  CASE Len(rs) = 0 -> {r}
    [] Len(rs) = 1 -> Interrupted(r, rs[1])
    [] OTHER       -> Interrupted(r, rs[1]) \cup Interrupted(Pushed(r, rs[1]), rs[2])

(* RTC memory as it was, or with a count that is ahead of its CRC. *)
RtcInterrupted(n) == {n} \cup (IF n < RtcCapacity THEN {0} ELSE {})

(* A reset while rs are pushed, of which the last goes to RTC memory after  *)
(* that if it is critical.                                                  *)
FoundPushing(rs, critical) ==
  \/ ring' \in AllInterrupted(ring, rs) /\ rtc' = rtc
  \/ critical /\ ring' = PushedAll(ring, rs) /\ rtc' \in RtcInterrupted(rtc)

(* A reset while a record is taken: the read index is ahead of its CRC. *)
FoundPopping == Size(ring) > 0 /\ ring' = EmptyRing /\ rtc' = rtc

(* NoinitRing::init() and RtcCriticalStore::init() after a warm reset, which *)
(* may have come in the middle of any of the steps above.                    *)
FoundWarm ==
  \/ UNCHANGED memory
  \/ \E l \in Loggable : FoundPushing(Emitted(limiter, l), IsCritical(l))
  \/ \E e \in Events : boot = "running" /\ said < MaxSaid /\ FoundPushing(<<Original(e)>>, TRUE)
  \/ /\ boot = "mounting"
     /\ RaisesIncident(cause, ring, rtc)
     /\ FoundPushing(<<Original(Incident)>>, TRUE)
  \/ drain = "flush" /\ FoundPushing(PendingFlush(limiter), FALSE)
  \/ drain = "pop" /\ FoundPopping

(* The same after any other: nothing is retained. *)
FoundCold == ring' = EmptyRing /\ rtc' = 0

(* Ordinary memory is lost in every reset. *)
Reset(c) ==
  /\ resets < MaxResets
  /\ resets' = resets + 1
  /\ cause' = c
  /\ IF CrashLike(c) THEN FoundWarm ELSE FoundCold
  /\ left' = [ring |-> Size(ring'), rtc |-> rtc']
  /\ report' = NoReport
  /\ boot' = "off"
  /\ drain' = "absent"
  /\ held' = NoRecord
  /\ limiter' = FreshLimiter
  /\ heard' = <<>>
  /\ told' = <<>>
  /\ UNCHANGED <<output, said>>

Next ==
  \/ Install
  \/ Inspect
  \/ \E l \in Lines : Log(l)
  \/ \E e \in Events : Event(e)
  \/ Drain
  \/ \E c \in Causes : Reset(c)

Spec == Init /\ [][Next]_vars

(* croniot_log runs whenever the tasks above it wait, as they do, and the   *)
(* clock it looks at in every pass goes on.                                 *)
Fairness == WF_vars(Install \/ Inspect) /\ WF_vars(Drain) /\ SF_vars(Flush)

FairSpec == Spec /\ Fairness
-----------------------------------------------------------------------------
TypeOK ==
  /\ ring \in Rings
  /\ Size(ring) \in 0..Capacity
  /\ rtc \in 0..RtcCapacity
  /\ limiter \in [last : Lines \cup {NoLine}, repeats : Nat]
  /\ boot \in {"off", "mounting", "running"}
  /\ cause \in Causes
  /\ drain \in {"absent", "pop", "print", "store", "flush"}
  /\ held \in Records \cup {NoRecord}
  /\ output \in [SinkNames -> Records \cup {NoRecord}]
  /\ report \in [ring : Nat, rtc : Nat] \cup {NoReport}
  /\ left \in [ring : Nat, rtc : Nat]

(* A record stands for one line, or for as many as it counts. *)
LinesOf(record) == IF record.times = 0 THEN 1 ELSE record.times

(* The records rs, each written out, are the lines ls: record i stands for  *)
(* those after ends[i - 1], up to ends[i].                                  *)
Before(ends, i) == IF i = 1 THEN 0 ELSE ends[i - 1]

TellOf(rs, ls) ==
  \E ends \in [1..Len(rs) -> 1..Len(ls)] :
    /\ \A i \in 1..Len(rs) :
         /\ ends[i] = Before(ends, i) + LinesOf(rs[i])
         /\ \A k \in Before(ends, i) + 1..ends[i] : ls[k] = rs[i].line
    /\ Len(ls) = Before(ends, Len(rs) + 1)

(* The records made of the lines of a boot, with each count written out,    *)
(* and the run that is still open, are those lines: no line is dropped, no  *)
(* count is off by one, and none moves past a line of another kind, however *)
(* the callers and the flush of the drain task interleave (RateLimiter.h:11 *)
(* "compression, not filtering").                                           *)
RunsAreExact == TellOf(told \o PendingFlush(limiter), heard)

(* What a warm reset left unread, or in RTC memory, is reported before the  *)
(* drain task, which could hide it, takes the first record; and the report  *)
(* counts all of it (IncidentRecovery.cpp:58, Log.cpp:166).                 *)
EvidenceIsTold ==
  drain # "absent" /\ CrashLike(cause) /\ left.ring + left.rtc > 0 =>
    /\ report # NoReport
    /\ report.ring >= left.ring
    /\ report.rtc >= left.rtc

(* Nothing is held back.  A run that stays open although its line no longer *)
(* comes is told all the same, and what a boot finds in the ring, and what  *)
(* is captured, leaves it again (LogTask.cpp:70, :90).                      *)
NothingIsHeldBack ==
  /\ (boot = "running" /\ limiter.repeats > 0) ~> (limiter.repeats = 0)
  /\ Size(ring) > 0 ~> Size(ring) = 0

(* The functions of the hook do what their counterparts on strings do       *)
(* (LineParser.h:36-44, Redactor.h:46-53): a line of the documented form,   *)
(* whatever its colours, is read back, both parsers take and refuse the     *)
(* same lines, and both redactors, where no mask is longer than its secret, *)
(* make the same of a message.  In place it never outgrows its buffer, and  *)
(* no registered secret is left in it, but one that a mask may be taken     *)
(* for.  Said of the state before the first boot only, since it does not    *)
(* depend on the state.                                                     *)
LineIsReadTheSame == boot = "off" /\ resets = 0 => HotPathAgrees

(* "oldest unread record is overwritten, never a silent drop"               *)
(* (NoinitRing.h:47): what a reset does not lose with all the rest, and     *)
(* does not count, is still what it was.                                    *)
NothingIsSpoiled ==
  [][\A c \in Causes : Reset(c) =>
       \A i \in ring.read..(ring.write - 1) :
         i >= ring'.read /\ Size(ring') > 0 => ring'.slots[i % Capacity] = ring.slots[i % Capacity]]_vars

(* "a clean esp_restart() (e.g. after an OTA) with an empty ring and no     *)
(* coredump is not an incident, it's routine" (IncidentDetector.h:57).      *)
CleanRestartIsQuiet == cause = "restart" /\ left.ring = 0 => report = NoReport
-----------------------------------------------------------------------------
(* LogCapture keeps what BlackBox promises. *)
QueueOf(r) == [i \in 1..Size(r) |-> r.slots[(r.read + i - 1) % Capacity]]

ToServe ==
  CASE drain = "print" -> SinkNames
    [] drain = "store" -> {"flash"}
    [] OTHER           -> {}

B == INSTANCE BlackBox WITH
       Room <- Capacity, Sinks <- SinkNames, None <- NoRecord, waiting <- QueueOf(ring),
       lost <- ring.dropped, serving <- [record |-> held, sinks |-> ToServe]

ImplementsBlackBox == B!Spec
=============================================================================
