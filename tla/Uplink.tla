------------------------------- MODULE Uplink -------------------------------
(***************************************************************************)
(* The way of a record from the journal to the server                      *)
(* (components/croniot/src/telemetry/Uplink.cpp): the croniot_uplink task, *)
(* the acknowledgements that mqtt_worker handles while it runs, a network  *)
(* that loses, delays, reorders and duplicates, the server, and resets.    *)
(*                                                                         *)
(* The journal is what DurableLog promises of each stream; a record is     *)
(* known by its sequence number and the boot that wrote it.  serviceOnce() *)
(* is cut where an acknowledgement can come in between and matter: after   *)
(* the choice of a stream, and between taking a batch and sending it.      *)
(* Durations are left out: a timeout passes at any time.                   *)
(***************************************************************************)
EXTENDS UplinkScheduler, Sequences, FiniteSets

CONSTANTS
  Streams,      \* the streams that are mounted
  BatchLimit,   \* kMaxBatchRecords
  MaxAttempts,  \* kMaxAttempts
  MaxSeq,       \* bound: records written to a stream
  MaxBoots,     \* bound: boots
  Duplicates,   \* the network may deliver twice
  Reclaims      \* space pressure may delete records that were not acknowledged

ASSUME UplinkAssumption ==
  /\ Streams \subseteq AllStreams
  /\ BatchLimit \in Nat \ {0}
  /\ MaxAttempts \in Nat
  /\ MaxSeq \in Nat
  /\ MaxBoots \in Nat \ {0}
  /\ {Duplicates, Reclaims} \subseteq BOOLEAN

VARIABLES
  boot,      \* BootCounter
  journal,   \* stream -> oldest kept, next, synced below, acked
  written,   \* stream -> the boot that wrote each record, by sequence number
  pc,        \* where serviceOnce() is
  picked,    \* the stream it serves
  slot,      \* inFlight_
  overdue,   \* pendingSinceMs_ lies further back than the stream's quota
  uplinks,   \* batches on their way to the server
  acks,      \* acknowledgements on their way back
  stored,    \* rows the server holds
  gaps       \* history: stream -> records reclaimed before they were acknowledged

deviceVars == <<boot, journal, written, gaps>>
taskVars == <<pc, picked, slot, overdue>>
netVars == <<uplinks, acks, stored>>
vars == <<deviceVars, taskVars, netVars>>

FreshLog == [oldest |-> 0, next |-> 0, synced |-> 0, acked |-> -1]
EmptySlot == [active |-> FALSE, first |-> 0, frames |-> <<>>, attempt |-> 0, due |-> FALSE]

Init ==
  /\ boot = 1
  /\ journal = [s \in Streams |-> FreshLog]
  /\ written = [s \in Streams |-> <<>>]
  /\ pc = "idle"
  /\ picked = NoStream
  /\ slot = [s \in Streams |-> EmptySlot]
  /\ overdue = [s \in Streams |-> FALSE]
  /\ uplinks = {}
  /\ acks = {}
  /\ stored = {}
  /\ gaps = [s \in Streams |-> {}]

-----------------------------------------------------------------------------
(* The journal                                                             *)

FirstUnacked(s) == journal[s].acked + 1

Appended(s) ==
  /\ journal[s].next < MaxSeq
  /\ journal' = [journal EXCEPT ![s].next = @ + 1]
  /\ written' = [written EXCEPT ![s] = Append(@, boot)]
  /\ UNCHANGED <<boot, gaps, taskVars, netVars>>

\* Whole segments go, so synced records only; Events stay.
Reclaimed(s) ==
  /\ Reclaims
  /\ s # "Events"
  /\ \E oldest \in journal[s].oldest + 1 .. journal[s].synced :
       /\ journal' = [journal EXCEPT ![s].oldest = oldest]
       /\ gaps' = [gaps EXCEPT ![s] =
                     @ \cup {n \in journal[s].oldest .. oldest - 1 : n > journal[s].acked}]
  /\ UNCHANGED <<boot, written, taskVars, netVars>>

\* readFrom(): from the oldest kept on, never more than a batch.
ReadStart(s, from) == IF from > journal[s].oldest THEN from ELSE journal[s].oldest
ReadEnd(s, from) ==
  LET limit == ReadStart(s, from) + BatchLimit
  IN  IF limit < journal[s].next THEN limit ELSE journal[s].next
ReadFrames(s, from) == SubSeq(written[s], ReadStart(s, from) + 1, ReadEnd(s, from))

\* It closes the open segment's file if it reads there, which syncs all of it.
ReadUnsynced(s, from) == {journal[s].synced}
ReadSynced(s, from) ==
  IF ReadEnd(s, from) > journal[s].synced
  THEN {journal[s].next} ELSE {journal[s].synced, journal[s].next}

-----------------------------------------------------------------------------
(* The croniot_uplink task                                                 *)

\* A retry keeps the batch it sends again; only its own records count as its backlog.
ResumeSeq(s) == IF slot[s].active THEN slot[s].first ELSE FirstUnacked(s)
HasPending(s) == journal[s].next > ResumeSeq(s)

BacklogOf(s) ==
  [hasPending |-> HasPending(s), inFlight |-> slot[s].active,
   retryDue |-> slot[s].active /\ slot[s].due, overdue |-> HasPending(s) /\ overdue[s]]
Backlogs == [s \in Streams |-> BacklogOf(s)]

\* A stream without backlog starts waiting afresh.
StillOverdue == [s \in Streams |-> overdue[s] /\ HasPending(s)]

\* serviceOnce() up to pickNext().
Pick ==
  /\ pc = "idle"
  /\ PickNext(Backlogs) # NoStream
  /\ picked' = PickNext(Backlogs)
  /\ overdue' = StillOverdue
  /\ pc' = "picked"
  /\ UNCHANGED <<slot, deviceVars, netVars>>

\* Nothing to send: the next pass is 200 ms later.
NothingToDo ==
  /\ pc = "idle"
  /\ PickNext(Backlogs) = NoStream
  /\ overdue' = StillOverdue
  /\ UNCHANGED <<pc, picked, slot, deviceVars, netVars>>

\* RetryPolicy::shouldGiveUp(), of the attempt that begins.
NeverGivesUp(attempt) == FALSE
GivesUp(attempt) == attempt + 1 >= MaxAttempts

\* The retry of a batch, or its end: the records stay in the journal.
Retry ==
  /\ pc = "picked"
  /\ slot[picked].active
  /\ IF ~slot[picked].due
     THEN pc' = "idle" /\ UNCHANGED slot
     ELSE IF GivesUp(slot[picked].attempt)
     THEN /\ slot' = [slot EXCEPT ![picked].attempt = @ + 1, ![picked].active = FALSE]
          /\ pc' = "idle"
     ELSE /\ slot' = [slot EXCEPT ![picked].attempt = @ + 1]
          /\ pc' = "send"
  /\ UNCHANGED <<picked, overdue, deviceVars, netVars>>

\* Whatever became of the last batch, the next one begins with what is not acknowledged.
FetchAfterGivenUp(s) ==
  IF GivesUp(slot[s].attempt - 1) THEN slot[s].first + Len(slot[s].frames) ELSE FirstUnacked(s)
FetchFrom(s) == FirstUnacked(s)

\* A new batch, from the first record that is not acknowledged.
Fetch ==
  /\ pc = "picked"
  /\ ~slot[picked].active
  /\ LET from == FetchFrom(picked)
         frames == ReadFrames(picked, from)
     IN  IF frames = <<>>
         THEN pc' = "idle" /\ UNCHANGED <<journal, slot>>
         ELSE /\ \E synced \in ReadSynced(picked, from) :
                   journal' = [journal EXCEPT ![picked].synced = synced]
              /\ slot' = [slot EXCEPT ![picked] =
                            [active |-> TRUE, first |-> ReadStart(picked, from),
                             frames |-> frames, attempt |-> 1, due |-> @.due]]
              /\ pc' = "send"
  /\ UNCHANGED <<boot, written, gaps, picked, overdue, netVars>>

\* sendBatch(): the envelope carries the boot that sends.
Envelope(s) == [boot |-> boot, stream |-> s, first |-> slot[s].first, frames |-> slot[s].frames]

\* publishLogBatch(), publishDeviceEvent(), publishSensorBatch(): QoS 1 without a session.
Publish(m) == uplinks' \in {uplinks, uplinks \cup {m}}

Send ==
  /\ pc = "send"
  /\ Publish(Envelope(picked))
  /\ slot' = [slot EXCEPT ![picked].due = FALSE]
  /\ pc' = "idle"
  /\ UNCHANGED <<picked, overdue, acks, stored, deviceVars>>

\* The acknowledgement timeout or the backoff of a batch ends.
RetryFallsDue(s) ==
  /\ slot[s].active
  /\ ~slot[s].due
  /\ slot' = [slot EXCEPT ![s].due = TRUE]
  /\ UNCHANGED <<pc, picked, overdue, deviceVars, netVars>>

\* A stream has had a backlog for as long as its quota.
QuotaPasses(s) ==
  /\ s # "Events"
  /\ HasPending(s)
  /\ ~overdue[s]
  /\ overdue' = [overdue EXCEPT ![s] = TRUE]
  /\ UNCHANGED <<pc, picked, slot, deviceVars, netVars>>

-----------------------------------------------------------------------------
(* Acknowledgements, on mqtt_worker                                        *)

\* What is left on the network once a message is delivered.
Delivered(messages, m) == IF Duplicates THEN messages ELSE messages \ {m}

\* JournalCursor::ack().
AckedUpToStale(log, upTo) == IF upTo >= log.next THEN log.next - 1 ELSE upTo
AckedUpTo(log, upTo) ==
  LET known == IF upTo >= log.next THEN log.next - 1 ELSE upTo
  IN  IF log.next # 0 /\ known > log.acked THEN known ELSE log.acked

\* onAck(): the cursor moves, and the slot is free if the answer may be for its batch.
OnAck(a) ==
  /\ journal' = [journal EXCEPT ![a.stream].acked = AckedUpTo(journal[a.stream], a.upTo)]
  /\ slot' = [slot EXCEPT ![a.stream].active = @ /\ a.upTo + 1 < slot[a.stream].first]

AckArrives(a) ==
  /\ OnAck(a)
  /\ acks' = Delivered(acks, a)
  /\ UNCHANGED <<boot, written, gaps, pc, picked, overdue, uplinks, stored>>

-----------------------------------------------------------------------------
(* The network and the server                                              *)

\* The rows of a batch: numbered by position, told apart by the boot of the envelope.
Rows(m) ==
  {[boot |-> m.boot, stream |-> m.stream, seq |-> m.first + k - 1, writer |-> m.frames[k]] :
     k \in 1 .. Len(m.frames)}

\* The server commits a batch, then acknowledges the last record in it.
ServerCommits(m) ==
  /\ stored' = stored \cup Rows(m)
  /\ acks' = acks \cup {[stream |-> m.stream, upTo |-> m.first + Len(m.frames) - 1]}
  /\ uplinks' = Delivered(uplinks, m)
  /\ UNCHANGED <<deviceVars, taskVars>>

\* A message is lost (QoS 1 without a session, or mqtt_worker's queue is full).  A network
\* that duplicates keeps every message for ever, and one that never arrives is lost.
Lose ==
  /\ ~Duplicates
  /\ \/ \E m \in uplinks : uplinks' = uplinks \ {m} /\ UNCHANGED acks
     \/ \E a \in acks : acks' = acks \ {a} /\ UNCHANGED uplinks
  /\ UNCHANGED <<stored, deviceVars, taskVars>>

-----------------------------------------------------------------------------
(* Resets                                                                  *)

\* A reset takes RAM and the end of each log that is not synced.
Reboot ==
  /\ boot < MaxBoots
  /\ boot' = boot + 1
  /\ \E next \in [Streams -> 0 .. MaxSeq] :
       /\ \A s \in Streams : next[s] \in journal[s].synced .. journal[s].next
       /\ journal' = [s \in Streams |-> [journal[s] EXCEPT !.next = next[s], !.synced = next[s]]]
       /\ written' = [s \in Streams |-> SubSeq(written[s], 1, next[s])]
  /\ pc' = "idle"
  /\ picked' = NoStream
  /\ slot' = [s \in Streams |-> EmptySlot]
  /\ overdue' = [s \in Streams |-> FALSE]
  /\ UNCHANGED <<gaps, netVars>>

-----------------------------------------------------------------------------

Next ==
  \/ \E s \in Streams : Appended(s) \/ Reclaimed(s) \/ RetryFallsDue(s) \/ QuotaPasses(s)
  \/ Pick \/ NothingToDo \/ Retry \/ Fetch \/ Send
  \/ \E a \in acks : AckArrives(a)
  \/ \E m \in uplinks : ServerCommits(m)
  \/ Lose
  \/ Reboot

Spec == Init /\ [][Next]_vars

\* The task runs, time passes, and of what is sent again and again something comes through.
StreamFairness(s) ==
  /\ WF_vars(RetryFallsDue(s))
  /\ SF_vars(Send /\ picked = s /\ Envelope(s) \in uplinks')
  /\ SF_vars(\E m \in uplinks : m.stream = s /\ ServerCommits(m))
  /\ SF_vars(\E a \in acks : a.stream = s /\ AckArrives(a))
Fairness == WF_vars(Pick \/ Retry \/ Fetch \/ Send) /\ \A s \in Streams : StreamFairness(s)
LiveSpec == Spec /\ Fairness

-----------------------------------------------------------------------------
(* Properties                                                              *)

Records == [boot : 1 .. MaxBoots, stream : Streams, seq : 0 .. MaxSeq - 1, writer : 1 .. MaxBoots]
Logs == [oldest : 0 .. MaxSeq, next : 0 .. MaxSeq, synced : 0 .. MaxSeq, acked : -1 .. MaxSeq - 1]

\* A batch is sent once whatever the limit: the attempt that is too many is the second at least.
Attempts == 0 .. IF MaxAttempts > 2 THEN MaxAttempts ELSE 2

TypeOK ==
  /\ boot \in 1 .. MaxBoots
  /\ journal \in [Streams -> Logs]
  /\ written \in [Streams -> Seq(1 .. MaxBoots)]
  /\ pc \in {"idle", "picked", "send"}
  /\ picked \in Streams \cup {NoStream}
  /\ pc # "idle" => picked \in Streams
  /\ slot \in [Streams -> [active : BOOLEAN, first : 0 .. MaxSeq, frames : Seq(1 .. MaxBoots),
                           attempt : Attempts, due : BOOLEAN]]
  /\ overdue \in [Streams -> BOOLEAN]
  /\ uplinks \subseteq [boot : 1 .. MaxBoots, stream : Streams, first : 0 .. MaxSeq,
                         frames : Seq(1 .. MaxBoots)]
  /\ acks \subseteq [stream : Streams, upTo : 0 .. MaxSeq - 1]
  /\ stored \subseteq Records
  /\ gaps \in [Streams -> SUBSET (0 .. MaxSeq - 1)]

\* The server holds the record that has this number in the journal.
Stored(s, n) ==
  \E row \in stored : row.stream = s /\ row.seq = n /\ row.writer = written[s][n + 1]

\* Only an acknowledgement moves the cursor (Uplink.h): what the device takes for confirmed,
\* and may delete, is at the server, however acknowledgements are lost, late or repeated and
\* whatever a reset took.
ConfirmedIsStored ==
  \A s \in Streams : \A n \in 0 .. journal[s].acked :
    n \in gaps[s] \/ (n < journal[s].next /\ Stored(s, n))

\* Batches never run ahead of a record that is still to be delivered: the server's copy of a
\* stream has no hole that a gap event does not tell of.
ServerHasNoHoles ==
  \A row \in stored : \A n \in 0 .. row.seq - 1 :
    n \in gaps[row.stream] \/ (n < journal[row.stream].next /\ Stored(row.stream, n))

\* The server tells records apart by (device, boot, stream, seq): it holds each once.
StoredOnce ==
  \A row, other \in stored :
    row.stream = other.stream /\ row.seq = other.seq /\ row.writer = other.writer =>
      row.boot = other.boot

\* What is written is delivered and confirmed in the end: giving up on a batch, a lost
\* message or a reset only delays it (Uplink.h).
Drained == <>[](\A s \in Streams : FirstUnacked(s) = journal[s].next)
-----------------------------------------------------------------------------
(* The inductive invariant of ConfirmedIsStored and ServerHasNoHoles       *)

\* A record's fate is settled: it is at the server, and no reset can take it from the
\* journal, or its loss was told.
Settled(s, n) == n \in gaps[s] \/ (n < journal[s].synced /\ Stored(s, n))
SettledBelow(s, n) == \A m \in 0 .. n - 1 : Settled(s, m)

\* A batch holds synced records of the journal, and all before them are settled.
IsBatch(s, first, frames) ==
  /\ first \in Nat
  /\ frames \in Seq(Nat)
  /\ frames # <<>>
  /\ first + Len(frames) <= journal[s].synced
  /\ \A k \in 1 .. Len(frames) : frames[k] = written[s][first + k]
  /\ SettledBelow(s, first)

LogShape == [oldest : Nat, next : Nat, synced : Nat, acked : Int]
SlotShape == [active : BOOLEAN, first : Nat, frames : Seq(Nat), attempt : Nat, due : BOOLEAN]

Shape ==
  /\ boot \in Nat
  /\ journal \in [Streams -> LogShape]
  /\ written \in [Streams -> Seq(Nat)]
  /\ gaps \in [Streams -> SUBSET Nat]
  /\ slot \in [Streams -> SlotShape]
  /\ pc \in {"idle", "picked", "send"}
  /\ pc # "idle" => picked \in Streams

LogSettled(s) ==
  /\ Len(written[s]) = journal[s].next
  /\ journal[s].synced <= journal[s].next
  /\ journal[s].acked >= -1
  /\ SettledBelow(s, journal[s].acked + 1)
  /\ SettledBelow(s, journal[s].oldest)

SlotSettled(s) ==
  slot[s].active \/ (pc = "send" /\ picked = s) => IsBatch(s, slot[s].first, slot[s].frames)

UplinkSettled(m) == m.stream \in Streams /\ IsBatch(m.stream, m.first, m.frames)

AckSettled(a) == a.stream \in Streams /\ a.upTo \in Nat /\ SettledBelow(a.stream, a.upTo + 1)

RowSettled(row) == row.stream \in Streams /\ row.seq \in Nat /\ SettledBelow(row.stream, row.seq)

Settlement ==
  /\ Shape
  /\ \A s \in Streams : LogSettled(s) /\ SlotSettled(s)
  /\ \A m \in uplinks : UplinkSettled(m)
  /\ \A a \in acks : AckSettled(a)
  /\ \A row \in stored : RowSettled(row)
-----------------------------------------------------------------------------
(* What KeepsLogs and the types need besides                               *)

\* Space pressure takes synced records only, and only of such does an acknowledgement tell:
\* what a reset takes was never on its way.
TellsOfSynced ==
  /\ \A s \in Streams : journal[s].oldest <= journal[s].synced
  /\ \A a \in acks : a.upTo < journal[a.stream].synced

\* A batch that is in flight may be sent once more, or be given up.
HasAttemptsLeft ==
  \A s \in Streams : slot[s].active => slot[s].attempt = 1 \/ slot[s].attempt < MaxAttempts
=============================================================================
