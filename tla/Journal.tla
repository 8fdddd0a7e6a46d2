------------------------------ MODULE Journal ------------------------------
(***************************************************************************)
(* One stream of the journal (components/croniot/src/log/Journal.cpp):     *)
(* segment files with records, the index file, the cursor, the recovery at *)
(* boot, acknowledgements, reading for the uplink and reclaiming space.    *)
(*                                                                         *)
(* Every public operation holds the journal's mutex from end to end, so    *)
(* each is one action, cut only where a crash leaves a different flash:    *)
(* after the write that fills a segment, and between the removals and the  *)
(* index of a reclaim.                                                     *)
(*                                                                         *)
(* Abstractions.  A frame is the sequence number stamped in its record,    *)
(* and all frames have one size: bytes are counted in frames.  A frame cut *)
(* short is no frame (recoverOpenSegment drops it).  Free space is any, so *)
(* the reclaimer deletes any number of segments, in its order.  Truncating *)
(* a file works; the partition is mounted; the daily write budget, which   *)
(* only adds an event, is left out.                                        *)
(***************************************************************************)
EXTENDS Integers, Sequences, FiniteSets

CONSTANTS
  Stream,            \* "Logs", "Events" or "Data"
  SegmentRotate,     \* kSegmentRotateBytes, in frames
  MaxSegments,       \* kMaxTrackedSegments
  BatchLimit,        \* maxRecords of readFrom()
  Retention,         \* kDataRetentionSeconds, in units of the model's clock
  MaxSeq,            \* bound: sequence numbers handed out
  MaxUptime,         \* bound: the clock saturates here
  WritesCanFail,     \* fopen() or fwrite() of a segment may fail
  IndexCanFail,      \* writing or renaming the index may fail
  CrashInReclaim,    \* a crash may fall between the removals and the index
  GapEventsCanBeLost \* a crash may lose gap events that are not yet synced

ASSUME JournalAssumption ==
  /\ Stream \in {"Logs", "Events", "Data"}
  /\ SegmentRotate \in Nat \ {0}
  /\ MaxSegments \in Nat \ {0}
  /\ BatchLimit \in Nat \ {0}
  /\ Retention \in Nat
  /\ MaxSeq \in Nat
  /\ MaxUptime \in Nat
  /\ {WritesCanFail, IndexCanFail, CrashInReclaim, GapEventsCanBeLost} \subseteq BOOLEAN

VARIABLES
  \* RAM (StreamState), lost at every reset
  pc,         \* "off", or where the task that holds the mutex is
  nextSeq,    \* cursor
  oldestSeq,
  acked,      \* ackedSeq, or NoAck
  segs,       \* segments[]: id -> what the table says; the last one is open
  openBytes,  \* openSegmentBytes
  handle,     \* openFile is open: what it wrote is not synced
  uptime,
  \* Flash
  index,      \* the index file
  files,      \* segment files: id -> the frames written
  synced,     \* frames of the open segment's file a crash cannot take away
  \* History, read by the properties only
  owed,       \* sequence numbers of the records synced once and not acknowledged
  reported,   \* sequence numbers that log_gap events told of
  telling     \* those whose event is not yet synced

ramVars == <<nextSeq, oldestSeq, acked, segs, openBytes, handle, uptime>>
flashVars == <<index, files, synced>>
historyVars == <<owed, reported, telling>>
vars == <<pc, ramVars, flashVars, historyVars>>

NoAck == -1
Oldest(S) == CHOOSE i \in S : \A j \in S : i <= j
Newest(S) == CHOOSE i \in S : \A j \in S : i >= j

\* The frames of a segment's file, up to one that is cut short.
Frames(f, id) == IF id \in DOMAIN f THEN f[id] ELSE <<>>

\* FrameScanner: how many a file has.
CompleteFrames(f, id) == Len(Frames(f, id))
Content(f, id) == {Frames(f, id)[k] : k \in 1 .. Len(Frames(f, id))}

\* JournalLock: whoever holds the mutex is done.
MutexIsFree == pc = "ready"

-----------------------------------------------------------------------------
(* Segments and the index                                                  *)

OpenId(table) == Newest(DOMAIN table)

NewSegment(seq) == [oldest |-> seq, newest |-> seq, size |-> 0, closedAt |-> 0]

\* The index of a stream that starts afresh, as loadIndex() fills it in.
FreshIndex ==
  [nextSeq |-> 0, oldestSeq |-> 0, acked |-> NoAck, segs |-> [id \in {0} |-> NewSegment(0)],
   openBytes |-> 0]

\* saveIndex(): a new index or, if it fails, the old one.
SaveIndex(next, oldest, ack, table, bytes) ==
  LET new == [nextSeq |-> next, oldestSeq |-> oldest, acked |-> ack, segs |-> table,
              openBytes |-> bytes]
  IN  index' \in IF IndexCanFail THEN {new, index} ELSE {new}

Init ==
  /\ pc = "off"
  /\ nextSeq = 0 /\ oldestSeq = 0 /\ acked = NoAck
  /\ segs = FreshIndex.segs
  /\ openBytes = 0
  /\ handle = FALSE
  /\ uptime = 0
  /\ index = FreshIndex
  /\ files = << >>
  /\ synced = 0
  /\ owed = {}
  /\ reported = {}
  /\ telling = {}

\* Closing the open segment's file syncs it.
Sync ==
  /\ handle' = FALSE
  /\ synced' = Len(Frames(files', OpenId(segs)))
  /\ owed' = owed \cup (Content(files', OpenId(segs)) \ 0 .. acked)

\* removeOrphanSegments(): files the index does not list are deleted.
AllFiles == files
ListedFiles == [id \in DOMAIN files \cap DOMAIN index.segs |-> files[id]]

\* recoverOpenSegment(): the open segment as its file tells it.
RecoveredUnderflow(segment, frames) ==
  [segment EXCEPT !.newest = segment.oldest + frames - 1, !.size = frames]
Recovered(segment, frames) ==
  [segment EXCEPT !.newest = IF frames > 0 THEN segment.oldest + frames - 1 ELSE segment.oldest,
                  !.size = frames]

RecoveredNextSeq(segment, frames) == segment.oldest + frames

\* loadIndex(): the index, and the open segment as its file tells it.
Boot ==
  /\ pc = "off"
  /\ files' = ListedFiles
  /\ LET open == OpenId(index.segs)
         frames == CompleteFrames(files', open)
     IN  /\ segs' = [index.segs EXCEPT ![open] = Recovered(@, frames)]
         /\ nextSeq' = RecoveredNextSeq(index.segs[open], frames)
         /\ openBytes' = frames
         /\ synced' = frames
  /\ oldestSeq' = index.oldestSeq
  /\ acked' = index.acked
  /\ pc' = "ready"
  /\ UNCHANGED <<handle, uptime, index, historyVars>>

\* What the open file's handle wrote since it was opened may go, in part or whole.
Crash ==
  /\ pc # "off"
  /\ pc = "reclaim" => CrashInReclaim
  /\ \E kept \in synced .. Len(Frames(files, OpenId(segs))) :
       files' = [id \in DOMAIN files |->
                   IF id = OpenId(segs) THEN SubSeq(files[id], 1, kept) ELSE files[id]]
  /\ owed' = owed \cup (Content(files', OpenId(segs)) \ 0 .. acked)
  /\ synced' = Len(Frames(files', OpenId(segs)))
  /\ reported' = IF GapEventsCanBeLost THEN reported \ telling ELSE reported
  /\ telling' = {}
  /\ pc' = "off"
  /\ nextSeq' = 0 /\ oldestSeq' = 0 /\ acked' = NoAck
  /\ segs' = FreshIndex.segs
  /\ openBytes' = 0
  /\ handle' = FALSE
  /\ uptime' = 0
  /\ UNCHANGED index

-----------------------------------------------------------------------------
(* Writing                                                                 *)

\* appendToStream() and appendRaw(), up to the rotation: the frame goes to the open
\* segment; one that fills it closes it.
AppendFrame ==
  /\ MutexIsFree
  /\ nextSeq < MaxSeq
  /\ LET open == OpenId(segs)
     IN  /\ files' = [id \in DOMAIN files \cup {open} |->
                        IF id = open THEN Append(Frames(files, open), nextSeq) ELSE files[id]]
         /\ segs' = [segs EXCEPT ![open].newest = nextSeq, ![open].size = openBytes + 1]
  /\ nextSeq' = nextSeq + 1
  /\ openBytes' = openBytes + 1
  /\ IF openBytes' >= SegmentRotate
     THEN pc' = "rotate" /\ Sync
     ELSE pc' = pc /\ handle' = TRUE /\ UNCHANGED <<synced, owed>>
  /\ UNCHANGED <<oldestSeq, acked, uptime, index, reported, telling>>

\* writeFrame() failing: nothing opened, or the file cut back to openSegmentBytes.
AppendFails ==
  /\ WritesCanFail
  /\ MutexIsFree
  /\ LET open == OpenId(segs)
     IN  files' = [id \in DOMAIN files \cup {open} |->
                     IF id = open
                     THEN SubSeq(Frames(files, open), 1,
                                 IF Len(Frames(files, open)) < openBytes
                                 THEN Len(Frames(files, open)) ELSE openBytes)
                     ELSE files[id]]
  /\ Sync
  /\ UNCHANGED <<pc, nextSeq, oldestSeq, acked, segs, openBytes, uptime, index, reported, telling>>

\* The rest of rotateIfNeeded(): a new segment if the table has room for it, and the index.
Rotate ==
  /\ pc = "rotate"
  /\ LET open == OpenId(segs)
         closed == [segs EXCEPT ![open].closedAt = uptime]
     IN  segs' = IF Cardinality(DOMAIN segs) < MaxSegments
                 THEN [id \in DOMAIN segs \cup {open + 1} |->
                         IF id = open + 1 THEN NewSegment(nextSeq) ELSE closed[id]]
                 ELSE closed
  /\ openBytes' = 0
  /\ synced' = Len(Frames(files, OpenId(segs')))
  /\ SaveIndex(nextSeq, oldestSeq, acked, segs', 0)
  /\ pc' = "ready"
  /\ UNCHANGED <<nextSeq, oldestSeq, acked, handle, uptime, files, historyVars>>

-----------------------------------------------------------------------------
(* Reading and acknowledging                                               *)

\* One past the highest acknowledged sequence number.
LastAcked == IF acked = NoAck THEN 0 ELSE acked
FirstUnacked == acked + 1

NoBatch == [first |-> 0, frames |-> <<>>]

\* A segment's frames are numbered by their position; those below nextWantedSeq are skipped.
Skipped(wanted, oldest) == IF wanted > oldest THEN wanted - oldest ELSE 0

\* accumulateFrames(): the first frame taken numbers the batch.
FirstSeqOfLast(batch, seq) == seq
FirstSeq(batch, seq) == IF batch.frames = <<>> THEN seq ELSE batch.first

\* The scan of readFrom(): what it wants next, what it has, and whether it ended, after a
\* segment that is empty, has nothing it wants, cannot be opened, or is read.
ReadSegment(before, id) ==
  LET frames == Frames(files, id)
      oldest == segs[id].oldest
      skip == Skipped(before.wanted, oldest)
      room == BatchLimit - Len(before.batch.frames)
      taken == SubSeq(frames, skip + 1,
                      IF Len(frames) < skip + room THEN Len(frames) ELSE skip + room)
  IN  IF \/ id \notin DOMAIN segs \/ before.ended
         \/ segs[id].size = 0 \/ segs[id].newest < before.wanted
      THEN before
      ELSE IF id \notin DOMAIN files
      THEN [before EXCEPT !.ended = TRUE]
      ELSE [wanted |-> oldest + Len(frames),
            batch |-> [first |-> FirstSeq(before.batch, oldest + skip),
                       frames |-> before.batch.frames \o taken],
            ended |-> Len(taken) = room]

\* The scan after the segments up to an id.
ReadScan(from) ==
  LET scan[id \in -1 .. OpenId(segs)] ==
        IF id = -1 THEN [wanted |-> from, batch |-> NoBatch, ended |-> FALSE]
        ELSE ReadSegment(scan[id - 1], id)
  IN  scan

ReadBatch(from) == ReadScan(from)[OpenId(segs)].batch

\* The scan comes to the open segment.
ReadsOpen(from) ==
  LET before == ReadScan(from)[OpenId(segs) - 1]
  IN  /\ ~before.ended
      /\ segs[OpenId(segs)].size # 0
      /\ segs[OpenId(segs)].newest >= before.wanted

\* readFrom(): all it changes is that the open segment's file is closed before it is read.
Read ==
  /\ MutexIsFree
  /\ handle
  /\ ReadsOpen(FirstUnacked)
  /\ UNCHANGED files
  /\ Sync
  /\ UNCHANGED <<pc, nextSeq, oldestSeq, acked, segs, openBytes, uptime, index, reported, telling>>

\* JournalCursor::ack().
AckedUpToStale(upTo) ==
  IF nextSeq = 0 THEN acked ELSE IF upTo >= nextSeq THEN nextSeq - 1 ELSE upTo
AckedUpTo(upTo) ==
  LET known == IF upTo >= nextSeq THEN nextSeq - 1 ELSE upTo
  IN  IF nextSeq # 0 /\ known > acked THEN known ELSE acked

\* The server acknowledges records it was sent, at once, late or twice: they were read,
\* so they were synced.
Ack ==
  /\ MutexIsFree
  /\ \E upTo \in owed \cup 0 .. acked : acked' = AckedUpTo(upTo)
  /\ SaveIndex(nextSeq, oldestSeq, acked', segs, openBytes)
  /\ owed' = owed \ 0 .. acked'
  /\ UNCHANGED <<pc, nextSeq, oldestSeq, segs, openBytes, handle, uptime, files, synced,
                 reported, telling>>

-----------------------------------------------------------------------------
(* Reclaiming space                                                        *)

Closed == DOMAIN segs \ {OpenId(segs)}
FullyAcked(id) == acked # NoAck /\ segs[id].newest <= acked
Age(id) == IF uptime > segs[id].closedAt THEN uptime - segs[id].closedAt ELSE 0

\* SpaceReclaimer's order of sacrifice.
Tier(id) ==
  CASE FullyAcked(id) -> 1
    [] ~FullyAcked(id) /\ Stream = "Data" /\ Age(id) > Retention -> 2
    [] ~FullyAcked(id) /\ Stream = "Logs" -> 3
    [] OTHER -> 4

NewestVictim(id) ==
  \A other \in Closed :
    \/ Tier(id) < Tier(other)
    \/ Tier(id) = Tier(other) /\ id >= other
NextVictim(id) ==
  \A other \in Closed :
    \/ Tier(id) < Tier(other)
    \/ Tier(id) = Tier(other) /\ id <= other

\* The range JournalCursor::reclaimTo() reports as a gap.
GapInclusive(newOldest) ==
  IF newOldest <= oldestSeq THEN {} ELSE FirstUnacked .. newOldest
Gap(newOldest) ==
  LET from == IF oldestSeq > FirstUnacked THEN oldestSeq ELSE FirstUnacked
  IN  IF newOldest <= oldestSeq THEN {} ELSE from .. newOldest - 1

\* maybeReclaim(): events are never reclaimed.
Reclaimable == Stream # "Events"

\* One segment that reclaimMount() deletes.
ReclaimOne(victim) ==
  /\ pc \in {"ready", "reclaim"}
  /\ Reclaimable
  /\ NextVictim(victim)
  /\ files' = [id \in DOMAIN files \ {victim} |-> files[id]]
  /\ segs' = [id \in DOMAIN segs \ {victim} |-> segs[id]]
  /\ LET newOldest == segs[victim].newest + 1
     IN  /\ oldestSeq' = IF newOldest > oldestSeq THEN newOldest ELSE oldestSeq
         /\ reported' = reported \cup Gap(newOldest)
         /\ telling' = IF GapEventsCanBeLost THEN telling \cup Gap(newOldest) ELSE telling
  /\ pc' = "reclaim"
  /\ UNCHANGED <<nextSeq, acked, openBytes, handle, uptime, index, synced, owed>>

ReclaimSave ==
  /\ pc = "reclaim"
  /\ SaveIndex(nextSeq, oldestSeq, acked, segs, openBytes)
  /\ pc' = "ready"
  /\ UNCHANGED <<ramVars, files, synced, historyVars>>

\* The Events stream's own file is closed (it is read, or rotated).
GapEventsSynced ==
  /\ MutexIsFree
  /\ telling # {}
  /\ telling' = {}
  /\ UNCHANGED <<pc, ramVars, flashVars, owed, reported>>

\* Only the age of Data counts.
UptimePasses ==
  /\ MutexIsFree
  /\ Stream = "Data"
  /\ uptime < MaxUptime
  /\ uptime' = uptime + 1
  /\ UNCHANGED <<pc, nextSeq, oldestSeq, acked, segs, openBytes, handle, flashVars, historyVars>>

-----------------------------------------------------------------------------

Next ==
  \/ Boot \/ Crash
  \/ AppendFrame \/ AppendFails \/ Rotate
  \/ Read \/ Ack
  \/ (\E id \in Closed : ReclaimOne(id)) \/ ReclaimSave \/ GapEventsSynced
  \/ UptimePasses

Spec == Init /\ [][Next]_vars

-----------------------------------------------------------------------------
(* Properties                                                              *)

Seqs == 0 .. MaxSeq
Segment == [oldest : Seqs, newest : Seqs, size : Nat, closedAt : 0 .. MaxUptime]
IsTable(table) ==
  /\ DOMAIN table \subseteq Nat /\ DOMAIN table # {}
  /\ \A id \in DOMAIN table : table[id] \in Segment

TypeOK ==
  /\ pc \in {"off", "ready", "rotate", "reclaim"}
  /\ nextSeq \in Seqs
  /\ oldestSeq \in Seqs
  /\ acked \in Seqs \cup {NoAck}
  /\ IsTable(segs)
  /\ openBytes \in Nat
  /\ handle \in BOOLEAN
  /\ uptime \in 0 .. MaxUptime
  /\ IsTable(index.segs)
  /\ index.nextSeq \in Seqs /\ index.oldestSeq \in Seqs /\ index.acked \in Seqs \cup {NoAck}
  /\ index.openBytes \in Nat
  /\ DOMAIN files \subseteq Nat
  /\ \A id \in DOMAIN files : files[id] \in Seq(Seqs)
  /\ synced \in Nat
  /\ owed \subseteq Seqs
  /\ telling \subseteq reported /\ reported \subseteq Seqs

\* What the journal goes by, or will go by once it has booted.
TableNow == IF pc = "off" THEN index.segs ELSE segs
AckedNow == IF pc = "off" THEN index.acked ELSE acked
Kept == UNION {Content(files, id) : id \in DOMAIN TableNow}

\* A record's sequence number is its position in its segment (Journal.h): the uplink
\* numbers batches by position while the server acknowledges by the number stamped.
Numbered(table, f) ==
  \A id \in DOMAIN table \cap DOMAIN f :
    \A k \in 1 .. Len(f[id]) : f[id][k] = table[id].oldest + k - 1
PositionIsSeq == Numbered(TableNow, files)

\* A record that reached the flash is kept until the server confirms it, or its loss is
\* told: there is never a silent hole (JournalCursor.h).
NoSilentHole == \A s \in owed : s \in Kept \/ s \in reported \/ s <= AckedNow

\* What is reported lost is lost.
GapsAreHonest == pc # "off" => reported \cap Kept = {}

\* Every record that was owed is kept, confirmed or reported, and only what is gone is
\* reported: over crashes, repairs, reclaiming and failing writes (Journal.cpp:478-531).
LossIsTold == NoSilentHole /\ GapsAreHonest

\* Whatever the uplink reads, the records in a batch are firstSeq, firstSeq + 1, ...
BatchIsContiguous ==
  pc = "ready" =>
    LET batch == ReadBatch(FirstUnacked)
    IN  \A k \in 1 .. Len(batch.frames) : batch.frames[k] = batch.first + k - 1

\* While there is a record the server has not confirmed, reading yields the oldest of
\* them: reclaimed ones are skipped, never waited for (Journal.h, readFrom).
ReadServesOldest ==
  LET waiting == {s \in Kept : s > acked}
      batch == ReadBatch(FirstUnacked)
  IN  pc = "ready" /\ waiting # {} =>
        batch.frames # <<>> /\ batch.first = Oldest(waiting)

\* What the uplink reads is a run without holes from the oldest unconfirmed record on
\* (Journal.cpp:533-640).
BatchIsRight == BatchIsContiguous /\ ReadServesOldest

\* The table of segments never gets so full that a segment is rotated in place.
TableHasRoom == pc = "rotate" => Cardinality(DOMAIN segs) < MaxSegments

\* Nothing is confirmed that was never written: the stream would look empty until
\* nextSeq caught up (JournalCursor.h).
AckedIsWritten == pc = "ready" => acked < nextSeq

-----------------------------------------------------------------------------
(* The inductive invariant of PositionIsSeq                                *)

Tabled(table) ==
  /\ DOMAIN table \subseteq Nat
  /\ \E id \in DOMAIN table : \A other \in DOMAIN table : id >= other
  /\ table \in [DOMAIN table -> [oldest : Nat, newest : Nat, size : Nat, closedAt : Nat]]

Shape ==
  /\ pc \in {"off", "ready", "rotate", "reclaim"}
  /\ nextSeq \in Nat /\ openBytes \in Nat /\ synced \in Nat /\ uptime \in Nat
  /\ Tabled(segs) /\ Tabled(index.segs)
  /\ files \in [DOMAIN files -> Seq(Nat)]

\* The next record goes where its number says, openSegmentBytes (to which a failed write
\* cuts the file back) is the length of the open segment's file, and the index, however old, places the
\* records of the segments it lists where the table in RAM does.
Placed ==
  /\ Numbered(index.segs, files)
  /\ pc # "off" =>
       /\ Numbered(segs, files)
       /\ DOMAIN files \subseteq DOMAIN segs
       /\ nextSeq = segs[OpenId(segs)].oldest + Len(Frames(files, OpenId(segs)))
       /\ openBytes = Len(Frames(files, OpenId(segs)))
       /\ \A id \in DOMAIN index.segs : id <= OpenId(segs)
       /\ \A id \in DOMAIN index.segs \cap DOMAIN segs :
            index.segs[id].oldest = segs[id].oldest

Positions == Shape /\ Placed

-----------------------------------------------------------------------------
(* The inductive invariant of TypeOK                                       *)

\* One past the number of the last frame of a segment.
End(table, f, id) == table[id].oldest + CompleteFrames(f, id)

\* No segment has a frame whose number was not handed out, and a closed one has a newest.
Within(table) ==
  /\ OpenId(table) \in DOMAIN table /\ DOMAIN table \subseteq 0 .. OpenId(table)
  /\ \A id \in DOMAIN table : End(table, files, id) <= MaxSeq
  /\ \A id \in DOMAIN table \ {OpenId(table)} : table[id].newest < MaxSeq

Fits ==
  /\ Within(index.segs)
  /\ pc # "off" =>
       /\ Within(segs)
       /\ DOMAIN files \subseteq DOMAIN segs
       /\ End(segs, files, OpenId(segs)) <= nextSeq
       /\ OpenId(index.segs) <= OpenId(segs)
       /\ \A id \in DOMAIN index.segs \cap DOMAIN segs :
            index.segs[id].oldest = segs[id].oldest
  /\ pc = "rotate" => segs[OpenId(segs)].newest < MaxSeq

Types == TypeOK /\ Fits

-----------------------------------------------------------------------------
(* The inductive invariants of the refinement and of LossIsTold, for a     *)
(* stream whose index is written, and saved before a reset may follow a    *)
(* reclaim                                                                 *)

\* The segments follow each other, and every closed one has the records its entry says.
Chained(table, f) ==
  /\ \E id \in DOMAIN table : \A other \in DOMAIN table : id <= other
  /\ \A id \in DOMAIN table \ {OpenId(table)} :
       /\ id + 1 \in DOMAIN table
       /\ CompleteFrames(f, id) > 0
       /\ table[id].newest = End(table, f, id) - 1
  /\ \A i, j \in DOMAIN table : i < j => End(table, f, i) <= table[j].oldest

\* They have every record from one number on.
Covers(table, f, from) ==
  /\ \A id \in DOMAIN table : from <= table[id].oldest
  /\ \A s \in from .. End(table, f, OpenId(table)) - 1 :
       \E id \in DOMAIN table : table[id].oldest <= s /\ s < End(table, f, id)

\* Nothing is owed or confirmed that is not synced.
Safe(table, f, sync, confirmed, due) ==
  /\ sync <= CompleteFrames(f, OpenId(table))
  /\ confirmed < table[OpenId(table)].oldest + sync
  /\ \A s \in due : s < table[OpenId(table)].oldest + sync

Sound(table, f, from, sync, confirmed, due) ==
  Chained(table, f) /\ Covers(table, f, from) /\ Safe(table, f, sync, confirmed, due)

\* The index read back at a boot is never out of date.
IndexIsCurrent == ~IndexCanFail /\ ~CrashInReclaim

OldestNow == IF pc = "off" THEN index.oldestSeq ELSE oldestSeq

\* A boot reads back what the table says, but for the entry of the open segment, which it
\* learns from the file.
Recorded ==
  /\ index.acked = acked /\ index.oldestSeq = oldestSeq
  /\ DOMAIN index.segs = DOMAIN segs
  /\ \A id \in DOMAIN segs \ {OpenId(segs)} : index.segs[id] = segs[id]

Durable ==
  /\ Sound(TableNow, files, OldestNow, synced, AckedNow, owed)
  /\ pc \in {"ready", "rotate"} => Recorded
  /\ pc \in {"off", "rotate"} => synced = CompleteFrames(files, OpenId(TableNow))
  /\ pc = "rotate" => synced > 0 /\ segs[OpenId(segs)].newest = nextSeq - 1

\* Sizes count frames, and the newest record of the open segment is the last there is.
Counted ==
  /\ \A id \in DOMAIN TableNow \ {OpenId(TableNow)} :
       TableNow[id].size = CompleteFrames(files, id)
  /\ pc # "off" =>
       /\ segs[OpenId(segs)].size = CompleteFrames(files, OpenId(segs))
       /\ segs[OpenId(segs)].size # 0 => segs[OpenId(segs)].newest = nextSeq - 1

\* What is older than all that is kept is confirmed, or told lost, and nothing else is.
Told ==
  /\ \A s \in owed : s \in reported \/ s <= AckedNow \/ OldestNow <= s
  /\ \A s \in reported : s < OldestNow
=============================================================================
