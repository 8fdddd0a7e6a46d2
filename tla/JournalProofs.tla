--------------------------- MODULE JournalProofs ---------------------------
(***************************************************************************)
(* One stream of the journal, for every value of the constants: its types, *)
(* and, as long as the table of segments has room, that sequence numbers   *)
(* never drift from positions.                                             *)
(*                                                                         *)
(* A stream of Logs or Events is besides one durable log whose losses are  *)
(* told and whose batches are right, as long as its index is current.      *)
(* Data is not: its segments are also sacrificed by an age that restarts   *)
(* with every boot, so the oldest need not go first.                       *)
(***************************************************************************)
EXTENDS JournalRefinement, TLAPS, SequenceTheorems, WellFoundedInduction

USE JournalAssumption

-----------------------------------------------------------------------------
(* Operators                                                               *)

\* Newest is the greatest element of a set that has one.
LEMMA NewestProperty ==
  ASSUME NEW S \in SUBSET Nat, \E i \in S : \A j \in S : i >= j
  PROVE  Newest(S) \in S /\ \A j \in S : Newest(S) >= j
  BY DEF Newest

\* An element no other exceeds is the newest.
LEMMA NewestIs ==
  ASSUME NEW S \in SUBSET Nat, NEW i \in S, \A j \in S : i >= j
  PROVE  Newest(S) = i
<1>1. Newest(S) \in S /\ Newest(S) >= i
  BY NewestProperty
<1>2. i >= Newest(S) /\ Newest(S) \in Nat /\ i \in Nat
  BY <1>1
<1>. QED
  BY <1>1, <1>2

\* The open segment is in the table, and last.
LEMMA OpenInTable ==
  ASSUME NEW table, Tabled(table)
  PROVE  /\ OpenId(table) \in DOMAIN table
         /\ OpenId(table) \in Nat
         /\ \A id \in DOMAIN table : OpenId(table) >= id
         /\ table[OpenId(table)].oldest \in Nat
  BY NewestProperty DEF Tabled, OpenId

\* A segment without a file has no frames.
LEMMA FramesType ==
  ASSUME NEW f, f \in [DOMAIN f -> Seq(Nat)], NEW id
  PROVE  Frames(f, id) \in Seq(Nat) /\ Len(Frames(f, id)) \in Nat
<1>1. Frames(f, id) \in Seq(Nat)
  BY DEF Frames
<1>. QED
  BY <1>1, LenProperties

\* Cutting a file keeps its first frames, where they were.
LEMMA CutFrames ==
  ASSUME NEW D, NEW s \in Seq(D), NEW n \in 0 .. Len(s)
  PROVE  /\ SubSeq(s, 1, n) \in Seq(D)
         /\ Len(SubSeq(s, 1, n)) = n
         /\ \A k \in 1 .. n : SubSeq(s, 1, n)[k] = s[k]
<1>1. \A i \in 1 .. n : s[i] \in D
  <2>. TAKE i \in 1 .. n
  <2>1. i \in 1 .. Len(s)
    BY LenProperties
  <2>. QED
    BY <2>1, ElementOfSeq
<1>. QED
  BY <1>1, SubSeqProperties, LenProperties

\* saveIndex leaves the old table, or the one it was given.
LEMMA SavedTable ==
  ASSUME NEW next, NEW oldest, NEW ack, NEW table, NEW bytes,
         SaveIndex(next, oldest, ack, table, bytes)
  PROVE  index'.segs = table \/ index' = index
  BY DEF SaveIndex

\* Frames stay where their numbers say when the table still places their segments there.
LEMMA NumberedStays ==
  ASSUME NEW t, NEW f, NEW u, NEW g, Numbered(t, f),
         DOMAIN u \cap DOMAIN g \subseteq DOMAIN t \cap DOMAIN f,
         \A id \in DOMAIN u \cap DOMAIN g : g[id] = f[id] /\ u[id].oldest = t[id].oldest
  PROVE  Numbered(u, g)
  BY DEF Numbered

-----------------------------------------------------------------------------
(* The steps                                                               *)

\* A fresh stream.
LEMMA PositionsInit == Init => Positions
<1>. SUFFICES ASSUME Init PROVE Positions
  OBVIOUS
<1>1. Tabled(FreshIndex.segs) /\ DOMAIN FreshIndex.segs = {0}
  BY DEF Tabled, FreshIndex, NewSegment
<1>2. files = << >> /\ DOMAIN files = {}
  BY DEF Init
<1>3. index.segs = FreshIndex.segs /\ segs = FreshIndex.segs
  BY DEF Init
<1>4. Shape
  BY <1>1, <1>2, <1>3 DEF Init, Shape
<1>5. Numbered(index.segs, files)
  BY <1>2 DEF Numbered
<1>. QED
  BY <1>4, <1>5 DEF Positions, Placed, Init

\* A boot: the files the index lists, each where the index says.
LEMMA PositionsBoot == Positions /\ Boot => Positions'
<1>. SUFFICES ASSUME Positions, Boot PROVE Positions'
  OBVIOUS
<1>. USE DEF Positions
<1>. DEFINE open == OpenId(index.segs)
            frames == Len(Frames(files', open))
            oldest == index.segs[open].oldest
<1>1. open \in DOMAIN index.segs /\ open \in Nat /\ oldest \in Nat
      /\ \A id \in DOMAIN index.segs : open >= id
  BY OpenInTable DEF Shape
<1>2. files' \in [DOMAIN files' -> Seq(Nat)]
      /\ DOMAIN files' = DOMAIN files \cap DOMAIN index.segs
      /\ \A id \in DOMAIN files' : files'[id] = files[id]
  BY DEF Boot, ListedFiles, Shape
<1>3. frames \in Nat
  BY <1>2, FramesType
<1>4. /\ segs' = [index.segs EXCEPT ![open].newest = IF frames > 0 THEN oldest + frames - 1 ELSE oldest,
                                    ![open].size = frames]
      /\ nextSeq' = oldest + frames /\ openBytes' = frames /\ synced' = frames
      /\ pc' = "ready" /\ index' = index /\ uptime' = uptime
  BY DEF Boot, Recovered, RecoveredNextSeq, CompleteFrames
<1>. HIDE DEF frames, oldest, open
<1>5. Tabled(segs') /\ DOMAIN segs' = DOMAIN index.segs
      /\ \A id \in DOMAIN segs' : segs'[id].oldest = index.segs[id].oldest
  <2>1. index.segs \in [DOMAIN index.segs -> [oldest : Nat, newest : Nat, size : Nat, closedAt : Nat]]
        /\ DOMAIN index.segs \subseteq Nat
    BY DEF Shape, Tabled
  <2>2. (IF frames > 0 THEN oldest + frames - 1 ELSE oldest) \in Nat
    BY <1>1, <1>3
  <2>. QED
    BY <1>1, <1>3, <1>4, <2>1, <2>2 DEF Tabled
<1>6. OpenId(segs') = open
  BY <1>5 DEF OpenId, open
<1>7. Shape'
  BY <1>1, <1>2, <1>3, <1>4, <1>5 DEF Shape
<1>8. Numbered(index.segs, files)
  BY DEF Placed
<1>9. Numbered(index'.segs, files')
  BY <1>2, <1>4, <1>8, NumberedStays
<1>10. Numbered(segs', files')
  BY <1>2, <1>5, <1>8, NumberedStays
<1>11. nextSeq' = segs'[open].oldest + Len(Frames(files', open))
       /\ openBytes' = Len(Frames(files', open))
  BY <1>1, <1>4, <1>5 DEF frames, oldest
<1>12. \A id \in DOMAIN index'.segs \cap DOMAIN segs' : index'.segs[id].oldest = segs'[id].oldest
  BY <1>4, <1>5
<1>13. DOMAIN files' \subseteq DOMAIN segs' /\ \A id \in DOMAIN index'.segs : id <= open
  <2>1. DOMAIN index.segs \subseteq Nat
    BY DEF Shape, Tabled
  <2>. QED
    BY <1>1, <1>2, <1>4, <1>5, <2>1
<1>. QED
  BY <1>6, <1>7, <1>9, <1>10, <1>11, <1>12, <1>13 DEF Placed

\* A crash: some frames at the end of the open segment's file may be gone.
LEMMA PositionsCrash == Positions /\ Crash => Positions'
<1>. SUFFICES ASSUME Positions, Crash PROVE Positions'
  OBVIOUS
<1>. USE DEF Positions
<1>1. PICK kept \in synced .. Len(Frames(files, OpenId(segs))) :
        files' = [id \in DOMAIN files |->
                    IF id = OpenId(segs) THEN SubSeq(files[id], 1, kept) ELSE files[id]]
  BY DEF Crash
<1>2. synced \in Nat /\ files \in [DOMAIN files -> Seq(Nat)]
  BY DEF Shape
<1>3. OpenId(segs) \in DOMAIN files =>
        /\ files[OpenId(segs)] \in Seq(Nat)
        /\ kept \in 0 .. Len(files[OpenId(segs)])
  BY <1>2, FramesType DEF Frames
<1>4. \A id \in DOMAIN files :
        /\ files'[id] \in Seq(Nat)
        /\ Len(files'[id]) <= Len(files[id])
        /\ \A k \in 1 .. Len(files'[id]) : files'[id][k] = files[id][k]
  <2>. TAKE id \in DOMAIN files
  <2>1. CASE id = OpenId(segs)
    BY <1>1, <1>3, <2>1, CutFrames
  <2>2. CASE id # OpenId(segs)
    BY <1>1, <1>2, <2>2, LenProperties
  <2>. QED
    BY <2>1, <2>2
<1>5. DOMAIN files' = DOMAIN files /\ files' \in [DOMAIN files' -> Seq(Nat)]
  BY <1>1, <1>4
<1>6. Tabled(FreshIndex.segs)
  BY DEF Tabled, FreshIndex, NewSegment
<1>7. synced' \in Nat
  BY <1>5, FramesType DEF Crash
<1>8. Shape'
  BY <1>5, <1>6, <1>7 DEF Crash, Shape
<1>9. Numbered(index'.segs, files')
  <2>. SUFFICES ASSUME NEW id \in DOMAIN index.segs \cap DOMAIN files', NEW k \in 1 .. Len(files'[id])
                PROVE  files'[id][k] = index.segs[id].oldest + k - 1
    BY DEF Numbered, Crash
  <2>1. k \in 1 .. Len(files[id])
    BY <1>2, <1>4, <1>5, LenProperties
  <2>. QED
    BY SMTT(30), <1>4, <1>5, <2>1 DEF Placed, Numbered
<1>. QED
  BY <1>8, <1>9 DEF Placed, Crash

\* A frame written: the end of the open segment is where its number says.
LEMMA PositionsAppend == Positions /\ AppendFrame => Positions'
<1>. SUFFICES ASSUME Positions, AppendFrame PROVE Positions'
  OBVIOUS
<1>. USE DEF Positions
<1>. DEFINE open == OpenId(segs)
            old == Frames(files, open)
<1>1. open \in DOMAIN segs /\ open \in Nat /\ segs[open].oldest \in Nat
  BY OpenInTable DEF Shape
<1>2. old \in Seq(Nat) /\ Len(old) \in Nat /\ nextSeq \in Nat /\ openBytes \in Nat
  BY FramesType DEF Shape
<1>3. pc = "ready" /\ pc' \in {"ready", "rotate"} /\ index' = index /\ uptime' = uptime
      /\ nextSeq' = nextSeq + 1 /\ openBytes' = openBytes + 1
      /\ files' = [id \in DOMAIN files \cup {open} |->
                     IF id = open THEN Append(old, nextSeq) ELSE files[id]]
      /\ segs' = [segs EXCEPT ![open].newest = nextSeq, ![open].size = openBytes + 1]
  BY DEF AppendFrame, MutexIsFree
<1>. HIDE DEF old, open
<1>4. /\ Append(old, nextSeq) \in Seq(Nat)
      /\ Len(Append(old, nextSeq)) = Len(old) + 1
      /\ \A k \in 1 .. Len(old) : Append(old, nextSeq)[k] = old[k]
      /\ Append(old, nextSeq)[Len(old) + 1] = nextSeq
  BY <1>2, AppendProperties
<1>5. files' \in [DOMAIN files' -> Seq(Nat)] /\ DOMAIN files' = DOMAIN files \cup {open}
  BY <1>3, <1>4 DEF Shape
<1>6. Tabled(segs') /\ DOMAIN segs' = DOMAIN segs
      /\ \A id \in DOMAIN segs : segs'[id].oldest = segs[id].oldest
  <2>1. segs \in [DOMAIN segs -> [oldest : Nat, newest : Nat, size : Nat, closedAt : Nat]]
        /\ DOMAIN segs \subseteq Nat
        /\ \E id \in DOMAIN segs : \A other \in DOMAIN segs : id >= other
    BY DEF Shape, Tabled
  <2>2. openBytes + 1 \in Nat
    BY <1>2
  <2>. QED
    BY <1>1, <1>2, <1>3, <2>1, <2>2 DEF Tabled
<1>7. OpenId(segs') = open
  BY <1>6 DEF OpenId, open
<1>8. Frames(files', open) = Append(old, nextSeq)
  BY <1>3 DEF Frames
<1>9. synced' \in Nat
  <2>1. synced' = synced \/ synced' = Len(Frames(files', OpenId(segs)))
    BY DEF AppendFrame, Sync, MutexIsFree
  <2>. QED
    BY <1>5, <2>1, FramesType DEF Shape
<1>10. Shape'
  BY <1>2, <1>3, <1>5, <1>6, <1>9 DEF Shape
<1>11. nextSeq = segs[open].oldest + Len(old) /\ openBytes = Len(old)
  BY <1>3 DEF Placed, open, old
<1>12. ASSUME NEW table, Numbered(table, files), open \in DOMAIN table => table[open].oldest = segs[open].oldest
       PROVE  \A id \in DOMAIN table \cap DOMAIN files' :
                \A k \in 1 .. Len(files'[id]) : files'[id][k] = table[id].oldest + k - 1
  <2>. TAKE id \in DOMAIN table \cap DOMAIN files'
  <2>. TAKE k \in 1 .. Len(files'[id])
  <2>1. CASE id # open
    BY <1>3, <1>5, <1>12, <2>1 DEF Numbered
  <2>2. CASE id = open /\ k <= Len(old)
    <3>1. files'[id][k] = old[k] /\ k \in 1 .. Len(old)
      BY <1>2, <1>3, <1>4, <1>5, <2>2
    <3>2. open \in DOMAIN files /\ old = files[open]
      BY <1>2, <3>1 DEF old, Frames
    <3>. QED
      BY <1>12, <2>2, <3>1, <3>2 DEF Numbered
  <2>3. CASE id = open /\ k > Len(old)
    <3>1. files'[id] = Append(old, nextSeq) /\ open \in DOMAIN table
      BY <1>3, <2>3
    <3>2. k \in 1 .. Len(old) + 1
      BY <1>4, <3>1
    <3>3. k = Len(old) + 1
      BY <1>2, <2>3, <3>2
    <3>4. files'[id][k] = nextSeq /\ table[id].oldest = segs[open].oldest
      BY <1>4, <1>12, <2>3, <3>1, <3>3
    <3>. QED
      BY <1>1, <1>2, <1>11, <3>3, <3>4
  <2>. QED
    BY <1>2, <2>1, <2>2, <2>3
<1>13. Numbered(index'.segs, files')
  <2>1. Numbered(index.segs, files)
        /\ (open \in DOMAIN index.segs => index.segs[open].oldest = segs[open].oldest)
    BY <1>1, <1>3 DEF Placed
  <2>2. \A id \in DOMAIN index.segs \cap DOMAIN files' :
          \A k \in 1 .. Len(files'[id]) : files'[id][k] = index.segs[id].oldest + k - 1
    BY <1>12, <2>1
  <2>3. index'.segs = index.segs
    BY <1>3
  <2>. QED
    BY <2>2, <2>3 DEF Numbered
<1>14. Numbered(segs', files')
  <2>1. Numbered(segs, files)
    BY <1>3 DEF Placed
  <2>2. \A id \in DOMAIN segs \cap DOMAIN files' :
          \A k \in 1 .. Len(files'[id]) : files'[id][k] = segs[id].oldest + k - 1
    BY <1>12, <2>1
  <2>. QED
    BY <1>6, <2>2 DEF Numbered
<1>15. DOMAIN files' \subseteq DOMAIN segs'
  BY <1>1, <1>3, <1>5, <1>6 DEF Placed
<1>16. nextSeq' = segs'[open].oldest + Len(Frames(files', open))
       /\ openBytes' = Len(Frames(files', open))
  <2>1. segs'[open].oldest = segs[open].oldest /\ Len(Frames(files', open)) = Len(old) + 1
    BY <1>1, <1>4, <1>6, <1>8
  <2>2. nextSeq + 1 = segs[open].oldest + (Len(old) + 1)
    BY <1>1, <1>2, <1>11
  <2>3. openBytes + 1 = Len(old) + 1
    BY <1>11
  <2>. QED
    BY <1>3, <2>1, <2>2, <2>3
<1>17. \A id \in DOMAIN index'.segs : id <= open
  BY <1>3 DEF Placed, open
<1>18. \A id \in DOMAIN index'.segs \cap DOMAIN segs' : index'.segs[id].oldest = segs'[id].oldest
  BY <1>3, <1>6 DEF Placed
<1>. QED
  BY <1>7, <1>10, <1>13, <1>14, <1>15, <1>16, <1>17, <1>18 DEF Placed

\* A write that fails: nothing is lost while openSegmentBytes is the file's length.
LEMMA PositionsAppendFails == Positions /\ AppendFails => Positions'
<1>. SUFFICES ASSUME Positions, AppendFails PROVE Positions'
  OBVIOUS
<1>. USE DEF Positions
<1>. DEFINE open == OpenId(segs)
            old == Frames(files, open)
<1>1. open \in DOMAIN segs /\ open \in Nat
  BY OpenInTable DEF Shape
<1>2. old \in Seq(Nat) /\ Len(old) \in Nat
  BY FramesType DEF Shape
<1>3. openBytes = Len(old)
  BY DEF Placed, AppendFails, MutexIsFree
<1>4. SubSeq(old, 1, Len(old)) = old
  BY <1>2, SubSeqFull
<1>5. files' = [id \in DOMAIN files \cup {open} |-> IF id = open THEN old ELSE files[id]]
  BY <1>2, <1>3, <1>4 DEF AppendFails, MutexIsFree
<1>6. /\ pc = "ready" /\ pc' = pc /\ nextSeq' = nextSeq /\ segs' = segs /\ index' = index
      /\ openBytes' = openBytes /\ uptime' = uptime
      /\ synced' = Len(Frames(files', open))
  BY DEF AppendFails, Sync, MutexIsFree
<1>. HIDE DEF open
<1>7. files' \in [DOMAIN files' -> Seq(Nat)] /\ DOMAIN files' = DOMAIN files \cup {open}
  BY <1>2, <1>5 DEF Shape
<1>8. \A id : Frames(files', id) = Frames(files, id)
  BY <1>5, <1>7 DEF Frames, old
<1>9. Shape'
  BY <1>2, <1>6, <1>7, <1>8 DEF Shape
<1>10. ASSUME NEW table, Numbered(table, files)
       PROVE  \A id \in DOMAIN table \cap DOMAIN files' :
                \A k \in 1 .. Len(files'[id]) : files'[id][k] = table[id].oldest + k - 1
  <2>. TAKE id \in DOMAIN table \cap DOMAIN files'
  <2>1. CASE id \in DOMAIN files
    BY <1>5, <1>7, <1>10, <2>1 DEF Numbered, Frames
  <2>2. CASE id \notin DOMAIN files
    <3>1. files'[id] = << >>
      BY <1>5, <1>7, <2>2 DEF Frames
    <3>. QED
      BY <3>1
  <2>. QED
    BY <2>1, <2>2
<1>11. Numbered(index'.segs, files') /\ Numbered(segs', files')
  <2>1. Numbered(index.segs, files) /\ Numbered(segs, files)
    BY <1>6 DEF Placed
  <2>2. Numbered(index.segs, files')
    BY <1>10, <2>1 DEF Numbered
  <2>3. Numbered(segs, files')
    BY <1>10, <2>1 DEF Numbered
  <2>. QED
    BY <1>6, <2>2, <2>3
<1>. QED
  BY <1>1, <1>6, <1>7, <1>8, <1>9, <1>11 DEF Placed, open

\* A rotation: the new segment starts at the next number; the index, saved or not, agrees.
LEMMA PositionsRotate == Positions /\ TableHasRoom /\ Rotate => Positions'
<1>. SUFFICES ASSUME Positions, TableHasRoom, Rotate PROVE Positions'
  OBVIOUS
<1>. USE DEF Positions
<1>. DEFINE open == OpenId(segs)
            closed == [segs EXCEPT ![open].closedAt = uptime]
            larger == [id \in DOMAIN segs \cup {open + 1} |->
                         IF id = open + 1 THEN NewSegment(nextSeq) ELSE closed[id]]
<1>1. open \in DOMAIN segs /\ open \in Nat /\ segs[open].oldest \in Nat
      /\ \A id \in DOMAIN segs : open >= id
  BY OpenInTable DEF Shape
<1>2. pc = "rotate" /\ pc' = "ready" /\ files' = files /\ nextSeq' = nextSeq
      /\ openBytes' = 0 /\ uptime' = uptime
      /\ synced' = Len(Frames(files, OpenId(segs')))
      /\ segs' = larger
      /\ (index'.segs = segs' \/ index' = index)
  BY SavedTable DEF Rotate, TableHasRoom
<1>3. nextSeq \in Nat /\ uptime \in Nat /\ files \in [DOMAIN files -> Seq(Nat)]
      /\ segs \in [DOMAIN segs -> [oldest : Nat, newest : Nat, size : Nat, closedAt : Nat]]
      /\ DOMAIN segs \subseteq Nat
  BY DEF Shape, Tabled
<1>. HIDE DEF open
<1>4. Tabled(closed) /\ DOMAIN closed = DOMAIN segs
      /\ \A id \in DOMAIN segs : closed[id].oldest = segs[id].oldest
  BY <1>1, <1>3 DEF Shape, Tabled
<1>5. NewSegment(nextSeq) \in [oldest : Nat, newest : Nat, size : Nat, closedAt : Nat]
      /\ NewSegment(nextSeq).oldest = nextSeq
  BY <1>3 DEF NewSegment
<1>6. Tabled(larger) /\ DOMAIN larger = DOMAIN segs \cup {open + 1}
      /\ \A id \in DOMAIN larger : open + 1 >= id
      /\ larger[open + 1].oldest = nextSeq
      /\ open + 1 \notin DOMAIN segs
      /\ \A other \in DOMAIN segs : larger[other].oldest = segs[other].oldest
  <2>1. open + 1 \notin DOMAIN segs
    BY <1>1
  <2>2. \A id \in DOMAIN segs : closed[id] \in [oldest : Nat, newest : Nat, size : Nat, closedAt : Nat]
    BY <1>4 DEF Tabled
  <2>3. ASSUME NEW id \in DOMAIN larger PROVE open + 1 >= id
    <3>1. id = open + 1 \/ (id \in DOMAIN segs /\ open >= id)
      BY <1>1
    <3>2. open \in Nat /\ id \in Nat
      BY <1>1, <1>3, <3>1
    <3>. QED
      BY <3>1, <3>2
  <2>4. DOMAIN larger = DOMAIN segs \cup {open + 1} /\ open + 1 \in DOMAIN larger
        /\ DOMAIN larger \subseteq Nat
    BY <1>1, <1>3
  <2>. HIDE DEF closed
  <2>5. larger[open + 1] = NewSegment(nextSeq)
        /\ \A id \in DOMAIN segs : larger[id] = closed[id]
    BY <2>1
  <2>6. larger \in [DOMAIN larger -> [oldest : Nat, newest : Nat, size : Nat, closedAt : Nat]]
    BY <1>5, <2>2, <2>4, <2>5
  <2>7. Tabled(larger)
    BY <2>3, <2>4, <2>6 DEF Tabled
  <2>. QED
    BY <1>4, <1>5, <2>1, <2>3, <2>4, <2>5, <2>7
<1>8. OpenId(larger) = open + 1
  <2>. HIDE DEF closed, larger
  <2>1. DOMAIN larger \in SUBSET Nat /\ open + 1 \in DOMAIN larger
    BY <1>1, <1>3, <1>6
  <2>2. \A id \in DOMAIN larger : open + 1 >= id
    BY <1>6
  <2>. QED
    BY <2>1, <2>2, NewestIs DEF OpenId
<1>. HIDE DEF closed, larger
<1>9. Tabled(segs') /\ \A id \in DOMAIN segs : id \in DOMAIN segs' /\ segs'[id].oldest = segs[id].oldest
  BY <1>2, <1>4, <1>6
<1>10. Tabled(index'.segs)
  BY <1>2, <1>9 DEF Shape
<1>11. synced' \in Nat
  BY <1>2, <1>3, FramesType
<1>12. Shape'
  BY <1>2, <1>3, <1>9, <1>10, <1>11 DEF Shape
<1>13. DOMAIN files \subseteq DOMAIN segs
       /\ nextSeq = segs[open].oldest + Len(Frames(files, open))
       /\ \A id \in DOMAIN index.segs : id <= open
  BY <1>2 DEF Placed, open
<1>14. Numbered(segs', files')
  BY <1>2, <1>9, <1>13 DEF Placed, Numbered
<1>15. Numbered(index'.segs, files')
  <2>1. CASE index' = index
    BY <1>2, <2>1 DEF Placed, Numbered
  <2>2. CASE index'.segs = segs'
    BY <1>2, <1>14, <2>2 DEF Numbered
  <2>. QED
    BY <1>2, <2>1, <2>2
<1>16. nextSeq' = segs'[OpenId(segs')].oldest + Len(Frames(files', OpenId(segs')))
       /\ openBytes' = Len(Frames(files', OpenId(segs')))
  <2>1. Frames(files, open + 1) = << >>
    BY <1>6, <1>13 DEF Frames
  <2>2. OpenId(segs') = open + 1 /\ segs'[open + 1].oldest = nextSeq /\ files' = files
    BY <1>2, <1>6, <1>8
  <2>3. Frames(files', OpenId(segs')) = << >> /\ segs'[OpenId(segs')].oldest = nextSeq
    BY <2>1, <2>2
  <2>4. Len(<< >>) = 0 /\ nextSeq = nextSeq + 0
    BY <1>3
  <2>. QED
    BY <1>2, <2>3, <2>4
<1>17. \A id \in DOMAIN index'.segs : id <= OpenId(segs')
  <2>1. OpenId(segs') \in Nat /\ OpenId(segs') >= open
        /\ \A id \in DOMAIN segs' : id <= OpenId(segs')
    BY <1>1, <1>2, <1>8, <1>9, OpenInTable
  <2>2. DOMAIN index.segs \subseteq Nat
    BY DEF Shape, Tabled
  <2>. QED
    BY <1>1, <1>2, <1>13, <2>1, <2>2
<1>18. \A id \in DOMAIN index'.segs \cap DOMAIN segs' : index'.segs[id].oldest = segs'[id].oldest
  <2>1. CASE index'.segs = segs'
    BY <2>1
  <2>2. CASE index' = index
    <3>1. \A id \in DOMAIN index.segs \cap DOMAIN segs' : id \in DOMAIN segs
      BY <1>1, <1>2, <1>4, <1>6, <1>13
    <3>. QED
      BY <1>2, <1>9, <2>2, <3>1 DEF Placed
  <2>. QED
    BY <1>2, <2>1, <2>2
<1>. QED
  BY <1>2, <1>9, <1>12, <1>13, <1>14, <1>15, <1>16, <1>17, <1>18 DEF Placed

\* A segment reclaimed: its file and its place in the table go together.
LEMMA PositionsReclaim ==
  ASSUME NEW victim \in Closed, Positions, ReclaimOne(victim)
  PROVE  Positions'
<1>. USE DEF Positions
<1>. DEFINE open == OpenId(segs)
<1>1. open \in DOMAIN segs /\ open \in Nat /\ (\A id \in DOMAIN segs : open >= id) /\ victim # open
  BY OpenInTable DEF Shape, Closed
<1>2. /\ pc # "off" /\ pc' = "reclaim" /\ nextSeq' = nextSeq /\ openBytes' = openBytes
      /\ index' = index /\ synced' = synced /\ uptime' = uptime
      /\ files' = [id \in DOMAIN files \ {victim} |-> files[id]]
      /\ segs' = [id \in DOMAIN segs \ {victim} |-> segs[id]]
  BY DEF ReclaimOne
<1>. HIDE DEF open
<1>3. files' \in [DOMAIN files' -> Seq(Nat)] /\ DOMAIN files' = DOMAIN files \ {victim}
      /\ \A id \in DOMAIN files' : files'[id] = files[id]
  BY <1>2 DEF Shape
<1>4. Tabled(segs') /\ DOMAIN segs' = DOMAIN segs \ {victim}
      /\ \A id \in DOMAIN segs' : segs'[id] = segs[id]
  BY <1>1, <1>2 DEF Shape, Tabled
<1>5. OpenId(segs') = open
  BY <1>1, <1>4, NewestIs DEF OpenId, Tabled
<1>6. Shape'
  BY <1>2, <1>3, <1>4 DEF Shape
<1>7. Numbered(segs', files') /\ Numbered(index'.segs, files')
  <2>1. Numbered(index.segs, files) /\ Numbered(segs, files)
    BY <1>2 DEF Placed
  <2>2. Numbered(segs', files')
    BY <1>3, <1>4, <2>1, NumberedStays
  <2>3. Numbered(index.segs, files')
    BY <1>3, <2>1, NumberedStays
  <2>. QED
    BY <1>2, <2>2, <2>3
<1>8. Frames(files', open) = Frames(files, open)
  BY <1>1, <1>3 DEF Frames
<1>. QED
  BY <1>1, <1>2, <1>3, <1>4, <1>5, <1>6, <1>7, <1>8 DEF Placed, open

\* A save of the index, and anything that leaves table and files alone.
LEMMA PositionsKept ==
  ASSUME Positions, pc # "off", pc' \in {"ready", "rotate", "reclaim"},
         UNCHANGED <<nextSeq, segs, openBytes, files>>, uptime' \in Nat, synced' \in Nat,
         index'.segs = segs \/ index' = index
  PROVE  Positions'
<1>. USE DEF Positions
<1>1. Shape'
  BY DEF Shape
<1>2. Numbered(segs', files') /\ Numbered(index'.segs, files')
  BY DEF Placed, Numbered
<1>3. \A id \in DOMAIN index'.segs : id <= OpenId(segs)
  <2>1. DOMAIN segs \subseteq Nat /\ \A id \in DOMAIN segs : OpenId(segs) >= id
    BY OpenInTable DEF Shape, Tabled
  <2>. QED
    BY <2>1 DEF Placed
<1>. QED
  BY <1>1, <1>2, <1>3 DEF Placed

\* Every step keeps positions and numbers together, while the table has room.
LEMMA PositionsNext == Positions /\ TableHasRoom /\ [Next]_vars => Positions'
<1>. SUFFICES ASSUME Positions, TableHasRoom, [Next]_vars PROVE Positions'
  OBVIOUS
<1>. USE DEF Positions
<1>0. uptime \in Nat /\ synced \in Nat /\ pc \in {"off", "ready", "rotate", "reclaim"}
      /\ files \in [DOMAIN files -> Seq(Nat)]
  BY DEF Shape
<1>1. CASE Boot
  BY <1>1, PositionsBoot
<1>2. CASE Crash
  BY <1>2, PositionsCrash
<1>3. CASE AppendFrame
  BY <1>3, PositionsAppend
<1>4. CASE AppendFails
  BY <1>4, PositionsAppendFails
<1>5. CASE Rotate
  BY <1>5, PositionsRotate
<1>6. CASE Read
  <2>1. synced' \in Nat
    BY <1>0, <1>6, FramesType DEF Read, Sync, MutexIsFree
  <2>. QED
    BY <1>0, <1>6, <2>1, PositionsKept DEF Read, MutexIsFree
<1>7. CASE Ack
  <2>1. index'.segs = segs \/ index' = index
    BY <1>7, SavedTable DEF Ack, MutexIsFree
  <2>. QED
    BY <1>0, <1>7, <2>1, PositionsKept DEF Ack, MutexIsFree
<1>8. CASE \E id \in Closed : ReclaimOne(id)
  BY <1>8, PositionsReclaim
<1>9. CASE ReclaimSave
  <2>1. index'.segs = segs \/ index' = index
    BY <1>9, SavedTable DEF ReclaimSave
  <2>. QED
    BY <1>0, <1>9, <2>1, PositionsKept DEF ReclaimSave, ramVars
<1>10. CASE GapEventsSynced
  BY <1>0, <1>10, PositionsKept DEF GapEventsSynced, ramVars, flashVars, MutexIsFree
<1>11. CASE UptimePasses
  BY <1>0, <1>11, PositionsKept DEF UptimePasses, flashVars, MutexIsFree
<1>12. CASE UNCHANGED vars
  BY <1>12 DEF vars, ramVars, flashVars, Shape, Placed, Numbered
<1>. QED
  BY <1>1, <1>2, <1>3, <1>4, <1>5, <1>6, <1>7, <1>8, <1>9, <1>10, <1>11, <1>12 DEF Next

-----------------------------------------------------------------------------
(* The theorem                                                             *)

\* The invariant Journal.h states: a record's sequence number is its position in its
\* segment.  Writes may fail, the index may fail, and a crash may fall anywhere.
THEOREM PositionIsSeqHolds == Spec /\ []TableHasRoom => []PositionIsSeq
<1>1. Init => Positions
  BY PositionsInit
<1>2. Positions /\ TableHasRoom /\ [Next]_vars => Positions'
  BY PositionsNext
<1>3. Positions => PositionIsSeq
  BY DEF Positions, Placed, PositionIsSeq, TableNow
<1>. QED
  BY <1>1, <1>2, <1>3, PTL DEF Spec

-----------------------------------------------------------------------------
(* Types                                                                   *)

\* What TypeOK says of the index file.
IsIndex(ix) ==
  /\ IsTable(ix.segs)
  /\ ix.nextSeq \in Seqs /\ ix.oldestSeq \in Seqs /\ ix.acked \in Seqs \cup {NoAck}
  /\ ix.openBytes \in Nat

\* The frames of a file are numbers.
LEMMA FramesAreSeqs ==
  ASSUME NEW f, \A id \in DOMAIN f : f[id] \in Seq(Seqs), NEW id
  PROVE  /\ Frames(f, id) \in Seq(Seqs)
         /\ CompleteFrames(f, id) \in Nat
         /\ Content(f, id) \subseteq Seqs
<1>1. Frames(f, id) \in Seq(Seqs)
  BY DEF Frames
<1>2. Len(Frames(f, id)) \in Nat
  BY <1>1, LenProperties
<1>3. \A k \in 1 .. Len(Frames(f, id)) : Frames(f, id)[k] \in Seqs
  BY <1>1, ElementOfSeq
<1>. QED
  BY <1>1, <1>2, <1>3 DEF CompleteFrames, Content

\* An entry of a table is a record of numbers.
LEMMA EntryIsTyped ==
  ASSUME NEW table, IsTable(table), NEW id \in DOMAIN table
  PROVE  /\ table[id] \in Segment /\ id \in Nat
         /\ table[id].oldest \in Seqs /\ table[id].newest \in Seqs
         /\ table[id].size \in Nat /\ table[id].closedAt \in 0 .. MaxUptime
  BY DEF IsTable, Segment

\* A table with one entry changed, as a boot, a write and a rotation change the open one's.
LEMMA TableChanged ==
  ASSUME NEW table, IsTable(table), NEW open \in DOMAIN table,
         NEW new \in Segment, NEW changed, changed = [table EXCEPT ![open] = new]
  PROVE  /\ IsTable(changed)
         /\ DOMAIN changed = DOMAIN table
         /\ changed[open] = new
         /\ \A id \in DOMAIN table \ {open} : changed[id] = table[id]
  BY DEF IsTable

\* The last segment is the only one no other comes after.
LEMMA WithinOpen ==
  ASSUME NEW table, IsTable(table), NEW open \in DOMAIN table, DOMAIN table \subseteq 0 .. open
  PROVE  OpenId(table) = open
<1>1. DOMAIN table \in SUBSET Nat /\ \A id \in DOMAIN table : open >= id
  BY DEF IsTable
<1>. QED
  BY <1>1, NewestIs DEF OpenId

\* saveIndex leaves the old index, or the one it was given.
LEMMA SavedIndex ==
  ASSUME NEW next \in Seqs, NEW oldest \in Seqs, NEW ack \in Seqs \cup {NoAck},
         NEW table, IsTable(table), NEW bytes \in Nat,
         SaveIndex(next, oldest, ack, table, bytes), IsIndex(index)
  PROVE  IsIndex(index') /\ (index'.segs = table \/ index' = index)
  BY DEF SaveIndex, IsIndex

\* The table of a fresh stream.
LEMMA FreshTable ==
  /\ IsTable(FreshIndex.segs) /\ DOMAIN FreshIndex.segs = {0}
  /\ FreshIndex.segs[0].oldest = 0
<1>1. FreshIndex.segs = [id \in {0} |-> NewSegment(0)]
  BY DEF FreshIndex
<1>2. NewSegment(0) \in Segment /\ NewSegment(0).oldest = 0
  BY DEF NewSegment, Segment, Seqs
<1>3. DOMAIN FreshIndex.segs = {0} /\ FreshIndex.segs[0] = NewSegment(0)
  BY <1>1
<1>4. {0} \in SUBSET Nat /\ {0} # {}
  OBVIOUS
<1>. QED
  BY <1>2, <1>3, <1>4 DEF IsTable

\* A fresh stream.
LEMMA TypesInit == Init => Types
<1>. SUFFICES ASSUME Init PROVE Types
  OBVIOUS
<1>2. IsTable(FreshIndex.segs) /\ DOMAIN FreshIndex.segs = {0} /\ FreshIndex.segs[0].oldest = 0
  BY FreshTable
<1>3. OpenId(FreshIndex.segs) = 0
  BY <1>2, WithinOpen
<1>4. DOMAIN files = {} /\ CompleteFrames(files, 0) = 0
  BY DEF Init, CompleteFrames, Frames
<1>6. Within(FreshIndex.segs)
  <2>1. End(FreshIndex.segs, files, 0) = 0
    BY <1>2, <1>4 DEF End
  <2>. QED
    BY <1>2, <1>3, <2>1 DEF Within
<1>7. TypeOK
  <2>1. IsIndex(FreshIndex)
    <3>1. /\ FreshIndex.nextSeq = 0 /\ FreshIndex.oldestSeq = 0 /\ FreshIndex.acked = NoAck
          /\ FreshIndex.openBytes = 0
      BY DEF FreshIndex
    <3>. QED
      BY <1>2, <3>1 DEF IsIndex, Seqs
  <2>2. handle \in BOOLEAN
    BY DEF Init
  <2>3. 0 \in Seqs /\ 0 \in 0 .. MaxUptime
    BY DEF Seqs
  <2>. QED
    BY <1>2, <1>4, <2>1, <2>2, <2>3 DEF Init, TypeOK, IsIndex
<1>8. Fits
  BY <1>6 DEF Init, Fits
<1>. QED
  BY <1>7, <1>8 DEF Types

\* A boot: the open segment reaches as far as its file.
LEMMA TypesBoot == Types /\ Boot => Types'
<1>. SUFFICES ASSUME Types, Boot PROVE Types'
  OBVIOUS
<1>. USE DEF Types
<1>. DEFINE open == OpenId(index.segs)
            frames == CompleteFrames(files, open)
            oldest == index.segs[open].oldest
<1>1. IsTable(index.segs) /\ Within(index.segs) /\ \A id \in DOMAIN files : files[id] \in Seq(Seqs)
  BY DEF TypeOK, Fits
<1>2. open \in DOMAIN index.segs /\ DOMAIN index.segs \subseteq 0 .. open
  BY <1>1 DEF Within
<1>3. oldest \in Seqs /\ index.segs[open].closedAt \in 0 .. MaxUptime /\ frames \in Nat
      /\ index.segs[open] \in Segment
  BY <1>1, <1>2, EntryIsTyped, FramesAreSeqs
<1>4. oldest + frames <= MaxSeq
  BY <1>1, <1>2 DEF Within, End
<1>5. /\ DOMAIN files' = DOMAIN files \cap DOMAIN index.segs
      /\ \A id \in DOMAIN files' : files'[id] = files[id]
  BY DEF Boot, ListedFiles
<1>6. \A id \in DOMAIN index.segs : CompleteFrames(files', id) = CompleteFrames(files, id)
  BY <1>5 DEF CompleteFrames, Frames
<1>7. /\ segs' = [index.segs EXCEPT ![open] = Recovered(index.segs[open], frames)]
      /\ nextSeq' = oldest + frames /\ openBytes' = frames /\ synced' = frames
      /\ pc' = "ready" /\ index' = index /\ uptime' = uptime /\ handle' = handle
      /\ oldestSeq' = index.oldestSeq /\ acked' = index.acked
      /\ UNCHANGED historyVars
  BY <1>2, <1>6 DEF Boot, RecoveredNextSeq
<1>8. Recovered(index.segs[open], frames) \in Segment
      /\ Recovered(index.segs[open], frames).oldest = oldest
  <2>. DEFINE newest == IF frames > 0 THEN oldest + frames - 1 ELSE oldest
              segment == index.segs[open]
  <2>1. newest \in Seqs
    BY <1>3, <1>4 DEF Seqs
  <2>2. Recovered(segment, frames) = [segment EXCEPT !.newest = newest, !.size = frames]
    BY DEF Recovered
  <2>3. segment \in Segment /\ frames \in Nat /\ oldest = segment.oldest
    BY <1>3
  <2>. HIDE DEF newest, segment, frames, oldest
  <2>4. Recovered(segment, frames) \in Segment /\ Recovered(segment, frames).oldest = oldest
    BY <2>1, <2>2, <2>3 DEF Segment
  <2>. QED
    BY <2>4 DEF segment
<1>. HIDE DEF frames, open
<1>9. /\ IsTable(segs') /\ DOMAIN segs' = DOMAIN index.segs
      /\ segs'[open].oldest = oldest
      /\ \A id \in DOMAIN index.segs \ {open} : segs'[id] = index.segs[id]
  BY <1>1, <1>2, <1>7, <1>8, TableChanged
<1>10. OpenId(segs') = open
  BY <1>2, <1>9, WithinOpen
<1>11. \A id \in DOMAIN index.segs :
         /\ End(index.segs, files', id) = End(index.segs, files, id)
         /\ End(segs', files', id) = End(index.segs, files, id)
  BY <1>6, <1>9 DEF End
<1>12. TypeOK'
  <2>1. nextSeq' \in Seqs
    BY <1>3, <1>4, <1>7 DEF Seqs
  <2>2. \A id \in DOMAIN files' : files'[id] \in Seq(Seqs)
    BY <1>1, <1>5
  <2>. QED
    BY <1>3, <1>5, <1>7, <1>9, <2>1, <2>2 DEF TypeOK, historyVars
<1>13. Within(index.segs)' /\ Within(segs)'
  BY <1>1, <1>2, <1>7, <1>9, <1>10, <1>11 DEF Within, open
<1>14. End(segs', files', open) = nextSeq'
  BY <1>2, <1>7, <1>11 DEF End, frames
<1>15. open \in Nat /\ nextSeq' \in Int
  BY <1>1, <1>2, <1>12, EntryIsTyped DEF TypeOK, Seqs
<1>16. \A id \in DOMAIN index'.segs \cap DOMAIN segs' : index'.segs[id].oldest = segs'[id].oldest
  BY <1>7, <1>9
<1>17. DOMAIN files' \subseteq DOMAIN segs' /\ End(segs', files', open) <= nextSeq'
       /\ OpenId(index'.segs) <= open
  BY <1>5, <1>7, <1>9, <1>14, <1>15 DEF open
<1>18. Fits'
  BY <1>7, <1>10, <1>13, <1>16, <1>17 DEF Fits
<1>. QED
  BY <1>12, <1>18

\* A reset: files get shorter, never longer.
LEMMA TypesCrash == Types /\ Crash => Types'
<1>. SUFFICES ASSUME Types, Crash PROVE Types'
  OBVIOUS
<1>. USE DEF Types
<1>1. PICK kept \in synced .. Len(Frames(files, OpenId(segs))) :
        files' = [id \in DOMAIN files |->
                    IF id = OpenId(segs) THEN SubSeq(files[id], 1, kept) ELSE files[id]]
  BY DEF Crash
<1>2. synced \in Nat /\ \A id \in DOMAIN files : files[id] \in Seq(Seqs)
  BY DEF TypeOK
<1>3. ASSUME NEW id \in DOMAIN files
      PROVE  files'[id] \in Seq(Seqs) /\ Len(files'[id]) <= Len(files[id])
             /\ Len(files'[id]) \in Nat
  <2>1. CASE id = OpenId(segs)
    <3>1. kept \in 0 .. Len(files[id]) /\ files[id] \in Seq(Seqs) /\ Len(files[id]) \in Nat
      BY <1>1, <1>2, <2>1, LenProperties DEF Frames
    <3>2. files'[id] = SubSeq(files[id], 1, kept)
      BY <1>1, <2>1
    <3>. QED
      BY <3>1, <3>2, CutFrames
  <2>2. CASE id # OpenId(segs)
    BY <1>1, <1>2, <2>2, LenProperties
  <2>. QED
    BY <2>1, <2>2
<1>4. DOMAIN files' = DOMAIN files
  BY <1>1
<1>5. \A id : CompleteFrames(files', id) \in Nat
              /\ CompleteFrames(files', id) <= CompleteFrames(files, id)
              /\ CompleteFrames(files, id) \in Nat
  <2>. TAKE id
  <2>1. CompleteFrames(files, id) \in Nat /\ CompleteFrames(files', id) \in Nat
    BY <1>2, <1>3, <1>4, FramesAreSeqs
  <2>2. CASE id \in DOMAIN files
    BY <1>3, <1>4, <2>1, <2>2 DEF CompleteFrames, Frames
  <2>3. CASE id \notin DOMAIN files
    BY <1>4, <2>1, <2>3 DEF CompleteFrames, Frames
  <2>. QED
    BY <2>1, <2>2, <2>3
<1>6. Content(files', OpenId(segs)) \subseteq Seqs
  BY <1>3, <1>4, FramesAreSeqs
<1>7. IsTable(FreshIndex.segs)
  BY FreshTable
<1>8. TypeOK'
  <2>1. synced' \in Nat
    BY <1>5 DEF Crash, CompleteFrames
  <2>2. owed' \subseteq Seqs
    BY <1>6 DEF Crash, TypeOK
  <2>3. reported' \subseteq Seqs /\ telling' \subseteq reported'
    BY DEF Crash, TypeOK
  <2>4. handle' \in BOOLEAN
    BY DEF Crash
  <2>5. 0 \in Seqs /\ 0 \in 0 .. MaxUptime
    BY DEF Seqs
  <2>6. /\ pc' = "off" /\ nextSeq' = 0 /\ oldestSeq' = 0 /\ acked' = NoAck
        /\ segs' = FreshIndex.segs /\ openBytes' = 0 /\ uptime' = 0 /\ index' = index
    BY DEF Crash
  <2>. QED
    BY <1>3, <1>4, <1>7, <2>1, <2>2, <2>3, <2>4, <2>5, <2>6 DEF TypeOK
<1>9. Within(index.segs)'
  <2>1. index' = index /\ IsTable(index.segs) /\ Within(index.segs)
    BY DEF Crash, TypeOK, Fits
  <2>2. ASSUME NEW id \in DOMAIN index.segs PROVE End(index.segs, files', id) <= MaxSeq
    <3>1. End(index.segs, files, id) <= MaxSeq /\ index.segs[id].oldest \in Nat
      BY <2>1, EntryIsTyped DEF Within, Seqs
    <3>. QED
      BY <1>5, <3>1 DEF End
  <2>. QED
    BY <2>1, <2>2 DEF Within
<1>. QED
  BY <1>8, <1>9 DEF Fits, Crash

\* A frame written: it gets the next number, and the open segment ends after it.
LEMMA TypesAppend == Types /\ AppendFrame => Types'
<1>. SUFFICES ASSUME Types, AppendFrame PROVE Types'
  OBVIOUS
<1>. USE DEF Types
<1>. DEFINE open == OpenId(segs)
            old == Frames(files, open)
<1>1. /\ IsTable(segs) /\ Within(segs) /\ \A id \in DOMAIN files : files[id] \in Seq(Seqs)
      /\ IsTable(index.segs) /\ Within(index.segs)
      /\ DOMAIN files \subseteq DOMAIN segs
      /\ End(segs, files, open) <= nextSeq
      /\ OpenId(index.segs) <= open
      /\ \A id \in DOMAIN index.segs \cap DOMAIN segs : index.segs[id].oldest = segs[id].oldest
  BY DEF TypeOK, Fits, AppendFrame, MutexIsFree
<1>2. /\ open \in DOMAIN segs /\ DOMAIN segs \subseteq 0 .. open /\ open \in Nat
      /\ segs[open] \in Segment /\ segs[open].oldest \in Nat
  BY <1>1, EntryIsTyped DEF Within, Seqs
<1>3. old \in Seq(Seqs) /\ Len(old) \in Nat /\ nextSeq \in Nat /\ openBytes \in Nat
      /\ nextSeq < MaxSeq /\ nextSeq \in Seqs
  <2>1. nextSeq \in Seqs /\ nextSeq \in Nat /\ openBytes \in Nat /\ nextSeq < MaxSeq
    BY DEF TypeOK, AppendFrame, Seqs
  <2>2. old \in Seq(Seqs)
    BY <1>1, FramesAreSeqs
  <2>. QED
    BY <2>1, <2>2, LenProperties
<1>4. /\ pc = "ready" /\ pc' \in {"ready", "rotate"} /\ index' = index /\ uptime' = uptime
      /\ nextSeq' = nextSeq + 1 /\ openBytes' = openBytes + 1
      /\ oldestSeq' = oldestSeq /\ acked' = acked /\ reported' = reported /\ telling' = telling
      /\ files' = [id \in DOMAIN files \cup {open} |->
                     IF id = open THEN Append(old, nextSeq) ELSE files[id]]
      /\ segs' = [segs EXCEPT ![open].newest = nextSeq, ![open].size = openBytes + 1]
  BY DEF AppendFrame, MutexIsFree
<1>. HIDE DEF old, open
<1>5. Append(old, nextSeq) \in Seq(Seqs) /\ Len(Append(old, nextSeq)) = Len(old) + 1
  BY <1>3, AppendProperties
<1>6. /\ DOMAIN files' = DOMAIN files \cup {open} /\ files'[open] = Append(old, nextSeq)
      /\ \A id \in DOMAIN files \ {open} : files'[id] = files[id]
  BY <1>4
<1>7. \A id \in DOMAIN files' : files'[id] \in Seq(Seqs)
  BY <1>1, <1>5, <1>6
<1>8. /\ CompleteFrames(files', open) = Len(old) + 1
      /\ CompleteFrames(files, open) = Len(old)
      /\ \A id : id # open => CompleteFrames(files', id) = CompleteFrames(files, id)
  BY <1>5, <1>6 DEF CompleteFrames, Frames, old
<1>9. /\ IsTable(segs') /\ DOMAIN segs' = DOMAIN segs
      /\ segs'[open].oldest = segs[open].oldest /\ segs'[open].newest = nextSeq
      /\ \A id \in DOMAIN segs \ {open} : segs'[id] = segs[id]
  <2>. DEFINE new == [segs[open] EXCEPT !.newest = nextSeq, !.size = openBytes + 1]
  <2>1. new \in Segment /\ new.oldest = segs[open].oldest /\ new.newest = nextSeq
    <3>. DEFINE segment == segs[open]
                bytes == openBytes + 1
    <3>1. segment \in Segment /\ bytes \in Nat
      BY <1>2, <1>3
    <3>. HIDE DEF segment, bytes
    <3>2. /\ [segment EXCEPT !.newest = nextSeq, !.size = bytes] \in Segment
          /\ [segment EXCEPT !.newest = nextSeq, !.size = bytes].oldest = segment.oldest
          /\ [segment EXCEPT !.newest = nextSeq, !.size = bytes].newest = nextSeq
      BY <1>3, <3>1 DEF Segment
    <3>. QED
      BY <3>2 DEF segment, bytes
  <2>2. segs' = [segs EXCEPT ![open] = new]
    BY <1>2, <1>4
  <2>. HIDE DEF new
  <2>. QED
    BY <1>1, <1>2, <2>1, <2>2, TableChanged
<1>10. OpenId(segs') = open
  BY <1>2, <1>9, WithinOpen
<1>11. /\ segs[open].oldest + Len(old) <= nextSeq
       /\ End(segs', files', open) = segs[open].oldest + (Len(old) + 1)
  BY <1>1, <1>8, <1>9 DEF End
<1>12. End(segs', files', open) <= nextSeq' /\ nextSeq' <= MaxSeq
  BY SMTT(30), <1>2, <1>3, <1>4, <1>11
<1>13. Within(segs)'
  <2>1. \A id \in DOMAIN segs \ {open} : End(segs', files', id) = End(segs, files, id)
    BY <1>8, <1>9 DEF End
  <2>2. End(segs', files', open) <= MaxSeq
    BY SMTT(30), <1>2, <1>3, <1>4, <1>11, <1>12
  <2>. QED
    BY <1>1, <1>2, <1>9, <1>10, <2>1, <2>2 DEF Within, open
<1>14. Within(index.segs)'
  <2>1. ASSUME NEW id \in DOMAIN index.segs PROVE End(index.segs, files', id) <= MaxSeq
    <3>1. CASE id = open
      <4>1. index.segs[id].oldest = segs[open].oldest
        BY <1>1, <1>2, <3>1
      <4>. QED
        BY SMTT(30), <1>2, <1>3, <1>4, <1>8, <1>11, <1>12, <3>1, <4>1 DEF End
    <3>2. CASE id # open
      BY <1>1, <1>8, <3>2 DEF End, Within
    <3>. QED
      BY <3>1, <3>2
  <2>. QED
    BY <1>1, <1>4, <2>1 DEF Within
<1>15. TypeOK'
  <2>1. Content(files', open) \subseteq Seqs /\ CompleteFrames(files', open) \in Nat
    BY <1>7, FramesAreSeqs
  <2>2. synced' \in Nat /\ owed' \subseteq Seqs
    BY <2>1 DEF AppendFrame, MutexIsFree, Sync, TypeOK, CompleteFrames, open
  <2>3. handle' \in BOOLEAN
    BY DEF AppendFrame, Sync
  <2>4. nextSeq' \in Seqs /\ openBytes' \in Nat
    BY <1>3, <1>4 DEF Seqs
  <2>5. DOMAIN files' \subseteq Nat
    BY <1>2, <1>6 DEF TypeOK
  <2>. QED
    BY <1>4, <1>7, <1>9, <2>2, <2>3, <2>4, <2>5 DEF TypeOK
<1>16. Fits'
  <2>1. DOMAIN files' \subseteq DOMAIN segs'
    BY <1>1, <1>2, <1>6, <1>9
  <2>2. \A id \in DOMAIN index'.segs \cap DOMAIN segs' : index'.segs[id].oldest = segs'[id].oldest
    BY <1>1, <1>4, <1>9
  <2>3. segs'[open].newest < MaxSeq
    BY <1>3, <1>9
  <2>4. OpenId(index'.segs) <= open
    BY <1>1, <1>4
  <2>. QED
    BY <1>4, <1>10, <1>12, <1>13, <1>14, <2>1, <2>2, <2>3, <2>4 DEF Fits
<1>. QED
  BY <1>15, <1>16

\* A write that fails: the file is cut back, or was not there.
LEMMA TypesAppendFails == Types /\ AppendFails => Types'
<1>. SUFFICES ASSUME Types, AppendFails PROVE Types'
  OBVIOUS
<1>. USE DEF Types
<1>. DEFINE open == OpenId(segs)
            old == Frames(files, open)
            kept == IF Len(old) < openBytes THEN Len(old) ELSE openBytes
<1>1. /\ IsTable(segs) /\ Within(segs) /\ \A id \in DOMAIN files : files[id] \in Seq(Seqs)
      /\ IsTable(index.segs) /\ Within(index.segs)
      /\ DOMAIN files \subseteq DOMAIN segs
      /\ End(segs, files, open) <= nextSeq
  BY DEF TypeOK, Fits, AppendFails, MutexIsFree
<1>2. open \in DOMAIN segs /\ open \in Nat
  BY <1>1, EntryIsTyped DEF Within
<1>3. old \in Seq(Seqs) /\ Len(old) \in Nat /\ openBytes \in Nat /\ nextSeq \in Nat
  BY <1>1, FramesAreSeqs, LenProperties DEF TypeOK, Seqs
<1>4. /\ pc = "ready" /\ pc' = pc /\ index' = index /\ segs' = segs
      /\ UNCHANGED <<nextSeq, oldestSeq, acked, openBytes, uptime, reported, telling>>
      /\ files' = [id \in DOMAIN files \cup {open} |->
                     IF id = open THEN SubSeq(old, 1, kept) ELSE files[id]]
  BY DEF AppendFails, MutexIsFree
<1>5. kept \in 0 .. Len(old)
  BY <1>3
<1>. HIDE DEF old, open, kept
<1>6. SubSeq(old, 1, kept) \in Seq(Seqs) /\ Len(SubSeq(old, 1, kept)) = kept
  BY <1>3, <1>5, CutFrames
<1>7. /\ DOMAIN files' = DOMAIN files \cup {open} /\ files'[open] = SubSeq(old, 1, kept)
      /\ \A id \in DOMAIN files \ {open} : files'[id] = files[id]
  BY <1>4
<1>8. \A id \in DOMAIN files' : files'[id] \in Seq(Seqs)
  BY <1>1, <1>6, <1>7
<1>9. \A id : /\ CompleteFrames(files', id) \in Nat /\ CompleteFrames(files, id) \in Nat
              /\ CompleteFrames(files', id) <= CompleteFrames(files, id)
  <2>. TAKE id
  <2>1. CompleteFrames(files, id) \in Nat /\ CompleteFrames(files', id) \in Nat
    BY <1>1, <1>8, FramesAreSeqs
  <2>2. CASE id = open
    BY <1>3, <1>5, <1>6, <1>7, <2>1, <2>2 DEF CompleteFrames, Frames, old
  <2>3. CASE id # open
    BY <1>7, <2>1, <2>3 DEF CompleteFrames, Frames
  <2>. QED
    BY <2>1, <2>2, <2>3
<1>10. ASSUME NEW table, IsTable(table), Within(table)
       PROVE  \A id \in DOMAIN table : End(table, files', id) <= MaxSeq
  <2>. TAKE id \in DOMAIN table
  <2>1. End(table, files, id) <= MaxSeq /\ table[id].oldest \in Nat
    BY <1>10, EntryIsTyped DEF Within, Seqs
  <2>. QED
    BY <1>9, <2>1 DEF End
<1>11. Within(segs)' /\ Within(index.segs)'
  BY <1>1, <1>4, <1>10 DEF Within
<1>12. End(segs', files', open) <= nextSeq'
  <2>1. segs[open].oldest \in Nat /\ segs[open].oldest + CompleteFrames(files, open) <= nextSeq
    BY <1>1, <1>2, EntryIsTyped DEF End, Seqs
  <2>2. /\ CompleteFrames(files', open) \in Nat /\ CompleteFrames(files, open) \in Nat
        /\ CompleteFrames(files', open) <= CompleteFrames(files, open)
    BY <1>9
  <2>3. segs[open].oldest + CompleteFrames(files', open) <= nextSeq
    BY <1>3, <2>1, <2>2
  <2>. QED
    BY <1>4, <2>3 DEF End
<1>13. TypeOK'
  <2>1. Content(files', open) \subseteq Seqs /\ CompleteFrames(files', open) \in Nat
    BY <1>8, FramesAreSeqs
  <2>2. synced' \in Nat
    BY <2>1 DEF AppendFails, Sync, CompleteFrames, open
  <2>3. owed' \subseteq Seqs
    BY <2>1 DEF AppendFails, Sync, TypeOK, open
  <2>5. handle' \in BOOLEAN
    BY DEF AppendFails, Sync
  <2>4. DOMAIN files' \subseteq Nat
    BY <1>2, <1>7 DEF TypeOK
  <2>. QED
    BY <1>4, <1>8, <2>2, <2>3, <2>4, <2>5 DEF TypeOK
<1>14. Fits'
  BY <1>1, <1>2, <1>4, <1>7, <1>11, <1>12 DEF Fits, open
<1>. QED
  BY <1>13, <1>14

\* What leaves the files and the table alone, and saves at most what the table says.
LEMMA TypesKept ==
  ASSUME Types, pc # "off", pc' \in {"ready", "rotate", "reclaim"}, pc' = "rotate" => pc = "rotate",
         UNCHANGED <<nextSeq, segs, openBytes, files, oldestSeq>>,
         acked' \in Seqs \cup {NoAck}, handle' \in BOOLEAN, uptime' \in 0 .. MaxUptime,
         synced' \in Nat, owed' \subseteq Seqs,
         reported' = reported, telling' \subseteq reported,
         IsIndex(index') /\ (index'.segs = segs \/ index' = index)
  PROVE  Types'
<1>. USE DEF Types
<1>1. TypeOK'
  BY DEF TypeOK, IsIndex
<1>2. IsTable(segs) /\ Within(segs) /\ OpenId(segs) \in Nat
  BY EntryIsTyped DEF Fits, TypeOK, Within
<1>3. OpenId(index'.segs) <= OpenId(segs)
  BY <1>2 DEF Fits
<1>4. Within(segs)' /\ Within(index.segs)'
  BY <1>2 DEF Fits, Within
<1>5. Fits'
  BY <1>2, <1>3, <1>4 DEF Fits
<1>. QED
  BY <1>1, <1>5

\* A rotation: the new segment starts at the next number; a full table keeps its last one.
LEMMA TypesRotate == Types /\ Rotate => Types'
<1>. SUFFICES ASSUME Types, Rotate PROVE Types'
  OBVIOUS
<1>. USE DEF Types
<1>. DEFINE open == OpenId(segs)
            closed == [segs EXCEPT ![open].closedAt = uptime]
            larger == [id \in DOMAIN segs \cup {open + 1} |->
                         IF id = open + 1 THEN NewSegment(nextSeq) ELSE closed[id]]
<1>1. /\ IsTable(segs) /\ Within(segs) /\ \A id \in DOMAIN files : files[id] \in Seq(Seqs)
      /\ IsTable(index.segs) /\ Within(index.segs) /\ IsIndex(index)
      /\ DOMAIN files \subseteq DOMAIN segs
      /\ End(segs, files, open) <= nextSeq
      /\ OpenId(index.segs) <= open
      /\ \A id \in DOMAIN index.segs \cap DOMAIN segs : index.segs[id].oldest = segs[id].oldest
      /\ segs[open].newest < MaxSeq
      /\ nextSeq \in Seqs /\ uptime \in 0 .. MaxUptime /\ oldestSeq \in Seqs
      /\ acked \in Seqs \cup {NoAck}
  BY DEF TypeOK, Fits, Rotate, IsIndex
<1>2. /\ open \in DOMAIN segs /\ DOMAIN segs \subseteq 0 .. open /\ open \in Nat
      /\ segs[open] \in Segment /\ OpenId(index.segs) \in DOMAIN index.segs
      /\ DOMAIN index.segs \subseteq 0 .. OpenId(index.segs) /\ OpenId(index.segs) \in Nat
  BY <1>1, EntryIsTyped DEF Within
<1>3. /\ pc = "rotate" /\ pc' = "ready" /\ files' = files
      /\ UNCHANGED <<nextSeq, oldestSeq, acked, handle, uptime, owed, reported, telling>>
      /\ openBytes' = 0
      /\ synced' = CompleteFrames(files, OpenId(segs'))
      /\ SaveIndex(nextSeq, oldestSeq, acked, segs', 0)
      /\ (segs' = larger \/ segs' = closed)
  BY DEF Rotate, historyVars, CompleteFrames
<1>. HIDE DEF open
<1>4. /\ IsTable(closed) /\ DOMAIN closed = DOMAIN segs
      /\ \A id \in DOMAIN segs : /\ closed[id].oldest = segs[id].oldest
                                 /\ closed[id].newest = segs[id].newest
  <2>. DEFINE segment == segs[open]
              new == [segs[open] EXCEPT !.closedAt = uptime]
  <2>1. segment \in Segment
    BY <1>2
  <2>2. new = [segment EXCEPT !.closedAt = uptime]
    OBVIOUS
  <2>. HIDE DEF segment, new
  <2>3. new \in Segment /\ new.oldest = segment.oldest /\ new.newest = segment.newest
    BY <1>1, <2>1, <2>2 DEF Segment
  <2>4. closed = [segs EXCEPT ![open] = new]
    BY <1>2 DEF new
  <2>. HIDE DEF closed
  <2>5. /\ IsTable(closed) /\ DOMAIN closed = DOMAIN segs /\ closed[open] = new
        /\ \A id \in DOMAIN segs \ {open} : closed[id] = segs[id]
    BY <1>1, <1>2, <2>3, <2>4, TableChanged
  <2>. QED
    BY <2>3, <2>5 DEF segment
<1>5. \A id \in DOMAIN segs : End(closed, files, id) = End(segs, files, id)
  BY <1>4 DEF End
<1>6. OpenId(closed) = open
  <2>. HIDE DEF closed
  <2>. QED
    BY <1>2, <1>4, WithinOpen
<1>. HIDE DEF closed
<1>7. Within(closed)
  BY <1>1, <1>4, <1>5, <1>6 DEF Within, open
<1>8. NewSegment(nextSeq) \in Segment /\ NewSegment(nextSeq).oldest = nextSeq
  BY <1>1 DEF NewSegment, Segment
<1>9. /\ DOMAIN larger = DOMAIN segs \cup {open + 1} /\ open + 1 \notin DOMAIN segs
      /\ larger[open + 1] = NewSegment(nextSeq)
      /\ \A id \in DOMAIN segs : larger[id] = closed[id]
  BY <1>2
<1>. HIDE DEF larger
<1>10. IsTable(larger) /\ DOMAIN larger \subseteq 0 .. open + 1
  <2>1. \A id \in DOMAIN larger : larger[id] \in Segment
    BY <1>4, <1>8, <1>9 DEF IsTable
  <2>. QED
    BY <1>2, <1>9, <2>1 DEF IsTable
<1>11. OpenId(larger) = open + 1
  BY <1>2, <1>9, <1>10, WithinOpen
<1>12. /\ End(larger, files, open + 1) = nextSeq
       /\ \A id \in DOMAIN segs : End(larger, files, id) = End(segs, files, id)
  <2>1. CompleteFrames(files, open + 1) = 0
    BY <1>1, <1>9 DEF CompleteFrames, Frames
  <2>2. nextSeq + 0 = nextSeq
    BY <1>1 DEF Seqs
  <2>. QED
    BY <1>4, <1>8, <1>9, <2>1, <2>2 DEF End
<1>13. Within(larger)
  <2>1. \A id \in DOMAIN segs : larger[id].newest < MaxSeq
    BY <1>1, <1>4, <1>9 DEF Within, open
  <2>2. nextSeq <= MaxSeq
    BY <1>1 DEF Seqs
  <2>. QED
    BY <1>1, <1>9, <1>10, <1>11, <1>12, <2>1, <2>2 DEF Within
<1>14. /\ IsTable(segs') /\ Within(segs)' /\ OpenId(segs') \in DOMAIN segs'
       /\ DOMAIN segs \subseteq DOMAIN segs'
       /\ \A id \in DOMAIN segs : segs'[id].oldest = segs[id].oldest
       /\ End(segs', files', OpenId(segs')) <= nextSeq'
       /\ OpenId(segs') \in Nat /\ open <= OpenId(segs')
       /\ DOMAIN segs' \subseteq DOMAIN segs \cup {open + 1}
  <2>1. nextSeq <= nextSeq /\ open <= open + 1 /\ open <= open /\ open + 1 \in Nat
    BY <1>1, <1>2 DEF Seqs
  <2>2. CASE segs' = larger
    BY <1>3, <1>4, <1>8, <1>9, <1>10, <1>11, <1>12, <1>13, <2>1, <2>2 DEF Within
  <2>3. CASE segs' = closed
    BY <1>1, <1>2, <1>3, <1>4, <1>5, <1>6, <1>7, <2>1, <2>3 DEF Within
  <2>. QED
    BY <1>3, <2>2, <2>3
<1>15. IsIndex(index') /\ (index'.segs = segs' \/ index' = index)
  BY <1>1, <1>3, <1>14, SavedIndex
<1>16. TypeOK'
  <2>1. synced' \in Nat
    BY <1>1, <1>3, FramesAreSeqs
  <2>. QED
    BY <1>3, <1>14, <1>15, <2>1 DEF TypeOK, IsIndex
<1>17. Within(index.segs)'
  <2>1. CASE index'.segs = segs'
    BY <1>14, <2>1 DEF Within
  <2>2. CASE index' = index
    BY <1>1, <1>3, <2>2 DEF Within
  <2>. QED
    BY <1>15, <2>1, <2>2
<1>18. OpenId(index'.segs) <= OpenId(segs')
  BY <1>1, <1>2, <1>14, <1>15
<1>19. \A id \in DOMAIN index'.segs \cap DOMAIN segs' : index'.segs[id].oldest = segs'[id].oldest
  <2>1. CASE index'.segs = segs'
    BY <2>1
  <2>2. CASE index' = index
    <3>1. \A id \in DOMAIN index.segs : id <= open /\ id \in Nat
      BY <1>1, <1>2
    <3>2. \A id \in DOMAIN index.segs \cap DOMAIN segs' : id \in DOMAIN segs
      BY <1>2, <1>14, <3>1
    <3>. QED
      BY <1>1, <1>14, <2>2, <3>2
  <2>. QED
    BY <1>15, <2>1, <2>2
<1>20. Fits'
  BY <1>1, <1>3, <1>14, <1>17, <1>18, <1>19 DEF Fits
<1>. QED
  BY <1>16, <1>20

\* A segment reclaimed: it was closed, so what is told lost was handed out.
LEMMA TypesReclaim ==
  ASSUME NEW victim \in Closed, Types, ReclaimOne(victim)
  PROVE  Types'
<1>. USE DEF Types
<1>. DEFINE open == OpenId(segs)
            newOldest == segs[victim].newest + 1
<1>1. /\ IsTable(segs) /\ Within(segs) /\ \A id \in DOMAIN files : files[id] \in Seq(Seqs)
      /\ IsTable(index.segs) /\ Within(index.segs)
      /\ DOMAIN files \subseteq DOMAIN segs
      /\ End(segs, files, open) <= nextSeq
      /\ OpenId(index.segs) <= open
      /\ \A id \in DOMAIN index.segs \cap DOMAIN segs : index.segs[id].oldest = segs[id].oldest
  BY DEF TypeOK, Fits, ReclaimOne
<1>2. /\ open \in DOMAIN segs /\ DOMAIN segs \subseteq 0 .. open /\ open \in Nat
      /\ victim \in DOMAIN segs /\ victim # open
  BY <1>1, EntryIsTyped DEF Within, Closed
<1>3. /\ pc # "off" /\ pc' = "reclaim" /\ index' = index
      /\ UNCHANGED <<nextSeq, acked, openBytes, handle, uptime, synced, owed>>
      /\ files' = [id \in DOMAIN files \ {victim} |-> files[id]]
      /\ segs' = [id \in DOMAIN segs \ {victim} |-> segs[id]]
      /\ oldestSeq' \in {newOldest, oldestSeq}
      /\ reported' = reported \cup Gap(newOldest)
      /\ telling' \in {telling, telling \cup Gap(newOldest)}
  BY DEF ReclaimOne
<1>4. newOldest \in Seqs
  <2>1. segs[victim].newest \in Nat /\ segs[victim].newest < MaxSeq
    BY <1>1, <1>2, EntryIsTyped DEF Within, Seqs
  <2>. QED
    BY <2>1 DEF Seqs
<1>. HIDE DEF open, newOldest
<1>5. Gap(newOldest) \subseteq Seqs
  <2>1. oldestSeq \in Nat /\ newOldest <= MaxSeq /\ newOldest \in Nat /\ acked + 1 \in Nat
    BY <1>4 DEF TypeOK, Seqs, NoAck
  <2>. QED
    BY <2>1 DEF Gap, FirstUnacked, Seqs
<1>6. /\ DOMAIN files' = DOMAIN files \ {victim} /\ \A id \in DOMAIN files' : files'[id] = files[id]
      /\ DOMAIN segs' = DOMAIN segs \ {victim} /\ \A id \in DOMAIN segs' : segs'[id] = segs[id]
  BY <1>3
<1>7. TypeOK'
  <2>1. IsTable(segs')
    BY <1>1, <1>2, <1>6 DEF IsTable
  <2>2. \A id \in DOMAIN files' : files'[id] \in Seq(Seqs)
    BY <1>1, <1>6
  <2>3. oldestSeq' \in Seqs /\ reported' \subseteq Seqs /\ telling' \subseteq reported'
    BY <1>3, <1>4, <1>5 DEF TypeOK
  <2>. QED
    BY <1>3, <1>6, <2>1, <2>2, <2>3 DEF TypeOK
<1>8. OpenId(segs') = open
  BY <1>1, <1>2, <1>6, <1>7, WithinOpen DEF TypeOK
<1>9. /\ \A id \in DOMAIN segs' : CompleteFrames(files', id) = CompleteFrames(files, id)
      /\ CompleteFrames(files', victim) = 0
  BY <1>6 DEF CompleteFrames, Frames
<1>10. Within(segs)'
  BY <1>1, <1>2, <1>6, <1>8, <1>9 DEF Within, End, open
<1>11. Within(index.segs)'
  <2>1. ASSUME NEW id \in DOMAIN index.segs PROVE End(index.segs, files', id) <= MaxSeq
    <3>1. End(index.segs, files, id) <= MaxSeq
      BY <1>1 DEF Within
    <3>2. CASE id = victim
      <4>1. index.segs[id].oldest \in Nat /\ index.segs[id].oldest <= MaxSeq
        BY <1>1, EntryIsTyped DEF Seqs
      <4>. QED
        BY <1>9, <3>2, <4>1 DEF End
    <3>3. CASE id # victim
      <4>1. CompleteFrames(files', id) = CompleteFrames(files, id)
        BY <1>6, <3>3 DEF CompleteFrames, Frames
      <4>. QED
        BY <3>1, <4>1 DEF End
    <3>. QED
      BY <3>2, <3>3
  <2>. QED
    BY <1>1, <1>3, <2>1 DEF Within
<1>12. End(segs', files', open) <= nextSeq'
  BY <1>1, <1>2, <1>3, <1>6, <1>9 DEF End
<1>13. Fits'
  BY <1>1, <1>3, <1>6, <1>8, <1>10, <1>11, <1>12 DEF Fits
<1>. QED
  BY <1>7, <1>13

\* Every step keeps the types.
LEMMA TypesNext == Types /\ [Next]_vars => Types'
<1>. SUFFICES ASSUME Types, [Next]_vars PROVE Types'
  OBVIOUS
<1>1. /\ pc \in {"off", "ready", "rotate", "reclaim"}
      /\ nextSeq \in Seqs /\ oldestSeq \in Seqs /\ acked \in Seqs \cup {NoAck}
      /\ IsTable(segs) /\ openBytes \in Nat /\ uptime \in 0 .. MaxUptime
      /\ synced \in Nat /\ owed \subseteq Seqs /\ telling \subseteq reported
      /\ IsIndex(index)
      /\ \A id \in DOMAIN files : files[id] \in Seq(Seqs)
  BY DEF Types, TypeOK, IsIndex
<1>2. handle \in BOOLEAN
  BY DEF Types, TypeOK
<1>3. CASE Boot \/ Crash \/ AppendFrame \/ AppendFails \/ Rotate
  BY <1>3, TypesBoot, TypesCrash, TypesAppend, TypesAppendFails, TypesRotate
<1>4. CASE Read
  <2>1. /\ pc = "ready" /\ pc' = pc /\ files' = files /\ index' = index
        /\ UNCHANGED <<nextSeq, oldestSeq, acked, segs, openBytes, uptime, reported, telling>>
        /\ handle' = FALSE
        /\ synced' = CompleteFrames(files, OpenId(segs))
        /\ owed' \subseteq owed \cup Content(files, OpenId(segs))
    BY <1>4 DEF Read, Sync, MutexIsFree, CompleteFrames
  <2>2. synced' \in Nat /\ owed' \subseteq Seqs
    BY <1>1, <2>1, FramesAreSeqs
  <2>3. handle' \in BOOLEAN
    BY <2>1
  <2>. QED
    BY <1>1, <2>1, <2>2, <2>3, TypesKept
<1>5. CASE Ack
  <2>1. PICK upTo \in owed \cup 0 .. acked : acked' = AckedUpTo(upTo)
    BY <1>5 DEF Ack
  <2>2. upTo \in Seqs
    BY <1>1, <2>1 DEF Seqs, NoAck
  <2>3. acked' \in Seqs \cup {NoAck}
    <3>1. nextSeq # 0 => nextSeq - 1 \in Seqs
      BY <1>1 DEF Seqs
    <3>. QED
      BY <1>1, <2>1, <2>2, <3>1 DEF AckedUpTo
  <2>4. /\ pc = "ready" /\ pc' = pc /\ owed' \subseteq owed
        /\ SaveIndex(nextSeq, oldestSeq, acked', segs, openBytes)
        /\ UNCHANGED <<nextSeq, oldestSeq, segs, openBytes, uptime, files, synced, reported, telling>>
    BY <1>5 DEF Ack, MutexIsFree
  <2>5. handle' \in BOOLEAN
    BY <1>2, <1>5 DEF Ack
  <2>6. IsIndex(index') /\ (index'.segs = segs \/ index' = index)
    BY <1>1, <2>3, <2>4, SavedIndex
  <2>. QED
    BY <1>1, <2>3, <2>4, <2>5, <2>6, TypesKept
<1>6. CASE \E id \in Closed : ReclaimOne(id)
  BY <1>6, TypesReclaim
<1>7. CASE ReclaimSave
  <2>1. /\ pc = "reclaim" /\ pc' = "ready"
        /\ SaveIndex(nextSeq, oldestSeq, acked, segs, openBytes)
        /\ UNCHANGED <<nextSeq, oldestSeq, acked, segs, openBytes, uptime, files, synced, owed, reported, telling>>
    BY <1>7 DEF ReclaimSave, ramVars, historyVars
  <2>2. handle' \in BOOLEAN
    BY <1>2, <1>7 DEF ReclaimSave, ramVars
  <2>3. IsIndex(index') /\ (index'.segs = segs \/ index' = index)
    BY <1>1, <2>1, SavedIndex
  <2>. QED
    BY <1>1, <2>1, <2>2, <2>3, TypesKept
<1>8. CASE GapEventsSynced \/ UptimePasses
  <2>1. handle' \in BOOLEAN
    BY <1>2, <1>8 DEF GapEventsSynced, UptimePasses, ramVars
  <2>2. uptime' \in 0 .. MaxUptime
    BY <1>1, <1>8 DEF GapEventsSynced, UptimePasses, ramVars
  <2>3. /\ pc = "ready" /\ pc' = pc /\ index' = index /\ telling' \subseteq reported
        /\ UNCHANGED <<nextSeq, oldestSeq, acked, segs, openBytes, files, synced, owed, reported>>
    BY <1>1, <1>8 DEF GapEventsSynced, UptimePasses, ramVars, flashVars, historyVars, MutexIsFree
  <2>. QED
    BY <1>1, <2>1, <2>2, <2>3, TypesKept
<1>9. CASE UNCHANGED vars
  <2>1. handle' \in BOOLEAN
    BY <1>2, <1>9 DEF vars, ramVars
  <2>2. UNCHANGED <<pc, nextSeq, oldestSeq, acked, segs, openBytes, uptime, index, files, synced,
                    owed, reported, telling>>
    BY <1>9 DEF vars, ramVars, flashVars, historyVars
  <2>3. TypeOK'
    BY <1>1, <2>1, <2>2 DEF Types, TypeOK
  <2>4. Fits'
    BY <2>2 DEF Types, Fits, Within
  <2>. QED
    BY <2>3, <2>4 DEF Types
<1>. QED
  BY <1>3, <1>4, <1>5, <1>6, <1>7, <1>8, <1>9 DEF Next

\* Whatever fails and whenever a reset falls, numbers, tables and files stay in their types:
\* no number beyond those handed out is stored, indexed or told lost (Journal.cpp:183-370).
THEOREM TypeOKHolds == Spec => []TypeOK
<1>1. Init => Types
  BY TypesInit
<1>2. Types /\ [Next]_vars => Types'
  BY TypesNext
<1>3. Types => TypeOK
  BY DEF Types
<1>. QED
  BY <1>1, <1>2, <1>3, PTL DEF Spec

-----------------------------------------------------------------------------
(* A sound table                                                           *)

\* A table and files of the types the invariant gives them.
Regular(table, f) ==
  /\ IsTable(table)
  /\ OpenId(table) \in DOMAIN table /\ DOMAIN table \subseteq 0 .. OpenId(table)
  /\ \A id : CompleteFrames(f, id) \in Nat

\* Where a segment of such a table begins and ends.
LEMMA RegularEntry ==
  ASSUME NEW table, NEW f, Regular(table, f), NEW id \in DOMAIN table
  PROVE  /\ id \in Nat /\ OpenId(table) \in Nat /\ id <= OpenId(table)
         /\ table[id].oldest \in Nat /\ table[id].newest \in Nat
         /\ CompleteFrames(f, id) \in Nat
         /\ End(table, f, id) \in Nat /\ table[id].oldest <= End(table, f, id)
<1>1. id \in Nat /\ OpenId(table) \in Nat /\ id <= OpenId(table)
  BY DEF Regular, IsTable
<1>2. table[id].oldest \in Nat /\ table[id].newest \in Nat
  BY EntryIsTyped DEF Regular, Seqs
<1>3. CompleteFrames(f, id) \in Nat
  BY DEF Regular
<1>. QED
  BY <1>1, <1>2, <1>3 DEF End

\* A table stays sound when the open segment's file gets longer, or shorter where it is not
\* synced, and when its entry says otherwise what is newest.
LEMMA SoundStays ==
  ASSUME NEW t, NEW f, NEW u, NEW g, NEW from \in Nat, NEW sync \in Nat, NEW confirmed \in Int,
         NEW due \in SUBSET Nat, Regular(t, f), Regular(u, g),
         Sound(t, f, from, sync, confirmed, due),
         DOMAIN u = DOMAIN t, OpenId(u) = OpenId(t),
         \A id \in DOMAIN t : u[id].oldest = t[id].oldest,
         \A id \in DOMAIN t \ {OpenId(t)} :
           u[id].newest = t[id].newest /\ CompleteFrames(g, id) = CompleteFrames(f, id),
         sync <= CompleteFrames(g, OpenId(t))
  PROVE  Sound(u, g, from, sync, confirmed, due)
<1>. DEFINE open == OpenId(t)
<1>1. open \in DOMAIN t /\ open \in Nat
  BY RegularEntry DEF Regular
<1>2. \A id \in DOMAIN t \ {open} : End(u, g, id) = End(t, f, id)
  BY DEF End
<1>3. Chained(u, g)
  <2>1. \A id \in DOMAIN u \ {OpenId(u)} :
          /\ id + 1 \in DOMAIN u
          /\ CompleteFrames(g, id) > 0
          /\ u[id].newest = End(u, g, id) - 1
    BY <1>2 DEF Sound, Chained
  <2>2. ASSUME NEW i \in DOMAIN u, NEW j \in DOMAIN u, i < j
        PROVE  End(u, g, i) <= u[j].oldest
    <3>1. i # open
      BY <2>2, RegularEntry
    <3>2. End(t, f, i) <= t[j].oldest
      BY <2>2 DEF Sound, Chained
    <3>. QED
      BY <1>2, <3>1, <3>2
  <2>3. \E id \in DOMAIN u : \A other \in DOMAIN u : id <= other
    BY DEF Sound, Chained
  <2>. QED
    BY <2>1, <2>2, <2>3 DEF Chained
<1>4. Covers(u, g, from)
  <2>1. \A id \in DOMAIN u : from <= u[id].oldest
    BY DEF Sound, Covers
  <2>2. ASSUME NEW s \in from .. End(u, g, open) - 1
        PROVE  \E id \in DOMAIN u : u[id].oldest <= s /\ s < End(u, g, id)
    <3>1. End(u, g, open) \in Nat /\ End(t, f, open) \in Nat /\ t[open].oldest \in Nat
          /\ t[open].oldest <= End(t, f, open) /\ s \in Nat /\ s < End(u, g, open)
      BY <1>1, RegularEntry
    <3>2. CASE s < End(t, f, open)
      <4>1. s \in from .. End(t, f, open) - 1
        BY <3>1, <3>2
      <4>2. PICK id \in DOMAIN t : t[id].oldest <= s /\ s < End(t, f, id)
        BY <4>1 DEF Sound, Covers
      <4>3. u[id].oldest <= s /\ s < End(u, g, id)
        BY <1>2, <3>1, <4>2
      <4>. QED
        BY <4>2, <4>3
    <3>3. CASE ~(s < End(t, f, open))
      <4>1. u[open].oldest <= s
        BY <1>1, <3>1, <3>3
      <4>. QED
        BY <1>1, <3>1, <4>1
    <3>. QED
      BY <3>2, <3>3
  <2>. QED
    BY <2>1, <2>2 DEF Covers
<1>5. Safe(u, g, sync, confirmed, due)
  BY <1>1 DEF Sound, Safe
<1>. QED
  BY <1>3, <1>4, <1>5 DEF Sound

\* What is in a file is numbered from its segment's oldest on.
LEMMA ContentIsPlaced ==
  ASSUME NEW t, NEW f, Regular(t, f), Numbered(t, f), NEW id \in DOMAIN t, NEW s \in Content(f, id)
  PROVE  s \in Nat /\ t[id].oldest <= s /\ s < End(t, f, id)
<1>1. PICK k \in 1 .. Len(Frames(f, id)) : s = Frames(f, id)[k]
  BY DEF Content
<1>2. t[id].oldest \in Nat /\ Len(Frames(f, id)) \in Nat
  BY RegularEntry DEF CompleteFrames
<1>3. id \in DOMAIN f
  <2>1. CASE id \notin DOMAIN f
    <3>1. Len(Frames(f, id)) = 0
      BY <2>1 DEF Frames
    <3>. QED
      BY <1>1, <3>1
  <2>. QED
    BY <2>1
<1>4. s = t[id].oldest + k - 1
  BY <1>1, <1>3 DEF Numbered, Frames
<1>. QED
  BY <1>1, <1>2, <1>4 DEF End, CompleteFrames

\* And whatever number a segment has room for up to its end is in its file.
LEMMA PlacedIsContent ==
  ASSUME NEW t, NEW f, Regular(t, f), Numbered(t, f), NEW id \in DOMAIN t,
         NEW s \in Nat, t[id].oldest <= s, s < End(t, f, id)
  PROVE  s \in Content(f, id)
<1>. DEFINE k == s - t[id].oldest + 1
<1>1. t[id].oldest \in Nat /\ Len(Frames(f, id)) \in Nat
  BY RegularEntry DEF CompleteFrames
<1>2. k \in 1 .. Len(Frames(f, id)) /\ s = t[id].oldest + k - 1
  BY <1>1 DEF End, CompleteFrames
<1>. HIDE DEF k
<1>3. id \in DOMAIN f
  <2>1. CASE id \notin DOMAIN f
    <3>1. Len(Frames(f, id)) = 0
      BY <2>1 DEF Frames
    <3>. QED
      BY <1>2, <3>1
  <2>. QED
    BY <2>1
<1>4. Frames(f, id)[k] = s
  BY <1>2, <1>3 DEF Numbered, Frames
<1>. QED
  BY <1>2, <1>4 DEF Content

\* A table stays sound when the open segment's file is synced.
LEMMA SoundSynced ==
  ASSUME NEW t, NEW f, NEW from \in Nat, NEW sync \in Nat, NEW confirmed \in Int,
         NEW due \in SUBSET Nat, NEW later \in SUBSET Nat, Regular(t, f), Numbered(t, f),
         Sound(t, f, from, sync, confirmed, due),
         later \subseteq due \cup Content(f, OpenId(t))
  PROVE  Sound(t, f, from, CompleteFrames(f, OpenId(t)), confirmed, later)
<1>. DEFINE open == OpenId(t)
            frames == CompleteFrames(f, open)
<1>1. open \in DOMAIN t /\ t[open].oldest \in Nat /\ frames \in Nat
  BY RegularEntry DEF Regular
<1>2. sync <= frames /\ confirmed < t[open].oldest + sync
      /\ \A s \in due : s < t[open].oldest + sync
  BY DEF Sound, Safe
<1>. HIDE DEF frames, open
<1>3. confirmed < t[open].oldest + frames /\ frames <= frames
  BY <1>1, <1>2
<1>4. ASSUME NEW s \in later PROVE s < t[open].oldest + frames
  <2>1. CASE s \in due
    BY <1>1, <1>2, <2>1
  <2>2. CASE s \in Content(f, open)
    BY <1>1, <2>2, ContentIsPlaced DEF End, frames
  <2>. QED
    BY <2>1, <2>2 DEF open
<1>5. Safe(t, f, frames, confirmed, later)
  BY <1>3, <1>4 DEF Safe, open, frames
<1>. QED
  BY <1>5 DEF Sound, open, frames

\* An acknowledgement of what is synced.
LEMMA SoundAcked ==
  ASSUME NEW t, NEW f, NEW from, NEW sync, NEW confirmed, NEW due, NEW later, NEW up,
         Sound(t, f, from, sync, confirmed, due),
         up < t[OpenId(t)].oldest + sync, later \subseteq due
  PROVE  Sound(t, f, from, sync, up, later)
  BY DEF Sound, Safe

\* A rotation: the segment that was open is closed, full and synced, and an empty one follows.
LEMMA SoundRotated ==
  ASSUME NEW t, NEW f, NEW u, NEW from \in Nat, NEW sync \in Nat, NEW confirmed \in Int,
         NEW due \in SUBSET Nat, Regular(t, f), Regular(u, f),
         Sound(t, f, from, sync, confirmed, due),
         sync = CompleteFrames(f, OpenId(t)), sync > 0,
         t[OpenId(t)].newest = End(t, f, OpenId(t)) - 1,
         OpenId(u) = OpenId(t) + 1, DOMAIN u = DOMAIN t \cup {OpenId(t) + 1},
         \A id \in DOMAIN t : u[id].oldest = t[id].oldest /\ u[id].newest = t[id].newest,
         u[OpenId(t) + 1].oldest = End(t, f, OpenId(t)),
         CompleteFrames(f, OpenId(t) + 1) = 0
  PROVE  Sound(u, f, from, 0, confirmed, due)
<1>. DEFINE open == OpenId(t)
            next == End(t, f, open)
<1>1. open \in DOMAIN t /\ open \in Nat /\ t[open].oldest \in Nat /\ next \in Nat
      /\ next = t[open].oldest + sync /\ t[open].oldest <= next
  BY RegularEntry DEF Regular, End
<1>2. /\ \A id \in DOMAIN t : End(u, f, id) = End(t, f, id)
      /\ End(u, f, open + 1) = next
  BY <1>1 DEF End
<1>3. open + 1 \notin DOMAIN t /\ open + 1 # open
  BY <1>1, RegularEntry
<1>4. Chained(t, f) /\ Covers(t, f, from) /\ Safe(t, f, sync, confirmed, due)
  BY DEF Sound
<1>. HIDE DEF next, open
<1>5. \A id \in DOMAIN t : id <= open /\ End(t, f, id) <= next
  <2>. TAKE id \in DOMAIN t
  <2>1. id \in Nat /\ id <= open /\ End(t, f, id) \in Nat
    BY RegularEntry DEF open
  <2>2. CASE id = open
    BY <1>1, <2>1, <2>2 DEF next
  <2>3. CASE id # open
    <3>1. id < open
      BY <1>1, <2>1, <2>3
    <3>2. End(t, f, id) <= t[open].oldest
      BY <1>1, <1>4, <3>1 DEF Chained
    <3>. QED
      BY <1>1, <2>1, <3>2
  <2>. QED
    BY <2>2, <2>3
<1>6. Chained(u, f)
  <2>1. \E id \in DOMAIN u : \A other \in DOMAIN u : id <= other
    <3>1. PICK id \in DOMAIN t : \A other \in DOMAIN t : id <= other
      BY <1>4 DEF Chained
    <3>2. id <= open /\ id \in Nat
      BY <1>1, <3>1, RegularEntry
    <3>3. id <= open + 1
      BY <1>1, <3>2
    <3>. QED
      BY <3>1, <3>3 DEF open
  <2>2. ASSUME NEW id \in DOMAIN u \ {open + 1}
        PROVE  /\ id + 1 \in DOMAIN u
               /\ CompleteFrames(f, id) > 0
               /\ u[id].newest = End(u, f, id) - 1
    <3>1. id \in DOMAIN t
      BY <2>2 DEF open
    <3>2. CASE id = open
      BY <1>1, <1>2, <3>2 DEF open, next
    <3>3. CASE id # open
      BY <1>2, <1>4, <3>1, <3>3 DEF Chained, open
    <3>. QED
      BY <3>2, <3>3
  <2>3. ASSUME NEW i \in DOMAIN u, NEW j \in DOMAIN u, i < j
        PROVE  End(u, f, i) <= u[j].oldest
    <3>1. i # open + 1
      <4>1. i \in Nat /\ j \in Nat /\ j <= open + 1
        BY RegularEntry DEF open
      <4>. QED
        BY <1>1, <2>3, <4>1
    <3>2. i \in DOMAIN t
      BY <3>1 DEF open
    <3>3. CASE j = open + 1
      BY <1>2, <1>5, <3>2, <3>3 DEF open, next
    <3>4. CASE j # open + 1
      BY <1>2, <1>4, <2>3, <3>2, <3>4 DEF Chained, open
    <3>. QED
      BY <3>3, <3>4
  <2>. QED
    BY <2>1, <2>2, <2>3 DEF Chained, open
<1>7. Covers(u, f, from)
  <2>1. from <= t[open].oldest
    BY <1>1, <1>4 DEF Covers
  <2>2. \A id \in DOMAIN u : from <= u[id].oldest
    <3>. TAKE id \in DOMAIN u
    <3>1. CASE id = open + 1
      <4>1. u[id].oldest = next
        BY <3>1 DEF open, next
      <4>. QED
        BY <1>1, <2>1, <4>1
    <3>2. CASE id # open + 1
      BY <1>4, <3>2 DEF Covers, open
    <3>. QED
      BY <3>1, <3>2
  <2>3. ASSUME NEW s \in from .. End(u, f, open + 1) - 1
        PROVE  \E id \in DOMAIN u : u[id].oldest <= s /\ s < End(u, f, id)
    <3>1. s \in from .. End(t, f, OpenId(t)) - 1
      BY <1>2 DEF next, open
    <3>2. PICK id \in DOMAIN t : t[id].oldest <= s /\ s < End(t, f, id)
      BY <1>4, <3>1 DEF Covers
    <3>. QED
      BY <1>2, <3>2
  <2>. QED
    BY <2>2, <2>3 DEF Covers, open
<1>8. Safe(u, f, 0, confirmed, due)
  <2>1. u[OpenId(u)].oldest + 0 = t[open].oldest + sync
    BY <1>1 DEF next, open
  <2>2. 0 <= CompleteFrames(f, OpenId(u))
    OBVIOUS
  <2>. QED
    BY <1>4, <2>1, <2>2 DEF Safe, open
<1>. QED
  BY <1>6, <1>7, <1>8 DEF Sound

\* A table stays sound without its oldest segment, from the end of that one on.
LEMMA SoundReclaimed ==
  ASSUME NEW t, NEW f, NEW u, NEW g, NEW from \in Nat, NEW sync \in Nat, NEW confirmed \in Int,
         NEW due \in SUBSET Nat, Regular(t, f), Regular(u, g),
         Sound(t, f, from, sync, confirmed, due),
         NEW victim \in DOMAIN t \ {OpenId(t)}, \A id \in DOMAIN t : victim <= id,
         DOMAIN u = DOMAIN t \ {victim}, OpenId(u) = OpenId(t),
         \A id \in DOMAIN u : u[id] = t[id] /\ CompleteFrames(g, id) = CompleteFrames(f, id)
  PROVE  Sound(u, g, End(t, f, victim), sync, confirmed, due)
<1>. DEFINE open == OpenId(t)
            later == End(t, f, victim)
<1>1. open \in DOMAIN u /\ open \in Nat /\ victim \in Nat /\ later \in Nat
      /\ t[victim].oldest \in Nat /\ t[victim].oldest <= later
  BY RegularEntry DEF Regular
<1>2. \A id \in DOMAIN u : End(u, g, id) = End(t, f, id)
  BY DEF End
<1>3. Chained(t, f) /\ Covers(t, f, from) /\ Safe(t, f, sync, confirmed, due)
  BY DEF Sound
<1>4. \A id \in DOMAIN u : id \in Nat /\ victim + 1 <= id /\ later <= u[id].oldest
  <2>. TAKE id \in DOMAIN u
  <2>1. id \in Nat /\ victim <= id /\ victim # id
    BY RegularEntry
  <2>2. victim < id
    BY <1>1, <2>1
  <2>3. End(t, f, victim) <= t[id].oldest
    BY <1>3, <2>2 DEF Chained
  <2>. QED
    BY <1>1, <2>1, <2>2, <2>3
<1>5. Chained(u, g)
  <2>1. victim + 1 \in DOMAIN u
    BY <1>1, <1>3 DEF Chained
  <2>2. ASSUME NEW id \in DOMAIN u \ {OpenId(u)}
        PROVE  /\ id + 1 \in DOMAIN u
               /\ CompleteFrames(g, id) > 0
               /\ u[id].newest = End(u, g, id) - 1
    <3>1. id + 1 \in DOMAIN t /\ CompleteFrames(g, id) > 0 /\ u[id].newest = End(u, g, id) - 1
      BY <1>2, <1>3 DEF Chained
    <3>2. id + 1 # victim
      BY <1>1, <1>4
    <3>. QED
      BY <3>1, <3>2
  <2>3. \A i, j \in DOMAIN u : i < j => End(u, g, i) <= u[j].oldest
    BY <1>2, <1>3 DEF Chained
  <2>. QED
    BY <1>4, <2>1, <2>2, <2>3 DEF Chained
<1>6. Covers(u, g, later)
  <2>1. ASSUME NEW s \in later .. End(u, g, open) - 1
        PROVE  \E id \in DOMAIN u : u[id].oldest <= s /\ s < End(u, g, id)
    <3>1. from <= t[victim].oldest /\ End(u, g, open) = End(t, f, open) /\ End(t, f, open) \in Nat
      BY <1>1, <1>2, <1>3, RegularEntry DEF Covers
    <3>2. s \in from .. End(t, f, open) - 1
      BY <1>1, <3>1
    <3>3. PICK id \in DOMAIN t : t[id].oldest <= s /\ s < End(t, f, id)
      BY <1>3, <3>2 DEF Covers
    <3>4. id # victim
      BY <1>1, <3>3
    <3>. QED
      BY <1>2, <3>3, <3>4
  <2>. QED
    BY <1>4, <2>1 DEF Covers
<1>7. Safe(u, g, sync, confirmed, due)
  BY <1>1, <1>3 DEF Safe
<1>. QED
  BY <1>5, <1>6, <1>7 DEF Sound

\* The reclaimer of Logs and Events takes the oldest segment: if a younger one is confirmed
\* in full, so is every older one.
LEMMA VictimIsOldest ==
  ASSUME Stream # "Data", Regular(segs, files), Chained(segs, files),
         acked \in Nat \cup {NoAck}, NEW victim \in Closed, NextVictim(victim)
  PROVE  \A id \in DOMAIN segs : victim <= id
<1>. SUFFICES ASSUME NEW id \in DOMAIN segs, id < victim PROVE FALSE
  BY RegularEntry DEF Closed
<1>. DEFINE open == OpenId(segs)
<1>1. /\ victim \in DOMAIN segs /\ victim # open /\ victim <= open /\ victim \in Nat /\ id \in Nat
      /\ open \in Nat
  BY RegularEntry DEF Closed
<1>2. id \in Closed
  BY <1>1 DEF Closed
<1>3. Tier(victim) < Tier(id) \/ (Tier(victim) = Tier(id) /\ victim <= id)
  BY <1>2 DEF NextVictim
<1>4. Tier(victim) < Tier(id)
  BY <1>1, <1>3
<1>5. FullyAcked(victim) /\ ~FullyAcked(id)
  <2>1. CASE FullyAcked(id)
    <3>1. Tier(id) = 1
      BY <2>1 DEF Tier
    <3>2. Tier(victim) \in {1, 3, 4}
      BY DEF Tier
    <3>. QED
      BY <1>4, <3>1, <3>2
  <2>2. CASE ~FullyAcked(id) /\ ~FullyAcked(victim)
    <3>1. CASE Stream = "Logs"
      <4>1. Tier(id) = 3 /\ Tier(victim) = 3
        BY <2>2, <3>1 DEF Tier
      <4>. QED
        BY <1>4, <4>1
    <3>2. CASE Stream # "Logs"
      <4>1. Tier(id) = 4 /\ Tier(victim) = 4
        BY <2>2, <3>2 DEF Tier
      <4>. QED
        BY <1>4, <4>1
    <3>. QED
      BY <3>1, <3>2
  <2>. QED
    BY <2>1, <2>2
<1>6. /\ segs[id].newest = End(segs, files, id) - 1
      /\ segs[victim].newest = End(segs, files, victim) - 1
      /\ End(segs, files, id) <= segs[victim].oldest
  BY <1>1, <1>2 DEF Chained, Closed
<1>7. /\ segs[victim].oldest <= End(segs, files, victim) /\ End(segs, files, victim) \in Nat
      /\ End(segs, files, id) \in Nat /\ segs[victim].oldest \in Nat
  BY <1>1, RegularEntry
<1>8. acked # NoAck /\ segs[victim].newest <= acked /\ acked \in Nat
  BY <1>5 DEF FullyAcked
<1>9. segs[id].newest <= acked
  BY <1>6, <1>7, <1>8
<1>. QED
  BY <1>5, <1>8, <1>9 DEF FullyAcked

-----------------------------------------------------------------------------
(* The steps keep the stream durable                                       *)

\* A table that is typed is as the lemmas above take it.
LEMMA RegularBy ==
  ASSUME NEW t, NEW f, IsTable(t), OpenId(t) \in DOMAIN t, DOMAIN t \subseteq 0 .. OpenId(t),
         \A id \in DOMAIN f : f[id] \in Seq(Seqs)
  PROVE  Regular(t, f)
<1>1. \A id : CompleteFrames(f, id) \in Nat
  BY FramesAreSeqs
<1>. QED
  BY <1>1 DEF Regular

\* So are the tables of a state, before and after a step.
LEMMA TablesAreRegular ==
  Types => Regular(index.segs, files) /\ (pc # "off" => Regular(segs, files))
  BY RegularBy DEF Types, TypeOK, Fits, Within

LEMMA TablesStayRegular ==
  Types' => Regular(index'.segs, files') /\ (pc' # "off" => Regular(segs', files'))
  BY RegularBy DEF Types, TypeOK, Fits, Within

\* The numbers a sound table is stated with.
LEMMA NumbersNow ==
  ASSUME Types
  PROVE  OldestNow \in Nat /\ AckedNow \in Int /\ synced \in Nat /\ owed \in SUBSET Nat
  BY DEF Types, TypeOK, OldestNow, AckedNow, Seqs, NoAck

\* Nothing but a fresh stream.
LEMMA DurableInit == Init => Durable
<1>. SUFFICES ASSUME Init PROVE Durable
  OBVIOUS
<1>1. Types
  BY TypesInit
<1>2. /\ TableNow = FreshIndex.segs /\ OldestNow = 0 /\ AckedNow = -1 /\ synced = 0 /\ owed = {}
      /\ pc = "off"
  BY DEF Init, TableNow, OldestNow, AckedNow, FreshIndex, NoAck
<1>3. DOMAIN TableNow = {0} /\ TableNow[0].oldest = 0
  BY <1>2, FreshTable
<1>4. OpenId(TableNow) = 0
  BY <1>1, <1>2, <1>3, TablesAreRegular DEF Regular, TableNow, Init
<1>5. CompleteFrames(files, 0) = 0
  BY DEF Init, CompleteFrames, Frames
<1>6. End(TableNow, files, 0) = 0
  BY <1>3, <1>5 DEF End
<1>7. Chained(TableNow, files)
  BY <1>3, <1>4 DEF Chained
<1>8. Covers(TableNow, files, 0)
  BY <1>3, <1>4, <1>6 DEF Covers
<1>9. Safe(TableNow, files, 0, -1, {})
  BY <1>3, <1>4, <1>5 DEF Safe
<1>. QED
  BY <1>2, <1>4, <1>5, <1>7, <1>8, <1>9 DEF Durable, Sound

\* A boot reads back a sound table.
LEMMA DurableBoot ==
  ASSUME Types, Positions, Durable, Boot
  PROVE  /\ Durable'
         /\ synced' = synced
         /\ DOMAIN segs' = DOMAIN index.segs
         /\ \A id \in DOMAIN index.segs : /\ segs'[id].oldest = index.segs[id].oldest
                                         /\ CompleteFrames(files', id) = CompleteFrames(files, id)
<1>. DEFINE open == OpenId(index.segs)
            frames == CompleteFrames(files', open)
<1>1. Types'
  BY TypesBoot
<1>2. /\ pc = "off" /\ pc' = "ready" /\ index' = index /\ owed' = owed
      /\ oldestSeq' = index.oldestSeq /\ acked' = index.acked
      /\ files' = ListedFiles /\ synced' = frames
      /\ segs' = [index.segs EXCEPT ![open] = Recovered(@, frames)]
  BY DEF Boot, historyVars
<1>3. /\ TableNow = index.segs /\ OldestNow = index.oldestSeq /\ AckedNow = index.acked
      /\ TableNow' = segs' /\ OldestNow' = index.oldestSeq /\ AckedNow' = index.acked
  BY <1>2 DEF TableNow, OldestNow, AckedNow
<1>4. Regular(index.segs, files) /\ Regular(segs', files')
  BY <1>1, <1>2, TablesAreRegular, TablesStayRegular
<1>. HIDE DEF open
<1>5. open \in DOMAIN index.segs
  BY <1>4 DEF Regular, open
<1>6. /\ DOMAIN segs' = DOMAIN index.segs
      /\ segs'[open].oldest = index.segs[open].oldest
      /\ \A id \in DOMAIN index.segs \ {open} : segs'[id] = index.segs[id]
  <2>1. index.segs[open] \in Segment
    BY <1>4, <1>5 DEF Regular, IsTable
  <2>2. Recovered(index.segs[open], frames).oldest = index.segs[open].oldest
    BY <2>1 DEF Recovered, Segment
  <2>. QED
    BY <1>2, <1>5, <2>2 DEF open
<1>7. OpenId(segs') = open
  BY <1>6 DEF OpenId, open
<1>8. \A id \in DOMAIN index.segs : CompleteFrames(files', id) = CompleteFrames(files, id)
  BY <1>2 DEF ListedFiles, CompleteFrames, Frames
<1>9. synced' = synced
  BY <1>2, <1>3, <1>5, <1>8 DEF Durable, open
<1>10. Sound(index.segs, files, index.oldestSeq, synced, index.acked, owed)
  BY <1>3 DEF Durable
<1>11. Sound(segs', files', index.oldestSeq, synced, index.acked, owed)
  <2>1. index.oldestSeq \in Nat /\ index.acked \in Int /\ synced \in Nat /\ owed \in SUBSET Nat
    BY <1>3, NumbersNow
  <2>2. synced <= CompleteFrames(files', open)
    BY <1>2, <1>9, <2>1
  <2>. QED
    BY <1>4, <1>6, <1>7, <1>8, <1>10, <2>1, <2>2, SoundStays DEF open
<1>12. Recorded'
  BY <1>2, <1>6, <1>7 DEF Recorded
<1>13. Durable'
  BY <1>2, <1>3, <1>9, <1>11, <1>12 DEF Durable
<1>. QED
  BY <1>6, <1>8, <1>9, <1>13

\* A reset leaves the flash a boot will read back: the cut file, and the index as it was
\* saved when the table last got or lost a segment.
LEMMA DurableCrash ==
  ASSUME ~CrashInReclaim, Types, Positions, Positions', Durable, Crash
  PROVE  /\ Durable'
         /\ synced <= CompleteFrames(files', OpenId(segs))
         /\ CompleteFrames(files', OpenId(segs)) <= CompleteFrames(files, OpenId(segs))
<1>. DEFINE open == OpenId(segs)
<1>1. Types'
  BY TypesCrash
<1>2. /\ pc \in {"ready", "rotate"} /\ pc # "off" /\ pc' = "off" /\ index' = index
      /\ synced' = CompleteFrames(files', open)
      /\ owed' \subseteq owed \cup Content(files', open)
  BY DEF Crash, CompleteFrames, Types, TypeOK
<1>3. PICK kept \in synced .. Len(Frames(files, open)) :
        files' = [id \in DOMAIN files |->
                    IF id = open THEN SubSeq(files[id], 1, kept) ELSE files[id]]
  BY DEF Crash
<1>4. /\ TableNow = segs /\ OldestNow = oldestSeq /\ AckedNow = acked
      /\ TableNow' = index.segs /\ OldestNow' = index.oldestSeq /\ AckedNow' = index.acked
      /\ Recorded
  BY <1>2 DEF TableNow, OldestNow, AckedNow, Durable
<1>5. oldestSeq \in Nat /\ acked \in Int /\ synced \in Nat /\ owed \in SUBSET Nat
      /\ owed' \in SUBSET Nat
  <2>1. owed' \in SUBSET Nat
    BY <1>1 DEF Types, TypeOK, Seqs
  <2>. QED
    BY <1>4, <2>1, NumbersNow
<1>6. Regular(segs, files) /\ Regular(index.segs, files')
  BY <1>1, <1>2, TablesAreRegular, TablesStayRegular
<1>7. Regular(segs, files')
  BY <1>6 DEF Regular
<1>. HIDE DEF open
<1>8. /\ DOMAIN index.segs = DOMAIN segs /\ index.acked = acked /\ index.oldestSeq = oldestSeq
      /\ \A id \in DOMAIN segs \ {open} : index.segs[id] = segs[id]
      /\ \A id \in DOMAIN segs : index.segs[id].oldest = segs[id].oldest
  BY <1>2, <1>4 DEF Recorded, Positions, Placed, open
<1>9. OpenId(index.segs) = open
  BY <1>8 DEF OpenId, open
<1>10. \A id : id # open => CompleteFrames(files', id) = CompleteFrames(files, id)
  BY <1>3 DEF CompleteFrames, Frames
<1>11. /\ synced <= CompleteFrames(files', open)
       /\ CompleteFrames(files', open) <= CompleteFrames(files, open)
  <2>1. \A id \in DOMAIN files : files[id] \in Seq(Seqs)
    BY DEF Types, TypeOK
  <2>2. CASE open \in DOMAIN files
    <3>1. files[open] \in Seq(Seqs) /\ Frames(files, open) = files[open]
      BY <2>1, <2>2 DEF Frames
    <3>2. kept \in 0 .. Len(files[open]) /\ synced <= kept
      BY <1>3, <1>5, <3>1, LenProperties
    <3>3. Len(SubSeq(files[open], 1, kept)) = kept
      BY <3>1, <3>2, CutFrames
    <3>4. CompleteFrames(files', open) = kept /\ CompleteFrames(files, open) = Len(files[open])
      BY <1>3, <2>2, <3>3 DEF CompleteFrames, Frames
    <3>. QED
      BY <3>2, <3>4
  <2>3. CASE open \notin DOMAIN files
    BY <1>3, <1>5, <2>3 DEF CompleteFrames, Frames
  <2>. QED
    BY <2>2, <2>3
<1>12. Sound(segs, files, oldestSeq, synced, acked, owed)
  BY <1>4 DEF Durable
<1>13. Sound(segs, files', oldestSeq, synced, acked, owed)
  BY <1>5, <1>6, <1>7, <1>10, <1>11, <1>12, SoundStays DEF open
<1>14. Sound(index.segs, files', oldestSeq, synced, acked, owed)
  BY <1>5, <1>6, <1>7, <1>8, <1>9, <1>11, <1>13, SoundStays DEF open
<1>15. Numbered(index.segs, files')
  BY <1>2 DEF Positions, Placed
<1>16. Sound(index.segs, files', oldestSeq, CompleteFrames(files', open), acked, owed')
  BY <1>2, <1>5, <1>6, <1>9, <1>14, <1>15, SoundSynced
<1>17. Durable'
  BY <1>2, <1>4, <1>8, <1>9, <1>16 DEF Durable
<1>. QED
  BY <1>11, <1>17 DEF open

\* What leaves the table, and may sync the open file.
LEMMA DurableSynced ==
  ASSUME Types, Types', Positions, Positions', Durable, MutexIsFree, pc' = "ready", Sync,
         UNCHANGED <<segs, oldestSeq, acked, index>>,
         \A id : CompleteFrames(files', id) = CompleteFrames(files, id)
  PROVE  Durable'
<1>. DEFINE open == OpenId(segs)
<1>1. pc = "ready" /\ synced' = CompleteFrames(files', open)
      /\ owed' \subseteq owed \cup Content(files', open)
  BY DEF MutexIsFree, Sync, CompleteFrames
<1>2. /\ TableNow = segs /\ OldestNow = oldestSeq /\ AckedNow = acked
      /\ TableNow' = segs /\ OldestNow' = oldestSeq /\ AckedNow' = acked
      /\ Recorded
  BY <1>1 DEF TableNow, OldestNow, AckedNow, Durable
<1>3. oldestSeq \in Nat /\ acked \in Int /\ synced \in Nat /\ owed \in SUBSET Nat
      /\ owed' \in SUBSET Nat
  <2>1. owed' \in SUBSET Nat
    BY DEF Types, TypeOK, Seqs
  <2>. QED
    BY <1>2, <2>1, NumbersNow
<1>4. Regular(segs, files) /\ Regular(segs, files')
  BY <1>1, TablesAreRegular, TablesStayRegular
<1>5. Sound(segs, files, oldestSeq, synced, acked, owed)
  BY <1>2 DEF Durable
<1>6. synced <= CompleteFrames(files', open)
  BY <1>5 DEF Sound, Safe
<1>7. Sound(segs, files', oldestSeq, synced, acked, owed)
  BY <1>3, <1>4, <1>5, <1>6, SoundStays
<1>8. Numbered(segs, files')
  BY DEF Positions, Placed
<1>9. Sound(segs, files', oldestSeq, CompleteFrames(files', open), acked, owed')
  BY <1>1, <1>3, <1>4, <1>7, <1>8, SoundSynced
<1>10. Recorded'
  BY <1>2 DEF Recorded
<1>. QED
  BY <1>1, <1>2, <1>9, <1>10 DEF Durable

\* A frame written: the open segment ends after it, and when that fills it, it is synced.
LEMMA DurableAppend ==
  ASSUME Types, Types', Positions, Positions', Durable, AppendFrame
  PROVE  /\ Durable'
         /\ CompleteFrames(files', OpenId(segs)) = CompleteFrames(files, OpenId(segs)) + 1
         /\ DOMAIN segs' = DOMAIN segs
         /\ \A id \in DOMAIN segs : segs'[id].oldest = segs[id].oldest
<1>. DEFINE open == OpenId(segs)
<1>1. /\ pc = "ready" /\ pc' \in {"ready", "rotate"} /\ index' = index
      /\ nextSeq' = nextSeq + 1 /\ oldestSeq' = oldestSeq /\ acked' = acked
      /\ files' = [id \in DOMAIN files \cup {open} |->
                     IF id = open THEN Append(Frames(files, open), nextSeq) ELSE files[id]]
      /\ segs' = [segs EXCEPT ![open].newest = nextSeq, ![open].size = openBytes + 1]
      /\ \/ pc' = "rotate" /\ Sync
         \/ pc' = "ready" /\ UNCHANGED <<synced, owed>>
  BY DEF AppendFrame, MutexIsFree
<1>2. /\ TableNow = segs /\ OldestNow = oldestSeq /\ AckedNow = acked
      /\ TableNow' = segs' /\ OldestNow' = oldestSeq /\ AckedNow' = acked
      /\ Recorded
  BY <1>1 DEF TableNow, OldestNow, AckedNow, Durable
<1>3. oldestSeq \in Nat /\ acked \in Int /\ synced \in Nat /\ owed \in SUBSET Nat
      /\ owed' \in SUBSET Nat /\ nextSeq \in Nat
  <2>1. owed' \in SUBSET Nat /\ nextSeq \in Nat
    BY DEF Types, TypeOK, Seqs
  <2>. QED
    BY <1>2, <2>1, NumbersNow
<1>4. Regular(segs, files) /\ Regular(segs', files')
  BY <1>1, TablesAreRegular, TablesStayRegular
<1>. HIDE DEF open
<1>5. open \in DOMAIN segs /\ segs[open] \in Segment
  BY <1>4 DEF Regular, IsTable, open
<1>6. /\ DOMAIN segs' = DOMAIN segs /\ \A id \in DOMAIN segs \ {open} : segs'[id] = segs[id]
      /\ segs'[open].newest = nextSeq
  BY <1>1, <1>5 DEF Segment
<1>7. OpenId(segs') = open
  BY <1>6 DEF OpenId, open
<1>8. \A id : id # open => CompleteFrames(files', id) = CompleteFrames(files, id)
  BY <1>1 DEF CompleteFrames, Frames
<1>9. CompleteFrames(files', open) = CompleteFrames(files, open) + 1
  <2>1. Frames(files, open) \in Seq(Seqs)
    BY FramesAreSeqs DEF Types, TypeOK
  <2>2. nextSeq \in Seqs
    BY DEF Types, TypeOK
  <2>3. Len(Append(Frames(files, open), nextSeq)) = Len(Frames(files, open)) + 1
    BY <2>1, <2>2, AppendProperties
  <2>4. Frames(files', open) = Append(Frames(files, open), nextSeq)
    BY <1>1 DEF Frames
  <2>. QED
    BY <2>3, <2>4 DEF CompleteFrames
<1>10. /\ nextSeq = segs[open].oldest + CompleteFrames(files, open)
       /\ segs'[open].oldest = segs[open].oldest
  BY <1>1, <1>5 DEF Positions, Placed, open, CompleteFrames, Segment
<1>11. Sound(segs, files, oldestSeq, synced, acked, owed)
  BY <1>2 DEF Durable
<1>12. CompleteFrames(files, open) \in Nat /\ synced <= CompleteFrames(files, open)
       /\ synced <= CompleteFrames(files', open) /\ CompleteFrames(files', open) > 0
  <2>1. CompleteFrames(files, open) \in Nat /\ synced <= CompleteFrames(files, open)
    BY <1>4, <1>11 DEF Regular, Sound, Safe, open
  <2>. QED
    BY <1>3, <1>9, <2>1
<1>13. Sound(segs', files', oldestSeq, synced, acked, owed)
  <2>1. \A id \in DOMAIN segs : segs'[id].oldest = segs[id].oldest
    BY <1>6, <1>10
  <2>. QED
    BY <1>3, <1>4, <1>6, <1>7, <1>8, <1>11, <1>12, <2>1, SoundStays DEF open
<1>14. Recorded'
  BY <1>1, <1>2, <1>6, <1>7 DEF Recorded, open
<1>15. ASSUME pc' = "rotate", Sync PROVE Durable'
  <2>1. synced' = CompleteFrames(files', open) /\ owed' \subseteq owed \cup Content(files', open)
    BY <1>15 DEF Sync, CompleteFrames, open
  <2>2. Numbered(segs', files')
    BY <1>15 DEF Positions, Placed
  <2>3. Sound(segs', files', oldestSeq, CompleteFrames(files', open), acked, owed')
    BY <1>3, <1>4, <1>7, <1>13, <2>1, <2>2, SoundSynced
  <2>4. nextSeq = nextSeq' - 1
    BY <1>1, <1>3
  <2>. QED
    BY <1>2, <1>6, <1>7, <1>12, <1>14, <1>15, <2>1, <2>3, <2>4 DEF Durable
<1>16. ASSUME pc' = "ready", UNCHANGED <<synced, owed>> PROVE Durable'
  BY <1>2, <1>13, <1>14, <1>16 DEF Durable
<1>. QED
  BY <1>1, <1>6, <1>9, <1>10, <1>15, <1>16 DEF open

\* A write that fails cuts the file back to where it ended.
LEMMA DurableAppendFails ==
  ASSUME Types, Types', Positions, Positions', Durable, AppendFails
  PROVE  /\ Durable'
         /\ \A id : CompleteFrames(files', id) = CompleteFrames(files, id)
<1>. DEFINE open == OpenId(segs)
            old == Frames(files, open)
<1>1. /\ MutexIsFree /\ pc = "ready" /\ pc' = "ready" /\ Sync
      /\ UNCHANGED <<segs, oldestSeq, acked, index>>
      /\ files' = [id \in DOMAIN files \cup {open} |->
                     IF id = open
                     THEN SubSeq(old, 1, IF Len(old) < openBytes THEN Len(old) ELSE openBytes)
                     ELSE files[id]]
  BY DEF AppendFails, MutexIsFree
<1>2. openBytes = Len(old)
  BY <1>1 DEF Positions, Placed
<1>3. old \in Seq(Seqs) /\ Len(old) \in Nat
  BY FramesAreSeqs, LenProperties DEF Types, TypeOK
<1>4. SubSeq(old, 1, Len(old)) = old
  BY <1>3, SubSeqFull
<1>5. files' = [id \in DOMAIN files \cup {open} |-> IF id = open THEN old ELSE files[id]]
  BY <1>1, <1>2, <1>3, <1>4
<1>6. \A id : CompleteFrames(files', id) = CompleteFrames(files, id)
  BY <1>5 DEF CompleteFrames, Frames
<1>. QED
  BY <1>1, <1>6, DurableSynced

\* A rotation, of which the index tells at once.
LEMMA DurableRotate ==
  ASSUME ~IndexCanFail, Types, Types', Positions, Positions', Durable, TableHasRoom, Rotate
  PROVE  /\ Durable'
         /\ DOMAIN segs' = DOMAIN segs \cup {OpenId(segs) + 1}
         /\ OpenId(segs') = OpenId(segs) + 1
         /\ \A id \in DOMAIN segs : segs'[id].oldest = segs[id].oldest
         /\ segs'[OpenId(segs) + 1].oldest = End(segs, files, OpenId(segs))
         /\ synced = CompleteFrames(files, OpenId(segs)) /\ synced' = 0
         /\ CompleteFrames(files', OpenId(segs) + 1) = 0
<1>. DEFINE open == OpenId(segs)
<1>1. /\ pc = "rotate" /\ pc' = "ready" /\ files' = files
      /\ UNCHANGED <<nextSeq, oldestSeq, acked, owed>>
      /\ synced' = CompleteFrames(files, OpenId(segs'))
      /\ segs' = [id \in DOMAIN segs \cup {open + 1} |->
                     IF id = open + 1 THEN NewSegment(nextSeq)
                                      ELSE [segs EXCEPT ![open].closedAt = uptime][id]]
      /\ index'.segs = segs' /\ index'.acked = acked /\ index'.oldestSeq = oldestSeq
  BY DEF Rotate, TableHasRoom, historyVars, CompleteFrames, SaveIndex
<1>2. /\ TableNow = segs /\ OldestNow = oldestSeq /\ AckedNow = acked
      /\ TableNow' = segs' /\ OldestNow' = oldestSeq /\ AckedNow' = acked
  BY <1>1 DEF TableNow, OldestNow, AckedNow
<1>3. oldestSeq \in Nat /\ acked \in Int /\ synced \in Nat /\ owed \in SUBSET Nat
  BY <1>2, NumbersNow
<1>4. Regular(segs, files) /\ Regular(segs', files)
  BY <1>1, TablesAreRegular, TablesStayRegular
<1>. HIDE DEF open
<1>5. open \in DOMAIN segs /\ segs[open] \in Segment /\ open \in Nat /\ open + 1 \notin DOMAIN segs
      /\ open + 1 # open
  <2>1. open \in DOMAIN segs /\ segs[open] \in Segment /\ open \in Nat
    BY <1>4, RegularEntry DEF Regular, IsTable, open
  <2>2. open + 1 \notin DOMAIN segs
    BY <1>4, <2>1, RegularEntry DEF open
  <2>. QED
    BY <2>1, <2>2
<1>6. /\ DOMAIN segs' = DOMAIN segs \cup {open + 1} /\ segs'[open + 1].oldest = nextSeq
      /\ \A id \in DOMAIN segs : /\ segs'[id].oldest = segs[id].oldest
                                 /\ segs'[id].newest = segs[id].newest
  <2>. DEFINE closed == [segs EXCEPT ![open].closedAt = uptime]
  <2>1. closed[open].oldest = segs[open].oldest /\ closed[open].newest = segs[open].newest
    BY <1>5 DEF Segment
  <2>2. \A id \in DOMAIN segs \ {open} : closed[id] = segs[id]
    OBVIOUS
  <2>3. segs' = [id \in DOMAIN segs \cup {open + 1} |->
                   IF id = open + 1 THEN NewSegment(nextSeq) ELSE closed[id]]
    BY <1>1
  <2>. HIDE DEF closed
  <2>4. segs'[open + 1] = NewSegment(nextSeq) /\ DOMAIN segs' = DOMAIN segs \cup {open + 1}
    BY <2>3
  <2>5. \A id \in DOMAIN segs : segs'[id] = closed[id]
    BY <1>5, <2>3
  <2>. QED
    BY <2>1, <2>2, <2>4, <2>5 DEF NewSegment
<1>7. OpenId(segs') = open + 1
  <2>1. DOMAIN segs' \in SUBSET Nat /\ open + 1 \in DOMAIN segs'
    BY <1>4, <1>6 DEF Regular, IsTable
  <2>2. \A id \in DOMAIN segs' : open + 1 >= id
    <3>1. \A id \in DOMAIN segs : id \in Nat /\ id <= open
      BY <1>4, RegularEntry DEF open
    <3>. QED
      BY <1>5, <1>6, <3>1
  <2>. QED
    BY <2>1, <2>2, NewestIs DEF OpenId
<1>8. /\ nextSeq = End(segs, files, open) /\ segs[open].newest = End(segs, files, open) - 1
      /\ synced = CompleteFrames(files, open) /\ synced > 0
      /\ DOMAIN files \subseteq DOMAIN segs
  BY <1>1, <1>2 DEF Positions, Placed, Durable, End, CompleteFrames, open
<1>9. CompleteFrames(files, open + 1) = 0
  BY <1>5, <1>8 DEF CompleteFrames, Frames
<1>10. Sound(segs, files, oldestSeq, synced, acked, owed)
  BY <1>2 DEF Durable
<1>11. Sound(segs', files, oldestSeq, 0, acked, owed)
  BY <1>3, <1>4, <1>6, <1>7, <1>8, <1>9, <1>10, SoundRotated DEF open
<1>12. Recorded'
  BY <1>1 DEF Recorded
<1>13. Durable' /\ synced' = 0
  BY <1>1, <1>2, <1>7, <1>9, <1>11, <1>12 DEF Durable
<1>. QED
  BY <1>1, <1>6, <1>7, <1>8, <1>9, <1>13 DEF open

\* An acknowledgement: of what was read, so of what is synced.
LEMMA DurableAck ==
  ASSUME ~IndexCanFail, Types, Durable, Ack
  PROVE  Durable'
<1>1. PICK upTo \in owed \cup 0 .. acked : acked' = AckedUpTo(upTo)
  BY DEF Ack
<1>2. /\ pc = "ready" /\ pc' = "ready" /\ files' = files
      /\ UNCHANGED <<nextSeq, oldestSeq, segs, synced>>
      /\ index'.segs = segs' /\ index'.acked = acked' /\ index'.oldestSeq = oldestSeq
      /\ owed' \subseteq owed
  BY DEF Ack, MutexIsFree, SaveIndex
<1>3. /\ TableNow = segs /\ OldestNow = oldestSeq /\ AckedNow = acked
      /\ TableNow' = segs /\ OldestNow' = oldestSeq /\ AckedNow' = acked'
  BY <1>2 DEF TableNow, OldestNow, AckedNow
<1>4. oldestSeq \in Nat /\ acked \in Int /\ synced \in Nat /\ owed \in SUBSET Nat
      /\ nextSeq \in Nat
  BY <1>3, NumbersNow DEF Types, TypeOK, Seqs
<1>5. Sound(segs, files, oldestSeq, synced, acked, owed)
  BY <1>3 DEF Durable
<1>6. acked' < segs[OpenId(segs)].oldest + synced
  <2>. DEFINE safe == segs[OpenId(segs)].oldest + synced
  <2>1. acked < safe /\ safe \in Nat
    BY SMTT(30), <1>2, <1>4, <1>5, TablesAreRegular, RegularEntry DEF Sound, Safe, Regular
  <2>2. upTo < safe /\ upTo \in Nat
    <3>1. CASE upTo \in owed
      BY <1>4, <1>5, <3>1 DEF Sound, Safe
    <3>2. CASE upTo \in 0 .. acked
      BY <1>4, <2>1, <3>2
    <3>. QED
      BY <3>1, <3>2
  <2>. HIDE DEF safe
  <2>3. acked' < safe
    BY <1>1, <1>4, <2>1, <2>2 DEF AckedUpTo
  <2>. QED
    BY <2>3 DEF safe
<1>7. Sound(segs, files, oldestSeq, synced, acked', owed')
  BY <1>2, <1>5, <1>6, SoundAcked
<1>. QED
  BY <1>2, <1>3, <1>7 DEF Durable, Recorded

\* A segment reclaimed: the oldest, so what is left is the younger part of the log.
LEMMA DurableReclaim ==
  ASSUME Stream # "Data", Types, Types', Positions, Durable, NEW victim \in Closed, ReclaimOne(victim)
  PROVE  /\ Durable'
         /\ segs[victim].newest + 1 = End(segs, files, victim)
         /\ oldestSeq' = End(segs, files, victim)
         /\ oldestSeq <= oldestSeq'
         /\ \A id \in DOMAIN segs : victim <= id
<1>. DEFINE open == OpenId(segs)
            later == End(segs, files, victim)
<1>1. /\ pc # "off" /\ pc' = "reclaim" /\ NextVictim(victim)
      /\ UNCHANGED <<acked, index, synced, owed>>
      /\ files' = [id \in DOMAIN files \ {victim} |-> files[id]]
      /\ segs' = [id \in DOMAIN segs \ {victim} |-> segs[id]]
      /\ oldestSeq' = IF segs[victim].newest + 1 > oldestSeq THEN segs[victim].newest + 1 ELSE oldestSeq
  BY DEF ReclaimOne
<1>2. /\ TableNow = segs /\ OldestNow = oldestSeq /\ AckedNow = acked
      /\ TableNow' = segs' /\ OldestNow' = oldestSeq' /\ AckedNow' = acked
  BY <1>1 DEF TableNow, OldestNow, AckedNow
<1>3. oldestSeq \in Nat /\ acked \in Int /\ synced \in Nat /\ owed \in SUBSET Nat
      /\ acked \in Nat \cup {NoAck}
  BY SMTT(30), <1>2, NumbersNow DEF Types, TypeOK, Seqs
<1>4. Regular(segs, files) /\ Regular(segs', files')
  BY <1>1, TablesAreRegular, TablesStayRegular
<1>5. victim \in DOMAIN segs /\ victim # open
  BY DEF Closed
<1>. HIDE DEF open, later
<1>6. /\ DOMAIN segs' = DOMAIN segs \ {victim} /\ \A id \in DOMAIN segs' : segs'[id] = segs[id]
      /\ \A id : id # victim => CompleteFrames(files', id) = CompleteFrames(files, id)
  BY <1>1 DEF CompleteFrames, Frames
<1>7. Sound(segs, files, oldestSeq, synced, acked, owed)
  BY <1>2 DEF Durable
<1>8. \A id \in DOMAIN segs : victim <= id
  BY <1>1, <1>3, <1>4, <1>7, VictimIsOldest DEF Sound
<1>9. segs[victim].newest = later - 1 /\ later \in Nat /\ segs[victim].oldest <= later
      /\ segs[victim].oldest \in Nat /\ oldestSeq <= segs[victim].oldest
  BY <1>4, <1>5, <1>7, RegularEntry DEF Sound, Chained, Covers, open, later
<1>10. segs[victim].newest + 1 = later /\ oldestSeq' = later /\ oldestSeq <= later
  BY <1>1, <1>3, <1>9
<1>11. OpenId(segs') = open
  <2>1. open \in DOMAIN segs' /\ DOMAIN segs' \subseteq 0 .. open
    BY <1>4, <1>5, <1>6 DEF Regular, open
  <2>. QED
    BY <1>4, <2>1, WithinOpen DEF Regular
<1>12. Sound(segs', files', later, synced, acked, owed)
  BY <1>3, <1>4, <1>5, <1>6, <1>7, <1>8, <1>11, SoundReclaimed DEF open, later
<1>13. Durable'
  BY <1>1, <1>2, <1>10, <1>12 DEF Durable
<1>. QED
  BY <1>8, <1>10, <1>13 DEF later

\* Every step keeps the stream durable.
LEMMA DurableNext ==
  ASSUME IndexIsCurrent, Stream # "Data", Types, Types', Positions, Positions', Durable,
         TableHasRoom, [Next]_vars
  PROVE  Durable'
<1>. USE DEF IndexIsCurrent
<1>1. CASE Boot \/ Crash
  BY <1>1, DurableBoot, DurableCrash
<1>2. CASE AppendFrame \/ AppendFails
  BY <1>2, DurableAppend, DurableAppendFails
<1>3. CASE Rotate \/ Ack
  BY <1>3, DurableRotate, DurableAck
<1>4. CASE Read
  <2>1. /\ MutexIsFree /\ pc' = "ready" /\ Sync /\ files' = files
        /\ UNCHANGED <<segs, oldestSeq, acked, index>>
    BY <1>4 DEF Read, MutexIsFree
  <2>. QED
    BY <2>1, DurableSynced
<1>5. CASE \E id \in Closed : ReclaimOne(id)
  BY <1>5, DurableReclaim
<1>6. CASE ReclaimSave
  <2>1. /\ pc = "reclaim" /\ pc' = "ready" /\ files' = files
        /\ UNCHANGED <<segs, oldestSeq, acked, synced, owed>>
        /\ index'.segs = segs /\ index'.acked = acked /\ index'.oldestSeq = oldestSeq
    BY <1>6 DEF ReclaimSave, ramVars, historyVars, SaveIndex
  <2>. QED
    BY <2>1 DEF Durable, Recorded, TableNow, OldestNow, AckedNow
<1>7. CASE GapEventsSynced \/ UptimePasses \/ UNCHANGED vars
  <2>1. UNCHANGED <<pc, nextSeq, segs, oldestSeq, acked, index, files, synced, owed>>
    BY <1>7 DEF GapEventsSynced, UptimePasses, vars, ramVars, flashVars, historyVars
  <2>. QED
    BY <2>1 DEF Durable, Recorded, TableNow, OldestNow, AckedNow, Sound, Safe
<1>. QED
  BY <1>1, <1>2, <1>3, <1>4, <1>5, <1>6, <1>7 DEF Next

-----------------------------------------------------------------------------
(* Losses are told                                                         *)

\* What is read or synced is younger than what is told lost.
LEMMA ToldStays ==
  ASSUME Types, Types', Positions', Durable', Told, reported' = reported,
         OldestNow' = OldestNow, AckedNow <= AckedNow',
         owed' \subseteq owed \cup Content(files', OpenId(TableNow'))
  PROVE  Told'
<1>1. OldestNow \in Nat /\ AckedNow \in Int /\ AckedNow' \in Int
      /\ owed \in SUBSET Nat /\ owed' \in SUBSET Nat
  <2>1. acked' \in Int /\ index'.acked \in Int /\ owed' \in SUBSET Nat
    BY SMTT(30) DEF Types, TypeOK, Seqs, NoAck
  <2>2. AckedNow' = IF pc' = "off" THEN index'.acked ELSE acked'
    BY DEF AckedNow
  <2>. QED
    BY <2>1, <2>2, NumbersNow
<1>. DEFINE table == TableNow'
            open == OpenId(table)
<1>2. Regular(table, files') /\ Numbered(table, files')
  BY TablesStayRegular DEF TableNow, Positions, Placed
<1>3. Covers(table, files', OldestNow')
  BY DEF Durable, Sound
<1>. HIDE DEF table
<1>4. open \in DOMAIN table /\ table[open].oldest \in Nat /\ OldestNow' <= table[open].oldest
  BY <1>2, <1>3, RegularEntry DEF Regular, Covers
<1>5. \A s \in Content(files', open) : OldestNow' <= s
  <2>. TAKE s \in Content(files', open)
  <2>1. s \in Nat /\ table[open].oldest <= s
    BY <1>2, <1>4, ContentIsPlaced
  <2>. QED
    BY <1>1, <1>4, <2>1
<1>6. ASSUME NEW s \in owed' PROVE s \in reported' \/ s <= AckedNow' \/ OldestNow' <= s
  <2>1. CASE s \in owed
    <3>1. s \in reported \/ s <= AckedNow \/ OldestNow <= s
      BY <2>1 DEF Told
    <3>. QED
      BY <1>1, <2>1, <3>1
  <2>2. CASE s \in Content(files', open)
    BY <1>5, <2>2
  <2>. QED
    BY <2>1, <2>2 DEF table
<1>7. \A s \in reported' : s < OldestNow'
  BY DEF Told
<1>. QED
  BY <1>6, <1>7 DEF Told

\* A reclaim tells of what it takes and was not confirmed.
LEMMA ToldReclaim ==
  ASSUME Stream # "Data", Types, Types', Positions, Durable, Told,
         NEW victim \in Closed, ReclaimOne(victim)
  PROVE  Told'
<1>. DEFINE later == End(segs, files, victim)
<1>1. /\ segs[victim].newest + 1 = later /\ oldestSeq' = later /\ oldestSeq <= oldestSeq'
  BY DurableReclaim
<1>2. /\ pc # "off" /\ pc' # "off" /\ acked' = acked /\ owed' = owed
      /\ reported' = reported \cup Gap(later)
  BY <1>1 DEF ReclaimOne
<1>3. OldestNow = oldestSeq /\ OldestNow' = later /\ AckedNow = acked /\ AckedNow' = acked
  BY <1>1, <1>2 DEF OldestNow, AckedNow
<1>4. oldestSeq \in Nat /\ acked \in Int /\ owed \in SUBSET Nat /\ later \in Nat
      /\ reported \in SUBSET Nat
  <2>1. oldestSeq' \in Nat
    BY DEF Types, TypeOK, Seqs
  <2>2. reported \in SUBSET Nat
    BY DEF Types, TypeOK, Seqs
  <2>. QED
    BY <1>1, <1>3, <2>1, <2>2, NumbersNow
<1>. HIDE DEF later
<1>5. \A s \in Gap(later) : s < later
  BY <1>4 DEF Gap, FirstUnacked
<1>6. \A s \in Nat : oldestSeq <= s /\ s < later /\ acked < s => s \in Gap(later)
  BY <1>4 DEF Gap, FirstUnacked
<1>7. ASSUME NEW s \in owed PROVE s \in reported' \/ s <= acked \/ later <= s
  <2>1. s \in reported \/ s <= acked \/ oldestSeq <= s
    BY <1>3 DEF Told
  <2>2. CASE oldestSeq <= s
    BY <1>2, <1>4, <1>6, <2>2
  <2>. QED
    BY <1>2, <2>1, <2>2
<1>8. ASSUME NEW s \in reported' PROVE s < later
  <2>1. CASE s \in reported
    BY <1>1, <1>3, <1>4, <2>1 DEF Told
  <2>. QED
    BY <1>2, <1>5, <2>1
<1>. QED
  BY <1>2, <1>3, <1>7, <1>8 DEF Told

\* Every step keeps the accounts, unless a reset may lose the event that tells of a gap.
LEMMA ToldNext ==
  ASSUME IndexIsCurrent, ~GapEventsCanBeLost, Stream # "Data", Types, Types', Positions, Positions',
         Durable, Durable', Told, TableHasRoom, [Next]_vars
  PROVE  Told'
<1>. USE DEF IndexIsCurrent
<1>1. pc = "off" => TableNow = index.segs /\ OldestNow = index.oldestSeq /\ AckedNow = index.acked
  BY DEF TableNow, OldestNow, AckedNow
<1>2. pc # "off" => TableNow = segs /\ OldestNow = oldestSeq /\ AckedNow = acked
  BY DEF TableNow, OldestNow, AckedNow
<1>3. pc' # "off" => TableNow' = segs' /\ OldestNow' = oldestSeq' /\ AckedNow' = acked'
  BY DEF TableNow, OldestNow, AckedNow
<1>4. AckedNow \in Int /\ acked \in Int
  BY NumbersNow DEF Types, TypeOK, Seqs, NoAck
<1>5. CASE Boot
  BY <1>1, <1>3, <1>4, <1>5, ToldStays DEF Boot, historyVars
<1>6. CASE Crash
  <2>1. /\ pc \in {"ready", "rotate"} /\ pc' = "off" /\ index' = index /\ reported' = reported
        /\ owed' \subseteq owed \cup Content(files', OpenId(segs)) /\ Recorded
    BY <1>6 DEF Crash, Types, TypeOK, Durable
  <2>2. TableNow' = index.segs /\ OldestNow' = index.oldestSeq /\ AckedNow' = index.acked
    BY <2>1 DEF TableNow, OldestNow, AckedNow
  <2>3. OpenId(index.segs) = OpenId(segs) /\ index.acked = acked /\ index.oldestSeq = oldestSeq
    BY <2>1 DEF Recorded, OpenId
  <2>. QED
    BY <1>2, <1>4, <2>1, <2>2, <2>3, ToldStays
<1>7. CASE AppendFrame
  <2>1. /\ pc # "off" /\ pc' # "off" /\ UNCHANGED <<oldestSeq, acked, reported>>
        /\ owed' \subseteq owed \cup Content(files', OpenId(segs))
    BY <1>7 DEF AppendFrame, MutexIsFree, Sync
  <2>2. OpenId(segs') = OpenId(segs)
    BY <1>7, DurableAppend DEF OpenId
  <2>. QED
    BY <1>2, <1>3, <1>4, <2>1, <2>2, ToldStays
<1>8. CASE AppendFails \/ Read
  <2>1. /\ pc # "off" /\ pc' # "off" /\ UNCHANGED <<oldestSeq, acked, reported, segs>>
        /\ owed' \subseteq owed \cup Content(files', OpenId(segs))
    BY <1>8 DEF AppendFails, Read, MutexIsFree, Sync
  <2>. QED
    BY <1>2, <1>3, <1>4, <2>1, ToldStays
<1>9. CASE Ack
  <2>1. PICK upTo \in owed \cup 0 .. acked : acked' = AckedUpTo(upTo)
    BY <1>9 DEF Ack
  <2>2. /\ pc # "off" /\ pc' # "off" /\ UNCHANGED <<oldestSeq, reported>> /\ owed' \subseteq owed
    BY <1>9 DEF Ack, MutexIsFree
  <2>3. nextSeq \in Nat /\ upTo \in Nat
    BY <2>1 DEF Types, TypeOK, Seqs, NoAck
  <2>4. acked <= acked'
    BY <1>4, <2>1, <2>3 DEF AckedUpTo
  <2>. QED
    BY <1>2, <1>3, <2>2, <2>4, ToldStays
<1>10. CASE \E id \in Closed : ReclaimOne(id)
  BY <1>10, ToldReclaim
<1>11. CASE Rotate \/ ReclaimSave
  <2>1. /\ pc # "off" /\ pc' # "off" /\ UNCHANGED <<oldestSeq, acked, reported, owed>>
    BY <1>11 DEF Rotate, ReclaimSave, ramVars, historyVars
  <2>. QED
    BY <1>2, <1>3, <1>4, <2>1, ToldStays
<1>12. CASE GapEventsSynced \/ UptimePasses \/ UNCHANGED vars
  <2>1. UNCHANGED <<pc, oldestSeq, acked, index, owed, reported>>
    BY <1>12 DEF GapEventsSynced, UptimePasses, vars, ramVars, flashVars, historyVars
  <2>. QED
    BY <2>1 DEF Told, OldestNow, AckedNow
<1>. QED
  BY <1>5, <1>6, <1>7, <1>8, <1>9, <1>10, <1>11, <1>12 DEF Next

\* With the accounts right, nothing owed is missing and nothing kept is told lost.
LEMMA ToldIsEnough == Types /\ Positions /\ Durable /\ Told => LossIsTold
<1>. SUFFICES ASSUME Types, Positions, Durable, Told PROVE LossIsTold
  OBVIOUS
<1>1. Regular(TableNow, files) /\ Numbered(TableNow, files)
  BY TablesAreRegular DEF TableNow, Positions, Placed
<1>2. /\ Covers(TableNow, files, OldestNow)
      /\ Safe(TableNow, files, synced, AckedNow, owed)
      /\ OldestNow \in Nat /\ owed \in SUBSET Nat /\ synced \in Nat
  BY NumbersNow DEF Durable, Sound
<1>. DEFINE table == TableNow
            open == OpenId(table)
<1>. HIDE DEF table
<1>3. /\ open \in DOMAIN table /\ table[open].oldest \in Nat
      /\ synced <= CompleteFrames(files, open) /\ CompleteFrames(files, open) \in Nat
  BY <1>1, <1>2, RegularEntry DEF Regular, Safe, table
<1>4. ASSUME NEW s \in owed PROVE s \in Kept \/ s \in reported \/ s <= AckedNow
  <2>1. CASE OldestNow <= s
    <3>1. s < table[open].oldest + synced
      BY <1>2 DEF Safe, table
    <3>2. s \in OldestNow .. End(table, files, open) - 1
      BY <1>2, <1>3, <2>1, <3>1 DEF End
    <3>3. PICK id \in DOMAIN table : table[id].oldest <= s /\ s < End(table, files, id)
      BY <1>2, <3>2 DEF Covers, table
    <3>4. s \in Content(files, id)
      BY <1>1, <1>2, <3>3, PlacedIsContent DEF table
    <3>. QED
      BY <3>4 DEF Kept, table
  <2>. QED
    BY <2>1 DEF Told
<1>5. ASSUME NEW s \in reported, s \in Kept PROVE FALSE
  <2>1. PICK id \in DOMAIN table : s \in Content(files, id)
    BY <1>5 DEF Kept, table
  <2>2. s \in Nat /\ table[id].oldest <= s /\ table[id].oldest \in Nat
    BY <1>1, <2>1, ContentIsPlaced, RegularEntry DEF table
  <2>3. OldestNow <= table[id].oldest /\ s < OldestNow
    BY <1>2 DEF Covers, Told, table
  <2>. QED
    BY <1>2, <2>2, <2>3
<1>. QED
  BY <1>4, <1>5 DEF LossIsTold, NoSilentHole, GapsAreHonest

-----------------------------------------------------------------------------
(* One log                                                                 *)

\* Oldest is the least element of a set that has one.
LEMMA OldestIs ==
  ASSUME NEW S \in SUBSET Nat, NEW i \in S, \A j \in S : i <= j
  PROVE  Oldest(S) = i
<1>1. Oldest(S) \in S /\ \A j \in S : Oldest(S) <= j
  BY DEF Oldest
<1>2. Oldest(S) <= i /\ i <= Oldest(S) /\ Oldest(S) \in Nat /\ i \in Nat
  BY <1>1
<1>. QED
  BY <1>2

\* The log that a table, its files and the synced part make.
First(table) == table[Oldest(DOMAIN table)].oldest
LogOf(table, f, sync, confirmed) ==
  [oldest |-> First(table),
   next |-> End(table, f, OpenId(table)),
   synced |-> table[OpenId(table)].oldest + sync,
   acked |-> confirmed]

\* What LogNow says, before and after a step.
LEMMA LogNowIs ==
  /\ LogNow = LogOf(TableNow, files, synced, AckedNow)
  /\ LogNow' = LogOf(TableNow', files', synced', AckedNow')
<1>1. LogNow = LogOf(TableNow, files, synced, AckedNow)
  BY DEF LogNow, LogOf, First, End, CompleteFrames
<1>2. LogNow' = LogOf(TableNow', files', synced', AckedNow')
  BY DEF LogNow, LogOf, First, End, CompleteFrames
<1>. QED
  BY <1>1, <1>2

\* A sound table's log: its oldest segment begins it, and its numbers are in order.
LEMMA SoundLog ==
  ASSUME NEW t, NEW f, NEW from \in Nat, NEW sync \in Nat, NEW confirmed \in Int,
         NEW due \in SUBSET Nat, Regular(t, f), Sound(t, f, from, sync, confirmed, due)
  PROVE  /\ Oldest(DOMAIN t) \in DOMAIN t /\ OpenId(t) \in DOMAIN t
         /\ \A id \in DOMAIN t : Oldest(DOMAIN t) <= id /\ First(t) <= t[id].oldest
         /\ First(t) \in Nat /\ t[OpenId(t)].oldest \in Nat
         /\ End(t, f, OpenId(t)) \in Nat
         /\ \A id \in DOMAIN t : t[id].oldest <= t[OpenId(t)].oldest
         /\ t[OpenId(t)].oldest + sync <= End(t, f, OpenId(t))
         /\ confirmed < t[OpenId(t)].oldest + sync
         /\ \A s \in due : s < t[OpenId(t)].oldest + sync
<1>1. /\ Chained(t, f) /\ Safe(t, f, sync, confirmed, due) /\ DOMAIN t \in SUBSET Nat
      /\ OpenId(t) \in DOMAIN t
  BY DEF Sound, Regular, IsTable
<1>2. PICK first \in DOMAIN t : \A other \in DOMAIN t : first <= other
  BY <1>1 DEF Chained
<1>3. Oldest(DOMAIN t) = first
  BY <1>1, <1>2, OldestIs
<1>4. ASSUME NEW i \in DOMAIN t, NEW j \in DOMAIN t, i <= j
      PROVE  t[i].oldest <= t[j].oldest
  <2>1. /\ t[i].oldest \in Nat /\ t[j].oldest \in Nat /\ End(t, f, i) \in Nat /\ i \in Nat /\ j \in Nat
        /\ t[i].oldest <= End(t, f, i)
    BY RegularEntry
  <2>2. CASE i = j
    BY <2>1, <2>2
  <2>3. CASE i < j
    <3>1. End(t, f, i) <= t[j].oldest
      BY <1>1, <2>3 DEF Chained
    <3>. QED
      BY <2>1, <3>1
  <2>. QED
    BY <1>4, <2>1, <2>2, <2>3
<1>5. \A id \in DOMAIN t : id <= OpenId(t)
  BY RegularEntry
<1>6. First(t) \in Nat /\ t[OpenId(t)].oldest \in Nat /\ End(t, f, OpenId(t)) \in Nat
      /\ CompleteFrames(f, OpenId(t)) \in Nat
  BY <1>1, <1>2, <1>3, RegularEntry DEF First
<1>7. t[OpenId(t)].oldest + sync <= End(t, f, OpenId(t))
  BY <1>1, <1>6 DEF Safe, End
<1>. QED
  BY <1>1, <1>2, <1>3, <1>4, <1>5, <1>6, <1>7 DEF First, Safe

\* The table of a durable stream is sound, and what a log's steps need of it holds.
LEMMA LogNumbers ==
  ASSUME Types, Durable
  PROVE  /\ Oldest(DOMAIN TableNow) \in DOMAIN TableNow /\ OpenId(TableNow) \in DOMAIN TableNow
         /\ \A id \in DOMAIN TableNow :
              /\ Oldest(DOMAIN TableNow) <= id
              /\ First(TableNow) <= TableNow[id].oldest
              /\ TableNow[id].oldest <= TableNow[OpenId(TableNow)].oldest
         /\ DOMAIN TableNow \in SUBSET Nat
         /\ First(TableNow) \in Nat /\ TableNow[OpenId(TableNow)].oldest \in Nat
         /\ End(TableNow, files, OpenId(TableNow)) \in Nat /\ synced \in Nat
         /\ TableNow[OpenId(TableNow)].oldest + synced <= End(TableNow, files, OpenId(TableNow))
         /\ AckedNow \in Int
         /\ AckedNow < TableNow[OpenId(TableNow)].oldest + synced
         /\ \A s \in owed : s < TableNow[OpenId(TableNow)].oldest + synced
<1>1. Regular(TableNow, files)
  BY TablesAreRegular DEF TableNow
<1>2. Sound(TableNow, files, OldestNow, synced, AckedNow, owed)
  BY DEF Durable
<1>3. OldestNow \in Nat /\ AckedNow \in Int /\ synced \in Nat /\ owed \in SUBSET Nat
  BY NumbersNow
<1>4. DOMAIN TableNow \in SUBSET Nat
  BY <1>1 DEF Regular, IsTable
<1>. QED
  BY <1>1, <1>2, <1>3, <1>4, SoundLog

\* What a reset and a write that is synced make of a log, field by field.
LEMMA LogSteps ==
  ASSUME NEW o, NEW n, NEW s, NEW a, NEW m, NEW log,
         log = [oldest |-> o, next |-> n, synced |-> s, acked |-> a]
  PROVE  /\ Log!Restarted(log, m) = [oldest |-> o, next |-> m, synced |-> m, acked |-> a]
         /\ Log!SyncedAll(Log!Appended(log)) =
              [oldest |-> o, next |-> n + 1, synced |-> n + 1, acked |-> a]
<1>1. Log!Restarted(log, m) = [oldest |-> o, next |-> m, synced |-> m, acked |-> a]
  <2>. DEFINE cut == [log EXCEPT !.next = m]
  <2>1. cut = [oldest |-> o, next |-> m, synced |-> s, acked |-> a]
    OBVIOUS
  <2>2. Log!Restarted(log, m) = [cut EXCEPT !.synced = m]
    BY Zenon DEF Log!Restarted
  <2>. HIDE DEF cut
  <2>. QED
    BY <2>1, <2>2
<1>2. Log!Appended(log) = [oldest |-> o, next |-> n + 1, synced |-> s, acked |-> a]
  BY DEF Log!Appended
<1>3. \A l : l = [oldest |-> o, next |-> n + 1, synced |-> s, acked |-> a] =>
        Log!SyncedAll(l) = [oldest |-> o, next |-> n + 1, synced |-> n + 1, acked |-> a]
  BY DEF Log!SyncedAll
<1>. QED
  BY <1>1, <1>2, <1>3

\* A fresh stream is an empty log.
LEMMA LogInit == Init => Log!Init
<1>. SUFFICES ASSUME Init PROVE Log!Init
  OBVIOUS
<1>1. Types /\ Durable
  BY TypesInit, DurableInit
<1>2. TableNow = FreshIndex.segs /\ AckedNow = NoAck /\ synced = 0
  BY DEF Init, TableNow, AckedNow, FreshIndex
<1>3. DOMAIN TableNow = {0} /\ TableNow[0].oldest = 0
  BY <1>2, FreshTable
<1>4. OpenId(TableNow) = 0 /\ Oldest(DOMAIN TableNow) = 0
  BY <1>1, <1>3, LogNumbers
<1>5. End(TableNow, files, 0) = 0
  BY <1>3 DEF End, Init, CompleteFrames, Frames
<1>. QED
  BY <1>2, <1>3, <1>4, <1>5, LogNowIs DEF LogOf, First, Log!Init

\* Tables that have the same segments, beginning where they did, make logs that differ only
\* in where the open segment ends and how far it is synced.
LEMMA SameSegments ==
  ASSUME NEW t, NEW u, DOMAIN u = DOMAIN t, Oldest(DOMAIN t) \in DOMAIN t, OpenId(t) \in DOMAIN t,
         \A id \in DOMAIN t : u[id].oldest = t[id].oldest
  PROVE  First(u) = First(t) /\ OpenId(u) = OpenId(t) /\ u[OpenId(u)].oldest = t[OpenId(t)].oldest
  BY DEF First, OpenId

\* A boot reads the log back as it is.
LEMMA LogBoot == Types /\ Positions /\ Durable /\ Boot => LogNow' = LogNow
<1>. SUFFICES ASSUME Types, Positions, Durable, Boot PROVE LogNow' = LogNow
  OBVIOUS
<1>1. /\ TableNow = index.segs /\ AckedNow = index.acked
      /\ TableNow' = segs' /\ AckedNow' = index.acked
  BY DEF Boot, TableNow, AckedNow
<1>2. /\ synced' = synced /\ DOMAIN segs' = DOMAIN index.segs
      /\ \A id \in DOMAIN index.segs : /\ segs'[id].oldest = index.segs[id].oldest
                                      /\ CompleteFrames(files', id) = CompleteFrames(files, id)
  BY DurableBoot
<1>3. Oldest(DOMAIN index.segs) \in DOMAIN index.segs /\ OpenId(index.segs) \in DOMAIN index.segs
  BY <1>1, LogNumbers
<1>4. /\ First(segs') = First(index.segs) /\ OpenId(segs') = OpenId(index.segs)
      /\ segs'[OpenId(segs')].oldest = index.segs[OpenId(index.segs)].oldest
  BY <1>2, <1>3, SameSegments
<1>5. End(segs', files', OpenId(segs')) = End(index.segs, files, OpenId(index.segs))
  BY <1>2, <1>3, <1>4 DEF End
<1>6. LogNow = LogOf(index.segs, files, synced, index.acked)
  BY <1>1, LogNowIs
<1>7. LogNow' = LogOf(segs', files', synced', index.acked)
  BY <1>1, LogNowIs
<1>. QED
  BY <1>2, <1>4, <1>5, <1>6, <1>7 DEF LogOf

\* A reset takes some of the end that is not synced.
LEMMA LogCrash ==
  ASSUME ~CrashInReclaim, Types, Positions, Positions', Durable, Crash
  PROVE  Log!Restart
<1>. DEFINE open == OpenId(segs)
            kept == CompleteFrames(files', open)
            from == segs[open].oldest
<1>1. /\ pc \in {"ready", "rotate"} /\ pc # "off" /\ pc' = "off" /\ index' = index
      /\ synced' = kept /\ Recorded
  BY DEF Crash, CompleteFrames, Types, TypeOK, Durable
<1>2. /\ TableNow = segs /\ AckedNow = acked /\ TableNow' = index.segs /\ AckedNow' = acked
      /\ DOMAIN index.segs = DOMAIN segs
      /\ \A id \in DOMAIN segs : index.segs[id].oldest = segs[id].oldest
  BY <1>1 DEF TableNow, AckedNow, Recorded, Positions, Placed
<1>3. Types' /\ synced <= kept /\ kept <= CompleteFrames(files, open)
  BY DurableCrash, TypesCrash
<1>4. /\ Oldest(DOMAIN segs) \in DOMAIN segs /\ open \in DOMAIN segs
      /\ from \in Nat /\ synced \in Nat
  BY <1>2, LogNumbers
<1>5. /\ First(index.segs) = First(segs) /\ OpenId(index.segs) = open
      /\ index.segs[open].oldest = from
  BY <1>2, <1>4, SameSegments
<1>6. kept \in Nat /\ CompleteFrames(files, open) \in Nat
  BY <1>1, <1>3, TablesStayRegular, TablesAreRegular DEF Regular
<1>. HIDE DEF open, kept, from
<1>7. LogNow = [oldest |-> First(segs), next |-> from + CompleteFrames(files, open),
                synced |-> from + synced, acked |-> acked]
  BY <1>2, LogNowIs DEF LogOf, End, open, from
<1>8. LogNow' = [oldest |-> First(segs), next |-> from + kept, synced |-> from + kept, acked |-> acked]
  BY <1>1, <1>2, <1>5, LogNowIs DEF LogOf, End, open, from, kept
<1>9. LogNow' = Log!Restarted(LogNow, from + kept)
  BY <1>7, <1>8, LogSteps
<1>10. from + kept \in LogNow.synced .. LogNow.next
  BY <1>3, <1>4, <1>6, <1>7
<1>. QED
  BY <1>9, <1>10 DEF Log!Restart

\* A frame written is one more record; when it fills the segment, all are synced.
LEMMA LogAppend ==
  ASSUME Types, Types', Positions, Positions', Durable, AppendFrame
  PROVE  Log!Append \/ Log!AppendSynced
<1>. DEFINE open == OpenId(segs)
            from == segs[open].oldest
            frames == CompleteFrames(files, open)
<1>1. /\ pc = "ready" /\ pc' # "off" /\ acked' = acked /\ nextSeq < MaxSeq
      /\ \/ synced' = CompleteFrames(files', open)
         \/ synced' = synced
  BY DEF AppendFrame, MutexIsFree, Sync, CompleteFrames
<1>2. TableNow = segs /\ AckedNow = acked /\ TableNow' = segs' /\ AckedNow' = acked
  BY <1>1 DEF TableNow, AckedNow
<1>3. /\ CompleteFrames(files', open) = frames + 1
      /\ DOMAIN segs' = DOMAIN segs
      /\ \A id \in DOMAIN segs : segs'[id].oldest = segs[id].oldest
  BY DurableAppend
<1>4. /\ Oldest(DOMAIN segs) \in DOMAIN segs /\ open \in DOMAIN segs /\ from \in Nat
      /\ frames \in Nat
  BY <1>1, <1>2, LogNumbers, TablesAreRegular DEF Regular
<1>5. First(segs') = First(segs) /\ OpenId(segs') = open /\ segs'[open].oldest = from
  BY <1>3, <1>4, SameSegments
<1>6. nextSeq = from + frames
  BY <1>1 DEF Positions, Placed, CompleteFrames
<1>. HIDE DEF open, from, frames
<1>7. LogNow = [oldest |-> First(segs), next |-> from + frames, synced |-> from + synced, acked |-> acked]
  BY <1>2, LogNowIs DEF LogOf, End, open, from, frames
<1>8. LogNow' = [oldest |-> First(segs), next |-> from + (frames + 1), synced |-> from + synced',
                 acked |-> acked]
  BY <1>2, <1>3, <1>5, LogNowIs DEF LogOf, End
<1>9. from + (frames + 1) = (from + frames) + 1
  BY <1>4
<1>10. CASE synced' = synced
  BY <1>1, <1>6, <1>7, <1>8, <1>9, <1>10 DEF Log!Append, Log!Appended
<1>11. CASE synced' = CompleteFrames(files', open)
  <2>1. LogNow.next < MaxSeq
    BY <1>1, <1>6, <1>7
  <2>2. LogNow' = [oldest |-> First(segs), next |-> (from + frames) + 1,
                   synced |-> (from + frames) + 1, acked |-> acked]
    BY <1>3, <1>8, <1>9, <1>11
  <2>3. LogNow' = Log!SyncedAll(Log!Appended(LogNow))
    BY <1>7, <2>2, LogSteps
  <2>. QED
    BY <2>1, <2>3 DEF Log!AppendSynced
<1>. QED
  BY <1>1, <1>10, <1>11

\* The open file closed: all is synced.
LEMMA LogSynced ==
  ASSUME Types, Durable, pc = "ready", pc' = "ready", UNCHANGED <<segs, acked>>, Sync,
         \A id : CompleteFrames(files', id) = CompleteFrames(files, id)
  PROVE  Log!Sync
<1>. DEFINE open == OpenId(segs)
            from == segs[open].oldest
            frames == CompleteFrames(files, open)
<1>1. synced' = frames
  BY DEF Sync, CompleteFrames
<1>2. TableNow = segs /\ AckedNow = acked /\ TableNow' = segs /\ AckedNow' = acked
  BY DEF TableNow, AckedNow
<1>3. LogNow = [oldest |-> First(segs), next |-> from + frames, synced |-> from + synced, acked |-> acked]
  BY <1>2, LogNowIs DEF LogOf, End
<1>4. LogNow' = [oldest |-> First(segs), next |-> from + frames, synced |-> from + frames, acked |-> acked]
  BY <1>1, <1>2, LogNowIs DEF LogOf, End
<1>. HIDE DEF from, frames
<1>. QED
  BY <1>3, <1>4 DEF Log!Sync, Log!SyncedAll

\* A rotation changes where records are, not which there are.
LEMMA LogRotate ==
  ASSUME ~IndexCanFail, Types, Types', Positions, Positions', Durable, TableHasRoom, Rotate
  PROVE  LogNow' = LogNow
<1>. DEFINE open == OpenId(segs)
            from == segs[open].oldest
            frames == CompleteFrames(files, open)
<1>1. pc = "rotate" /\ pc' = "ready" /\ acked' = acked
  BY DEF Rotate
<1>2. TableNow = segs /\ AckedNow = acked /\ TableNow' = segs' /\ AckedNow' = acked
  BY <1>1 DEF TableNow, AckedNow
<1>3. /\ DOMAIN segs' = DOMAIN segs \cup {open + 1} /\ OpenId(segs') = open + 1
      /\ \A id \in DOMAIN segs : segs'[id].oldest = segs[id].oldest
      /\ segs'[open + 1].oldest = from + frames
      /\ synced = frames /\ synced' = 0
      /\ CompleteFrames(files', open + 1) = 0
  BY DurableRotate DEF End
<1>4. /\ Oldest(DOMAIN segs) \in DOMAIN segs /\ open \in DOMAIN segs /\ from \in Nat
      /\ \A id \in DOMAIN segs : Oldest(DOMAIN segs) <= id
      /\ DOMAIN segs \in SUBSET Nat /\ open \in Nat /\ frames \in Nat
  BY <1>1, <1>2, LogNumbers, TablesAreRegular DEF Regular
<1>. HIDE DEF open, from, frames
<1>5. First(segs') = First(segs)
  <2>1. DOMAIN segs' \in SUBSET Nat /\ Oldest(DOMAIN segs) \in DOMAIN segs'
    BY <1>3, <1>4
  <2>2. \A id \in DOMAIN segs' : Oldest(DOMAIN segs) <= id
    <3>1. Oldest(DOMAIN segs) <= open /\ Oldest(DOMAIN segs) \in Nat
      BY <1>4
    <3>2. Oldest(DOMAIN segs) <= open + 1
      BY <1>4, <3>1
    <3>. QED
      BY <1>3, <1>4, <3>2
  <2>3. Oldest(DOMAIN segs') = Oldest(DOMAIN segs)
    BY <2>1, <2>2, OldestIs
  <2>. QED
    BY <1>3, <1>4, <2>3 DEF First
<1>6. LogNow = [oldest |-> First(segs), next |-> from + frames, synced |-> from + frames, acked |-> acked]
  BY <1>2, <1>3, LogNowIs DEF LogOf, End, open, from, frames
<1>7. LogNow' = [oldest |-> First(segs), next |-> (from + frames) + 0, synced |-> (from + frames) + 0,
                 acked |-> acked]
  BY <1>2, <1>3, <1>5, LogNowIs DEF LogOf, End
<1>8. (from + frames) + 0 = from + frames
  BY <1>4
<1>. QED
  BY <1>6, <1>7, <1>8

\* An acknowledgement, of a number that is synced.
LEMMA LogAck ==
  ASSUME Types, Durable, Ack
  PROVE  Log!Ack \/ LogNow' = LogNow
<1>. DEFINE open == OpenId(segs)
            safe == segs[open].oldest + synced
            next == End(segs, files, open)
<1>1. PICK upTo \in owed \cup 0 .. acked : acked' = AckedUpTo(upTo)
  BY DEF Ack
<1>2. pc = "ready" /\ pc' = "ready" /\ UNCHANGED <<nextSeq, segs, files, synced>>
  BY DEF Ack, MutexIsFree
<1>3. TableNow = segs /\ AckedNow = acked /\ TableNow' = segs /\ AckedNow' = acked'
  BY <1>2 DEF TableNow, AckedNow
<1>4. /\ safe \in Nat /\ next \in Nat /\ acked \in Int /\ acked < safe /\ safe <= next
      /\ \A s \in owed : s < safe
  BY <1>3, LogNumbers
<1>. HIDE DEF safe, next
<1>5. LogNow = [oldest |-> First(segs), next |-> next, synced |-> safe, acked |-> acked]
  BY <1>3, LogNowIs DEF LogOf, safe, next
<1>6. LogNow' = [oldest |-> First(segs), next |-> next, synced |-> safe, acked |-> acked']
  BY <1>2, <1>3, LogNowIs DEF LogOf, safe, next
<1>7. upTo \in Nat /\ upTo < safe /\ owed \in SUBSET Nat /\ nextSeq \in Nat
  <2>1. owed \in SUBSET Nat /\ nextSeq \in Nat
    BY NumbersNow DEF Types, TypeOK, Seqs
  <2>2. CASE upTo \in owed
    BY <1>4, <2>1, <2>2
  <2>3. CASE upTo \in 0 .. acked
    BY <1>4, <2>1, <2>3
  <2>. QED
    BY <2>1, <2>2, <2>3
<1>8. CASE acked' = acked
  BY <1>5, <1>6, <1>8
<1>9. CASE acked' # acked
  <2>1. acked' \in Nat /\ acked' > acked /\ acked' <= upTo
    BY <1>1, <1>4, <1>7, <1>9 DEF AckedUpTo
  <2>2. acked' \in 0 .. LogNow.synced - 1
    BY <1>4, <1>5, <1>7, <2>1
  <2>3. LogNow' = Log!AckedTo(LogNow, acked')
    BY <1>5, <1>6, <2>1 DEF Log!AckedTo
  <2>. QED
    BY <2>2, <2>3 DEF Log!Ack
<1>. QED
  BY <1>8, <1>9

\* A reclaim takes the beginning of the log, as far as it is closed.
LEMMA LogReclaim ==
  ASSUME Stream # "Data", Types, Types', Positions, Durable, NEW victim \in Closed, ReclaimOne(victim)
  PROVE  Log!Reclaim
<1>. DEFINE open == OpenId(segs)
            from == segs[open].oldest
            frames == CompleteFrames(files, open)
<1>1. /\ pc # "off" /\ pc' # "off" /\ acked' = acked /\ synced' = synced
      /\ files' = [id \in DOMAIN files \ {victim} |-> files[id]]
      /\ segs' = [id \in DOMAIN segs \ {victim} |-> segs[id]]
  BY DEF ReclaimOne
<1>2. TableNow = segs /\ AckedNow = acked /\ TableNow' = segs' /\ AckedNow' = acked
  BY <1>1 DEF TableNow, AckedNow
<1>3. Durable' /\ \A id \in DOMAIN segs : victim <= id
  BY DurableReclaim
<1>4. /\ open \in DOMAIN segs /\ victim \in DOMAIN segs /\ victim # open
      /\ First(segs) \in Nat /\ from \in Nat /\ synced \in Nat
      /\ \A id \in DOMAIN segs : /\ First(segs) <= segs[id].oldest
                                 /\ segs[id].oldest <= from
      /\ Regular(segs, files) /\ Regular(segs', files')
  BY <1>1, <1>2, LogNumbers, TablesAreRegular, TablesStayRegular DEF Closed
<1>. HIDE DEF open, from, frames
<1>5. /\ DOMAIN segs' = DOMAIN segs \ {victim} /\ \A id \in DOMAIN segs' : segs'[id] = segs[id]
      /\ CompleteFrames(files', open) = frames
  BY <1>1, <1>4 DEF CompleteFrames, Frames, frames
<1>6. OpenId(segs') = open
  <2>1. open \in DOMAIN segs' /\ DOMAIN segs' \subseteq 0 .. open
    BY <1>4, <1>5 DEF Regular, open
  <2>. QED
    BY <1>4, <2>1, WithinOpen DEF Regular
<1>7. First(segs') \in Nat /\ First(segs) <= First(segs') /\ First(segs') <= from
  <2>1. Chained(segs', files') /\ DOMAIN segs' \in SUBSET Nat
    BY <1>2, <1>3, <1>4 DEF Durable, Sound, Regular, IsTable
  <2>2. PICK first \in DOMAIN segs' : \A other \in DOMAIN segs' : first <= other
    BY <2>1 DEF Chained
  <2>3. Oldest(DOMAIN segs') = first
    BY <2>1, <2>2, OldestIs
  <2>4. First(segs') = segs[first].oldest /\ first \in DOMAIN segs
    BY <1>5, <2>2, <2>3 DEF First
  <2>5. segs[first].oldest \in Nat
    BY <1>4, <2>4, RegularEntry
  <2>. QED
    BY <1>4, <2>4, <2>5
<1>8. LogNow = [oldest |-> First(segs), next |-> from + frames, synced |-> from + synced, acked |-> acked]
  BY <1>2, LogNowIs DEF LogOf, End, open, from, frames
<1>9. LogNow' = [oldest |-> First(segs'), next |-> from + frames, synced |-> from + synced,
                 acked |-> acked]
  <2>1. segs'[open].oldest = from
    BY <1>4, <1>5 DEF from
  <2>. QED
    BY <1>1, <1>2, <1>5, <1>6, <2>1, LogNowIs DEF LogOf, End
<1>10. First(segs') \in LogNow.oldest .. LogNow.synced
  BY <1>4, <1>7, <1>8
<1>11. LogNow' = Log!ReclaimedTo(LogNow, First(segs'))
  BY <1>8, <1>9 DEF Log!ReclaimedTo
<1>. QED
  BY <1>10, <1>11 DEF Log!Reclaim

\* Every step of the stream is a step of the log, or none.
LEMMA LogNext ==
  ASSUME IndexIsCurrent, Stream # "Data", Types, Types', Positions, Positions', Durable,
         TableHasRoom, [Next]_vars
  PROVE  [Log!Next]_LogNow
<1>. USE DEF IndexIsCurrent, Log!Next
<1>1. CASE Boot \/ Rotate
  BY <1>1, LogBoot, LogRotate
<1>2. CASE Crash
  BY <1>2, LogCrash
<1>3. CASE AppendFrame
  BY <1>3, LogAppend
<1>4. CASE AppendFails
  <2>1. pc = "ready" /\ pc' = "ready" /\ UNCHANGED <<segs, acked>> /\ Sync
    BY <1>4 DEF AppendFails, MutexIsFree
  <2>2. \A id : CompleteFrames(files', id) = CompleteFrames(files, id)
    BY <1>4, DurableAppendFails
  <2>. QED
    BY <2>1, <2>2, LogSynced
<1>5. CASE Read
  <2>1. pc = "ready" /\ pc' = "ready" /\ UNCHANGED <<segs, acked, files>> /\ Sync
    BY <1>5 DEF Read, MutexIsFree
  <2>. QED
    BY <2>1, LogSynced
<1>6. CASE Ack
  BY <1>6, LogAck
<1>7. CASE \E id \in Closed : ReclaimOne(id)
  BY <1>7, LogReclaim
<1>8. CASE ReclaimSave
  <2>1. pc = "reclaim" /\ pc' = "ready" /\ UNCHANGED <<segs, acked, files, synced>>
    BY <1>8 DEF ReclaimSave, ramVars
  <2>. QED
    BY <2>1 DEF LogNow, TableNow, AckedNow
<1>9. CASE GapEventsSynced \/ UptimePasses \/ UNCHANGED vars
  <2>1. UNCHANGED <<pc, segs, acked, index, files, synced>>
    BY <1>9 DEF GapEventsSynced, UptimePasses, vars, ramVars, flashVars
  <2>. QED
    BY <2>1 DEF LogNow, TableNow, AckedNow
<1>. QED
  BY <1>1, <1>2, <1>3, <1>4, <1>5, <1>6, <1>7, <1>8, <1>9 DEF Next

-----------------------------------------------------------------------------
(* Segments are counted                                                    *)

\* The segments before the last are counted when they were, and neither they nor their
\* files changed.
LEMMA CountedKept ==
  ASSUME Counted, pc # "off", pc' # "off", OpenId(segs') = OpenId(segs), nextSeq' = nextSeq,
         OpenId(segs) \in DOMAIN segs', DOMAIN segs' \subseteq DOMAIN segs,
         \A id \in DOMAIN segs' :
           segs'[id] = segs[id] /\ CompleteFrames(files', id) = CompleteFrames(files, id)
  PROVE  Counted'
<1>1. TableNow = segs /\ TableNow' = segs'
  BY DEF TableNow
<1>. QED
  BY <1>1 DEF Counted

\* A stream that starts afresh is counted.
LEMMA CountedInit == Init => Counted
<1>. SUFFICES ASSUME Init PROVE Counted
  OBVIOUS
<1>1. TableNow = FreshIndex.segs /\ pc = "off" /\ index = FreshIndex
  BY DEF Init, TableNow
<1>2. DOMAIN TableNow = {0}
  BY <1>1, FreshTable
<1>3. OpenId(TableNow) = 0
  BY <1>1, <1>2, TypesInit, TablesAreRegular DEF Regular
<1>. QED
  BY <1>1, <1>2, <1>3 DEF Counted

\* Recovery counts the open segment's frames again; those of the others the index knew.
LEMMA CountedBoot ==
  ASSUME Types, Positions, Durable, Counted, Boot
  PROVE  Counted'
<1>. DEFINE open == OpenId(index.segs)
            frames == CompleteFrames(files', open)
<1>1. /\ pc = "off" /\ pc' = "ready"
      /\ segs' = [index.segs EXCEPT ![open] = Recovered(@, frames)]
      /\ nextSeq' = index.segs[open].oldest + frames
  BY DEF Boot, RecoveredNextSeq
<1>2. /\ DOMAIN segs' = DOMAIN index.segs
      /\ \A id \in DOMAIN index.segs : CompleteFrames(files', id) = CompleteFrames(files, id)
  BY DurableBoot
<1>3. TableNow = index.segs /\ TableNow' = segs'
  BY <1>1 DEF TableNow
<1>4. open \in DOMAIN index.segs /\ index.segs[open] \in Segment /\ frames \in Nat
  <2>1. Regular(index.segs, files)
    BY TablesAreRegular
  <2>. QED
    BY <1>2, <2>1 DEF Regular, IsTable
<1>5. OpenId(segs') = open
  BY <1>2 DEF OpenId
<1>. HIDE DEF open, frames
<1>6. \A id \in DOMAIN index.segs \ {open} : segs'[id] = index.segs[id]
  BY <1>1
<1>7. /\ segs'[open].size = frames
      /\ frames # 0 => segs'[open].newest = index.segs[open].oldest + frames - 1
  <2>1. segs'[open] = Recovered(index.segs[open], frames)
    BY <1>1, <1>4
  <2>. QED
    BY <1>4, <2>1 DEF Recovered, Segment
<1>8. \A id \in DOMAIN segs' \ {open} : segs'[id].size = CompleteFrames(files', id)
  BY <1>2, <1>3, <1>6 DEF Counted, open
<1>9. segs'[open].size # 0 => segs'[open].newest = nextSeq' - 1
  <2>1. nextSeq' = index.segs[open].oldest + frames
    BY <1>1 DEF open, frames
  <2>2. index.segs[open].oldest \in Nat /\ frames \in Nat
    BY <1>4 DEF Segment, Seqs
  <2>3. nextSeq' - 1 = index.segs[open].oldest + frames - 1
    BY <2>1, <2>2
  <2>. QED
    BY <1>7, <2>3
<1>10. segs'[open].size = CompleteFrames(files', open)
  BY <1>7 DEF frames
<1>. QED
  BY <1>3, <1>5, <1>8, <1>9, <1>10 DEF Counted

\* A reset cuts only the open segment's file, which the index is not asked about.
LEMMA CountedCrash ==
  ASSUME ~CrashInReclaim, Types, Positions, Durable, Counted, Crash
  PROVE  Counted'
<1>. DEFINE open == OpenId(segs)
<1>1. /\ pc \in {"ready", "rotate"} /\ pc # "off" /\ pc' = "off" /\ index' = index
      /\ \E kept \in synced .. Len(Frames(files, open)) :
           files' = [id \in DOMAIN files |->
                       IF id = open THEN SubSeq(files[id], 1, kept) ELSE files[id]]
  BY DEF Crash, Types, TypeOK
<1>2. TableNow = segs /\ TableNow' = index.segs /\ Recorded
  BY <1>1 DEF TableNow, Durable
<1>3. OpenId(index.segs) = open
  BY <1>2 DEF Recorded, OpenId
<1>4. \A id : id # open => CompleteFrames(files', id) = CompleteFrames(files, id)
  BY <1>1 DEF CompleteFrames, Frames
<1>. QED
  BY <1>1, <1>2, <1>3, <1>4 DEF Counted, Recorded

\* A frame written is counted in the open segment, and its number is the newest.
LEMMA CountedAppend ==
  ASSUME Types, Types', Positions, Positions', Durable, Counted, AppendFrame
  PROVE  Counted'
<1>. DEFINE open == OpenId(segs)
<1>1. /\ pc = "ready" /\ pc' # "off" /\ nextSeq' = nextSeq + 1
      /\ files' = [id \in DOMAIN files \cup {open} |->
                     IF id = open THEN Append(Frames(files, open), nextSeq) ELSE files[id]]
      /\ segs' = [segs EXCEPT ![open].newest = nextSeq, ![open].size = openBytes + 1]
  BY DEF AppendFrame, MutexIsFree
<1>2. TableNow = segs /\ TableNow' = segs'
  BY <1>1 DEF TableNow
<1>3. open \in DOMAIN segs /\ segs[open] \in Segment /\ nextSeq \in Nat
  <2>1. Regular(segs, files)
    BY <1>1, TablesAreRegular
  <2>. QED
    BY <2>1 DEF Regular, IsTable, Types, TypeOK, Seqs
<1>. HIDE DEF open
<1>4. /\ DOMAIN segs' = DOMAIN segs /\ \A id \in DOMAIN segs \ {open} : segs'[id] = segs[id]
      /\ segs'[open].newest = nextSeq /\ segs'[open].size = openBytes + 1
  BY <1>1, <1>3 DEF Segment
<1>5. OpenId(segs') = open
  BY <1>4 DEF OpenId, open
<1>6. \A id : id # open => CompleteFrames(files', id) = CompleteFrames(files, id)
  BY <1>1 DEF CompleteFrames, Frames
<1>7. CompleteFrames(files', open) = openBytes + 1
  BY <1>1, DurableAppend DEF Positions, Placed, CompleteFrames, open
<1>8. nextSeq = nextSeq' - 1
  BY <1>1, <1>3
<1>. QED
  BY <1>1, <1>2, <1>4, <1>5, <1>6, <1>7, <1>8 DEF Counted, open

\* A rotation closes a segment that is counted and opens an empty one.
LEMMA CountedRotate ==
  ASSUME ~IndexCanFail, Types, Types', Positions, Positions', Durable, TableHasRoom, Counted, Rotate
  PROVE  Counted'
<1>. DEFINE open == OpenId(segs)
<1>1. /\ pc = "rotate" /\ pc' = "ready" /\ files' = files
      /\ segs' = [id \in DOMAIN segs \cup {open + 1} |->
                     IF id = open + 1 THEN NewSegment(nextSeq)
                                      ELSE [segs EXCEPT ![open].closedAt = uptime][id]]
  BY DEF Rotate, TableHasRoom
<1>2. TableNow = segs /\ TableNow' = segs'
  BY <1>1 DEF TableNow
<1>3. /\ DOMAIN segs' = DOMAIN segs \cup {open + 1} /\ OpenId(segs') = open + 1
      /\ CompleteFrames(files', open + 1) = 0
  BY DurableRotate
<1>4. open \in DOMAIN segs /\ segs[open] \in Segment /\ open + 1 \notin DOMAIN segs
  <2>1. Regular(segs, files)
    BY <1>1, TablesAreRegular
  <2>2. open \in DOMAIN segs /\ open \in Nat
    BY <2>1, RegularEntry DEF Regular
  <2>. QED
    BY <2>1, <2>2, RegularEntry DEF Regular, IsTable
<1>. HIDE DEF open
<1>5. segs'[open + 1] = NewSegment(nextSeq) /\ NewSegment(nextSeq).size = 0
  BY <1>1 DEF NewSegment
<1>6. \A id \in DOMAIN segs : segs'[id].size = segs[id].size
  <2>. DEFINE closed == [segs EXCEPT ![open].closedAt = uptime]
  <2>1. \A id \in DOMAIN segs : closed[id].size = segs[id].size
    BY <1>4 DEF Segment
  <2>2. \A id \in DOMAIN segs : segs'[id] = closed[id]
    BY <1>1, <1>4
  <2>. QED
    BY <2>1, <2>2
<1>7. \A id \in DOMAIN segs : segs[id].size = CompleteFrames(files, id)
  BY <1>1, <1>2 DEF Counted, open
<1>. QED
  BY <1>1, <1>2, <1>3, <1>5, <1>6, <1>7 DEF Counted

\* A reclaim takes a segment with its file and leaves the others as they are.
LEMMA CountedReclaim ==
  ASSUME Stream # "Data", Types, Types', Positions, Durable, Counted,
         NEW victim \in Closed, ReclaimOne(victim)
  PROVE  Counted'
<1>1. /\ pc # "off" /\ pc' = "reclaim" /\ nextSeq' = nextSeq
      /\ files' = [id \in DOMAIN files \ {victim} |-> files[id]]
      /\ segs' = [id \in DOMAIN segs \ {victim} |-> segs[id]]
  BY DEF ReclaimOne
<1>2. DOMAIN segs' = DOMAIN segs \ {victim} /\ \A id \in DOMAIN segs' : segs'[id] = segs[id]
  BY <1>1
<1>3. \A id : id # victim => CompleteFrames(files', id) = CompleteFrames(files, id)
  BY <1>1 DEF CompleteFrames, Frames
<1>4. OpenId(segs') = OpenId(segs) /\ OpenId(segs) \in DOMAIN segs'
  <2>1. Regular(segs, files) /\ Regular(segs', files')
    BY <1>1, TablesAreRegular, TablesStayRegular
  <2>2. OpenId(segs) \in DOMAIN segs' /\ DOMAIN segs' \subseteq 0 .. OpenId(segs)
    BY <1>2, <2>1 DEF Regular, Closed
  <2>. QED
    BY <2>1, <2>2, WithinOpen DEF Regular
<1>. QED
  BY <1>1, <1>2, <1>3, <1>4, CountedKept

\* Every step keeps the segments counted.
LEMMA CountedNext ==
  ASSUME IndexIsCurrent, Stream # "Data", Types, Types', Positions, Positions', Durable,
         TableHasRoom, Counted, [Next]_vars
  PROVE  Counted'
<1>. USE DEF IndexIsCurrent
<1>0. pc # "off" => OpenId(segs) \in DOMAIN segs
  BY TablesAreRegular DEF Regular
<1>1. CASE Boot \/ Crash
  BY <1>1, CountedBoot, CountedCrash
<1>2. CASE AppendFrame \/ Rotate
  BY <1>2, CountedAppend, CountedRotate
<1>3. CASE AppendFails
  <2>1. /\ pc # "off" /\ pc' # "off" /\ UNCHANGED <<segs, nextSeq>>
        /\ \A id : CompleteFrames(files', id) = CompleteFrames(files, id)
    BY <1>3, DurableAppendFails DEF AppendFails, MutexIsFree
  <2>. QED
    BY <1>0, <2>1, CountedKept
<1>4. CASE Ack \/ Read \/ ReclaimSave
  <2>1. pc # "off" /\ pc' # "off" /\ UNCHANGED <<segs, nextSeq, files>>
    BY <1>4 DEF Ack, Read, ReclaimSave, MutexIsFree, ramVars
  <2>. QED
    BY <1>0, <2>1, CountedKept
<1>5. CASE \E id \in Closed : ReclaimOne(id)
  BY <1>5, CountedReclaim
<1>6. CASE GapEventsSynced \/ UptimePasses \/ UNCHANGED vars
  <2>1. UNCHANGED <<pc, nextSeq, segs, index, files>>
    BY <1>6 DEF GapEventsSynced, UptimePasses, vars, ramVars, flashVars
  <2>. QED
    BY <2>1 DEF Counted, TableNow
<1>. QED
  BY <1>1, <1>2, <1>3, <1>4, <1>5, <1>6 DEF Next

-----------------------------------------------------------------------------
(* A scan does what its equation says                                      *)

\* A set of natural numbers that is not empty has a least one.
LEMMA Minimum ==
  ASSUME NEW T \in SUBSET Nat, T # {}
  PROVE  \E n \in T : \A m \in T : n <= m
<1>1. PICK n \in T : \A m \in T : <<m, n>> \notin OpToRel(<, Nat)
  BY NatLessThanWellFounded, WFMin
<1>2. \A m \in T : ~(m < n)
  BY <1>1 DEF OpToRel
<1>. QED
  BY <1>2

\* The equation of readFrom()'s scan, for the segments up to one.
ScanFrom(scan, from, last) ==
  scan = [id \in -1 .. last |->
            IF id = -1 THEN [wanted |-> from, batch |-> NoBatch, ended |-> FALSE]
            ELSE ReadSegment(scan[id - 1], id)]

\* A scan can go on for one segment more.
LEMMA ScanExtends ==
  ASSUME NEW from, NEW last \in Nat, NEW scan, ScanFrom(scan, from, last - 1)
  PROVE  \E longer : ScanFrom(longer, from, last)
<1>. DEFINE longer == [id \in -1 .. last |-> IF id = last THEN ReadSegment(scan[last - 1], last)
                                              ELSE scan[id]]
<1>1. \A id \in -1 .. last - 1 :
        scan[id] = IF id = -1 THEN [wanted |-> from, batch |-> NoBatch, ended |-> FALSE]
                   ELSE ReadSegment(scan[id - 1], id)
  BY DEF ScanFrom
<1>2. \A id \in -1 .. last - 1 : longer[id] = scan[id] /\ id # last /\ id \in -1 .. last
  OBVIOUS
<1>3. longer[last] = ReadSegment(scan[last - 1], last) /\ last # -1 /\ last - 1 \in -1 .. last - 1
  OBVIOUS
<1>4. \A id \in -1 .. last : id = last \/ id \in -1 .. last - 1
  OBVIOUS
<1>5. \A id \in -1 .. last - 1 : id # -1 => id - 1 \in -1 .. last - 1
  OBVIOUS
<1>6. longer = [id \in -1 .. last |-> longer[id]]
  OBVIOUS
<1>. HIDE DEF longer
<1>7. ASSUME NEW id \in -1 .. last
      PROVE  longer[id] = IF id = -1 THEN [wanted |-> from, batch |-> NoBatch, ended |-> FALSE]
                          ELSE ReadSegment(longer[id - 1], id)
  <2>1. CASE id = last
    BY <1>2, <1>3, <2>1, Zenon
  <2>2. CASE id \in -1 .. last - 1
    BY <1>1, <1>2, <1>5, <2>2, Zenon
  <2>. QED
    BY <1>4, <2>1, <2>2
<1>8. [id \in -1 .. last |-> longer[id]] =
      [id \in -1 .. last |-> IF id = -1 THEN [wanted |-> from, batch |-> NoBatch, ended |-> FALSE]
                              ELSE ReadSegment(longer[id - 1], id)]
  BY <1>7, Zenon
<1>9. ScanFrom(longer, from, last)
  BY <1>6, <1>8, Zenon DEF ScanFrom
<1>. QED
  BY <1>9

\* So there is a scan of any number of segments: there is no first one without.
LEMMA ScanExists ==
  ASSUME NEW from, NEW last \in Nat
  PROVE  \E scan : ScanFrom(scan, from, last)
<1>. DEFINE Missing == {n \in Nat : ~ \E scan : ScanFrom(scan, from, n)}
<1>1. \E scan : ScanFrom(scan, from, -1)
  <2>. DEFINE scan == [id \in {-1} |-> [wanted |-> from, batch |-> NoBatch, ended |-> FALSE]]
  <2>1. -1 .. -1 = {-1}
    OBVIOUS
  <2>2. scan = [id \in {-1} |-> IF id = -1 THEN [wanted |-> from, batch |-> NoBatch, ended |-> FALSE]
                                ELSE ReadSegment(scan[id - 1], id)]
    BY Zenon
  <2>3. ScanFrom(scan, from, -1)
    BY <2>1, <2>2, Zenon DEF ScanFrom
  <2>. QED
    BY <2>3
<1>2. SUFFICES ASSUME Missing # {} PROVE FALSE
  OBVIOUS
<1>3. PICK n \in Missing : \A m \in Missing : n <= m
  BY <1>2, Minimum
<1>4. \E scan : ScanFrom(scan, from, n - 1)
  <2>1. CASE n = 0
    BY <1>1, <2>1
  <2>2. CASE n # 0
    <3>1. n - 1 \in Nat /\ ~(n <= n - 1)
      BY <2>2
    <3>. QED
      BY <1>3, <3>1
  <2>. QED
    BY <2>1, <2>2
<1>. QED
  BY <1>3, <1>4, ScanExtends

\* The function that readFrom() is modelled by satisfies its equation.
LEMMA ScanHasIts ==
  ASSUME NEW from, OpenId(segs) \in Nat
  PROVE  ScanFrom(ReadScan(from), from, OpenId(segs))
<1>1. ReadScan(from) = CHOOSE scan : ScanFrom(scan, from, OpenId(segs))
  BY DEF ReadScan, ScanFrom
<1>2. \E scan : ScanFrom(scan, from, OpenId(segs))
  BY ScanExists
<1>. QED
  BY <1>1, <1>2, Zenon


-----------------------------------------------------------------------------
(* What the scan finds                                                     *)

\* Part of a sequence.
LEMMA Slice ==
  ASSUME NEW S, NEW s \in Seq(S), NEW lo \in Nat, NEW hi \in Nat, lo < hi, hi <= Len(s)
  PROVE  /\ SubSeq(s, lo + 1, hi) \in Seq(S)
         /\ Len(SubSeq(s, lo + 1, hi)) = hi - lo
         /\ \A k \in 1 .. hi - lo : SubSeq(s, lo + 1, hi)[k] = s[lo + k]
<1>1. \A i \in lo + 1 .. hi : s[i] \in S
  <2>. TAKE i \in lo + 1 .. hi
  <2>1. i \in 1 .. Len(s)
    BY LenProperties
  <2>. QED
    BY <2>1, ElementOfSeq
<1>2. /\ SubSeq(s, lo + 1, hi) \in Seq(S)
      /\ Len(SubSeq(s, lo + 1, hi)) = hi - (lo + 1) + 1
      /\ \A k \in 1 .. hi - (lo + 1) + 1 : SubSeq(s, lo + 1, hi)[k] = s[lo + 1 + k - 1]
  BY <1>1, SubSeqProperties
<1>3. hi - (lo + 1) + 1 = hi - lo /\ \A k \in 1 .. hi - lo : lo + 1 + k - 1 = lo + k
  OBVIOUS
<1>. QED
  BY <1>2, <1>3

\* Numbers that follow each other.
IsRun(frames, first) == \A k \in 1 .. Len(frames) : frames[k] = first + k - 1

\* What the scan has found after the segments up to one: a run of numbers from the first kept
\* one it was asked for, and, unless it ended, everything kept before what it wants next.
Scanned(r, from, id) ==
  /\ r.wanted \in Nat /\ r.ended \in BOOLEAN
  /\ r.batch.first \in Nat /\ r.batch.frames \in Seq(Nat)
  /\ IsRun(r.batch.frames, r.batch.first)
  /\ IF r.batch.frames = <<>> THEN ~r.ended /\ r.wanted = from
     ELSE /\ from <= r.batch.first /\ r.batch.first \in Kept
          /\ \A s \in Kept : from <= s => r.batch.first <= s
  /\ ~r.ended =>
       /\ Len(r.batch.frames) < BatchLimit
       /\ r.batch.frames # <<>> => r.wanted = r.batch.first + Len(r.batch.frames)
       /\ \A j \in DOMAIN segs :
            j <= id /\ CompleteFrames(files, j) > 0 => End(segs, files, j) <= r.wanted

\* The stream as readFrom() meets it: no operation is halfway.
Readable == Types /\ Positions /\ Durable /\ Counted /\ pc = "ready"

\* Where a segment that can be read begins and ends.
LEMMA SegmentsNow ==
  ASSUME Readable
  PROVE  /\ TableNow = segs /\ OldestNow = oldestSeq /\ oldestSeq \in Nat
         /\ Regular(segs, files) /\ Numbered(segs, files)
         /\ Chained(segs, files) /\ Covers(segs, files, oldestSeq)
         /\ Kept = UNION {Content(files, id) : id \in DOMAIN segs}
         /\ OpenId(segs) \in Nat /\ OpenId(segs) \in DOMAIN segs
         /\ \A id \in DOMAIN segs :
              /\ segs[id].size = CompleteFrames(files, id)
              /\ segs[id].size # 0 => segs[id].newest = End(segs, files, id) - 1
<1>1. TableNow = segs /\ OldestNow = oldestSeq /\ pc # "off"
  BY DEF Readable, TableNow, OldestNow
<1>2. Regular(segs, files) /\ oldestSeq \in Nat
  BY <1>1, TablesAreRegular, NumbersNow DEF Readable
<1>3. Numbered(segs, files) /\ nextSeq = End(segs, files, OpenId(segs))
  BY <1>1 DEF Readable, Positions, Placed, End, CompleteFrames
<1>4. Chained(segs, files) /\ Covers(segs, files, oldestSeq)
  BY <1>1 DEF Readable, Durable, Sound
<1>5. \A id \in DOMAIN segs :
        /\ segs[id].size = CompleteFrames(files, id)
        /\ segs[id].size # 0 => segs[id].newest = End(segs, files, id) - 1
  BY <1>1, <1>3, <1>4 DEF Readable, Counted, Chained
<1>6. OpenId(segs) \in Nat /\ OpenId(segs) \in DOMAIN segs
  BY <1>2, RegularEntry DEF Regular
<1>. QED
  BY <1>1, <1>2, <1>3, <1>4, <1>5, <1>6 DEF Kept

\* A segment with nothing the scan wants is passed.
LEMMA ScanPasses ==
  ASSUME Readable, NEW from \in Nat, NEW id \in 0 .. OpenId(segs), NEW r, Scanned(r, from, id - 1),
         \/ id \notin DOMAIN segs \/ r.ended
         \/ segs[id].size = 0 \/ segs[id].newest < r.wanted
  PROVE  ReadSegment(r, id) = r /\ Scanned(r, from, id)
<1>1. ReadSegment(r, id) = r
  BY Zenon DEF ReadSegment
<1>2. ASSUME ~r.ended, NEW j \in DOMAIN segs, j <= id, CompleteFrames(files, j) > 0
      PROVE  End(segs, files, j) <= r.wanted
  <2>1. CASE j <= id - 1
    BY <1>2, <2>1 DEF Scanned
  <2>2. CASE j = id
    <3>1. /\ End(segs, files, id) \in Nat /\ r.wanted \in Nat /\ CompleteFrames(files, id) \in Nat
          /\ segs[id].size = CompleteFrames(files, id)
          /\ segs[id].size # 0 => segs[id].newest = End(segs, files, id) - 1
      BY <1>2, <2>2, SegmentsNow, RegularEntry DEF Scanned
    <3>. QED
      BY <1>2, <2>2, <3>1
  <2>3. j \in Nat /\ id \in Nat
    BY <1>2, SegmentsNow, RegularEntry
  <2>. QED
    BY <1>2, <2>1, <2>2, <2>3
<1>3. Scanned(r, from, id)
  BY <1>2 DEF Scanned
<1>. QED
  BY <1>1, <1>3

\* A record the scan has not come to is in a later segment.
LEMMA KeptIsIn ==
  ASSUME Readable, NEW s \in Kept
  PROVE  \E j \in DOMAIN segs : /\ s \in Nat /\ segs[j].oldest <= s /\ s < End(segs, files, j)
                               /\ CompleteFrames(files, j) > 0
<1>1. PICK j \in DOMAIN segs : s \in Content(files, j)
  BY SegmentsNow
<1>2. s \in Nat /\ segs[j].oldest <= s /\ s < End(segs, files, j)
  BY <1>1, SegmentsNow, ContentIsPlaced
<1>3. CompleteFrames(files, j) > 0
  BY <1>2, SegmentsNow, RegularEntry DEF End
<1>. QED
  BY <1>2, <1>3

\* What the scan goes on with is no younger than what it wants.
LEMMA NoHole ==
  ASSUME Readable, NEW from \in Nat, NEW id \in DOMAIN segs, NEW r, Scanned(r, from, id - 1),
         ~r.ended, r.batch.frames # <<>>, CompleteFrames(files, id) > 0
  PROVE  segs[id].oldest <= r.wanted
<1>1. id \in Nat /\ segs[id].oldest \in Nat /\ r.wanted \in Nat
  BY SegmentsNow, RegularEntry DEF Scanned
<1>. SUFFICES ASSUME r.wanted < segs[id].oldest PROVE FALSE
  BY <1>1
<1>2. r.wanted > r.batch.first /\ r.batch.first \in Kept /\ r.batch.first \in Nat
  <2>1. r.batch.frames \in Seq(Nat) /\ Len(r.batch.frames) \in Nat /\ Len(r.batch.frames) # 0
    BY EmptySeq, LenProperties DEF Scanned
  <2>. QED
    BY <2>1 DEF Scanned
<1>3. oldestSeq <= r.batch.first
  <2>1. PICK j \in DOMAIN segs : segs[j].oldest <= r.batch.first
    BY <1>2, KeptIsIn
  <2>2. oldestSeq <= segs[j].oldest /\ segs[j].oldest \in Nat /\ oldestSeq \in Nat
    BY SegmentsNow, RegularEntry DEF Covers
  <2>. QED
    BY <1>2, <2>1, <2>2
<1>4. r.wanted < End(segs, files, OpenId(segs))
  <2>1. segs[id].oldest <= segs[OpenId(segs)].oldest
    <3>1. CASE id = OpenId(segs)
      BY <1>1, <3>1
    <3>2. CASE id # OpenId(segs)
      <4>1. id < OpenId(segs)
        BY <3>2, SegmentsNow, RegularEntry
      <4>2. End(segs, files, id) <= segs[OpenId(segs)].oldest
        BY <4>1, SegmentsNow DEF Chained
      <4>. QED
        BY <4>2, SegmentsNow, RegularEntry
    <3>. QED
      BY <3>1, <3>2
  <2>. QED
    BY <1>1, <2>1, SegmentsNow, RegularEntry
<1>5. PICK j \in DOMAIN segs : segs[j].oldest <= r.wanted /\ r.wanted < End(segs, files, j)
  <2>1. r.wanted \in oldestSeq .. End(segs, files, OpenId(segs)) - 1
    <3>1. oldestSeq \in Nat /\ End(segs, files, OpenId(segs)) \in Nat
      BY SegmentsNow, RegularEntry
    <3>. QED
      BY <1>1, <1>2, <1>3, <1>4, <3>1
  <2>. QED
    BY <2>1, SegmentsNow DEF Covers
<1>6. j \in Nat /\ segs[j].oldest \in Nat /\ CompleteFrames(files, j) > 0
      /\ End(segs, files, j) \in Nat
  BY <1>1, <1>5, SegmentsNow, RegularEntry DEF End
<1>7. CASE j < id
  BY <1>1, <1>5, <1>6, <1>7 DEF Scanned
<1>8. CASE j = id
  BY <1>1, <1>5, <1>8
<1>9. CASE id < j
  <2>1. End(segs, files, id) <= segs[j].oldest
    BY <1>9, SegmentsNow DEF Chained
  <2>2. End(segs, files, id) \in Nat /\ segs[id].oldest < End(segs, files, id)
    BY SegmentsNow, RegularEntry DEF End
  <2>. QED
    BY <1>1, <1>5, <1>6, <2>1, <2>2
<1>. QED
  BY <1>1, <1>6, <1>7, <1>8, <1>9


\* The frames that the scan takes of a segment are those after one number, up to another.
Before(r, id) == Skipped(r.wanted, segs[id].oldest)
Room(r) == BatchLimit - Len(r.batch.frames)
UpTo(r, id) ==
  IF CompleteFrames(files, id) < Before(r, id) + Room(r) THEN CompleteFrames(files, id)
                                                         ELSE Before(r, id) + Room(r)
Taken(r, id) == SubSeq(Frames(files, id), Before(r, id) + 1, UpTo(r, id))
Start(r, id) == IF r.wanted > segs[id].oldest THEN r.wanted ELSE segs[id].oldest

\* What a segment with wanted records makes of the scan.
LEMMA ScanTakes ==
  ASSUME Readable, NEW from \in Nat, NEW id \in DOMAIN segs, NEW r, Scanned(r, from, id - 1),
         ~r.ended, segs[id].size # 0, segs[id].newest >= r.wanted
  PROVE  /\ Before(r, id) \in Nat /\ UpTo(r, id) \in Nat
         /\ Before(r, id) < UpTo(r, id) /\ UpTo(r, id) <= CompleteFrames(files, id)
         /\ segs[id].oldest + Before(r, id) = Start(r, id)
         /\ UpTo(r, id) - Before(r, id) <= Room(r)
         /\ UpTo(r, id) - Before(r, id) # Room(r) => UpTo(r, id) = CompleteFrames(files, id)
         /\ Len(Taken(r, id)) = UpTo(r, id) - Before(r, id)
         /\ ReadSegment(r, id) =
              [wanted |-> End(segs, files, id),
               batch |-> [first |-> FirstSeq(r.batch, Start(r, id)),
                          frames |-> r.batch.frames \o Taken(r, id)],
               ended |-> Len(Taken(r, id)) = Room(r)]
<1>. DEFINE n == CompleteFrames(files, id)
            oldest == segs[id].oldest
            lo == Before(r, id)
            room == Room(r)
            hi == UpTo(r, id)
<1>1. /\ n \in Nat /\ n > 0 /\ oldest \in Nat /\ r.wanted \in Nat
      /\ r.wanted <= oldest + n - 1 /\ End(segs, files, id) = oldest + n
  <2>1. /\ CompleteFrames(files, id) \in Nat /\ oldest \in Nat
        /\ End(segs, files, id) = oldest + CompleteFrames(files, id)
    BY SegmentsNow, RegularEntry DEF End
  <2>2. /\ CompleteFrames(files, id) # 0
        /\ segs[id].newest = End(segs, files, id) - 1
    BY SegmentsNow
  <2>3. r.wanted \in Nat
    BY DEF Scanned
  <2>4. r.wanted <= End(segs, files, id) - 1
    BY <2>2
  <2>5. n = CompleteFrames(files, id)
    OBVIOUS
  <2>. HIDE DEF n, oldest
  <2>6. n \in Nat /\ n # 0
    BY <2>1, <2>2, <2>5
  <2>7. End(segs, files, id) = oldest + n
    BY <2>1, <2>5
  <2>. QED
    BY <2>1, <2>3, <2>4, <2>6, <2>7
<1>2. room \in Nat \ {0}
  <2>1. Len(r.batch.frames) \in Nat /\ Len(r.batch.frames) < BatchLimit
    BY LenProperties DEF Scanned
  <2>. QED
    BY <2>1 DEF Room
<1>3. /\ lo \in Nat /\ lo < n
      /\ oldest + lo = Start(r, id)
  BY <1>1 DEF Skipped, Before, Start
<1>4. /\ hi \in Nat /\ lo < hi /\ hi <= n /\ hi - lo <= room /\ (hi - lo # room => hi = n)
  <2>0. hi = IF n < lo + room THEN n ELSE lo + room
    BY DEF UpTo
  <2>. HIDE DEF lo, n, room, hi
  <2>1. CASE n < lo + room
    BY <1>1, <1>2, <1>3, <2>0, <2>1
  <2>2. CASE ~(n < lo + room)
    BY <1>1, <1>2, <1>3, <2>0, <2>2
  <2>. QED
    BY <2>1, <2>2
<1>5. id \in DOMAIN files
  <2>1. CASE id \notin DOMAIN files
    BY <1>1, <2>1 DEF Frames, CompleteFrames
  <2>. QED
    BY <2>1
<1>6. Len(Taken(r, id)) = hi - lo
  <2>1. Frames(files, id) \in Seq(Seqs) /\ n = Len(Frames(files, id))
    BY FramesAreSeqs DEF Readable, Types, TypeOK, CompleteFrames
  <2>. QED
    BY <1>3, <1>4, <2>1, Slice DEF Taken
<1>7. ~(segs[id].newest < r.wanted)
  <2>1. segs[id].newest \in Nat
    BY SegmentsNow, RegularEntry
  <2>. QED
    BY <1>1, <2>1
<1>8. ReadSegment(r, id) =
        [wanted |-> oldest + n,
         batch |-> [first |-> FirstSeq(r.batch, oldest + lo), frames |-> r.batch.frames \o Taken(r, id)],
         ended |-> Len(Taken(r, id)) = room]
  BY <1>5, <1>7, Zenon DEF ReadSegment, Taken, Before, UpTo, Room, CompleteFrames
<1>. QED
  BY <1>1, <1>3, <1>4, <1>6, <1>8

\* Two runs one after the other are one.
LEMMA RunsJoin ==
  ASSUME NEW a \in Seq(Nat), NEW b \in Seq(Nat), NEW first \in Nat, NEW next \in Nat,
         IsRun(a, first), IsRun(b, next), a # <<>> => next = first + Len(a)
  PROVE  /\ a \o b \in Seq(Nat) /\ Len(a \o b) = Len(a) + Len(b)
         /\ IsRun(a \o b, IF a = <<>> THEN next ELSE first)
<1>1. Len(a) \in Nat /\ Len(b) \in Nat /\ (a = <<>> <=> Len(a) = 0)
  BY EmptySeq, LenProperties
<1>2. /\ a \o b \in Seq(Nat) /\ Len(a \o b) = Len(a) + Len(b)
      /\ \A k \in 1 .. Len(a) + Len(b) :
           (a \o b)[k] = IF k <= Len(a) THEN a[k] ELSE b[k - Len(a)]
  BY <1>1, ConcatProperties
<1>3. ASSUME NEW k \in 1 .. Len(a \o b)
      PROVE  (a \o b)[k] = (IF a = <<>> THEN next ELSE first) + k - 1
  <2>1. CASE k <= Len(a)
    <3>1. k \in 1 .. Len(a) /\ a # <<>>
      BY <1>1, <1>2, <2>1
    <3>. QED
      BY <1>2, <2>1, <3>1 DEF IsRun
  <2>2. CASE k > Len(a)
    <3>1. PICK i \in 1 .. Len(b) : i = k - Len(a)
      <4>1. k \in 1 .. Len(a) + Len(b)
        BY <1>2
      <4>2. k - Len(a) \in 1 .. Len(b)
        BY <1>1, <2>2, <4>1
      <4>. QED
        BY <4>2
    <3>2. (a \o b)[k] = b[i]
      BY <1>1, <1>2, <2>2, <3>1
    <3>3. b[i] = next + i - 1
      BY DEF IsRun
    <3>4. next + i - 1 = (IF a = <<>> THEN next ELSE first) + k - 1
      <4>1. i = k - Len(a) /\ k \in Nat /\ Len(a) \in Nat
        BY <1>1, <1>2, <3>1
      <4>2. CASE a = <<>>
        BY <1>1, <4>1, <4>2
      <4>3. CASE a # <<>>
        BY <4>1, <4>3
      <4>. QED
        BY <4>2, <4>3
    <3>. QED
      BY <3>2, <3>3, <3>4
  <2>. QED
    BY <1>1, <1>2, <2>1, <2>2
<1>. QED
  BY <1>2, <1>3 DEF IsRun

\* Where the run ends when a segment is taken to its end.
LEMMA RunEnds ==
  ASSUME NEW o \in Nat, NEW n \in Nat, NEW lo \in Nat, NEW first \in Nat, NEW had \in Nat,
         o + lo = first + had
  PROVE  o + n = first + (had + (n - lo))
  OBVIOUS

\* A segment with records the scan wants is taken where the batch left off.
LEMMA ScanReads ==
  ASSUME Readable, NEW from \in Nat, NEW id \in DOMAIN segs, NEW r, Scanned(r, from, id - 1),
         ~r.ended, segs[id].size # 0, segs[id].newest >= r.wanted
  PROVE  Scanned(ReadSegment(r, id), from, id)
<1>. DEFINE oldest == segs[id].oldest
            n == CompleteFrames(files, id)
            had == r.batch.frames
            lo == Before(r, id)
            hi == UpTo(r, id)
            next == Start(r, id)
            taken == Taken(r, id)
            q == ReadSegment(r, id)
<1>1. /\ lo \in Nat /\ hi \in Nat /\ lo < hi /\ hi <= n
      /\ oldest + lo = next
      /\ hi - lo <= BatchLimit - Len(had)
      /\ hi - lo # BatchLimit - Len(had) => hi = n
  BY ScanTakes DEF Room
<1>2. /\ q.wanted = End(segs, files, id) /\ q.batch.first = FirstSeq(r.batch, next)
      /\ q.batch.frames = had \o taken /\ (q.ended <=> hi - lo = BatchLimit - Len(had))
      /\ q.ended \in BOOLEAN
  <2>1. /\ q = [wanted |-> End(segs, files, id),
                batch |-> [first |-> FirstSeq(r.batch, next), frames |-> had \o taken],
                ended |-> Len(taken) = Room(r)]
        /\ Len(taken) = hi - lo
    BY ScanTakes
  <2>. HIDE DEF q, next, taken, had
  <2>. QED
    BY <2>1 DEF Room, had
<1>3. /\ oldest \in Nat /\ n \in Nat /\ n > 0 /\ End(segs, files, id) = oldest + n /\ r.wanted \in Nat
      /\ had \in Seq(Nat) /\ Len(had) \in Nat /\ Len(had) < BatchLimit /\ r.batch.first \in Nat
      /\ next \in Nat /\ next = (IF r.wanted > oldest THEN r.wanted ELSE oldest) /\ id \in Nat
  <2>1. /\ oldest \in Nat /\ n \in Nat /\ End(segs, files, id) = oldest + n /\ id \in Nat
    BY SegmentsNow, RegularEntry DEF End
  <2>2. had \in Seq(Nat) /\ Len(had) \in Nat /\ Len(had) < BatchLimit /\ r.batch.first \in Nat
        /\ r.wanted \in Nat
    BY LenProperties DEF Scanned
  <2>. QED
    BY <1>1, <2>1, <2>2 DEF Start
<1>4. /\ taken \in Seq(Nat) /\ Len(taken) = hi - lo
      /\ IsRun(taken, next)
  <2>1. Frames(files, id) \in Seq(Nat) /\ n = Len(Frames(files, id))
    BY FramesType DEF Readable, Positions, Shape, CompleteFrames
  <2>2. /\ taken \in Seq(Nat) /\ Len(taken) = hi - lo
        /\ \A k \in 1 .. hi - lo : taken[k] = Frames(files, id)[lo + k]
    <3>1. taken = SubSeq(Frames(files, id), lo + 1, hi)
      BY DEF Taken
    <3>2. hi <= Len(Frames(files, id))
      BY <1>1, <2>1
    <3>. HIDE DEF taken, lo, hi, n
    <3>. QED
      BY <1>1, <2>1, <3>1, <3>2, Slice
  <2>3. id \in DOMAIN files
    <3>1. CASE id \notin DOMAIN files
      BY <1>3, <2>1, <3>1 DEF Frames
    <3>. QED
      BY <3>1
  <2>4. \A k \in 1 .. n : Frames(files, id)[k] = oldest + k - 1
    BY <2>1, <2>3, SegmentsNow DEF Numbered, Frames
  <2>5. ASSUME NEW k \in 1 .. hi - lo PROVE taken[k] = next + k - 1
    <3>1. PICK i \in 1 .. n : i = lo + k
      BY <1>1, <1>3
    <3>2. taken[k] = Frames(files, id)[i]
      BY <2>2, <3>1
    <3>3. Frames(files, id)[i] = oldest + i - 1
      BY <2>4
    <3>4. oldest + i - 1 = next + k - 1
      <4>1. i = lo + k /\ next = oldest + lo
        BY <1>1, <3>1
      <4>2. lo \in Nat /\ oldest \in Nat /\ k \in Int
        BY <1>1, <1>3
      <4>. HIDE DEF lo, oldest, next
      <4>. QED
        BY <4>1, <4>2
    <3>. QED
      BY <3>2, <3>3, <3>4
  <2>. QED
    BY <2>2, <2>5 DEF IsRun
<1>5. had # <<>> => next = r.batch.first + Len(had) /\ next = r.wanted
  <2>. SUFFICES ASSUME had # <<>> PROVE next = r.batch.first + Len(had) /\ next = r.wanted
    OBVIOUS
  <2>1. oldest <= r.wanted
    BY <1>3, NoHole
  <2>2. r.wanted = r.batch.first + Len(had)
    BY DEF Scanned
  <2>. QED
    BY <1>3, <2>1, <2>2
<1>. HIDE DEF q, next, taken, had, n, oldest, lo, hi
<1>6. /\ had \o taken \in Seq(Nat) /\ Len(had \o taken) = Len(had) + (hi - lo)
      /\ IsRun(had \o taken, IF had = <<>> THEN next ELSE r.batch.first)
  <2>1. IsRun(had, r.batch.first)
    BY DEF Scanned, had
  <2>2. had # <<>> => next = r.batch.first + Len(had)
    BY <1>5
  <2>. QED
    BY <1>3, <1>4, <2>1, <2>2, RunsJoin
<1>7. q.batch.first = (IF had = <<>> THEN next ELSE r.batch.first) /\ q.batch.first \in Nat
  BY <1>2, <1>3 DEF FirstSeq, had
<1>8. IsRun(q.batch.frames, q.batch.first) /\ q.batch.frames \in Seq(Nat)
  BY <1>2, <1>6, <1>7
<1>9. q.batch.frames # <<>>
  <2>1. Len(had) + (hi - lo) # 0
    BY <1>1, <1>3
  <2>. QED
    BY <1>2, <1>6, <2>1, EmptySeq
<1>10. from <= q.batch.first /\ q.batch.first \in Kept /\ \A s \in Kept : from <= s => q.batch.first <= s
  <2>1. CASE had # <<>>
    BY <1>7, <2>1 DEF Scanned, had
  <2>2. CASE had = <<>>
    <3>1. q.batch.first = next /\ r.wanted = from
      BY <1>7, <2>2 DEF Scanned, had
    <3>2. from <= next /\ oldest <= next /\ next < oldest + n
      BY <1>1, <1>3, <3>1
    <3>3. next \in Kept
      <4>1. next \in Content(files, id)
        BY <1>3, <3>2, SegmentsNow, PlacedIsContent DEF oldest
      <4>. QED
        BY <4>1, SegmentsNow
    <3>4. ASSUME NEW s \in Kept, from <= s PROVE next <= s
      <4>1. PICK j \in DOMAIN segs : /\ s \in Nat /\ segs[j].oldest <= s /\ s < End(segs, files, j)
                                     /\ CompleteFrames(files, j) > 0
        BY KeptIsIn
      <4>2. j \in Nat /\ segs[j].oldest \in Nat /\ End(segs, files, j) \in Nat
        BY SegmentsNow, RegularEntry
      <4>3. CASE j < id
        <5>1. End(segs, files, j) <= r.wanted
          BY <1>3, <4>1, <4>2, <4>3 DEF Scanned
        <5>. QED
          BY <1>3, <3>1, <3>4, <4>1, <4>2, <5>1
      <4>4. CASE j = id
        BY <1>3, <3>1, <3>4, <4>1, <4>4 DEF oldest
      <4>5. CASE id < j
        <5>1. End(segs, files, id) <= segs[j].oldest
          BY <4>5, SegmentsNow DEF Chained
        <5>. QED
          BY <1>3, <3>2, <4>1, <4>2, <5>1
      <4>. QED
        BY <1>3, <4>2, <4>3, <4>4, <4>5
    <3>. QED
      BY <3>1, <3>2, <3>3, <3>4
  <2>. QED
    BY <2>1, <2>2
<1>11. ASSUME ~q.ended
       PROVE  /\ Len(q.batch.frames) < BatchLimit
              /\ q.wanted = q.batch.first + Len(q.batch.frames)
              /\ \A j \in DOMAIN segs :
                   j <= id /\ CompleteFrames(files, j) > 0 => End(segs, files, j) <= q.wanted
  <2>1. hi = n /\ Len(q.batch.frames) = Len(had) + (n - lo) /\ hi - lo < BatchLimit - Len(had)
    <3>1. hi - lo # BatchLimit - Len(had)
      BY <1>2, <1>11
    <3>2. hi = n
      BY <1>1, <3>1
    <3>3. Len(q.batch.frames) = Len(had) + (hi - lo)
      BY <1>2, <1>6
    <3>4. hi - lo < BatchLimit - Len(had)
      <4>1. hi - lo <= BatchLimit - Len(had) /\ BatchLimit \in Nat
        BY <1>1
      <4>2. hi - lo \in Int /\ BatchLimit - Len(had) \in Int
        BY <1>1, <1>3, <4>1
      <4>. QED
        BY <3>1, <4>1, <4>2
    <3>. QED
      BY <3>2, <3>3, <3>4
  <2>2. Len(q.batch.frames) < BatchLimit
    <3>1. lo \in Nat /\ n \in Nat /\ Len(had) \in Nat /\ BatchLimit \in Nat
      BY <1>1, <1>3
    <3>2. n - lo < BatchLimit - Len(had)
      BY <2>1
    <3>3. Len(had) + (n - lo) < BatchLimit
      BY <3>1, <3>2
    <3>. QED
      BY <2>1, <3>3
  <2>3. q.wanted = q.batch.first + Len(q.batch.frames)
    <3>0. /\ q.wanted = oldest + n /\ Len(q.batch.frames) = Len(had) + (n - lo) /\ next = oldest + lo
          /\ oldest \in Nat /\ n \in Nat /\ Len(had) \in Nat /\ r.batch.first \in Nat /\ lo \in Nat
      BY <1>1, <1>2, <1>3, <2>1
    <3>1. CASE had = <<>>
      <4>1. Len(had) = 0 /\ q.batch.first = next
        BY <1>7, <3>1, EmptySeq
      <4>. QED
        BY <3>0, <4>1, RunEnds
    <3>2. CASE had # <<>>
      <4>1. q.batch.first = r.batch.first /\ next = r.batch.first + Len(had)
        BY <1>5, <1>7, <3>2
      <4>2. oldest + lo = r.batch.first + Len(had)
        BY <3>0, <4>1
      <4>3. oldest + n = r.batch.first + (Len(had) + (n - lo))
        BY <3>0, <4>2, RunEnds
      <4>. QED
        BY <3>0, <4>1, <4>3
    <3>. QED
      BY <3>1, <3>2
  <2>4. ASSUME NEW j \in DOMAIN segs, j <= id PROVE End(segs, files, j) <= q.wanted
    <3>1. j \in Nat /\ segs[j].oldest \in Nat /\ End(segs, files, j) \in Nat
      BY SegmentsNow, RegularEntry
    <3>2. CASE j = id
      BY <1>2, <3>1, <3>2
    <3>3. CASE j < id
      <4>1. End(segs, files, j) <= oldest
        BY <3>3, SegmentsNow DEF Chained, oldest
      <4>. QED
        BY <1>2, <1>3, <3>1, <4>1
    <3>. QED
      BY <1>3, <2>4, <3>1, <3>2, <3>3
  <2>. QED
    BY <2>2, <2>3, <2>4
<1>12. q.wanted \in Nat /\ q.ended \in BOOLEAN
  BY <1>2, <1>3
<1>13. Scanned(q, from, id)
  BY <1>7, <1>8, <1>9, <1>10, <1>11, <1>12 DEF Scanned
<1>. QED
  BY <1>13 DEF q

\* The scan finds what it should, segment after segment.
LEMMA ScanHolds ==
  ASSUME Readable, NEW from \in Nat, NEW last \in -1 .. OpenId(segs)
  PROVE  Scanned(ReadScan(from)[last], from, last)
<1>. DEFINE Failing == {n \in Nat : n - 1 <= OpenId(segs) /\ ~Scanned(ReadScan(from)[n - 1], from, n - 1)}
<1>1. OpenId(segs) \in Nat /\ DOMAIN segs \subseteq 0 .. OpenId(segs)
  BY SegmentsNow, WithinOpen DEF Regular
<1>2. \A id \in -1 .. OpenId(segs) :
        ReadScan(from)[id] = IF id = -1 THEN [wanted |-> from, batch |-> NoBatch, ended |-> FALSE]
                             ELSE ReadSegment(ReadScan(from)[id - 1], id)
  <2>. DEFINE scan == ReadScan(from)
  <2>1. ScanFrom(scan, from, OpenId(segs))
    BY <1>1, ScanHasIts
  <2>. HIDE DEF scan
  <2>2. \A id \in -1 .. OpenId(segs) :
          scan[id] = IF id = -1 THEN [wanted |-> from, batch |-> NoBatch, ended |-> FALSE]
                     ELSE ReadSegment(scan[id - 1], id)
    BY <2>1 DEF ScanFrom
  <2>. QED
    BY <2>2 DEF scan
<1>3. SUFFICES ASSUME Failing # {} PROVE FALSE
  <2>1. last + 1 \in Nat /\ last + 1 - 1 = last /\ last <= OpenId(segs)
    BY <1>1
  <2>2. last + 1 \in Failing \/ Scanned(ReadScan(from)[last], from, last)
    BY <2>1
  <2>. QED
    BY <2>2
<1>4. PICK n \in Failing : \A m \in Failing : n <= m
  BY <1>3, Minimum
<1>5. n \in Nat /\ n - 1 <= OpenId(segs) /\ ~Scanned(ReadScan(from)[n - 1], from, n - 1)
  BY <1>4
<1>6. CASE n = 0
  <2>1. n - 1 = -1 /\ -1 \in -1 .. OpenId(segs)
    BY <1>1, <1>6
  <2>2. ReadScan(from)[-1] = [wanted |-> from, batch |-> NoBatch, ended |-> FALSE]
    BY <1>2, <2>1
  <2>3. Scanned([wanted |-> from, batch |-> NoBatch, ended |-> FALSE], from, -1)
    <3>1. \A j \in DOMAIN segs : ~(j <= -1)
      BY <1>1
    <3>2. BatchLimit \in Nat /\ 0 < BatchLimit
      BY JournalAssumption
    <3>. DEFINE start == [wanted |-> from, batch |-> NoBatch, ended |-> FALSE]
    <3>3. /\ start.wanted = from /\ start.ended \in BOOLEAN /\ ~start.ended
          /\ start.batch.first = 0 /\ start.batch.frames = <<>>
      BY DEF NoBatch
    <3>4. <<>> \in Seq(Nat) /\ Len(<<>>) = 0
      BY EmptySeq
    <3>. HIDE DEF start
    <3>5. IsRun(start.batch.frames, start.batch.first)
      BY <3>3, <3>4 DEF IsRun
    <3>6. Scanned(start, from, -1)
      <4>1. start.wanted \in Nat /\ start.batch.first \in Nat /\ start.batch.frames \in Seq(Nat)
        BY <3>3, <3>4
      <4>2. Len(start.batch.frames) < BatchLimit
        BY <3>2, <3>3, <3>4
      <4>. QED
        BY <3>1, <3>3, <3>5, <4>1, <4>2 DEF Scanned
    <3>. QED
      BY <3>6 DEF start
  <2>. QED
    BY <1>5, <2>1, <2>2, <2>3
<1>7. CASE n # 0
  <2>. DEFINE id == n - 1
              r == ReadScan(from)[id - 1]
  <2>1. id \in 0 .. OpenId(segs) /\ id \in -1 .. OpenId(segs) /\ id # -1 /\ n - 2 = id - 1
    BY <1>1, <1>5, <1>7
  <2>2. Scanned(r, from, id - 1)
    <3>1. n - 1 \in Nat /\ (n - 1) - 1 <= OpenId(segs) /\ ~(n <= n - 1)
      BY <1>1, <1>5, <1>7
    <3>2. n - 1 \notin Failing
      BY <1>4, <3>1
    <3>. QED
      BY <3>1, <3>2
  <2>3. ReadScan(from)[id] = ReadSegment(r, id)
    BY <1>2, <2>1
  <2>4. ~Scanned(ReadScan(from)[id], from, id)
    BY <1>5
  <2>. HIDE DEF id, r
  <2>5. CASE id \notin DOMAIN segs \/ r.ended \/ segs[id].size = 0 \/ segs[id].newest < r.wanted
    <3>1. Scanned(r, from, id)
      BY <2>1, <2>2, <2>5, ScanPasses
    <3>2. ReadSegment(r, id) = r
      BY <2>1, <2>2, <2>5, ScanPasses
    <3>. QED
      BY <2>3, <2>4, <3>1, <3>2
  <2>6. CASE id \in DOMAIN segs /\ ~r.ended /\ segs[id].size # 0 /\ ~(segs[id].newest < r.wanted)
    <3>1. segs[id].newest >= r.wanted
      <4>1. segs[id].newest \in Nat /\ r.wanted \in Nat
        BY <2>2, <2>6, SegmentsNow, RegularEntry DEF Scanned
      <4>. QED
        BY <2>6, <4>1
    <3>2. Scanned(ReadSegment(r, id), from, id)
      BY <2>2, <2>6, <3>1, ScanReads
    <3>. QED
      BY <2>3, <2>4, <3>2
  <2>. QED
    BY <2>5, <2>6
<1>. QED
  BY <1>6, <1>7

\* So the batch that readFrom() fills is the one it should.
LEMMA BatchFollows ==
  ASSUME Types, Positions, Durable, Counted
  PROVE  BatchIsRight
<1>. SUFFICES ASSUME pc = "ready" PROVE BatchIsRight
  BY DEF BatchIsRight, BatchIsContiguous, ReadServesOldest
<1>. DEFINE r == ReadScan(FirstUnacked)[OpenId(segs)]
            batch == ReadBatch(FirstUnacked)
            waiting == {s \in Kept : s > acked}
<1>1. Readable /\ OpenId(segs) \in Nat
  BY SegmentsNow DEF Readable
<1>2. acked \in Int /\ FirstUnacked \in Nat
  BY JournalAssumption DEF Types, TypeOK, FirstUnacked, Seqs, NoAck
<1>3. Scanned(r, FirstUnacked, OpenId(segs)) /\ batch = r.batch
  BY <1>1, <1>2, ScanHolds DEF ReadBatch
<1>. HIDE DEF r
<1>4. Kept \subseteq Nat
  BY <1>1, KeptIsIn
<1>5. \A s \in Kept : s > acked <=> FirstUnacked <= s
  BY <1>2, <1>4 DEF FirstUnacked
<1>6. IsRun(batch.frames, batch.first)
  BY <1>3 DEF Scanned
<1>7. ASSUME waiting # {}
      PROVE  batch.frames # <<>> /\ batch.first = Oldest(waiting)
  <2>1. batch.frames # <<>>
    <3>. SUFFICES ASSUME batch.frames = <<>> PROVE FALSE
      OBVIOUS
    <3>1. ~r.ended /\ r.wanted = FirstUnacked
      BY <1>3 DEF Scanned
    <3>2. PICK s \in Kept : FirstUnacked <= s
      BY <1>5, <1>7
    <3>3. PICK j \in DOMAIN segs : /\ s \in Nat /\ s < End(segs, files, j)
                                   /\ CompleteFrames(files, j) > 0
      BY <1>1, KeptIsIn
    <3>4. End(segs, files, j) \in Nat /\ j <= OpenId(segs)
      BY <1>1, SegmentsNow, RegularEntry, WithinOpen DEF Regular
    <3>5. End(segs, files, j) <= r.wanted
      BY <1>3, <3>1, <3>3, <3>4 DEF Scanned
    <3>. QED
      BY <1>2, <3>1, <3>2, <3>3, <3>4, <3>5
  <2>2. /\ batch.first \in waiting
        /\ \A s \in waiting : batch.first <= s
    BY <1>3, <1>5, <2>1 DEF Scanned
  <2>3. waiting \in SUBSET Nat
    BY <1>4
  <2>. QED
    BY <2>1, <2>2, <2>3, OldestIs
<1>8. BatchIsContiguous
  BY <1>6 DEF BatchIsContiguous, IsRun
<1>9. ReadServesOldest
  BY <1>7 DEF ReadServesOldest
<1>. QED
  BY <1>8, <1>9 DEF BatchIsRight

-----------------------------------------------------------------------------
(* The theorems                                                            *)

\* A step keeps the three invariants together.
LEMMA DurableTogether ==
  ASSUME IndexIsCurrent, Stream # "Data"
  PROVE  Types /\ Positions /\ Durable /\ TableHasRoom /\ [Next]_vars =>
           Types' /\ Positions' /\ Durable'
  BY TypesNext, PositionsNext, DurableNext

\* Over resets, repairs, failing writes and reclaims, every record that reached the flash is
\* kept, confirmed or told lost, and nothing that is kept is told lost (JournalCursor.h,
\* Journal.cpp:478-531), when the index is current and the events that tell are not lost.
THEOREM LossIsToldHolds ==
  ASSUME IndexIsCurrent, ~GapEventsCanBeLost, Stream # "Data"
  PROVE  Spec /\ []TableHasRoom => []LossIsTold
<1>. DEFINE Inv == Types /\ Positions /\ Durable /\ Told
<1>1. Init => Inv
  BY TypesInit, PositionsInit, DurableInit DEF Told, Init
<1>2. Inv /\ TableHasRoom /\ [Next]_vars => Inv'
  BY DurableTogether, ToldNext
<1>3. Inv => LossIsTold
  BY ToldIsEnough
<1>. QED
  BY <1>1, <1>2, <1>3, PTL DEF Spec

\* Nothing is confirmed that was never written, so a stream never looks empty until nextSeq
\* has caught up with the cursor (JournalCursor.h).
THEOREM AckedIsWrittenHolds ==
  ASSUME IndexIsCurrent, Stream # "Data"
  PROVE  Spec /\ []TableHasRoom => []AckedIsWritten
<1>. DEFINE Inv == Types /\ Positions /\ Durable
<1>1. Init => Inv
  BY TypesInit, PositionsInit, DurableInit
<1>2. Inv /\ TableHasRoom /\ [Next]_vars => Inv'
  BY DurableTogether
<1>3. Inv => AckedIsWritten
  <2>. SUFFICES ASSUME Inv, pc = "ready" PROVE acked < nextSeq
    BY DEF AckedIsWritten
  <2>1. TableNow = segs /\ AckedNow = acked
    BY DEF TableNow, AckedNow
  <2>2. nextSeq = End(segs, files, OpenId(segs))
    BY DEF Positions, Placed, End, CompleteFrames
  <2>. QED
    BY <2>1, <2>2, LogNumbers
<1>. QED
  BY <1>1, <1>2, <1>3, PTL DEF Spec

\* What the uplink reads is a run without holes from the oldest record that the server has not
\* confirmed, whatever was reclaimed, cut off or left half acknowledged (Journal.cpp:635-744), in
\* a stream of Logs or Events whose index is current.
THEOREM BatchIsRightHolds ==
  ASSUME IndexIsCurrent, Stream # "Data"
  PROVE  Spec /\ []TableHasRoom => []BatchIsRight
<1>. DEFINE Inv == Types /\ Positions /\ Durable /\ Counted
<1>1. Init => Inv
  BY TypesInit, PositionsInit, DurableInit, CountedInit
<1>2. Inv /\ TableHasRoom /\ [Next]_vars => Inv'
  BY DurableTogether, CountedNext
<1>3. Inv => BatchIsRight
  BY BatchFollows
<1>. QED
  BY <1>1, <1>2, <1>3, PTL DEF Spec

\* Segments, table, index file and recovery at boot (Journal.cpp:183-521) are one log of
\* consecutive records: a reset takes only its end that is not synced, space pressure only
\* its beginning, and a boot or a rotation nothing.
THEOREM ImplementsLogHolds ==
  ASSUME IndexIsCurrent, Stream # "Data"
  PROVE  Spec /\ []TableHasRoom => ImplementsLog
<1>. DEFINE Inv == Types /\ Positions /\ Durable
<1>1. Init => Inv /\ Log!Init
  BY TypesInit, PositionsInit, DurableInit, LogInit
<1>2. Inv /\ TableHasRoom /\ [Next]_vars => Inv'
  BY DurableTogether
<1>3. Inv /\ Inv' /\ TableHasRoom /\ [Next]_vars => [Log!Next]_LogNow
  BY LogNext
<1>. QED
  BY <1>1, <1>2, <1>3, PTL DEF Spec, ImplementsLog, Log!Spec
=============================================================================
