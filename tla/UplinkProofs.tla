---------------------------- MODULE UplinkProofs ----------------------------
(***************************************************************************)
(* Uplink for any set of streams, any batch limit, any number of attempts, *)
(* records and resets: ConfirmedIsStored, ServerHasNoHoles, that each      *)
(* stream's journal is a DurableLog, and the types.                        *)
(*                                                                         *)
(* The inductive invariant is Settlement (Uplink.tla): every batch,        *)
(* wherever it is, and every acknowledgement stand on records whose fate   *)
(* is settled, and what is settled stays so (Grows).  The refinement needs *)
(* TellsOfSynced besides, and the types HasAttemptsLeft.                   *)
(***************************************************************************)
EXTENDS UplinkRefinement, SequenceTheorems, TLAPS

\* What no step takes back: rows, told gaps, and the records below the synced end.
Grows ==
  /\ stored \subseteq stored'
  /\ \A s \in Streams :
       /\ gaps[s] \subseteq gaps'[s]
       /\ journal[s].synced <= journal'[s].synced
       /\ \A k \in 1 .. journal[s].synced : written'[s][k] = written[s][k]

-----------------------------------------------------------------------------
(* What is settled stays settled                                           *)

\* A settled record stays settled while the log, the gaps and the server only grow.
LEMMA SettledPersists ==
  ASSUME Shape, Shape', Grows, NEW s \in Streams, NEW n \in Nat, Settled(s, n)
  PROVE  Settled(s, n)'
<1>1. journal[s].synced \in Nat /\ journal'[s].synced \in Nat
  BY DEF LogShape, Shape
<1>2. gaps[s] \subseteq gaps'[s] /\ journal[s].synced <= journal'[s].synced /\ stored \subseteq stored'
  BY DEF Grows
<1>3. CASE n \in gaps[s]
  BY <1>2, <1>3 DEF Settled
<1>4. CASE n < journal[s].synced /\ Stored(s, n)
  <2>1. n + 1 \in 1 .. journal[s].synced
    BY <1>1, <1>4
  <2>2. written'[s][n + 1] = written[s][n + 1]
    BY <2>1 DEF Grows
  <2>3. Stored(s, n)'
    BY <1>2, <1>4, <2>2 DEF Stored
  <2>4. n < journal'[s].synced
    BY <1>1, <1>2, <1>4
  <2> QED
    BY <2>3, <2>4 DEF Settled
<1> QED
  BY <1>3, <1>4 DEF Settled

\* So do all the records below a number.
LEMMA SettledBelowPersists ==
  ASSUME Shape, Shape', Grows, NEW s \in Streams, NEW n \in Int, SettledBelow(s, n)
  PROVE  SettledBelow(s, n)'
<1> SUFFICES ASSUME NEW m \in 0 .. n - 1 PROVE Settled(s, m)'
  BY DEF SettledBelow
<1>1. m \in Nat
  OBVIOUS
<1>2. Settled(s, m)
  BY DEF SettledBelow
<1> QED
  BY <1>1, <1>2, SettledPersists

\* What is settled below a number is settled below a smaller one.
LEMMA SettledBelowLess ==
  ASSUME NEW s \in Streams, NEW n \in Int, NEW m \in Int, m <= n, SettledBelow(s, n)
  PROVE  SettledBelow(s, m)
BY DEF SettledBelow

\* A batch stays a batch.
LEMMA BatchPersists ==
  ASSUME Shape, Shape', Grows, NEW s \in Streams, NEW first, NEW frames, IsBatch(s, first, frames)
  PROVE  IsBatch(s, first, frames)'
<1>1. first \in Nat /\ frames \in Seq(Nat) /\ frames # <<>> /\ Len(frames) \in Nat
  BY LenProperties DEF IsBatch
<1>2. journal[s].synced \in Nat /\ journal'[s].synced \in Nat
  BY DEF LogShape, Shape
<1>3. journal[s].synced <= journal'[s].synced
  BY DEF Grows
<1>4. first + Len(frames) <= journal'[s].synced
  BY <1>1, <1>2, <1>3 DEF IsBatch
<1>5. ASSUME NEW k \in 1 .. Len(frames) PROVE frames[k] = written'[s][first + k]
  <2>1. first + k \in 1 .. journal[s].synced
    BY <1>1, <1>2 DEF IsBatch
  <2>2. written'[s][first + k] = written[s][first + k]
    BY <2>1 DEF Grows
  <2> QED
    BY <2>2 DEF IsBatch
<1>6. SettledBelow(s, first)'
  <2>1. first \in Int
    BY <1>1
  <2>2. SettledBelow(s, first)
    BY DEF IsBatch
  <2> QED
    BY <2>1, <2>2, SettledBelowPersists
<1> QED
  BY <1>1, <1>4, <1>5, <1>6 DEF IsBatch

\* Settlement after a step, from what the step adds.
LEMMA StepSettles ==
  ASSUME Settlement, Shape', Grows,
         \A s \in Streams : LogSettled(s)' /\ SlotSettled(s)',
         \A m \in uplinks' : m \in uplinks \/ UplinkSettled(m)',
         \A a \in acks' : a \in acks \/ AckSettled(a)',
         \A row \in stored' : row \in stored \/ RowSettled(row)'
  PROVE  Settlement'
<1> USE DEF Settlement
<1>1. ASSUME NEW m \in uplinks' PROVE UplinkSettled(m)'
  <2>1. CASE m \in uplinks
    <3>1. m.stream \in Streams /\ IsBatch(m.stream, m.first, m.frames)
      BY <2>1 DEF UplinkSettled
    <3> QED
      BY <3>1, BatchPersists DEF UplinkSettled
  <2> QED
    BY <2>1
<1>2. ASSUME NEW a \in acks' PROVE AckSettled(a)'
  <2>1. CASE a \in acks
    <3>1. a.stream \in Streams /\ a.upTo \in Nat /\ SettledBelow(a.stream, a.upTo + 1)
      BY <2>1 DEF AckSettled
    <3>2. a.upTo + 1 \in Int
      BY <3>1
    <3>3. SettledBelow(a.stream, a.upTo + 1)'
      BY <3>1, <3>2, SettledBelowPersists
    <3> QED
      BY <3>1, <3>3 DEF AckSettled
  <2> QED
    BY <2>1
<1>3. ASSUME NEW row \in stored' PROVE RowSettled(row)'
  <2>1. CASE row \in stored
    <3>1. row.stream \in Streams /\ row.seq \in Nat /\ SettledBelow(row.stream, row.seq)
      BY <2>1 DEF RowSettled
    <3>2. row.seq \in Int
      BY <3>1
    <3>3. SettledBelow(row.stream, row.seq)'
      BY <3>1, <3>2, SettledBelowPersists
    <3> QED
      BY <3>1, <3>3 DEF RowSettled
  <2> QED
    BY <2>1
<1> QED
  BY <1>1, <1>2, <1>3

\* A log whose cursor and oldest record do not move stays settled.
LEMMA LogPersists ==
  ASSUME Shape, Shape', Grows, NEW s \in Streams, LogSettled(s),
         Len(written'[s]) = journal'[s].next,
         journal'[s].synced <= journal'[s].next,
         journal'[s].acked = journal[s].acked,
         journal'[s].oldest = journal[s].oldest
  PROVE  LogSettled(s)'
<1>1. journal[s].acked + 1 \in Int /\ journal[s].oldest \in Int
  BY DEF LogShape, Shape
<1>2. SettledBelow(s, journal[s].acked + 1)' /\ SettledBelow(s, journal[s].oldest)'
  <2>1. SettledBelow(s, journal[s].acked + 1) /\ SettledBelow(s, journal[s].oldest)
    BY DEF LogSettled
  <2>2. \A n \in Int : SettledBelow(s, n) => SettledBelow(s, n)'
    BY SettledBelowPersists
  <2>3. \A n : (n = journal[s].acked + 1 => n = journal'[s].acked + 1) /\ (n = journal[s].oldest => n = journal'[s].oldest)
    OBVIOUS
  <2> QED
    BY <1>1, <2>1, <2>2, <2>3 DEF SettledBelow
<1> QED
  BY <1>2 DEF LogSettled

\* A batch in its slot stays settled there.
LEMMA SlotPersists ==
  ASSUME Shape, Shape', Grows, NEW s \in Streams, SlotSettled(s),
         slot'[s].first = slot[s].first,
         slot'[s].frames = slot[s].frames,
         slot'[s].active \/ (pc' = "send" /\ picked' = s) =>
           slot[s].active \/ (pc = "send" /\ picked = s)
  PROVE  SlotSettled(s)'
<1> SUFFICES ASSUME slot'[s].active \/ (pc' = "send" /\ picked' = s) PROVE SlotSettled(s)'
  BY DEF SlotSettled
<1>1. PICK first, frames : first = slot[s].first /\ frames = slot[s].frames
  OBVIOUS
<1>2. IsBatch(s, first, frames)
  BY <1>1 DEF SlotSettled
<1>3. IsBatch(s, first, frames)'
  BY <1>2, BatchPersists
<1>4. first = slot'[s].first /\ frames = slot'[s].frames
  BY <1>1
<1> QED
  BY <1>3, <1>4 DEF SlotSettled, IsBatch, SettledBelow

\* A step of the task or of time alone, which leaves the logs and the server as they are.
LEMMA LogsUntouched ==
  ASSUME Settlement, Shape', UNCHANGED <<journal, written, gaps, stored, acks>>,
         \A s \in Streams : SlotSettled(s)',
         \A m \in uplinks' : m \in uplinks \/ UplinkSettled(m)'
  PROVE  Settlement'
<1>1. Grows
  BY DEF Grows, Settlement, LogShape, Shape
<1>2. ASSUME NEW s \in Streams PROVE LogSettled(s)'
  BY LogPersists, <1>1 DEF Settlement, LogSettled
<1> QED
  BY <1>1, <1>2, StepSettles

-----------------------------------------------------------------------------
(* Initially                                                               *)

\* Nothing is written, so nothing is to settle.
LEMMA InitSettles == Init => Settlement
<1> SUFFICES ASSUME Init PROVE Settlement
  OBVIOUS
<1>1. Shape
  BY DEF Init, Shape, FreshLog, EmptySlot, LogShape, SlotShape
<1>2. ASSUME NEW s \in Streams PROVE LogSettled(s) /\ SlotSettled(s)
  <2>1. journal[s] = FreshLog /\ written[s] = <<>> /\ ~slot[s].active /\ pc = "idle"
    BY DEF Init, EmptySlot
  <2>2. Len(written[s]) = 0
    BY <2>1
  <2>3. SettledBelow(s, 0)
    BY DEF SettledBelow
  <2>4. journal[s].next = 0 /\ journal[s].synced = 0 /\ journal[s].oldest = 0 /\ journal[s].acked + 1 = 0
        /\ journal[s].acked >= -1
    BY <2>1 DEF FreshLog
  <2>5. LogSettled(s)
    BY <2>2, <2>3, <2>4 DEF LogSettled
  <2> QED
    BY <2>1, <2>5 DEF SlotSettled
<1> QED
  BY <1>1, <1>2 DEF Settlement, Init

-----------------------------------------------------------------------------
(* The journal                                                             *)

\* A new record has the next number: nothing settled moves.
LEMMA AppendedSettles ==
  ASSUME Settlement, NEW s \in Streams, Appended(s)
  PROVE  Settlement'
<1> USE DEF Settlement
<1>0. \A r \in Streams : journal[r] \in LogShape
  BY DEF Shape
<1>1. journal[s].next \in Nat /\ journal[s].synced \in Nat /\ Len(written[s]) = journal[s].next
      /\ written[s] \in Seq(Nat) /\ journal[s].synced <= journal[s].next
  BY DEF LogShape, Shape, LogSettled
<1>2. Append(written[s], boot) \in Seq(Nat) /\ Len(Append(written[s], boot)) = journal[s].next + 1
      /\ \A k \in 1 .. journal[s].next : Append(written[s], boot)[k] = written[s][k]
  BY <1>1, AppendProperties DEF Shape
<1>3. Shape'
  <2>1. journal' \in [Streams -> LogShape]
    <3>1. [journal[s] EXCEPT !.next = @ + 1] \in LogShape
      BY <1>0 DEF LogShape
    <3> QED
      BY <3>1 DEF Appended, Shape
  <2>2. written' \in [Streams -> Seq(Nat)]
    BY <1>2 DEF Appended, Shape
  <2> QED
    BY <2>1, <2>2 DEF Appended, Shape, taskVars
<1>4. \A r \in Streams \ {s} : journal'[r] = journal[r] /\ written'[r] = written[r]
  BY DEF Appended, Shape
<1>5. written'[s] = Append(written[s], boot) /\ journal'[s] = [journal[s] EXCEPT !.next = @ + 1]
  BY DEF Appended, Shape
<1>6. Grows
  <2>1. \A k \in 1 .. journal[s].synced : written'[s][k] = written[s][k]
    BY <1>1, <1>2, <1>5
  <2>2. journal'[s].synced = journal[s].synced
    BY <1>5 DEF Shape
  <2>3. \A r \in Streams : journal[r].synced \in Nat
    BY DEF LogShape, Shape
  <2>4. \A r \in Streams : journal[r].synced <= journal'[r].synced
    BY <1>4, <2>2, <2>3
  <2> QED
    BY <1>4, <2>1, <2>4 DEF Grows, Appended, netVars
<1>7. ASSUME NEW r \in Streams PROVE LogSettled(r)' /\ SlotSettled(r)'
  <2>1. journal'[r].acked = journal[r].acked /\ journal'[r].oldest = journal[r].oldest
        /\ journal'[r].synced = journal[r].synced
    BY <1>0, <1>4, <1>5 DEF LogShape
  <2>2. Len(written'[r]) = journal'[r].next /\ journal'[r].synced <= journal'[r].next
    <3>1. CASE r = s
      BY <3>1, <1>1, <1>2, <1>5
    <3>2. CASE r # s
      BY <3>2, <1>4 DEF LogSettled
    <3> QED
      BY <3>1, <3>2
  <2>3. LogSettled(r)'
    BY <1>3, <1>6, <2>1, <2>2, LogPersists
  <2> QED
    BY <1>3, <1>6, <2>3, SlotPersists DEF Appended, taskVars
<1> QED
  BY <1>3, <1>6, <1>7, StepSettles DEF Appended, netVars

\* What space pressure deletes was confirmed, or is told as a gap.
LEMMA ReclaimedSettles ==
  ASSUME Settlement, NEW s \in Streams, Reclaimed(s)
  PROVE  Settlement'
<1> USE DEF Settlement
<1>1. PICK oldest \in journal[s].oldest + 1 .. journal[s].synced :
        /\ journal' = [journal EXCEPT ![s].oldest = oldest]
        /\ gaps' = [gaps EXCEPT ![s] =
                      @ \cup {n \in journal[s].oldest .. oldest - 1 : n > journal[s].acked}]
  BY DEF Reclaimed
<1>0. \A r \in Streams : journal[r] \in LogShape
  BY DEF Shape
<1>2. journal[s].oldest \in Nat /\ journal[s].synced \in Nat /\ journal[s].acked \in Int
  BY DEF LogShape, Shape
<1>3. oldest \in Nat
  BY <1>2
<1>4. Shape'
  <2>1. {n \in journal[s].oldest .. oldest - 1 : n > journal[s].acked} \subseteq Nat
    BY <1>2
  <2>2. gaps' \in [Streams -> SUBSET Nat]
    BY <1>1, <2>1 DEF Shape
  <2>3. journal' \in [Streams -> LogShape]
    BY <1>1, <1>3 DEF Shape, LogShape
  <2> QED
    BY <2>2, <2>3 DEF Reclaimed, Shape, taskVars
<1>5. \A r \in Streams \ {s} : journal'[r] = journal[r] /\ gaps'[r] = gaps[r]
  BY <1>1 DEF Shape
<1>6. journal'[s] = [journal[s] EXCEPT !.oldest = oldest]
      /\ gaps'[s] = gaps[s] \cup {n \in journal[s].oldest .. oldest - 1 : n > journal[s].acked}
  BY <1>1 DEF Shape
<1>7. \A r \in Streams : /\ journal'[r].synced = journal[r].synced
                         /\ journal'[r].next = journal[r].next
                         /\ journal'[r].acked = journal[r].acked
  BY <1>0, <1>5, <1>6 DEF LogShape
<1>8. Grows
  <2>1. \A r \in Streams : journal[r].synced <= journal'[r].synced
    BY <1>7 DEF LogShape, Shape
  <2> QED
    BY <1>5, <1>6, <2>1 DEF Grows, Reclaimed, netVars
<1>9. ASSUME NEW r \in Streams PROVE LogSettled(r)' /\ SlotSettled(r)'
  <2>1. CASE r # s
    <3>1. journal'[r].oldest = journal[r].oldest
      BY <1>5, <2>1
    <3>2. Len(written'[r]) = journal'[r].next /\ journal'[r].synced <= journal'[r].next
      BY <1>7 DEF Reclaimed, LogSettled
    <3> QED
      BY <1>4, <1>7, <1>8, <3>1, <3>2, LogPersists, SlotPersists DEF Reclaimed, taskVars
  <2>2. CASE r = s
    <3>1. SettledBelow(s, journal[s].acked + 1)'
      <4>1. journal[s].acked + 1 \in Int
        BY <1>2
      <4>2. \A n \in Int : SettledBelow(s, n) => SettledBelow(s, n)'
        BY <1>4, <1>8, SettledBelowPersists
      <4> QED
        BY <1>7, <4>1, <4>2 DEF LogSettled, SettledBelow
    <3>2. SettledBelow(s, oldest)'
      <4> SUFFICES ASSUME NEW n \in 0 .. oldest - 1 PROVE Settled(s, n)'
        BY <1>3 DEF SettledBelow
      <4>1. CASE n < journal[s].oldest
        <5>1. Settled(s, n)
          BY <1>2, <4>1 DEF LogSettled, SettledBelow
        <5> QED
          BY <1>4, <1>8, <5>1, SettledPersists
      <4>2. CASE n >= journal[s].oldest /\ n <= journal[s].acked
        <5>1. Settled(s, n)
          BY <1>2, <4>2 DEF LogSettled, SettledBelow
        <5> QED
          BY <1>4, <1>8, <5>1, SettledPersists
      <4>3. CASE n >= journal[s].oldest /\ n > journal[s].acked
        BY <1>3, <1>6, <4>3 DEF Settled
      <4> QED
        BY <1>2, <4>1, <4>2, <4>3
    <3>3. journal'[s].oldest = oldest
      BY <1>0, <1>6 DEF LogShape
    <3>4. SettledBelow(s, journal[s].oldest)'
      BY <3>2, <3>3 DEF SettledBelow
    <3>5. LogSettled(s)'
      BY <1>7, <3>1, <3>4 DEF LogSettled, Reclaimed
    <3> QED
      BY <1>4, <1>8, <2>2, <3>5, SlotPersists DEF Reclaimed, taskVars
  <2> QED
    BY <2>1, <2>2
<1> QED
  BY <1>4, <1>8, <1>9, StepSettles DEF Reclaimed, netVars

-----------------------------------------------------------------------------
(* The croniot_uplink task                                                 *)

\* pickNext() names a stream that is mounted, or none.
LEMMA PicksMounted == PickNext(Backlogs) \in Streams \cup {NoStream}
<1>1. \A S \in SUBSET AllStreams : First(S) \in S \cup {NoStream}
  BY DEF First, AllStreams, NoStream
<1>2. DOMAIN Backlogs = Streams
  BY DEF Backlogs
<1>3. /\ RetryDue(Backlogs) \subseteq Streams
      /\ Ready(Backlogs) \subseteq Streams
      /\ Overdue(Backlogs) \subseteq Streams
  BY <1>2 DEF RetryDue, Ready, Overdue
<1>4. First(RetryDue(Backlogs)) \in Streams \cup {NoStream}
      /\ First(Ready(Backlogs)) \in Streams \cup {NoStream}
  BY <1>1, <1>3, UplinkAssumption
<1> QED
  BY <1>3, <1>4 DEF PickNext

\* Choosing a stream touches no batch.
LEMMA PickSettles ==
  ASSUME Settlement, Pick \/ NothingToDo
  PROVE  Settlement'
<1> USE DEF Settlement
<1>1. UNCHANGED <<slot, boot, journal, written, gaps, uplinks, acks, stored>>
      /\ pc' \in {"idle", "picked"}
      /\ (pc' = "picked" => picked' \in Streams)
  BY PicksMounted DEF Pick, NothingToDo, deviceVars, netVars
<1>2. Shape'
  BY <1>1 DEF Shape
<1>3. Grows
  BY <1>1 DEF Grows, Shape, LogShape
<1>4. \A s \in Streams : SlotSettled(s)'
  BY <1>1, <1>2, <1>3, SlotPersists
<1> QED
  BY <1>1, <1>2, <1>4, LogsUntouched

\* A batch is sent again as it is, or given up.
LEMMA RetrySettles ==
  ASSUME Settlement, Retry
  PROVE  Settlement'
<1> USE DEF Settlement
<1>0. picked \in Streams /\ slot[picked] \in SlotShape
  BY DEF Retry, Shape
<1>1. UNCHANGED <<picked, boot, journal, written, gaps, uplinks, acks, stored>>
  BY DEF Retry, deviceVars, netVars
<1>2. /\ pc' \in {"idle", "send"}
      /\ pc' = "send" => slot[picked].active
      /\ slot' \in [Streams -> SlotShape]
      /\ \A s \in Streams : /\ slot'[s].first = slot[s].first
                            /\ slot'[s].frames = slot[s].frames
                            /\ slot'[s].active => slot[s].active
  <2>1. CASE pc' = "idle" /\ UNCHANGED slot
    BY <2>1 DEF Shape
  <2>2. CASE pc' = "idle" /\ slot' = [slot EXCEPT ![picked].attempt = @ + 1, ![picked].active = FALSE]
    <3>1. [slot[picked] EXCEPT !.attempt = @ + 1, !.active = FALSE] \in SlotShape
      <4>1. [slot[picked] EXCEPT !.attempt = @ + 1] \in SlotShape
        BY <1>0 DEF SlotShape
      <4>2. \A r \in SlotShape : [r EXCEPT !.active = FALSE] \in SlotShape
        BY DEF SlotShape
      <4> QED
        BY <4>1, <4>2
    <3>2. slot' = [slot EXCEPT ![picked] = [slot[picked] EXCEPT !.attempt = @ + 1, !.active = FALSE]]
      BY <2>2
    <3> QED
      BY <1>0, <2>2, <3>1, <3>2 DEF Shape, SlotShape
  <2>3. CASE pc' = "send" /\ slot' = [slot EXCEPT ![picked].attempt = @ + 1]
    <3>1. [slot[picked] EXCEPT !.attempt = @ + 1] \in SlotShape
      BY <1>0 DEF SlotShape
    <3>2. slot' = [slot EXCEPT ![picked] = [slot[picked] EXCEPT !.attempt = @ + 1]]
      BY <2>3
    <3> QED
      BY <1>0, <2>3, <3>1, <3>2 DEF Shape, SlotShape, Retry
  <2> QED
    BY <2>1, <2>2, <2>3 DEF Retry
<1>3. Shape'
  BY <1>0, <1>1, <1>2 DEF Shape
<1>4. Grows
  BY <1>1 DEF Grows, Shape, LogShape
<1>5. \A s \in Streams : SlotSettled(s)'
  BY <1>1, <1>2, <1>3, <1>4, SlotPersists
<1> QED
  BY <1>1, <1>3, <1>5, LogsUntouched

\* A batch goes out, or does not.
LEMMA SendSettles ==
  ASSUME Settlement, Send
  PROVE  Settlement'
<1> USE DEF Settlement
<1>0. picked \in Streams /\ slot[picked] \in SlotShape
  BY DEF Send, Shape
<1>1. UNCHANGED <<boot, journal, written, gaps, acks, stored>> /\ pc' = "idle"
  BY DEF Send, deviceVars
<1>2. /\ slot' \in [Streams -> SlotShape]
      /\ \A s \in Streams : /\ slot'[s].first = slot[s].first
                            /\ slot'[s].frames = slot[s].frames
                            /\ slot'[s].active = slot[s].active
  BY <1>0 DEF Send, Shape, SlotShape
<1>3. Shape'
  BY <1>1, <1>2 DEF Shape
<1>4. Grows
  BY <1>1 DEF Grows, Shape, LogShape
<1>5. \A s \in Streams : SlotSettled(s)'
  BY <1>1, <1>2, <1>3, <1>4, SlotPersists
<1>6. ASSUME NEW m, m = Envelope(picked) PROVE UplinkSettled(m)'
  <2>1. m.stream = picked /\ m.first = slot[picked].first /\ m.frames = slot[picked].frames
    BY <1>6 DEF Envelope
  <2>2. IsBatch(m.stream, m.first, m.frames)
    BY <1>0, <2>1 DEF SlotSettled, Send
  <2>3. IsBatch(m.stream, m.first, m.frames)'
    BY <1>0, <1>3, <1>4, <2>1, <2>2, BatchPersists
  <2> QED
    BY <1>0, <2>1, <2>3 DEF UplinkSettled
<1> QED
  <2>1. \A m \in uplinks' : m \in uplinks \/ UplinkSettled(m)'
    BY <1>6 DEF Send, Publish
  <2> QED
    BY <1>1, <1>3, <1>5, <2>1, LogsUntouched

\* What readFrom() returns from the first record that is not acknowledged is a batch, once
\* reading it has synced the file.
LEMMA ReadIsBatch ==
  ASSUME Shape, NEW s \in Streams, LogSettled(s), ReadFrames(s, FetchFrom(s)) # <<>>
  PROVE  /\ ReadStart(s, FetchFrom(s)) \in Nat
         /\ ReadFrames(s, FetchFrom(s)) \in Seq(Nat)
         /\ \A synced \in ReadSynced(s, FetchFrom(s)) :
              /\ synced \in journal[s].synced .. journal[s].next
              /\ ReadStart(s, FetchFrom(s)) + Len(ReadFrames(s, FetchFrom(s))) <= synced
         /\ \A k \in 1 .. Len(ReadFrames(s, FetchFrom(s))) :
              ReadFrames(s, FetchFrom(s))[k] = written[s][ReadStart(s, FetchFrom(s)) + k]
         /\ SettledBelow(s, ReadStart(s, FetchFrom(s)))
<1> DEFINE from == FetchFrom(s)
           start == ReadStart(s, from)
           end == ReadEnd(s, from)
           frames == ReadFrames(s, from)
<1>1. /\ journal[s].oldest \in Nat
      /\ journal[s].next \in Nat
      /\ journal[s].synced \in Nat
      /\ journal[s].acked \in Int
      /\ journal[s].acked >= -1
      /\ journal[s].synced <= journal[s].next
      /\ written[s] \in Seq(Nat)
      /\ Len(written[s]) = journal[s].next
  BY DEF LogShape, Shape, LogSettled
<1>2. from = journal[s].acked + 1
  BY DEF FetchFrom, FirstUnacked
<1>3. start \in Nat /\ (start = from \/ start = journal[s].oldest)
  BY <1>1, <1>2 DEF ReadStart
<1>4. end \in Int /\ end <= journal[s].next
  <2>1. start + BatchLimit \in Int
    BY <1>3, UplinkAssumption
  <2> QED
    BY <1>1, <2>1 DEF ReadEnd
<1>5. frames = SubSeq(written[s], start + 1, end)
  BY DEF ReadFrames
<1> HIDE DEF from, start, end, frames
<1>6. start < end
  <2> SUFFICES ASSUME start >= end PROVE FALSE
    BY <1>3, <1>4
  <2>1. frames = <<>>
    <3>1. start + 1 > end
      BY <1>3, <1>4
    <3> QED
      BY <1>1, <1>3, <1>4, <1>5, <3>1, SubSeqEmpty
  <2> QED
    BY <2>1 DEF frames, from
<1>7. /\ frames \in Seq(Nat)
      /\ Len(frames) = end - start
      /\ \A k \in 1 .. end - start : frames[k] = written[s][start + k]
  <2>1. start + 1 \in 1 .. end + 1 /\ end \in start + 1 - 1 .. Len(written[s])
    BY <1>1, <1>3, <1>4, <1>6
  <2>2. /\ SubSeq(written[s], start + 1, end) \in Seq(Nat)
        /\ Len(SubSeq(written[s], start + 1, end)) = end - (start + 1) + 1
        /\ \A k \in 1 .. end - (start + 1) + 1 :
             SubSeq(written[s], start + 1, end)[k] = written[s][start + 1 + k - 1]
    BY SMTT(30), <1>1, <1>3, <1>4, <1>6, SubSeqProperties
  <2> QED
    BY <1>3, <1>4, <1>5, <2>2
<1>8. ASSUME NEW synced \in ReadSynced(s, from)
      PROVE  synced \in journal[s].synced .. journal[s].next /\ end <= synced
  BY <1>1, <1>4, <1>8 DEF ReadSynced, end
<1>9. SettledBelow(s, start)
  BY <1>2, <1>3 DEF LogSettled
<1> QED
  <2>1. start + Len(frames) = end
    BY <1>3, <1>4, <1>7
  <2> QED
    BY <1>3, <1>7, <1>8, <1>9, <2>1 DEF from, start, frames

\* A new batch comes from the synced part of the journal and starts where nothing is owed.
LEMMA FetchSettles ==
  ASSUME Settlement, Fetch
  PROVE  Settlement'
<1> USE DEF Settlement
<1> DEFINE s == picked
           start == ReadStart(s, FetchFrom(s))
           frames == ReadFrames(s, FetchFrom(s))
<1>0. s \in Streams /\ slot[s] \in SlotShape /\ \A r \in Streams : journal[r] \in LogShape
  BY DEF Fetch, Shape
<1>1. CASE frames = <<>>
  <2>1. UNCHANGED <<boot, journal, written, gaps, slot, uplinks, acks, stored>> /\ pc' = "idle"
    BY <1>1 DEF Fetch, netVars
  <2>2. Shape'
    BY <2>1 DEF Shape
  <2>3. Grows
    BY <2>1 DEF Grows, Shape, LogShape
  <2>4. \A r \in Streams : SlotSettled(r)'
    BY <2>1, <2>2, <2>3, SlotPersists
  <2> QED
    BY <2>1, <2>2, <2>4, LogsUntouched
<1>2. CASE frames # <<>>
  <2>1. PICK synced \in ReadSynced(s, FetchFrom(s)) :
          journal' = [journal EXCEPT ![s].synced = synced]
    BY <1>2 DEF Fetch
  <2>2. slot' = [slot EXCEPT ![s] = [active |-> TRUE, first |-> start, frames |-> frames,
                                     attempt |-> 1, due |-> @.due]]
        /\ pc' = "send"
        /\ UNCHANGED <<boot, written, gaps, picked, uplinks, acks, stored>>
    BY <1>2 DEF Fetch, netVars
  <2>3. /\ start \in Nat
        /\ frames \in Seq(Nat)
        /\ synced \in journal[s].synced .. journal[s].next
        /\ start + Len(frames) <= synced
        /\ \A k \in 1 .. Len(frames) : frames[k] = written[s][start + k]
        /\ SettledBelow(s, start)
    BY <1>0, <1>2, <2>1, ReadIsBatch
  <2> HIDE DEF s, start, frames
  <2>4. synced \in Nat /\ synced >= journal[s].synced /\ synced <= journal[s].next
    BY <1>0, <2>3 DEF LogShape
  <2>5. [journal[s] EXCEPT !.synced = synced] \in LogShape
        /\ [active |-> TRUE, first |-> start, frames |-> frames, attempt |-> 1,
            due |-> slot[s].due] \in SlotShape
    BY <1>0, <2>3, <2>4 DEF LogShape, SlotShape
  <2>6. Shape'
    <3>1. journal' \in [Streams -> LogShape]
      BY <1>0, <2>1, <2>5 DEF Shape
    <3>2. slot' \in [Streams -> SlotShape]
      BY <1>0, <2>2, <2>5 DEF Shape
    <3> QED
      BY <1>0, <2>2, <3>1, <3>2 DEF Shape, s
  <2>7. \A r \in Streams : /\ journal'[r].acked = journal[r].acked
                           /\ journal'[r].oldest = journal[r].oldest
                           /\ journal'[r].next = journal[r].next
                           /\ journal'[r].synced = IF r = s THEN synced ELSE journal[r].synced
    BY <1>0, <2>1 DEF Shape, LogShape
  <2>8. Grows
    <3>1. \A r \in Streams : journal[r].synced \in Nat
      BY <1>0 DEF LogShape
    <3>2. \A r \in Streams : journal[r].synced <= journal'[r].synced
      BY <2>4, <2>7, <3>1
    <3> QED
      BY <2>2, <3>2 DEF Grows
  <2>9. ASSUME NEW r \in Streams PROVE LogSettled(r)' /\ SlotSettled(r)'
    <3>1. Len(written'[r]) = journal'[r].next /\ journal'[r].synced <= journal'[r].next
      BY <2>2, <2>4, <2>7 DEF LogSettled
    <3>2. LogSettled(r)'
      BY <2>6, <2>7, <2>8, <3>1, LogPersists
    <3>3. CASE r # s
      <4>1. slot'[r] = slot[r] /\ picked' # r
        BY <2>2, <3>3 DEF Shape, s
      <4>2. SlotSettled(r)'
        BY <2>6, <2>8, <4>1, SlotPersists
      <4> QED
        BY <3>2, <4>2
    <3>4. CASE r = s
      <4>1. PICK first, batch : first = start /\ batch = frames
        OBVIOUS
      <4>2. slot'[r].first = first /\ slot'[r].frames = batch
        BY <1>0, <2>2, <3>4, <4>1 DEF Shape
      <4>3. SettledBelow(r, first)'
        <5>1. SettledBelow(r, first) /\ first \in Int
          BY <2>3, <3>4, <4>1
        <5> QED
          BY <2>6, <2>8, <5>1, SettledBelowPersists
      <4>4. first + Len(batch) <= journal'[r].synced
        BY <2>3, <2>7, <3>4, <4>1
      <4>5. \A k \in 1 .. Len(batch) : batch[k] = written'[r][first + k]
        BY <2>2, <2>3, <3>4, <4>1
      <4>6. IsBatch(r, first, batch)'
        <5>1. first \in Nat /\ batch \in Seq(Nat) /\ batch # <<>>
          BY <1>2, <2>3, <4>1 DEF frames, s
        <5> QED
          BY <4>3, <4>4, <4>5, <5>1 DEF IsBatch
      <4>7. SlotSettled(r)'
        BY <4>2, <4>6 DEF SlotSettled, IsBatch, SettledBelow
      <4> QED
        BY <3>2, <4>7
    <3> QED
      BY <3>3, <3>4
  <2> QED
    BY <2>2, <2>6, <2>8, <2>9, StepSettles
<1> QED
  BY <1>1, <1>2

\* Time falling due touches no batch.
LEMMA TimeSettles ==
  ASSUME Settlement, NEW s \in Streams, RetryFallsDue(s) \/ QuotaPasses(s)
  PROVE  Settlement'
<1> USE DEF Settlement
<1>0. slot[s] \in SlotShape
  BY DEF Shape
<1>1. UNCHANGED <<pc, picked, boot, journal, written, gaps, uplinks, acks, stored>>
  BY DEF RetryFallsDue, QuotaPasses, deviceVars, netVars
<1>2. /\ slot' \in [Streams -> SlotShape]
      /\ \A r \in Streams : /\ slot'[r].first = slot[r].first
                            /\ slot'[r].frames = slot[r].frames
                            /\ slot'[r].active = slot[r].active
  <2>1. CASE UNCHANGED slot
    BY <2>1 DEF Shape
  <2>2. CASE slot' = [slot EXCEPT ![s].due = TRUE]
    BY <1>0, <2>2 DEF Shape, SlotShape
  <2> QED
    BY <2>1, <2>2 DEF RetryFallsDue, QuotaPasses
<1>3. Shape'
  BY <1>1, <1>2 DEF Shape
<1>4. Grows
  BY <1>1 DEF Grows, Shape, LogShape
<1>5. \A r \in Streams : SlotSettled(r)'
  BY <1>1, <1>2, <1>3, <1>4, SlotPersists
<1> QED
  BY <1>1, <1>3, <1>5, LogsUntouched

-----------------------------------------------------------------------------
(* Acknowledgements, the network and the server                            *)

\* The cursor moves to what is settled, or not at all; a slot may come free.
LEMMA AckSettles ==
  ASSUME Settlement, NEW a \in acks, AckArrives(a)
  PROVE  Settlement'
<1> USE DEF Settlement
<1> DEFINE s == a.stream
           acked == AckedUpTo(journal[s], a.upTo)
<1>0. /\ s \in Streams
      /\ a.upTo \in Nat
      /\ SettledBelow(s, a.upTo + 1)
      /\ slot[s] \in SlotShape
      /\ \A r \in Streams : journal[r] \in LogShape
  BY DEF AckSettled, Shape
<1>1. acked \in Int /\ acked >= -1 /\ acked + 1 \in Nat /\ (acked <= a.upTo \/ acked = journal[s].acked)
  <2>1. journal[s].acked \in Int /\ journal[s].acked >= -1 /\ journal[s].next \in Nat
    BY <1>0 DEF LogSettled, LogShape
  <2> QED
    BY <1>0, <2>1 DEF AckedUpTo
<1>2. SettledBelow(s, acked + 1)
  <2>1. CASE acked = journal[s].acked
    BY <1>0, <2>1 DEF LogSettled
  <2>2. CASE acked <= a.upTo
    <3>1. acked + 1 \in Int /\ a.upTo + 1 \in Int /\ acked + 1 <= a.upTo + 1
      BY <1>0, <1>1, <2>2
    <3> HIDE DEF acked, s
    <3> QED
      BY <1>0, <3>1, SettledBelowLess
  <2> QED
    BY <1>1, <2>1, <2>2
<1>3. /\ journal' = [journal EXCEPT ![s].acked = acked]
      /\ slot' = [slot EXCEPT ![s].active = @ /\ a.upTo + 1 < slot[s].first]
      /\ acks' \subseteq acks
      /\ UNCHANGED <<boot, written, gaps, pc, picked, uplinks, stored>>
  BY DEF AckArrives, OnAck, Delivered
<1> HIDE DEF s, acked
<1>4. /\ slot' \in [Streams -> SlotShape]
      /\ \A r \in Streams : /\ slot'[r].first = slot[r].first
                            /\ slot'[r].frames = slot[r].frames
                            /\ slot'[r].active => slot[r].active
  <2>1. [slot[s] EXCEPT !.active = @ /\ a.upTo + 1 < slot[s].first] \in SlotShape
    BY <1>0 DEF SlotShape
  <2> QED
    BY <1>0, <1>3, <2>1 DEF Shape, SlotShape
<1>5. /\ journal' \in [Streams -> LogShape]
      /\ \A r \in Streams : /\ journal'[r].oldest = journal[r].oldest
                            /\ journal'[r].next = journal[r].next
                            /\ journal'[r].synced = journal[r].synced
                            /\ journal'[r].acked = IF r = s THEN acked ELSE journal[r].acked
  <2>1. [journal[s] EXCEPT !.acked = acked] \in LogShape
    BY <1>0, <1>1 DEF LogShape
  <2> QED
    BY <1>0, <1>3, <2>1 DEF Shape, LogShape
<1>6. Shape'
  BY <1>3, <1>4, <1>5 DEF Shape
<1>7. Grows
  <2>1. \A r \in Streams : journal[r].synced \in Nat
    BY <1>0 DEF LogShape
  <2> QED
    BY <1>3, <1>5, <2>1 DEF Grows
<1>8. ASSUME NEW r \in Streams PROVE LogSettled(r)' /\ SlotSettled(r)'
  <2>1. Len(written'[r]) = journal'[r].next /\ journal'[r].synced <= journal'[r].next
    BY <1>3, <1>5 DEF LogSettled
  <2>2. CASE r # s
    <3>1. LogSettled(r)'
      BY <1>5, <1>6, <1>7, <2>1, <2>2, LogPersists
    <3> QED
      BY <1>3, <1>4, <1>6, <1>7, <3>1, SlotPersists
  <2>3. CASE r = s
    <3>1. PICK n \in Int : n = acked + 1
      BY <1>1
    <3>2. SettledBelow(r, n)'
      BY <1>2, <1>6, <1>7, <2>3, <3>1, SettledBelowPersists
    <3>3. SettledBelow(r, journal[r].acked + 1)'
      <4>1. journal'[r].acked + 1 = n
        BY <1>5, <2>3, <3>1
      <4> QED
        BY <3>2, <4>1 DEF SettledBelow
    <3>4. SettledBelow(r, journal[r].oldest)'
      <4>1. PICK oldest \in Int : oldest = journal[r].oldest
        BY <1>0 DEF LogShape
      <4>2. SettledBelow(r, oldest)'
        BY <1>6, <1>7, <4>1, SettledBelowPersists DEF LogSettled
      <4>3. journal'[r].oldest = oldest
        BY <1>5, <4>1
      <4> QED
        BY <4>2, <4>3 DEF SettledBelow
    <3>5. LogSettled(r)'
      BY <1>1, <1>5, <2>1, <2>3, <3>3, <3>4 DEF LogSettled
    <3> QED
      BY <1>3, <1>4, <1>6, <1>7, <3>5, SlotPersists
  <2> QED
    BY <2>2, <2>3
<1> QED
  BY <1>3, <1>6, <1>7, <1>8, StepSettles

\* A committed batch settles its own records too.
LEMMA CommitSettles ==
  ASSUME Settlement, NEW m \in uplinks, ServerCommits(m)
  PROVE  Settlement'
<1> USE DEF Settlement
<1>0. m.stream \in Streams /\ IsBatch(m.stream, m.first, m.frames)
  BY DEF UplinkSettled
<1>1. /\ m.first \in Nat
      /\ m.frames \in Seq(Nat)
      /\ Len(m.frames) \in Nat
      /\ Len(m.frames) # 0
      /\ m.first + Len(m.frames) <= journal[m.stream].synced
  BY <1>0, LenProperties, EmptySeq DEF IsBatch
<1>2. UNCHANGED <<boot, journal, written, gaps, pc, picked, slot>> /\ stored' = stored \cup Rows(m)
      /\ acks' = acks \cup {[stream |-> m.stream, upTo |-> m.first + Len(m.frames) - 1]}
      /\ uplinks' \subseteq uplinks
  BY DEF ServerCommits, Delivered, deviceVars, taskVars
<1>3. Shape'
  BY <1>2 DEF Shape
<1>4. Grows
  BY <1>2 DEF Grows, Shape, LogShape
<1>5. ASSUME NEW n \in 0 .. m.first + Len(m.frames) - 1 PROVE Settled(m.stream, n)'
  <2>1. CASE n < m.first
    <3>1. Settled(m.stream, n)
      BY <1>0, <1>1, <2>1 DEF IsBatch, SettledBelow
    <3> QED
      BY <1>0, <1>1, <1>3, <1>4, <3>1, SettledPersists
  <2>2. CASE n >= m.first
    <3>1. PICK k \in 1 .. Len(m.frames) : n = m.first + k - 1
      <4>1. n - m.first + 1 \in 1 .. Len(m.frames) /\ n = m.first + (n - m.first + 1) - 1
        BY SMTT(30), <1>1, <2>2
      <4> QED
        BY <4>1
    <3>2. PICK row \in stored' : row.stream = m.stream /\ row.seq = n /\ row.writer = m.frames[k]
      <4> DEFINE r == [boot |-> m.boot, stream |-> m.stream, seq |-> m.first + k - 1, writer |-> m.frames[k]]
      <4>1. r \in stored'
        BY <1>2 DEF Rows
      <4>2. r.stream = m.stream /\ r.seq = n /\ r.writer = m.frames[k]
        BY <3>1
      <4> QED
        BY <4>1, <4>2
    <3>3. m.frames[k] = written'[m.stream][n + 1]
      <4>1. m.first + k = n + 1
        BY <1>1, <3>1
      <4> QED
        BY <1>0, <1>2, <4>1 DEF IsBatch
    <3>4. n < journal'[m.stream].synced
      <4>1. journal[m.stream].synced \in Nat
        BY <1>0 DEF Shape, LogShape
      <4> QED
        BY <1>1, <1>2, <4>1
    <3> QED
      BY <3>2, <3>3, <3>4 DEF Settled, Stored
  <2> QED
    BY <1>1, <2>1, <2>2
<1>6. ASSUME NEW row \in stored', row \notin stored PROVE RowSettled(row)'
  <2>1. PICK k \in 1 .. Len(m.frames) : row.stream = m.stream /\ row.seq = m.first + k - 1
    BY <1>2, <1>6 DEF Rows
  <2>2. row.seq \in Nat /\ \A n \in 0 .. row.seq - 1 : n \in 0 .. m.first + Len(m.frames) - 1
    BY SMTT(30), <1>1, <2>1
  <2> QED
    BY <1>0, <1>5, <2>1, <2>2 DEF RowSettled, SettledBelow
<1>7. ASSUME NEW a \in acks', a \notin acks PROVE AckSettled(a)'
  <2>1. a.stream = m.stream /\ a.upTo = m.first + Len(m.frames) - 1
    BY <1>2, <1>7
  <2>2. a.upTo \in Nat /\ \A n \in 0 .. a.upTo + 1 - 1 : n \in 0 .. m.first + Len(m.frames) - 1
    BY <1>1, <2>1
  <2> QED
    BY <1>0, <1>5, <2>1, <2>2 DEF AckSettled, SettledBelow
<1>8. ASSUME NEW s \in Streams PROVE LogSettled(s)' /\ SlotSettled(s)'
  BY <1>2, <1>3, <1>4, LogPersists, SlotPersists DEF LogSettled
<1> QED
  BY <1>2, <1>3, <1>4, <1>6, <1>7, <1>8, StepSettles

\* A lost message settles nothing and unsettles nothing.
LEMMA LoseSettles ==
  ASSUME Settlement, Lose
  PROVE  Settlement'
<1> USE DEF Settlement
<1>1. UNCHANGED <<boot, journal, written, gaps, pc, picked, slot, stored>>
      /\ uplinks' \subseteq uplinks /\ acks' \subseteq acks
  BY DEF Lose, deviceVars, taskVars
<1>2. Shape'
  BY <1>1 DEF Shape
<1>3. Grows
  BY <1>1 DEF Grows, Shape, LogShape
<1>4. ASSUME NEW s \in Streams PROVE LogSettled(s)' /\ SlotSettled(s)'
  BY <1>1, <1>2, <1>3, LogPersists, SlotPersists DEF LogSettled
<1> QED
  BY <1>1, <1>2, <1>3, <1>4, StepSettles

-----------------------------------------------------------------------------
(* Resets                                                                  *)

\* A reset takes only what is not synced, and no batch holds that.
LEMMA RebootSettles ==
  ASSUME Settlement, Reboot
  PROVE  Settlement'
<1> USE DEF Settlement
<1>0. \A s \in Streams : journal[s] \in LogShape /\ written[s] \in Seq(Nat) /\ LogSettled(s)
  BY DEF Shape
<1>1. PICK next \in [Streams -> 0 .. MaxSeq] :
        /\ \A s \in Streams : next[s] \in journal[s].synced .. journal[s].next
        /\ journal' = [s \in Streams |-> [journal[s] EXCEPT !.next = next[s], !.synced = next[s]]]
        /\ written' = [s \in Streams |-> SubSeq(written[s], 1, next[s])]
  BY DEF Reboot
<1>2. /\ boot' = boot + 1
      /\ pc' = "idle"
      /\ slot' = [s \in Streams |-> EmptySlot]
      /\ UNCHANGED <<gaps, uplinks, acks, stored>>
  BY DEF Reboot, netVars
<1>3. ASSUME NEW s \in Streams
      PROVE  /\ next[s] \in Nat
             /\ journal[s].synced \in Nat
             /\ journal[s].synced <= next[s]
             /\ written'[s] \in Seq(Nat)
             /\ Len(written'[s]) = next[s]
             /\ \A k \in 1 .. next[s] : written'[s][k] = written[s][k]
  <2>1. /\ next[s] \in Nat
        /\ journal[s].synced \in Nat
        /\ journal[s].synced <= next[s]
        /\ next[s] <= Len(written[s])
    <3>1. journal[s].synced \in Nat /\ journal[s].next \in Nat /\ Len(written[s]) = journal[s].next
      BY <1>0 DEF LogShape, LogSettled
    <3>2. next[s] \in journal[s].synced .. journal[s].next
      BY <1>1
    <3> QED
      BY <3>1, <3>2
  <2>2. \A i \in 1 .. next[s] : written[s][i] \in Nat
    BY <1>0, <2>1
  <2>3. /\ SubSeq(written[s], 1, next[s]) \in Seq(Nat)
        /\ Len(SubSeq(written[s], 1, next[s])) = next[s]
        /\ \A k \in 1 .. next[s] : SubSeq(written[s], 1, next[s])[k] = written[s][k]
    BY <2>1, <2>2, SubSeqProperties
  <2> QED
    BY <1>1, <2>1, <2>3
<1>4. ASSUME NEW s \in Streams
      PROVE  /\ journal'[s] \in LogShape
             /\ journal'[s].next = next[s]
             /\ journal'[s].synced = next[s]
             /\ journal'[s].acked = journal[s].acked
             /\ journal'[s].oldest = journal[s].oldest
  BY <1>0, <1>1, <1>3 DEF LogShape
<1>5. Shape'
  <2>1. journal' \in [Streams -> LogShape]
    BY <1>1, <1>4
  <2>2. written' \in [Streams -> Seq(Nat)]
    BY <1>1, <1>3
  <2>3. EmptySlot \in SlotShape
    BY DEF EmptySlot, SlotShape
  <2> QED
    BY <1>2, <2>1, <2>2, <2>3 DEF Shape
<1>6. Grows
  <2>1. ASSUME NEW s \in Streams
        PROVE  journal[s].synced <= journal'[s].synced
               /\ \A k \in 1 .. journal[s].synced : written'[s][k] = written[s][k]
    BY <1>3, <1>4
  <2> QED
    BY <1>2, <2>1 DEF Grows
<1>7. ASSUME NEW s \in Streams PROVE LogSettled(s)' /\ SlotSettled(s)'
  <2>1. LogSettled(s)'
    BY <1>0, <1>3, <1>4, <1>5, <1>6, LogPersists
  <2>2. ~slot'[s].active /\ pc' # "send"
    BY <1>2 DEF EmptySlot
  <2> QED
    BY <2>1, <2>2 DEF SlotSettled
<1> QED
  BY <1>2, <1>5, <1>6, <1>7, StepSettles

-----------------------------------------------------------------------------
(* The theorems                                                            *)

\* Whatever the order of the steps, every batch, acknowledgement and row stands on records
\* whose fate is settled.
THEOREM SettlementHolds == Spec => []Settlement
<1>1. Settlement /\ [Next]_vars => Settlement'
  <2> SUFFICES ASSUME Settlement, [Next]_vars PROVE Settlement'
    OBVIOUS
  <2>1. ASSUME NEW s \in Streams, Appended(s) PROVE Settlement'
    BY <2>1, AppendedSettles
  <2>2. ASSUME NEW s \in Streams, Reclaimed(s) PROVE Settlement'
    BY <2>2, ReclaimedSettles
  <2>3. ASSUME NEW s \in Streams, RetryFallsDue(s) \/ QuotaPasses(s) PROVE Settlement'
    BY <2>3, TimeSettles
  <2>4. CASE Pick \/ NothingToDo
    BY <2>4, PickSettles
  <2>5. CASE Retry
    BY <2>5, RetrySettles
  <2>6. CASE Fetch
    BY <2>6, FetchSettles
  <2>7. CASE Send
    BY <2>7, SendSettles
  <2>8. ASSUME NEW a \in acks, AckArrives(a) PROVE Settlement'
    BY <2>8, AckSettles
  <2>9. ASSUME NEW m \in uplinks, ServerCommits(m) PROVE Settlement'
    BY <2>9, CommitSettles
  <2>10. CASE Lose
    BY <2>10, LoseSettles
  <2>11. CASE Reboot
    BY <2>11, RebootSettles
  <2>12. CASE UNCHANGED vars
    <3>1. UNCHANGED <<boot, journal, written, gaps, pc, picked, slot, uplinks, acks, stored>>
      BY <2>12 DEF vars, deviceVars, taskVars, netVars
    <3>2. Shape'
      BY <3>1 DEF Settlement, Shape
    <3>3. Grows
      BY <3>1 DEF Settlement, Grows, Shape, LogShape
    <3>4. \A s \in Streams : SlotSettled(s)'
      BY <3>1, <3>2, <3>3, SlotPersists DEF Settlement
    <3> QED
      BY <3>1, <3>2, <3>4, LogsUntouched
  <2> QED
    BY <2>1, <2>2, <2>3, <2>4, <2>5, <2>6, <2>7, <2>8, <2>9, <2>10, <2>11, <2>12 DEF Next
<1> QED
  BY <1>1, InitSettles, PTL DEF Spec

\* What the device takes for confirmed, and may delete, is at the server or told as a gap.
THEOREM ConfirmedIsStoredHolds == Spec => []ConfirmedIsStored
<1>1. Settlement => ConfirmedIsStored
  <2> SUFFICES ASSUME Settlement, NEW s \in Streams, NEW n \in 0 .. journal[s].acked
               PROVE n \in gaps[s] \/ (n < journal[s].next /\ Stored(s, n))
    BY DEF ConfirmedIsStored
  <2>1. /\ journal[s].acked \in Int
        /\ journal[s].synced \in Nat
        /\ journal[s].next \in Nat
        /\ journal[s].synced <= journal[s].next
        /\ SettledBelow(s, journal[s].acked + 1)
    BY DEF Settlement, Shape, LogShape, LogSettled
  <2>2. n \in 0 .. journal[s].acked + 1 - 1
    BY <2>1
  <2>3. Settled(s, n)
    BY <2>1, <2>2 DEF SettledBelow
  <2> QED
    BY <2>1, <2>3 DEF Settled
<1> QED
  BY <1>1, SettlementHolds, PTL

\* The server's copy of a stream has no hole that a gap event does not tell of.
THEOREM ServerHasNoHolesHolds == Spec => []ServerHasNoHoles
<1>1. Settlement => ServerHasNoHoles
  <2> SUFFICES ASSUME Settlement, NEW row \in stored, NEW n \in 0 .. row.seq - 1
               PROVE n \in gaps[row.stream] \/ (n < journal[row.stream].next /\ Stored(row.stream, n))
    BY DEF ServerHasNoHoles
  <2>1. row.stream \in Streams /\ SettledBelow(row.stream, row.seq)
    BY DEF Settlement, RowSettled
  <2>2. /\ journal[row.stream].synced \in Nat
        /\ journal[row.stream].next \in Nat
        /\ journal[row.stream].synced <= journal[row.stream].next
    BY <2>1 DEF Settlement, Shape, LogShape, LogSettled
  <2>3. Settled(row.stream, n)
    BY <2>1 DEF SettledBelow
  <2>4. n \in Nat
    BY <2>1 DEF Settlement, RowSettled
  <2> QED
    BY <2>2, <2>3, <2>4 DEF Settled
<1> QED
  BY <1>1, SettlementHolds, PTL

-----------------------------------------------------------------------------
(* Each stream's journal is a DurableLog                                   *)

LogStep(s) == [Log(s)!Next]_(journal[s])

\* A step that leaves the journal alone is none of the log.
LEMMA JournalAlone ==
  ASSUME UNCHANGED journal, NEW s \in Streams
  PROVE  LogStep(s)
BY DEF LogStep

\* A record is appended to one log.
LEMMA AppendedKeepsLogs ==
  ASSUME Shape, NEW r \in Streams, Appended(r), NEW s \in Streams
  PROVE  LogStep(s)
<1>1. \/ journal'[s] = journal[s]
      \/ journal[s].next < MaxSeq /\ journal'[s] = [journal[s] EXCEPT !.next = @ + 1]
  BY DEF Appended, Shape
<1> QED
  BY <1>1 DEF LogStep, Log!Next, Log!Append, Log!Appended

\* Space pressure takes the beginning of one log, and only what is synced.
LEMMA ReclaimedKeepsLogs ==
  ASSUME Shape, NEW r \in Streams, Reclaimed(r), NEW s \in Streams
  PROVE  LogStep(s)
<1>1. PICK oldest \in journal[r].oldest + 1 .. journal[r].synced :
        journal' = [journal EXCEPT ![r].oldest = oldest]
  BY DEF Reclaimed
<1>2. journal[r].oldest \in Nat /\ journal[r].synced \in Nat
  BY DEF Shape, LogShape
<1>3. oldest \in journal[r].oldest .. journal[r].synced
  BY <1>1, <1>2
<1>4. CASE s = r
  <2>1. journal'[s] = [journal[s] EXCEPT !.oldest = oldest]
    BY <1>1, <1>4 DEF Shape
  <2> QED
    BY <1>3, <1>4, <2>1 DEF LogStep, Log!Next, Log!Reclaim, Log!ReclaimedTo
<1>5. CASE s # r
  BY <1>1, <1>5 DEF LogStep, Shape
<1> QED
  BY <1>4, <1>5

\* Reading may sync the whole log, and nothing less.
LEMMA FetchKeepsLogs ==
  ASSUME Shape, Fetch, NEW s \in Streams
  PROVE  LogStep(s)
<1>1. picked \in Streams
  BY DEF Fetch, Shape
<1>2. CASE journal' = journal
  BY <1>2, JournalAlone
<1>3. CASE journal' # journal
  <2>1. PICK synced \in ReadSynced(picked, FetchFrom(picked)) :
          journal' = [journal EXCEPT ![picked].synced = synced]
    BY <1>3 DEF Fetch
  <2>2. synced \in {journal[picked].synced, journal[picked].next}
    BY DEF ReadSynced
  <2>3. journal'[s] = journal[s] \/ journal'[s] = [journal[s] EXCEPT !.synced = synced]
    BY <1>1, <2>1 DEF Shape
  <2>4. CASE journal'[s] = journal[s]
    BY <2>4 DEF LogStep
  <2>5. CASE s # picked
    BY <1>1, <2>1, <2>5 DEF LogStep, Shape
  <2>6. CASE s = picked /\ synced = journal[s].next /\ journal'[s] = [journal[s] EXCEPT !.synced = synced]
    BY <2>6 DEF LogStep, Log!Next, Log!Sync, Log!SyncedAll
  <2>7. CASE s = picked /\ synced = journal[s].synced /\ journal'[s] = [journal[s] EXCEPT !.synced = synced]
    <3>1. journal[s] \in LogShape
      BY DEF Shape
    <3>2. journal'[s] = journal[s]
      BY <2>7, <3>1 DEF LogShape
    <3> QED
      BY <3>2 DEF LogStep
  <2> QED
    BY <2>2, <2>3, <2>4, <2>5, <2>6, <2>7
<1> QED
  BY <1>2, <1>3

\* An acknowledgement is one of synced records, and never moves the cursor back.
LEMMA AckKeepsLogs ==
  ASSUME Settlement, TellsOfSynced, NEW a \in acks, AckArrives(a), NEW s \in Streams
  PROVE  LogStep(s)
<1>1. /\ a.stream \in Streams
      /\ a.upTo \in Nat
      /\ a.upTo < journal[a.stream].synced
  BY DEF Settlement, AckSettled, TellsOfSynced
<1>2. journal' = [journal EXCEPT ![a.stream].acked = AckedUpTo(journal[a.stream], a.upTo)]
  BY DEF AckArrives, OnAck
<1>3. CASE s # a.stream
  BY <1>1, <1>2, <1>3 DEF LogStep, Settlement, Shape
<1>4. CASE s = a.stream
  <2>1. journal[s].synced \in Nat /\ journal[s].next \in Nat /\ journal[s].acked \in Int
        /\ journal[s].synced <= journal[s].next
    BY DEF Settlement, Shape, LogShape, LogSettled
  <2>2. a.upTo \in 0 .. journal[s].synced - 1
    BY <1>1, <1>4, <2>1
  <2>3. AckedUpTo(journal[s], a.upTo) = IF a.upTo > journal[s].acked THEN a.upTo ELSE journal[s].acked
    BY <1>1, <1>4, <2>1 DEF AckedUpTo
  <2>4. journal'[s] = [journal[s] EXCEPT !.acked = AckedUpTo(journal[s], a.upTo)]
    BY <1>2, <1>4 DEF Settlement, Shape
  <2>5. journal'[s] = [journal[s] EXCEPT !.acked = IF a.upTo > @ THEN a.upTo ELSE @]
    BY <2>3, <2>4
  <2> QED
    BY <2>2, <2>5 DEF LogStep, Log!Next, Log!Ack, Log!AckedTo
<1> QED
  BY <1>3, <1>4

\* A reset takes the end of a log that is not synced.
LEMMA RebootKeepsLogs ==
  ASSUME Shape, Reboot, NEW s \in Streams
  PROVE  LogStep(s)
<1>1. PICK next \in [Streams -> 0 .. MaxSeq] :
        /\ next[s] \in journal[s].synced .. journal[s].next
        /\ journal' = [r \in Streams |-> [journal[r] EXCEPT !.next = next[r], !.synced = next[r]]]
  BY DEF Reboot
<1>2. journal'[s] = [journal[s] EXCEPT !.next = next[s], !.synced = next[s]]
  BY <1>1
<1> QED
  BY <1>1, <1>2 DEF LogStep, Log!Next, Log!Restart, Log!Restarted

\* No step does anything else to a log.
LEMMA StepKeepsLogs ==
  ASSUME Settlement, TellsOfSynced, [Next]_vars, NEW s \in Streams
  PROVE  LogStep(s)
<1>0. Shape
  BY DEF Settlement
<1>1. ASSUME NEW r \in Streams, Appended(r) PROVE LogStep(s)
  BY <1>0, <1>1, AppendedKeepsLogs
<1>2. ASSUME NEW r \in Streams, Reclaimed(r) PROVE LogStep(s)
  BY <1>0, <1>2, ReclaimedKeepsLogs
<1>3. ASSUME NEW r \in Streams, RetryFallsDue(r) \/ QuotaPasses(r) PROVE LogStep(s)
  BY <1>3, JournalAlone DEF RetryFallsDue, QuotaPasses, deviceVars
<1>4. CASE Pick \/ NothingToDo \/ Retry \/ Send
  BY <1>4, JournalAlone DEF Pick, NothingToDo, Retry, Send, deviceVars
<1>5. CASE Fetch
  BY <1>0, <1>5, FetchKeepsLogs
<1>6. ASSUME NEW a \in acks, AckArrives(a) PROVE LogStep(s)
  BY <1>6, AckKeepsLogs
<1>7. ASSUME NEW m \in uplinks, ServerCommits(m) PROVE LogStep(s)
  BY <1>7, JournalAlone DEF ServerCommits, deviceVars
<1>8. CASE Lose
  BY <1>8, JournalAlone DEF Lose, deviceVars
<1>9. CASE Reboot
  BY <1>0, <1>9, RebootKeepsLogs
<1>10. CASE UNCHANGED vars
  BY <1>10, JournalAlone DEF vars, deviceVars
<1> QED
  BY <1>1, <1>2, <1>3, <1>4, <1>5, <1>6, <1>7, <1>8, <1>9, <1>10 DEF Next

\* A log loses only synced records at its beginning, and what is synced stays so.
LEMMA LogStepGrows ==
  ASSUME Shape, NEW s \in Streams, LogStep(s), journal[s].oldest <= journal[s].synced,
         journal[s].synced <= journal[s].next
  PROVE  journal'[s].oldest <= journal'[s].synced /\ journal[s].synced <= journal'[s].synced
<1> DEFINE log == journal[s]
<1>0. log \in LogShape /\ log.oldest \in Nat /\ log.next \in Nat /\ log.synced \in Nat
  BY DEF Shape, LogShape
<1>1. CASE Log(s)!Append
  BY <1>0, <1>1 DEF Log!Append, Log!Appended, LogShape
<1>2. CASE Log(s)!AppendSynced
  BY <1>0, <1>2 DEF Log!AppendSynced, Log!SyncedAll, Log!Appended, LogShape
<1>3. CASE Log(s)!Sync
  BY <1>0, <1>3 DEF Log!Sync, Log!SyncedAll, LogShape
<1>4. CASE Log(s)!Restart
  BY <1>0, <1>4 DEF Log!Restart, Log!Restarted, LogShape
<1>5. CASE Log(s)!Ack
  BY <1>0, <1>5 DEF Log!Ack, Log!AckedTo, LogShape
<1>6. CASE Log(s)!Reclaim
  BY <1>0, <1>6 DEF Log!Reclaim, Log!ReclaimedTo, LogShape
<1>7. CASE journal'[s] = journal[s]
  BY <1>0, <1>7
<1> QED
  BY <1>1, <1>2, <1>3, <1>4, <1>5, <1>6, <1>7 DEF LogStep, Log!Next

\* Acknowledgements go on telling of synced records only: a new one is of a batch, whose
\* records are.
LEMMA StepTellsOfSynced ==
  ASSUME Settlement, Settlement', TellsOfSynced, [Next]_vars
  PROVE  TellsOfSynced'
<1>1. ASSUME NEW s \in Streams
      PROVE  journal'[s].oldest <= journal'[s].synced /\ journal[s].synced <= journal'[s].synced
             /\ journal[s].synced \in Nat /\ journal'[s].synced \in Nat
  <2>1. LogStep(s)
    BY StepKeepsLogs
  <2>2. Shape /\ Shape' /\ journal[s].synced <= journal[s].next /\ journal[s].oldest <= journal[s].synced
    BY DEF Settlement, LogSettled, TellsOfSynced
  <2>3. journal[s].synced \in Nat /\ journal'[s].synced \in Nat
    BY <2>2 DEF Shape, LogShape
  <2> QED
    BY <2>1, <2>2, <2>3, LogStepGrows
<1>2. ASSUME NEW a \in acks', a \notin acks
      PROVE  \E m \in uplinks : a.stream = m.stream /\ a.upTo = m.first + Len(m.frames) - 1
  <2>1. CASE \E m \in uplinks : ServerCommits(m)
    BY <1>2, <2>1 DEF ServerCommits
  <2>2. CASE acks' \subseteq acks
    BY <1>2, <2>2
  <2>3. ASSUME NEW b \in acks, AckArrives(b) PROVE acks' \subseteq acks
    BY <2>3 DEF AckArrives, Delivered
  <2>4. CASE Lose
    BY <2>2, <2>4 DEF Lose
  <2>5. ASSUME NEW s \in Streams, Appended(s) \/ Reclaimed(s) \/ RetryFallsDue(s) \/ QuotaPasses(s)
        PROVE acks' \subseteq acks
    BY <2>5 DEF Appended, Reclaimed, RetryFallsDue, QuotaPasses, netVars
  <2>6. CASE Pick \/ NothingToDo \/ Retry \/ Fetch \/ Send
    BY <2>2, <2>6 DEF Pick, NothingToDo, Retry, Fetch, Send, netVars
  <2>7. CASE Reboot \/ UNCHANGED vars
    BY <2>2, <2>7 DEF Reboot, vars, netVars
  <2> QED
    BY <2>1, <2>2, <2>3, <2>4, <2>5, <2>6, <2>7 DEF Next
<1>3. ASSUME NEW a \in acks' PROVE a.upTo < journal'[a.stream].synced
  <2>1. a.upTo \in Nat /\ a.stream \in Streams
    BY DEF Settlement, AckSettled
  <2>2. CASE a \in acks
    BY <1>1, <2>1, <2>2 DEF TellsOfSynced
  <2>3. CASE a \notin acks
    <3>1. PICK m \in uplinks : a.stream = m.stream /\ a.upTo = m.first + Len(m.frames) - 1
      BY <1>2, <2>3
    <3>2. m.first \in Nat /\ m.frames \in Seq(Nat) /\ m.first + Len(m.frames) <= journal[m.stream].synced
      BY DEF Settlement, UplinkSettled, IsBatch
    <3>3. Len(m.frames) \in Nat
      BY <3>2, LenProperties
    <3>4. a.upTo < journal[m.stream].synced
      <4>1. journal[m.stream].synced \in Nat
        BY <1>1, <2>1, <3>1
      <4> QED
        BY <3>1, <3>2, <3>3, <4>1
    <3>5. a.upTo < journal[a.stream].synced
      BY <3>1, <3>4
    <3> QED
      BY <1>1, <2>1, <3>5
  <2> QED
    BY <2>2, <2>3
<1> QED
  BY <1>1, <1>3 DEF TellsOfSynced

\* What is acknowledged, or given up for room, was synced.
THEOREM TellsOfSyncedHolds == Spec => []TellsOfSynced
<1>1. Init => TellsOfSynced
  BY DEF Init, FreshLog, TellsOfSynced
<1>2. Settlement /\ Settlement' /\ TellsOfSynced /\ [Next]_vars => TellsOfSynced'
  BY StepTellsOfSynced
<1> QED
  BY <1>1, <1>2, SettlementHolds, PTL DEF Spec

\* Each stream's journal, as the uplink uses it, is the log that Journal implements: it
\* takes records out only behind the synced end, and acknowledges only synced ones.
THEOREM KeepsLogsHolds == Spec => KeepsLogs
<1>1. Init => \A s \in Streams : Log(s)!Init
  BY DEF Init, FreshLog, Log!Init
<1>2. Settlement /\ TellsOfSynced /\ [Next]_vars => [\A s \in Streams : [Log(s)!Next]_(journal[s])]_journal
  BY StepKeepsLogs DEF LogStep
<1> QED
  BY <1>1, <1>2, SettlementHolds, TellsOfSyncedHolds, PTL DEF Spec, KeepsLogs

-----------------------------------------------------------------------------
(* Types                                                                   *)

Boots == 1 .. MaxBoots
Slots == [active : BOOLEAN, first : 0 .. MaxSeq, frames : Seq(Boots), attempt : Attempts, due : BOOLEAN]
Envelopes == [boot : Boots, stream : Streams, first : 0 .. MaxSeq, frames : Seq(Boots)]
AckShape == [stream : Streams, upTo : 0 .. MaxSeq - 1]

Typed == TypeOK /\ HasAttemptsLeft

\* The conjuncts, by the names the proofs use.
LEMMA TypesAre ==
  TypeOK <=>
    /\ boot \in Boots
    /\ journal \in [Streams -> Logs]
    /\ written \in [Streams -> Seq(Boots)]
    /\ pc \in {"idle", "picked", "send"}
    /\ picked \in Streams \cup {NoStream}
    /\ pc # "idle" => picked \in Streams
    /\ slot \in [Streams -> Slots]
    /\ overdue \in [Streams -> BOOLEAN]
    /\ uplinks \subseteq Envelopes
    /\ acks \subseteq AckShape
    /\ stored \subseteq Records
    /\ gaps \in [Streams -> SUBSET (0 .. MaxSeq - 1)]
BY DEF TypeOK, Boots, Slots, Envelopes, AckShape

\* Nothing is written, sent or tried yet.
LEMMA InitTyped == Init => Typed
<1> SUFFICES ASSUME Init PROVE Typed
  OBVIOUS
<1>1. 0 \in 0 .. MaxSeq /\ -1 \in -1 .. MaxSeq - 1 /\ 1 \in Boots /\ 0 \in Attempts
  BY UplinkAssumption DEF Boots, Attempts
<1>2. FreshLog \in Logs /\ EmptySlot \in Slots /\ <<>> \in Seq(Boots)
  BY <1>1 DEF FreshLog, Logs, EmptySlot, Slots
<1>3. journal \in [Streams -> Logs] /\ slot \in [Streams -> Slots]
      /\ written \in [Streams -> Seq(Boots)]
  BY <1>2 DEF Init
<1>4. HasAttemptsLeft
  BY DEF Init, EmptySlot, HasAttemptsLeft
<1> QED
  BY <1>1, <1>3, <1>4, TypesAre DEF Init, Typed

\* A record is numbered below the bound.
LEMMA AppendedTyped ==
  ASSUME Typed, NEW s \in Streams, Appended(s)
  PROVE  Typed'
<1> USE TypesAre DEF Typed
<1>0. journal[s] \in Logs /\ journal[s].next \in 0 .. MaxSeq /\ journal[s].next < MaxSeq
  BY DEF Appended, Logs
<1>1. [journal[s] EXCEPT !.next = @ + 1] \in Logs
  <2>1. journal[s].next + 1 \in 0 .. MaxSeq
    BY <1>0, UplinkAssumption
  <2> QED
    BY <1>0, <2>1 DEF Logs
<1>2. Append(written[s], boot) \in Seq(Boots)
  BY AppendProperties
<1>3. journal' \in [Streams -> Logs] /\ written' \in [Streams -> Seq(Boots)]
  BY <1>1, <1>2 DEF Appended
<1>4. UNCHANGED <<boot, gaps, pc, picked, slot, overdue, uplinks, acks, stored>>
  BY DEF Appended, taskVars, netVars
<1> QED
  BY <1>3, <1>4 DEF TypeOK, Boots, HasAttemptsLeft

\* What is reclaimed was synced, so below the bound.
LEMMA ReclaimedTyped ==
  ASSUME Typed, NEW s \in Streams, Reclaimed(s)
  PROVE  Typed'
<1> USE TypesAre DEF Typed
<1>1. PICK oldest \in journal[s].oldest + 1 .. journal[s].synced :
        /\ journal' = [journal EXCEPT ![s].oldest = oldest]
        /\ gaps' = [gaps EXCEPT ![s] =
                      @ \cup {n \in journal[s].oldest .. oldest - 1 : n > journal[s].acked}]
  BY DEF Reclaimed
<1>2. journal[s] \in Logs /\ journal[s].oldest \in 0 .. MaxSeq /\ journal[s].synced \in 0 .. MaxSeq
  BY DEF Logs
<1>3. oldest \in 0 .. MaxSeq
  BY <1>1, <1>2, UplinkAssumption
<1>4. [journal[s] EXCEPT !.oldest = oldest] \in Logs
  BY <1>2, <1>3 DEF Logs
<1>5. {n \in journal[s].oldest .. oldest - 1 : n > journal[s].acked} \subseteq 0 .. MaxSeq - 1
  BY <1>2, <1>3, UplinkAssumption
<1>6. journal' \in [Streams -> Logs]
  BY <1>1, <1>4
<1>7. gaps' \in [Streams -> SUBSET (0 .. MaxSeq - 1)]
  BY <1>1, <1>5
<1>8. UNCHANGED <<boot, written, pc, picked, slot, overdue, uplinks, acks, stored>>
  BY DEF Reclaimed, taskVars, netVars
<1> QED
  BY <1>6, <1>7, <1>8 DEF TypeOK, HasAttemptsLeft

\* Time only sets flags.
LEMMA TimeTyped ==
  ASSUME Typed, NEW s \in Streams, RetryFallsDue(s) \/ QuotaPasses(s)
  PROVE  Typed'
<1> USE TypesAre DEF Typed
<1>1. CASE RetryFallsDue(s)
  <2>1. [slot[s] EXCEPT !.due = TRUE] \in Slots
    BY DEF Slots
  <2>2. slot' \in [Streams -> Slots] /\ HasAttemptsLeft'
    BY <1>1, <2>1 DEF RetryFallsDue, HasAttemptsLeft, Slots
  <2>3. UNCHANGED <<boot, journal, written, gaps, pc, picked, overdue, uplinks, acks, stored>>
    BY <1>1 DEF RetryFallsDue, deviceVars, netVars
  <2> QED
    BY <2>2, <2>3 DEF TypeOK, Slots, Boots
<1>2. CASE QuotaPasses(s)
  <2>1. overdue' \in [Streams -> BOOLEAN]
    BY <1>2 DEF QuotaPasses
  <2>2. UNCHANGED <<boot, journal, written, gaps, pc, picked, slot, uplinks, acks, stored>>
    BY <1>2 DEF QuotaPasses, deviceVars, netVars
  <2> QED
    BY <2>1, <2>2 DEF TypeOK, HasAttemptsLeft
<1> QED
  BY <1>1, <1>2

\* The scheduler picks a stream that is mounted.
LEMMA PickTyped ==
  ASSUME Typed, Settlement, Pick \/ NothingToDo
  PROVE  Typed'
<1> USE TypesAre DEF Typed
<1>1. StillOverdue \in [Streams -> BOOLEAN]
  <2>1. \A s \in Streams : (overdue[s] /\ HasPending(s)) \in BOOLEAN
    OBVIOUS
  <2> QED
    BY <2>1 DEF StillOverdue
<1>2. UNCHANGED <<boot, journal, written, gaps, slot, uplinks, acks, stored>> /\ overdue' = StillOverdue
  BY DEF Pick, NothingToDo, deviceVars, netVars
<1>3. pc' \in {"idle", "picked"} /\ (pc' # "idle" => picked' \in Streams) /\ picked' \in Streams \cup {NoStream}
  BY PicksMounted DEF Pick, NothingToDo
<1> QED
  BY <1>1, <1>2, <1>3 DEF TypeOK, HasAttemptsLeft

\* The attempt that is too many is counted as well.
LEMMA RetryTyped ==
  ASSUME Typed, Retry
  PROVE  Typed'
<1> USE TypesAre DEF Typed
<1>1. picked \in Streams /\ slot[picked] \in Slots /\ slot[picked].active /\ slot[picked].attempt \in Nat
  BY DEF Retry, Slots, Attempts
<1>2. slot[picked].attempt = 1 \/ slot[picked].attempt < MaxAttempts
  BY <1>1 DEF HasAttemptsLeft
<1>3. slot[picked].attempt + 1 \in Attempts
  BY <1>1, <1>2, UplinkAssumption DEF Attempts
<1>4. UNCHANGED <<boot, journal, written, gaps, picked, overdue, uplinks, acks, stored>>
      /\ pc' \in {"idle", "send"}
  BY DEF Retry, deviceVars, netVars
<1>5. slot' \in [Streams -> Slots] /\ HasAttemptsLeft'
  <2>1. CASE slot' = slot
    BY <2>1 DEF HasAttemptsLeft
  <2>2. CASE GivesUp(slot[picked].attempt)
             /\ slot' = [slot EXCEPT ![picked].attempt = @ + 1, ![picked].active = FALSE]
    <3>1. slot' = [slot EXCEPT ![picked] = [slot[picked] EXCEPT !.attempt = @ + 1, !.active = FALSE]]
      BY <1>1, <2>2 DEF Slots
    <3>2. [slot[picked] EXCEPT !.attempt = @ + 1, !.active = FALSE] \in Slots
      BY <1>1, <1>3 DEF Slots
    <3> QED
      BY <1>1, <3>1, <3>2 DEF HasAttemptsLeft, Slots
  <2>3. CASE ~GivesUp(slot[picked].attempt) /\ slot' = [slot EXCEPT ![picked].attempt = @ + 1]
    <3>1. [slot[picked] EXCEPT !.attempt = @ + 1] \in Slots
      BY <1>1, <1>3 DEF Slots
    <3>2. slot[picked].attempt + 1 < MaxAttempts
      BY <1>1, <2>3, UplinkAssumption DEF GivesUp
    <3> QED
      BY <1>1, <2>3, <3>1, <3>2 DEF HasAttemptsLeft, Slots
  <2> QED
    BY <2>1, <2>2, <2>3 DEF Retry
<1> QED
  BY <1>1, <1>4, <1>5 DEF TypeOK, Slots, Boots

\* A sequence of members of a set is one over that set.
LEMMA AllInSeq ==
  ASSUME NEW T, NEW S, NEW f \in Seq(T), \A k \in 1 .. Len(f) : f[k] \in S
  PROVE  f \in Seq(S)
<1>1. Len(f) \in Nat /\ f = [k \in 1 .. Len(f) |-> f[k]]
  BY LenProperties
<1>2. f \in [1 .. Len(f) -> S]
  BY <1>1
<1>3. \E n \in Nat : f \in [1 .. n -> S]
  BY <1>1, <1>2
<1>4. f \in UNION {[1 .. n -> S] : n \in Nat}
  BY <1>3
<1> QED
  BY <1>4, SeqDef

\* A batch holds records of the journal, so boots.
LEMMA ReadTyped ==
  ASSUME Typed, Shape, NEW s \in Streams, LogSettled(s), ReadFrames(s, FetchFrom(s)) # <<>>
  PROVE  /\ ReadStart(s, FetchFrom(s)) \in 0 .. MaxSeq
         /\ ReadFrames(s, FetchFrom(s)) \in Seq(Boots)
         /\ \A synced \in ReadSynced(s, FetchFrom(s)) : synced \in 0 .. MaxSeq
<1> USE TypesAre DEF Typed
<1> DEFINE start == ReadStart(s, FetchFrom(s))
           frames == ReadFrames(s, FetchFrom(s))
<1>1. /\ journal[s].next \in 0 .. MaxSeq
      /\ journal[s].synced \in 0 .. MaxSeq
      /\ Len(written[s]) = journal[s].next
      /\ written[s] \in Seq(Boots)
  BY DEF Logs, LogSettled
<1>2. /\ start \in Nat
      /\ frames \in Seq(Nat)
      /\ \A synced \in ReadSynced(s, FetchFrom(s)) :
           synced \in journal[s].synced .. journal[s].next /\ start + Len(frames) <= synced
      /\ \A k \in 1 .. Len(frames) : frames[k] = written[s][start + k]
  BY ReadIsBatch
<1>3. PICK synced \in ReadSynced(s, FetchFrom(s)) : synced = synced
  BY DEF ReadSynced
<1> HIDE DEF start, frames
<1>4. Len(frames) \in Nat /\ start + Len(frames) <= journal[s].next
  BY <1>1, <1>2, <1>3, LenProperties
<1>5. ASSUME NEW k \in 1 .. Len(frames) PROVE frames[k] \in Boots
  <2>1. start + k \in 1 .. Len(written[s])
    BY <1>1, <1>2, <1>4
  <2>2. written[s][start + k] \in Boots
    BY <1>1, <2>1, ElementOfSeq
  <2>3. frames[k] = written[s][start + k]
    BY <1>2
  <2> QED
    BY <2>2, <2>3
<1>6. frames \in Seq(Boots)
  BY <1>2, <1>5, AllInSeq
<1>7. start \in 0 .. MaxSeq
  BY <1>1, <1>2, <1>4, UplinkAssumption
<1>8. \A n \in ReadSynced(s, FetchFrom(s)) : n \in 0 .. MaxSeq
  BY <1>1, <1>2, UplinkAssumption
<1> QED
  BY <1>6, <1>7, <1>8 DEF start, frames

\* A new batch is the first attempt at its records.
LEMMA FetchTyped ==
  ASSUME Typed, Settlement, Fetch
  PROVE  Typed'
<1> USE TypesAre DEF Typed
<1> DEFINE start == ReadStart(picked, FetchFrom(picked))
           frames == ReadFrames(picked, FetchFrom(picked))
<1>1. picked \in Streams /\ slot[picked] \in Slots /\ journal[picked] \in Logs
  BY DEF Fetch
<1>2. UNCHANGED <<boot, written, gaps, picked, overdue, uplinks, acks, stored>> /\ pc' \in {"idle", "send"}
  BY DEF Fetch, netVars
<1>3. CASE frames = <<>>
  <2>1. UNCHANGED <<journal, slot>>
    BY <1>3 DEF Fetch
  <2> QED
    BY <1>1, <1>2, <2>1 DEF TypeOK, HasAttemptsLeft
<1>4. CASE frames # <<>>
  <2>1. PICK synced \in ReadSynced(picked, FetchFrom(picked)) :
          journal' = [journal EXCEPT ![picked].synced = synced]
    BY <1>4 DEF Fetch
  <2>2. slot' = [slot EXCEPT ![picked] = [active |-> TRUE, first |-> start, frames |-> frames,
                                          attempt |-> 1, due |-> @.due]]
    BY <1>4 DEF Fetch
  <2>3. start \in 0 .. MaxSeq /\ frames \in Seq(Boots) /\ synced \in 0 .. MaxSeq
    BY <1>1, <1>4, <2>1, ReadTyped DEF Settlement
  <2> HIDE DEF start, frames
  <2>4. [journal[picked] EXCEPT !.synced = synced] \in Logs
    BY <1>1, <2>3 DEF Logs
  <2>5. 1 \in Attempts
    BY UplinkAssumption DEF Attempts
  <2>6. [active |-> TRUE, first |-> start, frames |-> frames, attempt |-> 1, due |-> slot[picked].due] \in Slots
    BY <1>1, <2>3, <2>5 DEF Slots
  <2>7. journal' \in [Streams -> Logs] /\ slot' \in [Streams -> Slots] /\ HasAttemptsLeft'
    BY <1>1, <2>1, <2>2, <2>4, <2>6 DEF HasAttemptsLeft
  <2> QED
    BY <1>1, <1>2, <2>7 DEF TypeOK, Slots, Boots
<1> QED
  BY <1>3, <1>4

\* An envelope is of the boot that sends it.
LEMMA SendTyped ==
  ASSUME Typed, Send
  PROVE  Typed'
<1> USE TypesAre DEF Typed
<1>1. picked \in Streams /\ slot[picked] \in Slots
  BY DEF Send
<1>2. Envelope(picked) \in Envelopes
  BY <1>1 DEF Envelope, Envelopes, Slots
<1>3. uplinks' \subseteq Envelopes
  BY <1>2 DEF Send, Publish
<1>4. [slot[picked] EXCEPT !.due = FALSE] \in Slots
  BY <1>1 DEF Slots
<1>5. slot' \in [Streams -> Slots] /\ HasAttemptsLeft'
  BY <1>1, <1>4 DEF Send, HasAttemptsLeft, Slots
<1>6. UNCHANGED <<boot, journal, written, gaps, picked, overdue, acks, stored>> /\ pc' = "idle"
  BY DEF Send, deviceVars
<1> QED
  BY <1>3, <1>5, <1>6 DEF TypeOK, Slots, Boots, Envelopes

\* An answer acknowledges a record there is, or leaves the cursor alone.
LEMMA AckedInRange ==
  ASSUME NEW log, NEW upTo \in 0 .. MaxSeq - 1,
         log.next \in 0 .. MaxSeq, log.acked \in -1 .. MaxSeq - 1
  PROVE  AckedUpTo(log, upTo) \in -1 .. MaxSeq - 1
<1>0. MaxSeq \in Nat
  BY UplinkAssumption
<1>1. PICK n \in 0 .. MaxSeq, k \in -1 .. MaxSeq - 1 : n = log.next /\ k = log.acked
  OBVIOUS
<1>2. CASE n # 0 /\ upTo >= n /\ n - 1 > k
  BY <1>0, <1>1, <1>2 DEF AckedUpTo
<1>3. CASE n # 0 /\ upTo < n /\ upTo > k
  BY <1>0, <1>1, <1>3 DEF AckedUpTo
<1>4. CASE ~(n # 0 /\ upTo >= n /\ n - 1 > k) /\ ~(n # 0 /\ upTo < n /\ upTo > k)
  BY <1>0, <1>1, <1>4 DEF AckedUpTo
<1> QED
  BY <1>2, <1>3, <1>4

\* The cursor moves to a record there is, or stays.
LEMMA AckTyped ==
  ASSUME Typed, NEW a \in acks, AckArrives(a)
  PROVE  Typed'
<1> USE TypesAre DEF Typed
<1> DEFINE acked == AckedUpTo(journal[a.stream], a.upTo)
<1>1. a.stream \in Streams /\ a.upTo \in 0 .. MaxSeq - 1 /\ journal[a.stream] \in Logs /\ slot[a.stream] \in Slots
  BY DEF AckShape
<1>2. acked \in -1 .. MaxSeq - 1
  BY <1>1, AckedInRange DEF Logs
<1>3. /\ journal' = [journal EXCEPT ![a.stream].acked = acked]
      /\ slot' = [slot EXCEPT ![a.stream].active = @ /\ a.upTo + 1 < slot[a.stream].first]
      /\ acks' \subseteq acks
      /\ UNCHANGED <<boot, written, gaps, pc, picked, overdue, uplinks, stored>>
  BY DEF AckArrives, OnAck, Delivered
<1> HIDE DEF acked
<1>4. [journal[a.stream] EXCEPT !.acked = acked] \in Logs
  BY <1>1, <1>2 DEF Logs
<1>5. [slot[a.stream] EXCEPT !.active = @ /\ a.upTo + 1 < slot[a.stream].first] \in Slots
  BY <1>1 DEF Slots
<1>6. journal' \in [Streams -> Logs] /\ slot' \in [Streams -> Slots]
  BY <1>3, <1>4, <1>5
<1>7. HasAttemptsLeft'
  BY <1>1, <1>3 DEF HasAttemptsLeft, Slots
<1> QED
  BY <1>3, <1>6, <1>7 DEF TypeOK, Slots, Boots, AckShape

\* The rows of a batch are records of its stream.
LEMMA CommitTyped ==
  ASSUME Typed, Settlement, NEW m \in uplinks, ServerCommits(m)
  PROVE  Typed'
<1> USE TypesAre DEF Typed
<1>1. m.boot \in Boots /\ m.stream \in Streams /\ m.first \in Nat /\ m.frames \in Seq(Boots)
  BY DEF Envelopes
<1>2. Len(m.frames) \in Nat /\ Len(m.frames) # 0 /\ m.first + Len(m.frames) <= MaxSeq
  <2>1. m.frames # <<>> /\ m.first + Len(m.frames) <= journal[m.stream].synced
    BY DEF Settlement, UplinkSettled, IsBatch
  <2>2. journal[m.stream].synced \in 0 .. MaxSeq
    BY <1>1 DEF Logs
  <2>3. Len(m.frames) \in Nat /\ Len(m.frames) # 0
    BY <1>1, <2>1, LenProperties, EmptySeq
  <2> QED
    BY <1>1, <2>1, <2>2, <2>3, UplinkAssumption
<1>3. Rows(m) \subseteq Records
  <2> SUFFICES ASSUME NEW k \in 1 .. Len(m.frames)
               PROVE  [boot |-> m.boot, stream |-> m.stream, seq |-> m.first + k - 1,
                       writer |-> m.frames[k]] \in Records
    BY DEF Rows
  <2>1. m.frames[k] \in Boots
    BY <1>1, ElementOfSeq
  <2>2. m.first + k - 1 \in 0 .. MaxSeq - 1
    BY <1>1, <1>2, UplinkAssumption
  <2> QED
    BY <1>1, <2>1, <2>2 DEF Records, Boots
<1>4. m.first + Len(m.frames) - 1 \in 0 .. MaxSeq - 1
  BY <1>1, <1>2, UplinkAssumption
<1>5. acks' \subseteq AckShape /\ stored' \subseteq Records /\ uplinks' \subseteq Envelopes
  BY <1>1, <1>3, <1>4 DEF ServerCommits, AckShape, Delivered
<1>6. UNCHANGED <<boot, journal, written, gaps, pc, picked, slot, overdue>>
  BY DEF ServerCommits, deviceVars, taskVars
<1> QED
  BY <1>5, <1>6 DEF TypeOK, Boots, Envelopes, AckShape, HasAttemptsLeft

\* What is lost leaves the rest as it is.
LEMMA LoseTyped ==
  ASSUME Typed, Lose
  PROVE  Typed'
<1>1. uplinks' \subseteq uplinks /\ acks' \subseteq acks
  BY DEF Lose
<1>2. UNCHANGED <<boot, journal, written, gaps, pc, picked, slot, overdue, stored>>
  BY DEF Lose, deviceVars, taskVars
<1> QED
  BY <1>1, <1>2 DEF Typed, TypeOK, HasAttemptsLeft

\* A reset cuts the logs and empties the slots.
LEMMA RebootTyped ==
  ASSUME Typed, Settlement, Reboot
  PROVE  Typed'
<1> USE TypesAre DEF Typed
<1>1. PICK next \in [Streams -> 0 .. MaxSeq] :
        /\ \A s \in Streams : next[s] \in journal[s].synced .. journal[s].next
        /\ journal' = [s \in Streams |-> [journal[s] EXCEPT !.next = next[s], !.synced = next[s]]]
        /\ written' = [s \in Streams |-> SubSeq(written[s], 1, next[s])]
  BY DEF Reboot
<1>2. \A s \in Streams : [journal[s] EXCEPT !.next = next[s], !.synced = next[s]] \in Logs
  BY DEF Logs
<1>3. ASSUME NEW s \in Streams PROVE SubSeq(written[s], 1, next[s]) \in Seq(Boots)
  <2>1. written[s] \in Seq(Boots) /\ next[s] \in Nat /\ next[s] <= Len(written[s])
    <3>1. journal[s].next \in Nat /\ journal[s].synced \in Nat /\ Len(written[s]) = journal[s].next
      BY DEF Settlement, Shape, LogShape, LogSettled
    <3>2. next[s] \in journal[s].synced .. journal[s].next
      BY <1>1
    <3> QED
      BY <3>1, <3>2
  <2>2. \A i \in 1 .. next[s] : written[s][i] \in Boots
    BY <2>1, ElementOfSeq
  <2> QED
    BY <2>1, <2>2, SubSeqProperties
<1>4. journal' \in [Streams -> Logs] /\ written' \in [Streams -> Seq(Boots)]
  BY <1>1, <1>2, <1>3
<1>5. 0 \in 0 .. MaxSeq /\ 0 \in Attempts
  BY UplinkAssumption DEF Attempts
<1>6. EmptySlot \in Slots
  BY <1>5 DEF EmptySlot, Slots
<1>7. slot' \in [Streams -> Slots] /\ HasAttemptsLeft'
  BY <1>6 DEF Reboot, HasAttemptsLeft, EmptySlot
<1>8. /\ boot' \in Boots
      /\ pc' = "idle"
      /\ picked' = NoStream
      /\ overdue' \in [Streams -> BOOLEAN]
      /\ UNCHANGED <<gaps, uplinks, acks, stored>>
  <2>1. boot \in 1 .. MaxBoots /\ boot < MaxBoots /\ boot' = boot + 1 /\ MaxBoots \in Nat
    BY UplinkAssumption DEF Reboot, Boots
  <2>2. boot' \in Boots
    BY <2>1 DEF Boots
  <2>3. overdue' \in [Streams -> BOOLEAN]
    BY DEF Reboot
  <2> QED
    BY <2>2, <2>3 DEF Reboot, netVars
<1> QED
  BY <1>4, <1>7, <1>8 DEF TypeOK, Slots, Boots

\* Every variable keeps its type, the numbers of records within the bound, and the attempts
\* of a batch within kMaxAttempts (Uplink.cpp:202).
THEOREM TypeOKHolds == Spec => []TypeOK
<1>1. Typed /\ Settlement /\ [Next]_vars => Typed'
  <2> SUFFICES ASSUME Typed, Settlement, [Next]_vars PROVE Typed'
    OBVIOUS
  <2>1. ASSUME NEW s \in Streams, Appended(s) PROVE Typed'
    BY <2>1, AppendedTyped
  <2>2. ASSUME NEW s \in Streams, Reclaimed(s) PROVE Typed'
    BY <2>2, ReclaimedTyped
  <2>3. ASSUME NEW s \in Streams, RetryFallsDue(s) \/ QuotaPasses(s) PROVE Typed'
    BY <2>3, TimeTyped
  <2>4. CASE Pick \/ NothingToDo
    BY <2>4, PickTyped
  <2>5. CASE Retry
    BY <2>5, RetryTyped
  <2>6. CASE Fetch
    BY <2>6, FetchTyped
  <2>7. CASE Send
    BY <2>7, SendTyped
  <2>8. ASSUME NEW a \in acks, AckArrives(a) PROVE Typed'
    BY <2>8, AckTyped
  <2>9. ASSUME NEW m \in uplinks, ServerCommits(m) PROVE Typed'
    BY <2>9, CommitTyped
  <2>10. CASE Lose
    BY <2>10, LoseTyped
  <2>11. CASE Reboot
    BY <2>11, RebootTyped
  <2>12. CASE UNCHANGED vars
    BY <2>12 DEF vars, deviceVars, taskVars, netVars, Typed, TypeOK, HasAttemptsLeft
  <2> QED
    BY <2>1, <2>2, <2>3, <2>4, <2>5, <2>6, <2>7, <2>8, <2>9, <2>10, <2>11, <2>12 DEF Next
<1>2. Typed => TypeOK
  BY DEF Typed
<1> QED
  BY <1>1, <1>2, InitTyped, SettlementHolds, PTL DEF Spec
=============================================================================
