-------------------------- MODULE LogCaptureProofs --------------------------
(***************************************************************************)
(* Theorems about LogCapture, for every set of lines and events, every     *)
(* capacity of the ring and of the RTC store, and every number of resets:  *)
(* the types, that evidence of a crash is told, that the records of a boot *)
(* tell of each of its lines once, that the capture keeps what BlackBox    *)
(* promises, and that the functions the hook has of its own do what those  *)
(* on strings do, for every line, message and list of secrets.  The ring   *)
(* is where the work of the first is: a slot is the index modulo the       *)
(* capacity, and two indices in use must not share one.                    *)
(***************************************************************************)
EXTENDS LogCapture, SequenceTheorems, WellFoundedInduction, TLAPS

LOCAL INSTANCE FiniteSetsExt

-----------------------------------------------------------------------------
(* Slots *)

LEMMA SlotInRange ==
  ASSUME NEW C \in Nat \ {0}, NEW i \in Nat
  PROVE  i % C \in 0..(C - 1)
  OBVIOUS

LEMMA Division ==
  ASSUME NEW C \in Nat \ {0}, NEW i \in Nat
  PROVE  /\ i \div C \in Nat
         /\ i = C * (i \div C) + (i % C)
  OBVIOUS

LEMMA NextMultiple ==
  ASSUME NEW C \in Nat \ {0}, NEW p \in Nat, NEW q \in Nat, p < q
  PROVE  C * q >= C * p + C
<1>1. q - p - 1 \in Nat
  OBVIOUS
<1>2. C * (q - p - 1) >= 0
  BY <1>1, SMTT(30)
<1>. QED  BY <1>2, SMTT(30)

(* Two indices less than a capacity apart lie in two slots. *)
LEMMA SlotsApart ==
  ASSUME NEW C \in Nat \ {0}, NEW i \in Nat, NEW j \in Nat, i < j, j - i < C
  PROVE  i % C # j % C
<1>. SUFFICES ASSUME i % C = j % C PROVE FALSE
  OBVIOUS
<1>. DEFINE p == i \div C
            q == j \div C
<1>1. /\ p \in Nat /\ q \in Nat
      /\ i = C * p + (i % C)
      /\ j = C * q + (i % C)
  BY Division
<1>2. i % C \in 0..(C - 1)
  BY SlotInRange
<1>. HIDE DEF p, q
<1>3. CASE p < q
  <2>1. C * q >= C * p + C
    BY <1>1, <1>3, NextMultiple
  <2>. QED  BY <1>1, <1>2, <2>1, SMTT(30)
<1>4. CASE p = q
  BY <1>1, <1>4
<1>5. CASE q < p
  <2>1. C * p >= C * q + C
    BY <1>1, <1>5, NextMultiple
  <2>. QED  BY <1>1, <1>2, <2>1, SMTT(30)
<1>. QED  BY <1>1, <1>3, <1>4, <1>5

-----------------------------------------------------------------------------
(* The ring *)

WellFormed(r) == r \in Rings /\ Size(r) \in 0..Capacity

(* From r to p: so many records came in, the oldest made room for them,     *)
(* counted, and only when p is full, and the others lie where they lay.     *)
Extends(r, p, n) ==
  /\ p.write = r.write + n
  /\ p.read - r.read \in 0..n
  /\ p.dropped - r.dropped = p.read - r.read
  /\ p.read > r.read => Size(p) = Capacity
  /\ \A i \in Nat : p.read <= i /\ i < r.write => p.slots[i % Capacity] = r.slots[i % Capacity]

LEMMA PushOne ==
  ASSUME NEW r, WellFormed(r), NEW x \in Records
  PROVE  WellFormed(Pushed(r, x)) /\ Extends(r, Pushed(r, x), 1)
<1>. DEFINE p == Pushed(r, x)
<1>0. r.slots \in [0..(Capacity - 1) -> Records \cup {NoRecord}]
  BY DEF WellFormed, Rings
<1>1. /\ r.write \in Nat /\ r.read \in Nat /\ r.dropped \in Nat
      /\ r.read <= r.write /\ r.write - r.read <= Capacity
      /\ Capacity \in Nat \ {0}
  BY CaptureAssumption DEF WellFormed, Rings, Size
<1>2. /\ p.slots = [r.slots EXCEPT ![r.write % Capacity] = x]
      /\ p.write = r.write + 1
      /\ p.read = IF Laps(r) THEN r.write + 1 - Capacity ELSE r.read
      /\ p.dropped = IF Laps(r) THEN r.dropped + 1 ELSE r.dropped
      /\ p = [slots |-> p.slots, write |-> p.write, read |-> p.read, dropped |-> p.dropped]
  BY DEF Pushed
<1>. HIDE DEF p
<1>3. r.write % Capacity \in 0..(Capacity - 1)
  BY <1>1, SlotInRange
<1>4. p.slots \in [0..(Capacity - 1) -> Records \cup {NoRecord}]
  BY <1>0, <1>2, <1>3
<1>5. /\ p.write \in Nat /\ p.read \in Nat /\ p.dropped \in Nat
      /\ p.write - p.read \in 0..Capacity
      /\ p.read - r.read \in 0..1
      /\ p.dropped - r.dropped = p.read - r.read
      /\ p.read > r.read => p.write - p.read = Capacity
  <2>1. CASE Laps(r)
    <3>1. /\ p.write = r.write + 1
          /\ p.read = r.write + 1 - Capacity
          /\ p.dropped = r.dropped + 1
      BY <1>2, <2>1
    <3>2. /\ p.read = r.read + 1
          /\ p.write = p.read + Capacity
      BY <1>1, <2>1, <3>1 DEF Laps
    <3>. QED  BY <1>1, <3>1, <3>2
  <2>2. CASE ~Laps(r)
    <3>1. p.write = r.write + 1 /\ p.read = r.read /\ p.dropped = r.dropped
      BY <1>2, <2>2
    <3>. QED  BY <1>1, <2>2, <3>1 DEF Laps
  <2>. QED  BY <2>1, <2>2
<1>6. WellFormed(p)
  BY <1>2, <1>4, <1>5 DEF WellFormed, Rings, Size
<1>7. ASSUME NEW i \in Nat, p.read <= i, i < r.write
      PROVE  p.slots[i % Capacity] = r.slots[i % Capacity]
  <2>1. r.write - i < Capacity
    BY <1>1, <1>2, <1>5, <1>7
  <2>2. i % Capacity # r.write % Capacity
    BY <1>1, <1>7, <2>1, SlotsApart
  <2>3. i % Capacity \in 0..(Capacity - 1)
    BY <1>1, SlotInRange
  <2>. QED  BY <1>0, <1>2, <2>2, <2>3
<1>. QED  BY <1>2, <1>5, <1>6, <1>7 DEF Extends, Size, p

LEMMA PushTwo ==
  ASSUME NEW r, WellFormed(r), NEW x \in Records, NEW y \in Records
  PROVE  /\ WellFormed(Pushed(Pushed(r, x), y))
         /\ Extends(r, Pushed(Pushed(r, x), y), 2)
<1>. DEFINE p == Pushed(r, x)
            q == Pushed(p, y)
<1>1. WellFormed(p) /\ Extends(r, p, 1)
  BY PushOne
<1>2. WellFormed(q) /\ Extends(p, q, 1)
  BY <1>1, PushOne
<1>. HIDE DEF p, q
<1>3. /\ r.write \in Nat /\ r.read \in Nat /\ r.dropped \in Nat
      /\ p.write \in Nat /\ p.read \in Nat /\ p.dropped \in Nat
      /\ q.write \in Nat /\ q.read \in Nat /\ q.dropped \in Nat
      /\ Capacity \in Nat \ {0}
      /\ q.write - q.read <= Capacity
  BY <1>1, <1>2, CaptureAssumption DEF WellFormed, Rings, Size
<1>4. /\ q.write = r.write + 2
      /\ q.read - r.read \in 0..2
      /\ q.dropped - r.dropped = q.read - r.read
  BY <1>1, <1>2, <1>3 DEF Extends
<1>5. q.read > r.read => q.write - q.read = Capacity
  BY <1>1, <1>2, <1>3 DEF Extends, Size
<1>6. ASSUME NEW i \in Nat, q.read <= i, i < r.write
      PROVE  q.slots[i % Capacity] = r.slots[i % Capacity]
  <2>1. p.read <= i /\ i < p.write
    BY <1>1, <1>2, <1>3, <1>6 DEF Extends
  <2>2. q.slots[i % Capacity] = p.slots[i % Capacity]
    BY <1>2, <1>6, <2>1 DEF Extends
  <2>3. p.slots[i % Capacity] = r.slots[i % Capacity]
    BY <1>1, <1>6, <2>1 DEF Extends
  <2>. QED  BY <2>2, <2>3
<1>. QED  BY <1>2, <1>4, <1>5, <1>6 DEF Extends, Size, p, q

(* A slot that is written before the indices is that of no unread record,   *)
(* or of the oldest one in a full ring.                                     *)
LEMMA OneSlotWritten ==
  ASSUME NEW r, WellFormed(r), NEW x \in Records
  PROVE  LET p == SlotWritten(r, x)
         IN  /\ WellFormed(p)
             /\ p.write = r.write /\ p.read = r.read /\ p.dropped = r.dropped
             /\ \A i \in Nat :
                  /\ r.read <= i /\ i < r.write
                  /\ i > r.read \/ Size(r) < Capacity
                  => p.slots[i % Capacity] = r.slots[i % Capacity]
<1>. DEFINE p == SlotWritten(r, x)
<1>1. /\ r.write \in Nat /\ r.read \in Nat
      /\ r.read <= r.write /\ r.write - r.read <= Capacity
      /\ Capacity \in Nat \ {0}
      /\ r.slots \in [0..(Capacity - 1) -> Records \cup {NoRecord}]
  BY CaptureAssumption DEF WellFormed, Rings, Size
<1>2. /\ p.slots = [r.slots EXCEPT ![r.write % Capacity] = x]
      /\ p.write = r.write /\ p.read = r.read /\ p.dropped = r.dropped
      /\ p \in [slots : {p.slots}, write : {p.write}, read : {p.read}, dropped : {p.dropped}]
  BY DEF SlotWritten, WellFormed, Rings
<1>. HIDE DEF p
<1>3. r.write % Capacity \in 0..(Capacity - 1)
  BY <1>1, SlotInRange
<1>4. p.slots \in [0..(Capacity - 1) -> Records \cup {NoRecord}]
  BY <1>1, <1>2, <1>3
<1>5. WellFormed(p)
  BY <1>2, <1>4 DEF WellFormed, Rings, Size
<1>6. ASSUME NEW i \in Nat, r.read <= i, i < r.write, i > r.read \/ Size(r) < Capacity
      PROVE  p.slots[i % Capacity] = r.slots[i % Capacity]
  <2>1. r.write - i < Capacity
    BY <1>1, <1>6 DEF Size
  <2>2. i % Capacity # r.write % Capacity
    BY <1>1, <1>6, <2>1, SlotsApart
  <2>3. i % Capacity \in 0..(Capacity - 1)
    BY <1>1, SlotInRange
  <2>. QED  BY <1>1, <1>2, <2>2, <2>3
<1>. QED  BY <1>2, <1>5, <1>6 DEF p

-----------------------------------------------------------------------------
(* The limiter *)

Limiters == {lim \in [last : Lines \cup {NoLine}, repeats : Nat] : lim.repeats > 0 => lim.last \in Lines}

(* At most two records at once. *)
Few == {<<>>} \cup {<<x>> : x \in Records} \cup {<<x, y>> : x \in Records, y \in Records}

LEMMA FlushTypes ==
  ASSUME NEW lim \in Limiters
  PROVE  /\ Flushed(lim) \in Limiters
         /\ PendingFlush(lim) \in Few
<1>1. Flushed(lim) \in Limiters
  BY DEF Flushed, Limiters
<1>2. lim.repeats > 0 => Summary(lim) \in Records
  BY DEF Summary, Limiters, Records, Names
<1>. QED  BY <1>1, <1>2 DEF PendingFlush, Few

LEMMA LineTypes ==
  ASSUME NEW lim \in Limiters, NEW l \in Lines
  PROVE  /\ Fed(lim, l) \in Limiters
         /\ Emitted(lim, l) \in Few
<1>1. Fed(lim, l) \in Limiters
  BY DEF Fed, Limiters
<1>2. Original(l) \in Records
  BY DEF Original, Records, Names
<1>3. lim.repeats > 0 => Summary(lim) \in Records
  BY DEF Summary, Limiters, Records, Names
<1>. QED  BY <1>1, <1>2, <1>3 DEF Emitted, Few

LEMMA PushFew ==
  ASSUME NEW r, WellFormed(r), NEW rs \in Few
  PROVE  /\ WellFormed(PushedAll(r, rs))
         /\ \/ PushedAll(r, rs) = r
            \/ \E n \in 1..2 : Extends(r, PushedAll(r, rs), n)
<1>1. CASE rs = <<>>
  BY <1>1 DEF PushedAll
<1>2. ASSUME NEW x \in Records, rs = <<x>>
      PROVE  WellFormed(PushedAll(r, rs)) /\ Extends(r, PushedAll(r, rs), 1)
  <2>1. PushedAll(r, rs) = Pushed(r, x)
    BY <1>2 DEF PushedAll
  <2>. QED  BY <2>1, PushOne
<1>3. ASSUME NEW x \in Records, NEW y \in Records, rs = <<x, y>>
      PROVE  WellFormed(PushedAll(r, rs)) /\ Extends(r, PushedAll(r, rs), 2)
  <2>1. PushedAll(r, rs) = Pushed(Pushed(r, x), y)
    BY <1>3 DEF PushedAll
  <2>. QED  BY <2>1, PushTwo
<1>. QED  BY <1>1, <1>2, <1>3 DEF Few

-----------------------------------------------------------------------------
(* The invariant *)

(* The drain task runs from the inspection of the boot on, and not before.  *)
StartedInOrder == drain # "absent" <=> boot = "running"

(* Until then what the reset left is still there. *)
EvidenceIsKept == boot # "running" => Size(ring) >= left.ring /\ rtc >= left.rtc

IInv == TypeOK /\ limiter \in Limiters /\ StartedInOrder /\ EvidenceIsKept /\ EvidenceIsTold

LEMMA RingIsWellFormed ==
  TypeOK => WellFormed(ring)
  BY DEF TypeOK, WellFormed

(* A ring only fills until it is read. *)
LEMMA NoneIsHidden ==
  ASSUME NEW r, NEW p, WellFormed(r), WellFormed(p), NEW n \in 1..2, Extends(r, p, n)
  PROVE  Size(p) >= Size(r)
  BY SMTT(30) DEF WellFormed, Rings, Size, Extends

LEMMA RtcTypes ==
  ASSUME NEW n \in 0..RtcCapacity
  PROVE  RtcPushed(n) \in 0..RtcCapacity /\ RtcPushed(n) >= n
  BY CaptureAssumption DEF RtcPushed

LEMMA InitIInv ==
  Init => IInv
<1>. SUFFICES ASSUME Init PROVE IInv
  OBVIOUS
<1>1. ring \in Rings /\ Size(ring) = 0
  BY CaptureAssumption DEF Init, EmptyRing, Rings, Size
<1>2. TypeOK
  BY <1>1, CaptureAssumption DEF Init, TypeOK, FreshLimiter, Causes, SinkNames
<1>3. limiter \in Limiters
  BY DEF Init, FreshLimiter, Limiters
<1>4. StartedInOrder /\ EvidenceIsKept /\ EvidenceIsTold
  BY <1>1 DEF Init, StartedInOrder, EvidenceIsKept, EvidenceIsTold, CrashLike
<1>. QED  BY <1>2, <1>3, <1>4 DEF IInv

LEMMA EmptyRingIsWellFormed ==
  WellFormed(EmptyRing) /\ Size(EmptyRing) = 0
  BY CaptureAssumption DEF WellFormed, EmptyRing, Rings, Size

(* What a reset finds of one push, or of two. *)
LEMMA InterruptedIsWellFormed ==
  ASSUME NEW r, WellFormed(r), NEW x \in Records, NEW p \in Interrupted(r, x)
  PROVE  WellFormed(p)
<1>1. TornRecord \in Records
  BY DEF TornRecord, Records, Names
<1>. QED  BY <1>1, OneSlotWritten, PushOne, EmptyRingIsWellFormed DEF Interrupted

LEMMA AllInterruptedIsWellFormed ==
  ASSUME NEW r, WellFormed(r), NEW rs \in Few, NEW p \in AllInterrupted(r, rs)
  PROVE  WellFormed(p)
<1>1. CASE rs = <<>>
  BY <1>1 DEF AllInterrupted
<1>2. ASSUME NEW x \in Records, rs = <<x>>
      PROVE  WellFormed(p)
  BY <1>2, InterruptedIsWellFormed DEF AllInterrupted
<1>3. ASSUME NEW x \in Records, NEW y \in Records, rs = <<x, y>>
      PROVE  WellFormed(p)
  <2>1. p \in Interrupted(r, x) \/ p \in Interrupted(Pushed(r, x), y)
    BY <1>3 DEF AllInterrupted
  <2>2. WellFormed(Pushed(r, x))
    BY PushOne
  <2>. QED  BY <2>1, <2>2, InterruptedIsWellFormed
<1>. QED  BY <1>1, <1>2, <1>3 DEF Few

(* A warm reset comes in the middle of some steps, of few records at once. *)
LEMMA WarmFindings ==
  ASSUME limiter \in Limiters, FoundWarm
  PROVE  /\ rtc' \in {rtc, 0}
         /\ \/ ring' = EmptyRing
            \/ \E rs \in Few : ring' = PushedAll(ring, rs) \/ ring' \in AllInterrupted(ring, rs)
<1>1. ASSUME NEW rs \in Few, NEW critical \in BOOLEAN, FoundPushing(rs, critical)
      PROVE  /\ rtc' \in {rtc, 0}
             /\ ring' = PushedAll(ring, rs) \/ ring' \in AllInterrupted(ring, rs)
  BY <1>1 DEF FoundPushing, RtcInterrupted
<1>2. CASE UNCHANGED memory
  <2>1. ring' = PushedAll(ring, <<>>) /\ <<>> \in Few
    BY <1>2 DEF memory, PushedAll, Few
  <2>. QED  BY <1>2, <2>1 DEF memory
<1>3. ASSUME NEW l \in Loggable, FoundPushing(Emitted(limiter, l), IsCritical(l))
      PROVE  \E rs \in Few, critical \in BOOLEAN : FoundPushing(rs, critical)
  BY <1>3, LineTypes DEF Loggable, IsCritical
<1>4. ASSUME NEW x \in Events \cup {Incident}, FoundPushing(<<Original(x)>>, TRUE)
      PROVE  \E rs \in Few, critical \in BOOLEAN : FoundPushing(rs, critical)
  <2>1. Original(x) \in Records
    BY DEF Original, Records, Names
  <2>2. <<Original(x)>> \in Few
    BY <2>1 DEF Few
  <2>. QED  BY <1>4, <2>2
<1>5. ASSUME FoundPushing(PendingFlush(limiter), FALSE)
      PROVE  \E rs \in Few, critical \in BOOLEAN : FoundPushing(rs, critical)
  BY <1>5, FlushTypes
<1>6. ASSUME FoundPopping PROVE rtc' = rtc /\ ring' = EmptyRing
  BY <1>6 DEF FoundPopping
<1>. QED  BY <1>1, <1>2, <1>3, <1>4, <1>5, <1>6 DEF FoundWarm

LEMMA ResetFindings ==
  ASSUME WellFormed(ring), limiter \in Limiters, rtc \in 0..RtcCapacity,
         NEW c \in Causes, Reset(c)
  PROVE  WellFormed(ring') /\ rtc' \in 0..RtcCapacity
<1>1. FoundWarm \/ FoundCold
  BY DEF Reset
<1>2. CASE FoundWarm
  BY <1>2, WarmFindings, PushFew, AllInterruptedIsWellFormed, EmptyRingIsWellFormed, CaptureAssumption
<1>3. CASE FoundCold
  BY <1>3, EmptyRingIsWellFormed, CaptureAssumption DEF FoundCold
<1>. QED  BY <1>1, <1>2, <1>3

LEMMA PopKeeps ==
  ASSUME WellFormed(ring), Pop
  PROVE  WellFormed(ring')
<1>1. /\ ring.write \in Nat /\ ring.read \in Nat /\ ring.write - ring.read \in 1..Capacity
      /\ ring' = [ring EXCEPT !.read = ring.read + 1]
      /\ ring \in Rings
  BY DEF Pop, WellFormed, Rings, Size
<1>2. ring' \in Rings /\ ring'.write = ring.write /\ ring'.read = ring.read + 1
  BY <1>1 DEF Rings
<1>. QED  BY <1>1, <1>2, CaptureAssumption DEF WellFormed, Size

LEMMA NextIInv ==
  IInv /\ [Next]_vars => IInv'
<1>. SUFFICES ASSUME IInv, [Next]_vars PROVE IInv'
  OBVIOUS
<1>. USE DEF IInv
<1>1. WellFormed(ring) /\ rtc \in 0..RtcCapacity
  BY RingIsWellFormed DEF TypeOK
<1>2. CASE Install
  BY <1>2 DEF Install, memory, task, bounds, TypeOK, StartedInOrder, EvidenceIsKept, EvidenceIsTold, Size
<1>3. ASSUME NEW l \in Lines, Log(l) PROVE IInv'
  <2>. USE <1>3 DEF Log, start, task
  <2>1. limiter' \in Limiters /\ Emitted(limiter, l) \in Few
    BY LineTypes
  <2>2. WellFormed(ring') /\ Size(ring') >= Size(ring)
    <3>1. /\ WellFormed(ring')
          /\ ring' = ring \/ \E n \in 1..2 : Extends(ring, ring', n)
      BY <1>1, <2>1, PushFew
    <3>2. ASSUME NEW n \in 1..2, Extends(ring, ring', n) PROVE Size(ring') >= Size(ring)
      BY <1>1, <3>1, <3>2, NoneIsHidden
    <3>3. Size(ring) \in Nat
      BY <1>1, CaptureAssumption DEF WellFormed
    <3>. QED  BY <3>1, <3>2, <3>3
  <2>3. rtc' \in 0..RtcCapacity /\ rtc' >= rtc
    BY <1>1, RtcTypes, CaptureAssumption
  <2>4. TypeOK'
    BY <2>1, <2>2, <2>3 DEF TypeOK, WellFormed, Limiters
  <2>5. StartedInOrder'
    BY DEF StartedInOrder
  <2>6. EvidenceIsKept'
    <3>1. Size(ring) \in Nat /\ Size(ring') \in Nat /\ rtc \in Nat /\ rtc' \in Nat
      BY <1>1, <2>2, <2>3, CaptureAssumption DEF WellFormed
    <3>2. left.ring \in Nat /\ left.rtc \in Nat
      BY DEF TypeOK
    <3>. QED  BY <2>2, <2>3, <3>1, <3>2 DEF EvidenceIsKept
  <2>7. EvidenceIsTold'
    BY DEF EvidenceIsTold
  <2>. QED  BY <2>1, <2>4, <2>5, <2>6, <2>7
<1>4. ASSUME NEW e \in Events, Event(e) PROVE IInv'
  <2>. USE <1>4 DEF Event, PushEvent, start, task
  <2>1. WellFormed(ring')
    BY <1>1, PushOne DEF Original, Records, Names
  <2>2. rtc' \in 0..RtcCapacity
    BY <1>1, RtcTypes
  <2>3. TypeOK'
    BY <2>1, <2>2 DEF TypeOK, WellFormed
  <2>. QED  BY <2>3 DEF StartedInOrder, EvidenceIsKept, EvidenceIsTold
<1>5. CASE Inspect
  <2>. USE <1>5 DEF Inspect, PushEvent, memory
  <2>1. WellFormed(ring')
    BY <1>1, PushOne DEF Original, Records, Names
  <2>2. rtc' \in 0..RtcCapacity
    BY <1>1, RtcTypes
  <2>3. report' \in [ring : Nat, rtc : Nat] \cup {NoReport}
    BY <1>1, CaptureAssumption DEF TypeOK, WellFormed
  <2>4. TypeOK'
    BY <2>1, <2>2, <2>3 DEF TypeOK, WellFormed
  <2>5. EvidenceIsTold'
    <3>. SUFFICES ASSUME CrashLike(cause), left.ring + left.rtc > 0
                  PROVE  report' # NoReport /\ report'.ring >= left.ring /\ report'.rtc >= left.rtc
      BY DEF EvidenceIsTold
    <3>1. Size(ring) >= left.ring /\ rtc >= left.rtc
      BY DEF EvidenceIsKept
    <3>2. /\ left.ring \in Nat /\ left.rtc \in Nat
          /\ Size(ring) \in Nat /\ rtc \in Nat
      BY <1>1, CaptureAssumption DEF TypeOK, WellFormed
    <3>3. report' = [ring |-> Size(ring), rtc |-> rtc]
      BY <3>1, <3>2 DEF RaisesIncident
    <3>4. report' \in [ring : Nat, rtc : Nat]
      BY <3>2, <3>3
    <3>. QED  BY <3>1, <3>3, <3>4, CaptureAssumption
  <2>. QED  BY <2>4, <2>5 DEF StartedInOrder, EvidenceIsKept
<1>6. CASE Drain
  <2>1. boot = "running" /\ drain # "absent" /\ drain' # "absent" /\ UNCHANGED start
    BY <1>6 DEF Drain, Pop, Pause, Show, Store, Flush, NotYetDue, start, StartedInOrder
  <2>2. TypeOK' /\ limiter' \in Limiters
    <3>1. CASE Pop
      <4>1. ring.slots[ring.read % Capacity] \in Records \cup {NoRecord}
        <5>1. ring.read % Capacity \in 0..(Capacity - 1)
          BY SlotInRange, CaptureAssumption DEF TypeOK, Rings
        <5>. QED  BY <5>1 DEF TypeOK, Rings
      <4>2. WellFormed(ring')
        BY <3>1, <1>1, PopKeeps
      <4>. QED  BY <3>1, <4>1, <4>2 DEF Pop, start, TypeOK, WellFormed
    <3>2. CASE Pause \/ NotYetDue
      BY <3>2 DEF Pause, NotYetDue, memory, start, TypeOK
    <3>3. CASE Show
      BY <3>3 DEF Show, Written, memory, start, TypeOK, SinkNames
    <3>4. CASE Store
      BY <3>4 DEF Store, memory, start, TypeOK, SinkNames
    <3>5. CASE Flush
      <4>1. PendingFlush(limiter) \in Few
        BY FlushTypes
      <4>2. limiter' \in Limiters
        BY <3>5, FlushTypes DEF Flush
      <4>3. WellFormed(ring')
        BY <3>5, <4>1, <1>1, PushFew DEF Flush
      <4>. QED  BY <3>5, <4>2, <4>3 DEF Flush, start, TypeOK, WellFormed, Limiters
    <3>. QED  BY <1>6, <3>1, <3>2, <3>3, <3>4, <3>5 DEF Drain
  <2>. QED  BY <2>1, <2>2 DEF start, StartedInOrder, EvidenceIsKept, EvidenceIsTold
<1>7. ASSUME NEW c \in Causes, Reset(c) PROVE IInv'
  <2>. USE <1>7 DEF Reset
  <2>2. WellFormed(ring') /\ rtc' \in 0..RtcCapacity
    BY <1>1, <1>7, ResetFindings
  <2>3. Size(ring') \in Nat /\ rtc' \in Nat
    BY <2>2, CaptureAssumption DEF WellFormed
  <2>4. limiter' \in Limiters
    BY DEF FreshLimiter, Limiters
  <2>5. TypeOK'
    BY <2>2, <2>3, <2>4 DEF TypeOK, WellFormed, Limiters
  <2>6. EvidenceIsKept'
    BY <2>3 DEF EvidenceIsKept, Size
  <2>. QED  BY <2>4, <2>5, <2>6 DEF StartedInOrder, EvidenceIsTold
<1>8. CASE UNCHANGED vars
  BY <1>8 DEF vars, memory, start, task, bounds, TypeOK, StartedInOrder, EvidenceIsKept, EvidenceIsTold, Size
<1>. QED  BY <1>2, <1>3, <1>4, <1>5, <1>6, <1>7, <1>8 DEF Next

(* The types of the capture (LogRouter.cpp, NoinitRing.cpp, LogTask.cpp),   *)
(* the limiter and the order of the start included, hold in every state.    *)
THEOREM CaptureInvariant == Spec => []IInv
<1>. QED  BY InitIInv, NextIInv, PTL DEF Spec

(* Ring, limiter, drain task and evidence are of their types in every state *)
(* (NoinitRing.cpp, RateLimiter.h, LogTask.cpp, IncidentRecovery.cpp).      *)
THEOREM CaptureTypeCorrect == Spec => []TypeOK
<1>1. IInv => TypeOK
  BY DEF IInv
<1>. QED  BY <1>1, CaptureInvariant, PTL

(* Whatever a warm reset left, in a ring and a store of any size, is        *)
(* reported in full before the drain task takes a record                    *)
(* (IncidentRecovery.cpp:58, Log.cpp:166).                                  *)
THEOREM EvidenceIsToldHolds == Spec => []EvidenceIsTold
<1>1. IInv => EvidenceIsTold
  BY DEF IInv
<1>. QED  BY <1>1, CaptureInvariant, PTL
-----------------------------------------------------------------------------
(* The capture is a BlackBox *)

LEMMA QueueLength ==
  ASSUME NEW r, WellFormed(r)
  PROVE  /\ Len(QueueOf(r)) = Size(r)
         /\ Size(r) \in Nat
         /\ QueueOf(r) \in Seq(Records \cup {NoRecord})
<1>1. Size(r) \in Nat /\ Capacity \in Nat \ {0}
  BY CaptureAssumption DEF WellFormed
<1>2. ASSUME NEW i \in 1..Size(r)
      PROVE  r.slots[(r.read + i - 1) % Capacity] \in Records \cup {NoRecord}
  <2>1. r.read + i - 1 \in Nat
    BY <1>1 DEF WellFormed, Rings
  <2>2. (r.read + i - 1) % Capacity \in 0..(Capacity - 1)
    BY <1>1, <2>1, SlotInRange
  <2>. QED  BY <2>2 DEF WellFormed, Rings
<1>. QED  BY <1>1, <1>2 DEF QueueOf

(* From r to p, so many records come into the queue, and so many are spoiled. *)
CameIn(r, p, n, spoiled) ==
  /\ Len(QueueOf(p)) <= Capacity
  /\ \E k \in 0..n :
       /\ p.dropped = r.dropped + k
       /\ Len(QueueOf(p)) = Len(QueueOf(r)) + n - k
       /\ \A i \in 1..Len(QueueOf(r)) : i > k + spoiled => QueueOf(p)[i - k] = QueueOf(r)[i]
  /\ Len(QueueOf(p)) < Len(QueueOf(r)) + n => Len(QueueOf(p)) = Capacity

(* What came into the ring came into the queue. *)
LEMMA ExtendsIsCapture ==
  ASSUME NEW r, NEW p, WellFormed(r), WellFormed(p), NEW n \in 1..2, Extends(r, p, n)
  PROVE  CameIn(r, p, n, 0)
<1>. DEFINE k == p.read - r.read
<1>1. /\ r.write \in Nat /\ r.read \in Nat /\ r.dropped \in Nat
      /\ p.write \in Nat /\ p.read \in Nat /\ p.dropped \in Nat
      /\ r.write - r.read \in 0..Capacity /\ p.write - p.read \in 0..Capacity
      /\ Capacity \in Nat \ {0}
  BY CaptureAssumption DEF WellFormed, Rings, Size
<1>2. /\ k \in 0..n
      /\ p.write = r.write + n
      /\ p.dropped = r.dropped + k
      /\ p.read = r.read + k
      /\ k > 0 => p.write - p.read = Capacity
  BY <1>1 DEF Extends, Size
<1>. HIDE DEF k
<1>3. /\ Len(QueueOf(r)) = r.write - r.read
      /\ Len(QueueOf(p)) = p.write - p.read
  BY QueueLength DEF Size
<1>4. ASSUME NEW i \in 1..(r.write - r.read), i > k
      PROVE  QueueOf(p)[i - k] = QueueOf(r)[i]
  <2>. DEFINE j == r.read + i - 1
  <2>1. /\ j \in Nat /\ p.read <= j /\ j < r.write
        /\ j = p.read + (i - k) - 1
        /\ i - k \in 1..(p.write - p.read)
    BY <1>1, <1>2, <1>4
  <2>2. QueueOf(r)[i] = r.slots[j % Capacity]
    BY DEF QueueOf, Size
  <2>3. QueueOf(p)[i - k] = p.slots[(p.read + (i - k) - 1) % Capacity]
    BY <2>1 DEF QueueOf, Size
  <2>. HIDE DEF j
  <2>4. p.slots[j % Capacity] = r.slots[j % Capacity]
    BY <2>1 DEF Extends
  <2>. QED  BY <2>1, <2>2, <2>3, <2>4
<1>5. /\ Len(QueueOf(p)) <= Capacity
      /\ Len(QueueOf(p)) = Len(QueueOf(r)) + n - k
      /\ Len(QueueOf(p)) < Len(QueueOf(r)) + n => Len(QueueOf(p)) = Capacity
  <2>1. n \in Nat /\ k \in Nat
    BY <1>2
  <2>2. p.write - p.read = r.write - r.read + n - k
    BY <1>1, <1>2, <2>1
  <2>3. CASE k = 0
    BY <1>1, <1>3, <2>1, <2>2, <2>3
  <2>4. CASE k > 0
    BY <1>1, <1>2, <1>3, <2>1, <2>2, <2>4
  <2>. QED  BY <2>1, <2>3, <2>4
<1>6. \A i \in 1..Len(QueueOf(r)) : i > k + 0 => QueueOf(p)[i - k] = QueueOf(r)[i]
  BY <1>2, <1>3, <1>4
<1>. QED  BY <1>2, <1>5, <1>6 DEF CameIn

LEMMA NothingCameIn ==
  ASSUME NEW r, WellFormed(r)
  PROVE  CameIn(r, r, 0, 0)
<1>1. Len(QueueOf(r)) \in 0..Capacity /\ r.dropped \in Nat /\ Capacity \in Nat
  BY QueueLength, CaptureAssumption DEF WellFormed, Rings
<1>2. \A i \in 1..Len(QueueOf(r)) : i > 0 + 0 => QueueOf(r)[i - 0] = QueueOf(r)[i]
  <2>1. \A i \in 1..Len(QueueOf(r)) : i - 0 = i
    BY <1>1
  <2>. QED  BY <2>1
<1>. QED  BY <1>1, <1>2 DEF CameIn

(* A slot written before the indices spoils the oldest record of a full ring. *)
LEMMA SlotSpoils ==
  ASSUME NEW r, NEW q, WellFormed(r), WellFormed(q), NEW n \in 0..1, CameIn(r, q, n, 0),
         NEW x \in Records
  PROVE  LET p == SlotWritten(q, x)
         IN  CameIn(r, p, n, 0) \/ (CameIn(r, p, n, 1) /\ Len(QueueOf(p)) = Capacity)
<1>. DEFINE p == SlotWritten(q, x)
<1>1. /\ WellFormed(p)
      /\ p.write = q.write /\ p.read = q.read /\ p.dropped = q.dropped
      /\ \A i \in Nat :
           /\ q.read <= i /\ i < q.write
           /\ i > q.read \/ Size(q) < Capacity
           => p.slots[i % Capacity] = q.slots[i % Capacity]
  BY OneSlotWritten
<1>. HIDE DEF p
<1>2. /\ q.write \in Nat /\ q.read \in Nat /\ Size(q) \in 0..Capacity /\ Capacity \in Nat
      /\ Size(q) = q.write - q.read /\ Size(p) = Size(q)
      /\ Len(QueueOf(r)) \in Nat
  BY <1>1, QueueLength, CaptureAssumption DEF WellFormed, Rings, Size
<1>3. Len(QueueOf(p)) = Size(q) /\ Len(QueueOf(q)) = Size(q)
  BY <1>1, <1>2, QueueLength
<1>4. ASSUME NEW i \in 1..Size(q), i > 1 \/ Size(q) < Capacity
      PROVE  QueueOf(p)[i] = QueueOf(q)[i]
  <2>. DEFINE j == q.read + i - 1
  <2>1. /\ j \in Nat /\ q.read <= j /\ j < q.write
        /\ j > q.read \/ Size(q) < Capacity
    BY <1>2, <1>4
  <2>2. QueueOf(q)[i] = q.slots[j % Capacity] /\ QueueOf(p)[i] = p.slots[j % Capacity]
    BY <1>1, <1>2 DEF QueueOf
  <2>. HIDE DEF j
  <2>. QED  BY <1>1, <2>1, <2>2
<1>5. PICK k \in 0..n :
        /\ q.dropped = r.dropped + k
        /\ Len(QueueOf(q)) = Len(QueueOf(r)) + n - k
        /\ \A i \in 1..Len(QueueOf(r)) : i > k + 0 => QueueOf(q)[i - k] = QueueOf(r)[i]
  BY DEF CameIn
<1>6. ASSUME NEW spoiled \in 0..1, spoiled = 1 \/ Size(q) < Capacity
      PROVE  CameIn(r, p, n, spoiled)
  <2>1. ASSUME NEW i \in 1..Len(QueueOf(r)), i > k + spoiled
        PROVE  QueueOf(p)[i - k] = QueueOf(r)[i]
    <3>1. i - k \in 1..Size(q) /\ (i - k > 1 \/ Size(q) < Capacity) /\ i > k + 0
      BY <1>2, <1>3, <1>5, <1>6, <2>1
    <3>. QED  BY <1>4, <1>5, <3>1
  <2>. QED  BY <1>1, <1>3, <1>5, <2>1 DEF CameIn
<1>. QED  BY <1>2, <1>3, <1>6 DEF p

(* What a warm reset leaves of a ring. *)
Survives(r, p) ==
  \/ p = EmptyRing
  \/ \E n \in 0..2 : CameIn(r, p, n, 0)
  \/ \E n \in 0..1 : CameIn(r, p, n, 1) /\ Len(QueueOf(p)) = Capacity

LEMMA InterruptedSurvives ==
  ASSUME NEW r, NEW q, WellFormed(r), WellFormed(q), NEW n \in 0..1, CameIn(r, q, n, 0),
         NEW x \in Records, NEW p \in Interrupted(q, x), CameIn(r, Pushed(q, x), n + 1, 0)
  PROVE  Survives(r, p)
<1>1. TornRecord \in Records
  BY DEF TornRecord, Records, Names
<1>2. n \in 0..2 /\ n + 1 \in 0..2
  OBVIOUS
<1>3. CASE p = q \/ p = EmptyRing \/ p = Pushed(q, x)
  BY <1>2, <1>3 DEF Survives
<1>4. ASSUME NEW y \in Records, p = SlotWritten(q, y)
      PROVE  Survives(r, p)
  BY <1>2, <1>4, SlotSpoils DEF Survives
<1>. QED  BY <1>1, <1>3, <1>4 DEF Interrupted

LEMMA AllInterruptedSurvives ==
  ASSUME NEW r, WellFormed(r), NEW rs \in Few, NEW p \in AllInterrupted(r, rs)
  PROVE  Survives(r, p)
<1>1. CameIn(r, r, 0, 0)
  BY NothingCameIn
<1>2. ASSUME NEW x \in Records
      PROVE  WellFormed(Pushed(r, x)) /\ CameIn(r, Pushed(r, x), 1, 0)
  BY PushOne, ExtendsIsCapture
<1>3. CASE rs = <<>>
  <2>1. p = r
    BY <1>3 DEF AllInterrupted
  <2>. QED  BY <1>1, <2>1 DEF Survives
<1>4. ASSUME NEW x \in Records, p \in Interrupted(r, x)
      PROVE  Survives(r, p)
  <2>1. CameIn(r, Pushed(r, x), 0 + 1, 0)
    BY <1>2
  <2>. QED  BY <1>1, <1>4, <2>1, InterruptedSurvives
<1>5. ASSUME NEW x \in Records, NEW y \in Records, p \in Interrupted(Pushed(r, x), y)
      PROVE  Survives(r, p)
  <2>1. CameIn(r, Pushed(Pushed(r, x), y), 1 + 1, 0)
    BY <1>2, PushTwo, ExtendsIsCapture
  <2>. QED  BY <1>2, <1>5, <2>1, InterruptedSurvives
<1>6. ASSUME NEW x \in Records, rs = <<x>>
      PROVE  Survives(r, p)
  BY <1>4, <1>6 DEF AllInterrupted
<1>7. ASSUME NEW x \in Records, NEW y \in Records, rs = <<x, y>>
      PROVE  Survives(r, p)
  BY <1>4, <1>5, <1>7 DEF AllInterrupted
<1>. QED  BY <1>3, <1>6, <1>7 DEF Few

LEMMA CaptureOrNothing ==
  ASSUME WellFormed(ring), WellFormed(ring'),
         ring' = ring \/ \E n \in 1..2 : Extends(ring, ring', n),
         UNCHANGED <<held, output>>, ToServe' = ToServe
  PROVE  [B!Next]_B!bbvars
<1>1. CASE ring' = ring
  BY <1>1 DEF B!bbvars, QueueOf, Size
<1>2. CASE \E n \in 1..2 : Extends(ring, ring', n)
  <2>1. B!Capture
    BY <1>2, ExtendsIsCapture DEF B!Capture, B!ComeIn, CameIn
  <2>. QED  BY <2>1 DEF B!Next
<1>. QED  BY <1>1, <1>2

LEMMA PopIsTake ==
  ASSUME WellFormed(ring), Pop
  PROVE  B!Take
<1>1. /\ ring.write \in Nat /\ ring.read \in Nat
      /\ Size(ring) \in Nat \ {0}
      /\ ring'.read = ring.read + 1
      /\ ring'.write = ring.write
      /\ ring'.slots = ring.slots
      /\ ring'.dropped = ring.dropped
      /\ Capacity \in Nat \ {0}
  BY CaptureAssumption DEF Pop, WellFormed, Rings, Size
<1>2. Len(QueueOf(ring)) = Size(ring) /\ QueueOf(ring) # <<>>
  BY <1>1, QueueLength DEF QueueOf
<1>3. Head(QueueOf(ring)) = ring.slots[ring.read % Capacity]
  <2>1. Head(QueueOf(ring)) = QueueOf(ring)[1]
    BY <1>2
  <2>2. QueueOf(ring)[1] = ring.slots[(ring.read + 1 - 1) % Capacity]
    BY <1>1 DEF QueueOf
  <2>3. ring.read + 1 - 1 = ring.read
    BY <1>1
  <2>. QED  BY <2>1, <2>2, <2>3
<1>4. QueueOf(ring') = Tail(QueueOf(ring))
  <2>1. WellFormed(ring')
    BY PopKeeps
  <2>2. /\ QueueOf(ring) \in Seq(Records \cup {NoRecord})
        /\ QueueOf(ring') \in Seq(Records \cup {NoRecord})
        /\ Len(QueueOf(ring')) = Size(ring) - 1
    BY <1>1, <2>1, QueueLength DEF Size
  <2>3. /\ Tail(QueueOf(ring)) \in Seq(Records \cup {NoRecord})
        /\ Len(Tail(QueueOf(ring))) = Size(ring) - 1
        /\ \A i \in 1..(Size(ring) - 1) : Tail(QueueOf(ring))[i] = QueueOf(ring)[i + 1]
    BY <1>2, <2>2, HeadTailProperties
  <2>4. ASSUME NEW i \in 1..(Size(ring) - 1)
        PROVE  QueueOf(ring')[i] = Tail(QueueOf(ring))[i]
    <3>1. /\ i + 1 \in 1..Size(ring)
          /\ i \in 1..Size(ring')
          /\ ring.read + (i + 1) - 1 = ring'.read + i - 1
      BY <1>1 DEF Size
    <3>2. QueueOf(ring)[i + 1] = ring.slots[(ring.read + (i + 1) - 1) % Capacity]
      BY <3>1 DEF QueueOf
    <3>3. QueueOf(ring')[i] = ring'.slots[(ring'.read + i - 1) % Capacity]
      BY <3>1 DEF QueueOf
    <3>. QED  BY <1>1, <2>3, <3>1, <3>2, <3>3
  <2>. QED  BY <2>2, <2>3, <2>4, SeqEqual
<1>5. ToServe = {} /\ ToServe' = SinkNames
  BY DEF Pop, ToServe
<1>6. held' = ring.slots[ring.read % Capacity] /\ UNCHANGED output
  BY DEF Pop
<1>. QED  BY <1>1, <1>2, <1>3, <1>4, <1>5, <1>6 DEF B!Take

LEMMA ServeSteps ==
  /\ Show => B!Serve("console")
  /\ Store => B!Serve("flash")
<1>1. ASSUME Show PROVE B!Serve("console")
  <2>1. ToServe = SinkNames /\ ToServe' = {"flash"}
    BY <1>1 DEF Show, ToServe
  <2>2. /\ "console" \in SinkNames
        /\ SinkNames \ {"console"} = {"flash"}
        /\ SinkNames # {"console"}
    BY DEF SinkNames
  <2>3. output' \in {output, [output EXCEPT !["console"] = held]}
    BY <1>1 DEF Show, Written
  <2>4. UNCHANGED <<QueueOf(ring), ring.dropped, held>>
    BY <1>1 DEF Show, memory, QueueOf, Size
  <2>. QED  BY <2>1, <2>2, <2>3, <2>4 DEF B!Serve
<1>2. ASSUME Store PROVE B!Serve("flash")
  <2>1. ToServe = {"flash"} /\ ToServe' = {}
    BY <1>2 DEF Store, ToServe
  <2>2. output' \in {output, [output EXCEPT !["flash"] = held]} /\ held' = NoRecord
    BY <1>2 DEF Store
  <2>3. UNCHANGED <<QueueOf(ring), ring.dropped>>
    BY <1>2 DEF Store, memory, QueueOf, Size
  <2>. QED  BY <2>1, <2>2, <2>3 DEF B!Serve
<1>. QED  BY <1>1, <1>2

LEMMA ResetIsReset ==
  ASSUME WellFormed(ring), limiter \in Limiters, NEW c \in Causes, Reset(c)
  PROVE  B!Reset
<1>1. Survives(ring, ring')
  <2>1. FoundWarm \/ FoundCold
    BY DEF Reset
  <2>2. CASE FoundWarm
    <3>1. ASSUME NEW rs \in Few, ring' = PushedAll(ring, rs)
          PROVE  Survives(ring, ring')
      <4>1. \/ ring' = ring
            \/ \E n \in 1..2 : WellFormed(ring') /\ Extends(ring, ring', n)
        BY <3>1, PushFew
      <4>2. CASE ring' = ring
        BY <4>2, NothingCameIn DEF Survives
      <4>3. ASSUME NEW n \in 1..2, WellFormed(ring'), Extends(ring, ring', n)
            PROVE  Survives(ring, ring')
        BY <4>3, ExtendsIsCapture DEF Survives
      <4>. QED  BY <4>1, <4>2, <4>3
    <3>2. ASSUME NEW rs \in Few, ring' \in AllInterrupted(ring, rs)
          PROVE  Survives(ring, ring')
      BY <3>2, AllInterruptedSurvives
    <3>3. CASE ring' = EmptyRing
      BY <3>3 DEF Survives
    <3>. QED  BY <2>2, <3>1, <3>2, <3>3, WarmFindings
  <2>3. CASE FoundCold
    BY <2>3 DEF FoundCold, Survives
  <2>. QED  BY <2>1, <2>2, <2>3
<1>2. held' = NoRecord /\ ToServe' = {} /\ UNCHANGED output
  BY DEF Reset, ToServe
<1>3. QueueOf(EmptyRing) = <<>> /\ EmptyRing.dropped = 0
  BY DEF QueueOf, EmptyRing, Size
<1>. QED  BY <1>1, <1>2, <1>3 DEF B!Reset, B!ComeIn, CameIn, Survives

LEMMA StepRefines ==
  ASSUME IInv, IInv', [Next]_vars
  PROVE  [B!Next]_B!bbvars
<1>1. WellFormed(ring) /\ WellFormed(ring') /\ limiter \in Limiters
  BY RingIsWellFormed DEF IInv, TypeOK, WellFormed
<1>2. CASE Install \/ Pause \/ NotYetDue
  BY <1>1, <1>2, CaptureOrNothing DEF Install, Pause, NotYetDue, memory, task, ToServe, IInv, StartedInOrder
<1>3. ASSUME NEW l \in Lines, Log(l) PROVE [B!Next]_B!bbvars
  <2>1. ring' = ring \/ \E n \in 1..2 : Extends(ring, ring', n)
    BY <1>1, <1>3, LineTypes, PushFew DEF Log
  <2>. QED  BY <1>1, <1>3, <2>1, CaptureOrNothing DEF Log, task, ToServe
<1>4. ASSUME NEW e \in Events, Event(e) PROVE [B!Next]_B!bbvars
  <2>1. Extends(ring, ring', 1)
    BY <1>1, <1>4, PushOne DEF Event, PushEvent, Original, Records, Names
  <2>. QED  BY <1>1, <1>4, <2>1, CaptureOrNothing DEF Event, task, ToServe
<1>5. CASE Inspect
  <2>1. ring' = ring \/ Extends(ring, ring', 1)
    BY <1>1, <1>5, PushOne DEF Inspect, PushEvent, memory, Original, Records, Names
  <2>2. ToServe = {} /\ ToServe' = {}
    BY <1>5 DEF Inspect, ToServe, IInv, StartedInOrder
  <2>. QED  BY <1>1, <1>5, <2>1, <2>2, CaptureOrNothing DEF Inspect
<1>6. CASE Flush
  <2>1. ring' = ring \/ \E n \in 1..2 : Extends(ring, ring', n)
    BY <1>1, <1>6, FlushTypes, PushFew DEF Flush
  <2>2. ToServe = {} /\ ToServe' = {}
    BY <1>6 DEF Flush, ToServe
  <2>. QED  BY <1>1, <1>6, <2>1, <2>2, CaptureOrNothing DEF Flush
<1>7. CASE Pop
  BY <1>1, <1>7, PopIsTake DEF B!Next
<1>8. CASE Show \/ Store
  BY <1>8, ServeSteps DEF B!Next, SinkNames
<1>9. ASSUME NEW c \in Causes, Reset(c) PROVE [B!Next]_B!bbvars
  BY <1>1, <1>9, ResetIsReset DEF B!Next
<1>10. CASE UNCHANGED vars
  BY <1>10 DEF vars, memory, task, start, ToServe, B!bbvars, QueueOf, Size
<1>. QED  BY <1>2, <1>3, <1>4, <1>5, <1>6, <1>7, <1>8, <1>9, <1>10 DEF Next, Drain

LEMMA InitRefines ==
  Init => B!Init
<1>1. QueueOf(EmptyRing) = <<>> /\ EmptyRing.dropped = 0
  BY DEF QueueOf, EmptyRing, Size
<1>. QED  BY <1>1 DEF Init, B!Init, ToServe

(* The ring, its indices modulo the capacity, the two records of one hook,  *)
(* the drain task and the resets, at any point of a push, are a queue that  *)
(* never refuses a record, counts what it gives up for lack of room and     *)
(* serves in order, for every capacity; a reset leaves it as it is, empty,  *)
(* or, if it is full, with another record in place of the oldest            *)
(* (NoinitRing.cpp:63, LogRouter.cpp:96, LogTask.cpp:70).                   *)
THEOREM CaptureImplementsBlackBox == Spec => ImplementsBlackBox
<1>. QED
  BY InitRefines, StepRefines, CaptureInvariant, PTL DEF Spec, ImplementsBlackBox, B!Spec
-----------------------------------------------------------------------------
(* The records of a boot tell of its lines *)

(* No record tells of no line. *)
LEMMA NothingIsTold == TellOf(<<>>, <<>>)
<1>1. Len(<<>>) = 0 /\ ~\E i \in 1..0 : TRUE
  OBVIOUS
<1>2. [i \in 1..0 |-> i] \in [1..0 -> 1..0]
  OBVIOUS
<1>3. Before([i \in 1..0 |-> i], 0 + 1) = 0
  BY DEF Before
<1>. QED  BY <1>1, <1>2, <1>3 DEF TellOf

(* Behind record n + 1 is where it ends. *)
LEMMA BeforeNext ==
  ASSUME NEW n \in Nat, NEW ends
  PROVE  Before(ends, n + 1 + 1) = ends[n + 1]
<1>1. PICK i : i = n + 1 + 1
  OBVIOUS
<1>2. i # 1 /\ i - 1 = n + 1
  BY <1>1
<1>3. Before(ends, i) = ends[i - 1]
  BY <1>2 DEF Before
<1>4. ends[i - 1] = ends[n + 1]
  BY <1>2, Zenon
<1>. QED  BY <1>1, <1>3, <1>4, Zenon

(* The ends are where they were, and the next is behind them. *)
LEMMA EndsGrow ==
  ASSUME NEW n \in Nat, NEW m \in Nat, NEW ends \in [1..n -> 1..m]
  PROVE  \E more \in [1..(n + 1) -> 1..(m + 1)] :
           /\ more[n + 1] = m + 1
           /\ \A i \in 1..n : more[i] = ends[i]
           /\ \A i \in 1..(n + 1) : Before(more, i) = Before(ends, i)
<1>. DEFINE more == [i \in 1..(n + 1) |-> IF i = n + 1 THEN m + 1 ELSE ends[i]]
<1>1. more \in [1..(n + 1) -> 1..(m + 1)]
  OBVIOUS
<1>2. more[n + 1] = m + 1 /\ \A i \in 1..n : more[i] = ends[i]
  OBVIOUS
<1>3. \A i \in 1..(n + 1) : i # 1 => i - 1 \in 1..n
  OBVIOUS
<1>. HIDE DEF more
<1>4. \A i \in 1..(n + 1) : Before(more, i) = Before(ends, i)
  BY <1>2, <1>3 DEF Before
<1>. QED  BY <1>1, <1>2, <1>4

(* A record of one line is told of that line. *)
LEMMA OneMoreIsTold ==
  ASSUME NEW rs \in Seq(Records), NEW ls \in Seq(Lines), TellOf(rs, ls),
         NEW r \in Records, LinesOf(r) = 1, r.line \in Lines
  PROVE  TellOf(Append(rs, r), Append(ls, r.line))
<1>. DEFINE n == Len(rs)
            m == Len(ls)
<1>1. n \in Nat /\ m \in Nat
  BY LenProperties
<1>2. PICK ends \in [1..n -> 1..m] :
        /\ \A i \in 1..n :
             /\ ends[i] = Before(ends, i) + LinesOf(rs[i])
             /\ \A k \in Before(ends, i) + 1..ends[i] : ls[k] = rs[i].line
        /\ m = Before(ends, n + 1)
  BY DEF TellOf
<1>3. /\ Len(Append(rs, r)) = n + 1
      /\ Append(rs, r)[n + 1] = r
      /\ \A i \in 1..n : Append(rs, r)[i] = rs[i]
      /\ Len(Append(ls, r.line)) = m + 1
      /\ Append(ls, r.line)[m + 1] = r.line
      /\ \A k \in 1..m : Append(ls, r.line)[k] = ls[k]
  BY AppendProperties
<1>. HIDE DEF n, m
<1>5. PICK more \in [1..(n + 1) -> 1..(m + 1)] :
        /\ more[n + 1] = m + 1
        /\ \A i \in 1..n : more[i] = ends[i]
        /\ \A i \in 1..(n + 1) : Before(more, i) = Before(ends, i)
  BY <1>1, EndsGrow, Zenon
<1>6. ASSUME NEW i \in 1..(n + 1)
      PROVE  /\ more[i] = Before(more, i) + LinesOf(Append(rs, r)[i])
             /\ \A k \in Before(more, i) + 1..more[i] : Append(ls, r.line)[k] = Append(rs, r)[i].line
  <2>1. CASE i = n + 1
    <3>1. Before(more, i) = m /\ more[i] = m + 1
      BY <1>2, <1>5, <2>1
    <3>2. \A k \in m + 1..m + 1 : k = m + 1
      BY <1>1
    <3>. QED  BY <1>3, <2>1, <3>1, <3>2
  <2>2. CASE i # n + 1
    <3>1. i \in 1..n
      BY <1>1, <2>2
    <3>2. /\ Before(more, i) = Before(ends, i) /\ more[i] = ends[i]
          /\ Append(rs, r)[i] = rs[i]
          /\ ends[i] = Before(ends, i) + LinesOf(rs[i])
          /\ \A k \in Before(ends, i) + 1..ends[i] : ls[k] = rs[i].line
      BY <1>2, <1>3, <1>5, <3>1
    <3>3. Before(ends, i) \in Nat /\ ends[i] \in 1..m
      <4>1. i # 1 => i - 1 \in 1..n
        BY <1>1, <3>1
      <4>. QED  BY <3>1, <4>1 DEF Before
    <3>4. \A k \in Before(ends, i) + 1..ends[i] : k \in 1..m
      BY <1>1, <3>3
    <3>. QED  BY <1>3, <3>2, <3>4
  <2>. QED  BY <2>1, <2>2
<1>7. m + 1 = Before(more, n + 1 + 1)
  BY <1>1, <1>5, BeforeNext
<1>. QED  BY <1>3, <1>5, <1>6, <1>7 DEF TellOf

(* A count that is one higher is told of one more line of the run. *)
LEMMA OneMoreIsCounted ==
  ASSUME NEW rs \in Seq(Records), NEW ls \in Seq(Lines), NEW l \in Lines, NEW c \in Nat \ {0},
         TellOf(Append(rs, [line |-> l, times |-> c]), ls)
  PROVE  TellOf(Append(rs, [line |-> l, times |-> c + 1]), Append(ls, l))
<1>. DEFINE n == Len(rs)
            m == Len(ls)
            r == [line |-> l, times |-> c]
            q == [line |-> l, times |-> c + 1]
<1>0. /\ r \in Records
      /\ q \in Records
      /\ LinesOf(r) = c
      /\ LinesOf(q) = c + 1
      /\ r.line = l
      /\ q.line = l
  BY DEF Records, Names, LinesOf
<1>. HIDE DEF r, q
<1>1. n \in Nat /\ m \in Nat
  BY LenProperties
<1>2. /\ Len(Append(rs, r)) = n + 1
      /\ Append(rs, r)[n + 1] = r
      /\ \A i \in 1..n : Append(rs, r)[i] = rs[i]
      /\ Len(Append(rs, q)) = n + 1
      /\ Append(rs, q)[n + 1] = q
      /\ \A i \in 1..n : Append(rs, q)[i] = rs[i]
      /\ Len(Append(ls, l)) = m + 1
      /\ Append(ls, l)[m + 1] = l
      /\ \A k \in 1..m : Append(ls, l)[k] = ls[k]
  BY <1>0, AppendProperties
<1>3. PICK ends \in [1..(n + 1) -> 1..m] :
        /\ \A i \in 1..(n + 1) :
             /\ ends[i] = Before(ends, i) + LinesOf(Append(rs, r)[i])
             /\ \A k \in Before(ends, i) + 1..ends[i] : ls[k] = Append(rs, r)[i].line
        /\ m = Before(ends, n + 1 + 1)
  <2>1. TellOf(Append(rs, r), ls)
    BY DEF r
  <2>. QED  BY <1>2, <2>1 DEF TellOf
<1>. HIDE DEF n, m
<1>4. n + 1 \in 1..(n + 1) /\ ends[n + 1] = m
  <2>1. n + 1 \in 1..(n + 1)
    BY <1>1
  <2>. QED  BY <1>1, <1>3, <2>1, BeforeNext
<1>6. PICK first \in [1..n -> 1..m] : \A i \in 1..n : first[i] = ends[i]
  <2>1. [i \in 1..n |-> ends[i]] \in [1..n -> 1..m]
    BY <1>1, <1>3
  <2>. QED  BY <2>1
<1>7. \A i \in 1..(n + 1) : i # 1 => i - 1 \in 1..n
  BY <1>1
<1>9. PICK more \in [1..(n + 1) -> 1..(m + 1)] :
        /\ more[n + 1] = m + 1
        /\ \A i \in 1..n : more[i] = first[i]
        /\ \A i \in 1..(n + 1) : Before(more, i) = Before(first, i)
  BY <1>1, EndsGrow, Zenon
<1>10. ASSUME NEW i \in 1..(n + 1)
       PROVE  Before(more, i) = Before(ends, i) /\ Before(ends, i) \in Nat
  BY <1>3, <1>6, <1>7, <1>9 DEF Before
<1>11. ASSUME NEW i \in 1..(n + 1)
       PROVE  /\ more[i] = Before(more, i) + LinesOf(Append(rs, q)[i])
              /\ \A k \in Before(more, i) + 1..more[i] : Append(ls, l)[k] = Append(rs, q)[i].line
  <2>0. Before(more, i) = Before(ends, i) /\ Before(ends, i) \in Nat
    BY <1>10
  <2>1. CASE i = n + 1
    <3>1. m = Before(ends, i) + c /\ \A k \in Before(ends, i) + 1..m : ls[k] = l
      BY <1>0, <1>2, <1>3, <1>4, <2>1
    <3>2. more[i] = Before(more, i) + LinesOf(Append(rs, q)[i])
      BY <1>0, <1>1, <1>2, <1>9, <2>0, <2>1, <3>1
    <3>3. ASSUME NEW k \in Before(more, i) + 1..more[i] PROVE Append(ls, l)[k] = l
      <4>1. k = m + 1 \/ (k \in 1..m /\ k \in Before(ends, i) + 1..m)
        BY <1>1, <1>9, <2>0, <2>1
      <4>. QED  BY <1>2, <3>1, <4>1
    <3>. QED  BY <1>0, <1>2, <2>1, <3>2, <3>3
  <2>2. CASE i # n + 1
    <3>1. i \in 1..n
      BY <1>1, <2>2
    <3>2. /\ more[i] = ends[i]
          /\ Append(rs, r)[i] = rs[i]
          /\ Append(rs, q)[i] = rs[i]
          /\ ends[i] \in 1..m
      BY <1>2, <1>3, <1>6, <1>9, <3>1
    <3>3. \A k \in Before(ends, i) + 1..ends[i] : k \in 1..m
      <4>. DEFINE lo == Before(ends, i)
                  hi == ends[i]
      <4>1. lo \in Nat /\ hi \in 1..m
        BY <2>0, <3>2
      <4>. HIDE DEF lo, hi
      <4>2. \A k \in lo + 1..hi : k \in 1..m
        BY <1>1, <4>1
      <4>. QED  BY <4>2 DEF lo, hi
    <3>. QED  BY <1>2, <1>3, <2>0, <3>2, <3>3
  <2>. QED  BY <2>1, <2>2
<1>12. m + 1 = Before(more, n + 1 + 1)
  BY <1>1, <1>9, BeforeNext
<1>. QED  BY <1>2, <1>9, <1>11, <1>12 DEF TellOf, q

(* A run that is counted is one of lines, and records and lines are those   *)
(* of the boot.                                                             *)
Exact ==
  /\ told \in Seq(Records)
  /\ heard \in Seq(Lines)
  /\ limiter.repeats \in Nat
  /\ limiter.repeats > 0 => limiter.last \in Lines
  /\ RunsAreExact

(* What is pending is one record at most. *)
LEMMA PendingIsOne ==
  ASSUME Exact
  PROVE  /\ limiter.repeats = 0 => told \o PendingFlush(limiter) = told
         /\ limiter.repeats # 0 =>
              /\ Summary(limiter) \in Records
              /\ PendingFlush(limiter) = <<Summary(limiter)>>
              /\ told \o PendingFlush(limiter) = Append(told, Summary(limiter))
<1>1. CASE limiter.repeats = 0
  BY <1>1, ConcatEmptySeq DEF Exact, PendingFlush
<1>2. CASE limiter.repeats # 0
  <2>1. limiter.repeats > 0 /\ limiter.last \in Lines
    BY <1>2 DEF Exact
  <2>2. Summary(limiter) \in Records
    BY <2>1 DEF Exact, Summary, Records, Names
  <2>3. PendingFlush(limiter) = <<Summary(limiter)>>
    BY <2>1 DEF PendingFlush
  <2>. QED  BY <1>2, <2>2, <2>3, AppendIsConcat DEF Exact
<1>. QED  BY <1>1, <1>2

(* A line goes on with the run that is open, or begins the next.             *)
LEMMA LogIsExact ==
  ASSUME Exact, NEW l \in Lines, Log(l)
  PROVE  Exact'
<1>0. /\ told \in Seq(Records) /\ heard \in Seq(Lines) /\ limiter.repeats \in Nat
      /\ heard' = Append(heard, l) /\ heard' \in Seq(Lines)
      /\ told' = told \o Emitted(limiter, l) /\ limiter' = Fed(limiter, l)
      /\ TellOf(told \o PendingFlush(limiter), heard)
  BY AppendProperties DEF Exact, Log, RunsAreExact
<1>1. CASE limiter.last = l
  <2>1. told' = told
    BY <1>0, <1>1, ConcatEmptySeq DEF Emitted
  <2>2. limiter'.repeats = limiter.repeats + 1 /\ limiter'.last = l
    BY <1>0, <1>1 DEF Fed, Log
  <2>3. [line |-> l, times |-> limiter.repeats + 1] \in Records
    BY <1>0 DEF Records, Names
  <2>4. told' \o PendingFlush(limiter') = Append(told, [line |-> l, times |-> limiter.repeats + 1])
    <3>1. PendingFlush(limiter') = <<[line |-> l, times |-> limiter.repeats + 1]>>
      BY <1>0, <2>2 DEF PendingFlush, Summary
    <3>. QED  BY <1>0, <2>1, <2>3, <3>1, AppendIsConcat
  <2>5. TellOf(Append(told, [line |-> l, times |-> limiter.repeats + 1]), heard')
    <3>1. CASE limiter.repeats = 0
      <4>1. TellOf(told, heard)
        BY <1>0, <3>1, PendingIsOne
      <4>2. [line |-> l, times |-> 1].line = l /\ LinesOf([line |-> l, times |-> 1]) = 1
            /\ [line |-> l, times |-> 1] \in Records /\ limiter.repeats + 1 = 1
        BY <2>3, <3>1 DEF LinesOf
      <4>3. TellOf(Append(told, [line |-> l, times |-> 1]), Append(heard, l))
        BY <1>0, <4>1, <4>2, OneMoreIsTold
      <4>. QED  BY <1>0, <4>2, <4>3
    <3>2. CASE limiter.repeats # 0
      <4>1. limiter.repeats \in Nat \ {0}
        BY <1>0, <3>2
      <4>2. Summary(limiter) = [line |-> l, times |-> limiter.repeats]
        BY <1>1 DEF Summary
      <4>3. TellOf(Append(told, [line |-> l, times |-> limiter.repeats]), heard)
        BY <1>0, <3>2, <4>2, PendingIsOne
      <4>. QED  BY <1>0, <4>1, <4>3, OneMoreIsCounted
    <3>. QED  BY <3>1, <3>2
  <2>. QED  BY <1>0, <2>1, <2>2, <2>4, <2>5 DEF Exact, RunsAreExact
<1>2. CASE limiter.last # l
  <2>1. limiter' = [last |-> l, repeats |-> 0]
    BY <1>0, <1>2 DEF Fed
  <2>2. Original(l) \in Records /\ LinesOf(Original(l)) = 1 /\ Original(l).line = l
    BY DEF Original, Records, Names, LinesOf
  <2>3. told' = Append(told \o PendingFlush(limiter), Original(l)) /\ told \o PendingFlush(limiter) \in Seq(Records)
    <3>1. CASE limiter.repeats = 0
      <4>1. Emitted(limiter, l) = <<Original(l)>>
        BY <1>2, <3>1 DEF Emitted
      <4>. QED  BY <1>0, <2>2, <3>1, <4>1, PendingIsOne, AppendIsConcat
    <3>2. CASE limiter.repeats # 0
      <4>1. limiter.repeats > 0 /\ Summary(limiter) \in Records
            /\ told \o PendingFlush(limiter) = Append(told, Summary(limiter))
            /\ PendingFlush(limiter) = <<Summary(limiter)>>
        BY <1>0, <3>2, PendingIsOne
      <4>2. Emitted(limiter, l) = <<Summary(limiter), Original(l)>>
        BY <1>2, <4>1 DEF Emitted
      <4>3. <<Summary(limiter), Original(l)>> = <<Summary(limiter)>> \o <<Original(l)>>
        OBVIOUS
      <4>4. <<Summary(limiter)>> \in Seq(Records) /\ <<Original(l)>> \in Seq(Records)
        BY <2>2, <4>1
      <4>5. told' = (told \o <<Summary(limiter)>>) \o <<Original(l)>>
        BY SMTT(30), <1>0, <4>2, <4>3, <4>4, ConcatAssociative
      <4>6. told \o <<Summary(limiter)>> \in Seq(Records)
        BY <1>0, <4>4, ConcatProperties
      <4>. QED  BY <2>2, <4>1, <4>5, <4>6, AppendIsConcat
    <3>. QED  BY <3>1, <3>2
  <2>4. told' \in Seq(Records)
    BY <2>2, <2>3, AppendProperties
  <2>5. TellOf(told', heard')
    BY <1>0, <2>2, <2>3, OneMoreIsTold
  <2>6. told' \o PendingFlush(limiter') = told'
    BY <2>1, <2>4, ConcatEmptySeq DEF PendingFlush
  <2>7. RunsAreExact'
    BY <2>5, <2>6 DEF RunsAreExact
  <2>8. limiter'.repeats = 0 /\ limiter'.repeats \in Nat /\ limiter'.last = l
    BY <2>1
  <2>9. heard' \in Seq(Lines)
    BY <1>0
  <2>. QED  BY <2>4, <2>7, <2>8, <2>9 DEF Exact
<1>. QED  BY <1>1, <1>2

(* Telling of the open run changes neither what is told nor how often.       *)
LEMMA FlushIsExact ==
  ASSUME Exact, Flush
  PROVE  Exact'
<1>1. /\ told' = told \o PendingFlush(limiter)
      /\ heard' = heard
      /\ limiter'.repeats = 0
  BY DEF Flush, Flushed, Exact
<1>2. told' \in Seq(Records)
  <2>1. CASE limiter.repeats = 0
    BY <1>1, <2>1, PendingIsOne DEF Exact
  <2>2. CASE limiter.repeats # 0
    <3>1. Summary(limiter) \in Records /\ told' = Append(told, Summary(limiter))
      BY <1>1, <2>2, PendingIsOne
    <3>. QED  BY <3>1, AppendProperties DEF Exact
  <2>. QED  BY <2>1, <2>2
<1>3. told' \o PendingFlush(limiter') = told'
  BY <1>1, <1>2, ConcatEmptySeq DEF PendingFlush
<1>. QED  BY <1>1, <1>2, <1>3 DEF Exact, RunsAreExact

(* Nothing else touches the limiter, what is heard or what is told. *)
LEMMA ExactAlone ==
  ASSUME Exact, UNCHANGED <<limiter, heard, told>>
  PROVE  Exact'
  BY DEF Exact, RunsAreExact

(* Nothing has been said at the start of a boot.                             *)
LEMMA FreshIsExact ==
  ASSUME limiter = FreshLimiter, heard = <<>>, told = <<>>
  PROVE  Exact
<1>1. limiter.repeats = 0 /\ PendingFlush(limiter) = <<>> /\ <<>> \o <<>> = <<>>
  BY DEF FreshLimiter, PendingFlush
<1>. QED  BY <1>1, NothingIsTold DEF Exact, RunsAreExact

(* A boot starts with nothing heard and nothing told. *)
LEMMA ResetIsExact ==
  ASSUME NEW c \in Causes, Reset(c)
  PROVE  Exact'
<1>1. limiter' = FreshLimiter /\ heard' = <<>> /\ told' = <<>>
  BY DEF Reset
<1>2. limiter'.repeats = 0 /\ PendingFlush(limiter') = <<>> /\ <<>> \o <<>> = <<>>
  BY <1>1 DEF FreshLimiter, PendingFlush
<1>. QED  BY <1>1, <1>2, NothingIsTold DEF Exact, RunsAreExact

(* The rate limiter compresses and never filters, for any lines, of which   *)
(* any may come before the boot is inspected, and any interleaving of the   *)
(* hook with the flush: the records made of the lines of a boot, and the    *)
(* run still open, are those lines (RateLimiter.h:11, LogRouter.cpp:96).    *)
THEOREM RunsAreExactHolds == Spec => []RunsAreExact
<1>1. Init => Exact
  BY FreshIsExact DEF Init
<1>2. Exact /\ [Next]_vars => Exact'
  <2>. SUFFICES ASSUME Exact, [Next]_vars PROVE Exact'
    OBVIOUS
  <2>1. ASSUME NEW l \in Lines, Log(l) PROVE Exact'
    BY <2>1, LogIsExact
  <2>2. CASE Flush
    BY <2>2, FlushIsExact
  <2>3. CASE Install \/ Inspect
    BY <2>3, ExactAlone DEF Install, Inspect
  <2>4. ASSUME NEW e \in Events, Event(e) PROVE Exact'
    BY <2>4, ExactAlone DEF Event
  <2>5. CASE Pop \/ Pause \/ Show \/ Store \/ NotYetDue
    BY <2>5, ExactAlone DEF Pop, Pause, Show, Store, NotYetDue
  <2>6. ASSUME NEW c \in Causes, Reset(c) PROVE Exact'
    BY <2>6, ResetIsExact
  <2>7. CASE UNCHANGED vars
    BY <2>7, ExactAlone DEF vars
  <2>. QED  BY <2>1, <2>2, <2>3, <2>4, <2>5, <2>6, <2>7 DEF Next, Drain
<1>3. Exact => RunsAreExact
  BY DEF Exact
<1>. QED  BY <1>1, <1>2, <1>3, PTL DEF Spec

-----------------------------------------------------------------------------
(* Numbers, parts of texts and what is put into them *)

USE LogTextAssumption

\* Messages and secrets.
Text == Seq(Symbols)

\* A set of natural numbers that is not empty has a least one.
LEMMA Least ==
  ASSUME NEW T \in SUBSET Nat, T # {}
  PROVE  \E n \in T : \A m \in T : n <= m
<1>. DEFINE Less == {ss \in Nat \X Nat : ss[1] < ss[2]}
<1>1. IsWellFoundedOn(Less, Nat)
  BY NatLessThanWellFounded DEF OpToRel
<1>. HIDE DEF Less
<1>2. PICK n \in T : \A m \in T : ~(<<m, n>> \in Less)
  BY <1>1, WFMin
<1>3. \A m \in T : ~(m < n)
  BY <1>2 DEF Less
<1>. QED
  BY <1>3

\* What holds of 0, and of a number when of the one before, holds of all: there is no least
\* number of which it does not.
LEMMA CountingUp ==
  ASSUME NEW T, NEW N \in Nat, 0 \in T, \A n \in 0 .. N - 1 : n \in T => n + 1 \in T
  PROVE  \A n \in 0 .. N : n \in T
<1>. DEFINE Failing == {n \in 0 .. N : n \notin T}
<1>. SUFFICES ASSUME Failing # {} PROVE FALSE
  OBVIOUS
<1>1. PICK n \in Failing : \A m \in Failing : n <= m
  <2>1. Failing \in SUBSET Nat
    OBVIOUS
  <2>. HIDE DEF Failing
  <2>. QED
    BY <2>1, Least
<1>2. n \in Nat /\ n # 0 /\ n <= N /\ n - 1 \in 0 .. N - 1 /\ n - 1 + 1 = n /\ n \notin T
  OBVIOUS
<1>3. n - 1 \notin T
  BY <1>2
<1>4. n - 1 \in Failing
  BY <1>2, <1>3
<1>. QED
  BY <1>1, <1>2, <1>4

\* A loop that makes something of what it has got, N times.
Iterates(run, S, x, N, step) ==
  /\ run \in [0 .. N -> S]
  /\ \A n \in 0 .. N : run[n] = IF n = 0 THEN x ELSE step[n][run[n - 1]]

\* A function that is defined by what it makes of its value before exists.
LEMMA IterationExists ==
  ASSUME NEW S, NEW x \in S, NEW N \in Nat, NEW step \in [1 .. N -> [S -> S]]
  PROVE  \E run : Iterates(run, S, x, N, step)
<1>. DEFINE Runs(m) == {run \in [0 .. m -> S] :
                          \A n \in 0 .. m : run[n] = IF n = 0 THEN x ELSE step[n][run[n - 1]]}
            T == {m \in Nat : Runs(m) # {}}
<1>1. 0 \in T
  <2>. DEFINE run == [n \in 0 .. 0 |-> x]
  <2>1. run \in Runs(0)
    OBVIOUS
  <2>. QED
    BY <2>1
<1>2. ASSUME NEW m \in 0 .. N - 1, m \in T PROVE m + 1 \in T
  <2>1. PICK run \in [0 .. m -> S] :
          \A n \in 0 .. m : run[n] = IF n = 0 THEN x ELSE step[n][run[n - 1]]
    BY <1>2
  <2>. DEFINE longer == [n \in 0 .. m + 1 |-> IF n = m + 1 THEN step[m + 1][run[m]] ELSE run[n]]
  <2>2. m + 1 \in 1 .. N /\ m \in 0 .. m /\ m + 1 \in Nat
    OBVIOUS
  <2>3. step[m + 1][run[m]] \in S
    BY <2>1, <2>2
  <2>4. longer \in [0 .. m + 1 -> S]
    <3>1. ASSUME NEW n \in 0 .. m + 1, n # m + 1 PROVE run[n] \in S
      BY <2>1, <3>1
    <3>. QED
      BY <2>3, <3>1
  <2>5. \A n \in 0 .. m : longer[n] = run[n] /\ n # m + 1
    OBVIOUS
  <2>6. longer[m + 1] = step[m + 1][run[m]] /\ m + 1 # 0
    OBVIOUS
  <2>. HIDE DEF longer
  <2>7. ASSUME NEW n \in 0 .. m + 1
        PROVE  longer[n] = IF n = 0 THEN x ELSE step[n][longer[n - 1]]
    <3>1. CASE n = m + 1
      <4>1. n - 1 = m
        BY <3>1
      <4>. QED
        BY <2>2, <2>5, <2>6, <3>1, <4>1
    <3>2. CASE n # m + 1
      <4>1. n \in 0 .. m /\ (n # 0 => n - 1 \in 0 .. m)
        BY <3>2
      <4>. QED
        BY <2>1, <2>5, <4>1
    <3>. QED
      BY <3>1, <3>2
  <2>8. longer \in Runs(m + 1)
    BY <2>4, <2>7
  <2>. QED
    BY <2>2, <2>8
<1>3. N \in T
  <2>. HIDE DEF T
  <2>1. \A m \in 0 .. N : m \in T
    BY <1>1, <1>2, CountingUp
  <2>. QED
    BY <2>1
<1>. QED
  BY <1>3 DEF Iterates

\* The part of a sequence after one place, up to another.
LEMMA Part ==
  ASSUME NEW S, NEW s \in Seq(S), NEW lo \in Nat, NEW hi \in Nat, lo <= hi, hi <= Len(s)
  PROVE  /\ SubSeq(s, lo + 1, hi) \in Seq(S)
         /\ Len(SubSeq(s, lo + 1, hi)) = hi - lo
         /\ \A k \in 1 .. hi - lo : SubSeq(s, lo + 1, hi)[k] = s[lo + k]
<1>1. \A i \in lo + 1 .. hi : s[i] \in S
  <2>. TAKE i \in lo + 1 .. hi
  <2>1. i \in 1 .. Len(s)
    BY LenProperties
  <2>. QED
    BY <2>1, ElementOfSeq
<1>2. /\ SubSeq(s, lo + 1, hi) \in Seq(S)
      /\ Len(SubSeq(s, lo + 1, hi)) = IF lo + 1 <= hi THEN hi - (lo + 1) + 1 ELSE 0
      /\ \A k \in 1 .. hi - (lo + 1) + 1 : SubSeq(s, lo + 1, hi)[k] = s[lo + 1 + k - 1]
  BY <1>1, SubSeqProperties
<1>3. /\ (IF lo + 1 <= hi THEN hi - (lo + 1) + 1 ELSE 0) = hi - lo
      /\ hi - (lo + 1) + 1 = hi - lo /\ \A k \in 1 .. hi - lo : lo + 1 + k - 1 = lo + k
  OBVIOUS
<1>. QED
  BY <1>2, <1>3

\* What replaces part of a text, and what is left beside it.
LEMMA Replaced ==
  ASSUME NEW text \in Text, NEW secret \in Text, NEW mask \in Text, NEW pos \in Nat \ {0},
         pos + Len(secret) - 1 <= Len(text)
  PROVE  LET r == Masked(text, pos, secret, mask) IN
         /\ r \in Text /\ Len(r) = Len(text) - Len(secret) + Len(mask)
         /\ \A i \in 1 .. pos - 1 : r[i] = text[i]
         /\ \A i \in 1 .. Len(mask) : r[pos - 1 + i] = mask[i]
         /\ \A i \in pos + Len(mask) .. Len(r) : r[i] = text[i - Len(mask) + Len(secret)]
<1>. DEFINE before == SubSeq(text, 1, pos - 1)
            after == SubSeq(text, pos + Len(secret), Len(text))
            r == Masked(text, pos, secret, mask)
            n == Len(text)
            m == Len(mask)
            l == Len(secret)
<1>1. n \in Nat /\ m \in Nat /\ l \in Nat
  BY LenProperties DEF Text
<1>2. /\ before \in Text /\ Len(before) = pos - 1
      /\ \A k \in 1 .. pos - 1 : before[k] = text[k]
  <2>1. pos - 1 \in Nat /\ 0 \in Nat /\ 0 <= pos - 1 /\ pos - 1 <= n
    BY <1>1
  <2>2. /\ SubSeq(text, 0 + 1, pos - 1) \in Text /\ Len(SubSeq(text, 0 + 1, pos - 1)) = pos - 1 - 0
        /\ \A k \in 1 .. pos - 1 - 0 : SubSeq(text, 0 + 1, pos - 1)[k] = text[0 + k]
    BY <2>1, Part DEF Text
  <2>3. 0 + 1 = 1 /\ pos - 1 - 0 = pos - 1 /\ \A k \in 1 .. pos - 1 : 0 + k = k
    OBVIOUS
  <2>. QED
    BY <2>2, <2>3
<1>3. /\ after \in Text /\ Len(after) = n - (pos + l - 1)
      /\ \A k \in 1 .. n - (pos + l - 1) : after[k] = text[pos + l - 1 + k]
  <2>. DEFINE lo == pos + l - 1
  <2>1. lo \in Nat /\ lo <= n /\ lo + 1 = pos + l
    BY <1>1
  <2>2. text \in Seq(Symbols) /\ n = Len(text) /\ after = SubSeq(text, lo + 1, n)
    BY <2>1 DEF Text
  <2>. HIDE DEF lo, n, after
  <2>3. /\ SubSeq(text, lo + 1, n) \in Seq(Symbols) /\ Len(SubSeq(text, lo + 1, n)) = n - lo
        /\ \A k \in 1 .. n - lo : SubSeq(text, lo + 1, n)[k] = text[lo + k]
    BY <1>1, <2>1, <2>2, Part
  <2>. QED
    BY <2>2, <2>3 DEF Text, lo
<1>4. r = before \o mask \o after
  BY DEF Masked
<1>. HIDE DEF before, after, r, n, m, l
<1>5. /\ before \o mask \in Text /\ Len(before \o mask) = pos - 1 + m
      /\ \A i \in 1 .. pos - 1 + m :
           (before \o mask)[i] = IF i <= pos - 1 THEN before[i] ELSE mask[i - (pos - 1)]
  <2>1. /\ before \o mask \in Text /\ Len(before \o mask) = Len(before) + Len(mask)
        /\ \A i \in 1 .. Len(before) + Len(mask) :
             (before \o mask)[i] = IF i <= Len(before) THEN before[i] ELSE mask[i - Len(before)]
    <3>1. before \in Seq(Symbols) /\ mask \in Seq(Symbols)
      BY <1>2 DEF Text
    <3>2. /\ before \o mask \in Seq(Symbols) /\ Len(before \o mask) = Len(before) + Len(mask)
          /\ \A i \in 1 .. Len(before) + Len(mask) :
               (before \o mask)[i] = IF i <= Len(before) THEN before[i] ELSE mask[i - Len(before)]
      BY <3>1, ConcatProperties
    <3>. QED
      BY <3>2 DEF Text
  <2>2. Len(before) = pos - 1 /\ Len(mask) = m
    BY <1>2 DEF m
  <2>. QED
    BY <2>1, <2>2
<1>6. /\ r \in Text /\ Len(r) = pos - 1 + m + (n - (pos + l - 1))
      /\ \A i \in 1 .. pos - 1 + m + (n - (pos + l - 1)) :
           r[i] = IF i <= pos - 1 + m THEN (before \o mask)[i] ELSE after[i - (pos - 1 + m)]
  <2>. DEFINE head == before \o mask
  <2>1. head \in Text /\ after \in Text /\ r = head \o after
    BY <1>3, <1>4, <1>5
  <2>2. Len(head) = pos - 1 + m /\ Len(after) = n - (pos + l - 1)
    BY <1>3, <1>5
  <2>. HIDE DEF head
  <2>3. /\ r \in Text /\ Len(r) = Len(head) + Len(after)
        /\ \A i \in 1 .. Len(head) + Len(after) :
             r[i] = IF i <= Len(head) THEN head[i] ELSE after[i - Len(head)]
    BY <2>1, ConcatProperties DEF Text
  <2>4. /\ r \in Text /\ Len(r) = pos - 1 + m + (n - (pos + l - 1))
        /\ \A i \in 1 .. pos - 1 + m + (n - (pos + l - 1)) :
             r[i] = IF i <= pos - 1 + m THEN head[i] ELSE after[i - (pos - 1 + m)]
    BY <2>2, <2>3
  <2>. QED
    BY <2>4 DEF head
<1>7. pos - 1 + m + (n - (pos + l - 1)) = n - l + m /\ pos + l - 1 <= n
  BY <1>1 DEF n, l
<1>8. ASSUME NEW i \in 1 .. pos - 1 PROVE r[i] = text[i]
  <2>1. /\ i \in 1 .. pos - 1 + m /\ i \in 1 .. pos - 1 + m + (n - (pos + l - 1))
        /\ i <= pos - 1 /\ i <= pos - 1 + m
    BY <1>1, <1>7
  <2>2. r[i] = (before \o mask)[i]
    BY <1>6, <2>1
  <2>3. (before \o mask)[i] = before[i]
    BY <1>5, <2>1
  <2>. QED
    BY <1>2, <2>2, <2>3
<1>9. ASSUME NEW i \in 1 .. m PROVE r[pos - 1 + i] = mask[i]
  <2>1. /\ pos - 1 + i \in 1 .. pos - 1 + m /\ ~(pos - 1 + i <= pos - 1)
        /\ pos - 1 + i \in 1 .. pos - 1 + m + (n - (pos + l - 1)) /\ pos - 1 + i - (pos - 1) = i
    BY <1>1, <1>7
  <2>. DEFINE j == pos - 1 + i
  <2>2. j \in 1 .. pos - 1 + m + (n - (pos + l - 1)) /\ j <= pos - 1 + m
    BY <2>1
  <2>3. j \in 1 .. pos - 1 + m /\ ~(j <= pos - 1) /\ j - (pos - 1) = i
    BY <2>1
  <2>. HIDE DEF j
  <2>4. r[j] = (before \o mask)[j]
    BY <1>6, <2>2
  <2>5. (before \o mask)[j] = mask[j - (pos - 1)]
    BY <1>5, <2>3
  <2>. QED
    BY <2>3, <2>4, <2>5 DEF j
<1>10. ASSUME NEW i \in pos + m .. Len(r) PROVE r[i] = text[i - m + l]
  <2>1. /\ i \in 1 .. pos - 1 + m + (n - (pos + l - 1)) /\ ~(i <= pos - 1 + m)
        /\ i - (pos - 1 + m) \in 1 .. n - (pos + l - 1)
        /\ pos + l - 1 + (i - (pos - 1 + m)) = i - m + l
    <3>. DEFINE base == pos - 1 + m
                rest == n - (pos + l - 1)
    <3>1. Len(r) = base + rest /\ base \in Nat /\ rest \in Nat /\ pos + m = base + 1
      BY <1>1, <1>6, <1>7
    <3>2. pos + l - 1 + (i - base) = i - m + l
      BY <1>1
    <3>. HIDE DEF base, rest
    <3>3. i \in 1 .. base + rest /\ ~(i <= base) /\ i - base \in 1 .. rest
      BY <3>1
    <3>. QED
      BY <3>2, <3>3 DEF base, rest
  <2>. QED
    BY <1>3, <1>6, <2>1
<1>11. Len(r) = n - l + m
  BY <1>6, <1>7
<1>. QED
  BY <1>6, <1>8, <1>9, <1>10, <1>11 DEF r, n, m, l

\* A secret is in a text where their characters agree.
LEMMA IsAtMeans ==
  ASSUME NEW text \in Text, NEW secret \in Text, NEW i \in Nat \ {0},
         i + Len(secret) - 1 <= Len(text)
  PROVE  IsAt(text, i, secret) <=> \A k \in 1 .. Len(secret) : text[i + k - 1] = secret[k]
<1>. DEFINE l == Len(secret)
            sub == SubSeq(text, i, i + l - 1)
<1>1. l \in Nat
  BY LenProperties DEF Text
<1>2. /\ sub \in Text /\ Len(sub) = l
      /\ \A k \in 1 .. l : sub[k] = text[i + k - 1]
  <2>1. /\ i - 1 \in Nat /\ i + l - 1 \in Nat /\ i - 1 <= i + l - 1 /\ i + l - 1 <= Len(text)
        /\ i - 1 + 1 = i /\ i + l - 1 - (i - 1) = l
    BY <1>1
  <2>2. \A k \in 1 .. l : i - 1 + k = i + k - 1
    BY <1>1
  <2>. HIDE DEF l
  <2>. DEFINE lo == i - 1
              hi == i + l - 1
  <2>3. lo \in Nat /\ hi \in Nat /\ lo <= hi /\ hi <= Len(text) /\ lo + 1 = i /\ hi - lo = l
    BY <1>1, <2>1
  <2>. HIDE DEF lo, hi
  <2>4. /\ SubSeq(text, lo + 1, hi) \in Text
        /\ Len(SubSeq(text, lo + 1, hi)) = hi - lo
        /\ \A k \in 1 .. hi - lo : SubSeq(text, lo + 1, hi)[k] = text[lo + k]
    <3>1. text \in Seq(Symbols)
      BY DEF Text
    <3>2. /\ SubSeq(text, lo + 1, hi) \in Seq(Symbols)
          /\ Len(SubSeq(text, lo + 1, hi)) = hi - lo
          /\ \A k \in 1 .. hi - lo : SubSeq(text, lo + 1, hi)[k] = text[lo + k]
      BY <2>3, <3>1, Part
    <3>. QED
      BY <3>2 DEF Text
  <2>. QED
    BY <2>2, <2>3, <2>4 DEF lo, hi
<1>3. IsAt(text, i, secret) <=> sub = secret
  BY DEF IsAt
<1>. HIDE DEF sub, l
<1>4. sub = secret <=> \A k \in 1 .. l : sub[k] = secret[k]
  <2>1. Len(secret) = l
    BY DEF l
  <2>. QED
    BY <1>2, <2>1, SeqEqual DEF Text
<1>. QED
  BY <1>2, <1>3, <1>4 DEF l

\* What is put over a secret: at least one of the mask's characters.
IsMask(mask) == mask \in Text /\ Len(mask) \in Nat \ {0} /\ \A k \in 1 .. Len(mask) : mask[k] = "*"

\* What is registered is a text, and not the empty one.
LEMMA SecretIsText ==
  ASSUME NEW secret, IsSecret(secret)
  PROVE  secret \in Text /\ Len(secret) \in Nat \ {0}
  BY EmptySeq DEF IsSecret, Text

\* The whole mask is one.
LEMMA WholeMaskIs == IsMask(Mask) /\ Len(Mask) = 3
<1>1. Mask \in Text /\ Len(Mask) = 3
  <2>1. Len(Mask) = 3
    BY DEF Mask
  <2>2. "*" \in Symbols
    BY LogTextAssumption
  <2>3. <<"*", "*", "*">> \in Seq(Symbols)
    BY <2>2
  <2>. QED
    BY <2>1, <2>3 DEF Mask, Text
<1>2. \A k \in 1 .. 3 : Mask[k] = "*"
  BY DEF Mask
<1>. QED
  BY <1>1, <1>2 DEF IsMask

\* In place there is always room for a character of the mask, and never for too many.
LEMMA MaskFits ==
  ASSUME NEW text \in Text, Len(text) <= MessageRoom, NEW secret, IsSecret(secret)
  PROVE  LET mask == MaskFor(text, secret) IN
         /\ IsMask(mask)
         /\ Len(text) - Len(secret) + Len(mask) <= MessageRoom
         /\ Len(secret) >= Len(Mask) => mask = Mask
<1>. DEFINE available == MessageRoom - Len(text)
            l == Len(secret)
            n == Len(text)
            mask == MaskFor(text, secret)
<1>1. l \in Nat \ {0} /\ n \in Nat /\ n <= MessageRoom /\ MessageRoom \in Nat
  BY SecretIsText, LenProperties DEF Text
<1>2. IsMask(Mask) /\ Len(Mask) = 3
  BY WholeMaskIs
<1>3. mask = IF 3 - l > available THEN SubSeq(Mask, 1, l + available) ELSE Mask
  BY <1>2 DEF MaskFor
<1>. HIDE DEF mask
<1>4. CASE 3 - l > available
  <2>. DEFINE hi == l + available
  <2>1. hi \in Nat \ {0} /\ hi <= 3 /\ n - l + hi <= MessageRoom /\ l < 3
    BY <1>1, <1>4
  <2>2. mask = SubSeq(Mask, 0 + 1, hi)
    BY <1>3, <1>4
  <2>. HIDE DEF hi
  <2>3. mask \in Text /\ Len(mask) = hi /\ \A k \in 1 .. hi : mask[k] = Mask[k]
    <3>1. Mask \in Seq(Symbols) /\ 0 \in Nat /\ hi \in Nat /\ 0 <= hi /\ hi <= Len(Mask)
          /\ hi - 0 = hi /\ \A k \in 1 .. hi : 0 + k = k
      BY <1>2, <2>1 DEF IsMask, Text
    <3>. QED
      BY <2>2, <3>1, Part DEF Text
  <2>4. \A k \in 1 .. hi : k \in 1 .. Len(Mask)
    BY <1>2, <2>1
  <2>5. IsMask(mask)
    BY <1>2, <2>1, <2>3, <2>4 DEF IsMask
  <2>. QED
    BY <1>1, <1>2, <2>1, <2>3, <2>5 DEF mask
<1>5. CASE ~(3 - l > available)
  <2>1. mask = Mask
    BY <1>3, <1>5
  <2>2. n - l + 3 <= MessageRoom
    BY <1>1, <1>5
  <2>. QED
    BY <1>2, <2>1, <2>2 DEF mask
<1>. QED
  BY <1>4, <1>5

\* Masking makes no occurrence: one that is left was there, before the mask or behind it.
LEMMA NothingNew ==
  ASSUME NEW text \in Text, NEW secret \in Text, NEW mask, IsMask(mask), NEW pos \in Nat \ {0},
         pos + Len(secret) - 1 <= Len(text), NEW other, IsSecret(other), IsUnlikeMask(other),
         NEW i \in Nat \ {0}, i + Len(other) - 1 <= Len(Masked(text, pos, secret, mask)),
         IsAt(Masked(text, pos, secret, mask), i, other)
  PROVE  \/ i + Len(other) <= pos /\ IsAt(text, i, other)
         \/ i >= pos + Len(mask) /\ IsAt(text, i - Len(mask) + Len(secret), other)
<1>. DEFINE r == Masked(text, pos, secret, mask)
            n == Len(text)
            m == Len(mask)
            l == Len(secret)
            o == Len(other)
<1>1. /\ n \in Nat /\ m \in Nat \ {0} /\ l \in Nat /\ o \in Nat \ {0}
      /\ other \in Text /\ mask \in Text
  BY LenProperties, SecretIsText DEF Text, IsMask
<1>2. /\ r \in Text /\ Len(r) = n - l + m
      /\ \A k \in 1 .. pos - 1 : r[k] = text[k]
      /\ \A k \in 1 .. m : r[pos - 1 + k] = mask[k]
      /\ \A k \in pos + m .. Len(r) : r[k] = text[k - m + l]
  BY <1>1, Replaced
<1>3. \A k \in 1 .. o : r[i + k - 1] = other[k]
  <2>1. i + Len(other) - 1 <= Len(r) /\ IsAt(r, i, other)
    OBVIOUS
  <2>2. r \in Text /\ other \in Text
    BY <1>1, <1>2
  <2>. HIDE DEF r
  <2>3. \A k \in 1 .. Len(other) : r[i + k - 1] = other[k]
    BY <2>1, <2>2, IsAtMeans
  <2>. QED
    BY <2>3
<1>. HIDE DEF r
<1>4. CASE i + o <= pos
  <2>1. ASSUME NEW k \in 1 .. o PROVE text[i + k - 1] = other[k]
    <3>1. i + k - 1 \in 1 .. pos - 1
      BY <1>1, <1>4
    <3>. QED
      BY <1>2, <1>3, <3>1
  <2>2. i + Len(other) - 1 <= Len(text)
    BY <1>1, <1>4
  <2>3. IsAt(text, i, other)
    BY <1>1, <2>1, <2>2, IsAtMeans
  <2>. QED
    BY <1>4, <2>3
<1>5. CASE i >= pos + m
  <2>. DEFINE j == i - m + l
  <2>1. j \in Nat \ {0} /\ j + o - 1 <= n /\ i + o - 1 <= n - l + m
    BY <1>1, <1>2, <1>5 DEF r
  <2>2. ASSUME NEW k \in 1 .. o PROVE text[j + k - 1] = other[k]
    <3>1. i + k - 1 \in pos + m .. Len(r) /\ i + k - 1 - m + l = j + k - 1
      <4>1. Len(r) = n - l + m
        BY <1>2
      <4>2. i + k - 1 \in pos + m .. n - l + m
        BY <1>1, <1>5, <2>1
      <4>3. i + k - 1 - m + l = j + k - 1
        BY <1>1
      <4>. QED
        BY <4>1, <4>2, <4>3
    <3>2. r[i + k - 1] = text[i + k - 1 - m + l]
      <4>1. \A at \in pos + m .. Len(r) : r[at] = text[at - m + l]
        BY <1>2
      <4>. QED
        BY <3>1, <4>1
    <3>3. r[i + k - 1] = other[k]
      BY <1>3
    <3>. QED
      BY <3>1, <3>2, <3>3
  <2>. HIDE DEF j
  <2>3. IsAt(text, j, other)
    BY <1>1, <2>1, <2>2, IsAtMeans
  <2>. QED
    BY <1>5, <2>3 DEF j
<1>6. CASE i < pos + m /\ pos < i + o
  <2>. DEFINE k == IF i <= pos THEN pos - i + 1 ELSE 1
              at == i + k - 1
  <2>1. k \in 1 .. o /\ at \in pos .. pos + m - 1
    BY <1>1, <1>6
  <2>. HIDE DEF k
  <2>2. at - pos + 1 \in 1 .. m /\ pos - 1 + (at - pos + 1) = at
    BY <1>1, <2>1
  <2>. HIDE DEF at
  <2>3. r[at] = mask[at - pos + 1]
    BY <1>2, <2>2
  <2>4. mask[at - pos + 1] = "*"
    BY <2>2 DEF IsMask
  <2>5. r[at] = other[k]
    BY <1>3, <2>1 DEF at
  <2>6. other[k] # "*"
    BY <2>1 DEF IsUnlikeMask
  <2>. QED
    BY <2>3, <2>4, <2>5, <2>6
<1>. QED
  BY <1>1, <1>4, <1>5, <1>6

\* How far a loop has come.
Places == [text : Text, pos : Nat \ {0}]

\* Nothing of the secret is left before the place a loop has come to.
Cleared(at, secret) ==
  \A i \in 1 .. at.pos - 1 : i + Len(secret) - 1 <= Len(at.text) => ~IsAt(at.text, i, secret)

\* What a loop has come to: a text and a place.
LEMMA PlaceIs ==
  ASSUME NEW at \in Places
  PROVE  at.text \in Text /\ at.pos \in Nat \ {0} /\ Len(at.text) \in Nat
  BY LenProperties DEF Places, Text

\* What was hidden stays hidden where one more secret is masked.
LEMMA StaysHidden ==
  ASSUME NEW text \in Text, NEW secret \in Text, NEW mask, IsMask(mask), NEW pos \in Nat \ {0},
         pos + Len(secret) - 1 <= Len(text), NEW other, IsSecret(other),
         IsUnlikeMask(other), Hides(text, other)
  PROVE  Hides(Masked(text, pos, secret, mask), other)
<1>. DEFINE r == Masked(text, pos, secret, mask)
<1>. SUFFICES ASSUME NEW i \in 1 .. Len(r) - Len(other) + 1, IsAt(r, i, other) PROVE FALSE
  BY DEF Hides
<1>1. /\ Len(other) \in Nat \ {0} /\ Len(text) \in Nat /\ Len(secret) \in Nat
      /\ Len(mask) \in Nat \ {0} /\ Len(r) = Len(text) - Len(secret) + Len(mask)
  BY SecretIsText, LenProperties, Replaced DEF Text, IsMask
<1>2. i \in Nat \ {0} /\ i + Len(other) - 1 <= Len(r)
  BY <1>1
<1>3. \/ i + Len(other) <= pos /\ IsAt(text, i, other)
      \/ i >= pos + Len(mask) /\ IsAt(text, i - Len(mask) + Len(secret), other)
  BY <1>2, NothingNew
<1>. HIDE DEF r
<1>4. ASSUME i + Len(other) <= pos, IsAt(text, i, other) PROVE FALSE
  <2>1. i \in 1 .. Len(text) - Len(other) + 1
    BY <1>1, <1>2, <1>4
  <2>. QED
    BY <1>4, <2>1 DEF Hides
<1>5. ASSUME i >= pos + Len(mask), IsAt(text, i - Len(mask) + Len(secret), other) PROVE FALSE
  <2>1. i - Len(mask) + Len(secret) \in 1 .. Len(text) - Len(other) + 1
    BY <1>1, <1>2, <1>5
  <2>. QED
    BY <1>5, <2>1 DEF Hides
<1>. QED
  BY <1>3, <1>4, <1>5

\* Nor is there any of the secret itself before the end of its mask.
LEMMA ClearedByMask ==
  ASSUME NEW at \in Places, NEW secret, IsSecret(secret), IsUnlikeMask(secret),
         NEW mask, IsMask(mask), Cleared(at, secret),
         NEW pos \in Nat \ {0}, pos + Len(secret) - 1 <= Len(at.text), at.pos <= pos,
         \A i \in at.pos .. pos - 1 : ~IsAt(at.text, i, secret),
         NEW q, q = [text |-> Masked(at.text, pos, secret, mask), pos |-> pos + Len(mask)]
  PROVE  q \in Places /\ Cleared(q, secret)
<1>1. /\ at.text \in Text /\ at.pos \in Nat \ {0} /\ Len(at.text) \in Nat
      /\ secret \in Text /\ Len(secret) \in Nat \ {0} /\ Len(mask) \in Nat \ {0} /\ mask \in Text
  BY PlaceIs, SecretIsText DEF IsMask
<1>2. q.text \in Text /\ q.text = Masked(at.text, pos, secret, mask) /\ q.pos = pos + Len(mask)
  BY <1>1, Replaced
<1>3. q \in Places
  BY <1>1, <1>2 DEF Places
<1>4. ASSUME NEW i \in 1 .. q.pos - 1, i + Len(secret) - 1 <= Len(q.text), IsAt(q.text, i, secret)
      PROVE  FALSE
  <2>1. i \in Nat \ {0} /\ ~(i >= pos + Len(mask))
    BY <1>1, <1>2
  <2>2. i + Len(secret) <= pos /\ IsAt(at.text, i, secret)
    BY <1>1, <1>2, <1>4, <2>1, NothingNew
  <2>3. CASE i < at.pos
    <3>1. i \in 1 .. at.pos - 1 /\ i + Len(secret) - 1 <= Len(at.text)
      BY <1>1, <2>1, <2>2, <2>3
    <3>. QED
      BY <2>2, <3>1 DEF Cleared
  <2>4. CASE i >= at.pos
    <3>1. i \in at.pos .. pos - 1
      BY <1>1, <2>1, <2>2, <2>4
    <3>. QED
      BY <2>2, <3>1
  <2>. QED
    BY <1>1, <2>1, <2>3, <2>4
<1>. QED
  BY <1>3, <1>4 DEF Cleared

\* One pass of redactInPlace()'s loop.
LEMMA ScannedIs ==
  ASSUME NEW at \in Places, Len(at.text) <= MessageRoom, NEW secret, IsSecret(secret),
         NEW q, q = Scanned(at, secret)
  PROVE  /\ q \in Places /\ Len(q.text) <= MessageRoom
         /\ IsUnlikeMask(secret) /\ Cleared(at, secret) => Cleared(q, secret)
         /\ \A other : IsSecret(other) /\ IsUnlikeMask(other) /\ Hides(at.text, other)
                        => Hides(q.text, other)
         /\ IF at.pos + Len(secret) - 1 > Len(at.text) THEN q = at
            ELSE Len(q.text) - q.pos < Len(at.text) - at.pos
<1>. DEFINE text == at.text
            pos == at.pos
            mask == MaskFor(text, secret)
<1>1. /\ text \in Text /\ pos \in Nat \ {0} /\ Len(text) \in Nat
      /\ secret \in Text /\ Len(secret) \in Nat \ {0}
  BY PlaceIs, SecretIsText
<1>2. IsMask(mask) /\ Len(text) - Len(secret) + Len(mask) <= MessageRoom /\ Len(mask) \in Nat
  BY <1>1, MaskFits DEF IsMask
<1>3. q = IF pos + Len(secret) - 1 > Len(text) THEN at
          ELSE IF IsAt(text, pos, secret)
          THEN [text |-> Masked(text, pos, secret, mask), pos |-> pos + Len(mask)]
          ELSE [at EXCEPT !.pos = @ + 1]
  BY DEF Scanned
<1>. HIDE DEF mask
<1>4. CASE pos + Len(secret) - 1 > Len(text)
  BY <1>3, <1>4
<1>5. CASE ~(pos + Len(secret) - 1 > Len(text)) /\ IsAt(text, pos, secret)
  <2>1. q = [text |-> Masked(text, pos, secret, mask), pos |-> pos + Len(mask)]
    BY <1>3, <1>5
  <2>2. pos + Len(secret) - 1 <= Len(text) /\ \A i \in pos .. pos - 1 : ~IsAt(text, i, secret)
    BY <1>1, <1>5
  <2>3. Len(q.text) = Len(text) - Len(secret) + Len(mask) /\ q.pos = pos + Len(mask)
        /\ q.text = Masked(text, pos, secret, mask)
        /\ q.text \in Text
    <3>1. q.text = Masked(text, pos, secret, mask) /\ q.pos = pos + Len(mask)
      BY <2>1
    <3>2. mask \in Text
      BY <1>2 DEF IsMask
    <3>. HIDE DEF text, pos
    <3>3. /\ Masked(text, pos, secret, mask) \in Text
          /\ Len(Masked(text, pos, secret, mask)) = Len(text) - Len(secret) + Len(mask)
      BY <1>1, <2>2, <3>2, Replaced
    <3>. QED
      BY <3>1, <3>3
  <2>4. q \in Places /\ (IsUnlikeMask(secret) /\ Cleared(at, secret) => Cleared(q, secret))
    <3>1. q \in Places
      BY <1>1, <1>2, <2>1, <2>3 DEF Places
    <3>2. ASSUME IsUnlikeMask(secret), Cleared(at, secret) PROVE Cleared(q, secret)
      <4>1. at.pos <= pos
        BY <1>1
      <4>2. \A i \in at.pos .. pos - 1 : ~IsAt(at.text, i, secret)
        BY <2>2
      <4>. HIDE DEF pos
      <4>. QED
        BY <1>1, <1>2, <2>1, <2>2, <3>2, <4>1, <4>2, ClearedByMask
    <3>. QED
      BY <3>1, <3>2
  <2>5. ASSUME NEW other, IsSecret(other), IsUnlikeMask(other), Hides(at.text, other)
        PROVE  Hides(q.text, other)
    BY <1>1, <1>2, <2>2, <2>3, <2>5, StaysHidden
  <2>6. Len(q.text) <= MessageRoom /\ Len(q.text) - q.pos < Len(text) - pos
    BY <1>1, <1>2, <2>3
  <2>. QED
    BY <1>5, <2>4, <2>5, <2>6
<1>6. CASE ~(pos + Len(secret) - 1 > Len(text)) /\ ~IsAt(text, pos, secret)
  <2>1. q = [at EXCEPT !.pos = @ + 1]
    BY <1>3, <1>6
  <2>2. q \in Places /\ q.text = text /\ q.pos = pos + 1
    BY <1>1, <2>1 DEF Places
  <2>3. ASSUME Cleared(at, secret) PROVE Cleared(q, secret)
    <3>1. \A i \in 1 .. q.pos - 1 : i \in 1 .. pos - 1 \/ i = pos
      BY <1>1, <2>2
    <3>. QED
      BY <1>6, <2>2, <2>3, <3>1 DEF Cleared
  <2>. QED
    BY <1>1, <1>6, <2>2, <2>3
<1>. QED
  BY <1>4, <1>5, <1>6

\* The two loops, as their definitions have them.
ScanRun(run, text, secret) ==
  run = [n \in 0 .. Len(text) |->
           IF n = 0 THEN [text |-> text, pos |-> 1] ELSE Scanned(run[n - 1], secret)]
SearchRun(run, text, secret) ==
  run = [n \in 0 .. Len(text) |->
           IF n = 0 THEN [text |-> text, pos |-> 1] ELSE Searched(run[n - 1], secret)]

\* redactInPlace()'s loop exists for every text that fits the buffer.
LEMMA ScanRunExists ==
  ASSUME NEW text \in Text, Len(text) <= MessageRoom, NEW secret, IsSecret(secret)
  PROVE  \E run : ScanRun(run, text, secret)
<1>. DEFINE N == Len(text)
            S == {at \in Places : Len(at.text) <= MessageRoom}
            begin == [text |-> text, pos |-> 1]
            step == [n \in 1 .. N |-> [at \in S |-> Scanned(at, secret)]]
<1>1. N \in Nat /\ begin \in S
  BY LenProperties DEF Text, Places
<1>2. \A at \in S : Scanned(at, secret) \in S
  BY ScannedIs
<1>3. step \in [1 .. N -> [S -> S]]
  BY <1>2
<1>. HIDE DEF S
<1>9. \A n \in 1 .. N, at \in S : step[n][at] = Scanned(at, secret)
  OBVIOUS
<1>. HIDE DEF S, begin, step, N
<1>10. PICK run : Iterates(run, S, begin, N, step)
  BY <1>1, <1>3, IterationExists
<1>4. /\ run \in [0 .. N -> S]
      /\ \A n \in 0 .. N : run[n] = IF n = 0 THEN begin ELSE step[n][run[n - 1]]
  BY <1>10 DEF Iterates
<1>5. \A n \in 0 .. N : run[n] = IF n = 0 THEN begin ELSE Scanned(run[n - 1], secret)
  <2>. TAKE n \in 0 .. N
  <2>1. CASE n = 0
    BY <1>4, <2>1
  <2>2. CASE n # 0
    <3>1. n \in 1 .. N /\ n - 1 \in 0 .. N
      BY <1>1, <2>2
    <3>. QED
      BY <1>4, <1>9, <2>2, <3>1
  <2>. QED
    BY <2>1, <2>2
<1>6. run = [n \in 0 .. N |-> run[n]]
  BY <1>4
<1>7. [n \in 0 .. N |-> run[n]] =
      [n \in 0 .. N |-> IF n = 0 THEN begin ELSE Scanned(run[n - 1], secret)]
  BY <1>5, Zenon
<1>8. ScanRun(run, text, secret)
  BY <1>6, <1>7, Zenon DEF ScanRun, N, begin
<1>. QED
  BY <1>8

\* Where the loop is after n passes: it has cleared what it passed, keeps what was hidden, and
\* is over or n places further.
LoopIs(at, n, text, secret) ==
  /\ at \in Places /\ Len(at.text) <= MessageRoom
  /\ IsUnlikeMask(secret) => Cleared(at, secret)
  /\ \A other : IsSecret(other) /\ IsUnlikeMask(other) /\ Hides(text, other)
                 => Hides(at.text, other)
  /\ \/ at.pos + Len(secret) - 1 > Len(at.text)
     \/ Len(at.text) - at.pos <= Len(text) - 1 - n

\* So it is after every pass.
LEMMA ScanRunIs ==
  ASSUME NEW text \in Text, Len(text) <= MessageRoom, NEW secret, IsSecret(secret),
         NEW run, ScanRun(run, text, secret)
  PROVE  \A n \in 0 .. Len(text) : LoopIs(run[n], n, text, secret)
<1>. DEFINE N == Len(text)
            T == {n \in 0 .. N : LoopIs(run[n], n, text, secret)}
            begin == [text |-> text, pos |-> 1]
<1>1. N \in Nat /\ 0 \in 0 .. N
  BY LenProperties DEF Text
<1>2. \A n \in 0 .. N : run[n] = IF n = 0 THEN begin ELSE Scanned(run[n - 1], secret)
  BY DEF ScanRun
<1>3. 0 \in T
  <2>1. run[0] = begin
    BY <1>1, <1>2
  <2>2. begin \in Places /\ begin.text = text /\ begin.pos = 1
    BY DEF Places
  <2>. HIDE DEF begin
  <2>3. Cleared(begin, secret)
    BY <2>2 DEF Cleared
  <2>4. LoopIs(begin, 0, text, secret)
    BY <1>1, <2>2, <2>3 DEF LoopIs
  <2>. QED
    BY <1>1, <2>1, <2>4
<1>4. ASSUME NEW n \in 0 .. N - 1, n \in T PROVE n + 1 \in T
  <2>. DEFINE at == run[n]
              q == run[n + 1]
  <2>1. q = Scanned(at, secret) /\ n + 1 \in 0 .. N
    <3>1. n + 1 \in 0 .. N /\ n + 1 # 0 /\ n + 1 - 1 = n
      BY <1>1
    <3>. QED
      BY <1>2, <3>1
  <2>2. LoopIs(at, n, text, secret)
    BY <1>4
  <2>. HIDE DEF at, q
  <2>3. /\ q \in Places /\ Len(q.text) <= MessageRoom
        /\ IsUnlikeMask(secret) => Cleared(q, secret)
        /\ \A other : IsSecret(other) /\ IsUnlikeMask(other) /\ Hides(at.text, other)
                       => Hides(q.text, other)
        /\ IF at.pos + Len(secret) - 1 > Len(at.text) THEN q = at
           ELSE Len(q.text) - q.pos < Len(at.text) - at.pos
    BY <2>1, <2>2, ScannedIs DEF LoopIs
  <2>4. \A other : IsSecret(other) /\ IsUnlikeMask(other) /\ Hides(text, other)
                     => Hides(q.text, other)
    BY <2>2, <2>3 DEF LoopIs
  <2>5. \/ q.pos + Len(secret) - 1 > Len(q.text)
        \/ Len(q.text) - q.pos <= N - 1 - (n + 1)
    <3>1. CASE at.pos + Len(secret) - 1 > Len(at.text)
      BY <2>3, <3>1
    <3>2. CASE ~(at.pos + Len(secret) - 1 > Len(at.text))
      <4>1. Len(at.text) - at.pos <= N - 1 - n
        BY <2>2, <3>2 DEF LoopIs
      <4>2. Len(q.text) \in Nat /\ q.pos \in Nat /\ Len(at.text) \in Nat /\ at.pos \in Nat
        BY <2>2, <2>3, PlaceIs DEF LoopIs
      <4>3. Len(q.text) - q.pos < Len(at.text) - at.pos
        BY <2>3, <3>2
      <4>. DEFINE a == Len(at.text) - at.pos
                  b == Len(q.text) - q.pos
      <4>4. a \in Int /\ b \in Int /\ b < a /\ a <= N - 1 - n
        BY <4>1, <4>2, <4>3
      <4>. HIDE DEF a, b, N
      <4>5. b <= N - 1 - (n + 1)
        BY <1>1, <4>4
      <4>. QED
        BY <4>5 DEF b, N
    <3>. QED
      BY <3>1, <3>2
  <2>6. LoopIs(q, n + 1, text, secret)
    BY <2>3, <2>4, <2>5 DEF LoopIs
  <2>. QED
    BY <2>1, <2>6 DEF q
<1>. HIDE DEF T
<1>5. \A n \in 0 .. N : n \in T
  BY <1>1, <1>3, <1>4, CountingUp
<1>. QED
  BY <1>5 DEF T

\* What redactInPlace() makes of a message for one secret.
LEMMA OneIsRedactedInPlace ==
  ASSUME NEW text \in Text, Len(text) <= MessageRoom, NEW secret, IsSecret(secret),
         NEW q, q = RedactedInPlace(text, secret)
  PROVE  /\ q \in Text /\ Len(q) <= MessageRoom
         /\ IsUnlikeMask(secret) => Hides(q, secret)
         /\ \A other : IsSecret(other) /\ IsUnlikeMask(other) /\ Hides(text, other)
                        => Hides(q, other)
<1>. DEFINE run == CHOOSE run : ScanRun(run, text, secret)
            at == run[Len(text)]
<1>1. q = at.text
  BY DEF RedactedInPlace, ScanRun
<1>2. ScanRun(run, text, secret)
  BY ScanRunExists
<1>3. Len(text) \in Nat /\ Len(secret) \in Nat \ {0}
  BY LenProperties, SecretIsText DEF Text
<1>4. LoopIs(at, Len(text), text, secret)
  <2>. HIDE DEF run
  <2>1. Len(text) \in 0 .. Len(text)
    BY <1>3
  <2>. QED
    BY <1>2, <2>1, ScanRunIs
<1>. HIDE DEF at
<1>5. at.text \in Text /\ Len(at.text) \in Nat /\ at.pos \in Nat \ {0}
  BY <1>4, PlaceIs DEF LoopIs
<1>6. at.pos + Len(secret) - 1 > Len(at.text)
  BY <1>3, <1>4, <1>5 DEF LoopIs
<1>7. \A i \in 1 .. Len(at.text) - Len(secret) + 1 :
        i \in 1 .. at.pos - 1 /\ i + Len(secret) - 1 <= Len(at.text)
  BY <1>3, <1>5, <1>6
<1>8. IsUnlikeMask(secret) => Hides(at.text, secret)
  BY <1>4, <1>7 DEF Hides, LoopIs, Cleared
<1>. QED
  BY <1>1, <1>4, <1>5, <1>8 DEF LoopIs

-----------------------------------------------------------------------------
(* The two redactors for one secret *)

\* The least of a set of natural numbers is what Min chooses.
LEMMA MinIs ==
  ASSUME NEW T \in SUBSET Nat, T # {}
  PROVE  Min(T) \in T /\ \A m \in T : Min(T) <= m
<1>1. \E n \in T : \A m \in T : n <= m
  BY Least
<1>. QED
  BY <1>1 DEF Min

\* What redact() finds: places of the text from the last mask on.
LEMMA OccurrencesAre ==
  ASSUME NEW at \in Places, NEW secret, IsSecret(secret)
  PROVE  /\ Occurrences(at, secret) \in SUBSET Nat
         /\ \A i : i \in Occurrences(at, secret) <=>
                     /\ i \in Nat \ {0} /\ at.pos <= i /\ i + Len(secret) - 1 <= Len(at.text)
                     /\ IsAt(at.text, i, secret)
<1>1. at.pos \in Nat \ {0} /\ Len(at.text) \in Nat /\ Len(secret) \in Nat \ {0}
  BY PlaceIs, SecretIsText
<1>2. \A i : i \in at.pos .. Len(at.text) - Len(secret) + 1 <=>
               i \in Nat \ {0} /\ at.pos <= i /\ i + Len(secret) - 1 <= Len(at.text)
  BY <1>1
<1>. QED
  BY <1>1, <1>2 DEF Occurrences

\* One pass of redact()'s loop.
LEMMA SearchedIs ==
  ASSUME NEW at \in Places, NEW secret, IsSecret(secret), NEW q, q = Searched(at, secret)
  PROVE  /\ q \in Places
         /\ Occurrences(at, secret) = {} => q = at
         /\ \A i \in Occurrences(at, secret) :
              (\A j \in Occurrences(at, secret) : i <= j) =>
              q = [text |-> Masked(at.text, i, secret, Mask), pos |-> i + Len(Mask)]
<1>. DEFINE found == Occurrences(at, secret)
            first == Min(found)
<1>1. /\ found \in SUBSET Nat
      /\ \A i : i \in found <=> /\ i \in Nat \ {0} /\ at.pos <= i
                                /\ i + Len(secret) - 1 <= Len(at.text)
                                /\ IsAt(at.text, i, secret)
  BY OccurrencesAre
<1>2. q = IF found = {} THEN at
          ELSE [text |-> Masked(at.text, first, secret, Mask), pos |-> first + Len(Mask)]
  BY DEF Searched
<1>. HIDE DEF found, first
<1>3. CASE found = {}
  BY <1>2, <1>3 DEF found
<1>4. CASE found # {}
  <2>1. first \in found /\ \A m \in found : first <= m
    BY <1>1, <1>4, MinIs DEF first
  <2>2. ASSUME NEW i \in found, \A j \in found : i <= j PROVE i = first
    <3>1. i \in Nat /\ first \in Nat /\ i <= first /\ first <= i
      BY <1>1, <2>1, <2>2
    <3>. QED
      BY <3>1
  <2>3. q \in Places
    <3>1. /\ at.text \in Text /\ secret \in Text /\ Mask \in Text /\ first \in Nat \ {0}
          /\ first + Len(secret) - 1 <= Len(at.text) /\ Len(Mask) = 3
      BY <1>1, <2>1, PlaceIs, SecretIsText, WholeMaskIs DEF IsMask
    <3>2. Masked(at.text, first, secret, Mask) \in Text
      BY <3>1, Replaced
    <3>3. first + Len(Mask) \in Nat \ {0}
      BY <3>1
    <3>. QED
      BY <1>2, <1>4, <3>2, <3>3 DEF Places
  <2>. QED
    BY <1>2, <1>4, <2>2, <2>3 DEF found
<1>. QED
  BY <1>3, <1>4

\* redact()'s loop exists for every text.
LEMMA SearchRunExists ==
  ASSUME NEW text \in Text, NEW secret, IsSecret(secret)
  PROVE  \E run : SearchRun(run, text, secret)
<1>. DEFINE N == Len(text)
            begin == [text |-> text, pos |-> 1]
            step == [n \in 1 .. N |-> [at \in Places |-> Searched(at, secret)]]
<1>1. N \in Nat /\ begin \in Places
  BY LenProperties DEF Text, Places
<1>2. \A at \in Places : Searched(at, secret) \in Places
  BY SearchedIs
<1>3. step \in [1 .. N -> [Places -> Places]]
  BY <1>2
<1>4. \A n \in 1 .. N, at \in Places : step[n][at] = Searched(at, secret)
  OBVIOUS
<1>. HIDE DEF begin, step, N
<1>5. PICK run : Iterates(run, Places, begin, N, step)
  BY <1>1, <1>3, IterationExists
<1>6. /\ run \in [0 .. N -> Places]
      /\ \A n \in 0 .. N : run[n] = IF n = 0 THEN begin ELSE step[n][run[n - 1]]
  BY <1>5 DEF Iterates
<1>7. \A n \in 0 .. N : run[n] = IF n = 0 THEN begin ELSE Searched(run[n - 1], secret)
  <2>. TAKE n \in 0 .. N
  <2>1. CASE n = 0
    BY <1>6, <2>1
  <2>2. CASE n # 0
    <3>1. n \in 1 .. N /\ n - 1 \in 0 .. N
      BY <1>1, <2>2
    <3>. QED
      BY <1>4, <1>6, <2>2, <3>1
  <2>. QED
    BY <2>1, <2>2
<1>8. run = [n \in 0 .. N |-> run[n]]
  BY <1>6
<1>9. [n \in 0 .. N |-> run[n]] =
      [n \in 0 .. N |-> IF n = 0 THEN begin ELSE Searched(run[n - 1], secret)]
  BY <1>7, Zenon
<1>10. SearchRun(run, text, secret)
  BY <1>8, <1>9, Zenon DEF SearchRun, N, begin
<1>. QED
  BY <1>10

\* What the search has masked is what the loop in place has, and it has not passed an occurrence.
IsBehind(search, scan, secret) ==
  /\ search \in Places
  /\ search.text = scan.text /\ search.pos <= scan.pos
  /\ \A i \in search.pos .. scan.pos - 1 :
       i + Len(secret) - 1 <= Len(scan.text) => ~IsAt(scan.text, i, secret)

\* A pass in place leaves it so, or is the next step of the search.
LEMMA StaysBehind ==
  ASSUME NEW scan \in Places, Len(scan.text) <= MessageRoom, NEW secret, IsSecret(secret),
         Len(secret) >= Len(Mask), NEW search, IsBehind(search, scan, secret),
         NEW q, q = Scanned(scan, secret)
  PROVE  IsBehind(search, q, secret) \/ IsBehind(Searched(search, secret), q, secret)
<1>. DEFINE text == scan.text
            pos == scan.pos
            mask == MaskFor(text, secret)
<1>1. /\ text \in Text /\ pos \in Nat \ {0} /\ Len(text) \in Nat
      /\ search \in Places /\ search.pos \in Nat \ {0} /\ search.text = text
      /\ secret \in Text /\ Len(secret) \in Nat \ {0} /\ Len(Mask) = 3 /\ search.pos <= pos
  BY PlaceIs, SecretIsText, WholeMaskIs DEF IsBehind
<1>2. mask = Mask
  BY <1>1, MaskFits
<1>3. q = IF pos + Len(secret) - 1 > Len(text) THEN scan
          ELSE IF IsAt(text, pos, secret)
          THEN [text |-> Masked(text, pos, secret, Mask), pos |-> pos + Len(Mask)]
          ELSE [scan EXCEPT !.pos = @ + 1]
  BY <1>2 DEF Scanned
<1>. HIDE DEF mask
<1>4. CASE pos + Len(secret) - 1 > Len(text)
  BY <1>3, <1>4
<1>5. CASE ~(pos + Len(secret) - 1 > Len(text)) /\ IsAt(text, pos, secret)
  <2>1. q = [text |-> Masked(text, pos, secret, Mask), pos |-> pos + Len(Mask)]
    BY <1>3, <1>5
  <2>2. pos \in Occurrences(search, secret)
    BY <1>1, <1>5, OccurrencesAre
  <2>3. ASSUME NEW j \in Occurrences(search, secret) PROVE pos <= j
    <3>1. /\ j \in Nat \ {0} /\ search.pos <= j /\ j + Len(secret) - 1 <= Len(text)
          /\ IsAt(text, j, secret)
      BY <1>1, OccurrencesAre
    <3>2. ASSUME j < pos PROVE FALSE
      <4>1. j \in search.pos .. scan.pos - 1
        BY <1>1, <3>1, <3>2
      <4>. QED
        BY <3>1, <4>1 DEF IsBehind
    <3>. QED
      BY <1>1, <3>1, <3>2
  <2>4. Searched(search, secret) = q /\ Searched(search, secret) \in Places
    BY <1>1, <2>1, <2>2, <2>3, SearchedIs
  <2>5. q.pos \in Nat
    BY <2>4, PlaceIs
  <2>6. IsBehind(q, q, secret)
    BY <2>4, <2>5 DEF IsBehind
  <2>. QED
    BY <2>4, <2>6
<1>6. CASE ~(pos + Len(secret) - 1 > Len(text)) /\ ~IsAt(text, pos, secret)
  <2>1. q = [scan EXCEPT !.pos = @ + 1]
    BY <1>3, <1>6
  <2>2. q.text = text /\ q.pos = pos + 1
    BY <1>1, <2>1 DEF Places
  <2>3. \A i \in search.pos .. q.pos - 1 : i \in search.pos .. pos - 1 \/ i = pos
    BY <1>1, <2>2
  <2>4. IsBehind(search, q, secret)
    BY <1>1, <1>6, <2>2, <2>3 DEF IsBehind
  <2>. QED
    BY <2>4
<1>. QED
  BY <1>4, <1>5, <1>6

\* A search that finds nothing stays where it is.
LEMMA SearchStops ==
  ASSUME NEW text \in Text, NEW secret, IsSecret(secret), NEW run, SearchRun(run, text, secret),
         NEW k \in 0 .. Len(text), run[k] \in Places, Occurrences(run[k], secret) = {}
  PROVE  run[Len(text)] = run[k]
<1>. DEFINE N == Len(text)
            T == {n \in 0 .. N : n >= k => run[n] = run[k]}
<1>1. N \in Nat /\ 0 \in 0 .. N /\ k \in Nat
  BY LenProperties DEF Text
<1>2. \A n \in 0 .. N : n # 0 => run[n] = Searched(run[n - 1], secret)
  BY DEF SearchRun
<1>3. Searched(run[k], secret) = run[k]
  BY SearchedIs
<1>4. 0 \in T
  BY <1>1
<1>5. ASSUME NEW n \in 0 .. N - 1, n \in T PROVE n + 1 \in T
  <2>1. n + 1 \in 0 .. N /\ n + 1 # 0 /\ n + 1 - 1 = n
    BY <1>1
  <2>2. run[n + 1] = Searched(run[n], secret)
    BY <1>2, <2>1
  <2>3. n + 1 >= k => n >= k \/ n + 1 = k
    BY <1>1
  <2>4. n + 1 >= k => run[n + 1] = run[k]
    BY <1>3, <1>5, <2>2, <2>3
  <2>. QED
    BY <2>1, <2>4
<1>. HIDE DEF T
<1>6. \A n \in 0 .. N : n \in T
  BY <1>1, <1>4, <1>5, CountingUp
<1>7. N \in T /\ N >= k
  BY <1>1, <1>6
<1>. QED
  BY <1>7 DEF T

\* For one secret that is no shorter than the mask the two redactors agree.
LEMMA OneIsRedactedTheSame ==
  ASSUME NEW text \in Text, Len(text) <= MessageRoom, NEW secret, IsSecret(secret),
         Len(secret) >= Len(Mask)
  PROVE  RedactedInPlace(text, secret) = Redacted(text, secret)
<1>. DEFINE scan == CHOOSE run : ScanRun(run, text, secret)
            search == CHOOSE run : SearchRun(run, text, secret)
            N == Len(text)
            begin == [text |-> text, pos |-> 1]
<1>1. RedactedInPlace(text, secret) = scan[N].text /\ Redacted(text, secret) = search[N].text
  BY DEF RedactedInPlace, Redacted, ScanRun, SearchRun
<1>2. ScanRun(scan, text, secret) /\ SearchRun(search, text, secret)
  BY ScanRunExists, SearchRunExists
<1>. HIDE DEF scan, search
<1>. DEFINE T == {n \in 0 .. N : \E k \in 0 .. n : IsBehind(search[k], scan[n], secret)}
<1>3. N \in Nat /\ 0 \in 0 .. N /\ 0 \in 0 .. 0
  BY LenProperties DEF Text
<1>4. \A n \in 0 .. N : LoopIs(scan[n], n, text, secret)
  BY <1>2, ScanRunIs
<1>5. \A n \in 0 .. N : scan[n] = IF n = 0 THEN begin ELSE Scanned(scan[n - 1], secret)
  BY <1>2 DEF ScanRun
<1>6. \A n \in 0 .. N : search[n] = IF n = 0 THEN begin ELSE Searched(search[n - 1], secret)
  BY <1>2 DEF SearchRun
<1>7. 0 \in T
  <2>1. scan[0] = begin /\ search[0] = begin
    BY <1>3, <1>5, <1>6
  <2>2. begin \in Places /\ begin.pos = 1
    BY DEF Places
  <2>. HIDE DEF begin
  <2>3. IsBehind(begin, begin, secret)
    BY <2>2 DEF IsBehind
  <2>. QED
    BY <1>3, <2>1, <2>3
<1>8. ASSUME NEW n \in 0 .. N - 1, n \in T PROVE n + 1 \in T
  <2>1. PICK k \in 0 .. n : IsBehind(search[k], scan[n], secret)
    BY <1>8
  <2>2. /\ n + 1 \in 0 .. N /\ n + 1 # 0 /\ n + 1 - 1 = n /\ n \in 0 .. N
        /\ k \in 0 .. n + 1 /\ k + 1 \in 0 .. n + 1 /\ k + 1 \in 0 .. N
        /\ k + 1 # 0 /\ k + 1 - 1 = k
    BY <1>3
  <2>3. scan[n + 1] = Scanned(scan[n], secret)
    BY <1>5, <2>2
  <2>4. search[k + 1] = Searched(search[k], secret)
    BY <1>6, <2>2
  <2>5. scan[n] \in Places /\ Len(scan[n].text) <= MessageRoom
    BY <1>4, <2>2 DEF LoopIs
  <2>6. \/ IsBehind(search[k], scan[n + 1], secret)
        \/ IsBehind(search[k + 1], scan[n + 1], secret)
    BY <2>1, <2>3, <2>4, <2>5, StaysBehind
  <2>. QED
    BY <2>2, <2>6
<1>. HIDE DEF T
<1>9. \A n \in 0 .. N : n \in T
  BY <1>3, <1>7, <1>8, CountingUp
<1>10. PICK k \in 0 .. N : IsBehind(search[k], scan[N], secret)
  <2>1. N \in 0 .. N
    BY <1>3
  <2>. QED
    BY <1>9, <2>1 DEF T
<1>. DEFINE at == scan[N]
            found == search[k]
<1>11. LoopIs(at, N, text, secret) /\ IsBehind(found, at, secret)
  <2>1. N \in 0 .. N
    BY <1>3
  <2>. QED
    BY <1>4, <1>10, <2>1
<1>. HIDE DEF at, found, N
<1>12. /\ at.pos \in Nat \ {0} /\ Len(at.text) \in Nat /\ Len(secret) \in Nat \ {0}
       /\ found \in Places /\ found.text = at.text /\ found.pos \in Nat \ {0}
  BY <1>11, PlaceIs, SecretIsText DEF LoopIs, IsBehind
<1>13. at.pos + Len(secret) - 1 > Len(at.text)
  BY <1>3, <1>11, <1>12 DEF LoopIs, N
<1>14. Occurrences(found, secret) = {}
  <2>. SUFFICES ASSUME NEW i \in Occurrences(found, secret) PROVE FALSE
    OBVIOUS
  <2>1. /\ i \in Nat \ {0} /\ found.pos <= i /\ i + Len(secret) - 1 <= Len(at.text)
        /\ IsAt(at.text, i, secret)
    BY <1>12, OccurrencesAre
  <2>2. i \in found.pos .. at.pos - 1
    <3>. DEFINE f == found.pos
                a == at.pos
                n == Len(at.text)
                l == Len(secret)
    <3>1. f \in Nat /\ a \in Nat /\ n \in Nat /\ l \in Nat
      BY <1>12
    <3>2. a + l - 1 > n /\ f <= i /\ i + l - 1 <= n
      BY <1>13, <2>1
    <3>. HIDE DEF f, a, n, l
    <3>3. i \in f .. a - 1
      BY <2>1, <3>1, <3>2
    <3>. QED
      BY <3>3 DEF f, a
  <2>. QED
    BY <1>11, <2>1, <2>2 DEF IsBehind
<1>15. search[N] = found
  BY <1>2, <1>12, <1>14, SearchStops DEF found, N
<1>. QED
  BY <1>1, <1>12, <1>15 DEF at

-----------------------------------------------------------------------------
(* The two redactors for all of them *)

\* The messages that fit the buffer.
Short == {text \in Text : Len(text) <= MessageRoom}

\* The two loops over the secrets, as their definitions have them.
InPlaceList(done, text, secrets) ==
  done = [k \in 0 .. Len(secrets) |->
            IF k = 0 THEN text ELSE RedactedInPlace(done[k - 1], secrets[k])]
CopyList(done, text, secrets) ==
  done = [k \in 0 .. Len(secrets) |->
            IF k = 0 THEN text ELSE Redacted(done[k - 1], secrets[k])]

\* redactInPlace()'s loop over the secrets exists.
LEMMA InPlaceListExists ==
  ASSUME NEW text \in Short, NEW secrets \in Seq(Text),
         \A i \in 1 .. Len(secrets) : IsSecret(secrets[i])
  PROVE  \E done : InPlaceList(done, text, secrets) /\ done \in [0 .. Len(secrets) -> Short]
<1>. DEFINE N == Len(secrets)
            step == [k \in 1 .. N |-> [t \in Short |-> RedactedInPlace(t, secrets[k])]]
<1>1. N \in Nat
  BY LenProperties
<1>2. \A k \in 1 .. N, t \in Short : RedactedInPlace(t, secrets[k]) \in Short
  BY OneIsRedactedInPlace DEF Short
<1>3. step \in [1 .. N -> [Short -> Short]]
  BY <1>2
<1>4. \A k \in 1 .. N, t \in Short : step[k][t] = RedactedInPlace(t, secrets[k])
  OBVIOUS
<1>. HIDE DEF step, N
<1>5. PICK done : Iterates(done, Short, text, N, step)
  BY <1>1, <1>3, IterationExists
<1>6. /\ done \in [0 .. N -> Short]
      /\ \A k \in 0 .. N : done[k] = IF k = 0 THEN text ELSE step[k][done[k - 1]]
  BY <1>5 DEF Iterates
<1>7. \A k \in 0 .. N : done[k] = IF k = 0 THEN text ELSE RedactedInPlace(done[k - 1], secrets[k])
  <2>. TAKE k \in 0 .. N
  <2>1. CASE k = 0
    BY <1>6, <2>1
  <2>2. CASE k # 0
    <3>1. k \in 1 .. N /\ k - 1 \in 0 .. N
      BY <1>1, <2>2
    <3>. QED
      BY <1>4, <1>6, <2>2, <3>1
  <2>. QED
    BY <2>1, <2>2
<1>8. done = [k \in 0 .. N |-> done[k]]
  BY <1>6
<1>9. [k \in 0 .. N |-> done[k]] =
      [k \in 0 .. N |-> IF k = 0 THEN text ELSE RedactedInPlace(done[k - 1], secrets[k])]
  BY <1>7, Zenon
<1>10. InPlaceList(done, text, secrets)
  BY <1>8, <1>9, Zenon DEF InPlaceList, N
<1>. QED
  BY <1>6, <1>10 DEF N

\* After a secret's turn the buffer holds no more than it can, and none of the secrets so far.
LEMMA InPlaceListIs ==
  ASSUME NEW text \in Short, NEW secrets \in Seq(Text),
         \A i \in 1 .. Len(secrets) : IsSecret(secrets[i]),
         NEW done, InPlaceList(done, text, secrets)
  PROVE  \A k \in 0 .. Len(secrets) :
           /\ done[k] \in Short
           /\ \A i \in 1 .. k : IsUnlikeMask(secrets[i]) => Hides(done[k], secrets[i])
<1>. DEFINE N == Len(secrets)
            Good(k) == /\ done[k] \in Short
                       /\ \A i \in 1 .. k : IsUnlikeMask(secrets[i]) => Hides(done[k], secrets[i])
            T == {k \in 0 .. N : Good(k)}
<1>1. N \in Nat /\ 0 \in 0 .. N
  BY LenProperties
<1>2. \A k \in 0 .. N : done[k] = IF k = 0 THEN text ELSE RedactedInPlace(done[k - 1], secrets[k])
  BY DEF InPlaceList
<1>3. 0 \in T
  BY <1>1, <1>2
<1>4. ASSUME NEW k \in 0 .. N - 1, k \in T PROVE k + 1 \in T
  <2>1. k + 1 \in 1 .. N /\ k + 1 \in 0 .. N /\ k + 1 # 0 /\ k + 1 - 1 = k
    BY <1>1
  <2>2. done[k + 1] = RedactedInPlace(done[k], secrets[k + 1]) /\ IsSecret(secrets[k + 1])
    BY <1>2, <2>1
  <2>3. /\ done[k] \in Short
        /\ \A i \in 1 .. k : IsSecret(secrets[i])
        /\ \A i \in 1 .. k : IsUnlikeMask(secrets[i]) => Hides(done[k], secrets[i])
    <3>1. \A i \in 1 .. k : i \in 1 .. N
      BY <1>1
    <3>. QED
      BY <1>4, <3>1
  <2>4. /\ done[k + 1] \in Short
        /\ IsUnlikeMask(secrets[k + 1]) => Hides(done[k + 1], secrets[k + 1])
        /\ \A other : IsSecret(other) /\ IsUnlikeMask(other) /\ Hides(done[k], other)
                       => Hides(done[k + 1], other)
    <3>. DEFINE t == done[k]
                secret == secrets[k + 1]
                q == done[k + 1]
    <3>1. t \in Text /\ Len(t) <= MessageRoom /\ IsSecret(secret) /\ q = RedactedInPlace(t, secret)
      BY <2>2, <2>3 DEF Short
    <3>. HIDE DEF t, secret, q
    <3>2. /\ q \in Text /\ Len(q) <= MessageRoom
          /\ IsUnlikeMask(secret) => Hides(q, secret)
          /\ \A other : IsSecret(other) /\ IsUnlikeMask(other) /\ Hides(t, other)
                         => Hides(q, other)
      BY <3>1, OneIsRedactedInPlace
    <3>. QED
      BY <3>2 DEF Short, t, secret, q
  <2>5. \A i \in 1 .. k + 1 : i \in 1 .. k \/ i = k + 1
    BY <1>1
  <2>. QED
    BY <2>1, <2>3, <2>4, <2>5
<1>. HIDE DEF T
<1>5. \A k \in 0 .. N : k \in T
  BY <1>1, <1>3, <1>4, CountingUp
<1>. QED
  BY <1>5 DEF T

\* Where no secret is shorter than the mask the two loops are one.
LEMMA ListsAgree ==
  ASSUME NEW text \in Short, NEW secrets \in Seq(Text),
         \A i \in 1 .. Len(secrets) : IsSecret(secrets[i]) /\ Len(secrets[i]) >= Len(Mask)
  PROVE  RedactInPlace(text, secrets) = Redact(text, secrets)
<1>. DEFINE done == CHOOSE done : InPlaceList(done, text, secrets)
            copy == CHOOSE copy : CopyList(copy, text, secrets)
            N == Len(secrets)
<1>1. RedactInPlace(text, secrets) = done[N] /\ Redact(text, secrets) = copy[N]
  BY DEF RedactInPlace, Redact, InPlaceList, CopyList
<1>2. InPlaceList(done, text, secrets)
  BY InPlaceListExists
<1>. HIDE DEF done
<1>3. N \in Nat /\ 0 \in 0 .. N /\ N \in 0 .. N
  BY LenProperties
<1>4. \A k \in 0 .. N : done[k] \in Short
  BY <1>2, InPlaceListIs
<1>5. \A k \in 0 .. N : done[k] = IF k = 0 THEN text ELSE RedactedInPlace(done[k - 1], secrets[k])
  BY <1>2 DEF InPlaceList
<1>6. \A k \in 1 .. N :
        RedactedInPlace(done[k - 1], secrets[k]) = Redacted(done[k - 1], secrets[k])
  <2>. TAKE k \in 1 .. N
  <2>1. k - 1 \in 0 .. N
    BY <1>3
  <2>2. done[k - 1] \in Text /\ Len(done[k - 1]) <= MessageRoom
    BY <1>4, <2>1 DEF Short
  <2>3. IsSecret(secrets[k]) /\ Len(secrets[k]) >= Len(Mask)
    OBVIOUS
  <2>. QED
    BY <2>2, <2>3, OneIsRedactedTheSame
<1>7. \A k \in 0 .. N : done[k] = IF k = 0 THEN text ELSE Redacted(done[k - 1], secrets[k])
  <2>. TAKE k \in 0 .. N
  <2>1. k # 0 => k \in 1 .. N
    BY <1>3
  <2>. QED
    BY <1>5, <1>6, <2>1
<1>8. CopyList(done, text, secrets)
  <2>1. done = [k \in 0 .. N |-> done[k]]
    BY <1>2, Zenon DEF InPlaceList
  <2>2. [k \in 0 .. N |-> done[k]] =
        [k \in 0 .. N |-> IF k = 0 THEN text ELSE Redacted(done[k - 1], secrets[k])]
    BY <1>7, Zenon
  <2>. QED
    BY <2>1, <2>2, Zenon DEF CopyList
<1>9. CopyList(copy, text, secrets)
  BY <1>8
<1>. HIDE DEF copy
<1>10. \A k \in 0 .. N : copy[k] = IF k = 0 THEN text ELSE Redacted(copy[k - 1], secrets[k])
  BY <1>9 DEF CopyList
<1>. DEFINE T == {k \in 0 .. N : done[k] = copy[k]}
<1>11. 0 \in T
  BY <1>3, <1>7, <1>10
<1>12. ASSUME NEW k \in 0 .. N - 1, k \in T PROVE k + 1 \in T
  <2>1. k + 1 \in 0 .. N /\ k + 1 # 0 /\ k + 1 - 1 = k
    BY <1>3
  <2>2. done[k + 1] = Redacted(done[k], secrets[k + 1])
    BY <1>7, <2>1
  <2>3. copy[k + 1] = Redacted(copy[k], secrets[k + 1])
    BY <1>10, <2>1
  <2>. QED
    BY <1>12, <2>1, <2>2, <2>3
<1>. HIDE DEF T
<1>13. \A k \in 0 .. N : k \in T
  BY <1>3, <1>11, <1>12, CountingUp
<1>14. N \in T
  BY <1>3, <1>13
<1>. QED
  BY <1>1, <1>14 DEF T

\* Both redactors, for every message that fits and every list of secrets.
LEMMA RedactorsAgreeHolds == RedactorsAgree
<1>. SUFFICES ASSUME NEW message \in Messages, NEW secrets \in SecretLists
              PROVE  LET inPlace == RedactInPlace(message, secrets)
                     IN  /\ Len(inPlace) <= MessageRoom
                         /\ (\A i \in 1 .. Len(secrets) : Len(secrets[i]) >= Len(Mask))
                              => inPlace = Redact(message, secrets)
                         /\ \A i \in 1 .. Len(secrets) :
                              IsUnlikeMask(secrets[i]) => Hides(inPlace, secrets[i])
  BY DEF RedactorsAgree
<1>1. message \in Short
  BY LogTextAssumption DEF Short, Text
<1>2. secrets \in Seq(Text) /\ \A i \in 1 .. Len(secrets) : IsSecret(secrets[i])
  BY LogTextAssumption DEF Text
<1>. DEFINE done == CHOOSE done : InPlaceList(done, message, secrets)
            N == Len(secrets)
<1>3. RedactInPlace(message, secrets) = done[N]
  BY DEF RedactInPlace, InPlaceList
<1>4. InPlaceList(done, message, secrets)
  BY <1>1, <1>2, InPlaceListExists
<1>. HIDE DEF done
<1>5. N \in Nat /\ N \in 0 .. N
  BY <1>2, LenProperties
<1>6. /\ done[N] \in Short
      /\ \A i \in 1 .. N : IsUnlikeMask(secrets[i]) => Hides(done[N], secrets[i])
  BY <1>1, <1>2, <1>4, <1>5, InPlaceListIs
<1>7. (\A i \in 1 .. N : Len(secrets[i]) >= Len(Mask)) =>
        RedactInPlace(message, secrets) = Redact(message, secrets)
  BY <1>1, <1>2, ListsAgree
<1>8. Len(done[N]) <= MessageRoom
  BY <1>6 DEF Short
<1>. QED
  BY <1>3, <1>6, <1>7, <1>8

-----------------------------------------------------------------------------
(* Least and greatest places, and copies *)

\* A number that is the least of a set is what Min chooses.
LEMMA MinIsThe ==
  ASSUME NEW T \in SUBSET Nat, NEW x \in T, \A m \in T : x <= m
  PROVE  Min(T) = x
<1>1. Min(T) \in T /\ \A m \in T : Min(T) <= m
  BY MinIs
<1>2. x \in Nat /\ Min(T) \in Nat /\ x <= Min(T) /\ Min(T) <= x
  BY <1>1
<1>. QED
  BY <1>2

\* And the greatest what Max chooses.
LEMMA MaxIsThe ==
  ASSUME NEW T \in SUBSET Nat, NEW x \in T, \A m \in T : m <= x
  PROVE  Max(T) = x
<1>1. Max(T) \in T /\ \A m \in T : Max(T) >= m
  BY DEF Max
<1>2. x \in Nat /\ Max(T) \in Nat /\ x <= Max(T) /\ Max(T) <= x
  BY <1>1
<1>. QED
  BY <1>2

\* A bounded set of natural numbers that is not empty has a greatest one.
LEMMA MaxIs ==
  ASSUME NEW N \in Nat, NEW T \in SUBSET (0 .. N), T # {}
  PROVE  Max(T) \in T /\ \A m \in T : m <= Max(T)
<1>. DEFINE U == {N - m : m \in T}
<1>1. U \in SUBSET Nat /\ U # {}
  <2>1. \A m \in T : N - m \in Nat
    OBVIOUS
  <2>2. PICK m \in T : TRUE
    OBVIOUS
  <2>. QED
    BY <2>1, <2>2
<1>2. PICK u \in U : \A w \in U : u <= w
  <2>. HIDE DEF U
  <2>. QED
    BY <1>1, Least
<1>3. PICK x \in T : u = N - x
  BY <1>2
<1>4. \A m \in T : m <= x
  <2>. TAKE m \in T
  <2>1. N - m \in U /\ m \in Nat /\ x \in Nat
    OBVIOUS
  <2>2. N - x <= N - m
    BY <1>2, <1>3, <2>1
  <2>. QED
    BY <2>1, <2>2
<1>5. T \in SUBSET Nat
  OBVIOUS
<1>6. Max(T) = x
  BY <1>4, <1>5, MaxIsThe
<1>. QED
  BY <1>4, <1>6

\* Places that are counted from elsewhere have their least where the others have it.
LEMMA ShiftedMin ==
  ASSUME NEW off \in Nat, NEW T \in SUBSET Nat, T # {}, NEW U \in SUBSET Nat,
         \A i \in T : i + off \in U, \A j \in U : j >= off /\ j - off \in T
  PROVE  Min(U) = Min(T) + off
<1>1. Min(T) \in T /\ \A m \in T : Min(T) <= m
  BY MinIs
<1>2. Min(T) + off \in U
  BY <1>1
<1>3. ASSUME NEW j \in U PROVE Min(T) + off <= j
  <2>1. j - off \in T /\ j \in Nat /\ Min(T) \in Nat
    BY <1>1
  <2>2. Min(T) <= j - off
    BY <1>1, <2>1
  <2>. QED
    BY <2>1, <2>2
<1>. QED
  BY <1>2, <1>3, MinIsThe

\* The characters a parser goes by.
Chars == Seq(Characters)

\* A copy of the part of a buffer between two places.
IsCopy(line, buf, off, end) ==
  /\ line \in Chars /\ off \in Nat /\ end \in Nat /\ off <= end /\ end <= Len(buf)
  /\ Len(line) = end - off
  /\ \A k \in 1 .. end - off : line[k] = buf[off + k]

\* What is cut out of the copy is what is cut out of the buffer.
SameCut(line, a, b, buf, from, to) == SubSeq(line, a, b) = SubSeq(buf, from, to)

\* A part of the copy, empty or not, is the part of the buffer at the same distance.
LEMMA CopiedPart ==
  ASSUME NEW buf \in Chars, NEW line, NEW off, NEW end, IsCopy(line, buf, off, end),
         NEW a \in Nat \ {0}, NEW b \in Nat, a <= b + 1, b <= end - off,
         NEW from, from = a + off, NEW to, to = b + off
  PROVE  SameCut(line, a, b, buf, from, to)
<1>. DEFINE lo == a - 1
            blo == lo + off
            bhi == b + off
            inLine == SubSeq(line, lo + 1, b)
            inBuf == SubSeq(buf, blo + 1, bhi)
<1>1. /\ line \in Chars /\ off \in Nat /\ end \in Nat /\ Len(line) = end - off /\ end <= Len(buf)
      /\ Len(buf) \in Nat
      /\ \A k \in 1 .. end - off : line[k] = buf[off + k]
  BY LenProperties DEF IsCopy, Chars
<1>2. /\ lo \in Nat /\ lo <= b /\ b <= Len(line) /\ lo + 1 = a
      /\ blo \in Nat /\ bhi \in Nat /\ blo <= bhi /\ bhi <= Len(buf) /\ blo + 1 = a + off
      /\ bhi - blo = b - lo
      /\ \A k \in 1 .. b - lo : lo + k \in 1 .. end - off /\ off + (lo + k) = blo + k
  BY <1>1
<1>. HIDE DEF lo, blo, bhi
<1>3. /\ inLine \in Chars /\ Len(inLine) = b - lo /\ \A k \in 1 .. b - lo : inLine[k] = line[lo + k]
  BY <1>1, <1>2, Part DEF Chars
<1>4. /\ inBuf \in Chars /\ Len(inBuf) = bhi - blo
      /\ \A k \in 1 .. bhi - blo : inBuf[k] = buf[blo + k]
  BY <1>1, <1>2, Part DEF Chars
<1>5. \A k \in 1 .. b - lo : line[lo + k] = buf[blo + k]
  <2>. TAKE k \in 1 .. b - lo
  <2>1. lo + k \in 1 .. end - off /\ off + (lo + k) = blo + k
    BY <1>2
  <2>2. line[lo + k] = buf[off + (lo + k)]
    BY <1>1, <2>1
  <2>. QED
    BY <2>1, <2>2
<1>6. inLine = inBuf
  <2>. HIDE DEF inLine, inBuf
  <2>1. Len(inLine) = Len(inBuf)
    BY <1>2, <1>3, <1>4
  <2>2. \A k \in 1 .. Len(inLine) : inLine[k] = inBuf[k]
    BY <1>2, <1>3, <1>4, <1>5
  <2>. QED
    BY <1>3, <1>4, <2>1, <2>2, SeqEqual DEF Chars
<1>. QED
  BY <1>2, <1>6 DEF SameCut, bhi, blo

\* Where the digits end in the copy, and where its separators are.
LEMMA CopiedDigitsEnd ==
  ASSUME NEW buf \in Chars, NEW line, NEW off, NEW end, IsCopy(line, buf, off, end)
  PROVE  /\ DigitsEnd(line, 4, Len(line)) \in Nat \ {0}
         /\ DigitsEnd(line, 4, Len(line)) <= Len(line) => DigitsEnd(line, 4, Len(line)) >= 4
         /\ DigitsEnd(line, 4, Len(line)) <= Len(line) + 1
         /\ DigitsEnd(buf, off + 4, end) = DigitsEnd(line, 4, Len(line)) + off
<1>. DEFINE n == Len(line)
            T == {i \in 4 .. n : line[i] # Digit} \cup {n + 1}
            U == {i \in off + 4 .. end : buf[i] # Digit} \cup {end + 1}
<1>1. /\ off \in Nat /\ end \in Nat /\ n \in Nat /\ end = n + off
      /\ \A k \in 1 .. n : line[k] = buf[off + k]
  <2>1. off \in Nat /\ end \in Nat /\ n \in Nat /\ n = end - off
    BY LenProperties DEF IsCopy, Chars
  <2>2. \A k \in 1 .. end - off : line[k] = buf[off + k]
    BY DEF IsCopy
  <2>. HIDE DEF n
  <2>3. end = n + off
    BY <2>1
  <2>. QED
    BY <2>1, <2>2, <2>3
<1>2. DigitsEnd(line, 4, n) = Min(T) /\ DigitsEnd(buf, off + 4, end) = Min(U)
  BY DEF DigitsEnd
<1>. HIDE DEF n
<1>3. T \in SUBSET Nat /\ T # {} /\ U \in SUBSET Nat /\ \A i \in T : i >= 1 /\ i <= n + 1
  BY <1>1
<1>4. \A i \in T : i <= n => i >= 4
  BY <1>1
<1>5. ASSUME NEW i \in T PROVE i + off \in U
  <2>1. CASE i = n + 1
    BY <1>1, <2>1
  <2>2. CASE i \in 4 .. n /\ line[i] # Digit
    <3>1. i \in 1 .. n /\ off + i = i + off /\ i + off \in off + 4 .. end
      BY <1>1, <2>2
    <3>. QED
      BY <1>1, <2>2, <3>1
  <2>. QED
    BY <2>1, <2>2
<1>6. ASSUME NEW j \in U PROVE j >= off /\ j - off \in T
  <2>1. CASE j = end + 1
    BY <1>1, <2>1
  <2>2. CASE j \in off + 4 .. end /\ buf[j] # Digit
    <3>1. j - off \in 1 .. n /\ off + (j - off) = j /\ j - off \in 4 .. n /\ j >= off
      BY <1>1, <2>2
    <3>2. line[j - off] = buf[off + (j - off)]
      BY <1>1, <3>1
    <3>. QED
      BY <2>2, <3>1, <3>2
  <2>. QED
    BY <2>1, <2>2
<1>. HIDE DEF T, U
<1>7. Min(U) = Min(T) + off
  BY <1>1, <1>3, <1>5, <1>6, ShiftedMin
<1>8. Min(T) \in T
  BY <1>3, MinIs
<1>9. /\ Min(T) \in Nat \ {0} /\ Min(T) <= n + 1
      /\ Min(T) <= n => Min(T) >= 4
  <2>. DEFINE m == Min(T)
  <2>1. m \in T
    BY <1>8
  <2>. HIDE DEF m
  <2>2. m \in Nat /\ m >= 1 /\ m <= n + 1
    BY <1>3, <2>1
  <2>3. m <= n => m >= 4
    BY <1>4, <2>1
  <2>4. m \in Nat \ {0}
    BY <2>2
  <2>. QED
    BY <2>2, <2>3, <2>4 DEF m
<1>. QED
  BY <1>2, <1>7, <1>9 DEF n

\* So with the separators.
LEMMA CopiedSeparators ==
  ASSUME NEW buf \in Chars, NEW line, NEW off, NEW end, IsCopy(line, buf, off, end),
         NEW from \in Nat \ {0}
  PROVE  /\ Separators(line, from, Len(line)) = {} <=> Separators(buf, from + off, end) = {}
         /\ from \in Separators(line, from, Len(line)) <=>
              from + off \in Separators(buf, from + off, end)
         /\ Separators(line, from, Len(line)) # {} =>
              /\ Min(Separators(line, from, Len(line))) \in from .. Len(line) - 1
              /\ Min(Separators(buf, from + off, end)) =
                   Min(Separators(line, from, Len(line))) + off
<1>. DEFINE n == Len(line)
            T == Separators(line, from, n)
            U == Separators(buf, from + off, end)
<1>1. /\ off \in Nat /\ end \in Nat /\ n \in Nat /\ end = n + off
      /\ \A k \in 1 .. n : line[k] = buf[off + k]
  <2>1. off \in Nat /\ end \in Nat /\ n \in Nat /\ n = end - off
    BY LenProperties DEF IsCopy, Chars
  <2>2. \A k \in 1 .. end - off : line[k] = buf[off + k]
    BY DEF IsCopy
  <2>. HIDE DEF n
  <2>3. end = n + off
    BY <2>1
  <2>. QED
    BY <2>1, <2>2, <2>3
<1>. HIDE DEF n
<1>2. ASSUME NEW i \in from .. n - 1 PROVE IsSeparator(line, i) <=> IsSeparator(buf, i + off)
  <2>1. i \in 1 .. n /\ i + 1 \in 1 .. n /\ off + i = i + off /\ off + (i + 1) = i + off + 1
    BY <1>1
  <2>2. line[i] = buf[i + off] /\ line[i + 1] = buf[i + off + 1]
    BY <1>1, <2>1
  <2>. QED
    BY <2>2 DEF IsSeparator
<1>3. T \in SUBSET Nat /\ U \in SUBSET Nat /\ T \in SUBSET (from .. n - 1)
  BY <1>1 DEF Separators
<1>4. ASSUME NEW i \in T PROVE i + off \in U
  <2>1. i \in from .. n - 1 /\ IsSeparator(line, i)
    BY DEF Separators
  <2>2. i + off \in from + off .. end - 1
    BY <1>1, <2>1
  <2>. QED
    BY <1>2, <2>1, <2>2 DEF Separators
<1>5. ASSUME NEW j \in U PROVE j >= off /\ j - off \in T
  <2>1. j \in from + off .. end - 1 /\ IsSeparator(buf, j)
    BY DEF Separators
  <2>. DEFINE i == j - off
  <2>2. i \in from .. n - 1 /\ i + off = j /\ j >= off
    BY <1>1, <2>1
  <2>. HIDE DEF i
  <2>3. i \in T
    BY <1>2, <2>1, <2>2 DEF Separators
  <2>. QED
    BY <2>2, <2>3 DEF i
<1>. HIDE DEF T, U
<1>6. T = {} <=> U = {}
  BY <1>4, <1>5
<1>7. from \in T <=> from + off \in U
  <2>. DEFINE j == from + off
  <2>1. j - off = from
    BY <1>1
  <2>. HIDE DEF j
  <2>2. j \in U => from \in T
    BY <1>5, <2>1
  <2>. QED
    BY <1>4, <2>2 DEF j
<1>8. ASSUME T # {} PROVE Min(T) \in from .. n - 1 /\ Min(U) = Min(T) + off
  <2>1. Min(T) \in T
    BY <1>3, <1>8, MinIs
  <2>2. Min(U) = Min(T) + off
    BY <1>1, <1>3, <1>4, <1>5, <1>8, ShiftedMin
  <2>. QED
    BY <1>3, <2>1, <2>2
<1>. QED
  BY <1>6, <1>7, <1>8 DEF T, U, n

-----------------------------------------------------------------------------
(* The two parsers *)

\* The last character that does not belong to the line's end is one of the line's, if there is one.
LEMMA LastOfIs ==
  ASSUME NEW buf \in Chars
  PROVE  /\ LastOf(buf) \in 0 .. Len(buf)
         /\ LastOf(buf) > 0 => buf[LastOf(buf)] # Newline
         /\ \A i \in 1 .. Len(buf) : buf[i] # Newline => i <= LastOf(buf)
<1>. DEFINE T == {0} \cup {i \in 1 .. Len(buf) : buf[i] # Newline}
<1>1. Len(buf) \in Nat
  BY LenProperties DEF Chars
<1>2. LastOf(buf) = Max(T)
  BY DEF LastOf
<1>3. T \in SUBSET (0 .. Len(buf)) /\ T # {}
  BY <1>1
<1>4. \A i : i \in T <=> i = 0 \/ (i \in 1 .. Len(buf) /\ buf[i] # Newline)
  OBVIOUS
<1>. HIDE DEF T
<1>5. Max(T) \in T /\ \A m \in T : m <= Max(T)
  BY <1>1, <1>3, MaxIs
<1>6. Max(T) \in 0 .. Len(buf)
  BY <1>3, <1>5
<1>. QED
  BY <1>2, <1>4, <1>5, <1>6

\* Where the line without its colours begins and ends in the buffer, as parseEspLogLineFast has it,
\* and the copy parseEspLogLine makes of it.
EndOf(buf) == LET last == LastOf(buf) IN IF last > 0 /\ buf[last] = NoColour THEN last - 1 ELSE last
StartOf(buf) == IF EndOf(buf) > 0 /\ buf[1] \in Escapes THEN 2 ELSE 1
LineOf(raw) ==
  LET trimmed == SubSeq(raw, 1, LastOf(raw))
      plain == IF trimmed # <<>> /\ trimmed[Len(trimmed)] = NoColour
               THEN SubSeq(trimmed, 1, Len(trimmed) - 1) ELSE trimmed
  IN  IF plain # <<>> /\ Head(plain) \in Escapes THEN Tail(plain) ELSE plain

\* A text without characters is the empty one.
LEMMA IsEmpty ==
  ASSUME NEW text \in Chars
  PROVE  text # <<>> <=> Len(text) > 0
  BY EmptySeq DEF Chars

\* The copy is of the part between those places.
LEMMA LineIsCopied ==
  ASSUME NEW raw \in Chars
  PROVE  IsCopy(LineOf(raw), raw, StartOf(raw) - 1, EndOf(raw))
<1>. DEFINE last == LastOf(raw)
            end == EndOf(raw)
            begin == StartOf(raw)
            trimmed == SubSeq(raw, 1, last)
            plain == IF trimmed # <<>> /\ trimmed[Len(trimmed)] = NoColour
                     THEN SubSeq(trimmed, 1, Len(trimmed) - 1) ELSE trimmed
            line == LineOf(raw)
<1>1. Len(raw) \in Nat /\ last \in Nat /\ last <= Len(raw)
  BY LastOfIs, LenProperties DEF Chars
<1>2. end = IF last > 0 /\ raw[last] = NoColour THEN last - 1 ELSE last
  BY DEF EndOf
<1>3. begin = IF end > 0 /\ raw[1] \in Escapes THEN 2 ELSE 1
  BY DEF StartOf
<1>4. line = IF plain # <<>> /\ Head(plain) \in Escapes THEN Tail(plain) ELSE plain
  BY DEF LineOf
<1>. HIDE DEF last, end, begin, line
<1>5. trimmed \in Chars /\ Len(trimmed) = last /\ \A k \in 1 .. last : trimmed[k] = raw[k]
  <2>1. /\ 0 \in Nat /\ 0 <= last /\ 0 + 1 = 1 /\ last - 0 = last
        /\ \A k \in 1 .. last : 0 + k = k
    BY <1>1
  <2>2. /\ SubSeq(raw, 0 + 1, last) \in Chars /\ Len(SubSeq(raw, 0 + 1, last)) = last - 0
        /\ \A k \in 1 .. last - 0 : SubSeq(raw, 0 + 1, last)[k] = raw[0 + k]
    BY <1>1, <2>1, Part DEF Chars
  <2>. QED
    BY <2>1, <2>2
<1>6. plain = IF last > 0 /\ raw[last] = NoColour THEN SubSeq(trimmed, 1, last - 1) ELSE trimmed
  <2>1. last > 0 => last \in 1 .. last
    BY <1>1
  <2>. QED
    BY <1>5, <2>1, IsEmpty
<1>. HIDE DEF trimmed, plain
<1>7. /\ end \in Nat /\ end <= Len(raw) /\ plain \in Chars /\ Len(plain) = end
      /\ \A k \in 1 .. end : plain[k] = raw[k]
  <2>1. CASE last > 0 /\ raw[last] = NoColour
    <3>1. /\ 0 \in Nat /\ end = last - 1 /\ end \in Nat /\ 0 <= end /\ end <= Len(trimmed)
          /\ end <= Len(raw) /\ 0 + 1 = 1 /\ end - 0 = end
          /\ \A k \in 1 .. end : 0 + k = k /\ k \in 1 .. last
      BY <1>1, <1>2, <1>5, <2>1
    <3>2. /\ SubSeq(trimmed, 0 + 1, end) \in Chars /\ Len(SubSeq(trimmed, 0 + 1, end)) = end - 0
          /\ \A k \in 1 .. end - 0 : SubSeq(trimmed, 0 + 1, end)[k] = trimmed[0 + k]
      BY <1>5, <3>1, Part DEF Chars
    <3>3. plain = SubSeq(trimmed, 0 + 1, end)
      BY <1>6, <2>1, <3>1
    <3>. QED
      BY <1>5, <3>1, <3>2, <3>3
  <2>2. CASE ~(last > 0 /\ raw[last] = NoColour)
    BY <1>1, <1>2, <1>5, <1>6, <2>2
  <2>. QED
    BY <2>1, <2>2
<1>8. CASE end > 0 /\ raw[1] \in Escapes
  <2>1. plain # <<>> /\ Head(plain) = raw[1]
    <3>1. plain # <<>> /\ 1 \in 1 .. end
      BY <1>7, <1>8, IsEmpty
    <3>2. Head(plain) = plain[1]
      OBVIOUS
    <3>. QED
      BY <1>7, <3>1, <3>2
  <2>2. line = Tail(plain) /\ begin = 2
    BY <1>3, <1>4, <1>8, <2>1
  <2>3. /\ line \in Chars /\ Len(line) = end - 1
        /\ \A k \in 1 .. end - 1 : line[k] = plain[k + 1]
    BY <1>7, <2>1, <2>2, HeadTailProperties DEF Chars
  <2>4. \A k \in 1 .. end - 1 : k + 1 \in 1 .. end /\ k + 1 = 1 + k
    BY <1>7
  <2>5. \A k \in 1 .. end - 1 : line[k] = raw[1 + k]
    <3>. TAKE k \in 1 .. end - 1
    <3>1. line[k] = plain[k + 1]
      BY <2>3
    <3>2. plain[k + 1] = raw[k + 1]
      BY <1>7, <2>4
    <3>. QED
      BY <2>4, <3>1, <3>2
  <2>6. begin - 1 = 1 /\ 1 <= end
    BY <1>7, <1>8, <2>2
  <2>7. IsCopy(line, raw, 1, end)
    BY <1>7, <2>3, <2>5, <2>6 DEF IsCopy
  <2>. QED
    BY <2>6, <2>7 DEF line, begin, end
<1>9. CASE ~(end > 0 /\ raw[1] \in Escapes)
  <2>1. line = plain /\ begin = 1
    <3>1. ASSUME plain # <<>> PROVE Head(plain) = raw[1] /\ end > 0
      <4>1. end > 0 /\ 1 \in 1 .. end
        BY <1>7, <3>1, IsEmpty
      <4>2. Head(plain) = plain[1]
        OBVIOUS
      <4>. QED
        BY <1>7, <4>1, <4>2
    <3>. QED
      BY <1>3, <1>4, <1>9, <3>1
  <2>2. begin - 1 = 0 /\ end - 0 = end /\ 0 <= end /\ \A k \in 1 .. end : 0 + k = k
    BY <1>7, <2>1
  <2>3. IsCopy(line, raw, 0, end)
    BY <1>7, <2>1, <2>2 DEF IsCopy
  <2>. QED
    BY <2>2, <2>3 DEF line, begin, end
<1>. QED
  BY <1>8, <1>9

\* What is read between two places, before it is made to fit the record.
Between(buf) ==
  LET end == EndOf(buf)
      begin == StartOf(buf)
      close == DigitsEnd(buf, begin + 3, end)
      seps == Separators(buf, close + 2, end)
      colon == Min(seps)
  IN  IF /\ end > close /\ buf[begin] = Letter /\ buf[begin + 1] = Blank /\ buf[begin + 2] = "("
         /\ close > begin + 3 /\ buf[close] = ")" /\ buf[close + 1] = Blank
         /\ seps # {} /\ close + 2 \notin seps
      THEN [uptime |-> SubSeq(buf, begin + 3, close - 1),
            tag |-> SubSeq(buf, close + 2, colon - 1),
            message |-> SubSeq(buf, colon + 2, end)]
      ELSE NotALine

\* The two readings of a line, whatever the line.
LEMMA ReadsBetween ==
  ASSUME NEW raw \in Chars
  PROVE  ParseEspLogLine(raw) = Between(raw)
<1>. DEFINE line == LineOf(raw)
            n == Len(line)
            end == EndOf(raw)
            off == StartOf(raw) - 1
            close == DigitsEnd(line, 4, n)
            seps == Separators(line, close + 2, n)
            colon == Min(seps)
            bclose == DigitsEnd(raw, StartOf(raw) + 3, end)
            bseps == Separators(raw, bclose + 2, end)
            bcolon == Min(bseps)
            ok == /\ n > close /\ SubSeq(line, 1, 3) = <<Letter, Blank, "(">>
                  /\ close > 4 /\ line[close] = ")" /\ line[close + 1] = Blank
                  /\ seps # {} /\ close + 2 \notin seps
            bok == /\ end > bclose /\ raw[StartOf(raw)] = Letter /\ raw[StartOf(raw) + 1] = Blank
                   /\ raw[StartOf(raw) + 2] = "("
                   /\ bclose > StartOf(raw) + 3 /\ raw[bclose] = ")" /\ raw[bclose + 1] = Blank
                   /\ bseps # {} /\ bclose + 2 \notin bseps
            fields == [uptime |-> SubSeq(line, 4, close - 1),
                       tag |-> SubSeq(line, close + 2, colon - 1),
                       message |-> SubSeq(line, colon + 2, n)]
            bfields == [uptime |-> SubSeq(raw, StartOf(raw) + 3, bclose - 1),
                        tag |-> SubSeq(raw, bclose + 2, bcolon - 1),
                        message |-> SubSeq(raw, bcolon + 2, end)]
<1>1. ParseEspLogLine(raw) = IF ok THEN fields ELSE NotALine
  BY DEF ParseEspLogLine, LineOf
<1>2. Between(raw) = IF bok THEN bfields ELSE NotALine
  BY DEF Between
<1>3. IsCopy(line, raw, off, end)
  BY LineIsCopied
<1>4. StartOf(raw) = off + 1 /\ off \in Nat
  BY DEF StartOf
<1>5. /\ line \in Chars /\ end \in Nat /\ n = end - off /\ n \in Nat /\ off <= end
      /\ \A k \in 1 .. n : line[k] = raw[off + k]
  BY <1>3, LenProperties DEF IsCopy, Chars
<1>6. /\ close \in Nat \ {0} /\ (close <= n => close >= 4)
      /\ bclose = close + off
  <2>1. StartOf(raw) + 3 = off + 4
    BY <1>4
  <2>. HIDE DEF off, line, end
  <2>. QED
    BY <1>3, <2>1, CopiedDigitsEnd
<1>7. /\ seps = {} <=> bseps = {}
      /\ close + 2 \in seps <=> bclose + 2 \in bseps
      /\ seps # {} => colon \in close + 2 .. n - 1 /\ bcolon = colon + off
  <2>. DEFINE from == close + 2
  <2>1. from \in Nat \ {0} /\ bclose + 2 = from + off
    BY <1>4, <1>6
  <2>. HIDE DEF from, off, line, end, bclose, close
  <2>2. /\ Separators(line, from, Len(line)) = {} <=> Separators(raw, from + off, end) = {}
        /\ from \in Separators(line, from, Len(line)) <=>
             from + off \in Separators(raw, from + off, end)
        /\ Separators(line, from, Len(line)) # {} =>
             /\ Min(Separators(line, from, Len(line))) \in from .. Len(line) - 1
             /\ Min(Separators(raw, from + off, end)) =
                  Min(Separators(line, from, Len(line))) + off
    BY <1>3, <2>1, CopiedSeparators
  <2>. QED
    BY <2>1, <2>2 DEF from
<1>. DEFINE head == SubSeq(line, 1, 3)
<1>8. ASSUME n >= 3
      PROVE  head = <<Letter, Blank, "(">> <=>
               line[1] = Letter /\ line[2] = Blank /\ line[3] = "("
  <2>1. /\ 0 \in Nat /\ 3 \in Nat /\ 0 <= 3 /\ 3 <= Len(line) /\ 0 + 1 = 1 /\ 3 - 0 = 3
        /\ \A k \in 1 .. 3 : 0 + k = k
    BY <1>8
  <2>2. /\ SubSeq(line, 0 + 1, 3) \in Chars /\ Len(SubSeq(line, 0 + 1, 3)) = 3 - 0
        /\ \A k \in 1 .. 3 - 0 : SubSeq(line, 0 + 1, 3)[k] = line[0 + k]
    BY <1>5, <2>1, Part DEF Chars
  <2>3. head \in Chars /\ Len(head) = 3 /\ \A k \in 1 .. 3 : head[k] = line[k]
    BY <2>1, <2>2
  <2>. HIDE DEF head
  <2>4. head[1] = line[1] /\ head[2] = line[2] /\ head[3] = line[3]
    BY <2>3
  <2>5. <<Letter, Blank, "(">> \in Chars /\ Len(<<Letter, Blank, "(">>) = 3
    <3>1. Letter \in Characters /\ Blank \in Characters /\ "(" \in Characters
      BY DEF Characters
    <3>. QED
      BY <3>1 DEF Chars
  <2>6. head = <<Letter, Blank, "(">> <=> \A k \in 1 .. 3 : head[k] = <<Letter, Blank, "(">>[k]
    BY <2>3, <2>5, SeqEqual DEF Chars
  <2>7. \A k \in 1 .. 3 : k = 1 \/ k = 2 \/ k = 3
    OBVIOUS
  <2>. QED
    BY <2>4, <2>6, <2>7
<1>. HIDE DEF line, n, end, off, close, seps, colon, bclose, bseps, bcolon, head
<1>9. ok <=> bok
  <2>1. n > close <=> end > bclose
    BY <1>4, <1>5, <1>6
  <2>2. close > 4 <=> bclose > StartOf(raw) + 3
    BY <1>4, <1>6
  <2>3. ASSUME n > close
        PROVE  /\ line[1] = raw[StartOf(raw)] /\ line[2] = raw[StartOf(raw) + 1]
               /\ line[3] = raw[StartOf(raw) + 2]
               /\ line[close] = raw[bclose] /\ line[close + 1] = raw[bclose + 1] /\ n >= 3
    <3>1. /\ 1 \in 1 .. n /\ 2 \in 1 .. n /\ 3 \in 1 .. n
          /\ close \in 1 .. n /\ close + 1 \in 1 .. n
          /\ off + 1 = StartOf(raw) /\ off + 2 = StartOf(raw) + 1 /\ off + 3 = StartOf(raw) + 2
          /\ off + close = bclose /\ off + (close + 1) = bclose + 1 /\ n >= 3
      BY <1>4, <1>5, <1>6, <2>3
    <3>2. line[1] = raw[off + 1] /\ line[2] = raw[off + 2] /\ line[3] = raw[off + 3]
      BY <1>5, <3>1
    <3>3. line[close] = raw[off + close] /\ line[close + 1] = raw[off + (close + 1)]
      BY <1>5, <3>1
    <3>. QED
      BY <3>1, <3>2, <3>3
  <2>4. ASSUME n > close
        PROVE  head = <<Letter, Blank, "(">> <=>
                 /\ raw[StartOf(raw)] = Letter /\ raw[StartOf(raw) + 1] = Blank
                 /\ raw[StartOf(raw) + 2] = "("
    BY <1>8, <2>3, <2>4
  <2>5. CASE n > close
    BY <1>7, <2>1, <2>2, <2>3, <2>4, <2>5 DEF head
  <2>6. CASE ~(n > close)
    BY <2>1, <2>6
  <2>. QED
    BY <2>5, <2>6
<1>10. ASSUME ok PROVE fields = bfields
  <2>1. /\ n > close /\ close > 4 /\ seps # {} /\ close + 2 \notin seps
    BY <1>10
  <2>2. /\ colon \in close + 2 .. n - 1 /\ bcolon = colon + off
    BY <1>7, <2>1
  <2>3. SubSeq(line, 4, close - 1) = SubSeq(raw, StartOf(raw) + 3, bclose - 1)
    <3>. DEFINE a == 4
                b == close - 1
    <3>1. /\ a \in Nat \ {0} /\ b \in Nat /\ a <= b + 1 /\ b <= end - off
          /\ a + off = StartOf(raw) + 3 /\ b + off = bclose - 1
      BY <1>4, <1>5, <1>6, <2>1
    <3>. DEFINE from == StartOf(raw) + 3
                to == bclose - 1
    <3>3. from = a + off /\ to = b + off
      BY <3>1
    <3>. HIDE DEF a, b, from, to
    <3>2. SameCut(line, a, b, raw, from, to)
      BY <1>3, <3>1, <3>3, CopiedPart
    <3>. QED
      BY <3>2 DEF SameCut, a, b, from, to
  <2>4. SubSeq(line, close + 2, colon - 1) = SubSeq(raw, bclose + 2, bcolon - 1)
    <3>. DEFINE a == close + 2
                b == colon - 1
    <3>1. /\ a \in Nat \ {0} /\ b \in Nat /\ a <= b + 1 /\ b <= end - off
          /\ a + off = bclose + 2 /\ b + off = bcolon - 1
      BY <1>4, <1>5, <1>6, <2>1, <2>2
    <3>. DEFINE from == bclose + 2
                to == bcolon - 1
    <3>3. from = a + off /\ to = b + off
      BY <3>1
    <3>. HIDE DEF a, b, from, to
    <3>2. SameCut(line, a, b, raw, from, to)
      BY <1>3, <3>1, <3>3, CopiedPart
    <3>. QED
      BY <3>2 DEF SameCut, a, b, from, to
  <2>5. SubSeq(line, colon + 2, n) = SubSeq(raw, bcolon + 2, end)
    <3>. DEFINE a == colon + 2
                b == n
    <3>1. /\ a \in Nat \ {0} /\ b \in Nat /\ a <= b + 1 /\ b <= end - off
          /\ a + off = bcolon + 2 /\ b + off = end
      BY <1>4, <1>5, <1>6, <2>1, <2>2
    <3>. DEFINE from == bcolon + 2
                to == end
    <3>3. from = a + off /\ to = b + off
      BY <3>1
    <3>. HIDE DEF a, b, from, to
    <3>2. SameCut(line, a, b, raw, from, to)
      BY <1>3, <3>1, <3>3, CopiedPart
    <3>. QED
      BY <3>2 DEF SameCut, a, b, from, to
  <2>. QED
    BY <2>3, <2>4, <2>5
<1>. HIDE DEF ok, bok, fields, bfields
<1>. QED
  BY <1>1, <1>2, <1>9, <1>10

\* A record whose fields are made to fit.
Fitted(r) == [r EXCEPT !.tag = Truncated(@, TagRoom), !.message = Truncated(@, MessageRoom)]

\* What that makes of a line's fields.
LEMMA FieldsFit ==
  ASSUME NEW u, NEW t, NEW m, NEW r, r = [uptime |-> u, tag |-> t, message |-> m]
  PROVE  Fitted(r)
           = [uptime |-> u, tag |-> Truncated(t, TagRoom), message |-> Truncated(m, MessageRoom)]
<1>. DEFINE tt == Truncated(t, TagRoom)
            mm == Truncated(m, MessageRoom)
            s == [uptime |-> u, tag |-> tt, message |-> m]
<1>1. r.tag = t /\ r.message = m
  OBVIOUS
<1>. HIDE DEF tt, mm
<1>2. [r EXCEPT !.tag = tt] = s
  OBVIOUS
<1>3. [s EXCEPT !.message = mm] = [uptime |-> u, tag |-> tt, message |-> mm]
  OBVIOUS
<1>. HIDE DEF s
<1>4. [r EXCEPT !.tag = tt, !.message = mm] = [[r EXCEPT !.tag = tt] EXCEPT !.message = mm]
  OBVIOUS
<1>5. [r EXCEPT !.tag = tt, !.message = mm] = [uptime |-> u, tag |-> tt, message |-> mm]
  BY <1>2, <1>3, <1>4
<1>. QED
  BY <1>1, <1>5, Zenon DEF Fitted, tt, mm

\* In place a record's fields are cut where the record ends.
LEMMA ParsersAgreeHolds == ParsersAgree
<1>. SUFFICES ASSUME NEW line \in RawLines
              PROVE  ParseEspLogLineFast(line) = Fitted(ParseEspLogLine(line))
  BY DEF ParsersAgree, Fitted
<1>1. line \in Chars
  BY LogTextAssumption DEF Chars
<1>2. ParseEspLogLine(line) = Between(line)
  BY <1>1, ReadsBetween
<1>3. \A room \in Nat : Truncated(<<>>, room) = <<>>
  BY DEF Truncated
<1>4. TagRoom \in Nat /\ MessageRoom \in Nat
  BY LogTextAssumption
<1>5. ParseEspLogLineFast(line) =
        Fitted(Between(line))
  <2>. DEFINE end == EndOf(line)
              begin == StartOf(line)
              close == DigitsEnd(line, begin + 3, end)
              seps == Separators(line, close + 2, end)
              colon == Min(seps)
              ok == /\ end > close /\ line[begin] = Letter /\ line[begin + 1] = Blank
                    /\ line[begin + 2] = "("
                    /\ close > begin + 3 /\ line[close] = ")" /\ line[close + 1] = Blank
                    /\ seps # {} /\ close + 2 \notin seps
              uptime == SubSeq(line, begin + 3, close - 1)
              tag == SubSeq(line, close + 2, colon - 1)
              message == SubSeq(line, colon + 2, end)
  <2>1. ParseEspLogLineFast(line) =
          IF ok THEN [uptime |-> uptime, tag |-> Truncated(tag, TagRoom),
                      message |-> Truncated(message, MessageRoom)]
          ELSE NotALine
    BY DEF ParseEspLogLineFast, EndOf, StartOf
  <2>2. Between(line) =
          IF ok THEN [uptime |-> uptime, tag |-> tag, message |-> message] ELSE NotALine
    BY DEF Between
  <2>. HIDE DEF ok, uptime, tag, message
  <2>. DEFINE r == Between(line)
  <2>3. CASE ok
    <3>1. r = [uptime |-> uptime, tag |-> tag, message |-> message]
      BY <2>2, <2>3
    <3>. HIDE DEF r
    <3>. QED
      BY <2>1, <2>3, <3>1, FieldsFit, Zenon DEF r
  <2>4. CASE ~ok
    <3>1. r = [uptime |-> <<>>, tag |-> <<>>, message |-> <<>>] /\ r = NotALine
      BY <2>2, <2>4 DEF NotALine
    <3>. HIDE DEF r
    <3>2. Truncated(<<>>, TagRoom) = <<>> /\ Truncated(<<>>, MessageRoom) = <<>>
      BY <1>3, <1>4
    <3>3. Fitted(r) = r
      <4>. DEFINE e == <<>>
      <4>1. r = [uptime |-> e, tag |-> e, message |-> e]
        BY <3>1
      <4>3. Truncated(e, TagRoom) = e /\ Truncated(e, MessageRoom) = e
        BY <3>2
      <4>. HIDE DEF e
      <4>2. Fitted(r) = [uptime |-> e, tag |-> Truncated(e, TagRoom),
                         message |-> Truncated(e, MessageRoom)]
        BY <4>1, FieldsFit, Zenon
      <4>. QED
        BY <4>1, <4>2, <4>3
    <3>. QED
      BY <2>1, <2>4, <3>1, <3>3, Zenon DEF r
  <2>. QED
    BY <2>3, <2>4
<1>. QED
  BY <1>2, <1>5

-----------------------------------------------------------------------------
(* Where the parts of a line stand *)

\* A text reads as another after one of its places.
Reads(text, at, other) ==
  at + Len(other) <= Len(text) /\ \A k \in 1 .. Len(other) : text[at + k] = other[k]

\* What a text reads as, it still does when something is put behind it.
LEMMA PutBehind ==
  ASSUME NEW s \in Chars, NEW t \in Chars, NEW x, x = s \o t
  PROVE  /\ x \in Chars /\ Len(x) = Len(s) + Len(t)
         /\ Reads(x, Len(s), t)
         /\ \A at \in Nat, z \in Chars : Reads(s, at, z) => Reads(x, at, z)
<1>1. Len(s) \in Nat /\ Len(t) \in Nat
  BY LenProperties DEF Chars
<1>2. /\ x \in Chars /\ Len(x) = Len(s) + Len(t)
      /\ \A i \in 1 .. Len(s) + Len(t) : x[i] = IF i <= Len(s) THEN s[i] ELSE t[i - Len(s)]
  BY ConcatProperties DEF Chars
<1>3. Reads(x, Len(s), t)
  <2>1. ASSUME NEW k \in 1 .. Len(t) PROVE x[Len(s) + k] = t[k]
    <3>. DEFINE i == Len(s) + k
    <3>1. i \in 1 .. Len(s) + Len(t) /\ ~(i <= Len(s)) /\ i - Len(s) = k
      BY <1>1
    <3>. HIDE DEF i
    <3>2. x[i] = t[i - Len(s)]
      BY <1>2, <3>1
    <3>. QED
      BY <3>1, <3>2 DEF i
  <2>2. Len(s) + Len(t) <= Len(x)
    BY <1>1, <1>2
  <2>. QED
    BY <2>1, <2>2 DEF Reads
<1>4. ASSUME NEW at \in Nat, NEW z \in Chars, Reads(s, at, z) PROVE Reads(x, at, z)
  <2>1. Len(z) \in Nat /\ at + Len(z) <= Len(s)
    BY <1>4, LenProperties DEF Chars, Reads
  <2>2. ASSUME NEW k \in 1 .. Len(z) PROVE x[at + k] = z[k]
    <3>. DEFINE i == at + k
    <3>1. i \in 1 .. Len(s) + Len(t) /\ i <= Len(s)
      BY <1>1, <2>1
    <3>2. s[i] = z[k]
      BY <1>4 DEF Reads
    <3>. HIDE DEF i
    <3>3. x[i] = s[i]
      BY <1>2, <3>1
    <3>. QED
      BY <3>2, <3>3 DEF i
  <2>3. at + Len(z) <= Len(x)
    BY <1>1, <1>2, <2>1
  <2>. QED
    BY <2>2, <2>3 DEF Reads
<1>. QED
  BY <1>2, <1>3, <1>4

\* A part of a text that is another text.
Cut(text, from, to, other) == SubSeq(text, from, to) = other

\* What is cut out where a text reads as another is that other.
LEMMA CutOut ==
  ASSUME NEW text \in Chars, NEW at \in Nat, NEW other \in Chars, Reads(text, at, other),
         NEW from, from = at + 1, NEW to, to = at + Len(other)
  PROVE  Cut(text, from, to, other)
<1>1. Len(other) \in Nat /\ Len(text) \in Nat
  BY LenProperties DEF Chars
<1>2. to \in Nat /\ at <= to /\ to <= Len(text) /\ to - at = Len(other)
  BY <1>1 DEF Reads
<1>. DEFINE cut == SubSeq(text, at + 1, to)
<1>3. cut \in Chars /\ Len(cut) = to - at /\ \A k \in 1 .. to - at : cut[k] = text[at + k]
  BY <1>2, Part DEF Chars
<1>. HIDE DEF cut
<1>4. \A k \in 1 .. Len(other) : text[at + k] = other[k]
  BY DEF Reads
<1>5. Len(cut) = Len(other) /\ \A k \in 1 .. Len(cut) : cut[k] = other[k]
  BY <1>2, <1>3, <1>4
<1>6. cut = other
  BY <1>3, <1>5, SeqEqual DEF Chars
<1>. QED
  BY <1>6 DEF cut, Cut

\* The parts of a line of the documented form, and where it reads as each.
LEMMA PartsAre ==
  ASSUME NEW p, IsWellFormed(p)
  PROVE  /\ p.colour \in Chars /\ Len(p.colour) \in 0 .. 1
         /\ Len(p.colour) = 1 => p.colour[1] \in Escapes
         /\ p.uptime \in Chars /\ Len(p.uptime) \in Nat \ {0}
         /\ \A k \in 1 .. Len(p.uptime) : p.uptime[k] = Digit
         /\ p.tag \in Chars /\ Len(p.tag) \in Nat \ {0}
         /\ \A k \in 1 .. Len(p.tag) - 1 : ~IsSeparator(p.tag, k)
         /\ p.message \in Chars /\ Len(p.message) \in Nat
         /\ p.reset \in Chars
         /\ \/ Len(p.reset) = 1 /\ p.reset[1] = NoColour
            \/ /\ Len(p.reset) = 0
               /\ Len(p.message) > 0 => p.message[Len(p.message)] \notin {Newline, NoColour}
         /\ p.newlines \in Chars /\ Len(p.newlines) \in Nat
         /\ \A k \in 1 .. Len(p.newlines) : p.newlines[k] = Newline
<1>1. <<>> \in Chars /\ Len(<<>>) = 0
  BY EmptySeq DEF Chars
<1>2. \A c \in Escapes : <<c>> \in Chars /\ Len(<<c>>) = 1 /\ <<c>>[1] = c
  <2>. TAKE c \in Escapes
  <2>1. c \in Characters
    BY DEF Characters
  <2>. QED
    BY <2>1 DEF Chars
<1>3. NoColour \in Escapes
  BY DEF Escapes
<1>4. p.colour = <<>> \/ \E c \in Escapes : p.colour = <<c>>
  BY DEF IsWellFormed
<1>5. /\ p.colour \in Chars /\ Len(p.colour) \in 0 .. 1
      /\ Len(p.colour) = 1 => p.colour[1] \in Escapes
  <2>. DEFINE colour == p.colour
  <2>1. CASE colour = <<>>
    <3>1. colour \in Chars /\ Len(colour) = 0
      BY <1>1, <2>1
    <3>. HIDE DEF colour
    <3>2. Len(colour) \in 0 .. 1 /\ Len(colour) # 1
      BY <3>1
    <3>. QED
      BY <3>1, <3>2 DEF colour
  <2>2. ASSUME NEW c \in Escapes, colour = <<c>>
        PROVE  colour \in Chars /\ Len(colour) \in 0 .. 1 /\ colour[1] \in Escapes
    <3>1. colour \in Chars /\ Len(colour) = 1 /\ colour[1] = c
      BY <1>2, <2>2
    <3>. HIDE DEF colour
    <3>2. Len(colour) \in 0 .. 1
      BY <3>1
    <3>. QED
      BY <3>1, <3>2
  <2>. QED
    BY <1>4, <2>1, <2>2
<1>6. ASSUME NEW c \in Characters, NEW text \in Seq({c})
      PROVE  text \in Chars /\ \A k \in 1 .. Len(text) : text[k] = c
  <2>1. \A k \in 1 .. Len(text) : text[k] \in {c}
    BY ElementOfSeq
  <2>2. text \in Seq(Characters)
    <3>1. {c} \subseteq Characters
      OBVIOUS
    <3>. QED
      BY <3>1
  <2>. QED
    BY <2>1, <2>2 DEF Chars
<1>7. Digit \in Characters /\ Newline \in Characters
  BY DEF Characters
<1>8. /\ p.uptime \in Chars /\ p.uptime # <<>>
      /\ \A k \in 1 .. Len(p.uptime) : p.uptime[k] = Digit
  BY <1>6, <1>7 DEF IsWellFormed
<1>9. p.newlines \in Chars /\ \A k \in 1 .. Len(p.newlines) : p.newlines[k] = Newline
  BY <1>6, <1>7 DEF IsWellFormed
<1>10. /\ p.tag \in Chars /\ p.tag # <<>> /\ p.message \in Chars
       /\ \A k \in 1 .. Len(p.tag) - 1 : ~IsSeparator(p.tag, k)
  BY DEF IsWellFormed, Chars
<1>11. /\ p.reset \in Chars
       /\ \/ Len(p.reset) = 1 /\ p.reset[1] = NoColour
          \/ /\ Len(p.reset) = 0
             /\ p.message # <<>> => p.message[Len(p.message)] \notin {Newline, NoColour}
  BY <1>1, <1>2, <1>3 DEF IsWellFormed
<1>12. /\ Len(p.uptime) \in Nat \ {0} /\ Len(p.tag) \in Nat \ {0}
       /\ Len(p.message) \in Nat /\ Len(p.newlines) \in Nat
       /\ Len(p.message) > 0 => p.message # <<>>
  BY <1>8, <1>9, <1>10, IsEmpty, LenProperties DEF Chars
<1>. QED
  BY <1>5, <1>8, <1>9, <1>10, <1>11, <1>12

\* The places at which the parts of a line begin.
PlacesFit(c, u, t, m, r, w) ==
  /\ 0 \in Nat /\ c \in Nat /\ c + 3 \in Nat /\ c + u + 3 \in Nat /\ c + u + 5 \in Nat
  /\ c + u + t + 5 \in Nat /\ c + u + t + 7 \in Nat /\ c + u + t + m + 7 \in Nat
  /\ c + u + t + m + r + 7 \in Nat /\ c + u + t + m + r + w + 7 \in Nat
  /\ c + 3 + u = c + u + 3 /\ c + u + 3 + 2 = c + u + 5 /\ c + u + 5 + t = c + u + t + 5
  /\ c + u + t + 5 + 2 = c + u + t + 7 /\ c + u + t + 7 + m = c + u + t + m + 7
  /\ c + u + t + m + 7 + r = c + u + t + m + r + 7
  /\ c + u + t + m + r + 7 + w = c + u + t + m + r + w + 7

\* They are numbers, and each is the one before and the length of what is there.
LEMMA PlacesOfParts ==
  ASSUME NEW c \in Nat, NEW u \in Nat, NEW t \in Nat, NEW m \in Nat, NEW r \in Nat, NEW w \in Nat
  PROVE  PlacesFit(c, u, t, m, r, w)
  BY DEF PlacesFit

\* A line of the documented form reads as each of its parts where that begins.
LEMMA LineReads ==
  ASSUME NEW p, IsWellFormed(p)
  PROVE  LET raw == Line(p)
             c == Len(p.colour)
             u == Len(p.uptime)
             t == Len(p.tag)
             m == Len(p.message)
             r == Len(p.reset)
             w == Len(p.newlines)
         IN
         /\ raw \in Chars /\ Len(raw) = c + u + t + m + r + w + 7
         /\ Reads(raw, 0, p.colour)
         /\ Reads(raw, c, <<Letter, Blank, "(">>)
         /\ Reads(raw, c + 3, p.uptime)
         /\ Reads(raw, c + u + 3, <<")", Blank>>)
         /\ Reads(raw, c + u + 5, p.tag)
         /\ Reads(raw, c + u + t + 5, <<":", Blank>>)
         /\ Reads(raw, c + u + t + 7, p.message)
         /\ Reads(raw, c + u + t + m + 7, p.reset)
         /\ Reads(raw, c + u + t + m + r + 7, p.newlines)
<1>. DEFINE a == <<Letter, Blank, "(">>
            b == <<")", Blank>>
            s == <<":", Blank>>
            c == Len(p.colour)
            u == Len(p.uptime)
            t == Len(p.tag)
            m == Len(p.message)
            r == Len(p.reset)
            w == Len(p.newlines)
            x1 == p.colour \o a
            x2 == x1 \o p.uptime
            x3 == x2 \o b
            x4 == x3 \o p.tag
            x5 == x4 \o s
            x6 == x5 \o p.message
            x7 == x6 \o p.reset
            x8 == x7 \o p.newlines
<1>1. a \in Chars /\ b \in Chars /\ s \in Chars
  <2>1. /\ Letter \in Characters /\ Blank \in Characters /\ "(" \in Characters
        /\ ")" \in Characters /\ ":" \in Characters
    BY DEF Characters
  <2>. QED
    BY <2>1 DEF Chars
<1>2. Len(a) = 3 /\ Len(b) = 2 /\ Len(s) = 2
  OBVIOUS
<1>3. /\ p.colour \in Chars /\ p.uptime \in Chars /\ p.tag \in Chars /\ p.message \in Chars
      /\ p.reset \in Chars /\ p.newlines \in Chars
      /\ c \in Nat /\ u \in Nat /\ t \in Nat /\ m \in Nat /\ r \in Nat /\ w \in Nat
  BY PartsAre
<1>4. Line(p) = x8
  BY DEF Line
<1>5. 0 \in Nat /\ Reads(p.colour, 0, p.colour)
  BY <1>3 DEF Reads
<1>. DEFINE n0 == 0
            n1 == c
            n2 == c + 3
            n3 == c + u + 3
            n4 == c + u + 5
            n5 == c + u + t + 5
            n6 == c + u + t + 7
            n7 == c + u + t + m + 7
            n8 == c + u + t + m + r + 7
            n9 == c + u + t + m + r + w + 7
            v1 == p.colour
            v2 == a
            v3 == p.uptime
            v4 == b
            v5 == p.tag
            v6 == s
            v7 == p.message
            v8 == p.reset
            v9 == p.newlines
            x0 == p.colour
<1>6. /\ n0 \in Nat /\ n1 \in Nat /\ n2 \in Nat /\ n3 \in Nat /\ n4 \in Nat /\ n5 \in Nat
      /\ n6 \in Nat /\ n7 \in Nat /\ n8 \in Nat /\ n9 \in Nat
      /\ n1 + Len(v2) = n2 /\ n2 + Len(v3) = n3 /\ n3 + Len(v4) = n4 /\ n4 + Len(v5) = n5
      /\ n5 + Len(v6) = n6 /\ n6 + Len(v7) = n7 /\ n7 + Len(v8) = n8 /\ n8 + Len(v9) = n9
  <2>1. /\ Len(v2) = 3 /\ Len(v3) = u /\ Len(v4) = 2 /\ Len(v5) = t /\ Len(v6) = 2
        /\ Len(v7) = m /\ Len(v8) = r /\ Len(v9) = w
    BY <1>2 DEF c, u, t, m, r, w
  <2>. HIDE DEF v2, v3, v4, v5, v6, v7, v8, v9
  <2>2. c \in Nat /\ u \in Nat /\ t \in Nat /\ m \in Nat /\ r \in Nat /\ w \in Nat
    BY <1>3
  <2>5. PlacesFit(c, u, t, m, r, w)
    BY <2>2, PlacesOfParts
  <2>3. /\ n0 \in Nat /\ n1 \in Nat /\ n2 \in Nat /\ n3 \in Nat /\ n4 \in Nat /\ n5 \in Nat
        /\ n6 \in Nat /\ n7 \in Nat /\ n8 \in Nat /\ n9 \in Nat
    BY <2>5 DEF PlacesFit
  <2>4. /\ n1 + 3 = n2 /\ n2 + u = n3 /\ n3 + 2 = n4 /\ n4 + t = n5
        /\ n5 + 2 = n6 /\ n6 + m = n7 /\ n7 + r = n8 /\ n8 + w = n9
    BY <2>5 DEF PlacesFit
  <2>. HIDE DEF n0, n1, n2, n3, n4, n5, n6, n7, n8, n9
  <2>. QED
    BY <2>1, <2>3, <2>4
<1>7. /\ v1 \in Chars /\ v2 \in Chars /\ v3 \in Chars /\ v4 \in Chars /\ v5 \in Chars
      /\ v6 \in Chars /\ v7 \in Chars /\ v8 \in Chars /\ v9 \in Chars
  BY <1>1, <1>3
<1>8. x0 \in Chars /\ Len(x0) = n1 /\ Reads(x0, n0, v1)
  BY <1>3, <1>5 DEF c
<1>9. /\ x1 = x0 \o v2 /\ x2 = x1 \o v3 /\ x3 = x2 \o v4 /\ x4 = x3 \o v5 /\ x5 = x4 \o v6
      /\ x6 = x5 \o v7 /\ x7 = x6 \o v8 /\ x8 = x7 \o v9
  OBVIOUS
<1>. HIDE DEF n0, n1, n2, n3, n4, n5, n6, n7, n8, n9, v1, v2, v3, v4, v5, v6, v7, v8, v9
<1>. HIDE DEF x0, x1, x2, x3, x4, x5, x6, x7, x8
<1>10. /\ x1 \in Chars /\ Len(x1) = n2
       /\ Reads(x1, n0, v1) /\ Reads(x1, n1, v2)
  <2>1. x0 \in Chars /\ v2 \in Chars /\ x1 = x0 \o v2
    BY <1>7, <1>9, <1>8
  <2>2. /\ x1 \in Chars /\ Len(x1) = Len(x0) + Len(v2) /\ Reads(x1, Len(x0), v2)
        /\ \A at \in Nat, z \in Chars : Reads(x0, at, z) => Reads(x1, at, z)
    BY <2>1, PutBehind
  <2>3. Reads(x1, n0, v1)
    BY <1>6, <1>7, <1>8, <2>2, Zenon
  <2>4. Len(x1) = n2 /\ Reads(x1, n1, v2)
    BY <1>6, <1>8, <2>2, Zenon
  <2>. QED
    BY <2>2, <2>3, <2>4, Zenon
<1>11. /\ x2 \in Chars /\ Len(x2) = n3
       /\ Reads(x2, n0, v1) /\ Reads(x2, n1, v2) /\ Reads(x2, n2, v3)
  <2>1. x1 \in Chars /\ v3 \in Chars /\ x2 = x1 \o v3
    BY <1>7, <1>9, <1>10
  <2>2. /\ x2 \in Chars /\ Len(x2) = Len(x1) + Len(v3) /\ Reads(x2, Len(x1), v3)
        /\ \A at \in Nat, z \in Chars : Reads(x1, at, z) => Reads(x2, at, z)
    BY <2>1, PutBehind
  <2>3. /\ Reads(x2, n0, v1) /\ Reads(x2, n1, v2)
    BY <1>6, <1>7, <1>10, <2>2, Zenon
  <2>4. Len(x2) = n3 /\ Reads(x2, n2, v3)
    BY <1>6, <1>10, <2>2, Zenon
  <2>. QED
    BY <2>2, <2>3, <2>4, Zenon
<1>12. /\ x3 \in Chars /\ Len(x3) = n4
       /\ Reads(x3, n0, v1) /\ Reads(x3, n1, v2) /\ Reads(x3, n2, v3)
       /\ Reads(x3, n3, v4)
  <2>1. x2 \in Chars /\ v4 \in Chars /\ x3 = x2 \o v4
    BY <1>7, <1>9, <1>11
  <2>2. /\ x3 \in Chars /\ Len(x3) = Len(x2) + Len(v4) /\ Reads(x3, Len(x2), v4)
        /\ \A at \in Nat, z \in Chars : Reads(x2, at, z) => Reads(x3, at, z)
    BY <2>1, PutBehind
  <2>3. /\ Reads(x3, n0, v1) /\ Reads(x3, n1, v2) /\ Reads(x3, n2, v3)
    BY <1>6, <1>7, <1>11, <2>2, Zenon
  <2>4. Len(x3) = n4 /\ Reads(x3, n3, v4)
    BY <1>6, <1>11, <2>2, Zenon
  <2>. QED
    BY <2>2, <2>3, <2>4, Zenon
<1>13. /\ x4 \in Chars /\ Len(x4) = n5
       /\ Reads(x4, n0, v1) /\ Reads(x4, n1, v2) /\ Reads(x4, n2, v3)
       /\ Reads(x4, n3, v4) /\ Reads(x4, n4, v5)
  <2>1. x3 \in Chars /\ v5 \in Chars /\ x4 = x3 \o v5
    BY <1>7, <1>9, <1>12
  <2>2. /\ x4 \in Chars /\ Len(x4) = Len(x3) + Len(v5) /\ Reads(x4, Len(x3), v5)
        /\ \A at \in Nat, z \in Chars : Reads(x3, at, z) => Reads(x4, at, z)
    BY <2>1, PutBehind
  <2>3. /\ Reads(x4, n0, v1) /\ Reads(x4, n1, v2) /\ Reads(x4, n2, v3)
        /\ Reads(x4, n3, v4)
    BY <1>6, <1>7, <1>12, <2>2, Zenon
  <2>4. Len(x4) = n5 /\ Reads(x4, n4, v5)
    BY <1>6, <1>12, <2>2, Zenon
  <2>. QED
    BY <2>2, <2>3, <2>4, Zenon
<1>14. /\ x5 \in Chars /\ Len(x5) = n6
       /\ Reads(x5, n0, v1) /\ Reads(x5, n1, v2) /\ Reads(x5, n2, v3)
       /\ Reads(x5, n3, v4) /\ Reads(x5, n4, v5) /\ Reads(x5, n5, v6)
  <2>1. x4 \in Chars /\ v6 \in Chars /\ x5 = x4 \o v6
    BY <1>7, <1>9, <1>13
  <2>2. /\ x5 \in Chars /\ Len(x5) = Len(x4) + Len(v6) /\ Reads(x5, Len(x4), v6)
        /\ \A at \in Nat, z \in Chars : Reads(x4, at, z) => Reads(x5, at, z)
    BY <2>1, PutBehind
  <2>3. /\ Reads(x5, n0, v1) /\ Reads(x5, n1, v2) /\ Reads(x5, n2, v3)
        /\ Reads(x5, n3, v4) /\ Reads(x5, n4, v5)
    BY <1>6, <1>7, <1>13, <2>2, Zenon
  <2>4. Len(x5) = n6 /\ Reads(x5, n5, v6)
    BY <1>6, <1>13, <2>2, Zenon
  <2>. QED
    BY <2>2, <2>3, <2>4, Zenon
<1>15. /\ x6 \in Chars /\ Len(x6) = n7
       /\ Reads(x6, n0, v1) /\ Reads(x6, n1, v2) /\ Reads(x6, n2, v3)
       /\ Reads(x6, n3, v4) /\ Reads(x6, n4, v5) /\ Reads(x6, n5, v6)
       /\ Reads(x6, n6, v7)
  <2>1. x5 \in Chars /\ v7 \in Chars /\ x6 = x5 \o v7
    BY <1>7, <1>9, <1>14
  <2>2. /\ x6 \in Chars /\ Len(x6) = Len(x5) + Len(v7) /\ Reads(x6, Len(x5), v7)
        /\ \A at \in Nat, z \in Chars : Reads(x5, at, z) => Reads(x6, at, z)
    BY <2>1, PutBehind
  <2>3. /\ Reads(x6, n0, v1) /\ Reads(x6, n1, v2) /\ Reads(x6, n2, v3)
        /\ Reads(x6, n3, v4) /\ Reads(x6, n4, v5) /\ Reads(x6, n5, v6)
    BY <1>6, <1>7, <1>14, <2>2, Zenon
  <2>4. Len(x6) = n7 /\ Reads(x6, n6, v7)
    BY <1>6, <1>14, <2>2, Zenon
  <2>. QED
    BY <2>2, <2>3, <2>4, Zenon
<1>16. /\ x7 \in Chars /\ Len(x7) = n8
       /\ Reads(x7, n0, v1) /\ Reads(x7, n1, v2) /\ Reads(x7, n2, v3)
       /\ Reads(x7, n3, v4) /\ Reads(x7, n4, v5) /\ Reads(x7, n5, v6)
       /\ Reads(x7, n6, v7) /\ Reads(x7, n7, v8)
  <2>1. x6 \in Chars /\ v8 \in Chars /\ x7 = x6 \o v8
    BY <1>7, <1>9, <1>15
  <2>2. /\ x7 \in Chars /\ Len(x7) = Len(x6) + Len(v8) /\ Reads(x7, Len(x6), v8)
        /\ \A at \in Nat, z \in Chars : Reads(x6, at, z) => Reads(x7, at, z)
    BY <2>1, PutBehind
  <2>3. /\ Reads(x7, n0, v1) /\ Reads(x7, n1, v2) /\ Reads(x7, n2, v3)
        /\ Reads(x7, n3, v4) /\ Reads(x7, n4, v5) /\ Reads(x7, n5, v6)
        /\ Reads(x7, n6, v7)
    BY <1>6, <1>7, <1>15, <2>2, Zenon
  <2>4. Len(x7) = n8 /\ Reads(x7, n7, v8)
    BY <1>6, <1>15, <2>2, Zenon
  <2>. QED
    BY <2>2, <2>3, <2>4, Zenon
<1>17. /\ x8 \in Chars /\ Len(x8) = n9
       /\ Reads(x8, n0, v1) /\ Reads(x8, n1, v2) /\ Reads(x8, n2, v3)
       /\ Reads(x8, n3, v4) /\ Reads(x8, n4, v5) /\ Reads(x8, n5, v6)
       /\ Reads(x8, n6, v7) /\ Reads(x8, n7, v8) /\ Reads(x8, n8, v9)
  <2>1. x7 \in Chars /\ v9 \in Chars /\ x8 = x7 \o v9
    BY <1>7, <1>9, <1>16
  <2>2. /\ x8 \in Chars /\ Len(x8) = Len(x7) + Len(v9) /\ Reads(x8, Len(x7), v9)
        /\ \A at \in Nat, z \in Chars : Reads(x7, at, z) => Reads(x8, at, z)
    BY <2>1, PutBehind
  <2>3. /\ Reads(x8, n0, v1) /\ Reads(x8, n1, v2) /\ Reads(x8, n2, v3)
        /\ Reads(x8, n3, v4) /\ Reads(x8, n4, v5) /\ Reads(x8, n5, v6)
        /\ Reads(x8, n6, v7) /\ Reads(x8, n7, v8)
    BY <1>6, <1>7, <1>16, <2>2, Zenon
  <2>4. Len(x8) = n9 /\ Reads(x8, n8, v9)
    BY <1>6, <1>16, <2>2, Zenon
  <2>. QED
    BY <2>2, <2>3, <2>4, Zenon
<1>. QED
  BY <1>4, <1>17, Zenon DEF n0, n1, n2, n3, n4, n5, n6, n7, n8, n9,
     v1, v2, v3, v4, v5, v6, v7, v8, v9, a, b, s, c, u, t, m, r, w

-----------------------------------------------------------------------------
(* What is read back *)

\* What stands where in a line of the documented form; n1 .. n5 are where its uptime, the ")"
\* behind that, its tag, the separator behind that and its message begin.
IsLaidOut(raw, p, c, n1, n2, n3, n4, n5, n6, n7, n8) ==
  /\ raw \in Chars /\ Len(raw) = n8
  /\ c \in 0 .. 1 /\ n1 = c + 3 /\ n1 \in Nat /\ n2 = n1 + Len(p.uptime) /\ n2 \in Nat
  /\ n1 < n2 /\ n3 = n2 + 2 /\ n3 \in Nat /\ n4 = n3 + Len(p.tag) /\ n4 \in Nat /\ n3 < n4
  /\ n5 = n4 + 2 /\ n5 \in Nat /\ n6 = n5 + Len(p.message) /\ n6 \in Nat /\ n5 <= n6
  /\ n7 \in Nat /\ n8 \in Nat /\ n7 <= n8
  /\ c = 1 => raw[1] \in Escapes
  /\ raw[c + 1] = Letter /\ raw[c + 2] = Blank /\ raw[c + 3] = "("
  /\ Reads(raw, n1, p.uptime) /\ \A i \in n1 + 1 .. n2 : raw[i] = Digit
  /\ raw[n2 + 1] = ")" /\ raw[n2 + 2] = Blank
  /\ Reads(raw, n3, p.tag) /\ raw[n4 + 1] = ":" /\ raw[n4 + 2] = Blank
  /\ \A i \in n3 + 1 .. n4 - 1 : ~IsSeparator(raw, i)
  /\ Reads(raw, n5, p.message)
  /\ \/ n7 = n6 + 1 /\ raw[n7] = NoColour
     \/ n7 = n6 /\ raw[n7] \notin {Newline, NoColour}
  /\ \A i \in n7 + 1 .. n8 : raw[i] = Newline

\* Every line of the documented form is laid out so.
LEMMA LineIsLaidOut ==
  ASSUME NEW p, IsWellFormed(p)
  PROVE  \E c, n1, n2, n3, n4, n5, n6, n7, n8 :
           IsLaidOut(Line(p), p, c, n1, n2, n3, n4, n5, n6, n7, n8)
<1>. DEFINE raw == Line(p)
            c == Len(p.colour)
            u == Len(p.uptime)
            t == Len(p.tag)
            m == Len(p.message)
            r == Len(p.reset)
            w == Len(p.newlines)
            n1 == c + 3
            n2 == c + u + 3
            n3 == c + u + 5
            n4 == c + u + t + 5
            n5 == c + u + t + 7
            n6 == c + u + t + m + 7
            n7 == c + u + t + m + r + 7
            n8 == c + u + t + m + r + w + 7
<1>1. /\ c \in 0 .. 1 /\ u \in Nat \ {0} /\ t \in Nat \ {0} /\ m \in Nat
      /\ r \in 0 .. 1 /\ w \in Nat
      /\ c = 1 => p.colour[1] \in Escapes
      /\ \A k \in 1 .. u : p.uptime[k] = Digit
      /\ \A k \in 1 .. t - 1 : ~IsSeparator(p.tag, k)
      /\ \/ r = 1 /\ p.reset[1] = NoColour
         \/ r = 0 /\ (m > 0 => p.message[m] \notin {Newline, NoColour})
      /\ \A k \in 1 .. w : p.newlines[k] = Newline
  BY PartsAre
<1>2. /\ raw \in Chars /\ Len(raw) = n8
      /\ Reads(raw, 0, p.colour)
      /\ Reads(raw, c, <<Letter, Blank, "(">>)
      /\ Reads(raw, n1, p.uptime)
      /\ Reads(raw, n2, <<")", Blank>>)
      /\ Reads(raw, n3, p.tag)
      /\ Reads(raw, n4, <<":", Blank>>)
      /\ Reads(raw, n5, p.message)
      /\ Reads(raw, n6, p.reset)
      /\ Reads(raw, n7, p.newlines)
  BY LineReads
<1>3. /\ \A k \in 1 .. c : raw[0 + k] = p.colour[k]
      /\ \A k \in 1 .. 3 : raw[c + k] = <<Letter, Blank, "(">>[k]
      /\ \A k \in 1 .. u : raw[n1 + k] = p.uptime[k]
      /\ \A k \in 1 .. 2 : raw[n2 + k] = <<")", Blank>>[k]
      /\ \A k \in 1 .. t : raw[n3 + k] = p.tag[k]
      /\ \A k \in 1 .. 2 : raw[n4 + k] = <<":", Blank>>[k]
      /\ \A k \in 1 .. m : raw[n5 + k] = p.message[k]
      /\ \A k \in 1 .. r : raw[n6 + k] = p.reset[k]
      /\ \A k \in 1 .. w : raw[n7 + k] = p.newlines[k]
  <2>. HIDE DEF raw, n1, n2, n3, n4, n5, n6, n7, n8
  <2>1. Len(<<Letter, Blank, "(">>) = 3 /\ Len(<<")", Blank>>) = 2 /\ Len(<<":", Blank>>) = 2
    OBVIOUS
  <2>. QED
    BY <1>2, <2>1 DEF Reads
<1>. HIDE DEF raw, c, u, t, m, r, w
<1>4. /\ n1 \in Nat /\ n2 \in Nat /\ n3 \in Nat /\ n4 \in Nat /\ n5 \in Nat /\ n6 \in Nat
      /\ n2 = n1 + u /\ n3 = n2 + 2 /\ n4 = n3 + t /\ n5 = n4 + 2 /\ n6 = n5 + m
      /\ n7 \in Nat /\ n8 \in Nat /\ n7 = n6 + r /\ n8 = n7 + w /\ n1 = c + 3
  <2>1. c \in Nat /\ u \in Nat /\ t \in Nat /\ m \in Nat /\ r \in Nat /\ w \in Nat
    BY <1>1
  <2>2. PlacesFit(c, u, t, m, r, w)
    BY <2>1, PlacesOfParts
  <2>. QED
    BY <2>2 DEF PlacesFit
<1>. HIDE DEF n1, n2, n3, n4, n5, n6, n7, n8
<1>5. n1 < n2 /\ n3 < n4 /\ n5 <= n6 /\ n7 <= n8
  BY <1>1, <1>4
<1>6. c = 1 => raw[1] \in Escapes
  <2>1. c = 1 => 1 \in 1 .. c /\ 0 + 1 = 1
    OBVIOUS
  <2>. QED
    BY <1>1, <1>3, <2>1
<1>7. raw[c + 1] = Letter /\ raw[c + 2] = Blank /\ raw[c + 3] = "("
  <2>1. 1 \in 1 .. 3 /\ 2 \in 1 .. 3 /\ 3 \in 1 .. 3
    OBVIOUS
  <2>. QED
    BY <1>3, <2>1
<1>8. /\ raw[n2 + 1] = ")" /\ raw[n2 + 2] = Blank
      /\ raw[n4 + 1] = ":" /\ raw[n4 + 2] = Blank
  <2>1. 1 \in 1 .. 2 /\ 2 \in 1 .. 2
    OBVIOUS
  <2>. QED
    BY <1>3, <2>1
<1>9. ASSUME NEW i \in n1 + 1 .. n2 PROVE raw[i] = Digit
  <2>. DEFINE k == i - n1
  <2>1. k \in 1 .. u /\ n1 + k = i
    BY <1>1, <1>4
  <2>. HIDE DEF k
  <2>. QED
    BY <1>1, <1>3, <2>1
<1>10. ASSUME NEW i \in n3 + 1 .. n4 - 1 PROVE ~IsSeparator(raw, i)
  <2>. DEFINE k == i - n3
  <2>1. k \in 1 .. t /\ k \in 1 .. t - 1 /\ k + 1 \in 1 .. t /\ n3 + k = i /\ n3 + (k + 1) = i + 1
    BY <1>1, <1>4
  <2>. HIDE DEF k
  <2>2. raw[n3 + k] = p.tag[k] /\ raw[n3 + (k + 1)] = p.tag[k + 1]
    BY <1>3, <2>1
  <2>3. raw[i] = p.tag[k] /\ raw[i + 1] = p.tag[k + 1]
    BY <2>1, <2>2
  <2>4. ~IsSeparator(p.tag, k)
    BY <1>1, <2>1
  <2>. QED
    BY <2>3, <2>4 DEF IsSeparator
<1>11. ASSUME NEW i \in n7 + 1 .. n8 PROVE raw[i] = Newline
  <2>. DEFINE k == i - n7
  <2>1. k \in 1 .. w /\ n7 + k = i
    BY <1>1, <1>4
  <2>. HIDE DEF k
  <2>. QED
    BY <1>1, <1>3, <2>1
<1>12. \/ n7 = n6 + 1 /\ raw[n7] = NoColour
       \/ n7 = n6 /\ raw[n7] \notin {Newline, NoColour}
  <2>1. CASE r = 1
    <3>1. n7 = n6 + 1 /\ 1 \in 1 .. r
      BY <1>4, <2>1
    <3>2. raw[n6 + 1] = p.reset[1]
      BY <1>3, <3>1
    <3>. QED
      BY <1>1, <2>1, <3>1, <3>2
  <2>2. CASE r = 0 /\ m > 0
    <3>1. n7 = n6 /\ n7 = n5 + m /\ m \in 1 .. m
      BY <1>1, <1>4, <2>2
    <3>2. raw[n5 + m] = p.message[m]
      BY <1>3, <3>1
    <3>3. p.message[m] \notin {Newline, NoColour}
      BY <1>1, <2>2
    <3>. QED
      BY <3>1, <3>2, <3>3
  <2>3. CASE r = 0 /\ m = 0
    <3>1. n7 = n6 /\ n7 = n4 + 2
      BY <1>4, <2>3
    <3>. QED
      BY <1>8, <3>1 DEF Blank, Newline, NoColour
  <2>. QED
    BY <1>1, <2>1, <2>2, <2>3
<1>13. IsLaidOut(raw, p, c, n1, n2, n3, n4, n5, n6, n7, n8)
  BY <1>1, <1>2, <1>4, <1>5, <1>6, <1>7, <1>8, <1>9, <1>10, <1>11, <1>12 DEF IsLaidOut, u, t, m
<1>. QED
  BY <1>13 DEF raw

\* What is read from a line that is laid out so.
LEMMA LaidOutIsRead ==
  ASSUME NEW p, IsWellFormed(p), NEW raw, NEW c, NEW n1 \in Nat, NEW n2 \in Nat, NEW n3 \in Nat,
         NEW n4 \in Nat, NEW n5 \in Nat, NEW n6 \in Nat, NEW n7 \in Nat, NEW n8 \in Nat,
         IsLaidOut(raw, p, c, n1, n2, n3, n4, n5, n6, n7, n8)
  PROVE  Between(raw) = [uptime |-> p.uptime, tag |-> p.tag, message |-> p.message]
<1>1. /\ raw \in Chars /\ Len(raw) = n8 /\ c \in 0 .. 1 /\ n1 = c + 3
      /\ n1 < n2 /\ n3 = n2 + 2 /\ n3 < n4 /\ n5 = n4 + 2 /\ n5 <= n6 /\ n7 <= n8
      /\ n7 = n6 + 1 \/ n7 = n6
  BY DEF IsLaidOut
<1>2. /\ p.uptime \in Chars /\ p.tag \in Chars /\ p.message \in Chars
      /\ n2 = n1 + Len(p.uptime) /\ n4 = n3 + Len(p.tag) /\ n6 = n5 + Len(p.message)
      /\ Reads(raw, n1, p.uptime) /\ Reads(raw, n3, p.tag) /\ Reads(raw, n5, p.message)
  BY PartsAre DEF IsLaidOut
<1>3. LastOf(raw) = n7
  <2>. DEFINE last == LastOf(raw)
  <2>1. /\ last \in 0 .. n8
        /\ last > 0 => raw[last] # Newline
        /\ \A i \in 1 .. n8 : raw[i] # Newline => i <= last
    BY <1>1, LastOfIs
  <2>. HIDE DEF last
  <2>2. n7 \in 1 .. n8 /\ raw[n7] # Newline
    <3>1. n7 \in 1 .. n8
      BY <1>1
    <3>2. raw[n7] # Newline
      BY DEF IsLaidOut, NoColour, Newline
    <3>. QED
      BY <3>1, <3>2
  <2>3. n7 <= last
    BY <2>1, <2>2
  <2>4. ASSUME last > n7 PROVE FALSE
    <3>1. last \in n7 + 1 .. n8 /\ last > 0
      BY <2>1, <2>4
    <3>. QED
      BY <2>1, <3>1 DEF IsLaidOut
  <2>. QED
    BY <2>1, <2>3, <2>4 DEF last
<1>4. EndOf(raw) = n6
  <2>1. n7 > 0 /\ n6 + 1 - 1 = n6
    BY <1>1
  <2>2. EndOf(raw) = IF n7 > 0 /\ raw[n7] = NoColour THEN n7 - 1 ELSE n7
    BY <1>3 DEF EndOf
  <2>3. \/ n7 = n6 + 1 /\ raw[n7] = NoColour
        \/ n7 = n6 /\ raw[n7] # NoColour
    BY DEF IsLaidOut
  <2>4. n7 - 1 = n6 \/ n7 = n6
    BY <2>3
  <2>. QED
    BY <2>1, <2>2, <2>3, <2>4
<1>5. StartOf(raw) = c + 1 /\ StartOf(raw) + 3 = n1 + 1
  <2>1. n6 > 0
    BY <1>1
  <2>2. StartOf(raw) = IF n6 > 0 /\ raw[1] \in Escapes THEN 2 ELSE 1
    BY <1>4 DEF StartOf
  <2>3. CASE c = 1
    <3>1. raw[1] \in Escapes
      BY <2>3 DEF IsLaidOut
    <3>. QED
      BY <1>1, <2>1, <2>2, <2>3, <3>1
  <2>4. CASE c = 0
    <3>1. raw[1] = Letter
      <4>1. c + 1 = 1
        BY <2>4
      <4>. QED
        BY <4>1 DEF IsLaidOut
    <3>2. raw[1] \notin Escapes
      BY <3>1 DEF Letter, Escapes, NoColour
    <3>. QED
      BY <1>1, <2>2, <2>4, <3>2
  <2>. QED
    BY <1>1, <2>3, <2>4
<1>6. DigitsEnd(raw, n1 + 1, n6) = n2 + 1
  <2>. DEFINE T == {i \in n1 + 1 .. n6 : raw[i] # Digit} \cup {n6 + 1}
  <2>1. DigitsEnd(raw, n1 + 1, n6) = Min(T)
    BY DEF DigitsEnd
  <2>2. T \in SUBSET Nat
    OBVIOUS
  <2>3. n2 + 1 \in T
    <3>1. n2 + 1 \in n1 + 1 .. n6
      BY <1>1
    <3>2. raw[n2 + 1] # Digit
      BY DEF IsLaidOut, Digit
    <3>. QED
      BY <3>1, <3>2
  <2>4. ASSUME NEW i \in T PROVE n2 + 1 <= i
    <3>1. CASE i = n6 + 1
      BY <1>1, <3>1
    <3>2. CASE i \in n1 + 1 .. n6 /\ raw[i] # Digit
      <4>1. ~(i \in n1 + 1 .. n2)
        BY <3>2 DEF IsLaidOut
      <4>. QED
        BY <3>2, <4>1
    <3>. QED
      BY <3>1, <3>2
  <2>. HIDE DEF T
  <2>5. Min(T) = n2 + 1
    BY <2>2, <2>3, <2>4, MinIsThe
  <2>. QED
    BY <2>1, <2>5
<1>. DEFINE seps == Separators(raw, n3 + 1, n6)
<1>7. seps \in SUBSET Nat /\ n4 + 1 \in seps /\ \A i \in seps : n4 + 1 <= i
  <2>1. seps \in SUBSET Nat
    BY DEF Separators
  <2>2. n4 + 1 \in seps
    <3>1. n4 + 1 \in n3 + 1 .. n6 - 1 /\ n4 + 1 + 1 = n4 + 2
      BY <1>1
    <3>2. IsSeparator(raw, n4 + 1)
      BY <3>1 DEF IsLaidOut, IsSeparator
    <3>. QED
      BY <3>1, <3>2 DEF Separators
  <2>3. ASSUME NEW i \in seps, i < n4 + 1 PROVE FALSE
    <3>1. i \in n3 + 1 .. n6 - 1 /\ IsSeparator(raw, i)
      BY DEF Separators
    <3>2. CASE i < n4
      <4>1. i \in n3 + 1 .. n4 - 1
        BY <3>1, <3>2
      <4>. QED
        BY <3>1, <4>1 DEF IsLaidOut
    <3>3. CASE i = n4
      <4>1. raw[i + 1] = ":"
        BY <3>3 DEF IsLaidOut
      <4>2. raw[i + 1] = Blank
        BY <3>1 DEF IsSeparator
      <4>. QED
        BY <4>1, <4>2 DEF Blank
    <3>. QED
      BY <2>3, <3>1, <3>2, <3>3
  <2>4. \A i \in seps : n4 + 1 <= i
    <3>. TAKE i \in seps
    <3>1. i \in Nat
      BY <2>1
    <3>. HIDE DEF seps
    <3>. QED
      BY <2>3, <3>1
  <2>. QED
    BY <2>1, <2>2, <2>4
<1>8. Min(seps) = n4 + 1 /\ n3 + 1 \notin seps /\ seps # {}
  <2>. HIDE DEF seps
  <2>1. Min(seps) = n4 + 1
    BY <1>7, MinIsThe
  <2>2. ~(n4 + 1 <= n3 + 1)
    BY <1>1
  <2>. QED
    BY <1>7, <2>1, <2>2
<1>9. /\ SubSeq(raw, n1 + 1, n2) = p.uptime /\ SubSeq(raw, n3 + 1, n4) = p.tag
      /\ SubSeq(raw, n5 + 1, n6) = p.message
  <2>1. SubSeq(raw, n1 + 1, n2) = p.uptime
    <3>. DEFINE from == n1 + 1
                z == p.uptime
    <3>1. z \in Chars /\ Reads(raw, n1, z) /\ n2 = n1 + Len(z) /\ from = n1 + 1
      BY <1>2
    <3>. HIDE DEF from, z
    <3>2. Cut(raw, from, n2, z)
      BY <1>1, <3>1, CutOut
    <3>. QED
      BY <3>2 DEF Cut, from, z
  <2>2. SubSeq(raw, n3 + 1, n4) = p.tag
    <3>. DEFINE from == n3 + 1
                z == p.tag
    <3>1. z \in Chars /\ Reads(raw, n3, z) /\ n4 = n3 + Len(z) /\ from = n3 + 1
      BY <1>2
    <3>. HIDE DEF from, z
    <3>2. Cut(raw, from, n4, z)
      BY <1>1, <3>1, CutOut
    <3>. QED
      BY <3>2 DEF Cut, from, z
  <2>3. SubSeq(raw, n5 + 1, n6) = p.message
    <3>. DEFINE from == n5 + 1
                z == p.message
    <3>1. z \in Chars /\ Reads(raw, n5, z) /\ n6 = n5 + Len(z) /\ from = n5 + 1
      BY <1>2
    <3>. HIDE DEF from, z
    <3>2. Cut(raw, from, n6, z)
      BY <1>1, <3>1, CutOut
    <3>. QED
      BY <3>2 DEF Cut, from, z
  <2>. QED
    BY <2>1, <2>2, <2>3
<1>. DEFINE begin == StartOf(raw)
            end == EndOf(raw)
            close == DigitsEnd(raw, begin + 3, end)
            found == Separators(raw, close + 2, end)
            colon == Min(found)
<1>10. end = n6 /\ close = n2 + 1 /\ close + 2 = n3 + 1
  <2>1. n2 + 1 + 2 = n3 + 1
    BY <1>1
  <2>. QED
    BY <1>4, <1>5, <1>6, <2>1
<1>11. found = seps /\ colon = n4 + 1
  BY <1>8, <1>10
<1>12. Between(raw) =
         IF /\ end > close /\ raw[begin] = Letter /\ raw[begin + 1] = Blank /\ raw[begin + 2] = "("
            /\ close > begin + 3 /\ raw[close] = ")" /\ raw[close + 1] = Blank
            /\ found # {} /\ close + 2 \notin found
         THEN [uptime |-> SubSeq(raw, begin + 3, close - 1),
               tag |-> SubSeq(raw, close + 2, colon - 1),
               message |-> SubSeq(raw, colon + 2, end)]
         ELSE NotALine
  BY DEF Between
<1>13. begin = c + 1
  BY <1>5
<1>. HIDE DEF begin, end, close, found, colon, seps
<1>14. /\ raw[begin] = Letter /\ raw[begin + 1] = Blank /\ raw[begin + 2] = "("
       /\ raw[close] = ")" /\ raw[close + 1] = Blank
  <2>1. begin + 1 = c + 2 /\ begin + 2 = c + 3 /\ close + 1 = n2 + 2
    BY <1>1, <1>10, <1>13
  <2>. QED
    BY <1>10, <1>13, <2>1 DEF IsLaidOut
<1>15. end > close /\ close > begin + 3
  BY <1>1, <1>10, <1>13
<1>16. found # {} /\ close + 2 \notin found
  BY <1>8, <1>10, <1>11
<1>17. /\ begin + 3 = n1 + 1 /\ close - 1 = n2 /\ close + 2 = n3 + 1 /\ colon - 1 = n4
       /\ colon + 2 = n5 + 1
  BY <1>1, <1>10, <1>11, <1>13
<1>18. Between(raw) = [uptime |-> SubSeq(raw, begin + 3, close - 1),
                       tag |-> SubSeq(raw, close + 2, colon - 1),
                       message |-> SubSeq(raw, colon + 2, end)]
  BY <1>12, <1>14, <1>15, <1>16, Zenon
<1>. QED
  BY <1>9, <1>10, <1>17, <1>18

\* A line of the documented form is read back, whatever is in it.
LEMMA LinesAreReadBackHolds == LinesAreReadBack
<1>. SUFFICES ASSUME NEW p \in Parts
              PROVE  ParseEspLogLine(Line(p)) =
                       [uptime |-> p.uptime, tag |-> p.tag, message |-> p.message]
  BY DEF LinesAreReadBack
<1>1. IsWellFormed(p)
  BY LogTextAssumption
<1>2. PICK c, n1, n2, n3, n4, n5, n6, n7, n8 :
        IsLaidOut(Line(p), p, c, n1, n2, n3, n4, n5, n6, n7, n8)
  BY <1>1, LineIsLaidOut
<1>3. /\ Line(p) \in Chars
      /\ n1 \in Nat /\ n2 \in Nat /\ n3 \in Nat /\ n4 \in Nat /\ n5 \in Nat /\ n6 \in Nat
      /\ n7 \in Nat /\ n8 \in Nat
  BY <1>2 DEF IsLaidOut
<1>4. Between(Line(p)) = [uptime |-> p.uptime, tag |-> p.tag, message |-> p.message]
  BY <1>1, <1>2, <1>3, LaidOutIsRead
<1>. QED
  BY <1>3, <1>4, ReadsBetween

\* The three together, for every line, message and list of secrets (LineParser.h:36-44,
\* Redactor.h:46-53).
LEMMA HotPathAgreesHolds == HotPathAgrees
  BY LinesAreReadBackHolds, ParsersAgreeHolds, RedactorsAgreeHolds DEF HotPathAgrees

(* The functions of the hook and those on strings agree: a line of the      *)
(* documented form is read back, both parsers take and refuse the same      *)
(* lines, and in place no message outgrows its buffer, none is redacted     *)
(* differently where masks fit their secrets, and no registered secret      *)
(* that is unlike a mask is left (LineParser.h:36-44, Redactor.h:46-53).    *)
THEOREM LineIsReadTheSameHolds == Spec => []LineIsReadTheSame
<1>1. LineIsReadTheSame
  BY HotPathAgreesHolds DEF LineIsReadTheSame
<1>. QED  BY <1>1, PTL
=============================================================================
