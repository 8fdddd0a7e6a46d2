--------------------------- MODULE TelemetryProofs ---------------------------
(***************************************************************************)
(* Readings up to the uplink, for any sensorUids and policies, any sizes   *)
(* and ages, and any streams beside Data: the types, and that no reading   *)
(* is forgotten.  Both are inductive together: a reading is counted in its *)
(* buffer from its arrival on, the flush task holds one buffer at a time,  *)
(* and only it takes readings out.                                         *)
(***************************************************************************)
EXTENDS Telemetry, TLAPS

USE SensorsAssumption, TurnsAssumption, TelemetryAssumption

-----------------------------------------------------------------------------
(* Buffers                                                                 *)

AllPolicies == Policies \cup {Immediate}
BufferShape ==
  [made : BOOLEAN, policy : AllPolicies, count : 0 .. MaxCount, age : 0 .. MaxAge]
FlushShape == [left : SUBSET Uids, uid : Uids \cup {NoUid}]
MarkShape == [place : Places, uid : Uids \cup {NoUid}]

\* A buffer whose readings will be flushed, one day.
Flushable(buffer) ==
  /\ buffer \in BufferShape
  /\ buffer.made => buffer.policy.kind = "Batch"
  /\ buffer.count > 0 => buffer.made

\* The invariant, part by part.
BuffersKept ==
  /\ policy \in AllPolicies
  /\ buffers = [u \in Uids |-> buffers[u]]
  /\ \A u \in Uids : Flushable(buffers[u])
SensorsKept ==
  /\ BuffersKept
  /\ flush \in FlushShape /\ mark \in MarkShape
  /\ mark.place # "none" => mark.uid \in Uids
  /\ mark.place = "pending" => buffers[mark.uid].count > 0
  /\ mark.place = "moved" => flush.uid = mark.uid
TurnsKept ==
  /\ pending \in [Streams -> BOOLEAN] /\ overdue \in [Streams -> BOOLEAN]
  /\ flight \in [Streams -> {"none", "waiting", "due"}]
  /\ passes \in [Streams -> 0 .. TimeoutPasses]
HasBacklog == mark.place = "journal" => pending["Data"]
Kept == SensorsKept /\ TurnsKept /\ HasBacklog

\* The parts are the whole.
LEMMA KeptIs == ReadingsAreKept <=> Kept
<1>1. BufferShape = [made : BOOLEAN, policy : Policies \cup {Immediate}, count : 0 .. MaxCount,
                     age : 0 .. MaxAge]
  BY DEF BufferShape, AllPolicies
<1>2. buffers \in [Uids -> BufferShape] <=>
        buffers = [u \in Uids |-> buffers[u]] /\ \A u \in Uids : buffers[u] \in BufferShape
  OBVIOUS
<1>. QED
  BY <1>1, <1>2 DEF ReadingsAreKept, Kept, SensorsKept, BuffersKept, TurnsKept, HasBacklog, TypeOK,
     SensorsTypeOK, BuffersAreFlushable, ReadingIsSomewhere, Flushable, AllPolicies, FlushShape, MarkShape

\* An empty buffer, and one with a reading more.
LEMMA EmptyIsFlushable ==
  ASSUME NEW buffer, Flushable(buffer)
  PROVE  Flushable([buffer EXCEPT !.count = 0, !.age = 0])
<1>. DEFINE empty == [buffer EXCEPT !.count = 0, !.age = 0]
<1>1. 0 \in 0 .. MaxCount /\ 0 \in 0 .. MaxAge
  OBVIOUS
<1>2. empty \in BufferShape
  BY <1>1 DEF Flushable, BufferShape
<1>3. empty.made = buffer.made /\ empty.policy = buffer.policy /\ empty.count = 0
  BY DEF Flushable, BufferShape
<1>4. Flushable(empty)
  <2>. HIDE DEF empty
  <2>. QED
    BY <1>2, <1>3 DEF Flushable
<1>. QED
  BY <1>4

LEMMA AddIsFlushable ==
  ASSUME NEW buffer, Flushable(buffer), buffer.made
  PROVE  Flushable(Add(buffer)) /\ Add(buffer).count > 0
<1>. DEFINE n == AtMost(buffer.count + 1, MaxCount)
            m == IF buffer.count = 0 THEN 0 ELSE buffer.age
<1>1. n \in 0 .. MaxCount /\ n > 0 /\ m \in 0 .. MaxAge
  BY DEF Flushable, BufferShape, AtMost
<1>2. Add(buffer) = [buffer EXCEPT !.count = n, !.age = m]
  BY DEF Add
<1>. HIDE DEF n, m
<1>. QED
  BY <1>1, <1>2 DEF Flushable, BufferShape

\* A policy that buffers makes a buffer it will flush.
LEMMA BufferOfIsFlushable ==
  ASSUME BuffersKept, NEW u \in Uids, policy.kind = "Batch"
  PROVE  Flushable(BufferOf(u)) /\ BufferOf(u).made
<1>1. CASE buffers[u].made
  BY <1>1 DEF BuffersKept, BufferOf
<1>2. CASE ~buffers[u].made
  <2>1. BufferOf(u) = [made |-> TRUE, policy |-> policy, count |-> 0, age |-> 0]
    BY <1>2 DEF BufferOf, NoBuffer
  <2>2. policy \in AllPolicies /\ 0 \in 0 .. MaxCount /\ 0 \in 0 .. MaxAge
    BY DEF BuffersKept
  <2>. QED
    BY <2>1, <2>2 DEF Flushable, BufferShape
<1>. QED
  BY <1>1, <1>2

\* One buffer changes, and the policies do not.
LEMMA OneBufferChanges ==
  ASSUME BuffersKept, NEW u \in Uids, NEW buffer, Flushable(buffer), UNCHANGED policy,
         buffers' = [buffers EXCEPT ![u] = buffer]
  PROVE  /\ BuffersKept'
         /\ buffers'[u] = buffer /\ \A v \in Uids \ {u} : buffers'[v] = buffers[v]
  BY DEF BuffersKept

-----------------------------------------------------------------------------
(* The sensors' steps                                                      *)

\* Nothing is buffered at the start, and nothing marked.
LEMMA InitKept == TelemetryInit => Kept
<1>. SUFFICES ASSUME TelemetryInit PROVE Kept
  OBVIOUS
<1>1. Flushable(NoBuffer)
  BY DEF Flushable, BufferShape, NoBuffer, AllPolicies
<1>2. SensorsKept
  BY <1>1 DEF TelemetryInit, SensorsInit, SensorsKept, BuffersKept, AllPolicies, FlushShape, MarkShape,
              FlushIdle, Places
<1>3. TurnsKept /\ HasBacklog
  BY DEF TelemetryInit, Init, SensorsInit, TurnsKept, HasBacklog
<1>. QED
  BY <1>2, <1>3 DEF Kept

\* A policy is for buffers to come.
LEMMA SetReportingKeeps ==
  ASSUME SensorsKept, NEW p \in Policies, SetReporting(p)
  PROVE  SensorsKept' /\ UNCHANGED mark
  BY DEF SensorsKept, BuffersKept, SetReporting, AllPolicies

\* A reading is counted, marked or not.
LEMMA ReportSampleKeeps ==
  ASSUME SensorsKept, NEW u \in Uids, ReportSample(u)
  PROVE  SensorsKept' /\ (UNCHANGED mark \/ mark'.place = "pending")
<1>. DEFINE buffer == Add(BufferOf(u))
<1>1. Flushable(buffer) /\ buffer.count > 0
  BY BufferOfIsFlushable, AddIsFlushable DEF ReportSample, SensorsKept
<1>. HIDE DEF buffer
<1>2. buffers' = [buffers EXCEPT ![u] = buffer] /\ UNCHANGED <<policy, flush>>
  BY DEF ReportSample, buffer
<1>3. BuffersKept' /\ buffers'[u] = buffer /\ \A v \in Uids \ {u} : buffers'[v] = buffers[v]
  BY <1>1, <1>2, OneBufferChanges DEF SensorsKept
<1>4. CASE UNCHANGED mark
  BY <1>1, <1>2, <1>3, <1>4 DEF SensorsKept
<1>5. CASE mark' = [place |-> "pending", uid |-> u]
  BY <1>1, <1>2, <1>3, <1>5 DEF SensorsKept, MarkShape, Places
<1>. QED
  BY <1>4, <1>5 DEF ReportSample, MayMark

\* The task begins another sweep.
LEMMA FlushTickKeeps ==
  ASSUME SensorsKept, FlushTick
  PROVE  SensorsKept' /\ UNCHANGED mark
  BY DEF SensorsKept, BuffersKept, FlushTick, FlushIdle, FlushShape, MarkShape

\* What is moved out of a buffer is in the task's hands.
LEMMA MaybeFlushKeeps ==
  ASSUME SensorsKept, NEW u \in Uids, MaybeFlush(u)
  PROVE  SensorsKept' /\ (UNCHANGED mark \/ mark'.place = "moved")
<1>1. CASE ShouldFlush(buffers[u])
  <2>. DEFINE buffer == [buffers[u] EXCEPT !.count = 0, !.age = 0]
  <2>1. flush' = [left |-> flush.left \ {u}, uid |-> u] /\ UNCHANGED policy
        /\ buffers' = [buffers EXCEPT ![u] = buffer]
    BY <1>1 DEF MaybeFlush
  <2>2. Flushable(buffer)
    BY EmptyIsFlushable DEF SensorsKept, BuffersKept
  <2>. HIDE DEF buffer
  <2>3. BuffersKept' /\ \A v \in Uids \ {u} : buffers'[v] = buffers[v]
    BY <2>1, <2>2, OneBufferChanges DEF SensorsKept
  <2>4. flush' \in FlushShape /\ flush'.uid = u
    BY <2>1 DEF SensorsKept, FlushShape
  <2>5. CASE MarkAt("pending", u)
    <3>1. mark' = [mark EXCEPT !.place = "moved"]
      BY <1>1, <2>5 DEF MaybeFlush, Moves
    <3>. QED
      BY <2>3, <2>4, <2>5, <3>1 DEF SensorsKept, MarkShape, Places, MarkAt
  <2>6. CASE ~MarkAt("pending", u)
    <3>1. UNCHANGED mark
      BY <1>1, <2>6 DEF MaybeFlush
    <3>2. mark.place # "moved"
      BY DEF MaybeFlush, SensorsKept
    <3>. QED
      BY <2>3, <2>4, <2>6, <3>1, <3>2 DEF SensorsKept, MarkAt
  <2>. QED
    BY <2>5, <2>6
<1>2. CASE ~ShouldFlush(buffers[u])
  <2>1. UNCHANGED <<policy, buffers, mark>> /\ flush' = [flush EXCEPT !.left = @ \ {u}]
    BY <1>2 DEF MaybeFlush
  <2>. QED
    BY <2>1 DEF SensorsKept, BuffersKept, FlushShape
<1>. QED
  BY <1>1, <1>2

\* What was moved out is appended, or lost with what came since.
LEMMA FlushSensorKeeps ==
  ASSUME SensorsKept, NEW appended \in BOOLEAN, FlushSensor(appended)
  PROVE  SensorsKept' /\ (mark'.place = "journal" => appended \/ mark.place = "journal")
<1>. DEFINE u == flush.uid
            buffer == [buffers[u] EXCEPT !.count = 0, !.age = 0]
<1>1. u \in Uids /\ UNCHANGED policy /\ flush' = [flush EXCEPT !.uid = NoUid]
      /\ buffers' = [buffers EXCEPT ![u] = buffer]
  BY DEF FlushSensor, SensorsKept, FlushShape
<1>2. Flushable(buffer)
  BY <1>1, EmptyIsFlushable DEF SensorsKept, BuffersKept
<1>. HIDE DEF buffer
<1>3. BuffersKept' /\ \A v \in Uids \ {u} : buffers'[v] = buffers[v]
  BY <1>1, <1>2, OneBufferChanges DEF SensorsKept
<1>4. flush' \in FlushShape
  BY <1>1 DEF SensorsKept, FlushShape
<1>5. CASE mark.uid = u /\ mark.place \in {"moved", "pending"}
  <2>1. \E place \in {"journal", "lost"} :
          mark' = [mark EXCEPT !.place = place] /\ (place = "journal" => appended)
    BY <1>5 DEF FlushSensor, Moves
  <2>2. PICK place \in {"journal", "lost"} :
          mark' = [mark EXCEPT !.place = place] /\ (place = "journal" => appended)
    BY <2>1
  <2>3. mark' \in MarkShape /\ mark'.place = place /\ mark'.uid = mark.uid
    BY <2>2 DEF SensorsKept, MarkShape, Places
  <2>. QED
    BY <1>1, <1>3, <1>4, <1>5, <2>2, <2>3 DEF SensorsKept
<1>6. CASE ~(mark.uid = u /\ mark.place \in {"moved", "pending"})
  <2>1. UNCHANGED mark
    BY <1>6 DEF FlushSensor
  <2>2. mark.place # "moved"
    BY <1>6 DEF SensorsKept
  <2>3. mark.place = "pending" => mark.uid \in Uids \ {u}
    BY <1>6 DEF SensorsKept
  <2>. QED
    BY <1>3, <1>4, <2>1, <2>2, <2>3 DEF SensorsKept
<1>. QED
  BY <1>5, <1>6

\* Buffers age, and no more.
LEMMA SecondPassesKeeps ==
  ASSUME SensorsKept, SecondPasses
  PROVE  SensorsKept' /\ UNCHANGED mark
<1>1. ASSUME NEW u \in Uids
      PROVE  Flushable(buffers'[u]) /\ buffers'[u].count = buffers[u].count
  <2>1. Flushable(buffers[u])
    BY DEF SensorsKept, BuffersKept
  <2>2. \/ buffers'[u] = buffers[u]
        \/ buffers'[u] = [buffers[u] EXCEPT !.age = AtMost(@ + 1, MaxAge)]
    BY DEF SecondPasses
  <2>3. AtMost(buffers[u].age + 1, MaxAge) \in 0 .. MaxAge
    BY <2>1 DEF Flushable, BufferShape, AtMost
  <2>. QED
    BY <2>1, <2>2, <2>3 DEF Flushable, BufferShape
<1>2. buffers' = [u \in Uids |-> buffers'[u]]
  BY DEF SecondPasses
<1>. QED
  BY <1>1, <1>2 DEF SecondPasses, SensorsKept, BuffersKept

-----------------------------------------------------------------------------
(* The uplink's steps                                                      *)

\* A pass leaves the backlogs alone.
LEMMA PassKeeps ==
  ASSUME TurnsKept, Pass
  PROVE  TurnsKept' /\ UNCHANGED pending
<1>1. overdue' \in [Streams -> BOOLEAN] /\ UNCHANGED pending
  BY DEF Pass, TurnsKept
<1>2. flight' \in [Streams -> {"none", "waiting", "due"}]
  BY DEF Pass, Serves, TurnsKept
<1>3. passes' \in [Streams -> 0 .. TimeoutPasses]
  BY DEF Pass, Serves, TurnsKept
<1>. QED
  BY <1>1, <1>2, <1>3 DEF TurnsKept

\* Time passes between the passes.
LEMMA WaitingKeeps ==
  ASSUME TurnsKept, Waiting
  PROVE  TurnsKept' /\ UNCHANGED pending
  BY DEF TurnsKept, Waiting, FallsDue, QuotaPasses

-----------------------------------------------------------------------------
(* Telemetry                                                               *)

\* Every step keeps every reading.
LEMMA NextKept == Kept /\ [TelemetryNext]_telemetryVars => Kept'
<1>. SUFFICES ASSUME Kept, [TelemetryNext]_telemetryVars PROVE Kept'
  OBVIOUS
<1>. USE DEF Kept
<1>1. CASE Append
  <2>1. PICK appended \in BOOLEAN :
          /\ FlushSensor(appended)
          /\ pending' = [pending EXCEPT !["Data"] = @ \/ appended]
          /\ UNCHANGED <<flight, passes, overdue, scene>>
    BY <1>1 DEF Append
  <2>2. SensorsKept' /\ (mark'.place = "journal" => appended \/ mark.place = "journal")
    BY <2>1, FlushSensorKeeps
  <2>3. TurnsKept' /\ pending'["Data"] = (pending["Data"] \/ appended)
    BY <2>1 DEF TurnsKept
  <2>. QED
    BY <2>2, <2>3 DEF HasBacklog
<1>2. CASE Turn
  <2>1. TurnsKept' /\ UNCHANGED <<pending, policy, buffers, flush>>
    BY <1>2, PassKeeps DEF Turn
  <2>2. CASE UNCHANGED mark
    BY <2>1, <2>2 DEF SensorsKept, BuffersKept, HasBacklog
  <2>3. CASE mark.place = "journal" /\ Moves("offered")
    BY <2>1, <2>3 DEF SensorsKept, BuffersKept, HasBacklog, Moves, MarkShape, Places
  <2>. QED
    BY <1>2, <2>2, <2>3 DEF Turn
<1>3. ASSUME NEW s \in Streams, Answer(s)
      PROVE  Kept'
  <2>1. UNCHANGED sensorVars
    BY <1>3 DEF Answer
  <2>2. TurnsKept'
    BY <1>3 DEF Answer, Answered, TurnsKept
  <2>3. pending'["Data"] = pending["Data"] \/ s = "Data"
    BY <1>3 DEF Answer, Answered, TurnsKept
  <2>4. HasBacklog'
    BY <1>3, <2>1, <2>3 DEF Answer, HasBacklog, sensorVars
  <2>. QED
    BY <2>1, <2>2, <2>4 DEF SensorsKept, BuffersKept, sensorVars
<1>4. CASE SensorsRun /\ UNCHANGED <<vars, scene>>
  <2>1. SensorsKept' /\ (UNCHANGED mark \/ mark'.place = "moved")
    BY <1>4, FlushTickKeeps, MaybeFlushKeeps, SecondPassesKeeps DEF SensorsRun, FlushSweep
  <2>. QED
    BY <1>4, <2>1 DEF vars, TurnsKept, HasBacklog
<1>5. CASE Waiting /\ UNCHANGED <<sensorVars, scene>>
  BY <1>5, WaitingKeeps DEF sensorVars, SensorsKept, BuffersKept, HasBacklog
<1>6. CASE Application /\ UNCHANGED <<vars, scene>>
  <2>1. SensorsKept' /\ (UNCHANGED mark \/ mark'.place = "pending")
    BY <1>6, SetReportingKeeps, ReportSampleKeeps DEF Application
  <2>. QED
    BY <1>6, <2>1 DEF vars, TurnsKept, HasBacklog
<1>7. CASE (\E s \in Streams : Arrives(s)) /\ UNCHANGED <<sensorVars, scene>>
  BY <1>7 DEF Arrives, sensorVars, SensorsKept, BuffersKept, TurnsKept, HasBacklog
<1>8. CASE UNCHANGED telemetryVars
  BY <1>8 DEF telemetryVars, vars, sensorVars, SensorsKept, BuffersKept, TurnsKept, HasBacklog
<1>. QED
  BY <1>1, <1>2, <1>3, <1>4, <1>5, <1>6, <1>7, <1>8 DEF TelemetryNext

\* For any policies in any order, any traffic and any losses: a reading that was buffered is
\* counted where a policy will flush it, in the flush task's hands, backlog of the Data
\* stream, offered, or lost in one of the two ways the flush has (Sensor.cpp:28-55,
\* SensorReportBuffer.h:41-55).
THEOREM ReadingsAreKeptHolds == TelemetrySpec => []ReadingsAreKept
<1>1. TelemetryInit => ReadingsAreKept
  BY InitKept, KeptIs
<1>2. Kept' => ReadingsAreKept'
  BY KeptIs, PTL
<1>3. ReadingsAreKept /\ [TelemetryNext]_telemetryVars => ReadingsAreKept'
  BY <1>2, NextKept, KeptIs
<1>. QED
  BY <1>1, <1>3, PTL DEF TelemetrySpec
=============================================================================
