------------------------------- MODULE Sensors -------------------------------
(***************************************************************************)
(* The readings of a sensor (Sensors/Sensor.cpp, SensorReportBuffer.h,     *)
(* ReportPolicy.h, SensorsController.cpp): published at once, or kept in a *)
(* buffer of each sensorUid, from which croniot_sensor_flush makes a frame *)
(* of the Data stream.  Readings come from a task of the application,      *)
(* which also sets the policy, and nothing keeps them from the buffer that *)
(* is being flushed.                                                       *)
(*                                                                         *)
(* Of the readings one is marked, any one; the others are only counted.    *)
(***************************************************************************)
EXTENDS Integers

CONSTANTS
  Uids,       \* sensorUids of one Sensor
  Policies,   \* the policies that setReporting() is called with
  MaxCount,   \* bound: readings in a buffer, and the age of its oldest one, beyond which
  MaxAge      \* there is nothing to tell apart

NoUid == "none"
Immediate == [kind |-> "Immediate", periodSec |-> 0, maxSamples |-> 0]

ASSUME SensorsAssumption ==
  /\ Policies \subseteq [kind : {"Immediate", "Batch"}, periodSec : 0 .. MaxAge, maxSamples : 0 .. MaxCount]
  /\ MaxCount \in Nat \ {0} /\ MaxAge \in Nat
  /\ NoUid \notin Uids

VARIABLES
  policy,   \* policy_
  buffers,  \* buffers_: how many readings, and for how long the oldest has been there
  flush,    \* croniot_sensor_flush: the buffers it has still to see, and the one it empties
  mark      \* history: where the marked reading is

sensorVars == <<policy, buffers, flush, mark>>

NoBuffer == [made |-> FALSE, policy |-> Immediate, count |-> 0, age |-> 0]
FlushIdle == [left |-> {}, uid |-> NoUid]
Places == {"none", "pending", "moved", "journal", "offered", "lost"}

SensorsInit ==
  /\ policy = Immediate
  /\ buffers = [u \in Uids |-> NoBuffer]
  /\ flush = FlushIdle
  /\ mark = [place |-> "none", uid |-> NoUid]

AtMost(n, limit) == IF n < limit THEN n ELSE limit
MarkAt(place, u) == mark.place = place /\ mark.uid = u
Moves(place) == mark' = [mark EXCEPT !.place = place]

\* Mutant: the buffers begin anew with each policy.
SetReportingAnew(p) == policy' = p /\ buffers' = [u \in Uids |-> NoBuffer] /\ UNCHANGED <<flush, mark>>

(* The buffer keeps the policy with which it was made. *)
SetReporting(p) == policy' = p /\ UNCHANGED <<buffers, flush, mark>>

\* Mutant: the wait is that of the newest reading.
AddNewest(buffer) == [buffer EXCEPT !.count = AtMost(@ + 1, MaxCount), !.age = 0]

(* SensorReportBuffer::add() *)
Add(buffer) ==
  [buffer EXCEPT !.count = AtMost(@ + 1, MaxCount), !.age = IF buffer.count = 0 THEN 0 ELSE @]

BufferOf(u) == IF buffers[u].made THEN buffers[u] ELSE [NoBuffer EXCEPT !.made = TRUE, !.policy = policy]

(* The reading that is marked is one of those that are buffered. *)
MayMark(u) ==
  \/ UNCHANGED mark
  \/ mark.place = "none" /\ mark' = [place |-> "pending", uid |-> u]

(* reportSample(): at once it is published, and forgotten whether that     *)
(* succeeds or not.                                                        *)
ReportSample(u) ==
  /\ policy.kind = "Batch"
  /\ buffers' = [buffers EXCEPT ![u] = Add(BufferOf(u))]
  /\ MayMark(u)
  /\ UNCHANGED <<policy, flush>>

(* shouldFlush() *)
ShouldFlush(buffer) ==
  /\ buffer.count > 0 /\ buffer.policy.kind = "Batch"
  /\ \/ buffer.policy.maxSamples > 0 /\ buffer.count >= buffer.policy.maxSamples
     \/ buffer.age >= buffer.policy.periodSec

(* flushTask(), once a second: every buffer, one after the other. *)
FlushTick ==
  /\ flush = FlushIdle
  /\ \E u \in Uids : ShouldFlush(buffers[u])
  /\ flush' = [FlushIdle EXCEPT !.left = Uids]
  /\ UNCHANGED <<policy, buffers, mark>>

(* maybeFlush(), flush(): what is pending is moved out ... *)
MaybeFlush(u) ==
  /\ flush.uid = NoUid /\ u \in flush.left
  /\ IF ShouldFlush(buffers[u])
     THEN /\ flush' = [left |-> flush.left \ {u}, uid |-> u]
          /\ buffers' = [buffers EXCEPT ![u] = [@ EXCEPT !.count = 0, !.age = 0]]
          /\ IF MarkAt("pending", u) THEN Moves("moved") ELSE UNCHANGED mark
     ELSE flush' = [flush EXCEPT !.left = @ \ {u}] /\ UNCHANGED <<buffers, mark>>
  /\ UNCHANGED policy

(* ... and what came since is cleared.  flushSensor() then appends a frame, *)
(* and does not ask whether that succeeded.                                 *)
FlushSensor(appended) ==
  /\ flush.uid # NoUid
  /\ flush' = [flush EXCEPT !.uid = NoUid]
  /\ buffers' = [buffers EXCEPT ![flush.uid] = [@ EXCEPT !.count = 0, !.age = 0]]
  /\ IF mark.uid # flush.uid THEN UNCHANGED mark
     ELSE IF mark.place = "moved" THEN Moves(IF appended THEN "journal" ELSE "lost")
     ELSE IF mark.place = "pending" THEN Moves("lost") ELSE UNCHANGED mark
  /\ UNCHANGED policy

SecondPasses ==
  /\ \E u \in Uids : buffers[u].count > 0 /\ buffers[u].age < MaxAge
  /\ buffers' = [u \in Uids |-> IF buffers[u].count > 0 THEN [buffers[u] EXCEPT !.age = AtMost(@ + 1, MaxAge)]
                                ELSE buffers[u]]
  /\ UNCHANGED <<policy, flush, mark>>

Application == (\E p \in Policies : SetReporting(p)) \/ \E u \in Uids : ReportSample(u)
FlushSweep == FlushTick \/ \E u \in Uids : MaybeFlush(u)

SensorsTypeOK ==
  /\ policy \in Policies \cup {Immediate}
  /\ buffers \in [Uids -> [made : BOOLEAN, policy : Policies \cup {Immediate}, count : 0 .. MaxCount, age : 0 .. MaxAge]]
  /\ flush \in [left : SUBSET Uids, uid : Uids \cup {NoUid}]
  /\ mark \in [place : Places, uid : Uids \cup {NoUid}]
=============================================================================
