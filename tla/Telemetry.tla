------------------------------ MODULE Telemetry ------------------------------
(***************************************************************************)
(* From a reading to the uplink: the readings of a sensor (Sensors) come   *)
(* into the Data stream, which takes its turns beside the others           *)
(* (UplinkTurns).                                                          *)
(***************************************************************************)
EXTENDS Sensors, UplinkTurns

ASSUME TelemetryAssumption == "Data" \in Streams

(* A bound: readings come while the other streams are quiet, or backlogs   *)
(* come that never end, whatever it is that fills Data.                    *)
VARIABLE scene

telemetryVars == <<vars, sensorVars, scene>>

TelemetryInit == Init /\ SensorsInit /\ scene \in {"readings", "backlogs"}

(* appendRaw(): the Data stream has something to send.  It fails when the  *)
(* partition is not mounted or the frame cannot be written.                *)
Append ==
  \E appended \in BOOLEAN :
    /\ FlushSensor(appended)
    /\ pending' = [pending EXCEPT !["Data"] = @ \/ appended]
    /\ UNCHANGED <<flight, passes, overdue, scene>>

(* A turn of the Data stream: a batch is read that starts with the first   *)
(* record that is not acknowledged.  A bound: it holds all of them.        *)
Turn ==
  /\ Pass
  /\ IF mark.place = "journal" /\ flight["Data"] = "none" /\ flight'["Data"] = "waiting"
     THEN Moves("offered") ELSE UNCHANGED mark
  /\ UNCHANGED <<policy, buffers, flush, scene>>

(* The answer to a batch says nothing of a record that was not in it. *)
Answer(s) ==
  /\ Answered(s)
  /\ s = "Data" /\ mark.place = "journal" => pending'["Data"]
  /\ UNCHANGED <<sensorVars, scene>>

GivesUp(s) == Turn /\ flight[s] = "due" /\ flight'[s] = "none"

Waiting == \E s \in Streams : FallsDue(s) \/ QuotaPasses(s)
SensorsRun == FlushSweep \/ SecondPasses

TelemetryNext ==
  \/ Append \/ Turn \/ \E s \in Streams : Answer(s)
  \/ SensorsRun /\ UNCHANGED <<vars, scene>>
  \/ Waiting /\ UNCHANGED <<sensorVars, scene>>
  \/ scene = "readings" /\ Application /\ UNCHANGED <<vars, scene>>
  \/ scene = "backlogs" /\ (\E s \in Streams : Arrives(s)) /\ UNCHANGED <<sensorVars, scene>>

(* The tasks run and the clock goes on; no answer ever has to come, and of *)
(* a batch that gets none the attempts are counted.                        *)
TelemetryFairness ==
  /\ WF_telemetryVars(FlushSweep /\ UNCHANGED <<vars, scene>>) /\ WF_telemetryVars(Append)
  /\ WF_telemetryVars(SecondPasses /\ UNCHANGED <<vars, scene>>)
  /\ WF_telemetryVars(Turn)
  /\ \A s \in Streams : WF_telemetryVars((FallsDue(s) \/ QuotaPasses(s)) /\ UNCHANGED <<sensorVars, scene>>)
  /\ SF_telemetryVars(GivesUp("Data"))

TelemetrySpec == TelemetryInit /\ [][TelemetryNext]_telemetryVars /\ TelemetryFairness
-----------------------------------------------------------------------------
TypeOK ==
  /\ SensorsTypeOK
  /\ pending \in [Streams -> BOOLEAN] /\ overdue \in [Streams -> BOOLEAN]
  /\ flight \in [Streams -> {"none", "waiting", "due"}]
  /\ passes \in [Streams -> 0 .. TimeoutPasses]

\* No buffer holds readings that no policy of its own will ever flush.
BuffersAreFlushable ==
  \A u \in Uids :
    /\ buffers[u].made => buffers[u].policy.kind = "Batch"
    /\ buffers[u].count > 0 => buffers[u].made

\* Until it is offered or lost, the marked reading is where the next step will find it.
ReadingIsSomewhere ==
  /\ mark.place # "none" => mark.uid \in Uids
  /\ mark.place = "pending" => buffers[mark.uid].count > 0
  /\ mark.place = "moved" => flush.uid = mark.uid
  /\ mark.place = "journal" => pending["Data"]

\* No reading is forgotten: whatever policies follow while the flush task goes from buffer
\* to buffer, one that is in a buffer is counted there, in one that its policy will flush;
\* one that was moved out is in the task's hands, and one that was appended is backlog of the
\* Data stream (Sensor.cpp:33-54, SensorReportBuffer.h:41-55).  The types included.
ReadingsAreKept == TypeOK /\ BuffersAreFlushable /\ ReadingIsSomewhere

\* A reading does not stay where it is: however fast others come in and whatever policies
\* follow, it is flushed, and its stream gets the turn to send it; or it is lost, in a frame
\* that could not be written or between the move and the clear of a flush
\* (SensorReportBuffer.h:41-55, Sensor.cpp:41-55, UplinkScheduler.h:57-65).
ReadingsAreOffered == mark.place = "pending" ~> mark.place \in {"offered", "lost"}
=============================================================================
