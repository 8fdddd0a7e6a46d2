------------------------------ MODULE Commands ------------------------------
(***************************************************************************)
(* Commands for the device's tasks (Tasks/TaskController.cpp, TaskBase.cpp *)
(* and the inbound half of network/mqtt/WifiMqttController.cpp): from the  *)
(* event handler on the MQTT task to the queue of mqtt_worker, from there  *)
(* to the queue of the task they are for, and back as progress updates,    *)
(* which one task publishes on every channel.                              *)
(*                                                                         *)
(* Three things are waited for: room in a queue, the mutex that            *)
(* WifiMqttController::publishWithOptions() takes, and the lock of the     *)
(* MQTT client (external), which the MQTT task holds while it runs the     *)
(* event handler and every publisher needs.  nimble_host brings commands   *)
(* from BLE and processes them itself (module Ble).                        *)
(***************************************************************************)
EXTENDS Integers, Sequences, FiniteSets

CONSTANTS
  Tasks,          \* the uids of the device's tasks
  NoTask,         \* a uid that is none of theirs
  Sent,           \* the commands the server and the phone may send
  MessageRoom,    \* WifiMqttController::msgQueue
  ProgressRoom,   \* TaskController::progressUpdateQueue
  InboxRoom,      \* TaskBase::messageQueue
  StrayHandle,    \* progressUpdateQueue, before it is set, is not null
  MaxStimuli      \* bound: what reaches the device from outside

(* A command to be run at once, one with a time in it, and a request for   *)
(* the state.                                                              *)
Commands == [kind : {"now", "timed", "sync"}, task : Tasks \cup {NoTask}]
NoCommand == [kind |-> "none", task |-> NoTask]

ASSUME CommandsAssumption ==
  /\ NoTask \notin Tasks
  /\ Sent \subseteq Commands
  /\ {MessageRoom, ProgressRoom, InboxRoom} \subseteq Nat \ {0}
  /\ StrayHandle \in BOOLEAN
  /\ MaxStimuli \in Nat

(* The tasks that process commands. *)
Carriers == {"mqtt_worker", "nimble_host"}

VARIABLES
  stage,       \* how far TaskController::init() is: "unset", "queue", "ready"; or "faulted"
  stimuli,     \* how often the world has acted
  arriving,    \* the message the MQTT task's event handler has in hand
  messages,    \* msgQueue
  carrier,     \* what each carrier does with which command
  progress,    \* how many reports are in progressUpdateQueue
  publisher,   \* taskProgressUpdateFunction(): where it is with a report
  inbox,       \* how many commands are in each task's messageQueue
  running,     \* the tasks that execute one
  mutex,       \* who holds WifiMqttController::mutex
  client       \* who holds the MQTT client's lock

world == <<stage, stimuli>>
inbound == <<arriving, messages, carrier>>
outbound == <<progress, publisher>>
tasks == <<inbox, running>>
locks == <<mutex, client>>
commandVars == <<world, inbound, outbound, tasks, locks>>

Resting == [pc |-> "idle", cmd |-> NoCommand]

CommandsInit ==
  /\ stage = "unset"
  /\ stimuli = 0
  /\ arriving = NoCommand
  /\ messages = <<>>
  /\ carrier = [c \in Carriers |-> Resting]
  /\ progress = 0
  /\ publisher = "idle"
  /\ inbox = [t \in Tasks |-> 0]
  /\ running = {}
  /\ mutex = "free"
  /\ client = "free"

Up == stage # "faulted"

(* TaskController::init(): the queue first, then the tasks and the one     *)
(* that reads it.  Their run() subscribes to their topics.                 *)
CreateProgressQueue ==
  /\ stage = "unset"
  /\ stage' = "queue"
  /\ UNCHANGED <<stimuli, inbound, outbound, tasks, locks>>

StartTasks ==
  /\ stage = "queue"
  /\ stage' = "ready"
  /\ UNCHANGED <<stimuli, inbound, outbound, tasks, locks>>

Stimulus == Up /\ stimuli < MaxStimuli /\ stimuli' = stimuli + 1
-----------------------------------------------------------------------------
(* The MQTT task                                                           *)

(* MQTT_EVENT_DATA, with a topic and a payload: the client calls the       *)
(* handler with its lock held.  One message for NoTask stands for those of *)
(* the topics that have callbacks of their own (module Link).              *)
MqttData(cmd) ==
  /\ stage = "ready"
  /\ cmd.task = NoTask => cmd.kind = "sync"
  /\ client = "free" /\ arriving = NoCommand
  /\ Stimulus
  /\ arriving' = cmd
  /\ client' = "mqtt"
  /\ UNCHANGED <<stage, messages, carrier, outbound, tasks, mutex>>

\* Mutant: the queue's limit is overlooked.
HandleMessageAnyway ==
  /\ Up
  /\ arriving # NoCommand
  /\ messages' = Append(messages, arriving)
  /\ arriving' = NoCommand
  /\ client' = "free"
  /\ UNCHANGED <<world, carrier, outbound, tasks, mutex>>

\* Mutant: the handler waits for room in the queue.
HandleMessageWaiting ==
  /\ Up
  /\ arriving # NoCommand
  /\ Len(messages) < MessageRoom
  /\ messages' = Append(messages, arriving)
  /\ arriving' = NoCommand
  /\ client' = "free"
  /\ UNCHANGED <<world, carrier, outbound, tasks, mutex>>

(* handleMessage(): what finds no room is dropped. *)
HandleMessage ==
  /\ Up
  /\ arriving # NoCommand
  /\ messages' = IF Len(messages) < MessageRoom THEN Append(messages, arriving) ELSE messages
  /\ arriving' = NoCommand
  /\ client' = "free"
  /\ UNCHANGED <<world, carrier, outbound, tasks, mutex>>
-----------------------------------------------------------------------------
(* A carrier: mqtt_worker, or the NimBLE host                              *)

CarrierAt(c, pc) == Up /\ carrier[c].pc = pc
CarrierTo(c, pc) == carrier' = [carrier EXCEPT ![c] = IF pc = "idle" THEN Resting ELSE [@ EXCEPT !.pc = pc]]

(* processInWorker(): a callback, or the command it carries to a task. *)
WorkerReceive ==
  /\ CarrierAt("mqtt_worker", "idle")
  /\ messages # <<>>
  /\ messages' = Tail(messages)
  /\ carrier' = IF Head(messages).task = NoTask THEN carrier
                ELSE [carrier EXCEPT !["mqtt_worker"] = [pc |-> "announce", cmd |-> Head(messages)]]
  /\ UNCHANGED <<world, arriving, outbound, tasks, locks>>

(* enqueueTaskProgressUpdate(): waits for room, without limit.  Before     *)
(* init() the handle it tests for null was never set: it may be anything.  *)
Enqueue ==
  IF stage = "unset" THEN
    /\ stage' = IF StrayHandle THEN "faulted" ELSE stage
    /\ UNCHANGED progress
  ELSE
    /\ progress < ProgressRoom
    /\ progress' = progress + 1
    /\ UNCHANGED stage

(* processMessageTaskStateInfoSync() reports the task's state; the command *)
(* of processMessageTaskData() is reported as received.                    *)
Announce(c) ==
  LET cmd == carrier[c].cmd IN
  /\ CarrierAt(c, "announce")
  /\ IF cmd.kind = "sync"
     THEN /\ IF cmd.task = NoTask THEN UNCHANGED <<stage, progress>> ELSE Enqueue
          /\ CarrierTo(c, "idle")
     ELSE /\ Enqueue
          /\ CarrierTo(c, "run")
  /\ UNCHANGED <<stimuli, arriving, messages, publisher, tasks, locks>>

Afterwards(c) == CarrierTo(c, IF c = "nimble_host" THEN "echo" ELSE "idle")

(* TaskBase::enqueueMessage(): a full queue is waited for, and after 100 ms *)
(* the command is dropped.                                                  *)
EnqueueMessage(t) == inbox[t] < InboxRoom /\ inbox' = [inbox EXCEPT ![t] = @ + 1]

(* runTaskRightNow() *)
HandOver(c) ==
  LET t == carrier[c].cmd.task IN
  /\ CarrierAt(c, "run")
  /\ t # NoTask /\ carrier[c].cmd.kind # "timed"
  /\ EnqueueMessage(t)
  /\ Afterwards(c)
  /\ UNCHANGED <<world, arriving, messages, outbound, running, locks>>

(* There is no such task, or its queue stays full: the command is lost. *)
NotHandedOver(c) ==
  LET cmd == carrier[c].cmd IN
  /\ CarrierAt(c, "run")
  /\ cmd.kind # "timed"
  /\ cmd.task = NoTask \/ (cmd.task # NoTask /\ inbox[cmd.task] = InboxRoom)
  /\ Afterwards(c)
  /\ UNCHANGED <<world, arriving, messages, outbound, tasks, locks>>

(* A command for another time: its first mkdir() fails, because no file    *)
(* system is mounted at /tasks, and the command is lost as well.           *)
SaveFutureTask(c) ==
  /\ CarrierAt(c, "run")
  /\ carrier[c].cmd.kind = "timed"
  /\ Afterwards(c)
  /\ UNCHANGED <<world, arriving, messages, outbound, tasks, locks>>

(* BleChannel::onTaskCommandWrite() reports the wanted state at once, when *)
(* the command's first parameter is a string.                              *)
Echo ==
  /\ CarrierAt("nimble_host", "echo")
  /\ \/ Enqueue
     \/ UNCHANGED <<stage, progress>>
  /\ CarrierTo("nimble_host", "idle")
  /\ UNCHANGED <<stimuli, arriving, messages, publisher, tasks, locks>>
-----------------------------------------------------------------------------
(* A task: loop(), executeTask() are the application's (external)          *)

TaskReceive(t) ==
  /\ stage = "ready"
  /\ t \notin running /\ inbox[t] > 0
  /\ running' = running \cup {t}
  /\ inbox' = [inbox EXCEPT ![t] = @ - 1]
  /\ UNCHANGED <<world, inbound, outbound, locks>>

(* It reports how far it is, and has done. *)
TaskExecute(t) ==
  /\ Up
  /\ t \in running
  /\ Enqueue
  /\ running' = running \ {t}
  /\ UNCHANGED <<stimuli, inbound, publisher, inbox, locks>>
-----------------------------------------------------------------------------
(* The publisher: taskProgressUpdateFunction()                             *)

PublisherAt(pc) == stage = "ready" /\ publisher = pc
PublisherTo(pc) == publisher' = pc

PublisherReceive ==
  /\ PublisherAt("idle")
  /\ progress > 0
  /\ PublisherTo("remote")
  /\ progress' = progress - 1
  /\ UNCHANGED <<world, inbound, tasks, locks>>

(* publishWithOptions(): the mutex is waited for during one second. *)
TakeMutex ==
  /\ PublisherAt("remote")
  /\ mutex = "free"
  /\ mutex' = "progress"
  /\ PublisherTo("publish")
  /\ UNCHANGED <<world, inbound, progress, tasks, client>>

MutexTimeout ==
  /\ PublisherAt("remote")
  /\ mutex # "free"
  /\ PublisherTo("notify")
  /\ UNCHANGED <<world, inbound, progress, tasks, locks>>

(* esp_mqtt_client_publish() needs the client's lock for its own time only. *)
Publish ==
  /\ PublisherAt("publish")
  /\ client = "free"
  /\ mutex' = "free"
  /\ PublisherTo("notify")
  /\ UNCHANGED <<world, inbound, progress, tasks, client>>

(* BleChannel::publishTaskProgressUpdate(): a phone that is there and       *)
(* secure is notified; it waits for nothing, whether there is one or not.   *)
NotifyPhone ==
  /\ PublisherAt("notify")
  /\ PublisherTo("idle")
  /\ UNCHANGED <<world, inbound, progress, tasks, locks>>

(* The uplink and the sensors publish on the same client. *)
OtherTakesMutex ==
  /\ Up
  /\ mutex = "free"
  /\ mutex' = "other"
  /\ UNCHANGED <<world, inbound, outbound, tasks, client>>

OtherPublishes ==
  /\ Up
  /\ mutex = "other" /\ client = "free"
  /\ mutex' = "free"
  /\ UNCHANGED <<world, inbound, outbound, tasks, client>>
-----------------------------------------------------------------------------
BringUp == CreateProgressQueue \/ StartTasks
MqttTask == HandleMessage
Carry(c) == Announce(c) \/ HandOver(c) \/ NotHandedOver(c) \/ SaveFutureTask(c)
Worker == WorkerReceive \/ Carry("mqtt_worker")
Host == Carry("nimble_host") \/ Echo
Task(t) == TaskReceive(t) \/ TaskExecute(t)
Publisher == PublisherReceive \/ TakeMutex \/ MutexTimeout \/ Publish \/ NotifyPhone
Other == OtherTakesMutex \/ OtherPublishes
Server == \E cmd \in Sent : MqttData(cmd)

CommandsNext ==
  BringUp \/ Server \/ MqttTask \/ Worker \/ Host \/ (\E t \in Tasks : Task(t)) \/ Publisher \/ Other

(* FreeRTOS runs every task that can run, and gives a mutex and the room in *)
(* a queue to whoever waits for it: the publisher is not passed over for    *)
(* ever.                                                                    *)
CommandsFairness ==
  /\ WF_commandVars(BringUp) /\ WF_commandVars(MqttTask)
  /\ WF_commandVars(OtherPublishes)
  /\ WF_commandVars(Publisher) /\ WF_commandVars(Worker) /\ WF_commandVars(Host)
  /\ \A t \in Tasks : WF_commandVars(Task(t))

CommandsTypeOK ==
  /\ stage \in {"unset", "queue", "ready", "faulted"}
  /\ stimuli \in 0 .. MaxStimuli
  /\ arriving \in Commands \cup {NoCommand}
  /\ messages \in Seq(Commands) /\ Len(messages) <= MessageRoom
  /\ carrier \in [Carriers -> [pc : {"idle", "announce", "run", "echo"}, cmd : Commands \cup {NoCommand}]]
  /\ progress \in 0 .. ProgressRoom
  /\ publisher \in {"idle", "remote", "publish", "notify"}
  /\ inbox \in [Tasks -> 0 .. InboxRoom]
  /\ running \subseteq Tasks
  /\ mutex \in {"free", "progress", "other"}
  /\ client \in {"free", "mqtt"}

\* Whoever has the client's lock or the mutex is about to give it back: the handler that has
\* a message in hand, and the publisher in the middle of publishing.
LocksAreHeld ==
  /\ client = "mqtt" <=> arriving # NoCommand
  /\ mutex = "progress" <=> publisher = "publish"
=============================================================================
