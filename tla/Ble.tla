-------------------------------- MODULE Ble --------------------------------
(***************************************************************************)
(* The BLE channel (comm/BleChannel.cpp) beside the MQTT one: connections  *)
(* of a phone, commands it writes, and the schema it asks for, which a     *)
(* task of its own sends in chunks.                                        *)
(*                                                                         *)
(* The NimBLE host is one task: it handles GAP events and writes one after *)
(* the other, and not while a command it processes waits for room.  What   *)
(* the radio does is external: a connection may end at any time, and the   *)
(* host learns of it later.  Connections follow each other with the same   *)
(* handle.                                                                 *)
(***************************************************************************)
EXTENDS Commands

CONSTANTS
  Mtus,              \* MTUs of a connection; DefaultMtu is where each starts
  DefaultMtu,
  ChunksAt,          \* how many chunks the schema takes at an MTU
  MaxChunks,         \* 255: what a byte can count
  SecurityEnabled,   \* CroniotConfig::BleCfg
  ConnectCanFail,    \* the radio may report a connection that was not made
  TaskCanFail        \* xTaskCreate() may find no memory

ASSUME BleAssumption ==
  /\ DefaultMtu \in Mtus
  /\ Mtus \subseteq Nat
  /\ ChunksAt \in [Mtus -> Nat \ {0}]
  /\ MaxChunks \in Nat \ {0}
  /\ {SecurityEnabled, ConnectCanFail, TaskCanFail} \subseteq BOOLEAN

NoHandle == 65535  \* 0xFFFF
Handle == 1

(* What the phone has of the schema, in one connection: chunk seq of total, *)
(* cut off or whole.                                                        *)
Chunks == [seq : 0 .. MaxChunks - 1, total : 1 .. MaxChunks, cut : BOOLEAN]

VARIABLES
  advertising,  \* the controller advertises
  phone,        \* the connection there is: its MTU, whether it is paired, what the phone has got
  gapEvents,    \* GAP events the host has still to handle
  channel,      \* connHandle_, negotiatedMtu_, hostSynced_, syncInProgress_
  schema        \* the task that sends the schema

bleVars == <<advertising, phone, gapEvents, channel, schema>>
vars == <<commandVars, bleVars>>

Away == [connected |-> FALSE, mtu |-> DefaultMtu, secure |-> FALSE, got |-> {}]
NoSchemaTask == [pc |-> "none", conn |-> NoHandle, mtu |-> DefaultMtu, next |-> 0, total |-> 0]

(* startConnection(), called by setup() before anything is registered. *)
BleInit ==
  /\ advertising = FALSE
  /\ phone = Away
  /\ gapEvents = <<>>
  /\ channel = [conn |-> NoHandle, mtu |-> DefaultMtu, synced |-> FALSE, syncing |-> FALSE]
  /\ schema = NoSchemaTask

HostIdle == CarrierAt("nimble_host", "idle")
Gap(type) == HostIdle /\ gapEvents # <<>> /\ Head(gapEvents).type = type
GapHandled == gapEvents' = Tail(gapEvents)
Happens(type, value) == gapEvents' = Append(gapEvents, [type |-> type, value |-> value])
-----------------------------------------------------------------------------
(* The radio and the phone (external)                                      *)

PhoneConnects ==
  /\ advertising /\ ~phone.connected
  /\ Stimulus
  /\ advertising' = FALSE
  /\ \E made \in {TRUE, ~ConnectCanFail} :
       /\ phone' = [Away EXCEPT !.connected = made]
       /\ Happens("connect", IF made THEN Handle ELSE NoHandle)
  /\ UNCHANGED <<stage, inbound, outbound, tasks, locks, channel, schema>>

PhoneLeaves ==
  /\ phone.connected
  /\ Stimulus
  /\ phone' = Away
  /\ Happens("disconnect", Handle)
  /\ UNCHANGED <<stage, inbound, outbound, tasks, locks, advertising, channel, schema>>

PhoneExchangesMtu ==
  /\ Up /\ phone.connected
  /\ \E mtu \in Mtus :
       /\ mtu > phone.mtu
       /\ phone' = [phone EXCEPT !.mtu = mtu]
       /\ Happens("mtu", mtu)
  /\ UNCHANGED <<commandVars, advertising, channel, schema>>

(* Pairing follows ble_gap_security_initiate(); a link that is not secure  *)
(* after it is ended by the ENC_CHANGE handler.                            *)
PhonePairs ==
  /\ HostIdle /\ SecurityEnabled
  /\ phone.connected /\ ~phone.secure
  /\ gapEvents = <<>>
  /\ \/ phone' = [phone EXCEPT !.secure = TRUE] /\ UNCHANGED <<gapEvents, world>>
     \/ phone' = Away /\ Stimulus /\ Happens("disconnect", Handle) /\ UNCHANGED stage
  /\ UNCHANGED <<inbound, outbound, tasks, locks, advertising, channel, schema>>
-----------------------------------------------------------------------------
(* The host: onHostSync(), gapEvent()                                      *)

(* startAdvertising(): refused while there is a connection. *)
StartAdvertising == advertising' = ~phone.connected

HostSync ==
  /\ HostIdle /\ ~channel.synced
  /\ channel' = [channel EXCEPT !.synced = TRUE]
  /\ StartAdvertising
  /\ UNCHANGED <<commandVars, phone, gapEvents, schema>>

(* Advertising ended with the attempt; it is not started again when that    *)
(* failed.                                                                  *)
GapConnect ==
  /\ Gap("connect") /\ GapHandled
  /\ channel' = [channel EXCEPT !.conn = Head(gapEvents).value]
  /\ UNCHANGED <<commandVars, advertising, phone, schema>>

(* The MTU stays what the connection that ended had. *)
GapDisconnect ==
  /\ Gap("disconnect") /\ GapHandled
  /\ channel' = [channel EXCEPT !.conn = NoHandle]
  /\ StartAdvertising
  /\ UNCHANGED <<commandVars, phone, schema>>

GapMtu ==
  /\ Gap("mtu") /\ GapHandled
  /\ channel' = [channel EXCEPT !.mtu = Head(gapEvents).value]
  /\ UNCHANGED <<commandVars, advertising, phone, schema>>
-----------------------------------------------------------------------------
(* Writes: charAccessCb(), which lets only secure links through            *)

(* The GATT table.  What is read is left out, and so is a write to auth,   *)
(* which is answered and nothing else.                                     *)
Characteristics ==
  [ device_info   |-> {"read"},  auth            |-> {"write", "notify"},
    sensor_data   |-> {"notify"}, task_progress  |-> {"notify"},
    task_command  |-> {"write"}, task_state_sync |-> {"write"},
    sync_command  |-> {"write"}, sync_data       |-> {"notify"} ]

(* isConnectionSecure() *)
Secure == SecurityEnabled => phone.secure

MayWrite(characteristic) ==
  /\ HostIdle /\ phone.connected /\ gapEvents = <<>> /\ Secure
  /\ "write" \in Characteristics[characteristic]

(* onTaskCommandWrite(), onTaskStateSyncWrite(). *)
WriteCommand(cmd) ==
  /\ MayWrite(IF cmd.kind = "sync" THEN "task_state_sync" ELSE "task_command")
  /\ Stimulus
  /\ carrier' = [carrier EXCEPT !["nimble_host"] = [pc |-> "announce", cmd |-> cmd]]
  /\ UNCHANGED <<stage, arriving, messages, outbound, tasks, locks, bleVars>>

Whole(got) == \E n \in 1 .. MaxChunks : \A i \in 0 .. n - 1 : [seq |-> i, total |-> n, cut |-> FALSE] \in got

(* onSyncCommandWrite(), from a phone that has not got the schema yet: one *)
(* sync at a time; the flag stays set when the task cannot be made.        *)
WriteSync ==
  /\ MayWrite("sync_command")
  /\ ~Whole(phone.got)
  /\ ~channel.syncing
  /\ channel' = [channel EXCEPT !.syncing = TRUE]
  /\ \E made \in {TRUE, ~TaskCanFail} :
       schema' = [NoSchemaTask EXCEPT !.pc = IF made THEN "begin" ELSE "none"]
  /\ UNCHANGED <<commandVars, advertising, phone, gapEvents>>
-----------------------------------------------------------------------------
(* The task that sends the schema: runSchemaSync()                         *)

SyncEnds ==
  /\ channel' = [channel EXCEPT !.syncing = FALSE]
  /\ schema' = NoSchemaTask

\* Mutant: a schema of too many chunks is given up with the flag set.
SchemaBeginsUnreset ==
  /\ Up /\ schema.pc = "begin"
  /\ IF channel.conn = NoHandle THEN SyncEnds
     ELSE IF ChunksAt[channel.mtu] > MaxChunks THEN schema' = NoSchemaTask /\ UNCHANGED channel
     ELSE /\ schema' = [pc |-> "send", conn |-> channel.conn, mtu |-> channel.mtu,
                        next |-> 0, total |-> ChunksAt[channel.mtu]]
          /\ UNCHANGED channel
  /\ UNCHANGED <<commandVars, advertising, phone, gapEvents>>

(* The connection and the MTU are read once. *)
SchemaBegins ==
  /\ Up /\ schema.pc = "begin"
  /\ IF channel.conn = NoHandle \/ ChunksAt[channel.mtu] > MaxChunks THEN SyncEnds
     ELSE /\ schema' = [pc |-> "send", conn |-> channel.conn, mtu |-> channel.mtu,
                        next |-> 0, total |-> ChunksAt[channel.mtu]]
          /\ UNCHANGED channel
  /\ UNCHANGED <<commandVars, advertising, phone, gapEvents>>

(* A chunk longer than the connection's MTU allows is cut off. *)
Chunk == [seq |-> schema.next, total |-> schema.total, cut |-> schema.mtu > phone.mtu]

SendChunk ==
  /\ Up /\ schema.pc = "send"
  /\ schema.next < schema.total
  /\ phone.connected /\ "notify" \in Characteristics["sync_data"]
  /\ phone' = [phone EXCEPT !.got = @ \cup {Chunk}]
  /\ schema' = [schema EXCEPT !.next = @ + 1]
  /\ UNCHANGED <<commandVars, advertising, gapEvents, channel>>

(* No connection with that handle, or no buffer: the rest is not sent. *)
SendFails ==
  /\ Up /\ schema.pc = "send"
  /\ schema.next < schema.total
  /\ \/ ~phone.connected /\ UNCHANGED stimuli
     \/ Stimulus
  /\ SyncEnds
  /\ UNCHANGED <<stage, inbound, outbound, tasks, locks, advertising, phone, gapEvents>>

SchemaSent ==
  /\ Up /\ schema.pc = "send"
  /\ schema.next = schema.total
  /\ SyncEnds
  /\ UNCHANGED <<commandVars, advertising, phone, gapEvents>>
-----------------------------------------------------------------------------
Radio == PhoneConnects \/ PhoneLeaves \/ PhoneExchangesMtu \/ PhonePairs
GapEvent == HostSync \/ GapConnect \/ GapDisconnect \/ GapMtu
Write == WriteSync \/ \E cmd \in Sent : WriteCommand(cmd)
SchemaTask == SchemaBegins \/ SendChunk \/ SendFails \/ SchemaSent

Init == CommandsInit /\ BleInit

Next ==
  \/ CommandsNext /\ UNCHANGED bleVars
  \/ Radio \/ GapEvent \/ Write \/ SchemaTask

Spec == Init /\ [][Next]_vars

(* A phone that is there pairs, asks for a larger MTU, and asks for the    *)
(* schema until it has all of it.                                          *)
FairSpec ==
  /\ Spec
  /\ CommandsFairness
  /\ SF_vars(GapEvent) /\ WF_vars(SchemaTask)
  /\ SF_vars(PhonePairs) /\ WF_vars(PhoneExchangesMtu) /\ SF_vars(WriteSync)
-----------------------------------------------------------------------------
TypeOK ==
  /\ CommandsTypeOK
  /\ advertising \in BOOLEAN
  /\ phone \in [connected : BOOLEAN, mtu : Mtus, secure : BOOLEAN, got : SUBSET Chunks]
  /\ \A i \in 1 .. Len(gapEvents) : gapEvents[i].type \in {"connect", "disconnect", "mtu"}
  /\ channel \in [conn : {Handle, NoHandle}, mtu : Mtus, synced : BOOLEAN, syncing : BOOLEAN]
  /\ schema \in [pc : {"none", "begin", "send"}, conn : {Handle, NoHandle}, mtu : Mtus,
                 next : 0 .. MaxChunks, total : 0 .. MaxChunks]

\* The tasks that carry commands never wait for each other in a circle: the worker waits
\* for the progress queue, its reader for the mutex and the client, the client's task for
\* nobody (WifiMqttController.cpp:211, TaskController.cpp:263).  Whatever came in is dealt
\* with in the end, and every task is back at its queue.
EverythingIsServed ==
  <>[](/\ messages = <<>> /\ progress = 0 /\ publisher = "idle"
       /\ \A c \in Carriers : carrier[c].pc = "idle"
       /\ \A t \in Tasks : inbox[t] = 0 /\ t \notin running)

\* A phone that stays gets the whole schema, whatever earlier connections left behind: a
\* sync that was cut off, the flag, the MTU (BleChannel.cpp:402, :423-485).
SchemaArrives ==
  <>[](phone.connected /\ Secure) => <>Whole(phone.got)

\* While nobody is connected, the device can be found (BleChannel.cpp:213-221).
CanBeFound ==
  channel.synced /\ ~phone.connected /\ gapEvents = <<>> => advertising

\* A chunk is never longer than the connection takes (BleChannel.cpp:438, :455).
ChunksFit == \A chunk \in phone.got : ~chunk.cut

\* A command that comes before TaskController::init() is not carried any further, and does
\* no harm: enqueueTaskProgressUpdate() tests for a queue (TaskController.cpp:258).
NeverFaults == stage # "faulted"
-----------------------------------------------------------------------------
(* What the proofs of TypeOK and CanBeFound need besides                   *)

\* A GAP event carries a handle or an MTU.
Events ==
  [type : {"connect", "disconnect"}, value : {Handle, NoHandle}] \cup [type : {"mtu"}, value : Mtus]

\* The schema is sent from its first chunk to the last that a byte can count.
SchemaIsCounted ==
  /\ gapEvents \in Seq(Events)
  /\ schema.next <= schema.total
  /\ schema.pc = "send" => schema.total > 0

\* Who is not connected has been found to be gone, or is about to be.
FoundOrToldOf ==
  channel.synced /\ ~phone.connected =>
    advertising \/ \E i \in 1 .. Len(gapEvents) : gapEvents[i].type = "disconnect"
=============================================================================
