--------------------------- MODULE ChannelsProofs ---------------------------
(***************************************************************************)
(* The channels for any tasks, commands, rooms, MTUs and schema: the types *)
(* of Commands and Ble, who holds the locks, and that a device without a   *)
(* phone can be found, if the radio makes the connections it reports.      *)
(***************************************************************************)
EXTENDS Ble, SequenceTheorems, TLAPS

-----------------------------------------------------------------------------
(* Commands                                                                *)

Carrying == [pc : {"idle", "announce", "run", "echo"}, cmd : Commands \cup {NoCommand}]

Carried == CommandsTypeOK /\ LocksAreHeld

\* A carrier keeps its command until it is idle.
LEMMA CarrierMoves ==
  ASSUME carrier \in [Carriers -> Carrying], NEW c \in Carriers,
         NEW pc \in {"idle", "announce", "run", "echo"}, CarrierTo(c, pc)
  PROVE  carrier' \in [Carriers -> Carrying]
<1>1. Resting \in Carrying
  BY DEF Resting, Carrying
<1>2. [carrier[c] EXCEPT !.pc = pc] \in Carrying
  BY DEF Carrying
<1> QED
  BY <1>1, <1>2 DEF CarrierTo

\* A report needs room, and a queue to be in.
LEMMA EnqueueTyped ==
  ASSUME CommandsTypeOK, Enqueue
  PROVE  stage' \in {"unset", "queue", "ready", "faulted"} /\ progress' \in 0 .. ProgressRoom
<1>1. progress \in Nat /\ ProgressRoom \in Nat /\ progress <= ProgressRoom
  BY CommandsAssumption DEF CommandsTypeOK
<1> QED
  BY <1>1 DEF Enqueue, CommandsTypeOK

\* Nothing is on its way before the device is up.
LEMMA InitCarried == CommandsInit => Carried
<1> SUFFICES ASSUME CommandsInit PROVE Carried
  OBVIOUS
<1>1. {0} \subseteq 0 .. MaxStimuli /\ {0} \subseteq 0 .. ProgressRoom /\ {0} \subseteq 0 .. InboxRoom
      /\ 0 <= MessageRoom
  BY CommandsAssumption
<1>2. <<>> \in Seq(Commands) /\ Len(<<>>) = 0
  OBVIOUS
<1>3. Resting \in [pc : {"idle", "announce", "run", "echo"}, cmd : Commands \cup {NoCommand}]
  BY DEF Resting
<1>4. carrier \in [Carriers -> [pc : {"idle", "announce", "run", "echo"}, cmd : Commands \cup {NoCommand}]]
  BY <1>3 DEF CommandsInit
<1> QED
  BY <1>1, <1>2, <1>4 DEF CommandsInit, Carried, CommandsTypeOK, LocksAreHeld

\* The bring-up and the tasks' own work.
LEMMA BringUpCarried ==
  ASSUME Carried, BringUp
  PROVE  Carried'
BY DEF Carried, CommandsTypeOK, LocksAreHeld, BringUp, CreateProgressQueue, StartTasks,
       inbound, outbound, tasks, locks

\* A message comes in under the client's lock.
LEMMA ServerCarried ==
  ASSUME Carried, Server
  PROVE  Carried'
<1>1. PICK cmd \in Sent : MqttData(cmd)
  BY DEF Server
<1>2. cmd \in Commands /\ cmd # NoCommand
  BY CommandsAssumption DEF Commands, NoCommand
<1>3. stimuli' \in 0 .. MaxStimuli
  BY <1>1, CommandsAssumption DEF MqttData, Stimulus, Carried, CommandsTypeOK
<1> QED
  BY <1>1, <1>2, <1>3 DEF MqttData, Carried, CommandsTypeOK, LocksAreHeld, outbound, tasks

\* It is queued if there is room, and the lock is given back.
LEMMA MqttTaskCarried ==
  ASSUME Carried, MqttTask
  PROVE  Carried'
<1>1. arriving \in Commands /\ messages \in Seq(Commands) /\ Len(messages) \in Nat
      /\ Len(messages) <= MessageRoom /\ MessageRoom \in Nat
  BY CommandsAssumption, LenProperties DEF MqttTask, HandleMessage, Carried, CommandsTypeOK
<1>2. Append(messages, arriving) \in Seq(Commands) /\ Len(Append(messages, arriving)) = Len(messages) + 1
  BY <1>1, AppendProperties
<1>3. messages' \in Seq(Commands) /\ Len(messages') <= MessageRoom
  BY <1>1, <1>2 DEF MqttTask, HandleMessage
<1> QED
  BY <1>3 DEF MqttTask, HandleMessage, Carried, CommandsTypeOK, LocksAreHeld, world, outbound, tasks

\* mqtt_worker takes the message that waits longest.
LEMMA ReceiveCarried ==
  ASSUME Carried, WorkerReceive
  PROVE  Carried'
<1>1. messages \in Seq(Commands) /\ messages # <<>> /\ Len(messages) <= MessageRoom
      /\ MessageRoom \in Nat
  BY CommandsAssumption DEF WorkerReceive, Carried, CommandsTypeOK
<1>2. /\ Head(messages) \in Commands
      /\ Tail(messages) \in Seq(Commands)
      /\ Len(Tail(messages)) = Len(messages) - 1
      /\ Len(messages) \in Nat
  BY <1>1, HeadTailProperties, LenProperties
<1>3. [pc |-> "announce", cmd |-> Head(messages)] \in Carrying
  BY <1>2 DEF Carrying
<1>4. carrier' \in [Carriers -> Carrying]
  BY <1>3 DEF WorkerReceive, Carried, CommandsTypeOK, Carrying
<1>5. messages' \in Seq(Commands) /\ Len(messages') <= MessageRoom
  BY <1>1, <1>2 DEF WorkerReceive
<1> QED
  BY <1>4, <1>5 DEF WorkerReceive, Carried, CommandsTypeOK, LocksAreHeld, Carrying, world, outbound, tasks, locks

\* A carrier announces its command, hands it over or loses it.
LEMMA CarryCarried ==
  ASSUME Carried, NEW c \in Carriers, Carry(c)
  PROVE  Carried'
<1>0. carrier \in [Carriers -> Carrying]
  BY DEF Carried, CommandsTypeOK, Carrying
<1>1. CASE Announce(c)
  <2>1. carrier' \in [Carriers -> Carrying]
    BY <1>0, <1>1, CarrierMoves DEF Announce
  <2>2. stage' \in {"unset", "queue", "ready", "faulted"} /\ progress' \in 0 .. ProgressRoom
    <3>1. Enqueue \/ UNCHANGED <<stage, progress>>
      BY <1>1 DEF Announce
    <3> QED
      BY <3>1, EnqueueTyped DEF Carried, CommandsTypeOK
  <2> QED
    BY <1>1, <2>1, <2>2 DEF Announce, Carried, CommandsTypeOK, LocksAreHeld, Carrying, tasks, locks
<1>2. ASSUME Afterwards(c) PROVE carrier' \in [Carriers -> Carrying]
  BY <1>0, <1>2, CarrierMoves DEF Afterwards
<1>3. CASE HandOver(c)
  <2>1. carrier[c].cmd.task \in Tasks
    BY <1>0, <1>3 DEF HandOver, Carrying, Commands, NoCommand
  <2>2. inbox' \in [Tasks -> 0 .. InboxRoom]
    <3>1. \A t \in Tasks : inbox[t] \in 0 .. InboxRoom /\ InboxRoom \in Nat
      BY CommandsAssumption DEF Carried, CommandsTypeOK
    <3> QED
      BY <1>3, <2>1, <3>1 DEF HandOver, EnqueueMessage, Carried, CommandsTypeOK
  <2>3. carrier' \in [Carriers -> Carrying]
    BY <1>2, <1>3 DEF HandOver
  <2> QED
    BY <1>3, <2>2, <2>3 DEF HandOver, Carried, CommandsTypeOK, LocksAreHeld, Carrying, world, outbound, locks
<1>4. CASE NotHandedOver(c) \/ SaveFutureTask(c)
  <2>1. carrier' \in [Carriers -> Carrying]
    BY <1>2, <1>4 DEF NotHandedOver, SaveFutureTask
  <2> QED
    BY <1>4, <2>1 DEF NotHandedOver, SaveFutureTask, Carried, CommandsTypeOK, LocksAreHeld, Carrying,
                      world, outbound, tasks, locks
<1> QED
  BY <1>1, <1>3, <1>4 DEF Carry

\* The phone's command is echoed as a report.
LEMMA EchoCarried ==
  ASSUME Carried, Echo
  PROVE  Carried'
<1>1. carrier' \in [Carriers -> Carrying]
  <2>1. carrier \in [Carriers -> Carrying] /\ "nimble_host" \in Carriers
    BY DEF Carried, CommandsTypeOK, Carrying, Carriers
  <2> QED
    BY <2>1, CarrierMoves DEF Echo
<1>2. stage' \in {"unset", "queue", "ready", "faulted"} /\ progress' \in 0 .. ProgressRoom
  BY EnqueueTyped DEF Echo, Carried, CommandsTypeOK
<1> QED
  BY <1>1, <1>2 DEF Echo, Carried, CommandsTypeOK, LocksAreHeld, Carrying, tasks, locks

\* A task takes what its queue holds, and reports.
LEMMA TaskCarried ==
  ASSUME Carried, NEW t \in Tasks, Task(t)
  PROVE  Carried'
<1>1. CASE TaskReceive(t)
  <2>1. inbox' \in [Tasks -> 0 .. InboxRoom]
    <3>1. inbox[t] \in 0 .. InboxRoom /\ InboxRoom \in Nat
      BY CommandsAssumption DEF Carried, CommandsTypeOK
    <3>2. inbox[t] - 1 \in 0 .. InboxRoom
      BY <1>1, <3>1 DEF TaskReceive
    <3> QED
      BY <1>1, <3>2 DEF TaskReceive, Carried, CommandsTypeOK
  <2> QED
    BY <1>1, <2>1 DEF TaskReceive, Carried, CommandsTypeOK, LocksAreHeld, world, inbound, outbound, locks
<1>2. CASE TaskExecute(t)
  <2>1. stage' \in {"unset", "queue", "ready", "faulted"} /\ progress' \in 0 .. ProgressRoom
    BY <1>2, EnqueueTyped DEF TaskExecute, Carried
  <2> QED
    BY <1>2, <2>1 DEF TaskExecute, Carried, CommandsTypeOK, LocksAreHeld, inbound, locks
<1> QED
  BY <1>1, <1>2 DEF Task

\* The publisher has the mutex exactly while it publishes.
LEMMA PublisherCarried ==
  ASSUME Carried, Publisher
  PROVE  Carried'
<1>1. CASE PublisherReceive
  <2>1. progress' \in 0 .. ProgressRoom
    BY <1>1, CommandsAssumption DEF PublisherReceive, Carried, CommandsTypeOK
  <2> QED
    BY <1>1, <2>1 DEF PublisherReceive, PublisherAt, PublisherTo, Carried, CommandsTypeOK, LocksAreHeld,
                      world, inbound, tasks, locks
<1>2. CASE TakeMutex \/ MutexTimeout \/ Publish \/ NotifyPhone
  BY <1>2 DEF TakeMutex, MutexTimeout, Publish, NotifyPhone, PublisherAt, PublisherTo, Carried,
              CommandsTypeOK, LocksAreHeld, world, inbound, tasks, locks
<1> QED
  BY <1>1, <1>2 DEF Publisher

\* Another task takes the mutex when it is free.
LEMMA OtherCarried ==
  ASSUME Carried, Other
  PROVE  Carried'
BY DEF Other, OtherTakesMutex, OtherPublishes, Carried, CommandsTypeOK, LocksAreHeld,
       world, inbound, outbound, tasks

\* So does every step of the commands.
LEMMA CommandsCarried ==
  ASSUME Carried, CommandsNext
  PROVE  Carried'
<1>1. {"mqtt_worker", "nimble_host"} \subseteq Carriers
  BY DEF Carriers
<1>2. CASE BringUp
  BY <1>2, BringUpCarried
<1>3. CASE Server
  BY <1>3, ServerCarried
<1>4. CASE MqttTask
  BY <1>4, MqttTaskCarried
<1>5. CASE Worker
  BY <1>1, <1>5, ReceiveCarried, CarryCarried DEF Worker
<1>6. CASE Host
  BY <1>1, <1>6, CarryCarried, EchoCarried DEF Host
<1>7. ASSUME NEW t \in Tasks, Task(t) PROVE Carried'
  BY <1>7, TaskCarried
<1>8. CASE Publisher
  BY <1>8, PublisherCarried
<1>9. CASE Other
  BY <1>9, OtherCarried
<1> QED
  BY <1>2, <1>3, <1>4, <1>5, <1>6, <1>7, <1>8, <1>9 DEF CommandsNext

\* Nothing else touches what the commands are about.
LEMMA CommandsAlone ==
  ASSUME Carried, UNCHANGED commandVars
  PROVE  Carried'
BY DEF Carried, CommandsTypeOK, LocksAreHeld, commandVars, world, inbound, outbound, tasks, locks

\* What the world does is counted.
LEMMA StimulusCarried ==
  ASSUME Carried, Stimulus, UNCHANGED <<stage, inbound, outbound, tasks, locks>>
  PROVE  Carried'
<1>1. stimuli' \in 0 .. MaxStimuli
  BY CommandsAssumption DEF Stimulus, Carried, CommandsTypeOK
<1> QED
  BY <1>1 DEF Carried, CommandsTypeOK, LocksAreHeld, inbound, outbound, tasks, locks

-----------------------------------------------------------------------------
(* The BLE channel                                                         *)

Phones == [connected : BOOLEAN, mtu : Mtus, secure : BOOLEAN, got : SUBSET Chunks]
Links == [conn : {Handle, NoHandle}, mtu : Mtus, synced : BOOLEAN, syncing : BOOLEAN]
Schemas == [pc : {"none", "begin", "send"}, conn : {Handle, NoHandle}, mtu : Mtus,
            next : 0 .. MaxChunks, total : 0 .. MaxChunks]

BleShape ==
  /\ advertising \in BOOLEAN
  /\ phone \in Phones
  /\ channel \in Links
  /\ schema \in Schemas
  /\ SchemaIsCounted

BleTyped == Carried /\ BleShape

\* The GAP events are typed like the rest.
LEMMA TypedIsTypeOK ==
  ASSUME BleTyped
  PROVE  TypeOK
<1>1. ASSUME NEW i \in 1 .. Len(gapEvents) PROVE gapEvents[i].type \in {"connect", "disconnect", "mtu"}
  <2>1. gapEvents[i] \in Events
    BY ElementOfSeq DEF BleTyped, BleShape, SchemaIsCounted
  <2> QED
    BY <2>1 DEF Events
<1> QED
  BY <1>1 DEF TypeOK, BleTyped, Carried, BleShape, Phones, Links, Schemas

\* A phone that is away, and a task that is not there, have types as well.
LEMMA NobodyTyped ==
  /\ Away \in Phones
  /\ NoSchemaTask \in Schemas
  /\ NoSchemaTask.next = 0 /\ NoSchemaTask.total = 0 /\ NoSchemaTask.pc = "none"
BY BleAssumption DEF Away, Phones, NoSchemaTask, Schemas

\* No event has happened and no schema is on its way.
LEMMA InitTyped == Init => BleTyped
<1> SUFFICES ASSUME Init PROVE BleTyped
  OBVIOUS
<1>1. Carried
  BY InitCarried DEF Init
<1>2. channel \in Links
  BY BleAssumption DEF Init, BleInit, Links
<1>3. SchemaIsCounted
  <2>1. gapEvents = <<>> /\ schema = NoSchemaTask
    BY DEF Init, BleInit
  <2>2. gapEvents \in Seq(Events)
    BY <2>1
  <2>3. schema.next <= schema.total /\ schema.pc # "send"
    BY <2>1, NobodyTyped
  <2> QED
    BY <2>2, <2>3 DEF SchemaIsCounted
<1>4. advertising \in BOOLEAN /\ phone \in Phones /\ schema \in Schemas
  BY NobodyTyped DEF Init, BleInit
<1> QED
  BY <1>1, <1>2, <1>3, <1>4 DEF BleTyped, BleShape

\* An event of the radio is queued for the host.
LEMMA HappensTyped ==
  ASSUME SchemaIsCounted, NEW type, NEW value, [type |-> type, value |-> value] \in Events, Happens(type, value)
  PROVE  gapEvents' \in Seq(Events)
BY AppendProperties DEF SchemaIsCounted, Happens

\* The radio: phones come, go, pair and ask for a larger MTU.
LEMMA RadioTyped ==
  ASSUME BleTyped, Radio
  PROVE  BleTyped'
<1> USE DEF BleTyped
<1>0. BleShape /\ SchemaIsCounted /\ Carried
  BY DEF BleShape
<1>1. CASE PhoneConnects
  <2>1. PICK made \in BOOLEAN :
          /\ phone' = [Away EXCEPT !.connected = made]
          /\ Happens("connect", IF made THEN Handle ELSE NoHandle)
    BY <1>1, BleAssumption DEF PhoneConnects
  <2>2. phone' \in Phones
    BY <2>1, NobodyTyped DEF Phones
  <2>3. [type |-> "connect", value |-> IF made THEN Handle ELSE NoHandle] \in Events
    BY DEF Events
  <2>4. gapEvents' \in Seq(Events)
    BY <1>0, <2>1, <2>3, HappensTyped
  <2>5. Carried'
    BY <1>0, <1>1, StimulusCarried DEF PhoneConnects
  <2>6. advertising' = FALSE /\ UNCHANGED <<channel, schema>>
    BY <1>1 DEF PhoneConnects
  <2> QED
    BY <1>0, <2>2, <2>4, <2>5, <2>6 DEF BleShape, SchemaIsCounted
<1>2. CASE PhoneLeaves
  <2>1. [type |-> "disconnect", value |-> Handle] \in Events
    BY DEF Events
  <2>2. gapEvents' \in Seq(Events)
    BY <1>0, <1>2, <2>1, HappensTyped DEF PhoneLeaves
  <2>3. Carried'
    BY <1>0, <1>2, StimulusCarried DEF PhoneLeaves
  <2>4. phone' = Away /\ UNCHANGED <<advertising, channel, schema>>
    BY <1>2 DEF PhoneLeaves
  <2> QED
    BY <1>0, <2>2, <2>3, <2>4, NobodyTyped DEF BleShape, SchemaIsCounted
<1>3. CASE PhoneExchangesMtu
  <2>1. PICK mtu \in Mtus : phone' = [phone EXCEPT !.mtu = mtu] /\ Happens("mtu", mtu)
    BY <1>3 DEF PhoneExchangesMtu
  <2>2. [type |-> "mtu", value |-> mtu] \in Events
    BY DEF Events
  <2>3. gapEvents' \in Seq(Events)
    BY <1>0, <2>1, <2>2, HappensTyped
  <2>4. phone' \in Phones
    BY <1>0, <2>1 DEF BleShape, Phones
  <2>5. Carried' /\ UNCHANGED <<advertising, channel, schema>>
    BY <1>0, <1>3, CommandsAlone DEF PhoneExchangesMtu
  <2> QED
    BY <1>0, <2>3, <2>4, <2>5 DEF BleShape, SchemaIsCounted
<1>4. CASE PhonePairs
  <2>1. UNCHANGED <<inbound, outbound, tasks, locks, advertising, channel, schema>>
    BY <1>4 DEF PhonePairs
  <2>2. CASE phone' = [phone EXCEPT !.secure = TRUE] /\ UNCHANGED <<gapEvents, world>>
    <3>1. phone' \in Phones
      BY <1>0, <2>2 DEF BleShape, Phones
    <3>2. Carried'
      BY <1>0, <2>1, <2>2, CommandsAlone DEF commandVars
    <3> QED
      BY <1>0, <2>1, <2>2, <3>1, <3>2 DEF BleShape, SchemaIsCounted
  <2>3. CASE phone' = Away /\ Stimulus /\ Happens("disconnect", Handle) /\ UNCHANGED stage
    <3>1. [type |-> "disconnect", value |-> Handle] \in Events
      BY DEF Events
    <3>2. gapEvents' \in Seq(Events)
      BY <1>0, <2>3, <3>1, HappensTyped
    <3>3. Carried'
      BY <1>0, <2>1, <2>3, StimulusCarried
    <3> QED
      BY <1>0, <2>1, <2>3, <3>2, <3>3, NobodyTyped DEF BleShape, SchemaIsCounted
  <2> QED
    BY <1>4, <2>2, <2>3 DEF PhonePairs
<1> QED
  BY <1>1, <1>2, <1>3, <1>4 DEF Radio

\* The host: it syncs, and takes over what an event tells.
LEMMA GapEventTyped ==
  ASSUME BleTyped, GapEvent
  PROVE  BleTyped'
<1> USE DEF BleTyped
<1>0. BleShape /\ SchemaIsCounted /\ Carried
  BY DEF BleShape
<1>1. CASE HostSync
  <2>1. Carried' /\ UNCHANGED <<phone, gapEvents, schema>>
    BY <1>0, <1>1, CommandsAlone DEF HostSync
  <2>2. channel' \in Links
    BY <1>0, <1>1 DEF HostSync, BleShape, Links
  <2>3. advertising' \in BOOLEAN
    BY <1>0, <1>1 DEF HostSync, StartAdvertising, BleShape, Phones
  <2> QED
    BY <1>0, <2>1, <2>2, <2>3 DEF BleShape, SchemaIsCounted
<1>2. CASE GapConnect \/ GapDisconnect \/ GapMtu
  <2>1. Carried' /\ UNCHANGED <<phone, schema>>
    BY <1>0, <1>2, CommandsAlone DEF GapConnect, GapDisconnect, GapMtu
  <2>2. gapEvents \in Seq(Events) /\ gapEvents # <<>> /\ gapEvents' = Tail(gapEvents)
    BY <1>0, <1>2 DEF SchemaIsCounted, GapConnect, GapDisconnect, GapMtu, Gap, GapHandled
  <2>3. gapEvents' \in Seq(Events) /\ Head(gapEvents) \in Events
    BY <2>2, HeadTailProperties
  <2>4. channel' \in Links
    <3>1. CASE GapConnect
      <4>1. Head(gapEvents).value \in {Handle, NoHandle}
        BY <2>3, <3>1 DEF GapConnect, Gap, Events
      <4> QED
        BY <1>0, <3>1, <4>1 DEF GapConnect, BleShape, Links
    <3>2. CASE GapDisconnect
      BY <1>0, <3>2 DEF GapDisconnect, BleShape, Links
    <3>3. CASE GapMtu
      <4>1. Head(gapEvents).value \in Mtus
        BY <2>3, <3>3 DEF GapMtu, Gap, Events
      <4> QED
        BY <1>0, <3>3, <4>1 DEF GapMtu, BleShape, Links
    <3> QED
      BY <1>2, <3>1, <3>2, <3>3
  <2>5. advertising' \in BOOLEAN
    BY <1>0, <1>2 DEF GapConnect, GapDisconnect, GapMtu, StartAdvertising, BleShape, Phones
  <2> QED
    BY <1>0, <2>1, <2>3, <2>4, <2>5 DEF BleShape, SchemaIsCounted
<1> QED
  BY <1>1, <1>2 DEF GapEvent

\* A phone writes a command, or asks for the schema.
LEMMA WriteTyped ==
  ASSUME BleTyped, Write
  PROVE  BleTyped'
<1> USE DEF BleTyped
<1>0. BleShape /\ Carried
  OBVIOUS
<1>1. CASE WriteSync
  <2>1. Carried' /\ UNCHANGED <<advertising, phone, gapEvents>>
    BY <1>0, <1>1, CommandsAlone DEF WriteSync
  <2>2. channel' \in Links
    BY <1>0, <1>1 DEF WriteSync, BleShape, Links
  <2>3. PICK pc \in {"none", "begin"} : schema' = [NoSchemaTask EXCEPT !.pc = pc]
    BY <1>1 DEF WriteSync
  <2>4. schema' \in Schemas /\ schema'.next = 0 /\ schema'.total = 0 /\ schema'.pc # "send"
    BY <2>3, NobodyTyped DEF Schemas
  <2> QED
    BY <1>0, <2>1, <2>2, <2>4 DEF BleShape, SchemaIsCounted
<1>2. ASSUME NEW cmd \in Sent, WriteCommand(cmd) PROVE BleTyped'
  <2>1. [pc |-> "announce", cmd |-> cmd] \in Carrying
    BY CommandsAssumption DEF Carrying
  <2>2. carrier' \in [Carriers -> Carrying]
    BY <1>0, <1>2, <2>1 DEF WriteCommand, Carried, CommandsTypeOK, Carrying
  <2>3. stimuli' \in 0 .. MaxStimuli
    BY <1>0, <1>2, CommandsAssumption DEF WriteCommand, Stimulus, Carried, CommandsTypeOK
  <2>4. UNCHANGED <<stage, arriving, messages, outbound, tasks, locks>>
    BY <1>2 DEF WriteCommand
  <2>5. Carried'
    BY <1>0, <2>2, <2>3, <2>4 DEF Carried, CommandsTypeOK, LocksAreHeld, Carrying, outbound, tasks, locks
  <2>6. UNCHANGED <<advertising, phone, gapEvents, channel, schema>>
    BY <1>2 DEF WriteCommand, bleVars
  <2> QED
    BY <1>0, <2>5, <2>6 DEF BleShape, SchemaIsCounted
<1> QED
  BY <1>1, <1>2 DEF Write

\* The end of a sync.
LEMMA SyncEndsTyped ==
  ASSUME BleShape, SyncEnds
  PROVE  channel' \in Links /\ schema' \in Schemas /\ schema'.next <= schema'.total /\ schema'.pc # "send"
<1>1. channel' \in Links
  BY DEF BleShape, SyncEnds, Links
<1>2. schema' = NoSchemaTask
  BY DEF SyncEnds
<1> QED
  BY <1>1, <1>2, NobodyTyped

\* The schema is sent chunk by chunk.
LEMMA SchemaTaskTyped ==
  ASSUME BleTyped, SchemaTask
  PROVE  BleTyped'
<1> USE DEF BleTyped
<1>0. BleShape /\ SchemaIsCounted /\ Carried
  BY DEF BleShape
<1>1. CASE SchemaBegins
  <2>1. Carried' /\ UNCHANGED <<advertising, phone, gapEvents>>
    BY <1>0, <1>1, CommandsAlone DEF SchemaBegins
  <2>2. CASE SyncEnds
    BY <1>0, <2>1, <2>2, SyncEndsTyped DEF BleShape, SchemaIsCounted
  <2>3. CASE ~(channel.conn = NoHandle \/ ChunksAt[channel.mtu] > MaxChunks)
    <3>1. channel.conn \in {Handle, NoHandle} /\ channel.mtu \in Mtus
      BY <1>0 DEF BleShape, Links
    <3>2. ChunksAt[channel.mtu] \in 0 .. MaxChunks /\ ChunksAt[channel.mtu] > 0 /\ 0 \in 0 .. MaxChunks
      <4>1. ChunksAt[channel.mtu] \in Nat \ {0} /\ MaxChunks \in Nat
        BY <3>1, BleAssumption
      <4>2. ~(ChunksAt[channel.mtu] > MaxChunks)
        BY <2>3
      <4> QED
        BY <4>1, <4>2
    <3>3. schema' = [pc |-> "send", conn |-> channel.conn, mtu |-> channel.mtu,
                     next |-> 0, total |-> ChunksAt[channel.mtu]] /\ UNCHANGED channel
      BY <1>1, <2>3 DEF SchemaBegins
    <3>4. schema' \in Schemas /\ schema'.next <= schema'.total /\ schema'.total > 0
      BY <3>1, <3>2, <3>3 DEF Schemas
    <3> QED
      BY <1>0, <2>1, <3>3, <3>4 DEF BleShape, SchemaIsCounted
  <2> QED
    BY <1>1, <2>2, <2>3 DEF SchemaBegins
<1>2. CASE SendChunk
  <2>1. Carried' /\ UNCHANGED <<advertising, gapEvents, channel>>
    BY <1>0, <1>2, CommandsAlone DEF SendChunk
  <2>2. /\ schema.next \in 0 .. MaxChunks /\ schema.total \in 0 .. MaxChunks
        /\ schema.next < schema.total /\ MaxChunks \in Nat
    BY <1>0, <1>2, BleAssumption DEF SendChunk, BleShape, Schemas
  <2>3. Chunk \in Chunks
    <3>1. (schema.mtu > phone.mtu) \in BOOLEAN
      OBVIOUS
    <3>2. schema.next \in 0 .. MaxChunks - 1 /\ schema.total \in 1 .. MaxChunks
      BY <2>2
    <3> QED
      BY <3>1, <3>2 DEF Chunk, Chunks
  <2>4. phone' \in Phones
    BY <1>0, <1>2, <2>3 DEF SendChunk, BleShape, Phones
  <2>5. schema' \in Schemas /\ schema'.next <= schema'.total /\ schema'.total > 0
    BY <1>0, <1>2, <2>2 DEF SendChunk, BleShape, Schemas
  <2> QED
    BY <1>0, <2>1, <2>4, <2>5 DEF BleShape, SchemaIsCounted
<1>3. CASE SendFails \/ SchemaSent
  <2>1. SyncEnds /\ UNCHANGED <<advertising, phone, gapEvents>>
    BY <1>3 DEF SendFails, SchemaSent
  <2>2. Carried'
    <3>1. CASE UNCHANGED commandVars
      BY <1>0, <3>1, CommandsAlone
    <3>2. CASE SendFails
      <4>1. UNCHANGED <<stage, inbound, outbound, tasks, locks>> /\ (Stimulus \/ UNCHANGED stimuli)
        BY <3>2 DEF SendFails
      <4>2. CASE UNCHANGED stimuli
        <5>1. UNCHANGED commandVars
          BY <4>1, <4>2 DEF commandVars, world
        <5> QED
          BY <3>1, <5>1
      <4> QED
        BY <1>0, <4>1, <4>2, StimulusCarried
    <3> QED
      BY <1>3, <3>1, <3>2 DEF SchemaSent
  <2> QED
    BY <1>0, <2>1, <2>2, SyncEndsTyped DEF BleShape, SchemaIsCounted
<1> QED
  BY <1>1, <1>2, <1>3 DEF SchemaTask

\* No step of any part leaves the types.
LEMMA NextTyped ==
  ASSUME BleTyped, [Next]_vars
  PROVE  BleTyped'
<1>1. CASE CommandsNext /\ UNCHANGED bleVars
  BY <1>1, CommandsCarried DEF BleTyped, BleShape, SchemaIsCounted, bleVars
<1>2. CASE UNCHANGED vars
  BY <1>2, CommandsAlone DEF BleTyped, BleShape, SchemaIsCounted, vars, bleVars
<1> QED
  BY <1>1, <1>2, RadioTyped, GapEventTyped, WriteTyped, SchemaTaskTyped DEF Next

-----------------------------------------------------------------------------
(* Who is gone has been found to be gone, or is about to be                *)

DisconnectIn(events) == \E i \in 1 .. Len(events) : events[i].type = "disconnect"

\* The host is told when a phone that was there is gone.
LEMMA DisconnectIsTold ==
  ASSUME gapEvents \in Seq(Events), Happens("disconnect", Handle)
  PROVE  DisconnectIn(gapEvents)'
<1>1. /\ Len(gapEvents) \in Nat
      /\ Len(gapEvents') = Len(gapEvents) + 1
      /\ gapEvents'[Len(gapEvents) + 1] = [type |-> "disconnect", value |-> Handle]
  <2>1. [type |-> "disconnect", value |-> Handle] \in Events
    BY DEF Events
  <2> QED
    BY <2>1, LenProperties, AppendProperties DEF Happens
<1>2. Len(gapEvents) + 1 \in 1 .. Len(gapEvents') /\ gapEvents'[Len(gapEvents) + 1].type = "disconnect"
  BY <1>1
<1> QED
  BY <1>2 DEF DisconnectIn

\* Another event that is handled leaves it in the queue.
LEMMA DisconnectIsKept ==
  ASSUME gapEvents \in Seq(Events), gapEvents # <<>>, gapEvents' = Tail(gapEvents),
         Head(gapEvents).type # "disconnect", DisconnectIn(gapEvents)
  PROVE  DisconnectIn(gapEvents)'
<1>1. PICK i \in 1 .. Len(gapEvents) : gapEvents[i].type = "disconnect"
  BY DEF DisconnectIn
<1>2. /\ Len(gapEvents) \in Nat
      /\ Head(gapEvents) = gapEvents[1]
      /\ Len(gapEvents') = Len(gapEvents) - 1
      /\ \A k \in 1 .. Len(gapEvents') : gapEvents'[k] = gapEvents[k + 1]
  BY LenProperties, HeadTailProperties
<1>3. i # 1 /\ i - 1 \in 1 .. Len(gapEvents') /\ i - 1 + 1 = i
  BY <1>1, <1>2
<1>4. gapEvents'[i - 1].type = "disconnect"
  BY <1>1, <1>2, <1>3
<1> QED
  BY <1>3, <1>4 DEF DisconnectIn

\* Only a connection that was not made leaves a device that is not advertising alone.
LEMMA NextFinds ==
  ASSUME ~ConnectCanFail, BleTyped, FoundOrToldOf, [Next]_vars
  PROVE  FoundOrToldOf'
<1>0. /\ gapEvents \in Seq(Events)
      /\ phone \in Phones
      /\ channel \in Links
      /\ channel.synced /\ ~phone.connected => advertising \/ DisconnectIn(gapEvents)
  BY DEF BleTyped, BleShape, SchemaIsCounted, FoundOrToldOf, DisconnectIn
<1> SUFFICES channel'.synced /\ ~phone'.connected => advertising' \/ DisconnectIn(gapEvents)'
  BY DEF FoundOrToldOf, DisconnectIn
<1>1. ASSUME UNCHANGED <<advertising, gapEvents>>, phone'.connected = phone.connected,
             channel'.synced = channel.synced
      PROVE  channel'.synced /\ ~phone'.connected => advertising' \/ DisconnectIn(gapEvents)'
  BY <1>0, <1>1 DEF DisconnectIn
<1>2. CASE PhoneConnects
  <2>1. phone' = [Away EXCEPT !.connected = TRUE]
    BY <1>2 DEF PhoneConnects
  <2> QED
    BY <2>1 DEF Away
<1>3. CASE PhoneLeaves
  BY <1>0, <1>3, DisconnectIsTold DEF PhoneLeaves
<1>4. CASE PhoneExchangesMtu
  <2>1. phone'.connected
    BY <1>0, <1>4 DEF PhoneExchangesMtu, Phones
  <2> QED
    BY <2>1
<1>5. CASE PhonePairs
  <2>1. CASE phone' = [phone EXCEPT !.secure = TRUE]
    <3>1. phone'.connected
      BY <1>0, <1>5, <2>1 DEF PhonePairs, Phones
    <3> QED
      BY <3>1
  <2>2. CASE Happens("disconnect", Handle)
    BY <1>0, <2>2, DisconnectIsTold
  <2> QED
    BY <1>5, <2>1, <2>2 DEF PhonePairs
<1>6. CASE HostSync \/ GapDisconnect
  <2>1. phone' = phone /\ advertising' = ~phone.connected
    BY <1>6 DEF HostSync, GapDisconnect, StartAdvertising
  <2> QED
    BY <2>1
<1>7. CASE GapConnect \/ GapMtu
  <2>1. /\ gapEvents # <<>>
        /\ gapEvents' = Tail(gapEvents)
        /\ Head(gapEvents).type # "disconnect"
        /\ UNCHANGED <<advertising, phone>>
    BY <1>7 DEF GapConnect, GapMtu, Gap, GapHandled
  <2>2. channel'.synced = channel.synced
    BY <1>0, <1>7 DEF GapConnect, GapMtu, Links
  <2>3. DisconnectIn(gapEvents) => DisconnectIn(gapEvents)'
    BY <1>0, <2>1, DisconnectIsKept
  <2> QED
    BY <1>0, <2>1, <2>2, <2>3
<1>8. CASE Write
  <2>1. UNCHANGED <<advertising, phone, gapEvents>> /\ channel'.synced = channel.synced
    BY <1>0, <1>8 DEF Write, WriteSync, WriteCommand, bleVars, Links
  <2> QED
    BY <1>1, <2>1
<1>9. CASE SchemaTask
  <2>1. UNCHANGED <<advertising, gapEvents>>
    BY <1>9 DEF SchemaTask, SchemaBegins, SendChunk, SendFails, SchemaSent
  <2>2. phone'.connected = phone.connected
    BY <1>0, <1>9 DEF SchemaTask, SchemaBegins, SendChunk, SendFails, SchemaSent, Phones
  <2>3. channel'.synced = channel.synced
    BY <1>0, <1>9 DEF SchemaTask, SchemaBegins, SendChunk, SendFails, SchemaSent, SyncEnds, Links
  <2> QED
    BY <1>1, <2>1, <2>2, <2>3
<1>10. CASE UNCHANGED bleVars
  BY <1>1, <1>10 DEF bleVars
<1> QED
  BY <1>2, <1>3, <1>4, <1>5, <1>6, <1>7, <1>8, <1>9, <1>10 DEF Next, Radio, GapEvent, vars

-----------------------------------------------------------------------------
(* The theorems                                                            *)

\* Every queue stays within its room, every event, chunk and command is one there can be,
\* and the schema is counted in a byte (BleChannel.cpp:447, WifiMqttController.cpp:211).
THEOREM TypeOKHolds == Spec => []TypeOK
<1>1. BleTyped => TypeOK
  BY TypedIsTypeOK
<1> QED
  BY <1>1, InitTyped, NextTyped, PTL DEF Spec

\* Nobody keeps what others wait for: the client's lock is with a handler that has a message
\* in hand, which waits for nothing, and the publisher has the mutex only while it publishes
\* and no longer (WifiMqttController.cpp:89-103, :211).
THEOREM LocksAreHeldHolds == Spec => []LocksAreHeld
<1>1. BleTyped => LocksAreHeld
  BY DEF BleTyped, Carried
<1> QED
  BY <1>1, InitTyped, NextTyped, PTL DEF Spec

\* While nobody is connected the device can be found, as long as the radio makes every
\* connection it reports (BleChannel.cpp:210-237): a connection that failed is the one way to
\* lose it.
THEOREM CanBeFoundHolds ==
  ASSUME ~ConnectCanFail
  PROVE  Spec => []CanBeFound
<1>1. Init => FoundOrToldOf
  BY DEF Init, BleInit, FoundOrToldOf
<1>2. BleTyped /\ FoundOrToldOf /\ [Next]_vars => FoundOrToldOf'
  BY NextFinds
<1>3. FoundOrToldOf => CanBeFound
  <2>1. gapEvents = <<>> => ~\E i \in 1 .. Len(gapEvents) : gapEvents[i].type = "disconnect"
    OBVIOUS
  <2> QED
    BY <2>1 DEF FoundOrToldOf, CanBeFound
<1> QED
  BY <1>1, <1>2, <1>3, InitTyped, NextTyped, PTL DEF Spec
=============================================================================
