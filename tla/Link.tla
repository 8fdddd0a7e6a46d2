-------------------------------- MODULE Link --------------------------------
(***************************************************************************)
(* The way to the server, from power-on (CommonSetup.cpp,                  *)
(* AuthenticationController.cpp, Storage.cpp, network/http/                *)
(* WifiHttpController.cpp, comm/MessageBus.cpp and RemoteChannel.cpp which *)
(* route and pass on, network/mqtt/WifiMqttController.cpp): the account is *)
(* stored, the device registers itself and its types over HTTP, messaging  *)
(* starts, and the topics are subscribed to one after the other, while the *)
(* connection may break and the configuration of the log arrives (module   *)
(* Levels).  A device without a channel to the server leaves that out.     *)
(*                                                                         *)
(* The server, the MQTT client and the broker are external.  The server    *)
(* gives a new token with each registration.  The client connects by    *)
(* itself and holds its lock while it runs the event handler; a session    *)
(* that ends leaves nothing at the broker but the retained messages and    *)
(* the will, which it publishes when it notices, or when the same client   *)
(* comes back before.                                                      *)
(***************************************************************************)
EXTENDS Levels

CONSTANTS
  Firmwares,    \* what CroniotConfig may say of the account, the device and its channels
  MaxRetries,   \* WifiHttpController::sendHttpPost()
  Other,        \* a message of another topic
  AppLevel,     \* what the application sets the level of a tag to
  MessageRoom,  \* WifiMqttController::msgQueue
  MaxCuts,      \* bounds: power cuts
  MaxFaults,    \* connections that break, and files that cannot be stored
  MaxSent,      \* what the server sends or the application sets
  MaxFailed,    \* posts of one boot that fail
  AppSinks,     \* the sinks that the application changes
  AppWaits      \* bound: the application changes levels when the bring-up is over

ASSUME LinkAssumption ==
  /\ Firmwares # {}
  /\ \A f \in Firmwares : f.account # "none" /\ f.channels \in {<<"remote">>, <<"ble">>, <<"remote", "ble">>, <<"ble", "remote">>}
  /\ Other \notin Configs
  /\ AppLevel \in LevelValues /\ AppSinks \subseteq SinkNames /\ AppWaits \in BOOLEAN
  /\ {MaxRetries, MessageRoom, MaxCuts, MaxSent, MaxFailed, MaxFaults} \subseteq Nat

(* In the order in which they are registered, which is also that of the    *)
(* three maps of the controller, one after the other.                      *)
Topics == <<"task_type", "task_state_info_sync", "ack", "log_config", "ota">>
TopicSet == {Topics[i] : i \in DOMAIN Topics}

(* One of the types of its sensors, and one of those of its tasks. *)
Types == <<"sensor", "task">>

(* TaskController::registerCallback() has the first two. *)
TaskTopics == {"task_type", "task_state_info_sync"}

Messages == Configs \cup {Other}

VARIABLES
  configured,   \* the firmware's CroniotConfig
  credentials,  \* credentials.json: an account, and whether its token is the last one given
  unsaved,      \* what this boot could not store in it, "account" or "token"
  boot,         \* setup() and authenticateWithServerTask(): which type or topic it is at, the
                \* attempts of a post and the posts that failed, and as what it registers
  server,       \* the account that the server registered last
  maps,         \* the topics in the controller's maps
  session,      \* the client's: "none", "down", "up", or "dead" and not noticed
  handler,      \* MQTT_EVENT_CONNECTED: the topic it is at; 0 when it does not run
  broker,       \* the session it has, its subscriptions, the status topic
  retained,     \* the log_config topic
  stream,       \* sent to the device in this session
  messages,     \* msgQueue
  worker,       \* processInWorker(), and the message
  missed,       \* history: the last log_config found no room in msgQueue
  count         \* power cuts, faults and messages so far

saved == <<credentials, unsaved>>
bringUp == <<configured, saved, boot, server>>
connection == <<session, handler, broker>>
delivery == <<retained, stream, messages, worker, missed>>
vars == <<levelVars, bringUp, maps, connection, delivery, count>>

(* readUserCredentials() of a file that is not there, or not whole. *)
Nothing == [account |-> "none", token |-> FALSE]
Idle == [pc |-> "idle", msg |-> Other]
Started == [at |-> "setup", topic |-> 1, tries |-> 0, failed |-> 0, account |-> "none"]
NoSession == [alive |-> FALSE, subs |-> {}, status |-> "none"]

Init ==
  /\ LevelsInit
  /\ configured \in Firmwares
  /\ credentials = Nothing /\ unsaved = {}
  /\ boot = Started
  /\ server = "none"
  /\ maps = {}
  /\ session = "none" /\ handler = 0 /\ broker = NoSession
  /\ retained = NoConfig /\ stream = <<>> /\ messages = <<>>
  /\ worker = Idle
  /\ missed = FALSE
  /\ count = [cuts |-> 0, faults |-> 0, sent |-> 0]
-----------------------------------------------------------------------------
BootAt(at) == boot.at = at
BootTo(at) == boot' = [Started EXCEPT !.at = at]

(* serverAuthChannel(), and preferUplinkChannel(), which is also the       *)
(* channel that startConnection() gives the callback.                      *)
HasServerAuth == "remote" \in {configured.channels[i] : i \in DOMAIN configured.channels}
PreferUplink == IF HasServerAuth THEN "remote" ELSE configured.channels[1]

(* The connection breaks, or the flash does not take a file. *)
Fault == count.faults < MaxFaults /\ count' = [count EXCEPT !.faults = @ + 1]

(* saveUserCredentials(): opening the file empties it.  When it does not   *)
(* open, it stays, for what it is worth by now, and is not written; and    *)
(* nobody looks at what a write came to.                                   *)
OpenCredentials(what, worth) ==
  \/ credentials' = Nothing /\ UNCHANGED <<unsaved, count>>
  \/ credentials' = worth /\ unsaved' = unsaved \cup {what} /\ Fault

WriteCredentials(what, account, token) ==
  \/ what \in unsaved /\ UNCHANGED <<saved, count>>
  \/ /\ what \notin unsaved
     /\ \/ credentials' = [account |-> account, token |-> token] /\ UNCHANGED <<unsaved, count>>
        \/ UNCHANGED credentials /\ unsaved' = unsaved \cup {what} /\ Fault

bootRest == <<levelVars, configured, maps, connection, delivery>>
-----------------------------------------------------------------------------
(* CommonSetup::setup()                                                     *)

\* Mutant: credentials are stored once, and never compared again.
PersistOnlyOnce ==
  /\ BootAt("setup")
  /\ IF credentials = Nothing
     THEN OpenCredentials("account", credentials) /\ BootTo("store")
     ELSE BootTo("connect") /\ UNCHANGED <<saved, count>>
  /\ UNCHANGED <<bootRest, server>>

(* persistCredentialsIfChanged(). *)
PersistIfChanged ==
  /\ BootAt("setup")
  /\ IF credentials.account # configured.account
     THEN OpenCredentials("account", credentials) /\ BootTo("store")
     ELSE BootTo("connect") /\ UNCHANGED <<saved, count>>
  /\ UNCHANGED <<bootRest, server>>

Persist ==
  /\ BootAt("store")
  /\ WriteCredentials("account", configured.account, FALSE)
  /\ BootTo("connect")
  /\ UNCHANGED <<bootRest, server>>

(* MessageBus::startConnection(), and the callback, once that channel is   *)
(* ready: the network is there, or the BLE host has synchronised.          *)
ConnectionReady ==
  /\ BootAt("connect")
  /\ BootTo(IF PreferUplink = "remote" THEN "register" ELSE "messaging")
  /\ UNCHANGED <<bootRest, saved, server, count>>
-----------------------------------------------------------------------------
(* sendHttpPost(): what the server does with a post, and each way it fails  *)

(* registerDevice(), registerSensorType() and registerTaskType() go to the *)
(* channel that can, and without one fail.  What RemoteChannel posts is    *)
(* one of these; a login is never asked for.                               *)
Routes == {"register", "types"}
Posts(route) == BootAt(route) /\ HasServerAuth
Posting == \E route \in Routes : Posts(route)

(* The connection cannot be opened, or the body not be sent: again. *)
PostAgain ==
  /\ Posting
  /\ boot.tries < MaxRetries
  /\ boot' = [boot EXCEPT !.tries = @ + 1]
  /\ UNCHANGED <<bootRest, saved, server, count>>

(* The result of a type's registration is not looked at. *)
NextType ==
  IF boot.topic < Len(Types) THEN boot' = [boot EXCEPT !.topic = @ + 1, !.tries = 0] ELSE BootTo("messaging")

(* The retries are used up; or the post arrived, and no answer comes back, *)
(* which is not tried again.  authenticateWithServerTask() starts anew     *)
(* until it is registered; what the server did then makes the token of the *)
(* file an old one.                                                        *)
PostFails ==
  /\ Posting
  /\ boot.failed < MaxFailed
  /\ IF BootAt("register")
     THEN /\ boot' = [boot EXCEPT !.tries = 0, !.failed = @ + 1]
          /\ \/ boot.tries = MaxRetries /\ UNCHANGED <<credentials, server>>
             \/ server' = credentials.account /\ credentials' = [credentials EXCEPT !.token = FALSE]
     ELSE NextType /\ UNCHANGED <<credentials, server>>
  /\ UNCHANGED <<bootRest, unsaved, count>>

(* AuthenticationController::registerDevice(): what it read from the file  *)
(* is stored again, with the token of the answer.                          *)
Registered ==
  /\ Posts("register")
  /\ server' = credentials.account
  /\ OpenCredentials("token", [credentials EXCEPT !.token = FALSE])
  /\ boot' = [boot EXCEPT !.at = "token", !.account = credentials.account]
  /\ UNCHANGED bootRest

StoreToken ==
  /\ BootAt("token")
  /\ WriteCredentials("token", boot.account, TRUE)
  /\ BootTo("types")
  /\ UNCHANGED <<bootRest, server>>

(* registerSensorTypes(), registerTasks(). *)
TypeAnswered ==
  /\ Posts("types")
  /\ NextType
  /\ UNCHANGED <<bootRest, saved, server, count>>
-----------------------------------------------------------------------------
(* The rest of authenticateWithServerTask()                                *)

(* MessageBus::startMessaging(): true when one channel can.  The host of a *)
(* BLE channel that was ready has synchronised.                            *)
StartMessaging ==
  /\ BootAt("messaging")
  /\ session' = IF HasServerAuth THEN "down" ELSE session
  /\ BootTo("insert")
  /\ UNCHANGED <<levelVars, configured, saved, server, maps, handler, broker, delivery, count>>

(* MessageBus: the tasks' topics go to every channel, the others to that of *)
(* the uplink.                                                              *)
ChannelsFor(topic) ==
  IF topic \in TaskTopics THEN {configured.channels[i] : i \in DOMAIN configured.channels} ELSE {PreferUplink}

(* The topics that a channel's subscriptions make it hear.  BLE keeps the  *)
(* tasks in maps that nothing reads, and ignores the rest: its commands    *)
(* come with writes (module Ble).                                          *)
Hears == [remote |-> TopicSet, ble |-> {}]

(* registerCallback(), registerCallbackTaskStateInfoSync() and             *)
(* registerRawCallback() put the topic into its map first ...              *)
RegisterCallback ==
  /\ BootAt("insert")
  /\ maps' = maps \cup UNION {Hears[c] \cap {Topics[boot.topic]} : c \in ChannelsFor(Topics[boot.topic])}
  /\ boot' = [boot EXCEPT !.at = "subscribe"]
  /\ UNCHANGED <<levelVars, configured, saved, server, connection, delivery, count>>

(* Without a connection the client refuses; with one that is dead, nothing *)
(* arrives.  The retained message follows a subscription.                  *)
Subscribe(topics) ==
  IF session = "up"
  THEN /\ broker' = [broker EXCEPT !.subs = @ \cup topics]
       /\ stream' = IF "log_config" \in topics /\ retained # NoConfig THEN Append(stream, retained) ELSE stream
  ELSE UNCHANGED <<broker, stream>>

(* ... and then subscribe, which waits for the client's lock. *)
RegisterSubscribes ==
  /\ BootAt("subscribe")
  /\ handler = 0
  /\ Subscribe({Topics[boot.topic]})
  /\ boot' = IF boot.topic < Len(Topics) THEN [boot EXCEPT !.at = "insert", !.topic = @ + 1]
             ELSE [boot EXCEPT !.at = "done"]
  /\ UNCHANGED <<levelVars, configured, saved, server, maps, session, handler, retained, messages, worker, missed, count>>
-----------------------------------------------------------------------------
(* The MQTT client and its event handler                                   *)

(* A session left at the broker is taken over: its will is published. *)
Connect ==
  /\ session = "down"
  /\ session' = "up"
  /\ broker' = [alive |-> TRUE, subs |-> {}, status |-> IF broker.alive THEN "offline" ELSE broker.status]
  /\ handler' = 1
  /\ UNCHANGED <<levelVars, bringUp, maps, delivery, count>>

\* Mutant: only the tasks' topics are subscribed to again.
ResubscribeTasks ==
  /\ handler \in DOMAIN Topics
  /\ Subscribe(maps \cap {Topics[handler]} \cap TaskTopics)
  /\ handler' = handler + 1
  /\ UNCHANGED <<levelVars, bringUp, maps, session, retained, messages, worker, missed, count>>

(* MQTT_EVENT_CONNECTED: every topic of the maps, in their order ... *)
Resubscribe ==
  /\ handler \in DOMAIN Topics
  /\ Subscribe(maps \cap {Topics[handler]})
  /\ handler' = handler + 1
  /\ UNCHANGED <<levelVars, bringUp, maps, session, retained, messages, worker, missed, count>>

(* ... and publishBirth(), every time. *)
PublishBirth ==
  /\ handler = Len(Topics) + 1
  /\ broker' = IF session = "up" THEN [broker EXCEPT !.status = "online"] ELSE broker
  /\ handler' = 0
  /\ UNCHANGED <<levelVars, bringUp, maps, session, delivery, count>>

ConnectionBreaks ==
  /\ session = "up"
  /\ Fault
  /\ session' = "dead"
  /\ stream' = <<>>
  /\ UNCHANGED <<levelVars, bringUp, maps, handler, broker, retained, messages, worker, missed>>

(* MQTT_EVENT_DISCONNECTED.  The client connects again by itself; the      *)
(* timer that starts it finds it started.                                  *)
ClientNotices ==
  /\ session = "dead" /\ handler = 0
  /\ session' = "down"
  /\ UNCHANGED <<levelVars, bringUp, maps, handler, broker, delivery, count>>

BrokerNotices ==
  /\ session # "up" /\ broker.alive
  /\ broker' = [alive |-> FALSE, subs |-> {}, status |-> "offline"]
  /\ UNCHANGED <<levelVars, bringUp, maps, session, handler, delivery, count>>

(* The server publishes a configuration, retained, or something else. *)
ServerSends ==
  /\ count.sent < MaxSent
  /\ count' = [count EXCEPT !.sent = @ + 1]
  /\ \/ \E c \in Configs :
          /\ retained' = c
          /\ stream' = IF session = "up" /\ "log_config" \in broker.subs THEN Append(stream, c) ELSE stream
     \/ /\ session = "up" /\ broker.subs # {}
        /\ stream' = Append(stream, Other)
        /\ UNCHANGED retained
  /\ UNCHANGED <<levelVars, bringUp, maps, connection, messages, worker, missed>>

\* Mutant: the queue's limit is overlooked.
DataAnyway ==
  /\ stream # <<>> /\ handler = 0
  /\ stream' = Tail(stream)
  /\ messages' = Append(messages, Head(stream))
  /\ UNCHANGED <<levelVars, bringUp, maps, connection, retained, worker, missed, count>>

(* MQTT_EVENT_DATA and handleMessage(): without room, it is dropped. *)
Data ==
  /\ stream # <<>> /\ handler = 0
  /\ stream' = Tail(stream)
  /\ messages' = IF Len(messages) < MessageRoom THEN Append(messages, Head(stream)) ELSE messages
  /\ missed' = IF Head(stream) \in Configs THEN Len(messages) = MessageRoom ELSE missed
  /\ UNCHANGED <<levelVars, bringUp, maps, connection, retained, worker, count>>
-----------------------------------------------------------------------------
(* mqtt_worker, with the callback that authenticateWithServerTask() gave   *)

(* processInWorker(): the callbacks of other topics are other modules'.    *)
WorkerReceive ==
  /\ worker.pc = "idle" /\ messages # <<>>
  /\ messages' = Tail(messages)
  /\ worker' = IF Head(messages) \in Configs /\ "log_config" \in maps
               THEN [pc |-> "apply", msg |-> Head(messages)] ELSE Idle
  /\ UNCHANGED <<levelVars, bringUp, maps, connection, retained, stream, missed, count>>

(* applyRemoteConfig(): a configuration without an end is stored after it  *)
(* is in effect.                                                           *)
Apply ==
  /\ worker.pc = "apply"
  /\ IF worker.msg.ttlSec = 0
     THEN ApplyParsed(worker.msg) /\ worker' = [worker EXCEPT !.pc = "open"]
     ELSE ApplyTemporary(worker.msg) /\ worker' = Idle
  /\ UNCHANGED <<now, code, sinks, ceiling, storage, bringUp, maps, connection, retained, stream, messages, missed, count>>

StoreBegins ==
  /\ worker.pc = "open"
  /\ \/ OpenFile(TRUE) /\ worker' = [worker EXCEPT !.pc = "write"] /\ UNCHANGED count
     \/ OpenFile(FALSE) /\ worker' = Idle /\ Fault
  /\ UNCHANGED <<bringUp, maps, connection, retained, stream, messages, missed>>

StoreEnds ==
  /\ worker.pc = "write"
  /\ \/ WriteFile(worker.msg, TRUE) /\ UNCHANGED count
     \/ WriteFile(worker.msg, FALSE) /\ Fault
  /\ worker' = Idle
  /\ UNCHANGED <<bringUp, maps, connection, retained, stream, messages, missed>>

(* The application asks for a level of its own, or of a sink. *)
AppSetsLevel ==
  /\ count.sent < MaxSent
  /\ AppWaits => BootAt("done")
  /\ count' = [count EXCEPT !.sent = @ + 1]
  /\ \/ \E t \in Tags, ttlSec \in {0, 1} : SetLevel(t, AppLevel, ttlSec)
     \/ \E k \in AppSinks : SinkOff(k) \/ SinkLevel(k, AppLevel) \/ SinkDetail(k) \/ Only(k, AppLevel)
  /\ UNCHANGED <<bringUp, maps, connection, delivery>>

TimePasses == Tick /\ UNCHANGED <<bringUp, maps, connection, delivery, count>>
-----------------------------------------------------------------------------
(* The device is cut off and starts again, perhaps with a firmware that is *)
(* configured differently.                                                 *)
PowerCut ==
  /\ count.cuts < MaxCuts
  /\ count' = [count EXCEPT !.cuts = @ + 1]
  /\ configured' \in Firmwares
  /\ boot' = Started /\ unsaved' = {}
  /\ maps' = {}
  /\ session' = "none" /\ handler' = 0
  /\ stream' = <<>> /\ messages' = <<>> /\ worker' = Idle /\ missed' = FALSE
  /\ LevelsAtBoot(file)
  /\ UNCHANGED <<credentials, server, broker, retained, file>>

BootTask ==
  PersistIfChanged \/ Persist \/ ConnectionReady \/ Registered \/ StoreToken \/ TypeAnswered
  \/ StartMessaging \/ RegisterCallback \/ RegisterSubscribes
MqttTask == Connect \/ Resubscribe \/ PublishBirth \/ ClientNotices \/ Data
Worker == WorkerReceive \/ Apply \/ StoreBegins \/ StoreEnds
World == ConnectionBreaks \/ BrokerNotices \/ ServerSends \/ PostAgain \/ PostFails \/ AppSetsLevel \/ TimePasses \/ PowerCut

Next == BootTask \/ MqttTask \/ Worker \/ World
Spec == Init /\ [][Next]_vars

(* With the account lost from the file, the server need not register it. *)
Nobody == BootAt("register") /\ credentials.account = "none"

(* The tasks run, the server answers in the end, and so does the broker. *)
FairSpec == Spec /\ WF_vars(BootTask /\ ~Nobody) /\ WF_vars(MqttTask) /\ WF_vars(Worker)
-----------------------------------------------------------------------------
Accounts == {"none"} \cup {f.account : f \in Firmwares}

Bootings ==
  [at : {"setup", "store", "connect", "register", "token", "types", "messaging", "insert", "subscribe", "done"},
   topic : 1 .. Len(Topics), tries : 0 .. MaxRetries, failed : 0 .. MaxFailed, account : Accounts]
Brokers == [alive : BOOLEAN, subs : SUBSET TopicSet, status : {"none", "offline", "online"}]

LinkTypeOK ==
  /\ configured \in Firmwares
  /\ credentials \in [account : Accounts, token : BOOLEAN]
  /\ unsaved \subseteq {"account", "token"}
  /\ boot \in Bootings
  /\ server \in Accounts
  /\ maps \subseteq TopicSet
  /\ session \in {"none", "down", "up", "dead"}
  /\ handler \in 0 .. Len(Topics) + 1
  /\ broker \in Brokers

DeliveryTypeOK ==
  /\ retained \in Configs \cup {NoConfig}
  /\ stream \in Seq(Messages)
  /\ messages \in Seq(Messages) /\ Len(messages) <= MessageRoom
  /\ worker \in [pc : {"idle", "apply", "open", "write"}, msg : Messages]
  /\ missed \in BOOLEAN

TypeOK == LevelsTypeOK /\ LinkTypeOK /\ DeliveryTypeOK

\* A session that is up, when its event handler has run, has every topic that was
\* registered before, after or during it, and the device is shown as online, whatever the
\* broker noticed when (WifiMqttController.cpp:111-164, :228-242).
SessionIsComplete ==
  session = "up" /\ handler = 0 =>
    /\ maps \ (IF BootAt("subscribe") THEN {Topics[boot.topic]} ELSE {}) \subseteq broker.subs
    /\ broker.status = "online"

\* The device registers as what its firmware is configured to be, also after the file was
\* torn, after an earlier boot could not store it and after the configuration changed,
\* unless this boot could not store that; and its types under the account it registered,
\* with the token of the answer to the last registration, though answers are lost after
\* the server gave another, unless it could not store the token
\* (CommonSetup.cpp:48-60, :115, AuthenticationController.cpp:56-102, Storage.cpp:174-178).
RegistersAsConfigured ==
  /\ BootAt("register") => credentials.account = configured.account \/ "account" \in unsaved
  /\ BootAt("types") =>
       /\ server = configured.account \/ "account" \in unsaved
       /\ credentials = [account |-> server, token |-> TRUE] \/ "token" \in unsaved

\* What the device is configured to be reaches the server, whatever the flash does: not so.
RegistersWhateverFails == BootAt("register") => credentials.account = configured.account

(* A restart brings back the remote origin; or it could not be stored; or  *)
(* it was, and is too long to be read.                                     *)
StoredOrFailed ==
  \/ remote = Loaded(file)
  \/ unstored
  \/ file \in Configs /\ ~file.fits /\ remote = TierOf(file)

\* Levels are what was asked for.  A restart changes nothing: what the file says is the
\* remote origin in effect, but while the worker replaces it, when that failed, and when it
\* is too long to be read back, and then it is in the file to its end.  Each tag has the
\* level that the origins gave it when they were last asked, and lines of other tags reach
\* every sink that shows them, whoever changed it last (Log.cpp:97-139, :214-232, :249-287).
LevelsAreAsAsked ==
  /\ worker.pc \notin {"open", "write"} => StoredOrFailed
  /\ \E at \in 0 .. now : \A t \in Tags :
       esp[t] # Unset => esp[t] = Effective(t, at, code, remote, ttl)
  /\ \A k \in SinkNames : sinks[k].enabled => sinks[k].level <= ceiling
  /\ ceiling > Capture => \E k \in SinkNames : sinks[k].enabled /\ sinks[k].level = ceiling

\* The remote origin survives a restart (Log.h:64-68): not so.
RestartKeepsLevels == worker.pc \notin {"open", "write"} => remote = Loaded(file)

\* The configuration that the server left for the device takes effect: after every power
\* cut, broken connection and retry, stored or not, unless it found no room in the queue,
\* or the device has lost its account.
ConfigArrives ==
  <>[](\/ ~HasServerAuth \/ Nobody \/ retained = NoConfig \/ missed
       \/ IF retained.ttlSec = 0 THEN remote = TierOf(retained) ELSE ttl # NoTtl)
-----------------------------------------------------------------------------
(* The inductive invariants of SessionIsComplete, RegistersAsConfigured    *)
(* and LevelsAreAsAsked                                                    *)

\* Until messaging has started there is no client; its handler runs in a session only.
ClientInOrder ==
  /\ boot.at \notin {"insert", "subscribe", "done"} => session = "none" /\ handler = 0
  /\ handler # 0 => session \in {"up", "dead"}

\* Where the event handler has been, the broker has every topic of the maps, but the one
\* that is just being registered.
Covered ==
  session = "up" =>
    \A i \in 1 .. Len(Topics) :
      Topics[i] \in maps /\ (handler = 0 \/ i < handler) =>
        Topics[i] \in broker.subs \/ (BootAt("subscribe") /\ boot.topic = i)

SessionInvariant ==
  /\ LinkTypeOK /\ ClientInOrder /\ Covered
  /\ session = "up" /\ handler = 0 => broker.status = "online"

\* The account is the configured one from the comparison on, the token from the answer on,
\* as far as they could be stored.
RegistrationInvariant ==
  /\ LinkTypeOK
  /\ boot.at \in {"connect", "register"} =>
       credentials.account = configured.account \/ "account" \in unsaved
  /\ boot.at \in {"token", "types"} => server = configured.account \/ "account" \in unsaved
  /\ boot.at = "token" => boot.account = server
  /\ boot.at = "types" => credentials = [account |-> server, token |-> TRUE] \/ "token" \in unsaved

\* The worker applies a configuration and then stores that very one; what is not in its
\* hands is what the file says, or what could not be stored, or not be read again.
WorkerInOrder ==
  /\ worker.pc # "idle" => worker.msg \in Configs
  /\ worker.pc \in {"open", "write"} => remote = TierOf(worker.msg)
  /\ worker.pc \notin {"open", "write"} => StoredOrFailed

LevelsInvariant == LinkTypeOK /\ DeliveryTypeOK /\ LevelsInOrder /\ WorkerInOrder
=============================================================================
