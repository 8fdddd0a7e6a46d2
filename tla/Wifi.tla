-------------------------------- MODULE Wifi --------------------------------
(***************************************************************************)
(* The WiFi connection (network/connection_provider/                       *)
(* WifiNetworkConnectionController.cpp): the handler of the driver's       *)
(* events, the reconnect timer, and applyCredentials(), which a task calls *)
(* to change network while both are at work.  Delays are not measured: a   *)
(* timer that was started may fire at any time.                            *)
(*                                                                         *)
(* The driver and the air are external.  A connection goes down -> joining *)
(* -> up; the driver posts an event for each outcome and for each drop,    *)
(* and for a disconnect() of a connection there was.  Events wait in the   *)
(* queue of the event task.  The timer's callback runs on a third task,    *)
(* and stopping the timer does not stop a callback that has begun.         *)
(***************************************************************************)
EXTENDS Integers, Sequences

CONSTANTS
  Networks,        \* credentials that are right
  Names,           \* credentials that somebody may enter
  NoNetwork,       \* an empty ssid
  MaxMoves,        \* bound: networks that come into range or go
  MaxEvents,       \* bound: events that wait
  ApLeaves,        \* an access point may drop the device with ASSOC_LEAVE
  ConnectCanFail   \* esp_wifi_connect() may return an error at any time

ASSUME WifiAssumption ==
  /\ Networks \subseteq Names
  /\ NoNetwork \notin Names
  /\ MaxMoves \in Nat
  /\ MaxEvents \in Nat \ {0}
  /\ {ApLeaves, ConnectCanFail} \subseteq BOOLEAN

Configs == Names \cup {NoNetwork}
Reasons == {"assocLeave", "auth", "notFound", "other"}

(* An event of the driver; net is the network it is about, which the code  *)
(* does not know.                                                          *)
Disconnections == [reason : Reasons, net : Configs]
Events == Disconnections \cup [ip : Configs]
IsIp(e) == "ip" \in DOMAIN e

NoEvent == [reason |-> "none", net |-> NoNetwork]

VARIABLES
  link,        \* the driver: "down", "joining" or "up"
  config,      \* the network esp_wifi_set_config() was given
  events,      \* what the event task has still to handle
  inRange,     \* networks that answer
  moves,       \* how often that changed
  handler,     \* the disconnection the handler is about to retry, or NoEvent
  timer,       \* reconnectTimer: "off", "armed", or "firing"
  wifi,        \* started_, idle_, expectLeave_, wifiConnected, taskCreated
  attempt      \* attemptEvents_: exists or not, and the events that set its bits, lastReason_ with one

driver == <<link, config, events>>
air == <<inRange, moves>>
wifiVars == <<driver, air, handler, timer, wifi, attempt>>

Unwatched == [watched |-> FALSE, connected |-> NoNetwork, failed |-> NoEvent]
Off == [started |-> FALSE, idle |-> FALSE, expectLeave |-> FALSE, connected |-> FALSE, taskCreated |-> FALSE]

(* The driver after power-on. *)
PowerOff ==
  /\ link = "down"
  /\ config = NoNetwork
  /\ events = <<>>
  /\ handler = NoEvent
  /\ timer = "off"
  /\ wifi = Off
  /\ attempt = Unwatched

LosePower ==
  /\ link' = "down"
  /\ config' = NoNetwork
  /\ events' = <<>>
  /\ handler' = NoEvent
  /\ timer' = "off"
  /\ wifi' = Off
  /\ attempt' = Unwatched
-----------------------------------------------------------------------------
(* The driver and the air (external)                                       *)

Post(e) == Len(events) < MaxEvents /\ events' = Append(events, e)

(* Of a network that is not there, or is too weak; of a password that is not right. *)
Refusals(net) ==
  IF net \in Networks \ inRange THEN {"notFound"} ELSE {"auth"}

Join ==
  /\ link = "joining"
  /\ config \in inRange
  /\ link' = "up"
  /\ Post([ip |-> config])
  /\ UNCHANGED <<config, air, handler, timer, wifi, attempt>>

Refuse ==
  /\ link = "joining"
  /\ link' = "down"
  /\ \E r \in Refusals(config) : Post([reason |-> r, net |-> config])
  /\ UNCHANGED <<config, air, handler, timer, wifi, attempt>>

Drop ==
  /\ link = "up"
  /\ link' = "down"
  /\ \E r \in {"other"} \cup (IF ApLeaves THEN {"assocLeave"} ELSE {}) :
       Post([reason |-> r, net |-> config])
  /\ UNCHANGED <<config, air, handler, timer, wifi, attempt>>

Move ==
  /\ moves < MaxMoves
  /\ moves' = moves + 1
  /\ \E n \in Networks : inRange' = IF n \in inRange THEN inRange \ {n} ELSE inRange \cup {n}
  /\ UNCHANGED <<driver, handler, timer, wifi, attempt>>

(* esp_wifi_connect(): fails while a connection exists or is being made. *)
Connect(from) ==
  \/ link' = IF from = "down" THEN "joining" ELSE from
  \/ ConnectCanFail /\ link' = from

(* esp_wifi_disconnect(): tells of the end of a connection, if there was one. *)
Disconnect ==
  IF link = "down" THEN UNCHANGED driver
  ELSE link' = "down" /\ Post([reason |-> "assocLeave", net |-> config]) /\ UNCHANGED config
-----------------------------------------------------------------------------
(* The event task: wifiEventHandler()                                      *)

\* Mutant: the flag is tested before it is known whose leave this is.
DisconnectedByAnyone ==
  /\ handler = NoEvent
  /\ events # <<>> /\ ~IsIp(Head(events))
  /\ events' = Tail(events)
  /\ wifi' = [wifi EXCEPT !.connected = FALSE, !.expectLeave = FALSE]
  /\ handler' = IF wifi.expectLeave \/ wifi.idle THEN NoEvent ELSE Head(events)
  /\ UNCHANGED <<link, config, air, timer, attempt>>

\* setWifiConnected(): what connectedToNetwork() and the LED tell the rest of the device.
WithConnected(connected) == [wifi EXCEPT !.connected = connected]

(* STA_DISCONNECTED: was it our own leave, or is there no network to go back to? *)
Disconnected ==
  /\ handler = NoEvent
  /\ events # <<>> /\ ~IsIp(Head(events))
  /\ events' = Tail(events)
  /\ wifi' = [WithConnected(FALSE) EXCEPT !.expectLeave = FALSE]
  /\ handler' = IF (Head(events).reason = "assocLeave" /\ wifi.expectLeave) \/ wifi.idle
                THEN NoEvent ELSE Head(events)
  /\ UNCHANGED <<link, config, air, timer, attempt>>

(* The rest of it: tell the attempt, and start the timer again. *)
ScheduleReconnect ==
  /\ handler # NoEvent
  /\ attempt' = IF attempt.watched
                THEN [attempt EXCEPT !.failed = handler] ELSE attempt
  /\ timer' = "armed"
  /\ handler' = NoEvent
  /\ UNCHANGED <<driver, air, wifi>>

(* STA_GOT_IP; the first one starts the rest of the device. *)
GotIp ==
  /\ handler = NoEvent
  /\ events # <<>> /\ IsIp(Head(events))
  /\ events' = Tail(events)
  /\ attempt' = IF attempt.watched THEN [attempt EXCEPT !.connected = Head(events).ip] ELSE attempt
  /\ wifi' = [WithConnected(TRUE) EXCEPT !.taskCreated = TRUE]
  /\ UNCHANGED <<link, config, air, handler, timer>>

(* The timer's task: reconnectTimerCallback() *)
Fire ==
  /\ timer = "armed"
  /\ timer' = "firing"
  /\ UNCHANGED <<driver, air, handler, wifi, attempt>>

Reconnect ==
  /\ timer = "firing"
  /\ timer' = "off"
  /\ Connect(link)
  /\ UNCHANGED <<config, events, air, handler, wifi, attempt>>
-----------------------------------------------------------------------------
(* Operations of the task that changes the network                         *)

(* init(): the driver is started and asked to connect, or was not started. *)
Start(net) ==
  /\ \/ wifi' = [wifi EXCEPT !.started = TRUE] /\ config' = net /\ Connect("down")
     \/ UNCHANGED <<wifi, config, link>>
  /\ UNCHANGED <<events, air, handler, timer, attempt>>

(* beginAttempt() *)
BeginAttempt == attempt' = [Unwatched EXCEPT !.watched = TRUE]

\* Mutant: the flag is not set.
SilenceUnflagged(net) ==
  /\ timer' = IF timer = "armed" THEN "off" ELSE timer
  /\ wifi' = [wifi EXCEPT !.idle = (net = NoNetwork)]
  /\ UNCHANGED <<driver, air, handler, attempt>>

(* applyCredentials(), up to its disconnect() ... *)
Silence(net) ==
  /\ timer' = IF timer = "armed" THEN "off" ELSE timer
  /\ wifi' = [wifi EXCEPT !.idle = (net = NoNetwork), !.expectLeave = TRUE]
  /\ UNCHANGED <<driver, air, handler, attempt>>

(* ... which is a step ... *)
Leave == Disconnect /\ UNCHANGED <<air, handler, timer, wifi, attempt>>

\* Mutant: set_config(), and the connection is left to the timer.
JoinOtherLater(net) ==
  /\ config' = IF link = "joining" THEN config ELSE net
  /\ UNCHANGED <<link, events, air, handler, timer, wifi, attempt>>

(* ... and what follows it; the driver takes no configuration while it is joining. *)
JoinOther(net) ==
  /\ IF link = "joining" THEN UNCHANGED driver
     ELSE config' = net /\ Connect(link) /\ UNCHANGED events
  /\ UNCHANGED <<air, handler, timer, wifi, attempt>>

(* waitAttempt(): the bits are taken and cleared together. *)
Taken == [attempt EXCEPT !.connected = NoNetwork, !.failed = NoEvent]
-----------------------------------------------------------------------------
WifiTypeOK ==
  /\ link \in {"down", "joining", "up"}
  /\ config \in Configs
  /\ events \in Seq(Events) /\ Len(events) <= MaxEvents
  /\ inRange \subseteq Networks
  /\ moves \in 0 .. MaxMoves
  /\ handler \in Disconnections \cup {NoEvent}
  /\ timer \in {"off", "armed", "firing"}
  /\ wifi \in [started : BOOLEAN, idle : BOOLEAN, expectLeave : BOOLEAN, connected : BOOLEAN,
               taskCreated : BOOLEAN]
  /\ attempt \in [watched : BOOLEAN, connected : Configs, failed : Disconnections \cup {NoEvent}]

EventTask == Disconnected \/ ScheduleReconnect \/ GotIp
TimerTask == Fire \/ Reconnect
Driver == Join \/ Refuse \/ Drop \/ Move
=============================================================================
