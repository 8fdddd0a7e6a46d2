------------------------------ MODULE WifiSetup ------------------------------
(***************************************************************************)
(* Setting up WiFi from the serial console (provision/): the dialog, the   *)
(* console task that tries a network, saves it or goes back, the file it   *)
(* is saved in (Storage.cpp), and which network a boot takes               *)
(* (comm/RemoteChannel.cpp).  The WiFi connection underneath is Wifi.      *)
(*                                                                         *)
(* A person types whole lines; which ones depends on the question that is  *)
(* on the screen, and while an attempt is made an impatient "y".  A name   *)
(* stands for an ssid with a password; "" and "bad" stand for lines that   *)
(* cancel and that are not valid.  A cut of power may come at any time.    *)
(***************************************************************************)
EXTENDS Wifi

CONSTANTS
  CompiledIn,    \* CroniotConfig's network, or NoNetwork
  NoFile,        \* there is no wifi.json
  Damaged,       \* a wifi.json that does not parse
  FlashCanFail,  \* a write to flash may fail
  MaxCommands,   \* bound: commands typed
  MaxBoots       \* bound: boots

ASSUME SetupAssumption ==
  /\ CompiledIn \in Names \cup {NoNetwork}
  /\ {NoFile, Damaged} \cap Configs = {}
  /\ NoFile # Damaged
  /\ FlashCanFail \in BOOLEAN
  /\ MaxCommands \in Nat
  /\ MaxBoots \in Nat \ {0}

Files == Names \cup {NoFile, Damaged}
DialogStates == {"Idle", "AskSsid", "AskPassword", "Connecting", "AskSaveAnyway"}
Texts == Names \cup {"wifi", "clear", "status", "password", "", "bad", "y", "n"}
(* A line, and the question that was on the screen when it was typed. *)
Lines == [text : Texts, at : DialogStates]

VARIABLES
  file,      \* /littlefs/wifi.json
  nm,        \* NetworkManager's wifiSsid and wifiPassword
  dialog,    \* WifiSetupDialog: state_ and pending_
  uart,      \* bytes the driver has received
  chunk,     \* lines of the bytes that consoleTask() has read
  commands,  \* how many commands were typed
  verdict,   \* ConnectVerdict
  console,   \* where the task is, and the fields of State
  boots,     \* how many boots there were
  joined     \* networks that gave an address, since ever

setup == <<file, nm, dialog, verdict, console>>
input == <<uart, chunk, commands>>
history == <<boots, joined>>
vars == <<wifiVars, setup, input, history>>

Fresh == [wrongPassword |-> 0, notFound |-> 0]
Closed == [state |-> "Idle", pending |-> NoNetwork]

(* resolve(): the file wins over the network compiled in. *)
StoredOf(f) == IF f = Damaged THEN NoFile ELSE f
Resolved(f) == IF StoredOf(f) # NoFile THEN f ELSE CompiledIn
SourceOf(f) ==
  IF StoredOf(f) # NoFile THEN "Device" ELSE IF CompiledIn # NoNetwork THEN "Firmware" ELSE "None"

(* pc, what applyCredentials() was called with and where it returns; the driver was *)
(* started before (init() aborts the second time); clean: see AttemptIsHonest.      *)
ConsoleAt(f) ==
  [pc |-> IF SourceOf(f) = "None" THEN "read" ELSE "boot", net |-> NoNetwork, then |-> "read",
   inUse |-> Resolved(f), beforeAttempt |-> NoNetwork, parked |-> FALSE, tried |-> FALSE, clean |-> TRUE]

Init ==
  /\ PowerOff
  /\ inRange = Networks
  /\ moves = 0
  /\ file \in Networks \cup {NoFile}
  /\ nm = Resolved(file)
  /\ dialog = Closed
  /\ uart = <<>> /\ chunk = <<>> /\ commands = 0
  /\ verdict = Fresh
  /\ console = ConsoleAt(file)
  /\ boots = 1
  /\ joined = {}

(* pending_ and beforeAttempt are dead between commands: the model forgets them. *)
Resting(c) == [c EXCEPT !.pc = "read", !.beforeAttempt = NoNetwork, !.clean = TRUE]

At(label) == console.pc = label
Goto(label) == console' = [console EXCEPT !.pc = label]
(* A call of applyCredentials(net) that returns to a label. *)
Apply(net, label) == [console EXCEPT !.pc = "apply", !.net = net, !.then = label]
Return == console' = [console EXCEPT !.pc = console.then, !.net = NoNetwork, !.then = "read"]
KeepInput == UNCHANGED input
KeepHistory == UNCHANGED history
-----------------------------------------------------------------------------
(* Starting the driver: startConnection() at boot, tryConnect() later      *)

StartDriver ==
  /\ At("boot") \/ (At("start") /\ ~console.tried)
  /\ Start(nm)
  /\ wifi'.started \/ boots < MaxBoots  \* (a second init() is a reboot)
  /\ console' = [console EXCEPT !.tried = TRUE,
                   !.pc = IF At("boot") THEN "read" ELSE IF wifi'.started THEN "wait" ELSE "park"]
  /\ UNCHANGED <<file, nm, dialog, verdict, history>> /\ KeepInput

(* Power is cut, or init() is called twice and esp_event_loop_create_default() aborts. *)
Reboot ==
  /\ boots < MaxBoots
  /\ boots' = boots + 1
  /\ LosePower
  /\ nm' = Resolved(file)
  /\ dialog' = Closed
  /\ uart' = <<>> /\ chunk' = <<>>
  /\ verdict' = Fresh
  /\ console' = ConsoleAt(file)
  /\ UNCHANGED <<air, file, commands, joined>>
-----------------------------------------------------------------------------
(* What is typed                                                           *)

Sensible ==
  CASE dialog.state = "Idle" -> {"wifi", "clear", "status"}
    [] dialog.state = "AskSsid" -> Names \cup {"", "bad"}
    [] dialog.state = "AskPassword" -> {"password", "bad"}
    [] dialog.state = "Connecting" -> {"y"}
    [] dialog.state = "AskSaveAnyway" -> {"y", "n"}

(* An answer may be pasted together with the password. *)
Waiting == Len(uart) + Len(chunk)
Type ==
  /\ commands < MaxCommands \/ dialog.state # "Idle"
  /\ \E t \in Texts :
       /\ \/ Waiting = 0 /\ t \in Sensible
          \/ Waiting = 1 /\ t = "y" /\ dialog.state = "AskPassword"
       /\ uart' = Append(uart, [text |-> t, at |-> dialog.state])
       /\ commands' = commands + (IF dialog.state = "Idle" THEN 1 ELSE 0)
  /\ UNCHANGED <<wifiVars, setup, chunk, history>>

(* readInput() *)
Read ==
  /\ At("read") /\ chunk = <<>> /\ uart # <<>>
  /\ chunk' = uart
  /\ uart' = <<>>
  /\ UNCHANGED <<wifiVars, setup, commands, history>>

\* Mutant: what this round has read already is kept.
DiscardUart == uart' = <<>> /\ UNCHANGED <<chunk, commands>>

(* discardInput(): the driver's buffer and the rest of this round. *)
DiscardInput == uart' = <<>> /\ chunk' = <<>> /\ UNCHANGED commands
-----------------------------------------------------------------------------
(* WifiSetupDialog::onLine(): the states' answers                          *)

Line == Head(chunk).text
Hear == At("read") /\ chunk # <<>> /\ chunk' = Tail(chunk) /\ UNCHANGED <<uart, commands>>

Command ==
  /\ dialog.state = "Idle"
  /\ \/ Line = "wifi" /\ dialog' = [Closed EXCEPT !.state = "AskSsid"] /\ UNCHANGED console
     \/ Line = "clear" /\ Goto("clear") /\ UNCHANGED dialog
     \/ Line \notin {"wifi", "clear"} /\ UNCHANGED <<dialog, console>>

Name ==
  /\ dialog.state = "AskSsid"
  /\ dialog' = CASE Line = "" -> Closed
                 [] Line \in Names \ {""} -> [state |-> "AskPassword", pending |-> Line]
                 [] OTHER -> dialog
  /\ UNCHANGED console

Password ==
  /\ dialog.state = "AskPassword"
  /\ \/ Line # "bad" /\ dialog' = [dialog EXCEPT !.state = "Connecting"] /\ Goto("begin")
     \/ Line = "bad" /\ UNCHANGED <<dialog, console>>

Answer ==
  /\ dialog.state = "AskSaveAnyway"
  /\ dialog' = [dialog EXCEPT !.state = "Idle"]
  /\ console' = IF Line = "y" THEN [console EXCEPT !.pc = "save"]
                ELSE Apply(console.beforeAttempt, "unpark")

OnLine ==
  /\ Hear
  /\ Command \/ Name \/ Password \/ Answer
  /\ UNCHANGED <<wifiVars, file, nm, verdict, history>>
-----------------------------------------------------------------------------
(* applyCredentials(), in the steps of Wifi                                *)

ApplyCredentials ==
  /\ At("apply")
  /\ nm' = console.net
  /\ IF wifi.started THEN Silence(console.net) /\ Goto("leave")
     ELSE Return /\ UNCHANGED wifiVars
  /\ UNCHANGED <<file, dialog, verdict, history>> /\ KeepInput

ApplyLeave ==
  /\ At("leave")
  /\ Leave
  /\ IF wifi.idle THEN Return
     ELSE Goto("join")
  /\ UNCHANGED <<file, nm, dialog, verdict, history>> /\ KeepInput

ApplyJoin ==
  /\ At("join")
  /\ JoinOther(console.net)
  /\ Return
  /\ UNCHANGED <<file, nm, dialog, verdict, history>> /\ KeepInput
-----------------------------------------------------------------------------
(* tryConnect()                                                            *)

(* Nothing of the network before is on its way. *)
Quiet == events = <<>> /\ handler = NoEvent /\ timer # "firing"

Begin ==
  /\ At("begin")
  /\ BeginAttempt
  /\ console' = [Apply(dialog.pending, IF wifi.started THEN "wait" ELSE "start")
                   EXCEPT !.beforeAttempt = console.inUse, !.clean = Quiet]
  /\ UNCHANGED <<driver, air, handler, timer, wifi, file, nm, dialog, verdict, history>> /\ KeepInput

WaitConnected ==
  /\ At("wait") /\ attempt.connected # NoNetwork
  /\ attempt' = Taken
  /\ Goto("succeeded")
  /\ verdict' = Fresh
  /\ UNCHANGED <<driver, air, handler, timer, wifi, file, nm, dialog, history>> /\ KeepInput

(* ConnectVerdict::onFailure(): final once the same specific kind came twice. *)
Judged(reason) ==
  [wrongPassword |-> verdict.wrongPassword + (IF reason = "auth" THEN 1 ELSE 0),
   notFound |-> verdict.notFound + (IF reason = "notFound" THEN 1 ELSE 0)]
\* Mutant: final after the third time.
FinalLate(v) == v.wrongPassword >= 3 \/ v.notFound >= 3
Final(v) == v.wrongPassword >= 2 \/ v.notFound >= 2

WaitFailed ==
  /\ At("wait") /\ attempt.failed # NoEvent /\ attempt.connected = NoNetwork
  /\ attempt' = Taken
  /\ LET v == Judged(attempt.failed.reason) IN
       IF Final(v) THEN Goto("park") /\ verdict' = Fresh ELSE verdict' = v /\ UNCHANGED console
  /\ UNCHANGED <<driver, air, handler, timer, wifi, file, nm, dialog, history>> /\ KeepInput

WaitTimeout ==
  /\ At("wait")
  /\ Goto("park")
  /\ verdict' = Fresh
  /\ UNCHANGED <<wifiVars, file, nm, dialog, history>> /\ KeepInput

(* No retries while the question is on the screen. *)
Park ==
  /\ At("park")
  /\ console' = [Apply(NoNetwork, "failed") EXCEPT !.parked = TRUE]
  /\ UNCHANGED <<wifiVars, file, nm, dialog, verdict, history>> /\ KeepInput

(* onConnectResult() *)
Failed ==
  /\ At("failed")
  /\ DiscardInput
  /\ dialog' = [dialog EXCEPT !.state = "AskSaveAnyway"]
  /\ Goto("read")
  /\ UNCHANGED <<wifiVars, file, nm, verdict, history>>

Succeeded ==
  /\ At("succeeded")
  /\ DiscardInput
  /\ dialog' = [dialog EXCEPT !.state = "Idle"]
  /\ Goto("save")
  /\ UNCHANGED <<wifiVars, file, nm, verdict, history>>
-----------------------------------------------------------------------------
(* runAction(): Save, Revert and Clear                                     *)

\* Mutant: written in place.
WriteInPlace ==
  /\ At("save")
  /\ file' = Damaged
  /\ Goto("rename")
  /\ UNCHANGED <<wifiVars, nm, dialog, verdict, history>> /\ KeepInput

(* saveWifiCredentials(): written aside ... *)
WriteAside ==
  /\ At("save")
  /\ Goto("rename")
  /\ UNCHANGED <<wifiVars, file, nm, dialog, verdict, history>> /\ KeepInput

\* rename(): the old network or the new one, never a part of either.
Replace(credentials) == file' = credentials

(* ... and renamed over the old file. *)
Rename ==
  /\ At("rename")
  /\ Replace(dialog.pending)
  /\ IF console.parked
     THEN console' = [Apply(dialog.pending, "unpark") EXCEPT !.inUse = dialog.pending] /\ UNCHANGED dialog
     ELSE console' = [Resting(console) EXCEPT !.inUse = dialog.pending] /\ dialog' = Closed
  /\ UNCHANGED <<wifiVars, nm, verdict, history>> /\ KeepInput

SaveFails ==
  /\ FlashCanFail
  /\ At("save") \/ At("rename")
  /\ IF console.parked THEN console' = Apply(console.beforeAttempt, "unpark") /\ UNCHANGED dialog
     ELSE console' = Resting(console) /\ dialog' = Closed
  /\ UNCHANGED <<wifiVars, file, nm, verdict, history>> /\ KeepInput

Unpark ==
  /\ At("unpark")
  /\ console' = [Resting(console) EXCEPT !.parked = FALSE]
  /\ dialog' = Closed
  /\ UNCHANGED <<wifiVars, file, nm, verdict, history>> /\ KeepInput

\* clearWifiCredentials(): removing the file may fail.
Forget == file' \in IF FlashCanFail THEN {NoFile, file} ELSE {NoFile}

Clear ==
  /\ At("clear")
  /\ Forget
  /\ Goto("read")
  /\ UNCHANGED <<wifiVars, nm, dialog, verdict, history>> /\ KeepInput
-----------------------------------------------------------------------------
Console ==
  \/ StartDriver \/ Read \/ OnLine \/ ApplyCredentials \/ ApplyLeave \/ ApplyJoin
  \/ Begin \/ WaitConnected \/ WaitFailed \/ WaitTimeout \/ Park \/ Failed \/ Succeeded
  \/ WriteAside \/ Rename \/ SaveFails \/ Unpark \/ Clear

Connection ==
  /\ EventTask \/ TimerTask \/ Driver
  /\ joined' = IF link = "joining" /\ link' = "up" THEN joined \cup {config} ELSE joined
  /\ console' = IF console.then = "wait" /\ console.pc # "join" THEN [console EXCEPT !.clean = FALSE] ELSE console
  /\ UNCHANGED <<file, nm, dialog, verdict, input, boots>>

Next == Console \/ Type \/ Reboot \/ Connection

Spec == Init /\ [][Next]_vars
-----------------------------------------------------------------------------
TypeOK ==
  /\ WifiTypeOK
  /\ file \in Files
  /\ nm \in Configs
  /\ dialog \in [state : DialogStates, pending : Configs]
  /\ uart \in Seq(Lines) /\ chunk \in Seq(Lines)
  /\ commands \in 0 .. MaxCommands
  /\ verdict \in [wrongPassword : 0 .. 1, notFound : 0 .. 1]
  /\ boots \in 1 .. MaxBoots
  /\ joined \subseteq Networks

(***************************************************************************)
(* With credentials and without a connection, something is always on its   *)
(* way that makes the driver connect: an attempt, the timer, an event, or  *)
(* a task in the middle of it.  Every path through wifiEventHandler() :215 *)
(* and applyCredentials() :151 that gives up on a connection must leave    *)
(* one of them behind, whatever the others do in between.                  *)
(***************************************************************************)
NeverStranded ==
  wifi.started /\ ~wifi.idle /\ link = "down" =>
    timer # "off" \/ events # <<>> \/ handler # NoEvent \/ console.pc \in {"leave", "join"}

(***************************************************************************)
(* The bits that waitAttempt() takes are about the network that was just   *)
(* entered, if the network before was silent from beginAttempt() until the *)
(* driver left it (WifiNetworkConnectionController.cpp:185, :161).         *)
(***************************************************************************)
AttemptIsHonest ==
  At("wait") /\ console.clean =>
    /\ attempt.connected \in {NoNetwork, dialog.pending}
    /\ attempt.failed # NoEvent => attempt.failed.net = dialog.pending

(***************************************************************************)
(* An answer to "Save it anyway?" was typed when the question was on the   *)
(* screen: keys pressed while the attempt was made do not answer it        *)
(* (WifiSetupConsole.cpp:162, :271).                                       *)
(***************************************************************************)
NothingTypedBlind ==
  dialog.state = "AskSaveAnyway" =>
    /\ \A k \in 1 .. Len(uart) : uart[k].at = "AskSaveAnyway"
    /\ \A k \in 1 .. Len(chunk) : chunk[k].at = "AskSaveAnyway"

(***************************************************************************)
(* wifi.json is whole after any cut of power, and changes only to nothing, *)
(* because it was asked for, or to a network that gave the device an       *)
(* address or that the person insisted on (Storage.cpp:100,                *)
(* WifiSetupConsole.cpp:180).  An attempt that did not begin clean proves  *)
(* nothing.                                                                *)
(***************************************************************************)
SavedIsMeant ==
  [][file' # file =>
       \/ file' = NoFile /\ At("clear")
       \/ file' \in Names /\ (file' \in joined \/ console.parked \/ ~console.clean)]_vars

(***************************************************************************)
(* Between commands the network that `wifi status` shows, and that a       *)
(* failed attempt goes back to, is the one the device is on                *)
(* (WifiSetupConsole.cpp:106, :122).                                       *)
(***************************************************************************)
InUseIsTrue == At("read") /\ dialog.state = "Idle" => nm = console.inUse
-----------------------------------------------------------------------------
(* The inductive invariant                                                 *)

Labels ==
  {"boot", "read", "begin", "start", "wait", "succeeded", "park", "failed", "apply", "leave",
   "join", "save", "rename", "unpark", "clear"}

ConsoleTypeOK ==
  console \in [pc : Labels, net : Configs, then : {"read", "wait", "start", "failed", "unpark"},
               inUse : Configs, beforeAttempt : Configs, parked : BOOLEAN, tried : BOOLEAN,
               clean : BOOLEAN]

\* The console is in applyCredentials(), and what for.
Applying == console.pc \in {"apply", "leave", "join"}
ApplyingFor(label) == Applying /\ console.then = label

\* The question on the screen follows from where the console is, and with it what is
\* known of the network that was entered.
DialogInv ==
  /\ ~Applying => console.then = "read"
  /\ Applying => console.then # "read"
  /\ dialog.state = "Connecting" <=>
       \/ console.pc \in {"begin", "start", "wait", "succeeded", "park", "failed"}
       \/ Applying /\ console.then # "unpark"
  /\ dialog.state \in {"AskSsid", "AskPassword", "AskSaveAnyway"} => At("read")
  /\ dialog.state \in {"AskPassword", "Connecting", "AskSaveAnyway"} \/ console.pc \in {"save", "rename"} =>
       dialog.pending \in Names
  /\ dialog.state = "AskSaveAnyway" \/ At("failed") \/ ApplyingFor("failed") => console.parked

\* A driver that was not started does nothing.
DriverInv ==
  /\ ~wifi.started => link = "down" /\ events = <<>> /\ handler = NoEvent /\ timer = "off"
  /\ console.pc \in {"leave", "join", "wait"} \/ ApplyingFor("wait") => wifi.started
  /\ At("boot") => ~wifi.started
  /\ At("start") \/ ApplyingFor("start") => ~wifi.started

\* What keeps NeverStranded: a connection that is down was told of after every leave of our own.
Newest(s) == s[Len(s)]
OnItsWay ==
  wifi.started /\ ~wifi.idle /\ link = "down" =>
    \/ timer # "off" \/ handler # NoEvent \/ console.pc \in {"leave", "join"}
    \/ events # <<>> /\ ~IsIp(Newest(events)) /\ Newest(events).reason # "assocLeave"

Watched == [Unwatched EXCEPT !.watched = TRUE]

\* The end of our own connection, of which the handler will not tell the attempt.
OwnLeave(e) == ~IsIp(e) /\ e.reason = "assocLeave" /\ wifi.expectLeave
About(e, net) == IF IsIp(e) THEN e.ip = net ELSE e.net = net

\* The driver has left the network before, and at most its leave is still to be handled.
LeftAlone ==
  /\ link = "down" /\ timer = "off" /\ handler = NoEvent
  /\ events = <<>> \/ (Len(events) = 1 /\ OwnLeave(events[1]))

\* What is on its way to the attempt is about the network that was entered.
OnlyAbout(net) ==
  /\ config = net
  /\ \A k \in 1 .. Len(events) : About(events[k], net) \/ (k = 1 /\ OwnLeave(events[1]))
  /\ handler # NoEvent => handler.net = net

\* From beginAttempt() to the bits: before the driver left the old network nothing has
\* happened, then its leave is all that is on its way, then the new one comes after it.
AttemptInv ==
  /\ ApplyingFor("wait") \/ ApplyingFor("start") => console.net = dialog.pending
  /\ ApplyingFor("start") \/ At("start") => attempt = Watched
  /\ At("start") => nm = dialog.pending
  /\ console.pc \in {"leave", "join"} /\ console.then = "wait" => ~wifi.idle
  /\ ApplyingFor("wait") /\ console.clean =>
       /\ attempt = Watched
       /\ console.pc \in {"apply", "leave"} => Quiet
       /\ At("leave") => timer = "off" /\ wifi.expectLeave
       /\ At("join") => LeftAlone
  /\ At("wait") /\ console.clean => OnlyAbout(dialog.pending)

\* An address that was told of was given.
JoinedInv ==
  /\ \A k \in 1 .. Len(events) : IsIp(events[k]) => events[k].ip \in joined
  /\ attempt.connected \in joined \cup {NoNetwork}
  /\ At("succeeded") /\ console.clean => dialog.pending \in joined
  /\ console.pc \in {"save", "rename"} => dialog.pending \in joined \/ console.parked \/ ~console.clean
-----------------------------------------------------------------------------
(* Liveness                                                                *)

(* The tasks and timers run, the driver ends an attempt, and a network that *)
(* is there and right does not refuse every attempt.                       *)
Fairness ==
  /\ WF_vars(Console)
  /\ WF_vars(EventTask /\ Connection)
  /\ WF_vars(TimerTask /\ Connection)
  /\ WF_vars((Join \/ Refuse) /\ Connection)
  /\ SF_vars(Join /\ Connection)

FairSpec == Spec /\ Fairness

(***************************************************************************)
(* A device whose network stays in range joins it, and joins it again      *)
(* after every drop.                                                       *)
(***************************************************************************)
ComesBack ==
  <>[](wifi.started /\ ~wifi.idle /\ config \in inRange) => []<>(link = "up")
=============================================================================
