----------------------------- MODULE WifiProofs -----------------------------
(***************************************************************************)
(* The safety of WiFi and its setup, for any networks and names, any       *)
(* length of the event queue and any number of boots and commands.  Typed  *)
(* says where the console is for each question on the screen, DriverInv    *)
(* who has started the driver, AttemptInv what is on its way from          *)
(* beginAttempt() to the bits, JoinedInv which networks gave an address.   *)
(* OnItsWay is what never leaves a device stranded.                        *)
(***************************************************************************)
EXTENDS WifiSetup, SequenceTheorems, TLAPS

USE WifiAssumption, SetupAssumption

\* An event is of one of two kinds.
LEMMA EventKinds ==
  ASSUME NEW e \in Events
  PROVE  /\ IsIp(e) => e \in [ip : Configs] /\ e.ip \in Configs
         /\ ~IsIp(e) => e \in Disconnections /\ e.reason \in Reasons /\ e.net \in Configs
<1>1. \A r \in [reason : Reasons, net : Configs] : "ip" \notin DOMAIN r
  OBVIOUS
<1>2. \A r \in [ip : Configs] : "ip" \in DOMAIN r
  OBVIOUS
<1> QED
  BY <1>1, <1>2 DEF Events, Disconnections, IsIp

\* The rest of a queue of events.
LEMMA RestOfEvents ==
  ASSUME NEW s \in Seq(Events), s # <<>>
  PROVE  /\ Head(s) \in Events /\ Head(s) = s[1]
         /\ Tail(s) \in Seq(Events) /\ Len(Tail(s)) = Len(s) - 1 /\ Len(s) \in Nat \ {0}
         /\ \A k \in 1 .. Len(Tail(s)) : Tail(s)[k] = s[k + 1]
  BY HeadTailProperties, LenProperties, EmptySeq

\* A queue with one more event.
LEMMA OneMoreEvent ==
  ASSUME NEW s \in Seq(Events), NEW e \in Events
  PROVE  /\ Append(s, e) \in Seq(Events) /\ Len(Append(s, e)) = Len(s) + 1 /\ Len(s) \in Nat
         /\ Append(s, e) # <<>>
         /\ \A k \in 1 .. Len(s) : Append(s, e)[k] = s[k]
         /\ Append(s, e)[Len(s) + 1] = e
  BY AppendProperties, LenProperties

\* The driver stays well typed in every step of the connection.
LEMMA ConnectionType ==
  ASSUME TypeOK, EventTask \/ TimerTask \/ Driver
  PROVE  WifiTypeOK'
<1>0. WifiTypeOK
  BY DEF TypeOK
<1>1. CASE Join
  <2>1. [ip |-> config] \in Events
    BY <1>0 DEF WifiTypeOK, Events
  <2> QED
    BY <1>0, <1>1, <2>1, OneMoreEvent DEF WifiTypeOK, Join, Post, air
<1>2. CASE Refuse
  <2>1. PICK r \in Reasons : Post([reason |-> r, net |-> config])
    BY <1>2 DEF Refuse, Refusals, Reasons
  <2>2. [reason |-> r, net |-> config] \in Events
    BY <1>0 DEF WifiTypeOK, Events, Disconnections
  <2> QED
    BY <1>0, <1>2, <2>1, <2>2, OneMoreEvent DEF WifiTypeOK, Refuse, Post, air
<1>3. CASE Drop
  <2>1. PICK r \in Reasons : Post([reason |-> r, net |-> config])
    BY <1>3 DEF Drop, Reasons
  <2>2. [reason |-> r, net |-> config] \in Events
    BY <1>0 DEF WifiTypeOK, Events, Disconnections
  <2> QED
    BY <1>0, <1>3, <2>1, <2>2, OneMoreEvent DEF WifiTypeOK, Drop, Post, air
<1>4. CASE Move
  BY <1>0, <1>4 DEF WifiTypeOK, Move, driver
<1>5. CASE Disconnected
  <2>1. Head(events) \in Disconnections
    BY <1>0, <1>5, EventKinds, RestOfEvents DEF WifiTypeOK, Disconnected
  <2>2. events' \in Seq(Events) /\ Len(events') <= MaxEvents
    BY <1>0, <1>5, RestOfEvents DEF WifiTypeOK, Disconnected
  <2> QED
    BY <1>0, <1>5, <2>1, <2>2 DEF WifiTypeOK, Disconnected, WithConnected, air
<1>6. CASE ScheduleReconnect
  BY <1>0, <1>6 DEF WifiTypeOK, ScheduleReconnect, driver, air
<1>7. CASE GotIp
  <2>1. Head(events).ip \in Configs
    BY <1>0, <1>7, EventKinds, RestOfEvents DEF WifiTypeOK, GotIp
  <2>2. events' \in Seq(Events) /\ Len(events') <= MaxEvents
    BY <1>0, <1>7, RestOfEvents DEF WifiTypeOK, GotIp
  <2> QED
    BY <1>0, <1>7, <2>1, <2>2 DEF WifiTypeOK, GotIp, WithConnected, air
<1>8. CASE Fire
  BY <1>0, <1>8 DEF WifiTypeOK, Fire, driver, air
<1>9. CASE Reconnect
  BY <1>0, <1>9 DEF WifiTypeOK, Reconnect, Connect, air
<1> QED
  BY <1>1, <1>2, <1>3, <1>4, <1>5, <1>6, <1>7, <1>8, <1>9 DEF EventTask, TimerTask, Driver

\* Only an address makes the link come up.
LEMMA UpIsJoined ==
  ASSUME TypeOK, EventTask \/ TimerTask \/ Driver, link = "joining", link' = "up"
  PROVE  Join /\ config \in Networks
  BY DEF EventTask, TimerTask, Driver, Join, Refuse, Drop, Move, Disconnected, ScheduleReconnect,
         GotIp, Fire, Reconnect, Connect, TypeOK, WifiTypeOK, driver

\* The types, and the question on the screen.
Typed == TypeOK /\ ConsoleTypeOK /\ DialogInv

\* The event task, the timer and the driver keep types and dialog.
LEMMA ConnectionTyped ==
  ASSUME Typed, Connection
  PROVE  Typed'
<1>1. WifiTypeOK'
  BY ConnectionType DEF Typed, Connection
<1>2. joined' \subseteq Networks
  BY UpIsJoined DEF Typed, TypeOK, Connection
<1>3. TypeOK'
  BY <1>1, <1>2 DEF Typed, TypeOK, Connection, input
<1>4. ConsoleTypeOK' /\ console'.pc = console.pc /\ console'.then = console.then
      /\ console'.parked = console.parked
  BY DEF Typed, ConsoleTypeOK, Connection
<1>5. dialog' = dialog
  BY DEF Connection
<1>6. DialogInv'
  BY <1>4, <1>5 DEF Typed, DialogInv, Applying, ApplyingFor, At
<1> QED
  BY <1>3, <1>4, <1>6 DEF Typed

\* A person's line, and the task that reads the lines.
LEMMA RestOfLines ==
  ASSUME NEW s \in Seq(Lines), s # <<>>
  PROVE  /\ Head(s) \in Lines /\ Head(s) = s[1]
         /\ Tail(s) \in Seq(Lines) /\ Len(Tail(s)) = Len(s) - 1 /\ Len(s) \in Nat \ {0}
         /\ \A k \in 1 .. Len(Tail(s)) : Tail(s)[k] = s[k + 1]
  BY HeadTailProperties, LenProperties, EmptySeq

\* A line is typed.
LEMMA TypeTyped ==
  ASSUME Typed, Type
  PROVE  Typed'
<1>1. PICK t \in Texts : uart' = Append(uart, [text |-> t, at |-> dialog.state])
  BY DEF Type
<1>2. dialog.state \in DialogStates /\ uart \in Seq(Lines)
  BY DEF Typed, TypeOK
<1>3. [text |-> t, at |-> dialog.state] \in Lines
  BY <1>2 DEF Lines
<1>4. uart' \in Seq(Lines)
  BY <1>1, <1>2, <1>3, AppendProperties
<1>5. commands' \in 0 .. MaxCommands
  BY DEF Type, Typed, TypeOK
<1>6. WifiTypeOK'
  BY DEF Type, Typed, TypeOK, WifiTypeOK, wifiVars, driver, air
<1>7. TypeOK'
  BY <1>4, <1>5, <1>6 DEF Type, Typed, TypeOK, setup, history
<1> QED
  BY <1>7 DEF Type, Typed, ConsoleTypeOK, DialogInv, Applying, ApplyingFor, At, setup

\* After a reboot the console begins anew.
LEMMA RebootTyped ==
  ASSUME Typed, Reboot
  PROVE  Typed'
<1>1. WifiTypeOK'
  BY EmptySeq DEF Reboot, Typed, TypeOK, WifiTypeOK, LosePower, Off, Unwatched, Configs, air
<1>2. Resolved(file) \in Configs
  BY DEF Typed, TypeOK, Files, Resolved, StoredOf, Configs
<1>3. TypeOK'
  BY <1>1, <1>2, EmptySeq DEF Reboot, Typed, TypeOK, Closed, DialogStates, Fresh, Configs
<1>4. ConsoleTypeOK'
  BY <1>2 DEF Reboot, ConsoleAt, ConsoleTypeOK, Configs, Labels
<1>5. console'.pc \in {"read", "boot"} /\ console'.then = "read"
  BY DEF Reboot, ConsoleAt
<1>6. dialog'.state = "Idle"
  BY DEF Reboot, Closed
<1>7. DialogInv'
  BY <1>5, <1>6 DEF DialogInv, Applying, ApplyingFor, At
<1> QED
  BY <1>3, <1>4, <1>7 DEF Typed

\* What an action leaves alone stays well typed.
LEMMA WifiUnchanged ==
  ASSUME Typed, UNCHANGED wifiVars
  PROVE  WifiTypeOK'
  BY DEF Typed, TypeOK, WifiTypeOK, wifiVars, driver, air

\* Lines are taken from the driver.
LEMMA ReadTyped ==
  ASSUME Typed, Read
  PROVE  Typed'
<1>1. TypeOK'
  BY WifiUnchanged, EmptySeq DEF Read, Typed, TypeOK, setup, history
<1> QED
  BY <1>1 DEF Read, Typed, ConsoleTypeOK, DialogInv, Applying, ApplyingFor, At, setup

\* Each answer leads to the question or the work that follows it.
LEMMA OnLineTyped ==
  ASSUME Typed, OnLine
  PROVE  Typed'
<1>0. At("read") /\ console.then = "read"
  BY DEF OnLine, Hear, Typed, DialogInv, Applying, At
<1>1. chunk' \in Seq(Lines) /\ Line \in Texts
  BY RestOfLines DEF OnLine, Hear, Line, Lines, Typed, TypeOK
<1>2. WifiTypeOK'
  BY WifiUnchanged DEF OnLine
<1>3. ASSUME dialog' \in [state : DialogStates, pending : Configs] PROVE TypeOK'
  BY <1>1, <1>2, <1>3 DEF OnLine, Hear, Typed, TypeOK, history
<1>4. CASE Command
  <2>1. dialog' \in [state : DialogStates, pending : Configs]
    BY <1>4 DEF Command, Closed, Typed, TypeOK, DialogStates, Configs
  <2>2. ConsoleTypeOK'
    BY <1>4 DEF Command, Goto, Typed, ConsoleTypeOK, Labels
  <2>3. DialogInv'
    BY <1>0, <1>4 DEF Command, Goto, Closed, Typed, TypeOK, ConsoleTypeOK, DialogInv, Applying, ApplyingFor, At
  <2> QED
    BY <1>3, <2>1, <2>2, <2>3 DEF Typed
<1>5. CASE Name
  <2>1. dialog' \in {Closed, [state |-> "AskPassword", pending |-> Line], dialog}
        /\ (dialog'.state = "AskPassword" => dialog'.pending \in Names)
    <3>1. CASE Line = ""
      BY <1>5, <3>1 DEF Name, Closed
    <3>2. CASE Line # "" /\ Line \in Names
      BY <1>5, <3>2 DEF Name, Closed
    <3>3. CASE Line # "" /\ Line \notin Names
      BY <1>5, <3>3 DEF Name, Closed
    <3> QED
      BY <3>1, <3>2, <3>3
  <2>2. dialog' \in [state : DialogStates, pending : Configs]
    BY <2>1 DEF Closed, Typed, TypeOK, DialogStates, Configs
  <2>3. DialogInv'
    BY <1>0, <1>5, <2>1 DEF Name, Closed, Typed, DialogInv, Applying, ApplyingFor, At
  <2> QED
    BY <1>3, <1>5, <2>2, <2>3 DEF Name, Typed, ConsoleTypeOK
<1>6. CASE Password
  <2>1. dialog' \in [state : DialogStates, pending : Configs]
    BY <1>6 DEF Password, Typed, TypeOK, DialogStates
  <2>2. ConsoleTypeOK'
    BY <1>6 DEF Password, Goto, Typed, ConsoleTypeOK, Labels
  <2>3. DialogInv'
    BY <1>0, <1>6 DEF Password, Goto, Typed, TypeOK, ConsoleTypeOK, DialogInv, Applying, ApplyingFor, At
  <2> QED
    BY <1>3, <2>1, <2>2, <2>3 DEF Typed
<1>7. CASE Answer
  <2>1. dialog' \in [state : DialogStates, pending : Configs]
    BY <1>7 DEF Answer, Typed, TypeOK, DialogStates
  <2>2. ConsoleTypeOK'
    BY <1>7 DEF Answer, Apply, Typed, ConsoleTypeOK, Labels
  <2>3. DialogInv'
    BY <1>0, <1>7 DEF Answer, Apply, Typed, TypeOK, ConsoleTypeOK, DialogInv, Applying, ApplyingFor, At
  <2> QED
    BY <1>3, <2>1, <2>2, <2>3 DEF Typed
<1> QED
  BY <1>4, <1>5, <1>6, <1>7 DEF OnLine

\* The driver is started, or was not.
LEMMA StartDriverTyped ==
  ASSUME Typed, StartDriver
  PROVE  Typed'
<1>1. WifiTypeOK'
  BY DEF StartDriver, Start, Connect, Typed, TypeOK, WifiTypeOK, air
<1>2. TypeOK'
  BY <1>1 DEF StartDriver, Typed, TypeOK, KeepInput, input, history
<1>3. ConsoleTypeOK'
  BY DEF StartDriver, Typed, ConsoleTypeOK, Labels
<1>4. console'.then = console.then /\ console'.parked = console.parked
      /\ (At("boot") => console'.pc = "read") /\ (At("start") => console'.pc \in {"wait", "park"})
      /\ (At("boot") \/ At("start")) /\ dialog' = dialog
  BY DEF StartDriver, Typed, ConsoleTypeOK, At
<1>5. DialogInv'
  BY <1>4 DEF Typed, DialogInv, Applying, ApplyingFor, At
<1> QED
  BY <1>2, <1>3, <1>5 DEF Typed

\* applyCredentials() returns where it was called.
LEMMA ApplyTyped ==
  ASSUME Typed, ApplyCredentials \/ ApplyLeave \/ ApplyJoin
  PROVE  Typed'
<1>1. WifiTypeOK'
  <2>1. CASE ApplyCredentials
    BY ZenonT(40), <2>1, WifiUnchanged DEF ApplyCredentials, Silence, Typed, TypeOK, WifiTypeOK, driver, air
  <2>2. CASE ApplyLeave
    <3>1. CASE UNCHANGED driver
      BY <2>2, <3>1, WifiUnchanged DEF ApplyLeave, Leave, wifiVars
    <3>2. CASE link' = "down" /\ Post([reason |-> "assocLeave", net |-> config]) /\ UNCHANGED config
      <4>1. [reason |-> "assocLeave", net |-> config] \in Events
        BY DEF Typed, TypeOK, WifiTypeOK, Events, Disconnections, Reasons
      <4> QED
        BY <2>2, <3>2, <4>1, OneMoreEvent DEF ApplyLeave, Leave, Post, Typed, TypeOK, WifiTypeOK, air
    <3> QED
      BY <2>2, <3>1, <3>2 DEF ApplyLeave, Leave, Disconnect
  <2>3. CASE ApplyJoin
    BY <2>3 DEF ApplyJoin, JoinOther, Connect, Typed, TypeOK, ConsoleTypeOK, WifiTypeOK, driver, air
  <2> QED
    BY <2>1, <2>2, <2>3
<1>2. TypeOK'
  BY <1>1 DEF ApplyCredentials, ApplyLeave, ApplyJoin, Typed, TypeOK, ConsoleTypeOK, KeepInput, input, history
<1>3. ConsoleTypeOK'
  <2>1. console' = [console EXCEPT !.pc = "leave"] \/ console' = [console EXCEPT !.pc = "join"] \/ Return
    BY DEF ApplyCredentials, ApplyLeave, ApplyJoin, Goto
  <2>2. CASE Return
    BY <2>2 DEF Return, Typed, ConsoleTypeOK, Labels, Configs
  <2> QED
    BY <2>1, <2>2 DEF Typed, ConsoleTypeOK, Labels
<1>4. Applying /\ console'.parked = console.parked /\ dialog' = dialog
      /\ \/ console'.pc \in {"leave", "join"} /\ console'.then = console.then
         \/ console'.pc = console.then /\ console'.then = "read"
  BY DEF ApplyCredentials, ApplyLeave, ApplyJoin, Goto, Return, Typed, ConsoleTypeOK, Applying, At
<1>5. console.then \in {"read", "wait", "start", "failed", "unpark"} /\ console.pc \in Labels
  BY DEF Typed, ConsoleTypeOK
<1>6. DialogInv'
  BY <1>4, <1>5 DEF Typed, DialogInv, Applying, ApplyingFor, At
<1> QED
  BY <1>2, <1>3, <1>6 DEF Typed

\* The steps of tryConnect().
LEMMA AttemptTyped ==
  ASSUME Typed, Begin \/ WaitConnected \/ WaitFailed \/ WaitTimeout \/ Park \/ Failed \/ Succeeded
  PROVE  Typed'
<1>0. verdict.wrongPassword \in 0 .. 1 /\ verdict.notFound \in 0 .. 1
  BY DEF Typed, TypeOK
<1>1. CASE Begin
  <2>1. WifiTypeOK'
    <3>1. attempt' = [watched |-> TRUE, connected |-> NoNetwork, failed |-> NoEvent]
      BY <1>1 DEF Begin, BeginAttempt, Unwatched
    <3> QED
      BY <1>1, <3>1 DEF Begin, Typed, TypeOK, WifiTypeOK, driver, air, Configs
  <2>2. TypeOK'
    BY <1>1, <2>1 DEF Begin, Typed, TypeOK, KeepInput, input, history
  <2>3. ConsoleTypeOK'
    BY <1>1 DEF Begin, Apply, Typed, TypeOK, ConsoleTypeOK, Labels, Quiet
  <2>4. console'.pc = "apply" /\ console'.then \in {"wait", "start"} /\ dialog' = dialog /\ At("begin")
    BY <1>1 DEF Begin, Apply, Typed, ConsoleTypeOK
  <2>5. DialogInv'
    BY <2>4 DEF Typed, DialogInv, Applying, ApplyingFor, At
  <2> QED
    BY <2>2, <2>3, <2>5 DEF Typed
<1>2. CASE WaitConnected
  <2>1. WifiTypeOK'
    BY ZenonT(40), <1>2 DEF WaitConnected, Taken, Typed, TypeOK, WifiTypeOK, driver, air, Configs
  <2>2. TypeOK'
    BY <1>2, <2>1 DEF WaitConnected, Fresh, Typed, TypeOK, KeepInput, input, history
  <2>3. ConsoleTypeOK'
    BY <1>2 DEF WaitConnected, Goto, Typed, ConsoleTypeOK, Labels
  <2>5. DialogInv'
    BY <1>2 DEF WaitConnected, Goto, Typed, ConsoleTypeOK, DialogInv, Applying, ApplyingFor, At
  <2> QED
    BY <2>2, <2>3, <2>5 DEF Typed
<1>3. CASE WaitFailed
  <2>1. WifiTypeOK'
    BY ZenonT(40), <1>3 DEF WaitFailed, Taken, Typed, TypeOK, WifiTypeOK, driver, air, Configs
  <2>2. verdict' \in [wrongPassword : 0 .. 1, notFound : 0 .. 1]
    BY <1>0, <1>3 DEF WaitFailed, Judged, Final, Fresh
  <2>3. TypeOK'
    BY <1>3, <2>1, <2>2 DEF WaitFailed, Typed, TypeOK, KeepInput, input, history
  <2>4. console' \in {console, [console EXCEPT !.pc = "park"]}
    BY <1>3 DEF WaitFailed, Goto
  <2>5. ConsoleTypeOK'
    BY <2>4 DEF Typed, ConsoleTypeOK, Labels
  <2>6. DialogInv'
    BY <1>3, <2>4 DEF WaitFailed, Typed, ConsoleTypeOK, DialogInv, Applying, ApplyingFor, At
  <2> QED
    BY <2>3, <2>5, <2>6 DEF Typed
<1>4. CASE WaitTimeout
  <2>2. TypeOK'
    BY <1>4, WifiUnchanged DEF WaitTimeout, Fresh, Typed, TypeOK, KeepInput, input, history
  <2>3. ConsoleTypeOK'
    BY <1>4 DEF WaitTimeout, Goto, Typed, ConsoleTypeOK, Labels
  <2>5. DialogInv'
    BY <1>4 DEF WaitTimeout, Goto, Typed, ConsoleTypeOK, DialogInv, Applying, ApplyingFor, At
  <2> QED
    BY <2>2, <2>3, <2>5 DEF Typed
<1>5. CASE Park
  <2>2. TypeOK'
    BY <1>5, WifiUnchanged DEF Park, Typed, TypeOK, KeepInput, input, history
  <2>3. ConsoleTypeOK'
    BY <1>5 DEF Park, Apply, Typed, ConsoleTypeOK, Labels, Configs
  <2>4. console'.pc = "apply" /\ console'.then = "failed" /\ console'.parked /\ dialog' = dialog
        /\ At("park")
    BY <1>5 DEF Park, Apply, Typed, ConsoleTypeOK
  <2>5. DialogInv'
    BY <2>4 DEF Typed, DialogInv, Applying, ApplyingFor, At
  <2> QED
    BY <2>2, <2>3, <2>5 DEF Typed
<1>6. CASE Failed
  <2>2. TypeOK'
    BY <1>6, WifiUnchanged, EmptySeq DEF Failed, DiscardInput, Typed, TypeOK, DialogStates, history
  <2>3. ConsoleTypeOK'
    BY <1>6 DEF Failed, Goto, Typed, ConsoleTypeOK, Labels
  <2>5. DialogInv'
    BY <1>6 DEF Failed, Goto, Typed, TypeOK, ConsoleTypeOK, DialogInv, Applying, ApplyingFor, At
  <2> QED
    BY <2>2, <2>3, <2>5 DEF Typed
<1>7. CASE Succeeded
  <2>2. TypeOK'
    BY <1>7, WifiUnchanged, EmptySeq DEF Succeeded, DiscardInput, Typed, TypeOK, DialogStates, history
  <2>3. ConsoleTypeOK'
    BY <1>7 DEF Succeeded, Goto, Typed, ConsoleTypeOK, Labels
  <2>5. DialogInv'
    BY <1>7 DEF Succeeded, Goto, Typed, TypeOK, ConsoleTypeOK, DialogInv, Applying, ApplyingFor, At
  <2> QED
    BY <2>2, <2>3, <2>5 DEF Typed
<1> QED
  BY <1>1, <1>2, <1>3, <1>4, <1>5, <1>6, <1>7

\* The steps of runAction().
LEMMA SaveTyped ==
  ASSUME Typed, WriteAside \/ Rename \/ SaveFails \/ Unpark \/ Clear
  PROVE  Typed'
<1>1. WifiTypeOK'
  BY WifiUnchanged DEF WriteAside, Rename, SaveFails, Unpark, Clear
<1>2. file' \in Files
  <2>1. CASE Rename
    BY <2>1 DEF Rename, Replace, Typed, DialogInv, Files, At
  <2>2. CASE Clear
    BY <2>2 DEF Clear, Forget, Typed, TypeOK, Files
  <2> QED
    BY <2>1, <2>2 DEF WriteAside, SaveFails, Unpark, Typed, TypeOK
<1>3. dialog' \in {dialog, Closed} /\ (dialog' = Closed => dialog'.state = "Idle")
      /\ dialog' \in [state : DialogStates, pending : Configs]
  BY DEF WriteAside, Rename, SaveFails, Unpark, Clear, Typed, TypeOK, Closed, DialogStates, Configs
<1>4. TypeOK'
  BY <1>1, <1>2, <1>3 DEF WriteAside, Rename, SaveFails, Unpark, Clear, Typed, TypeOK, KeepInput, input, history
<1>5. CASE WriteAside
  <2>1. ConsoleTypeOK'
    BY <1>5 DEF WriteAside, Goto, Typed, ConsoleTypeOK, Labels
  <2>2. DialogInv'
    BY <1>5 DEF WriteAside, Goto, Typed, ConsoleTypeOK, DialogInv, Applying, ApplyingFor, At
  <2> QED
    BY <1>4, <2>1, <2>2 DEF Typed
<1>6. CASE Rename
  <2>1. dialog.pending \in Configs
    BY DEF Typed, TypeOK
  <2>4. At("rename")
    BY <1>6 DEF Rename
  <2>2. ASSUME console.parked PROVE ConsoleTypeOK' /\ DialogInv'
    <3>1. console' = [Apply(dialog.pending, "unpark") EXCEPT !.inUse = dialog.pending] /\ dialog' = dialog
      BY <1>6, <2>2 DEF Rename
    <3>2. ConsoleTypeOK'
      BY <2>1, <3>1 DEF Apply, Typed, ConsoleTypeOK, Labels
    <3>3. console'.pc = "apply" /\ console'.then = "unpark"
      BY <3>1 DEF Apply, Typed, ConsoleTypeOK
    <3> QED
      BY <3>1, <3>2, <3>3, <2>4 DEF Typed, DialogInv, Applying, ApplyingFor, At
  <2>3. ASSUME ~console.parked PROVE ConsoleTypeOK' /\ DialogInv'
    <3>1. console' = [Resting(console) EXCEPT !.inUse = dialog.pending] /\ dialog' = Closed
      BY <1>6, <2>3 DEF Rename
    <3>2. ConsoleTypeOK'
      BY <2>1, <3>1 DEF Resting, Typed, ConsoleTypeOK, Labels, Configs
    <3>3. console'.pc = "read" /\ console'.then = console.then /\ dialog'.state = "Idle"
      BY <3>1 DEF Resting, Closed, Typed, ConsoleTypeOK
    <3> QED
      BY <3>1, <3>2, <3>3, <2>4 DEF Typed, DialogInv, Applying, ApplyingFor, At
  <2> QED
    BY <1>4, <2>2, <2>3 DEF Typed
<1>7. CASE SaveFails
  <2>1. console.beforeAttempt \in Configs
    BY DEF Typed, ConsoleTypeOK
  <2>4. At("save") \/ At("rename")
    BY <1>7 DEF SaveFails
  <2>2. ASSUME console.parked PROVE ConsoleTypeOK' /\ DialogInv'
    <3>1. console' = Apply(console.beforeAttempt, "unpark") /\ dialog' = dialog
      BY <1>7, <2>2 DEF SaveFails
    <3>2. ConsoleTypeOK'
      BY <2>1, <3>1 DEF Apply, Typed, ConsoleTypeOK, Labels
    <3>3. console'.pc = "apply" /\ console'.then = "unpark"
      BY <3>1 DEF Apply, Typed, ConsoleTypeOK
    <3> QED
      BY <3>1, <3>2, <3>3, <2>4 DEF Typed, DialogInv, Applying, ApplyingFor, At
  <2>3. ASSUME ~console.parked PROVE ConsoleTypeOK' /\ DialogInv'
    <3>1. console' = Resting(console) /\ dialog' = Closed
      BY <1>7, <2>3 DEF SaveFails
    <3>2. ConsoleTypeOK'
      BY <2>1, <3>1 DEF Resting, Typed, ConsoleTypeOK, Labels, Configs
    <3>3. console'.pc = "read" /\ console'.then = console.then /\ dialog'.state = "Idle"
      BY <3>1 DEF Resting, Closed, Typed, ConsoleTypeOK
    <3> QED
      BY <3>1, <3>2, <3>3, <2>4 DEF Typed, DialogInv, Applying, ApplyingFor, At
  <2> QED
    BY <1>4, <2>2, <2>3 DEF Typed
<1>8. CASE Unpark
  <2>1. ConsoleTypeOK'
    BY <1>8 DEF Unpark, Resting, Typed, ConsoleTypeOK, Labels, Configs
  <2>2. DialogInv'
    BY <1>8 DEF Unpark, Resting, Closed, Typed, ConsoleTypeOK, DialogInv, Applying, ApplyingFor, At
  <2> QED
    BY <1>4, <2>1, <2>2 DEF Typed
<1>9. CASE Clear
  <2>1. ConsoleTypeOK'
    BY <1>9 DEF Clear, Goto, Typed, ConsoleTypeOK, Labels
  <2>2. DialogInv'
    BY <1>9 DEF Clear, Goto, Typed, ConsoleTypeOK, DialogInv, Applying, ApplyingFor, At
  <2> QED
    BY <1>4, <2>1, <2>2 DEF Typed
<1> QED
  BY <1>5, <1>6, <1>7, <1>8, <1>9

\* A device that has just booted is well typed.
LEMMA InitTyped ==
  ASSUME Init
  PROVE  Typed
<1>1. WifiTypeOK
  BY EmptySeq DEF Init, WifiTypeOK, PowerOff, Off, Unwatched, Configs
<1>2. file \in Files /\ Resolved(file) \in Configs
  BY DEF Init, Files, Resolved, StoredOf, Configs
<1>3. TypeOK
  BY <1>1, <1>2, EmptySeq DEF Init, TypeOK, Closed, DialogStates, Fresh, Configs
<1>4. ConsoleTypeOK
  BY <1>2 DEF Init, ConsoleAt, ConsoleTypeOK, Configs, Labels
<1>5. console.pc \in {"read", "boot"} /\ console.then = "read" /\ dialog.state = "Idle"
  BY DEF Init, ConsoleAt, Closed
<1>6. DialogInv
  BY <1>5 DEF DialogInv, Applying, ApplyingFor, At
<1> QED
  BY <1>3, <1>4, <1>6 DEF Typed

\* Every step keeps types and dialog.
LEMMA NextTyped ==
  ASSUME Typed, [Next]_vars
  PROVE  Typed'
<1>1. CASE Next
  BY <1>1, ConnectionTyped, TypeTyped, RebootTyped, ReadTyped, OnLineTyped, StartDriverTyped, ApplyTyped,
     AttemptTyped, SaveTyped DEF Next, Console
<1>2. CASE UNCHANGED vars
  <2>1. TypeOK'
    BY <1>2, WifiUnchanged DEF Typed, TypeOK, vars, setup, input, history
  <2> QED
    BY <1>2, <2>1 DEF Typed, ConsoleTypeOK, DialogInv, Applying, ApplyingFor, At, vars, setup
<1> QED
  BY <1>1, <1>2
-----------------------------------------------------------------------------
(* The driver, and who has started it                                      *)

\* Nothing is on its way.
Undriven == link = "down" /\ events = <<>> /\ handler = NoEvent /\ timer = "off"

\* The connection does nothing before the driver was started.
LEMMA NotStarted ==
  ASSUME Undriven, EventTask \/ TimerTask \/ Driver
  PROVE  Move
  BY DEF Undriven, EventTask, TimerTask, Driver, Join, Refuse, Drop, Move, Disconnected, ScheduleReconnect,
         GotIp, Fire, Reconnect

\* Where the console can be after a step, and what it does to the driver meanwhile.
LEMMA DriverNext ==
  ASSUME Typed, DriverInv, [Next]_vars
  PROVE  DriverInv'
<1>0. /\ console \in [pc : Labels, net : Configs, then : {"read", "wait", "start", "failed", "unpark"},
                      inUse : Configs, beforeAttempt : Configs, parked : BOOLEAN, tried : BOOLEAN,
                      clean : BOOLEAN]
      /\ wifi \in [started : BOOLEAN, idle : BOOLEAN, expectLeave : BOOLEAN, connected : BOOLEAN,
                   taskCreated : BOOLEAN]
      /\ ~Applying => console.then = "read"
  BY DEF Typed, ConsoleTypeOK, TypeOK, WifiTypeOK, DialogInv
<1>1. ASSUME UNCHANGED <<wifiVars, console>> PROVE DriverInv'
  BY <1>1 DEF DriverInv, wifiVars, driver, Applying, ApplyingFor, At
<1>2. CASE Connection
  <2>1. /\ wifi'.started = wifi.started /\ console'.pc = console.pc /\ console'.then = console.then
    BY <1>0, <1>2 DEF Connection, EventTask, TimerTask, Driver, Join, Refuse, Drop, Move, Disconnected,
       WithConnected, ScheduleReconnect, GotIp, Fire, Reconnect
  <2>2. ~wifi.started => UNCHANGED <<link, events, handler, timer>>
    BY <1>2, NotStarted DEF DriverInv, Undriven, Connection, Move, driver
  <2> QED
    BY <2>1, <2>2 DEF DriverInv, Applying, ApplyingFor, At
<1>3. CASE StartDriver
  <2>1. UNCHANGED <<events, handler, timer>>
    BY <1>3 DEF StartDriver, Start
  <2>2. wifi'.started \/ (UNCHANGED <<wifi, link>>)
    BY <1>0, <1>3 DEF StartDriver, Start
  <2>3. console'.pc \in {"read", "park"} \/ (console'.pc = "wait" /\ wifi'.started)
    BY <1>0, <1>3 DEF StartDriver
  <2> QED
    BY <2>1, <2>2, <2>3 DEF DriverInv, Applying, ApplyingFor, At
<1>4. CASE Reboot
  <2>1. console'.pc \in {"read", "boot"}
    BY <1>4 DEF Reboot, ConsoleAt
  <2>2. ~wifi'.started /\ link' = "down" /\ events' = <<>> /\ handler' = NoEvent /\ timer' = "off"
    BY <1>4 DEF Reboot, LosePower, Off
  <2> QED
    BY <2>1, <2>2 DEF DriverInv, Applying, ApplyingFor, At
<1>5. CASE Type
  BY <1>1, <1>5 DEF Type, setup
<1>6. CASE Read
  BY <1>1, <1>6 DEF Read, setup
<1>7. CASE OnLine
  <2>1. console'.pc \in {console.pc, "clear", "begin", "save"} \/ (console'.pc = "apply" /\ console'.then = "unpark")
    BY <1>0, <1>7 DEF OnLine, Command, Name, Password, Answer, Goto, Apply
  <2>2. At("read") /\ UNCHANGED wifiVars
    BY <1>7 DEF OnLine, Hear
  <2> QED
    BY <2>1, <2>2 DEF DriverInv, wifiVars, driver, Applying, ApplyingFor, At
<1>8. CASE ApplyCredentials
  <2>1. CASE wifi.started
    <3>1. wifi'.started /\ console'.pc = "leave" /\ console'.then = console.then
      BY <1>0, <1>8, <2>1 DEF ApplyCredentials, Silence, Goto
    <3>2. console.then # "start"
      BY <1>8, <2>1 DEF ApplyCredentials, DriverInv, Applying, ApplyingFor, At
    <3> QED
      BY <3>1, <3>2 DEF DriverInv, Applying, ApplyingFor, At
  <2>2. CASE ~wifi.started
    <3>1. UNCHANGED wifiVars /\ console'.pc = console.then /\ console'.then = "read"
      BY <1>0, <1>8, <2>2 DEF ApplyCredentials, Return
    <3>2. console.then \notin {"wait", "leave", "join", "boot"}
      BY <1>0, <1>8, <2>2 DEF ApplyCredentials, DriverInv, Applying, ApplyingFor, At
    <3> QED
      BY <2>2, <3>1, <3>2 DEF DriverInv, wifiVars, driver, Applying, ApplyingFor, At
  <2> QED
    BY <2>1, <2>2
<1>9. CASE ApplyLeave \/ ApplyJoin
  <2>1. wifi.started /\ Applying
    BY <1>9 DEF ApplyLeave, ApplyJoin, DriverInv, Applying, At
  <2>2. wifi' = wifi
    BY <1>9 DEF ApplyLeave, ApplyJoin, Leave, JoinOther
  <2>3. \/ console'.pc = "join" /\ console'.then = console.then
        \/ console'.pc = console.then /\ console'.then = "read"
    BY <1>0, <1>9 DEF ApplyLeave, ApplyJoin, Goto, Return
  <2>4. console.then \notin {"boot", "start"}
    BY <1>0, <2>1 DEF DriverInv, ApplyingFor
  <2> QED
    BY <2>1, <2>2, <2>3, <2>4 DEF DriverInv, Applying, ApplyingFor, At
<1>10. CASE Begin
  <2>1. console'.pc = "apply" /\ console'.then = IF wifi.started THEN "wait" ELSE "start"
    BY <1>0, <1>10 DEF Begin, Apply
  <2> QED
    BY <1>10, <2>1 DEF Begin, DriverInv, driver, Applying, ApplyingFor, At
<1>11. CASE WaitConnected \/ WaitFailed \/ WaitTimeout
  <2>1. console'.pc \in {console.pc, "succeeded", "park"} /\ console'.then = console.then
    BY <1>0, <1>11 DEF WaitConnected, WaitFailed, WaitTimeout, Goto
  <2>2. At("wait") /\ UNCHANGED <<link, events, handler, timer, wifi>>
    BY <1>11 DEF WaitConnected, WaitFailed, WaitTimeout, wifiVars, driver
  <2> QED
    BY <2>1, <2>2 DEF DriverInv, Applying, ApplyingFor, At
<1>12. CASE Park
  <2>1. console'.pc = "apply" /\ console'.then = "failed" /\ UNCHANGED wifiVars
    BY <1>0, <1>12 DEF Park, Apply
  <2> QED
    BY <2>1 DEF DriverInv, wifiVars, driver, Applying, ApplyingFor, At
<1>13. CASE Failed \/ Succeeded \/ WriteAside \/ Clear
  <2>1. console'.pc \in {"read", "save", "rename"} /\ UNCHANGED wifiVars
    BY <1>0, <1>13 DEF Failed, Succeeded, WriteAside, Clear, Goto
  <2> QED
    BY <2>1 DEF DriverInv, wifiVars, driver, Applying, ApplyingFor, At
<1>14. CASE Rename \/ SaveFails \/ Unpark
  <2>1. UNCHANGED wifiVars
    BY <1>14 DEF Rename, SaveFails, Unpark
  <2>2. console'.pc = "read" \/ (console'.pc = "apply" /\ console'.then = "unpark")
    BY ZenonT(40), <1>0, <1>14 DEF Rename, SaveFails, Unpark, Apply, Resting
  <2> QED
    BY <2>1, <2>2 DEF DriverInv, wifiVars, driver, Applying, ApplyingFor, At
<1>15. CASE UNCHANGED vars
  BY <1>1, <1>15 DEF vars, setup
<1> QED
  BY <1>2, <1>3, <1>4, <1>5, <1>6, <1>7, <1>8, <1>9, <1>10, <1>11, <1>12, <1>13, <1>14, <1>15 DEF Next, Console
-----------------------------------------------------------------------------
(* A connection that is down comes up again                                *)

\* What is posted last is the newest.
LEMMA NewestPosted ==
  ASSUME NEW s \in Seq(Events), NEW e \in Events
  PROVE  Append(s, e) # <<>> /\ Newest(Append(s, e)) = e
  BY OneMoreEvent DEF Newest

\* The newest event is handled last.
LEMMA NewestStays ==
  ASSUME NEW s \in Seq(Events), s # <<>>
  PROVE  /\ Tail(s) # <<>> => Newest(Tail(s)) = Newest(s)
         /\ Tail(s) = <<>> => Newest(s) = Head(s)
<1>1. Len(Tail(s)) = Len(s) - 1 /\ Len(s) \in Nat \ {0} /\ Head(s) = s[1] /\ Tail(s) \in Seq(Events)
      /\ \A k \in 1 .. Len(Tail(s)) : Tail(s)[k] = s[k + 1]
  BY RestOfEvents
<1>2. ASSUME Tail(s) # <<>> PROVE Newest(Tail(s)) = Newest(s)
  <2>1. Len(Tail(s)) # 0
    BY <1>1, <1>2, EmptySeq
  <2>2. Len(Tail(s)) \in 1 .. Len(Tail(s)) /\ Len(Tail(s)) + 1 = Len(s)
    BY <1>1, <2>1
  <2> QED
    BY <1>1, <2>2 DEF Newest
<1>3. ASSUME Tail(s) = <<>> PROVE Newest(s) = Head(s)
  <2>1. Len(Tail(s)) = 0
    BY <1>3, EmptySeq
  <2>2. Len(Tail(s)) = Len(s) - 1 /\ Len(s) \in Nat
    BY <1>1
  <2>3. Len(s) = 1
    BY <2>1, <2>2
  <2> QED
    BY <1>1, <2>3 DEF Newest
<1> QED
  BY <1>2, <1>3

\* Told of: the newest event says that the connection ended, and not that we left.
ToldOf == events # <<>> /\ ~IsIp(Newest(events)) /\ Newest(events).reason # "assocLeave"

\* What the connection itself does while it is down.
LEMMA ConnectionOnItsWay ==
  ASSUME Typed, OnItsWay, ~ApLeaves, ~ConnectCanFail, Connection
  PROVE  OnItsWay'
<1>0. WifiTypeOK /\ console'.pc = console.pc
  BY DEF Typed, TypeOK, ConsoleTypeOK, Connection
<1>1. SUFFICES ASSUME (wifi.started /\ ~wifi.idle /\ link = "down")',
                      ~(timer' # "off" \/ handler' # NoEvent \/ console'.pc \in {"leave", "join"})
               PROVE  ToldOf'
  BY DEF OnItsWay, ToldOf
<1>2. wifi.started /\ ~wifi.idle
  BY <1>0, <1>1 DEF Connection, EventTask, TimerTask, Driver, Join, Refuse, Drop, Move, Disconnected,
     WithConnected, ScheduleReconnect, GotIp, Fire, Reconnect, WifiTypeOK
<1>3. CASE Join \/ ScheduleReconnect \/ Fire
  BY <1>1, <1>3 DEF Join, ScheduleReconnect, Fire
<1>4. CASE Refuse \/ Drop
  <2>1. PICK r \in {"notFound", "auth", "other"} : Post([reason |-> r, net |-> config])
    BY <1>4 DEF Refuse, Drop, Refusals
  <2>2. [reason |-> r, net |-> config] \in Disconnections
    BY <1>0 DEF WifiTypeOK, Disconnections, Reasons
  <2>3. [reason |-> r, net |-> config] \in Events /\ [reason |-> r, net |-> config].reason = r
    BY <2>2 DEF Events
  <2>4. ~IsIp([reason |-> r, net |-> config])
    BY DEF IsIp
  <2>5. events' # <<>> /\ Newest(events') = [reason |-> r, net |-> config]
    BY <1>0, <2>1, <2>3, NewestPosted DEF Post, WifiTypeOK
  <2> QED
    BY <2>1, <2>3, <2>4, <2>5 DEF ToldOf, Newest
<1>5. CASE Move
  <2>1. UNCHANGED <<link, events, handler, timer>>
    BY <1>5 DEF Move, driver
  <2> QED
    BY <1>0, <1>1, <1>2, <2>1 DEF OnItsWay, ToldOf, Newest
<1>6. CASE Disconnected
  <2>1. Head(events) \in Disconnections /\ Head(events).reason \in Reasons
    BY <1>0, <1>6, EventKinds, RestOfEvents DEF WifiTypeOK, Disconnected
  <2>2. Head(events) # NoEvent
    BY <2>1 DEF NoEvent, Reasons
  <2>3. Head(events).reason = "assocLeave"
    BY <1>1, <1>2, <1>6, <2>2 DEF Disconnected
  <2>4. ToldOf
    BY <1>0, <1>1, <1>2, <1>6 DEF OnItsWay, ToldOf, Disconnected
  <2>5. Tail(events) # <<>> /\ Newest(Tail(events)) = Newest(events)
    BY <1>0, <2>3, <2>4, NewestStays DEF ToldOf, WifiTypeOK
  <2> QED
    BY <1>6, <2>4, <2>5 DEF ToldOf, Disconnected, Newest
<1>7. CASE GotIp
  <2>1. ToldOf
    BY <1>0, <1>1, <1>2, <1>7 DEF OnItsWay, ToldOf, GotIp
  <2>2. Tail(events) # <<>> /\ Newest(Tail(events)) = Newest(events)
    BY <1>0, <1>7, <2>1, NewestStays DEF ToldOf, GotIp, WifiTypeOK
  <2> QED
    BY <1>7, <2>1, <2>2 DEF ToldOf, GotIp, Newest
<1>8. CASE Reconnect
  BY <1>0, <1>1, <1>8 DEF Reconnect, Connect, WifiTypeOK
<1> QED
  BY <1>3, <1>4, <1>5, <1>6, <1>7, <1>8 DEF Connection, EventTask, TimerTask, Driver

\* So does everything else: only our own leave ends a connection untold, and it is followed by a join.
LEMMA OnItsWayNext ==
  ASSUME Typed, OnItsWay, ~ApLeaves, ~ConnectCanFail, [Next]_vars
  PROVE  OnItsWay'
<1>0. /\ console \in [pc : Labels, net : Configs, then : {"read", "wait", "start", "failed", "unpark"},
                      inUse : Configs, beforeAttempt : Configs, parked : BOOLEAN, tried : BOOLEAN,
                      clean : BOOLEAN]
      /\ wifi \in [started : BOOLEAN, idle : BOOLEAN, expectLeave : BOOLEAN, connected : BOOLEAN,
                   taskCreated : BOOLEAN]
      /\ link \in {"down", "joining", "up"}
  BY DEF Typed, ConsoleTypeOK, TypeOK, WifiTypeOK
<1>1. ASSUME UNCHANGED <<link, events, handler, timer, wifi>>, console.pc \notin {"leave", "join"}
      PROVE  OnItsWay'
  BY <1>1 DEF OnItsWay, Newest
<1>2. CASE Connection
  BY <1>2, ConnectionOnItsWay
<1>3. CASE StartDriver
  BY <1>0, <1>1, <1>3 DEF StartDriver, Start, Connect, OnItsWay, At
<1>4. CASE Reboot
  BY <1>4 DEF Reboot, LosePower, Off, OnItsWay
<1>5. CASE UNCHANGED <<wifiVars, console>>
  BY <1>5 DEF OnItsWay, wifiVars, driver, Newest
<1>6. CASE ApplyCredentials
  BY <1>0, <1>1, <1>6 DEF ApplyCredentials, Goto, OnItsWay, wifiVars, driver, At
<1>7. CASE ApplyLeave
  BY <1>0, <1>7 DEF ApplyLeave, Leave, Goto, OnItsWay
<1>8. CASE ApplyJoin
  BY <1>0, <1>8 DEF ApplyJoin, JoinOther, Connect, OnItsWay, driver
<1>9. CASE OnLine \/ Begin \/ WaitConnected \/ WaitFailed \/ WaitTimeout \/ Park \/ Failed \/ Succeeded
           \/ WriteAside \/ Rename \/ SaveFails \/ Unpark \/ Clear
  BY <1>1, <1>9 DEF OnLine, Hear, Begin, WaitConnected, WaitFailed, WaitTimeout, Park, Failed, Succeeded,
     WriteAside, Rename, SaveFails, Unpark, Clear, wifiVars, driver, At
<1> QED
  BY <1>2, <1>3, <1>4, <1>5, <1>6, <1>7, <1>8, <1>9 DEF Next, Console, Type, Read, vars, setup
-----------------------------------------------------------------------------
(* Nothing typed blind                                                     *)

\* What is read or typed while the question is on the screen answers it.
LEMMA NothingTypedBlindNext ==
  ASSUME Typed, NothingTypedBlind, [Next]_vars
  PROVE  NothingTypedBlind'
<1>0. uart \in Seq(Lines) /\ chunk \in Seq(Lines) /\ Len(uart) \in Nat /\ Len(chunk) \in Nat
      /\ dialog \in [state : DialogStates, pending : Configs]
  BY LenProperties DEF Typed, TypeOK
<1>1. ASSUME UNCHANGED input, dialog'.state \in {dialog.state, "Idle"} PROVE NothingTypedBlind'
  BY <1>1 DEF NothingTypedBlind, input
<1>2. CASE Type
  <2>1. PICK t \in Texts : uart' = Append(uart, [text |-> t, at |-> dialog.state])
    BY <1>2 DEF Type
  <2>2. [text |-> t, at |-> dialog.state] \in Lines
    BY <1>0 DEF Lines
  <2>3. \A k \in 1 .. Len(uart') : uart'[k] = IF k <= Len(uart) THEN uart[k] ELSE [text |-> t, at |-> dialog.state]
    BY <1>0, <2>1, <2>2, AppendProperties
  <2> QED
    BY <1>0, <1>2, <2>3 DEF Type, NothingTypedBlind, setup
<1>3. CASE Read
  BY <1>0, <1>3, EmptySeq DEF Read, NothingTypedBlind, setup
<1>4. CASE OnLine
  <2>1. chunk # <<>> /\ chunk' = Tail(chunk) /\ uart' = uart
    BY <1>4 DEF OnLine, Hear
  <2>2. \A k \in 1 .. Len(chunk') : k + 1 \in 1 .. Len(chunk) /\ chunk'[k] = chunk[k + 1]
    BY <1>0, <2>1, RestOfLines
  <2>3. dialog'.state = "AskSaveAnyway" => dialog.state = "AskSaveAnyway"
    <3>1. CASE Command
      BY <3>1 DEF Command, Closed
    <3>2. CASE Name
      <4>1. CASE Line = ""
        BY <3>2, <4>1 DEF Name, Closed
      <4>2. CASE Line # "" /\ Line \in Names
        BY <3>2, <4>2 DEF Name
      <4>3. CASE Line # "" /\ Line \notin Names
        BY <3>2, <4>3 DEF Name
      <4> QED
        BY <4>1, <4>2, <4>3
    <3>3. CASE Password \/ Answer
      BY <1>0, <3>3 DEF Password, Answer
    <3> QED
      BY <1>4, <3>1, <3>2, <3>3 DEF OnLine
  <2> QED
    BY <2>1, <2>2, <2>3 DEF NothingTypedBlind
<1>5. CASE Failed \/ Succeeded \/ Reboot
  BY <1>5, EmptySeq DEF Failed, Succeeded, Reboot, DiscardInput, NothingTypedBlind
<1>6. CASE Connection \/ StartDriver \/ ApplyCredentials \/ ApplyLeave \/ ApplyJoin \/ Begin \/ WaitConnected
           \/ WaitFailed \/ WaitTimeout \/ Park \/ WriteAside \/ Clear \/ UNCHANGED vars
  BY <1>1, <1>6 DEF Connection, StartDriver, ApplyCredentials, ApplyLeave, ApplyJoin, Begin, WaitConnected,
     WaitFailed, WaitTimeout, Park, WriteAside, Clear, KeepInput, vars, setup
<1>7. CASE Rename \/ SaveFails \/ Unpark
  BY <1>1, <1>7 DEF Rename, SaveFails, Unpark, Closed, KeepInput
<1> QED
  BY <1>2, <1>3, <1>4, <1>5, <1>6, <1>7 DEF Next, Console
-----------------------------------------------------------------------------
(* What the attempt is told                                                *)

\* After the driver left the network before, only its leave can still be handled,
\* and nobody is told of it.
LEMMA LeftAloneStays ==
  ASSUME Typed, LeftAlone, EventTask \/ TimerTask \/ Driver
  PROVE  LeftAlone' /\ attempt' = attempt
<1>0. WifiTypeOK
  BY DEF Typed, TypeOK
<1>1. CASE Move
  BY <1>1 DEF Move, LeftAlone, OwnLeave, IsIp, driver
<1>2. CASE Disconnected
  <2>1. events # <<>> /\ Len(events) = 1 /\ Head(events) = events[1] /\ events \in Seq(Events)
    BY <1>0, <1>2, RestOfEvents DEF Disconnected, LeftAlone, WifiTypeOK
  <2>2. handler' = NoEvent
    BY <1>2, <2>1 DEF Disconnected, LeftAlone, OwnLeave
  <2>3. Len(Tail(events)) = 0
    BY <2>1, RestOfEvents
  <2>4. Tail(events) \in Seq(Events)
    BY <2>1, RestOfEvents
  <2>5. events' = <<>>
    BY <1>2, <2>3, <2>4, EmptySeq DEF Disconnected
  <2> QED
    BY <1>2, <2>2, <2>5 DEF Disconnected, LeftAlone
<1>3. CASE GotIp
  <2>1. events # <<>> /\ Head(events) = events[1]
    BY <1>0, <1>3, RestOfEvents DEF GotIp, WifiTypeOK
  <2> QED
    BY <1>3, <2>1 DEF GotIp, LeftAlone, OwnLeave
<1>4. CASE Join \/ Refuse \/ Drop \/ ScheduleReconnect \/ Fire \/ Reconnect
  BY <1>4 DEF LeftAlone, Join, Refuse, Drop, ScheduleReconnect, Fire, Reconnect
<1> QED
  BY <1>1, <1>2, <1>3, <1>4 DEF EventTask, TimerTask, Driver

\* An event of the network the driver is on comes last.
LEMMA PostedAbout ==
  ASSUME Typed, NEW net, OnlyAbout(net), NEW e \in Events, About(e, net), Post(e),
         config' = config, handler' = handler, wifi' = wifi
  PROVE  OnlyAbout(net)'
<1>1. events \in Seq(Events)
  BY DEF Typed, TypeOK, WifiTypeOK
<1>2. events' = Append(events, e)
  BY DEF Post
<1>3. /\ Len(events) \in Nat /\ Len(events') = Len(events) + 1
      /\ \A k \in 1 .. Len(events) : events'[k] = events[k]
      /\ events'[Len(events) + 1] = e
  BY <1>1, <1>2, OneMoreEvent
<1>4. ASSUME NEW k \in 1 .. Len(events')
      PROVE  About(events'[k], net) \/ (k = 1 /\ OwnLeave(events'[1]))
  <2>1. CASE k = Len(events) + 1
    BY <1>3, <2>1
  <2>2. CASE k # Len(events) + 1
    <3>1. k \in 1 .. Len(events) /\ events'[k] = events[k]
      BY <1>3, <2>2
    <3> QED
      BY <3>1 DEF OnlyAbout, OwnLeave
  <2> QED
    BY <2>1, <2>2
<1> QED
  BY <1>3, <1>4 DEF OnlyAbout, OwnLeave, About, IsIp

\* What is handled is about that network, or is our own leave.
LEMMA HandledAbout ==
  ASSUME Typed, NEW net, OnlyAbout(net), events # <<>>, events' = Tail(events), config' = config
  PROVE  /\ \A k \in 1 .. Len(events') : About(events'[k], net)
         /\ About(Head(events), net) \/ OwnLeave(Head(events))
<1>1. events \in Seq(Events)
  BY DEF Typed, TypeOK, WifiTypeOK
<1>2. /\ Len(events') = Len(events) - 1 /\ Len(events) \in Nat \ {0} /\ Head(events) = events[1]
      /\ \A k \in 1 .. Len(events') : events'[k] = events[k + 1]
  BY <1>1, RestOfEvents
<1>3. 1 \in 1 .. Len(events)
  BY <1>2
<1>4. ASSUME NEW k \in 1 .. Len(events') PROVE About(events'[k], net)
  <2>1. k + 1 \in 1 .. Len(events) /\ k + 1 # 1 /\ events'[k] = events[k + 1]
    BY <1>2
  <2> QED
    BY <2>1 DEF OnlyAbout
<1> QED
  BY <1>2, <1>3, <1>4 DEF OnlyAbout

\* The bits of an attempt are about a network.
BitsAbout(net) ==
  /\ attempt.connected \in {NoNetwork, net}
  /\ attempt.failed # NoEvent => attempt.failed.net = net

\* The connection tells the attempt of the network it is on, and of no other.
LEMMA OnlyAboutStays ==
  ASSUME Typed, NEW net, OnlyAbout(net), BitsAbout(net), EventTask \/ TimerTask \/ Driver
  PROVE  OnlyAbout(net)' /\ BitsAbout(net)'
<1>0. WifiTypeOK
  BY DEF Typed, TypeOK
<1>1. config' = config /\ config = net
  BY DEF OnlyAbout, EventTask, TimerTask, Driver, Join, Refuse, Drop, Move, Disconnected, ScheduleReconnect,
     GotIp, Fire, Reconnect, driver
<1>2. CASE Join
  <2>1. [ip |-> config] \in Events /\ About([ip |-> config], net)
    BY <1>0, <1>1 DEF WifiTypeOK, Events, About, IsIp
  <2> QED
    BY <1>1, <1>2, <2>1, PostedAbout DEF Join, BitsAbout
<1>3. CASE Refuse \/ Drop
  <2>1. PICK r \in Reasons : Post([reason |-> r, net |-> config])
    BY <1>3 DEF Refuse, Drop, Refusals, Reasons
  <2>2. [reason |-> r, net |-> config] \in Disconnections
    BY <1>0 DEF WifiTypeOK, Disconnections
  <2>3. [reason |-> r, net |-> config] \in Events /\ ~IsIp([reason |-> r, net |-> config])
    BY <2>2 DEF Events, IsIp
  <2>4. About([reason |-> r, net |-> config], net)
    BY <1>1, <2>3 DEF About
  <2> QED
    BY <1>1, <1>3, <2>1, <2>3, <2>4, PostedAbout DEF Refuse, Drop, BitsAbout
<1>4. CASE Move \/ Fire \/ Reconnect
  BY <1>4 DEF Move, Fire, Reconnect, OnlyAbout, BitsAbout, OwnLeave, About, IsIp, driver
<1>5. CASE Disconnected
  <2>1. /\ \A k \in 1 .. Len(events') : About(events'[k], net)
        /\ About(Head(events), net) \/ OwnLeave(Head(events))
    BY <1>1, <1>5, HandledAbout DEF Disconnected
  <2>2. handler' # NoEvent => handler'.net = net
    BY <1>5, <2>1 DEF Disconnected, OwnLeave, About
  <2> QED
    BY <1>1, <1>5, <2>1, <2>2 DEF Disconnected, OnlyAbout, BitsAbout, About
<1>6. CASE ScheduleReconnect
  <2>1. attempt'.connected = attempt.connected /\ attempt'.failed \in {attempt.failed, handler}
    BY <1>0, <1>6 DEF ScheduleReconnect, WifiTypeOK
  <2> QED
    BY <1>6, <2>1 DEF ScheduleReconnect, OnlyAbout, BitsAbout, OwnLeave, About, IsIp, driver
<1>7. CASE GotIp
  <2>1. /\ \A k \in 1 .. Len(events') : About(events'[k], net)
        /\ Head(events).ip = net
    BY <1>1, <1>7, HandledAbout DEF GotIp, OwnLeave, About
  <2>2. attempt'.connected \in {attempt.connected, net} /\ attempt'.failed = attempt.failed
    BY <1>0, <1>7, <2>1 DEF GotIp, WifiTypeOK
  <2> QED
    BY <1>1, <1>7, <2>1, <2>2 DEF GotIp, OnlyAbout, BitsAbout, About
<1> QED
  BY <1>2, <1>3, <1>4, <1>5, <1>6, <1>7 DEF EventTask, TimerTask, Driver

\* All that is known of an attempt.
Honest == Typed /\ DriverInv /\ AttemptInv /\ AttemptIsHonest

\* Where no attempt is being made there is nothing to say of it.
LEMMA NoAttempt ==
  ASSUME \/ console'.pc \notin {"apply", "leave", "join", "start", "wait"}
         \/ console'.pc \notin {"start", "wait"} /\ console'.then \in {"failed", "unpark"}
  PROVE  AttemptInv' /\ AttemptIsHonest'
  BY DEF AttemptInv, AttemptIsHonest, Applying, ApplyingFor, At

\* During an attempt the connection keeps what is known of it.
LEMMA ConnectionHonest ==
  ASSUME Honest, Connection
  PROVE  AttemptInv' /\ AttemptIsHonest'
<1>0. WifiTypeOK /\ ConsoleTypeOK /\ dialog' = dialog /\ nm' = nm
  BY DEF Honest, Typed, TypeOK, ConsoleTypeOK, Connection
<1>1. /\ console'.pc = console.pc /\ console'.net = console.net /\ console'.then = console.then
      /\ console'.clean => console.clean /\ (console.then = "wait" => console.pc = "join")
  BY <1>0 DEF Connection, ConsoleTypeOK
<1>2. EventTask \/ TimerTask \/ Driver
  BY DEF Connection
<1>3. wifi'.idle = wifi.idle
  BY <1>0, <1>2 DEF EventTask, TimerTask, Driver, Join, Refuse, Drop, Move, Disconnected, WithConnected,
     ScheduleReconnect, GotIp, Fire, Reconnect, WifiTypeOK
<1>4. ApplyingFor("start") \/ At("start") => attempt' = attempt
  <2>1. ApplyingFor("start") \/ At("start") => Move
    BY <1>2, NotStarted DEF Honest, DriverInv, Undriven
  <2> QED
    BY <2>1 DEF Move
<1>5. At("join") /\ console.then = "wait" /\ console.clean => LeftAlone' /\ attempt' = attempt
  BY <1>2, LeftAloneStays DEF Honest, AttemptInv, Applying, ApplyingFor, At
<1>6. At("wait") /\ console.clean => OnlyAbout(dialog.pending)' /\ BitsAbout(dialog.pending)'
  <2>1. At("wait") /\ console.clean => OnlyAbout(dialog.pending) /\ BitsAbout(dialog.pending)
    BY DEF Honest, AttemptInv, AttemptIsHonest, BitsAbout
  <2>2. At("wait") /\ console.clean => \A net : net = dialog.pending => OnlyAbout(net)' /\ BitsAbout(net)'
    BY <1>2, <2>1, OnlyAboutStays DEF Honest
  <2> QED
    BY <1>0, <2>2 DEF OnlyAbout, BitsAbout
<1>7. AttemptIsHonest'
  BY <1>1, <1>6 DEF AttemptIsHonest, BitsAbout, At
<1>8. AttemptInv'
  BY <1>0, <1>1, <1>3, <1>4, <1>5, <1>6 DEF Honest, AttemptInv, Applying, ApplyingFor, At, Watched, Unwatched
<1> QED
  BY <1>7, <1>8

\* At the leave of the network before, the driver posts at most that leave.
LEMMA LeaveHonest ==
  ASSUME Honest, ApplyLeave
  PROVE  AttemptInv' /\ AttemptIsHonest'
<1>0. WifiTypeOK /\ ConsoleTypeOK /\ UNCHANGED <<dialog, nm, handler, timer, wifi, attempt>>
  BY DEF Honest, Typed, TypeOK, ConsoleTypeOK, ApplyLeave, Leave
<1>1. CASE wifi.idle
  <2>1. console'.pc = console.then /\ console'.then = "read" /\ console.then \notin {"wait", "start"} /\ console.then # "read"
    BY <1>0, <1>1 DEF ApplyLeave, Return, ConsoleTypeOK, Honest, Typed, AttemptInv, DialogInv, DriverInv,
       Applying, ApplyingFor, At
  <2> QED
    BY <1>0, <2>1, NoAttempt DEF ConsoleTypeOK
<1>2. CASE ~wifi.idle
  <2>1. console'.pc = "join" /\ console'.then = console.then /\ console'.net = console.net /\ console'.clean = console.clean
    BY <1>0, <1>2 DEF ApplyLeave, Goto, ConsoleTypeOK
  <2>2. console.then # "start"
    BY DEF ApplyLeave, Honest, DriverInv, Applying, ApplyingFor, At
  <2>3. console.then = "wait" /\ console.clean => LeftAlone'
    <3>1. SUFFICES ASSUME console.then = "wait", console.clean PROVE LeftAlone'
      OBVIOUS
    <3>2. Quiet /\ timer = "off" /\ wifi.expectLeave
      BY <3>1 DEF ApplyLeave, Honest, AttemptInv, Applying, ApplyingFor, At
    <3>3. CASE link = "down"
      BY <1>0, <3>2, <3>3 DEF ApplyLeave, Leave, Disconnect, LeftAlone, Quiet, driver
    <3>4. CASE link # "down"
      <4> DEFINE e == [reason |-> "assocLeave", net |-> config]
      <4>1. link' = "down" /\ events' = Append(events, e)
        BY <3>4 DEF ApplyLeave, Leave, Disconnect, Post
      <4>2. ~IsIp(e) /\ e.reason = "assocLeave" /\ e \in Events
        BY <1>0 DEF IsIp, Events, Disconnections, Reasons, WifiTypeOK
      <4> HIDE DEF e
      <4>3. Len(events') = 1 /\ events'[1] = e
        BY <1>0, <3>2, <4>1, <4>2, EmptySeq, OneMoreEvent DEF Quiet, WifiTypeOK
      <4> QED
        BY <1>0, <3>2, <4>1, <4>2, <4>3 DEF LeftAlone, OwnLeave, Quiet, IsIp
    <3> QED
      BY <3>3, <3>4
  <2> QED
    BY <1>0, <1>2, <2>1, <2>2, <2>3 DEF ApplyLeave, Honest, AttemptInv, AttemptIsHonest, Applying,
       ApplyingFor, At
<1> QED
  BY <1>1, <1>2

\* applyCredentials() silences the network before, and then joins the other one.
LEMMA ApplyHonest ==
  ASSUME Honest, ApplyCredentials \/ ApplyJoin
  PROVE  AttemptInv' /\ AttemptIsHonest'
<1>0. WifiTypeOK /\ ConsoleTypeOK
  BY DEF Honest, Typed, TypeOK, ConsoleTypeOK
<1>1. CASE ApplyCredentials /\ wifi.started
  <2>1. /\ console'.pc = "leave" /\ console'.then = console.then /\ console'.net = console.net
        /\ console'.clean = console.clean
    BY <1>0, <1>1 DEF ApplyCredentials, Goto, ConsoleTypeOK
  <2>2. /\ wifi'.idle = (console.net = NoNetwork) /\ wifi'.expectLeave
        /\ timer' = IF timer = "armed" THEN "off" ELSE timer
        /\ UNCHANGED <<events, handler, attempt, dialog>>
    BY <1>0, <1>1 DEF ApplyCredentials, Silence, WifiTypeOK, driver
  <2>3. At("apply") /\ console.then # "start"
    BY <1>1 DEF ApplyCredentials, Honest, DriverInv, Applying, ApplyingFor, At
  <2>4. console.then = "wait" => console.net # NoNetwork
    BY <2>3 DEF Honest, Typed, DialogInv, AttemptInv, Applying, ApplyingFor, At
  <2>5. console.then = "wait" /\ console.clean => timer' = "off" /\ Quiet' /\ attempt' = Watched
    BY <1>0, <2>2, <2>3 DEF Honest, AttemptInv, Quiet, WifiTypeOK, Applying, ApplyingFor, At
  <2> QED
    BY <2>1, <2>2, <2>3, <2>4, <2>5 DEF Honest, AttemptInv, AttemptIsHonest, Applying, ApplyingFor, At,
       Watched, Unwatched
<1>2. CASE ApplyCredentials /\ ~wifi.started
  <2>1. /\ console'.pc = console.then /\ console'.then = "read" /\ UNCHANGED <<wifiVars, dialog>>
        /\ nm' = console.net
    BY <1>0, <1>2 DEF ApplyCredentials, Return, ConsoleTypeOK
  <2>2. At("apply") /\ console.then # "wait" /\ console.then # "read"
    BY <1>2 DEF ApplyCredentials, Honest, Typed, DialogInv, DriverInv, Applying, ApplyingFor, At
  <2> QED
    BY <1>0, <2>1, <2>2 DEF ConsoleTypeOK, Honest, AttemptInv, AttemptIsHonest, Applying, ApplyingFor, At,
       wifiVars, Watched, Unwatched
<1>3. CASE ApplyJoin
  <2>1. /\ console'.pc = console.then /\ console'.then = "read" /\ console'.clean = console.clean
        /\ UNCHANGED <<events, handler, wifi, attempt, dialog>>
        /\ link = "down" => config' = console.net
    BY <1>0, <1>3 DEF ApplyJoin, Return, JoinOther, ConsoleTypeOK, driver
  <2>2. At("join") /\ console.then \notin {"read", "start"}
    BY <1>3 DEF ApplyJoin, Honest, Typed, DialogInv, DriverInv, Applying, ApplyingFor, At
  <2>3. console.then = "wait" /\ console.clean => OnlyAbout(dialog.pending)' /\ attempt' = Watched
    BY <2>1, <2>2 DEF Honest, AttemptInv, Applying, ApplyingFor, At, LeftAlone, OnlyAbout, OwnLeave
  <2> QED
    BY <1>0, <2>1, <2>2, <2>3 DEF ConsoleTypeOK, AttemptInv, AttemptIsHonest, Applying, ApplyingFor, At,
       Watched, Unwatched
<1> QED
  BY <1>1, <1>2, <1>3

\* Every step keeps an attempt honest.
LEMMA HonestNext ==
  ASSUME Honest, [Next]_vars
  PROVE  Honest'
<1>0. WifiTypeOK /\ ConsoleTypeOK
  BY DEF Honest, Typed, TypeOK, ConsoleTypeOK
<1>1. Typed' /\ DriverInv'
  BY NextTyped, DriverNext DEF Honest
<1>2. CASE Connection
  BY <1>1, <1>2, ConnectionHonest DEF Honest
<1>3. CASE ApplyCredentials \/ ApplyJoin \/ ApplyLeave
  BY <1>1, <1>3, LeaveHonest, ApplyHonest DEF Honest
<1>4. CASE StartDriver
  <2>1. /\ UNCHANGED <<events, handler, timer, attempt, dialog>> /\ console'.then = console.then
        /\ console'.clean = console.clean
        /\ \/ console'.pc \in {"read", "park"}
           \/ console'.pc = "wait" /\ wifi'.started /\ At("start")
    BY <1>0, <1>4 DEF StartDriver, Start, ConsoleTypeOK, At
  <2>2. CASE console'.pc = "wait"
    <3>1. At("start") /\ wifi' # wifi /\ config' = nm /\ nm = dialog.pending /\ attempt = Watched
          /\ events = <<>> /\ handler = NoEvent
      BY <1>4, <2>1, <2>2 DEF StartDriver, Start, Honest, DriverInv, AttemptInv, Applying, ApplyingFor, At
    <3>2. OnlyAbout(dialog.pending)'
      BY <2>1, <3>1, EmptySeq DEF OnlyAbout
    <3>3. console'.then = "read"
      BY <2>1, <3>1 DEF Honest, Typed, DialogInv, Applying, At
    <3>4. AttemptIsHonest'
      BY <2>1, <3>1 DEF AttemptIsHonest, Watched, Unwatched
    <3>5. AttemptInv'
      BY <2>2, <3>2, <3>3 DEF AttemptInv, Applying, ApplyingFor, At
    <3> QED
      BY <1>1, <3>4, <3>5 DEF Honest
  <2> QED
    BY <1>1, <2>1, <2>2, NoAttempt DEF Honest
<1>5. CASE Begin
  <2>1. /\ console'.pc = "apply" /\ console'.then \in {"wait", "start"} /\ console'.net = dialog.pending
        /\ (console'.clean => Quiet)
    BY <1>0, <1>5 DEF Begin, Apply, ConsoleTypeOK
  <2>2. attempt' = Watched /\ UNCHANGED <<dialog, events, handler, timer>>
    BY <1>5 DEF Begin, BeginAttempt, Watched, driver
  <2>3. AttemptInv'
    BY <2>1, <2>2 DEF AttemptInv, Applying, ApplyingFor, At, Quiet, Watched, Unwatched
  <2>4. AttemptIsHonest'
    BY <2>1 DEF AttemptIsHonest, At
  <2> QED
    BY <1>1, <2>3, <2>4 DEF Honest
<1>6. CASE WaitFailed
  <2>1. UNCHANGED <<dialog, config, events, handler, wifi>> /\ attempt'.connected = NoNetwork /\ attempt'.failed = NoEvent
        /\ (console' = console \/ console'.pc = "park")
    BY <1>0, <1>6 DEF WaitFailed, Taken, Goto, WifiTypeOK, ConsoleTypeOK, driver
  <2>2. CASE console' = console
    <3>1. AttemptIsHonest'
      BY <2>1 DEF AttemptIsHonest
    <3>2. AttemptInv'
      BY <1>6, <2>1, <2>2 DEF WaitFailed, Honest, AttemptInv, Applying, ApplyingFor, At, OnlyAbout, OwnLeave
    <3> QED
      BY <1>1, <3>1, <3>2 DEF Honest
  <2> QED
    BY <1>1, <2>1, <2>2, NoAttempt DEF Honest
<1>7. CASE OnLine
  <2>1. At("read") /\ console.then = "read"
    BY <1>7 DEF OnLine, Hear, Honest, Typed, DialogInv, Applying, At
  <2>2. \/ console'.pc \in {"read", "clear", "begin", "save"}
        \/ console'.pc = "apply" /\ console'.then = "unpark"
    BY <1>0, <1>7, <2>1 DEF OnLine, Command, Name, Password, Answer, Goto, Apply, ConsoleTypeOK, At
  <2> QED
    BY <1>1, <2>2, NoAttempt DEF Honest
<1>8. CASE WaitConnected \/ WaitTimeout \/ Park \/ Failed \/ Succeeded \/ WriteAside \/ Clear
  <2>1. \/ console'.pc \in {"succeeded", "park", "read", "save", "rename"}
        \/ console'.pc = "apply" /\ console'.then = "failed"
    BY <1>0, <1>8 DEF WaitConnected, WaitTimeout, Park, Failed, Succeeded, WriteAside, Clear, Goto, Apply,
       ConsoleTypeOK
  <2> QED
    BY <1>1, <2>1, NoAttempt DEF Honest
<1>9. CASE Rename \/ SaveFails \/ Unpark
  <2>1. console'.pc = "read" \/ (console'.pc = "apply" /\ console'.then = "unpark")
    BY ZenonT(40), <1>0, <1>9 DEF Rename, SaveFails, Unpark, Apply, Resting, ConsoleTypeOK
  <2> QED
    BY <1>1, <2>1, NoAttempt DEF Honest
<1>10. CASE Reboot
  <2>1. console'.pc \in {"read", "boot"}
    BY <1>10 DEF Reboot, ConsoleAt
  <2> QED
    BY <1>1, <2>1, NoAttempt DEF Honest
<1>11. CASE UNCHANGED <<wifiVars, setup>>
  BY <1>1, <1>11 DEF Honest, AttemptInv, AttemptIsHonest, wifiVars, driver, setup, Applying, ApplyingFor, At,
     LeftAlone, OnlyAbout, OwnLeave, About, IsIp, Quiet, Watched, Unwatched
<1> QED
  BY <1>2, <1>3, <1>4, <1>5, <1>6, <1>7, <1>8, <1>9, <1>10, <1>11 DEF Next, Console, Type, Read, vars
-----------------------------------------------------------------------------
(* What is saved                                                           *)

\* A network that was told of gave an address.
LEMMA ConnectionJoined ==
  ASSUME Honest, JoinedInv, Connection
  PROVE  JoinedInv'
<1>0. WifiTypeOK /\ ConsoleTypeOK /\ dialog' = dialog /\ joined \subseteq joined'
  BY DEF Honest, Typed, TypeOK, ConsoleTypeOK, Connection
<1>1. console'.pc = console.pc /\ console'.parked = console.parked
      /\ (console.pc \in {"succeeded", "save", "rename"} => console'.clean = console.clean)
  BY <1>0 DEF Connection, ConsoleTypeOK, Honest, Typed, DialogInv, Applying
<1>2. EventTask \/ TimerTask \/ Driver
  BY DEF Connection
<1>3. CASE Join
  <2>1. events' = Append(events, [ip |-> config]) /\ config \in joined' /\ attempt' = attempt
    BY <1>3 DEF Join, Post, Connection
  <2>2. [ip |-> config] \in Events
    BY <1>0 DEF WifiTypeOK, Events
  <2>3. \A k \in 1 .. Len(events') : events'[k] = IF k <= Len(events) THEN events[k] ELSE [ip |-> config]
    BY <1>0, <2>1, <2>2, OneMoreEvent DEF WifiTypeOK
  <2>4. \A k \in 1 .. Len(events') : IsIp(events'[k]) => events'[k].ip \in joined'
    <3> SUFFICES ASSUME NEW k \in 1 .. Len(events'), IsIp(events'[k]) PROVE events'[k].ip \in joined'
      OBVIOUS
    <3>1. CASE k <= Len(events)
      <4>1. k \in 1 .. Len(events)
        BY <1>0, <3>1, LenProperties DEF WifiTypeOK
      <4> QED
        BY <1>0, <2>3, <3>1, <4>1 DEF JoinedInv
    <3>2. CASE ~(k <= Len(events))
      BY <2>1, <2>3, <3>2
    <3> QED
      BY <3>1, <3>2
  <2> QED
    BY <1>0, <1>1, <2>1, <2>4 DEF JoinedInv, At, IsIp
<1>4. CASE Refuse \/ Drop
  <2>1. PICK r \in Reasons : events' = Append(events, [reason |-> r, net |-> config])
    BY <1>4 DEF Refuse, Drop, Refusals, Reasons, Post
  <2>2. [reason |-> r, net |-> config] \in Events /\ ~IsIp([reason |-> r, net |-> config])
    BY <1>0 DEF WifiTypeOK, Disconnections, Events, IsIp
  <2>3. \A k \in 1 .. Len(events') : events'[k] = IF k <= Len(events) THEN events[k] ELSE [reason |-> r, net |-> config]
    BY <1>0, <2>1, <2>2, OneMoreEvent DEF WifiTypeOK
  <2>4. \A k \in 1 .. Len(events') : IsIp(events'[k]) => events'[k].ip \in joined'
    <3> SUFFICES ASSUME NEW k \in 1 .. Len(events'), IsIp(events'[k]) PROVE events'[k].ip \in joined'
      OBVIOUS
    <3>1. k <= Len(events)
      BY <2>2, <2>3
    <3>2. k \in 1 .. Len(events)
      BY <1>0, <3>1, LenProperties DEF WifiTypeOK
    <3> QED
      BY <1>0, <2>3, <3>1, <3>2 DEF JoinedInv
  <2>5. attempt' = attempt
    BY <1>4 DEF Refuse, Drop
  <2> QED
    BY <1>0, <1>1, <2>4, <2>5 DEF JoinedInv, At, IsIp
<1>5. CASE Move \/ Fire \/ Reconnect
  <2>1. UNCHANGED <<events, attempt>>
    BY <1>5 DEF Move, Fire, Reconnect, driver
  <2> QED
    BY <1>0, <1>1, <2>1 DEF JoinedInv, At, IsIp
<1>6. CASE ScheduleReconnect
  <2>1. events' = events /\ attempt'.connected = attempt.connected
    BY <1>0, <1>6 DEF ScheduleReconnect, driver, WifiTypeOK
  <2> QED
    BY <1>0, <1>1, <2>1 DEF JoinedInv, At, IsIp
<1>7. CASE Disconnected \/ GotIp
  <2>1. events # <<>> /\ events' = Tail(events)
    BY <1>7 DEF Disconnected, GotIp
  <2>2. /\ \A k \in 1 .. Len(events') : k + 1 \in 1 .. Len(events) /\ events'[k] = events[k + 1]
        /\ Head(events) = events[1] /\ 1 \in 1 .. Len(events)
    BY <1>0, <2>1, RestOfEvents DEF WifiTypeOK
  <2>3. attempt'.connected \in joined \cup {NoNetwork}
    <3>1. CASE Disconnected
      BY <3>1 DEF Disconnected, JoinedInv
    <3>2. CASE GotIp
      <4>1. attempt'.connected \in {attempt.connected, Head(events).ip}
        BY <1>0, <3>2 DEF GotIp, WifiTypeOK
      <4>2. IsIp(events[1])
        BY <2>2, <3>2 DEF GotIp
      <4> QED
        BY <2>2, <4>1, <4>2 DEF JoinedInv
    <3> QED
      BY <1>7, <3>1, <3>2
  <2> QED
    BY <1>0, <1>1, <2>2, <2>3 DEF JoinedInv, At, IsIp
<1> QED
  BY <1>2, <1>3, <1>4, <1>5, <1>6, <1>7 DEF EventTask, TimerTask, Driver

\* Every step: what is to be saved gave an address, or was insisted on.
LEMMA JoinedNext ==
  ASSUME Honest, JoinedInv, [Next]_vars
  PROVE  JoinedInv'
<1>0. WifiTypeOK /\ ConsoleTypeOK /\ dialog \in [state : DialogStates, pending : Configs]
  BY DEF Honest, Typed, TypeOK, ConsoleTypeOK
<1>1. ASSUME UNCHANGED <<events, attempt, joined>>, console'.pc \notin {"succeeded", "save", "rename"}
      PROVE  JoinedInv'
  BY <1>1 DEF JoinedInv, At, IsIp
<1>2. CASE Connection
  BY <1>2, ConnectionJoined
<1>3. CASE StartDriver
  <2>1. console'.pc \in {"read", "park", "wait"} /\ UNCHANGED <<events, attempt, joined>>
    BY <1>0, <1>3 DEF StartDriver, Start, ConsoleTypeOK, history
  <2> QED
    BY <1>1, <2>1
<1>4. CASE Reboot
  <2>1. events' = <<>> /\ attempt'.connected = NoNetwork /\ console'.pc \in {"read", "boot"}
    BY <1>4 DEF Reboot, LosePower, Unwatched, ConsoleAt
  <2> QED
    BY <2>1, EmptySeq DEF JoinedInv, At
<1>5. CASE OnLine
  <2>1. UNCHANGED <<events, attempt, joined>> /\ At("read")
    BY <1>5 DEF OnLine, Hear, wifiVars, driver, history
  <2>2. CASE Answer
    <3>1. console.parked
      BY <2>2 DEF Answer, Honest, Typed, DialogInv
    <3>2. console'.parked /\ console'.pc \in {"save", "apply"}
      BY <1>0, <2>2, <3>1 DEF Answer, Apply, ConsoleTypeOK
    <3> QED
      BY <2>1, <3>2 DEF JoinedInv, At, IsIp
  <2>3. CASE ~Answer
    <3>1. console'.pc \in {"read", "clear", "begin"}
      BY <1>0, <1>5, <2>1, <2>3 DEF OnLine, Command, Name, Password, Goto, ConsoleTypeOK, At
    <3> QED
      BY <1>1, <2>1, <3>1
  <2> QED
    BY <2>2, <2>3
<1>6. CASE ApplyCredentials \/ ApplyJoin
  <2>1. UNCHANGED <<events, attempt, joined>>
    BY <1>6 DEF ApplyCredentials, ApplyJoin, Silence, JoinOther, wifiVars, driver, history
  <2>2. console'.pc \in {"leave", console.then}
    BY <1>0, <1>6 DEF ApplyCredentials, ApplyJoin, Goto, Return, ConsoleTypeOK
  <2> QED
    BY <1>0, <1>1, <2>1, <2>2 DEF ConsoleTypeOK
<1>7. CASE ApplyLeave
  <2>1. attempt' = attempt /\ joined' = joined
    BY <1>7 DEF ApplyLeave, Leave, history
  <2>2. console'.pc \in {"join", console.then}
    BY <1>0, <1>7 DEF ApplyLeave, Goto, Return, ConsoleTypeOK
  <2>3. \A k \in 1 .. Len(events') : IsIp(events'[k]) => events'[k].ip \in joined
    <3>1. CASE events' = events
      BY <3>1 DEF JoinedInv, IsIp
    <3>2. CASE Post([reason |-> "assocLeave", net |-> config])
      <4>1. events' = Append(events, [reason |-> "assocLeave", net |-> config])
        BY <3>2 DEF Post
      <4>2. [reason |-> "assocLeave", net |-> config] \in Events /\ ~IsIp([reason |-> "assocLeave", net |-> config])
        BY <1>0 DEF WifiTypeOK, Disconnections, Events, Reasons, IsIp
      <4>3. \A k \in 1 .. Len(events') :
              events'[k] = IF k <= Len(events) THEN events[k] ELSE [reason |-> "assocLeave", net |-> config]
        BY <1>0, <4>1, <4>2, OneMoreEvent DEF WifiTypeOK
      <4> SUFFICES ASSUME NEW k \in 1 .. Len(events'), IsIp(events'[k]) PROVE events'[k].ip \in joined
        OBVIOUS
      <4>4. k <= Len(events)
        BY <4>2, <4>3
      <4>5. k \in 1 .. Len(events)
        BY <1>0, <4>4, LenProperties DEF WifiTypeOK
      <4> QED
        BY <4>3, <4>4, <4>5 DEF JoinedInv
    <3> QED
      BY <1>7, <3>1, <3>2 DEF ApplyLeave, Leave, Disconnect, driver
  <2> QED
    BY <1>0, <2>1, <2>2, <2>3 DEF JoinedInv, ConsoleTypeOK, At, IsIp
<1>8. CASE Begin \/ WaitFailed
  <2>1. UNCHANGED <<events, joined>> /\ attempt'.connected = NoNetwork
    BY <1>0, <1>8 DEF Begin, BeginAttempt, Unwatched, WaitFailed, Taken, WifiTypeOK, driver, history
  <2>2. console'.pc \in {"apply", "wait", "park"}
    BY <1>0, <1>8 DEF Begin, Apply, WaitFailed, Goto, ConsoleTypeOK, At
  <2> QED
    BY <2>1, <2>2 DEF JoinedInv, At, IsIp
<1>9. CASE WaitConnected
  <2>1. UNCHANGED <<events, joined, dialog>> /\ attempt'.connected = NoNetwork /\ At("wait")
        /\ attempt.connected # NoNetwork
    BY <1>0, <1>9 DEF WaitConnected, Taken, WifiTypeOK, driver, history
  <2>2. console'.pc = "succeeded" /\ console'.clean = console.clean
    BY <1>0, <1>9 DEF WaitConnected, Goto, ConsoleTypeOK
  <2>3. console.clean => dialog.pending \in joined
    BY <2>1 DEF Honest, AttemptIsHonest, JoinedInv
  <2> QED
    BY <2>1, <2>2, <2>3 DEF JoinedInv, At, IsIp
<1>10. CASE WaitTimeout \/ Park \/ Failed \/ Clear
  <2>1. console'.pc \in {"park", "apply", "read"} /\ UNCHANGED <<events, attempt, joined>>
    BY <1>0, <1>10 DEF WaitTimeout, Park, Failed, Clear, Goto, Apply, ConsoleTypeOK, wifiVars, driver, history
  <2> QED
    BY <1>1, <2>1
<1>11. CASE Succeeded
  <2>1. /\ UNCHANGED <<events, attempt, joined>> /\ dialog'.pending = dialog.pending
        /\ console'.pc = "save" /\ console'.clean = console.clean /\ At("succeeded")
    BY <1>0, <1>11 DEF Succeeded, Goto, ConsoleTypeOK, wifiVars, driver, history
  <2> QED
    BY <2>1 DEF JoinedInv, At, IsIp
<1>12. CASE WriteAside
  <2>1. /\ UNCHANGED <<events, attempt, joined, dialog>> /\ console'.pc = "rename" /\ console'.clean = console.clean
        /\ At("save") /\ console'.parked = console.parked
    BY <1>0, <1>12 DEF WriteAside, Goto, ConsoleTypeOK, wifiVars, driver, history
  <2> QED
    BY <2>1 DEF JoinedInv, At, IsIp
<1>13. CASE Rename \/ SaveFails \/ Unpark
  <2>1. console'.pc \in {"read", "apply"} /\ UNCHANGED <<events, attempt, joined>>
    BY <1>0, <1>13 DEF Rename, SaveFails, Unpark, Apply, Resting, ConsoleTypeOK, wifiVars, driver, history
  <2> QED
    BY <1>1, <2>1
<1>14. CASE UNCHANGED <<wifiVars, setup, history>>
  BY <1>14 DEF JoinedInv, wifiVars, driver, setup, history, At, IsIp
<1> QED
  BY <1>2, <1>3, <1>4, <1>5, <1>6, <1>7, <1>8, <1>9, <1>10, <1>11, <1>12, <1>13, <1>14
     DEF Next, Console, Type, Read, vars
-----------------------------------------------------------------------------
(* The theorems                                                            *)

\* A device that has just booted satisfies all of it.
LEMMA InitHonest ==
  ASSUME Init
  PROVE  Honest /\ JoinedInv /\ NothingTypedBlind /\ OnItsWay
<1>1. Typed
  BY InitTyped
<1>2. console.pc \in {"read", "boot"} /\ console.then = "read" /\ dialog.state = "Idle"
  BY DEF Init, ConsoleAt, Closed
<1>3. Undriven /\ ~wifi.started /\ attempt.connected = NoNetwork
  BY DEF Init, PowerOff, Undriven, Off, Unwatched
<1>4. DriverInv /\ OnItsWay
  BY <1>2, <1>3 DEF DriverInv, Undriven, OnItsWay, Applying, ApplyingFor, At
<1>5. AttemptInv /\ AttemptIsHonest
  BY <1>2 DEF AttemptInv, AttemptIsHonest, Applying, ApplyingFor, At
<1>6. JoinedInv
  BY <1>2, <1>3, EmptySeq DEF JoinedInv, Undriven, At
<1>7. NothingTypedBlind
  BY <1>2 DEF NothingTypedBlind
<1> QED
  BY <1>1, <1>4, <1>5, <1>6, <1>7 DEF Honest

(***************************************************************************)
(* The inductive invariant: where console, dialog, driver and attempt are, *)
(* relative to each other, whatever the event task and the timer do in     *)
(* between (WifiSetupConsole.cpp:119, WifiNetworkConnectionController.cpp: *)
(* 151).                                                                   *)
(***************************************************************************)
THEOREM HonestHolds == Spec => [](Honest /\ JoinedInv)
<1>1. Init => Honest /\ JoinedInv
  BY InitHonest
<1>2. Honest /\ JoinedInv /\ [Next]_vars => (Honest /\ JoinedInv)'
  BY HonestNext, JoinedNext
<1> QED
  BY <1>1, <1>2, PTL DEF Spec

(***************************************************************************)
(* Every variable keeps its type; the counts of a verdict stay below the   *)
(* two that make it final (WifiCredentials.cpp:132).                       *)
(***************************************************************************)
THEOREM TypeOKHolds == Spec => []TypeOK
<1>1. Honest /\ JoinedInv => TypeOK
  BY DEF Honest, Typed
<1> QED
  BY <1>1, HonestHolds, PTL

(***************************************************************************)
(* An attempt that began while the network before was silent is judged by  *)
(* events of the network that was entered                                  *)
(* (WifiNetworkConnectionController.cpp:185, :231, :262), for a driver     *)
(* that tells late of what it does, refuses, drops or leaves.              *)
(***************************************************************************)
THEOREM AttemptIsHonestHolds == Spec => []AttemptIsHonest
<1>1. Honest /\ JoinedInv => AttemptIsHonest
  BY DEF Honest
<1> QED
  BY <1>1, HonestHolds, PTL

(***************************************************************************)
(* Keys pressed while the attempt was made do not answer the question that *)
(* follows it, however many lines were typed, read or not                  *)
(* (WifiSetupConsole.cpp:162, :271).                                       *)
(***************************************************************************)
THEOREM NothingTypedBlindHolds == Spec => []NothingTypedBlind
<1>1. Init => Typed /\ NothingTypedBlind
  BY InitTyped, InitHonest
<1>2. Typed /\ NothingTypedBlind /\ [Next]_vars => (Typed /\ NothingTypedBlind)'
  BY NextTyped, NothingTypedBlindNext
<1>3. Typed /\ NothingTypedBlind => NothingTypedBlind
  OBVIOUS
<1> QED
  BY <1>1, <1>2, <1>3, PTL DEF Spec

(***************************************************************************)
(* wifi.json changes only to nothing, when that was asked for, or to a     *)
(* network that gave an address or that the person insisted on, over any   *)
(* cuts of power and failed writes (Storage.cpp:100,                       *)
(* WifiSetupConsole.cpp:180).                                              *)
(***************************************************************************)
THEOREM SavedIsMeantHolds == Spec => SavedIsMeant
<1>1. ASSUME Honest, JoinedInv, Next, file' # file
      PROVE  \/ file' = NoFile /\ At("clear")
             \/ file' \in Names /\ (file' \in joined \/ console.parked \/ ~console.clean)
  <2>1. Clear \/ Rename
    BY <1>1 DEF Next, Console, StartDriver, Read, OnLine, ApplyCredentials, ApplyLeave, ApplyJoin, Begin,
       WaitConnected, WaitFailed, WaitTimeout, Park, Failed, Succeeded, WriteAside, SaveFails, Unpark,
       Type, Reboot, Connection, setup
  <2>2. CASE Clear
    BY <1>1, <2>2 DEF Clear, Forget
  <2>3. CASE Rename
    <3>1. file' = dialog.pending /\ At("rename")
      BY <2>3 DEF Rename, Replace
    <3> QED
      BY <1>1, <3>1 DEF Honest, Typed, DialogInv, JoinedInv, At
  <2> QED
    BY <2>1, <2>2, <2>3
<1>2. Honest /\ JoinedInv /\ [Next]_vars =>
        [file' # file =>
           \/ file' = NoFile /\ At("clear")
           \/ file' \in Names /\ (file' \in joined \/ console.parked \/ ~console.clean)]_vars
  BY <1>1
<1> QED
  BY <1>2, HonestHolds, PTL DEF Spec, SavedIsMeant

(***************************************************************************)
(* A started device with credentials and no connection always has an       *)
(* attempt, an event or the timer on its way                               *)
(* (WifiNetworkConnectionController.cpp:151, :215), if no access point     *)
(* gives the reason that our own leave has and esp_wifi_connect() fails    *)
(* only when a connection exists.  Without either the code does strand     *)
(* the device, and TLC shows how.                                          *)
(***************************************************************************)
THEOREM NeverStrandedHolds ==
  ASSUME ~ApLeaves, ~ConnectCanFail
  PROVE  Spec => []NeverStranded
<1>1. Init => Typed /\ OnItsWay
  BY InitTyped, InitHonest
<1>2. Typed /\ OnItsWay /\ [Next]_vars => (Typed /\ OnItsWay)'
  BY NextTyped, OnItsWayNext
<1>3. Typed /\ OnItsWay => NeverStranded
  BY DEF OnItsWay, NeverStranded
<1> QED
  BY <1>1, <1>2, <1>3, PTL DEF Spec
=============================================================================
