----------------------------- MODULE LinkProofs -----------------------------
(***************************************************************************)
(* SessionIsComplete, RegistersAsConfigured and LevelsAreAsAsked for any   *)
(* firmwares, configurations, retries, power cuts, broken connections,     *)
(* files that cannot be stored, messages, tags and levels.                 *)
(* SessionInvariant follows the event handler through the maps while       *)
(* bring-up adds to them; RegistrationInvariant follows the account from   *)
(* the file over the server back into the file; LevelsInvariant follows a  *)
(* configuration from the queue over its effect into the file.             *)
(***************************************************************************)
EXTENDS Link, SequenceTheorems, TLAPS

LEMMA TopicsInOrder ==
  /\ Len(Topics) = 5
  /\ DOMAIN Topics = 1 .. 5
  /\ \A i, j \in 1 .. 5 : Topics[i] = Topics[j] => i = j
  /\ \A i \in 1 .. 5 : Topics[i] \in TopicSet
  /\ \A topic \in TopicSet : \E i \in 1 .. 5 : topic = Topics[i]
BY DEF Topics, TopicSet

\* What boot is set to, whichever way.
LEMMA BootToTypes ==
  ASSUME LinkAssumption, NEW at \in {"setup", "store", "connect", "register", "types", "messaging", "insert"}
  PROVE  [Started EXCEPT !.at = at] \in Bootings /\ [Started EXCEPT !.at = at].at = at
BY TopicsInOrder DEF LinkAssumption, Bootings, Started, Accounts

LEMMA AccountsKnown ==
  /\ "none" \in Accounts
  /\ \A f \in Firmwares : f.account \in Accounts
  /\ \A account \in Accounts, token \in BOOLEAN :
       [account |-> account, token |-> token] \in [account : Accounts, token : BOOLEAN]
BY DEF Accounts

LEMMA BootFields ==
  ASSUME NEW b \in Bootings
  PROVE  b.topic \in 1 .. Len(Topics) /\ b.tries \in 0 .. MaxRetries /\ b.failed \in 0 .. MaxFailed
BY DEF Bootings

\* The next type, or messaging when there is none.
LEMMA NextTypeTypes ==
  ASSUME LinkAssumption, boot \in Bootings, NextType
  PROVE  boot' \in Bootings /\ boot'.at \in {boot.at, "messaging"}
<1>1. CASE boot.topic < Len(Types)
  <2>1. boot.topic + 1 \in 1 .. Len(Topics) /\ 0 \in 0 .. MaxRetries
    BY <1>1, TopicsInOrder, BootFields DEF Types, LinkAssumption
  <2>2. boot' = [boot EXCEPT !.topic = boot.topic + 1, !.tries = 0]
    BY <1>1 DEF NextType
  <2> QED
    BY <2>1, <2>2 DEF Bootings
<1>2. CASE ~(boot.topic < Len(Types))
  BY <1>2, BootToTypes DEF NextType, BootTo
<1> QED
  BY <1>1, <1>2

\* The message path, the levels and the application leave bring-up and connection alone.
LEMMA LevelSteps ==
  ASSUME ServerSends \/ Data \/ WorkerReceive \/ Apply \/ StoreBegins \/ StoreEnds \/ AppSetsLevel
         \/ TimePasses
  PROVE  UNCHANGED <<bringUp, maps, connection>>
BY DEF ServerSends, Data, WorkerReceive, Apply, StoreBegins, StoreEnds, AppSetsLevel, TimePasses

-----------------------------------------------------------------------------
(* Types                                                                   *)

LEMMA InitTypes ==
  ASSUME LinkAssumption, Init
  PROVE  LinkTypeOK
BY TopicsInOrder DEF LinkAssumption, Init, LinkTypeOK, Bootings, Brokers, Accounts, Nothing, Started, NoSession

\* Opening and writing the file of the account, with all their failures.
LEMMA SaveTypes ==
  ASSUME LinkTypeOK, NEW what \in {"account", "token"}, NEW worth \in [account : Accounts, token : BOOLEAN],
         OpenCredentials(what, worth) \/ WriteCredentials(what, worth.account, worth.token)
  PROVE  /\ credentials' \in [account : Accounts, token : BOOLEAN]
         /\ unsaved' \subseteq {"account", "token"}
BY AccountsKnown DEF OpenCredentials, WriteCredentials, Fault, Nothing, saved, LinkTypeOK

LEMMA BootTypes ==
  ASSUME LinkAssumption, LinkTypeOK, BootTask
  PROVE  LinkTypeOK'
<1> USE TopicsInOrder DEF LinkTypeOK
<1>1. CASE PersistIfChanged
  <2>1. boot' \in Bootings
    BY <1>1, BootToTypes DEF PersistIfChanged, BootTo
  <2>2. credentials' \in [account : Accounts, token : BOOLEAN] /\ unsaved' \subseteq {"account", "token"}
    <3>1. CASE OpenCredentials("account", credentials)
      BY <3>1, SaveTypes
    <3>2. CASE UNCHANGED saved
      BY <3>2 DEF saved
    <3> QED
      BY <1>1, <3>1, <3>2 DEF PersistIfChanged
  <2> QED
    BY <1>1, <2>1, <2>2 DEF PersistIfChanged, bootRest, connection
<1>2. CASE Persist
  <2>1. boot' \in Bootings
    BY <1>2, BootToTypes DEF Persist, BootTo
  <2>2. [account |-> configured.account, token |-> FALSE] \in [account : Accounts, token : BOOLEAN]
    BY AccountsKnown
  <2>3. WriteCredentials("account", configured.account, FALSE)
    BY <1>2 DEF Persist
  <2>4. credentials' \in [account : Accounts, token : BOOLEAN] /\ unsaved' \subseteq {"account", "token"}
    BY <2>2, <2>3, SaveTypes
  <2> QED
    BY <1>2, <2>1, <2>4 DEF Persist, bootRest, connection
<1>3. CASE ConnectionReady
  BY <1>3, BootToTypes DEF ConnectionReady, BootTo, bootRest, saved, connection
<1>4. CASE Registered
  <2>1. boot' \in Bootings /\ server' \in Accounts
    BY <1>4 DEF Registered, Bootings
  <2>2. [credentials EXCEPT !.token = FALSE] \in [account : Accounts, token : BOOLEAN]
    OBVIOUS
  <2>3. credentials' \in [account : Accounts, token : BOOLEAN] /\ unsaved' \subseteq {"account", "token"}
    BY <1>4, <2>2, SaveTypes DEF Registered
  <2> QED
    BY <1>4, <2>1, <2>3 DEF Registered, bootRest, connection
<1>5. CASE StoreToken
  <2>1. boot' \in Bootings
    BY <1>5, BootToTypes DEF StoreToken, BootTo
  <2>2. [account |-> boot.account, token |-> TRUE] \in [account : Accounts, token : BOOLEAN]
    BY DEF Bootings
  <2>3. WriteCredentials("token", boot.account, TRUE)
    BY <1>5 DEF StoreToken
  <2>4. credentials' \in [account : Accounts, token : BOOLEAN] /\ unsaved' \subseteq {"account", "token"}
    BY <2>2, <2>3, SaveTypes
  <2> QED
    BY <1>5, <2>1, <2>4 DEF StoreToken, bootRest, connection
<1>6. CASE TypeAnswered
  BY <1>6, NextTypeTypes DEF TypeAnswered, bootRest, saved, connection
<1>7. CASE StartMessaging
  BY <1>7, BootToTypes DEF StartMessaging, BootTo, saved
<1>8. CASE RegisterCallback
  BY <1>8 DEF RegisterCallback, connection, Bootings, Hears, saved
<1>9. CASE RegisterSubscribes
  <2>1. boot' \in Bootings
    <3>1. CASE boot.topic < Len(Topics)
      <4>1. boot.topic + 1 \in 1 .. Len(Topics)
        BY <3>1, BootFields
      <4>2. boot' = [boot EXCEPT !.at = "insert", !.topic = boot.topic + 1]
        BY <1>9, <3>1 DEF RegisterSubscribes
      <4> QED
        BY <4>1, <4>2 DEF Bootings
    <3>2. CASE ~(boot.topic < Len(Topics))
      BY <1>9, <3>2 DEF RegisterSubscribes, Bootings
    <3> QED
      BY <3>1, <3>2
  <2>2. broker' \in Brokers
    BY SMTT(30), <1>9 DEF RegisterSubscribes, Subscribe, Bootings, Brokers
  <2> QED
    BY <1>9, <2>1, <2>2 DEF RegisterSubscribes, saved
<1> QED
  BY <1>1, <1>2, <1>3, <1>4, <1>5, <1>6, <1>7, <1>8, <1>9 DEF BootTask

LEMMA OtherTypes ==
  ASSUME LinkAssumption, LinkTypeOK, MqttTask \/ Worker \/ World
  PROVE  LinkTypeOK'
<1> USE TopicsInOrder DEF LinkTypeOK
<1>1. CASE Connect
  BY <1>1 DEF Connect, bringUp, saved, Brokers
<1>2. CASE Resubscribe
  BY <1>2 DEF Resubscribe, Subscribe, bringUp, saved, Brokers
<1>3. CASE PublishBirth
  BY <1>3 DEF PublishBirth, bringUp, saved, Brokers
<1>4. CASE ConnectionBreaks \/ ClientNotices
  BY <1>4 DEF ConnectionBreaks, ClientNotices, bringUp, saved
<1>9. CASE BrokerNotices
  BY <1>9 DEF BrokerNotices, bringUp, saved, Brokers
<1>5. CASE PostAgain
  BY <1>5 DEF PostAgain, bootRest, saved, connection, Bootings, LinkAssumption
<1>6. CASE PostFails
  <2>1. boot' \in Bootings
    <3>1. CASE BootAt("register")
      <4>1. 0 \in 0 .. MaxRetries /\ boot.failed + 1 \in 0 .. MaxFailed
        BY <1>6, BootFields DEF PostFails, LinkAssumption
      <4>2. boot' = [boot EXCEPT !.tries = 0, !.failed = boot.failed + 1]
        BY <1>6, <3>1 DEF PostFails
      <4> QED
        BY <4>1, <4>2 DEF Bootings
    <3>2. CASE ~BootAt("register")
      BY <1>6, <3>2, NextTypeTypes DEF PostFails
    <3> QED
      BY <3>1, <3>2
  <2>2. /\ credentials' \in [account : Accounts, token : BOOLEAN]
        /\ server' \in Accounts
    BY <1>6 DEF PostFails
  <2> QED
    BY <1>6, <2>1, <2>2 DEF PostFails, bootRest, saved, connection
<1>7. CASE PowerCut
  BY <1>7, BootToTypes DEF PowerCut, Started, Bootings, LinkAssumption, Accounts
<1>8. CASE ServerSends \/ Data \/ Worker \/ AppSetsLevel \/ TimePasses
  BY <1>8, LevelSteps DEF Worker, bringUp, saved, connection
<1> QED
  BY <1>1, <1>2, <1>3, <1>4, <1>5, <1>6, <1>7, <1>8, <1>9 DEF MqttTask, World

LEMMA NextTypes ==
  ASSUME LinkAssumption, LinkTypeOK, [Next]_vars
  PROVE  LinkTypeOK'
<1>1. CASE UNCHANGED vars
  BY <1>1 DEF LinkTypeOK, vars, bringUp, saved, connection
<1> QED
  BY <1>1, BootTypes, OtherTypes DEF Next

-----------------------------------------------------------------------------
(* Sessions                                                                *)

\* Before messaging there is no session, and bring-up does nothing to one.
LEMMA BringUpKeepsSession ==
  ASSUME LinkAssumption, SessionInvariant,
         PersistIfChanged \/ Persist \/ ConnectionReady \/ PostAgain \/ PostFails \/ Registered \/ StoreToken
           \/ TypeAnswered
  PROVE  ClientInOrder' /\ Covered' /\ UNCHANGED <<session, handler, broker>>
<1>1. UNCHANGED <<maps, session, handler, broker>>
  BY DEF PersistIfChanged, Persist, ConnectionReady, PostAgain, PostFails, Registered, StoreToken, TypeAnswered,
    bootRest, saved, connection
<1>2. boot.at \notin {"insert", "subscribe", "done"}
  BY DEF PersistIfChanged, Persist, ConnectionReady, PostAgain, PostFails, Registered, StoreToken, TypeAnswered,
    Posting, Posts, Routes, BootAt
<1>3. session = "none" /\ handler = 0
  BY <1>2 DEF SessionInvariant, ClientInOrder
<1> QED
  BY <1>1, <1>3 DEF ClientInOrder, Covered

\* What a subscription adds, and that it takes nothing.
LEMMA SubscribeAdds ==
  ASSUME NEW topics \in SUBSET TopicSet, broker \in Brokers, session = "up", Subscribe(topics)
  PROVE  broker'.subs = broker.subs \cup topics /\ broker'.status = broker.status
BY DEF Subscribe, Brokers

\* A topic that is put into a map is excused until it is subscribed to.
LEMMA CallbackCovered ==
  ASSUME LinkAssumption, SessionInvariant, RegisterCallback
  PROVE  ClientInOrder' /\ Covered' /\ UNCHANGED <<session, handler, broker>>
<1>1. UNCHANGED <<session, handler, broker>> /\ maps' \subseteq maps \cup {Topics[boot.topic]}
  BY DEF RegisterCallback, connection, Hears
<1>2. boot'.at = "subscribe" /\ boot'.topic = boot.topic
  BY DEF RegisterCallback, SessionInvariant, LinkTypeOK, Bootings
<1>3. ClientInOrder'
  BY <1>1, <1>2 DEF SessionInvariant, ClientInOrder
<1>4. ASSUME session = "up", NEW i \in 1 .. Len(Topics), Topics[i] \in maps', handler = 0 \/ i < handler
      PROVE  Topics[i] \in broker.subs \/ boot.topic = i
  <2>1. CASE Topics[i] \in maps
    BY <1>4, <2>1 DEF SessionInvariant, Covered, RegisterCallback, BootAt
  <2>2. CASE Topics[i] = Topics[boot.topic]
    BY <2>2, TopicsInOrder, BootFields DEF SessionInvariant, LinkTypeOK
  <2> QED
    BY <1>1, <1>4, <2>1, <2>2
<1>5. Covered'
  BY <1>1, <1>2, <1>4 DEF Covered, BootAt
<1> QED
  BY <1>1, <1>3, <1>5

\* After its subscription the topic needs no excuse.
LEMMA SubscriptionCovered ==
  ASSUME LinkAssumption, SessionInvariant, RegisterSubscribes
  PROVE  ClientInOrder' /\ Covered' /\ UNCHANGED <<session, handler>>
         /\ (session = "up" => broker'.status = broker.status)
<1>1. UNCHANGED <<session, handler, maps>> /\ handler = 0 /\ BootAt("subscribe")
  BY DEF RegisterSubscribes
<1>2. Topics[boot.topic] \in TopicSet /\ broker \in Brokers
  BY TopicsInOrder, BootFields DEF SessionInvariant, LinkTypeOK
<1>3. ClientInOrder'
  <2>1. boot'.at \in {"insert", "done"}
    BY DEF RegisterSubscribes, SessionInvariant, LinkTypeOK, Bootings
  <2> QED
    BY <1>1, <2>1 DEF SessionInvariant, ClientInOrder
<1>4. ASSUME session = "up" PROVE Covered' /\ broker'.status = broker.status
  <2>1. broker'.subs = broker.subs \cup {Topics[boot.topic]} /\ broker'.status = broker.status
    BY <1>2, <1>4, SubscribeAdds DEF RegisterSubscribes
  <2>2. \A i \in 1 .. Len(Topics) : Topics[i] \in maps => Topics[i] \in broker'.subs
    BY <1>1, <1>4, <2>1 DEF Covered, SessionInvariant
  <2> QED
    BY <1>1, <2>1, <2>2 DEF Covered
<1>5. session # "up" => Covered'
  BY <1>1 DEF Covered
<1> QED
  BY <1>1, <1>3, <1>4, <1>5

\* The event handler goes over the maps topic by topic.
LEMMA HandlerCovers ==
  ASSUME LinkAssumption, SessionInvariant, Resubscribe
  PROVE  SessionInvariant'
<1>1. UNCHANGED <<boot, maps, session>> /\ handler \in 1 .. 5 /\ handler' = handler + 1
  BY TopicsInOrder DEF Resubscribe, bringUp, saved
<1>2. LinkTypeOK'
  BY NextTypes DEF SessionInvariant, Next, MqttTask
<1>3. ClientInOrder'
  BY <1>1 DEF SessionInvariant, ClientInOrder
<1>4. ASSUME session = "up", NEW i \in 1 .. Len(Topics), Topics[i] \in maps, i < handler + 1
      PROVE  Topics[i] \in broker'.subs \/ (BootAt("subscribe") /\ boot.topic = i)
  <2>1. broker'.subs = broker.subs \cup (maps \cap {Topics[handler]})
    BY <1>4, SubscribeAdds DEF Resubscribe, SessionInvariant, LinkTypeOK
  <2>2. CASE i = handler
    <3>1. Topics[handler] \in maps \cap {Topics[handler]}
      BY <1>4, <2>2
    <3> QED
      BY <2>1, <2>2, <3>1
  <2>3. CASE i < handler
    BY <1>4, <2>1, <2>3 DEF SessionInvariant, Covered
  <2> QED
    BY <1>1, <1>4, <2>2, <2>3, TopicsInOrder
<1>5. Covered'
  BY <1>1, <1>4 DEF Covered, BootAt
<1> QED
  BY <1>1, <1>2, <1>3, <1>5 DEF SessionInvariant

\* The handler ends with the birth message.
LEMMA BirthCompletes ==
  ASSUME LinkAssumption, SessionInvariant, PublishBirth
  PROVE  SessionInvariant'
<1>1. UNCHANGED <<boot, maps, session>> /\ handler = 6 /\ handler' = 0
  BY TopicsInOrder DEF PublishBirth, bringUp, saved
<1>2. LinkTypeOK'
  BY NextTypes DEF SessionInvariant, Next, MqttTask
<1>3. session = "up" => broker'.status = "online" /\ broker'.subs = broker.subs
  BY DEF PublishBirth, SessionInvariant, LinkTypeOK, Brokers
<1>4. ClientInOrder'
  BY <1>1 DEF SessionInvariant, ClientInOrder
<1>5. Covered'
  BY <1>1, <1>3, TopicsInOrder DEF SessionInvariant, Covered, BootAt
<1> QED
  BY <1>1, <1>2, <1>3, <1>4, <1>5 DEF SessionInvariant

LEMMA SessionInductive ==
  ASSUME LinkAssumption, SessionInvariant, [Next]_vars
  PROVE  SessionInvariant'
<1>1. LinkTypeOK'
  BY NextTypes DEF SessionInvariant
<1>2. CASE PersistIfChanged \/ Persist \/ ConnectionReady \/ PostAgain \/ PostFails \/ Registered \/ StoreToken
             \/ TypeAnswered
  BY <1>1, <1>2, BringUpKeepsSession DEF SessionInvariant
<1>3. CASE StartMessaging
  <2>1. boot'.at = "insert" /\ session' \in {"none", "down"} /\ handler' = 0
    BY <1>3, BootToTypes DEF StartMessaging, BootTo, BootAt, SessionInvariant, ClientInOrder
  <2> QED
    BY <1>1, <2>1 DEF SessionInvariant, ClientInOrder, Covered
<1>4. CASE RegisterCallback
  BY <1>1, <1>4, CallbackCovered DEF SessionInvariant
<1>5. CASE RegisterSubscribes
  BY <1>1, <1>5, SubscriptionCovered DEF SessionInvariant
<1>6. CASE Connect
  <2>1. UNCHANGED <<boot, maps>> /\ session' = "up" /\ handler' = 1
    BY <1>6 DEF Connect, bringUp, saved
  <2>2. boot.at \in {"insert", "subscribe", "done"}
    BY <1>6 DEF Connect, SessionInvariant, ClientInOrder
  <2>3. \A i \in 1 .. Len(Topics) : ~(i < 1)
    BY TopicsInOrder
  <2> QED
    BY <1>1, <2>1, <2>2, <2>3 DEF SessionInvariant, ClientInOrder, Covered
<1>7. CASE Resubscribe \/ PublishBirth
  BY <1>7, HandlerCovers, BirthCompletes
<1>8. CASE ConnectionBreaks \/ ClientNotices \/ BrokerNotices
  <2>1. UNCHANGED <<boot, maps, handler>> /\ session' # "up"
    BY <1>8 DEF ConnectionBreaks, ClientNotices, BrokerNotices, bringUp, saved
  <2>2. ClientInOrder'
    BY <1>8, <2>1 DEF ConnectionBreaks, ClientNotices, BrokerNotices, SessionInvariant, ClientInOrder
  <2> QED
    BY <1>1, <2>1, <2>2 DEF SessionInvariant, Covered
<1>9. CASE PowerCut
  <2>1. session' = "none" /\ handler' = 0
    BY <1>9 DEF PowerCut
  <2> QED
    BY <1>1, <2>1 DEF SessionInvariant, ClientInOrder, Covered
<1>10. CASE ServerSends \/ Data \/ Worker \/ AppSetsLevel \/ TimePasses \/ UNCHANGED vars
  <2>1. UNCHANGED <<boot, maps, session, handler, broker>>
    BY <1>10, LevelSteps DEF Worker, vars, bringUp, saved, connection
  <2> QED
    BY <1>1, <2>1 DEF SessionInvariant, ClientInOrder, Covered, BootAt
<1> QED
  BY <1>2, <1>3, <1>4, <1>5, <1>6, <1>7, <1>8, <1>9, <1>10 DEF Next, BootTask, MqttTask, World

\* A session that is up, when its event handler has run, has every topic that was registered
\* before, after or during it, and the device is shown as online
\* (WifiMqttController.cpp:111-164, :228-242).
THEOREM SessionIsCompleteHolds == Spec => []SessionIsComplete
<1>1. Init => SessionInvariant
  BY LinkAssumption, InitTypes DEF Init, SessionInvariant, ClientInOrder, Covered
<1>2. SessionInvariant /\ [Next]_vars => SessionInvariant'
  BY LinkAssumption, SessionInductive
<1>3. SessionInvariant => SessionIsComplete
  <2> SUFFICES ASSUME SessionInvariant, session = "up", handler = 0, NEW topic \in maps,
                      ~(BootAt("subscribe") /\ topic = Topics[boot.topic])
               PROVE  topic \in broker.subs
    BY DEF SessionIsComplete, SessionInvariant
  <2>1. PICK i \in 1 .. 5 : topic = Topics[i]
    BY TopicsInOrder DEF SessionInvariant, LinkTypeOK
  <2> QED
    BY <2>1, TopicsInOrder DEF SessionInvariant, Covered
<1> QED
  BY <1>1, <1>2, <1>3, PTL DEF Spec

-----------------------------------------------------------------------------
(* Registration                                                            *)

LEMMA RegistrationInductive ==
  ASSUME LinkAssumption, RegistrationInvariant, [Next]_vars
  PROVE  RegistrationInvariant'
<1> USE DEF RegistrationInvariant
<1>1. LinkTypeOK'
  BY NextTypes
<1>2. boot \in Bootings /\ credentials \in [account : Accounts, token : BOOLEAN]
  BY DEF LinkTypeOK
<1>3. CASE PersistIfChanged
  <2>1. UNCHANGED configured /\ boot'.at \in {"store", "connect"}
    BY <1>3, BootToTypes DEF PersistIfChanged, BootTo, bootRest
  <2>2. boot'.at = "connect" => credentials' = credentials /\ credentials.account = configured.account
    BY <1>3, BootToTypes DEF PersistIfChanged, BootTo, saved
  <2> QED
    BY <1>1, <2>1, <2>2
<1>4. CASE Persist
  <2>1. boot'.at = "connect" /\ UNCHANGED configured
    BY <1>4, BootToTypes DEF Persist, BootTo, bootRest
  <2>2. credentials'.account = configured.account \/ "account" \in unsaved'
    BY <1>4 DEF Persist, WriteCredentials, saved
  <2> QED
    BY <1>1, <2>1, <2>2
<1>5. CASE ConnectionReady
  <2>1. /\ boot.at = "connect" /\ boot'.at \in {"register", "messaging"}
        /\ UNCHANGED <<configured, credentials, unsaved>>
    BY <1>5, BootToTypes DEF ConnectionReady, BootAt, BootTo, bootRest, saved
  <2> QED
    BY <1>1, <2>1
<1>6. CASE PostAgain
  <2>1. boot'.at = boot.at /\ boot'.account = boot.account
        /\ UNCHANGED <<configured, credentials, unsaved, server>>
    BY <1>2, <1>6 DEF PostAgain, bootRest, saved, Bootings
  <2> QED
    BY <1>1, <2>1
<1>7. CASE PostFails /\ BootAt("register")
  <2>1. boot'.at = "register" /\ UNCHANGED <<configured, unsaved>> /\ credentials'.account = credentials.account
    BY <1>2, <1>7 DEF PostFails, bootRest, Bootings, BootAt
  <2> QED
    BY <1>1, <1>7, <2>1 DEF BootAt
<1>8. CASE TypeAnswered \/ (PostFails /\ ~BootAt("register"))
  <2>1. BootAt("types") /\ NextType /\ UNCHANGED <<configured, credentials, unsaved, server>>
    BY <1>8 DEF TypeAnswered, PostFails, Posting, Posts, Routes, bootRest, saved
  <2>2. boot'.at \in {"types", "messaging"}
    BY <1>2, <2>1, NextTypeTypes DEF BootAt
  <2> QED
    BY <1>1, <2>1, <2>2 DEF BootAt
<1>9. CASE Registered
  <2>1. /\ boot.at = "register" /\ boot'.at = "token" /\ boot'.account = credentials.account
        /\ server' = credentials.account /\ UNCHANGED configured
    BY <1>2, <1>9 DEF Registered, Posts, BootAt, Bootings, bootRest
  <2>2. unsaved \subseteq unsaved'
    BY <1>9 DEF Registered, OpenCredentials
  <2> QED
    BY <1>1, <2>1, <2>2
<1>10. CASE StoreToken
  <2>1. boot.at = "token" /\ boot'.at = "types" /\ UNCHANGED <<configured, server>>
    BY <1>10, BootToTypes DEF StoreToken, BootAt, BootTo, bootRest
  <2>2. /\ unsaved \subseteq unsaved'
        /\ credentials' = [account |-> boot.account, token |-> TRUE] \/ "token" \in unsaved'
    BY <1>10 DEF StoreToken, WriteCredentials, saved
  <2> QED
    BY <1>1, <2>1, <2>2
<1>11. CASE StartMessaging \/ RegisterCallback \/ RegisterSubscribes
  <2>1. boot'.at \in {"insert", "subscribe", "done"}
    <3>1. CASE StartMessaging
      BY <3>1, BootToTypes DEF StartMessaging, BootTo
    <3>2. CASE RegisterCallback
      BY <1>2, <3>2 DEF RegisterCallback, Bootings
    <3>3. CASE RegisterSubscribes
      BY <1>2, <3>3 DEF RegisterSubscribes, Bootings
    <3> QED
      BY <1>11, <3>1, <3>2, <3>3
  <2> QED
    BY <1>1, <2>1
<1>12. CASE PowerCut
  BY <1>1, <1>12 DEF PowerCut, Started
<1>13. CASE MqttTask \/ Worker \/ ConnectionBreaks \/ BrokerNotices \/ ServerSends \/ AppSetsLevel \/ TimePasses
              \/ UNCHANGED vars
  <2>1. UNCHANGED <<configured, credentials, unsaved, boot, server>>
    BY <1>13, LevelSteps DEF MqttTask, Connect, Resubscribe, PublishBirth, ClientNotices, ConnectionBreaks,
      BrokerNotices, Worker, vars, bringUp, saved
  <2> QED
    BY <1>1, <2>1
<1>14. CASE BootTask
  BY <1>3, <1>4, <1>5, <1>8, <1>9, <1>10, <1>11, <1>14 DEF BootTask
<1>15. CASE World
  BY <1>6, <1>7, <1>8, <1>12, <1>13, <1>15 DEF World
<1> QED
  BY <1>13, <1>14, <1>15 DEF Next

\* The device registers as what its firmware is configured to be unless this boot could not
\* store that, and its types under the account it registered, with the token of the last
\* answer, unless it could not store that, over any power cuts, failing saves, changes of the
\* configuration and lost answers (CommonSetup.cpp:48-60, :115,
\* AuthenticationController.cpp:56-102, Storage.cpp:174-178).
THEOREM RegistersAsConfiguredHolds == Spec => []RegistersAsConfigured
<1>1. Init => RegistrationInvariant
  <2> SUFFICES ASSUME Init PROVE RegistrationInvariant
    OBVIOUS
  <2>1. LinkTypeOK
    BY LinkAssumption, InitTypes
  <2>2. boot.at = "setup"
    BY DEF Init, Started
  <2> QED
    BY <2>1, <2>2 DEF RegistrationInvariant
<1>2. RegistrationInvariant /\ [Next]_vars => RegistrationInvariant'
  BY LinkAssumption, RegistrationInductive
<1>3. RegistrationInvariant => RegistersAsConfigured
  BY DEF RegistrationInvariant, RegistersAsConfigured, BootAt
<1> QED
  BY <1>1, <1>2, <1>3, PTL DEF Spec

-----------------------------------------------------------------------------
(* Levels                                                                  *)

LEMMA LeastOfSix ==
  ASSUME NEW S \in SUBSET (1 .. 6), 6 \in S
  PROVE  Min(S) \in S /\ \A y \in S : Min(S) <= y
<1>1. \E x \in S : \A y \in S : x <= y
  <2>1. CASE 1 \in S
    BY <2>1
  <2>2. CASE 1 \notin S /\ 2 \in S
    BY <2>2
  <2>3. CASE 1 \notin S /\ 2 \notin S /\ 3 \in S
    BY <2>3
  <2>4. CASE 1 \notin S /\ 2 \notin S /\ 3 \notin S /\ 4 \in S
    BY <2>4
  <2>5. CASE 1 \notin S /\ 2 \notin S /\ 3 \notin S /\ 4 \notin S /\ 5 \in S
    BY <2>5
  <2>6. CASE 1 \notin S /\ 2 \notin S /\ 3 \notin S /\ 4 \notin S /\ 5 \notin S
    BY <2>6
  <2> QED
    BY <2>1, <2>2, <2>3, <2>4, <2>5, <2>6
<1> QED
  BY <1>1 DEF Min

\* There is always an answer to what the level of a tag is.
LEMMA EffectiveType ==
  ASSUME LevelsAssumption, NEW t \in Tags, NEW at \in Nat,
         NEW c \in [Tags -> LevelValues \cup {Unset}], NEW r \in Tier, NEW x \in Ttls
  PROVE  Effective(t, at, c, r, x) \in LevelValues
<1> DEFINE valid(entry) == IF entry.until > at THEN entry.level ELSE Unset
           asked == <<valid(x.tags[t]), valid(x.default), r.tags[t], c[t], r.default, Capture>>
           set == {i \in DOMAIN asked : asked[i] # Unset}
<1>1. /\ valid(x.tags[t]) \in LevelValues \cup {Unset} /\ valid(x.default) \in LevelValues \cup {Unset}
      /\ r.tags[t] \in LevelValues \cup {Unset} /\ c[t] \in LevelValues \cup {Unset}
      /\ r.default \in LevelValues \cup {Unset} /\ Capture \in LevelValues /\ Capture # Unset
  BY DEF LevelsAssumption, Tier, Ttls, Entries
<1>2. DOMAIN asked = 1 .. 6 /\ asked[6] = Capture /\ \A i \in 1 .. 6 : asked[i] \in LevelValues \cup {Unset}
  <2> HIDE DEF valid
  <2> QED
    BY <1>1
<1>3. Effective(t, at, c, r, x) = asked[Min(set)]
  BY DEF Effective
<1> HIDE DEF asked
<1>4. Min(set) \in set
  BY <1>1, <1>2, LeastOfSix
<1> QED
  BY <1>2, <1>3, <1>4

\* With nothing from the server and nothing for a while, the code's level of a tag counts.
LEMMA EffectiveAtInit ==
  ASSUME LevelsAssumption, NEW t \in Tags, CodeLevels[t] # Unset
  PROVE  Effective(t, 0, CodeLevels, NoTier, NoTtl) = CodeLevels[t]
<1> DEFINE asked == <<Unset, Unset, Unset, CodeLevels[t], Unset, Capture>>
           set == {i \in DOMAIN asked : asked[i] # Unset}
<1>1. Effective(t, 0, CodeLevels, NoTier, NoTtl) = asked[Min(set)]
  BY DEF Effective, NoTier, NoTtl, Lapsed
<1>2. set = {4, 6}
  BY DEF LevelsAssumption
<1>3. Min(set) \in set /\ \A y \in set : Min(set) <= y
  <2> HIDE DEF set
  <2> QED
    BY <1>2, LeastOfSix
<1>4. Min(set) = 4
  <2> HIDE DEF set
  <2> QED
    BY <1>2, <1>3
<1> QED
  BY <1>1, <1>4

\* What Recomputed tells ESP-IDF is what the origins say now.
LEMMA RecomputedType ==
  ASSUME LevelsAssumption, NEW named, now \in Nat,
         NEW c \in [Tags -> LevelValues \cup {Unset}], NEW r \in Tier, NEW x \in Ttls
  PROVE  /\ Recomputed(named, c, r, x) \in [Tags -> LevelValues \cup {Unset}]
         /\ \A t \in Tags : Recomputed(named, c, r, x)[t] # Unset =>
              Recomputed(named, c, r, x)[t] = Effective(t, now, c, r, x)
BY EffectiveType DEF Recomputed

\* The ceiling lets through what a sink that is on shows, and no more than one of them or
\* the capture asks for.
LEMMA CeilingType ==
  ASSUME LevelsAssumption, NEW s \in [SinkNames -> [enabled : BOOLEAN, level : LevelValues]]
  PROVE  /\ Ceiling(s) \in LevelValues
         /\ \A k \in SinkNames : s[k].enabled => s[k].level <= Ceiling(s)
         /\ Ceiling(s) = Capture \/ \E k \in SinkNames : s[k].enabled /\ s[k].level = Ceiling(s)
<1> DEFINE S == {Capture} \cup {s[k].level : k \in {x \in SinkNames : s[x].enabled}}
           l(k) == IF s[k].enabled THEN s[k].level ELSE Capture
<1>1. Capture \in LevelValues /\ LevelValues \subseteq Nat
  BY DEF LevelsAssumption
<1>2. \A k \in SinkNames : s[k].level \in LevelValues
  OBVIOUS
<1>3. S = {Capture, l("console"), l("flash"), l("sd")}
  BY DEF SinkNames
<1>4. l("console") \in Nat /\ l("flash") \in Nat /\ l("sd") \in Nat /\ Capture \in Nat
  BY <1>1, <1>2 DEF SinkNames
<1>5. \E x \in S : \A y \in S : x >= y
  <2> HIDE DEF S, l
  <2>1. CASE Capture >= l("console") /\ Capture >= l("flash") /\ Capture >= l("sd")
    BY <1>3, <1>4, <2>1
  <2>2. CASE l("console") >= Capture /\ l("console") >= l("flash") /\ l("console") >= l("sd")
    BY <1>3, <1>4, <2>2
  <2>3. CASE l("flash") >= l("console") /\ l("flash") >= Capture /\ l("flash") >= l("sd")
    BY <1>3, <1>4, <2>3
  <2>4. CASE l("sd") >= l("console") /\ l("sd") >= l("flash") /\ l("sd") >= Capture
    BY <1>3, <1>4, <2>4
  <2> QED
    BY <1>4, <2>1, <2>2, <2>3, <2>4
<1>6. Ceiling(s) = Max(S)
  BY DEF Ceiling
<1>7. Max(S) \in S /\ \A y \in S : Max(S) >= y
  <2> HIDE DEF S
  <2> QED
    BY <1>5 DEF Max
<1>8. \A k \in SinkNames : s[k].enabled => s[k].level \in S
  OBVIOUS
<1>9. \A v \in S : v \in LevelValues /\ (v = Capture \/ \E k \in SinkNames : s[k].enabled /\ s[k].level = v)
  BY <1>1, <1>2
<1> HIDE DEF S
<1> QED
  BY <1>1, <1>2, <1>6, <1>7, <1>8, <1>9

LEMMA TiersKnown ==
  ASSUME LevelsAssumption
  PROVE  /\ NoTier \in Tier /\ NoTtl \in Ttls
         /\ \A c \in Configs : TierOf(c) \in Tier
         /\ \A f : Loaded(f) \in Tier
         /\ \A c \in Configs : c.fits => Loaded(c) = TierOf(c)
         /\ Loaded(NoConfig) = NoTier
<1>1. NoTier \in Tier
  BY DEF NoTier, Tier
<1>2. NoTtl \in Ttls
  BY DEF NoTtl, Lapsed, Ttls, Entries
<1>3. \A c \in Configs : TierOf(c) \in Tier
  BY DEF LevelsAssumption, TierOf, Tier
<1> QED
  BY <1>1, <1>2, <1>3 DEF Loaded, LevelsAssumption

LEMMA SinksKnown ==
  ASSUME LevelsAssumption
  PROVE  SinksAtBoot \in [SinkNames -> [enabled : BOOLEAN, level : LevelValues]]
<1>1. Info \in LevelValues /\ Capture \in LevelValues /\ LevelValues \subseteq Nat
  BY DEF LevelsAssumption
<1>2. Max({Info, Capture}) \in {Info, Capture}
  <2>1. \E x \in {Info, Capture} : \A y \in {Info, Capture} : x >= y
    BY <1>1
  <2> QED
    BY <2>1 DEF Max
<1>3. Max({Info, Capture}) \in LevelValues
  BY <1>1, <1>2
<1> QED
  BY <1>1, <1>3 DEF SinksAtBoot

\* An answer of this moment is one of the time up to now.
LEMMA AskedNow ==
  ASSUME LevelsAssumption, LevelsTypeOK, NEW named, now' = now,
         code' \in [Tags -> LevelValues \cup {Unset}], remote' \in Tier, ttl' \in Ttls,
         esp' = Recomputed(named, code', remote', ttl'),
         sinks' \in [SinkNames -> [enabled : BOOLEAN, level : LevelValues]], ceiling' = Ceiling(sinks'),
         file' \in {NoConfig, Torn} \cup Configs, unstored' = unstored
  PROVE  LevelsInOrder'
<1>1. now \in Nat /\ now \in 0 .. now
  BY DEF LevelsTypeOK, LevelsAssumption
<1>2. /\ esp' \in [Tags -> LevelValues \cup {Unset}]
      /\ \A t \in Tags : esp'[t] # Unset => esp'[t] = Effective(t, now, code', remote', ttl')
  BY <1>1, RecomputedType
<1>3. ceiling' \in LevelValues
  BY CeilingType
<1>4. LevelsTypeOK'
  BY <1>2, <1>3 DEF LevelsTypeOK, Ttls
<1>5. \E at \in 0 .. now' : \A t \in Tags : esp'[t] # Unset => esp'[t] = Effective(t, at, code', remote', ttl')
  BY <1>1, <1>2
<1> QED
  BY <1>4, <1>5 DEF LevelsInOrder, Effective

\* Power-on, with any file.
LEMMA LevelsStart ==
  ASSUME LevelsAssumption, LevelsInit
  PROVE  LevelsInOrder
<1>1. ceiling \in LevelValues
  BY SinksKnown, CeilingType DEF LevelsInit
<1>2. /\ esp \in [Tags -> LevelValues \cup {Unset}] /\ code \in [Tags -> LevelValues \cup {Unset}]
  BY DEF LevelsInit, LevelsAssumption
<1>3. \A t \in Tags : esp[t] # Unset => esp[t] = Effective(t, 0, code, remote, ttl)
  BY EffectiveAtInit DEF LevelsInit
<1>4. 0 \in 0 .. now /\ now \in 0 .. MaxNow
  BY DEF LevelsInit, LevelsAssumption
<1> QED
  BY <1>1, <1>2, <1>3, <1>4, TiersKnown, SinksKnown DEF LevelsInit, LevelsInOrder, LevelsTypeOK, Ttls

LEMMA LevelsRestart ==
  ASSUME LevelsAssumption, LevelsInOrder, LevelsAtBoot(file), file' = file
  PROVE  LevelsInOrder'
<1>1. CodeLevels \in [Tags -> LevelValues \cup {Unset}] /\ Loaded(file) \in Tier /\ NoTtl \in Ttls
  BY TiersKnown DEF LevelsAssumption
<1>2. \A t \in Tags : Effective(t, 0, CodeLevels, Loaded(file), NoTtl) \in LevelValues
  BY <1>1, EffectiveType
<1>3. /\ esp' \in [Tags -> LevelValues \cup {Unset}]
      /\ \A t \in Tags : esp'[t] # Unset => esp'[t] = Effective(t, 0, CodeLevels, Loaded(file), NoTtl)
  BY <1>2 DEF LevelsAtBoot
<1>4. /\ code' = CodeLevels /\ remote' = Loaded(file) /\ ttl' = NoTtl /\ sinks' = SinksAtBoot
      /\ ceiling' = Ceiling(SinksAtBoot) /\ now' = 0 /\ unstored' = FALSE
  BY DEF LevelsAtBoot
<1>5. ceiling' \in LevelValues /\ 0 \in 0 .. now' /\ now' \in 0 .. MaxNow
  BY <1>4, SinksKnown, CeilingType DEF LevelsAssumption
<1>6. LevelsTypeOK'
  BY <1>1, <1>3, <1>4, <1>5, SinksKnown DEF LevelsTypeOK, LevelsInOrder, Ttls
<1> QED
  BY SMTT(30), <1>3, <1>4, <1>5, <1>6 DEF LevelsInOrder, Effective

\* A level set by the application.
LEMMA SetLevelInOrder ==
  ASSUME LevelsAssumption, LevelsInOrder, NEW t \in Tags, NEW level \in LevelValues, NEW ttlSec \in Nat,
         SetLevel(t, level, ttlSec)
  PROVE  LevelsInOrder'
<1>1. now \in Nat /\ code \in [Tags -> LevelValues \cup {Unset}] /\ remote \in Tier /\ ttl \in Ttls
  BY DEF LevelsInOrder, LevelsTypeOK, LevelsAssumption, Ttls
<1>2. [code EXCEPT ![t] = level] \in [Tags -> LevelValues \cup {Unset}]
  BY <1>1
<1>3. [ttl EXCEPT !.tags[t] = [level |-> level, until |-> now + ttlSec]] \in Ttls
  <2>1. [level |-> level, until |-> now + ttlSec] \in Entries
    BY <1>1 DEF Entries
  <2> QED
    BY <1>1, <2>1 DEF Ttls
<1>4. /\ code' \in {code, [code EXCEPT ![t] = level]}
      /\ ttl' \in {ttl, [ttl EXCEPT !.tags[t] = [level |-> level, until |-> now + ttlSec]]}
      /\ esp' = Recomputed({t}, code', remote, ttl')
      /\ UNCHANGED <<now, remote, sinks, ceiling, file, unstored>>
  BY DEF SetLevel, storage
<1>5. ceiling' = Ceiling(sinks')
  BY <1>4 DEF LevelsInOrder, Ceiling
<1> QED
  BY <1>1, <1>2, <1>3, <1>4, <1>5, AskedNow DEF LevelsInOrder, LevelsTypeOK

\* A sink changed by the application.
LEMMA SetSinksInOrder ==
  ASSUME LevelsAssumption, LevelsInOrder, SetSinks(sinks'),
         sinks' \in [SinkNames -> [enabled : BOOLEAN, level : LevelValues]]
  PROVE  LevelsInOrder'
<1>1. code \in [Tags -> LevelValues \cup {Unset}] /\ remote \in Tier /\ ttl \in Ttls
  BY DEF LevelsInOrder, LevelsTypeOK, Ttls
<1>2. /\ esp' = Recomputed({}, code, remote, ttl) /\ ceiling' = Ceiling(sinks')
      /\ UNCHANGED <<now, code, remote, ttl, file, unstored>>
  BY DEF SetSinks, origins, storage
<1> QED
  BY <1>1, <1>2, AskedNow DEF LevelsInOrder, LevelsTypeOK

\* A configuration of the server, for good or for a while.
LEMMA ConfigInOrder ==
  ASSUME LevelsAssumption, LevelsInOrder, NEW c \in Configs, ApplyParsed(c) \/ ApplyTemporary(c),
         UNCHANGED <<now, code, sinks, ceiling, file, unstored>>
  PROVE  LevelsInOrder'
<1>1. now \in Nat /\ code \in [Tags -> LevelValues \cup {Unset}] /\ remote \in Tier /\ ttl \in Ttls
  BY DEF LevelsInOrder, LevelsTypeOK, LevelsAssumption, Ttls
<1>2. ceiling' = Ceiling(sinks')
  BY DEF LevelsInOrder, Ceiling
<1>3. CASE ApplyParsed(c)
  <2>1. remote' = TierOf(c) /\ ttl' = ttl /\ esp' = Recomputed(Named(c.tags), code', remote', ttl')
    BY <1>3 DEF ApplyParsed
  <2> QED
    BY <1>1, <1>2, <2>1, TiersKnown, AskedNow DEF LevelsInOrder, LevelsTypeOK
<1>4. CASE ApplyTemporary(c)
  <2> DEFINE until == now + c.ttlSec
             entry(level, old) == IF level # Unset THEN [level |-> level, until |-> until] ELSE old
             x == [default |-> entry(c.default, ttl.default),
                   tags |-> [t \in Tags |-> entry(c.tags[t], ttl.tags[t])]]
  <2>1. c.default \in LevelValues \cup {Unset} /\ c.tags \in [Tags -> LevelValues \cup {Unset}] /\ c.ttlSec \in Nat
    BY DEF LevelsAssumption
  <2>2. \A level \in LevelValues \cup {Unset}, old \in Entries : entry(level, old) \in Entries
    BY <1>1, <2>1 DEF Entries
  <2>3. x \in Ttls
    <3>1. ttl.default \in Entries /\ \A t \in Tags : ttl.tags[t] \in Entries
      BY <1>1 DEF Ttls
    <3>2. entry(c.default, ttl.default) \in Entries
      BY <2>1, <2>2, <3>1
    <3>3. \A t \in Tags : entry(c.tags[t], ttl.tags[t]) \in Entries
      BY <2>1, <2>2, <3>1
    <3> HIDE DEF entry
    <3> QED
      BY <3>2, <3>3 DEF Ttls
  <2>4. remote' = remote /\ ttl' = x /\ esp' = Recomputed(Named(c.tags), code', remote', ttl')
    BY <1>4 DEF ApplyTemporary
  <2> HIDE DEF x
  <2> QED
    BY <1>1, <1>2, <2>3, <2>4, AskedNow DEF LevelsInOrder, LevelsTypeOK
<1> QED
  BY <1>3, <1>4

\* A step that changes neither origins nor sinks.
LEMMA LevelsKept ==
  ASSUME LevelsAssumption, LevelsInOrder, UNCHANGED <<origins, sinks, esp, ceiling>>,
         now' \in now .. MaxNow, file' \in {NoConfig, Torn} \cup Configs, unstored' \in BOOLEAN
  PROVE  LevelsInOrder'
<1>1. UNCHANGED <<code, remote, ttl, sinks, esp, ceiling>>
  BY DEF origins
<1>2. LevelsTypeOK'
  BY <1>1 DEF LevelsInOrder, LevelsTypeOK, LevelsAssumption
<1>3. PICK at \in 0 .. now : \A t \in Tags : esp[t] # Unset => esp[t] = Effective(t, at, code, remote, ttl)
  BY DEF LevelsInOrder
<1>4. at \in 0 .. now'
  BY DEF LevelsInOrder, LevelsTypeOK, LevelsAssumption
<1>5. \A t \in Tags : esp'[t] # Unset => esp'[t] = Effective(t, at, code', remote', ttl')
  BY <1>1, <1>3
<1>6. ceiling' = Ceiling(sinks')
  BY <1>1 DEF LevelsInOrder
<1> QED
  BY <1>2, <1>4, <1>5, <1>6 DEF LevelsInOrder, Effective, Ceiling

\* Queues of messages, at both ends.
LEMMA QueueTypes ==
  ASSUME NEW s \in Seq(Messages)
  PROVE  /\ \A m \in Messages : Append(s, m) \in Seq(Messages) /\ Len(Append(s, m)) = Len(s) + 1
         /\ s # <<>> => Head(s) \in Messages /\ Tail(s) \in Seq(Messages) /\ Len(Tail(s)) = Len(s) - 1
         /\ Len(s) \in Nat
BY AppendProperties, HeadTailProperties, LenProperties, EmptySeq

\* Queues, worker and the retained message keep their types.
LEMMA DeliveryNext ==
  ASSUME LinkAssumption, LinkTypeOK, DeliveryTypeOK, [Next]_vars
  PROVE  DeliveryTypeOK'
<1> USE DEF DeliveryTypeOK
<1>0. /\ Configs \subseteq Messages /\ Other \in Messages /\ MessageRoom \in Nat
      /\ Idle \in [pc : {"idle", "apply", "open", "write"}, msg : Messages] /\ <<>> \in Seq(Messages) /\ Len(<<>>) = 0
  BY DEF Messages, Idle, LinkAssumption
<1>1. CASE RegisterSubscribes \/ Resubscribe
  <2>1. stream' \in {stream, Append(stream, retained)} /\ UNCHANGED <<retained, messages, worker, missed>>
        /\ (stream' # stream => retained # NoConfig)
    BY <1>1 DEF RegisterSubscribes, Resubscribe, Subscribe
  <2>2. retained # NoConfig => Append(stream, retained) \in Seq(Messages)
    BY <1>0, QueueTypes
  <2> QED
    BY <2>1, <2>2
<1>2. CASE ConnectionBreaks
  BY <1>0, <1>2 DEF ConnectionBreaks
<1>3. CASE ServerSends
  <2>1. /\ UNCHANGED <<messages, worker, missed>>
        /\ \E m \in Configs \cup {Other} : stream' \in {stream, Append(stream, m)}
        /\ retained' \in Configs \cup {retained}
    <3>1. UNCHANGED <<messages, worker, missed>>
      BY <1>3 DEF ServerSends
    <3>2. CASE \E c \in Configs : retained' = c
                 /\ stream' = IF session = "up" /\ "log_config" \in broker.subs THEN Append(stream, c) ELSE stream
      BY <3>1, <3>2
    <3>3. CASE stream' = Append(stream, Other) /\ UNCHANGED retained
      BY <3>1, <3>3
    <3> QED
      BY <1>3, <3>2, <3>3 DEF ServerSends
  <2> QED
    BY ZenonT(40), <1>0, <2>1, QueueTypes
<1>4. CASE Data
  <2>1. /\ stream # <<>> /\ stream' = Tail(stream) /\ UNCHANGED <<retained, worker>>
        /\ messages' = IF Len(messages) < MessageRoom THEN Append(messages, Head(stream)) ELSE messages
        /\ missed' \in {missed, Len(messages) = MessageRoom}
    BY <1>4 DEF Data
  <2>2. missed' \in BOOLEAN
    BY <2>1
  <2>3. stream' \in Seq(Messages) /\ Head(stream) \in Messages
    BY <2>1, QueueTypes
  <2>4. messages' \in Seq(Messages) /\ Len(messages') <= MessageRoom
    <3>1. CASE Len(messages) < MessageRoom
      <4>1. messages' = Append(messages, Head(stream))
        BY <2>1, <3>1
      <4>2. messages' \in Seq(Messages) /\ Len(messages') = Len(messages) + 1 /\ Len(messages) \in Nat
        BY <2>3, <4>1, QueueTypes
      <4> QED
        BY <1>0, <3>1, <4>2
    <3>2. CASE ~(Len(messages) < MessageRoom)
      BY <2>1, <3>2
    <3> QED
      BY <3>1, <3>2
  <2> QED
    BY <2>1, <2>2, <2>3, <2>4
<1>5. CASE WorkerReceive
  <2>1. /\ messages # <<>> /\ messages' = Tail(messages) /\ UNCHANGED <<retained, stream, missed>>
        /\ worker' \in {[pc |-> "apply", msg |-> Head(messages)], Idle}
    BY <1>5 DEF WorkerReceive
  <2>2. Tail(messages) \in Seq(Messages) /\ Len(Tail(messages)) <= MessageRoom /\ Head(messages) \in Messages
    BY <1>0, <2>1, QueueTypes
  <2> QED
    BY <1>0, <2>1, <2>2
<1>6. CASE Apply \/ StoreBegins \/ StoreEnds
  BY <1>0, <1>6 DEF Apply, StoreBegins, StoreEnds
<1>7. CASE PowerCut
  <2>1. stream' = <<>> /\ messages' = <<>> /\ worker' = Idle /\ missed' = FALSE /\ retained' = retained
    BY <1>7 DEF PowerCut
  <2>2. Len(messages') <= MessageRoom
    BY <1>0, <2>1
  <2> QED
    BY <1>0, <2>1, <2>2
<1>8. CASE UNCHANGED delivery
  BY <1>8 DEF delivery
<1> QED
  BY <1>1, <1>2, <1>3, <1>4, <1>5, <1>6, <1>7, <1>8 DEF Next, BootTask, MqttTask, Worker, World, vars,
     PersistIfChanged, Persist, ConnectionReady, Registered, StoreToken, TypeAnswered, StartMessaging, RegisterCallback,
     Connect, PublishBirth, ClientNotices, BrokerNotices, PostAgain, PostFails, AppSetsLevel, TimePasses, bootRest, saved

\* Every change of a level goes through one that tells ESP-IDF.
LEMMA LevelsNext ==
  ASSUME LinkAssumption, LevelsAssumption, LevelsInvariant, [Next]_vars
  PROVE  LevelsInOrder' /\ WorkerInOrder'
<1>0. LinkTypeOK /\ DeliveryTypeOK /\ LevelsInOrder /\ WorkerInOrder
  BY DEF LevelsInvariant
<1>1. CASE AppSetsLevel
  <2>1. worker' = worker
    BY <1>1 DEF AppSetsLevel, delivery
  <2>2. CASE \E t \in Tags, ttlSec \in {0, 1} : SetLevel(t, AppLevel, ttlSec)
    <3>1. PICK t \in Tags, ttlSec \in {0, 1} : SetLevel(t, AppLevel, ttlSec)
      BY <2>2
    <3>2. LevelsInOrder'
      BY <1>0, <3>1, SetLevelInOrder DEF LinkAssumption
    <3>3. UNCHANGED <<remote, file, unstored>>
      BY <3>1 DEF SetLevel, storage
    <3> QED
      BY <1>0, <2>1, <3>2, <3>3 DEF WorkerInOrder, StoredOrFailed, Loaded, TierOf
  <2>3. CASE \E k \in AppSinks : SinkOff(k) \/ SinkLevel(k, AppLevel) \/ SinkDetail(k) \/ Only(k, AppLevel)
    <3>1. PICK k \in AppSinks : SinkOff(k) \/ SinkLevel(k, AppLevel) \/ SinkDetail(k) \/ Only(k, AppLevel)
      BY <2>3
    <3>2. SetSinks(sinks') /\ UNCHANGED <<remote, file, unstored>>
      BY <3>1 DEF SinkOff, SinkLevel, SinkDetail, Only, SetSinks, origins, storage
    <3>3. sinks \in [SinkNames -> [enabled : BOOLEAN, level : LevelValues]] /\ k \in SinkNames /\ AppLevel \in LevelValues
      BY <1>0 DEF LevelsInOrder, LevelsTypeOK, LinkAssumption
    <3>4. sinks' \in [SinkNames -> [enabled : BOOLEAN, level : LevelValues]]
      <4>1. CASE SinkOff(k)
        BY <3>3, <4>1 DEF SinkOff, SetSinks
      <4>2. CASE SinkLevel(k, AppLevel)
        BY <3>3, <4>2 DEF SinkLevel, SetSinks
      <4>3. CASE SinkDetail(k)
        BY <3>3, <4>3 DEF SinkDetail, SetSinks
      <4>4. CASE Only(k, AppLevel)
        BY <3>3, <4>4 DEF Only, SetSinks
      <4> QED
        BY <3>1, <4>1, <4>2, <4>3, <4>4
    <3>5. LevelsInOrder'
      BY <1>0, <3>2, <3>4, SetSinksInOrder
    <3> QED
      BY <1>0, <2>1, <3>2, <3>5 DEF WorkerInOrder, StoredOrFailed, Loaded, TierOf
  <2> QED
    BY <1>1, <2>2, <2>3 DEF AppSetsLevel
<1>2. CASE Apply
  <2>1. /\ worker.pc = "apply" /\ worker.msg \in Configs /\ StoredOrFailed
        /\ UNCHANGED <<now, code, sinks, ceiling, file, unstored>>
    BY <1>0, <1>2 DEF Apply, WorkerInOrder, storage
  <2>2. LevelsInOrder'
    <3>1. ApplyParsed(worker.msg) \/ ApplyTemporary(worker.msg)
      BY <1>2 DEF Apply
    <3> QED
      BY <1>0, <2>1, <3>1, ConfigInOrder
  <2>3. CASE worker.msg.ttlSec = 0
    <3>1. remote' = TierOf(worker.msg) /\ worker' = [worker EXCEPT !.pc = "open"]
      BY <1>2, <2>3 DEF Apply, ApplyParsed
    <3>2. worker'.pc = "open" /\ worker'.msg = worker.msg
      BY <1>0, <3>1 DEF DeliveryTypeOK
    <3> QED
      BY <2>1, <2>2, <3>1, <3>2 DEF WorkerInOrder, TierOf
  <2>4. CASE worker.msg.ttlSec # 0
    <3>1. remote' = remote /\ worker' = Idle
      BY <1>2, <2>4 DEF Apply, ApplyTemporary
    <3> QED
      BY <2>1, <2>2, <3>1 DEF WorkerInOrder, StoredOrFailed, Idle, Loaded, TierOf
  <2> QED
    BY <2>3, <2>4
<1>3. CASE StoreBegins
  <2>1. /\ UNCHANGED <<now, origins, sinks, esp, ceiling>> /\ worker.pc = "open"
        /\ file' \in {Torn, file} /\ unstored' \in BOOLEAN
        /\ \/ worker' = [worker EXCEPT !.pc = "write"]
           \/ worker' = Idle /\ unstored'
    BY <1>0, <1>3 DEF StoreBegins, OpenFile, LevelsInOrder, LevelsTypeOK
  <2>2. now' \in now .. MaxNow /\ file' \in {NoConfig, Torn} \cup Configs
    BY <1>0, <2>1 DEF LevelsInOrder, LevelsTypeOK, LevelsAssumption
  <2>3. LevelsInOrder'
    BY <1>0, <2>1, <2>2, LevelsKept
  <2>4. CASE worker' = [worker EXCEPT !.pc = "write"]
    <3>1. worker'.pc = "write" /\ worker'.msg = worker.msg
      BY <1>0, <2>4 DEF DeliveryTypeOK
    <3> QED
      BY <1>0, <2>1, <2>3, <3>1 DEF WorkerInOrder, TierOf, origins
  <2>5. CASE worker' = Idle /\ unstored'
    BY <2>3, <2>5 DEF WorkerInOrder, StoredOrFailed, Idle
  <2> QED
    BY <2>1, <2>4, <2>5
<1>4. CASE StoreEnds
  <2>1. /\ UNCHANGED <<now, origins, sinks, esp, ceiling>> /\ worker.pc = "write" /\ worker' = Idle
        /\ unstored' \in BOOLEAN /\ file' \in {Torn, worker.msg}
        /\ file' = worker.msg \/ unstored'
    BY <1>4 DEF StoreEnds, WriteFile
  <2>2. worker.msg \in Configs /\ remote' = TierOf(worker.msg)
    BY <1>0, <2>1 DEF WorkerInOrder, origins
  <2>3. now' \in now .. MaxNow /\ file' \in {NoConfig, Torn} \cup Configs
    BY <1>0, <2>1, <2>2 DEF LevelsInOrder, LevelsTypeOK, LevelsAssumption
  <2>4. LevelsInOrder'
    BY <1>0, <2>1, <2>3, LevelsKept
  <2>5. StoredOrFailed'
    <3>1. CASE file' = worker.msg /\ worker.msg.fits
      BY <2>2, <3>1, TiersKnown DEF StoredOrFailed, Loaded
    <3>2. CASE file' = worker.msg /\ ~worker.msg.fits
      BY <2>2, <3>2 DEF StoredOrFailed, TierOf
    <3>3. CASE unstored'
      BY <3>3 DEF StoredOrFailed
    <3> QED
      BY <2>1, <3>1, <3>2, <3>3
  <2> QED
    BY <2>1, <2>4, <2>5 DEF WorkerInOrder, Idle
<1>5. CASE PowerCut
  <2>1. LevelsAtBoot(file) /\ file' = file /\ worker' = Idle
    BY <1>5 DEF PowerCut
  <2>2. remote' = Loaded(file)
    BY <2>1 DEF LevelsAtBoot
  <2> QED
    BY <1>0, <2>1, <2>2, LevelsRestart DEF WorkerInOrder, StoredOrFailed, Idle, Loaded, TierOf
<1>6. CASE TimePasses
  <2>1. now' = now + 1 /\ now < MaxNow /\ UNCHANGED <<origins, sinks, esp, ceiling, file, unstored, worker>>
    BY <1>6 DEF TimePasses, Tick, delivery, storage
  <2>2. now' \in now .. MaxNow /\ file' \in {NoConfig, Torn} \cup Configs /\ unstored' \in BOOLEAN
    BY <1>0, <2>1 DEF LevelsInOrder, LevelsTypeOK, LevelsAssumption
  <2>3. LevelsInOrder'
    BY <1>0, <2>1, <2>2, LevelsKept
  <2> QED
    BY <1>0, <2>1, <2>3 DEF WorkerInOrder, StoredOrFailed, Loaded, TierOf, origins
<1>7. CASE WorkerReceive
  <2>1. UNCHANGED levelVars /\ worker.pc = "idle"
        /\ worker' \in {Idle, [pc |-> "apply", msg |-> Head(messages)]} /\ (worker' # Idle => Head(messages) \in Configs)
    BY <1>7 DEF WorkerReceive
  <2>2. now' \in now .. MaxNow /\ file' \in {NoConfig, Torn} \cup Configs /\ unstored' \in BOOLEAN
    BY <1>0, <2>1 DEF LevelsInOrder, LevelsTypeOK, LevelsAssumption, levelVars, storage
  <2>3. LevelsInOrder'
    BY <1>0, <2>1, <2>2, LevelsKept DEF levelVars, storage
  <2> QED
    BY <1>0, <2>1, <2>3 DEF WorkerInOrder, StoredOrFailed, Loaded, TierOf, levelVars, storage, origins, Idle
<1>8. CASE UNCHANGED <<levelVars, worker>>
  <2>1. now' \in now .. MaxNow /\ file' \in {NoConfig, Torn} \cup Configs /\ unstored' \in BOOLEAN
    BY <1>0, <1>8 DEF LevelsInOrder, LevelsTypeOK, LevelsAssumption, levelVars, storage
  <2>2. LevelsInOrder'
    BY <1>0, <1>8, <2>1, LevelsKept DEF levelVars, storage
  <2> QED
    BY <1>0, <1>8, <2>2 DEF WorkerInOrder, StoredOrFailed, Loaded, TierOf, levelVars, storage, origins
<1> QED
  BY <1>1, <1>2, <1>3, <1>4, <1>5, <1>6, <1>7, <1>8 DEF Next, BootTask, MqttTask, Worker, World, vars, delivery,
     PersistIfChanged, Persist, ConnectionReady, Registered, StoreToken, TypeAnswered, StartMessaging, RegisterCallback,
     RegisterSubscribes, Connect, Resubscribe, PublishBirth, ClientNotices, Data, ConnectionBreaks, BrokerNotices, ServerSends,
     PostAgain, PostFails, bootRest, saved

\* Whatever arrives, is stored, is cut off or runs out, levels and their storage are in order: the
\* inductive invariant.
THEOREM LevelsInvariantHolds == Spec => []LevelsInvariant
<1>1. Init => LevelsInvariant
  <2> SUFFICES ASSUME Init PROVE LevelsInvariant
    OBVIOUS
  <2>1. LinkTypeOK /\ LevelsInOrder
    BY LinkAssumption, LevelsAssumption, InitTypes, LevelsStart DEF Init
  <2>2. DeliveryTypeOK
    <3>1. /\ retained = NoConfig /\ stream = <<>> /\ messages = <<>> /\ worker = Idle /\ missed = FALSE
      BY DEF Init
    <3>2. Idle \in [pc : {"idle", "apply", "open", "write"}, msg : Messages]
      BY DEF Idle, Messages
    <3>3. <<>> \in Seq(Messages) /\ Len(<<>>) = 0 /\ MessageRoom \in Nat
      BY LinkAssumption DEF LinkAssumption
    <3>4. Len(messages) <= MessageRoom
      BY <3>1, <3>3
    <3>5. stream \in Seq(Messages) /\ messages \in Seq(Messages)
      BY <3>1, <3>3
    <3> QED
      BY <3>1, <3>2, <3>4, <3>5 DEF DeliveryTypeOK
  <2>3. WorkerInOrder
    BY LevelsAssumption, TiersKnown DEF Init, LevelsInit, WorkerInOrder, StoredOrFailed, Idle
  <2> QED
    BY <2>1, <2>2, <2>3 DEF LevelsInvariant
<1>2. LevelsInvariant /\ [Next]_vars => LevelsInvariant'
  <2> SUFFICES ASSUME LevelsInvariant, [Next]_vars PROVE LevelsInvariant'
    OBVIOUS
  <2>1. LinkTypeOK' /\ DeliveryTypeOK' /\ LevelsInOrder' /\ WorkerInOrder'
    BY LinkAssumption, LevelsAssumption, NextTypes, DeliveryNext, LevelsNext DEF LevelsInvariant
  <2> QED
    BY <2>1 DEF LevelsInvariant
<1> QED
  BY <1>1, <1>2, PTL DEF Spec

\* Every variable of bring-up, connection, delivery and levels keeps its type; the worker's queue
\* its room (WifiMqttController.cpp:20, :211).
THEOREM TypeOKHolds == Spec => []TypeOK
<1>1. LevelsInvariant => TypeOK
  BY DEF LevelsInvariant, LevelsInOrder, TypeOK
<1> QED
  BY <1>1, LevelsInvariantHolds, PTL

\* A restart brings back the remote levels in effect, unless storing them failed, or they are
\* in the file and too long to be read; ESP-IDF was told of each tag what the origins said at
\* one and the same time, and its ceiling lets through what some sink shows and no more
\* (Log.cpp:97-139, :214-232, :249-287).
THEOREM LevelsAreAsAskedHolds == Spec => []LevelsAreAsAsked
<1>1. LevelsInvariant => LevelsAreAsAsked
  <2> SUFFICES ASSUME LevelsInvariant PROVE LevelsAreAsAsked
    OBVIOUS
  <2>1. sinks \in [SinkNames -> [enabled : BOOLEAN, level : LevelValues]] /\ ceiling = Ceiling(sinks)
    BY DEF LevelsInvariant, LevelsInOrder, LevelsTypeOK
  <2>2. /\ \A k \in SinkNames : sinks[k].enabled => sinks[k].level <= ceiling
        /\ ceiling = Capture \/ \E k \in SinkNames : sinks[k].enabled /\ sinks[k].level = ceiling
    BY <2>1, LevelsAssumption, CeilingType
  <2>3. ceiling > Capture => ceiling # Capture
    <3>1. Capture \in Nat
      BY LevelsAssumption DEF LevelsAssumption
    <3>2. ~(Capture > Capture)
      BY <3>1
    <3> QED
      BY <3>2
  <2> QED
    BY <2>2, <2>3 DEF LevelsInvariant, LevelsInOrder, WorkerInOrder, LevelsAreAsAsked
<1> QED
  BY <1>1, LevelsInvariantHolds, PTL
=============================================================================
