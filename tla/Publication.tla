---------------------------- MODULE Publication -----------------------------
(***************************************************************************)
(* The registration of a device on its way to the host, and the reports    *)
(* that follow it. Three kinds of goroutines of the daemon publish it: the *)
(* callback of a connection, Register, and a report that finds it not yet  *)
(* delivered. Each reads the registration of the session and then          *)
(* publishes what it has read, through the client that the session has by  *)
(* then. Calls of the application hold apiLock; callbacks and the handler  *)
(* of a deprovision message do not.                                        *)
(*                                                                         *)
(* A message of the registration (QoS 1) survives the loss of a            *)
(* connection, in the client; a report (QoS 0) does not.                   *)
(***************************************************************************)
EXTENDS Naturals, Sequences, FiniteSets

CONSTANTS
    DeviceRegistration, \* valid ones, which differ in profiles only
    Callback,      \* bound: callbacks of a connection at a time
    None,
    MaxSessions,   \* bound: sessions
    MaxEvents,     \* bound: calls of Register and ReportStatus, losses of the connection
    MaxWire        \* bound: messages under way

\* The call that holds apiLock.
Api == "api"

ASSUME NameAssumption == None \notin Callback \cup DeviceRegistration /\ Api \notin Callback

ASSUME BoundAssumption ==
    MaxSessions \in Nat /\ MaxEvents \in Nat /\ MaxWire \in Nat

VARIABLES
    state,         \* of the session, as the daemon shows it
    registration,
    mqttClient,    \* "nil", "up" or, while it reconnects, "down"
    unsent,        \* messages of the registration that the client keeps
    regDelivered,
    losing,        \* TRUE: the callback of a loss has not run
    process,       \* the callbacks, and the call that holds apiLock
    wire,          \* messages under way to the host
    stored,        \* the registration in the host's row
    session,       \* the number of the session, which the daemon does not keep
    events,
    heard,         \* history: the last session of which the host had a registration
    overtaken,     \* history: a registration was published after a newer one
    stale          \* history: in this session, a callback of an earlier one has set
                   \* regDelivered, or the registration was left out, the session not
                   \* being connected

sessionVars == <<state, registration, mqttClient, regDelivered, session>>
linkVars == <<unsent, losing, wire>>

vars == <<sessionVars, linkVars, process, stored, heard, events, overtaken, stale>>

-----------------------------------------------------------------------------
\* A message: a registration or a report, with the number of the session it is from.
Message == [registration : DeviceRegistration \cup {None}, session : 1 .. MaxSessions]

\* What a process holds: its step, the step after reportRegistration, the session of a
\* callback, and what it has read.
Process ==
    [pc : {"none", "begin", "delivered", "store", "report", "publish", "status"},
     next : {None, "delivered", "status"},
     session : 0 .. MaxSessions,
     data : DeviceRegistration \cup Message \cup {None}]

Idle == [pc |-> "none", next |-> None, session |-> 0, data |-> None]

Init ==
    /\ state = "DISCONNECTED"
    /\ registration = None
    /\ mqttClient = "nil"
    /\ unsent = <<>>
    /\ regDelivered = FALSE
    /\ losing = FALSE
    /\ process = [p \in Callback \cup {Api} |-> Idle]
    /\ wire = <<>>
    /\ stored = None
    /\ heard = 0
    /\ session = 0
    /\ events = 0
    /\ overtaken = FALSE
    /\ stale = FALSE

Stop(p) == [process EXCEPT ![p] = Idle]

\* The client calls back, in a goroutine.
Spawn(n) == LET free == {p \in Callback : process[p].pc = "none"}
         IN  /\ free # {}
             /\ process' = [process EXCEPT ![CHOOSE p \in free : TRUE] =
                               [Idle EXCEPT !.pc = "begin", !.session = n]]

-----------------------------------------------------------------------------
\* Connect, without a current host: a reset, initializeHost, which keeps the registration,
\* and a connection that the broker accepts.
Connect(r) ==
    /\ process[Api].pc = "none"
    /\ mqttClient = "nil"
    /\ session < MaxSessions /\ session' = session + 1
    /\ registration' = r
    /\ mqttClient' = "up"
    /\ state' = "CONNECTING"
    /\ regDelivered' = FALSE
    /\ Spawn(session + 1)
    /\ stale' = FALSE
    /\ UNCHANGED <<linkVars, stored, heard, events, overtaken>>

\* Mutant: the client is forgotten and not disconnected.
ResetKeeping ==
    /\ state' = "DISCONNECTED"
    /\ registration' = None
    /\ mqttClient' = "nil"
    /\ regDelivered' = FALSE
    /\ UNCHANGED <<session, unsent>>

\* reset.
Reset ==
    /\ state' = "DISCONNECTED"
    /\ registration' = None
    /\ mqttClient' = "nil"
    /\ regDelivered' = FALSE
    /\ unsent' = <<>>
    /\ UNCHANGED session

\* Disconnect. What the client has sent arrives.
Disconnect ==
    /\ process[Api].pc = "none"
    /\ Reset
    /\ UNCHANGED <<losing, wire, process, stored, heard, events, overtaken, stale>>

\* handleDeprovision, in the handler of the message: without apiLock. The next session is
\* of another device, with a row of its own.
Deprovision ==
    /\ mqttClient # "nil"
    /\ Reset
    /\ wire' = <<>>
    /\ stored' = None
    /\ UNCHANGED <<losing, process, heard, events, overtaken, stale>>

\* The registrations under way that the client of the session has sent.
Resent == {i \in DOMAIN wire : wire[i].registration # None /\ wire[i].session = session}

\* The connection is lost. The client sends the registrations that were under way again,
\* in their order.
Lose ==
    /\ mqttClient = "up"
    /\ events < MaxEvents /\ events' = events + 1
    /\ mqttClient' = "down"
    /\ \E place \in [1 .. Cardinality(Resent) -> Resent] :
          /\ \A i, j \in DOMAIN place : i < j => place[i] < place[j]
          /\ unsent' = [i \in DOMAIN place |-> wire[place[i]]]
    /\ wire' = <<>>
    /\ losing' = TRUE
    /\ UNCHANGED <<state, registration, regDelivered, session, process, stored, heard, overtaken, stale>>

\* onDisconnect.
OnDisconnect ==
    /\ losing /\ losing' = FALSE
    /\ state' = IF state = "CONNECTED" THEN "RECONNECTING" ELSE state
    /\ UNCHANGED <<registration, mqttClient, regDelivered, session, unsent, wire,
                   process, stored, heard, events, overtaken, stale>>

\* The client reconnects, and sends what it has kept before it calls back.
Reconnect ==
    /\ mqttClient = "down"
    /\ mqttClient' = "up"
    /\ wire' = unsent
    /\ unsent' = <<>>
    /\ Spawn(session)
    /\ UNCHANGED <<state, registration, regDelivered, session, losing, stored, heard, events, overtaken, stale>>

-----------------------------------------------------------------------------
\* Mutant: the registration is not reported.
OnConnectSilent(p) ==
    /\ process[p].pc = "begin"
    /\ state' = "CONNECTED"
    /\ process' = [process EXCEPT ![p].pc = "delivered"]
    /\ UNCHANGED <<registration, mqttClient, regDelivered, session, linkVars, stored, heard, events, overtaken, stale>>

\* onConnect, up to its subscriptions, each of which may take five seconds.
OnConnect(p) ==
    /\ process[p].pc = "begin"
    /\ state' = "CONNECTED"
    /\ process' = [process EXCEPT ![p].pc = "report", ![p].next = "delivered"]
    /\ UNCHANGED <<registration, mqttClient, regDelivered, session, linkVars, stored, heard, events, overtaken, stale>>

\* onConnect, its last statement.
Delivered(p) ==
    /\ process[p].pc = "delivered"
    /\ regDelivered' = TRUE
    /\ process' = Stop(p)
    /\ stale' = (stale \/ process[p].session # session)
    /\ UNCHANGED <<state, registration, mqttClient, session, linkVars, stored, heard, events, overtaken>>

\* Register, its checks: the session is connected and has a registration. One that differs
\* in more than profiles, or is not valid, is refused here.
Register(r) ==
    /\ process[Api].pc = "none"
    /\ events < MaxEvents /\ events' = events + 1
    /\ state = "CONNECTED"
    /\ registration # None
    /\ process' = [process EXCEPT ![Api] = [Idle EXCEPT !.pc = "store", !.data = r]]
    /\ UNCHANGED <<sessionVars, linkVars, stored, heard, overtaken, stale>>

\* Mutant: the registration is kept and not published.
StoreOnly ==
    /\ process[Api].pc = "store"
    /\ registration' = process[Api].data
    /\ process' = Stop(Api)
    /\ UNCHANGED <<state, mqttClient, regDelivered, session, linkVars, stored, heard, events, overtaken, stale>>

\* Register, from its assignment on: nobody asks whether the session is still the same.
Store ==
    /\ process[Api].pc = "store"
    /\ registration' = process[Api].data
    /\ process' = [process EXCEPT ![Api] = [Idle EXCEPT !.pc = "report"]]
    /\ UNCHANGED <<state, mqttClient, regDelivered, session, linkVars, stored, heard, events, overtaken, stale>>

\* Mutant: nobody looks at regDelivered.
ReportAtOnce ==
    /\ process[Api].pc = "none"
    /\ events < MaxEvents /\ events' = events + 1
    /\ state = "CONNECTED"
    /\ process' = [process EXCEPT ![Api] = [Idle EXCEPT !.next = "status", !.pc = "status"]]
    /\ UNCHANGED <<sessionVars, linkVars, stored, heard, overtaken, stale>>

\* ReportStatus and ReportConfiguration, up to doPublishMessage, which reports the
\* registration first if it is not delivered.
ReportStatus ==
    /\ process[Api].pc = "none"
    /\ events < MaxEvents /\ events' = events + 1
    /\ state = "CONNECTED"
    /\ process' = [process EXCEPT ![Api] = [Idle EXCEPT !.next = "status",
                      !.pc = IF regDelivered THEN "status" ELSE "report"]]
    /\ UNCHANGED <<sessionVars, linkVars, stored, heard, overtaken, stale>>

\* What follows reportRegistration, in the process that has called it.
Return(p) == IF process[p].next = None THEN Stop(p)
             ELSE [process EXCEPT ![p].pc = process[p].next, ![p].data = None]

\* reportRegistration, up to the publication: it returns without one if the session is not
\* connected or has no registration.
ReportRegistration(p) ==
    /\ process[p].pc = "report"
    /\ IF state = "CONNECTED" /\ registration # None
       THEN /\ process' = [process EXCEPT ![p].pc = "publish",
                              ![p].data = [registration |-> registration, session |-> session]]
            /\ UNCHANGED stale
       ELSE process' = Return(p) /\ stale' = TRUE
    /\ UNCHANGED <<sessionVars, linkVars, stored, heard, events, overtaken>>

\* The client takes a message: it sends it or, while it reconnects, keeps a registration.
Take(m) ==
    CASE mqttClient = "up" -> Len(wire) < MaxWire /\ wire' = Append(wire, m) /\ UNCHANGED unsent
      [] mqttClient = "down" /\ m.registration # None ->
            Len(unsent) < MaxWire /\ unsent' = Append(unsent, m) /\ UNCHANGED wire
      [] OTHER -> UNCHANGED <<wire, unsent>>

\* reportRegistration, its publication.
Publish(p) ==
    /\ process[p].pc = "publish"
    /\ mqttClient # "nil"
    /\ Take(process[p].data)
    /\ overtaken' = (process[p].data.registration # registration)
    /\ process' = Return(p)
    /\ UNCHANGED <<sessionVars, losing, stored, heard, events, stale>>

\* reportRegistration, without a client: the panic of a call is recovered by the HTTP
\* server, that of a callback ends the daemon, which is started again.
Panic(p) ==
    /\ process[p].pc = "publish"
    /\ mqttClient = "nil"
    /\ IF p = Api
       THEN process' = Stop(p) /\ UNCHANGED <<sessionVars, unsent, losing>>
       ELSE /\ process' = [q \in DOMAIN process |-> Idle]
            /\ Reset
            /\ losing' = FALSE
    /\ UNCHANGED <<wire, stored, heard, events, overtaken, stale>>

\* doPublishMessage, the report itself. Without a client it returns an error.
PublishStatus ==
    /\ process[Api].pc = "status"
    /\ IF mqttClient = "nil" THEN UNCHANGED <<wire, unsent>>
       ELSE Take([registration |-> None, session |-> session])
    /\ process' = Stop(Api)
    /\ UNCHANGED <<sessionVars, losing, stored, heard, events, overtaken, stale>>

\* handleRegistration and handleStatus of the host, in the order of arrival.
Handle ==
    /\ wire # <<>>
    /\ wire' = Tail(wire)
    /\ IF Head(wire).registration = None THEN UNCHANGED <<stored, heard>>
       ELSE /\ stored' = Head(wire).registration
            /\ heard' = IF Head(wire).session > heard THEN Head(wire).session ELSE heard
    /\ UNCHANGED <<sessionVars, unsent, losing, process, events, overtaken, stale>>

Run(p) ==
    \/ p # Api /\ (OnConnect(p) \/ Delivered(p))
    \/ p = Api /\ (Store \/ PublishStatus)
    \/ ReportRegistration(p) \/ Publish(p) \/ Panic(p)

Next ==
    \/ \E r \in DeviceRegistration : Connect(r) \/ Register(r)
    \/ ReportStatus \/ Disconnect \/ Deprovision
    \/ Lose \/ OnDisconnect \/ Reconnect
    \/ Handle
    \/ \E p \in Callback \cup {Api} : Run(p)

Spec == Init /\ [][Next]_vars

\* Goroutines run, the client reconnects, messages arrive.
FairSpec ==
    /\ Spec
    /\ \A p \in Callback \cup {Api} : WF_vars(Run(p))
    /\ WF_vars(OnDisconnect) /\ WF_vars(Reconnect) /\ WF_vars(Handle)

-----------------------------------------------------------------------------
\* Types: each variable is of its kind, and what a process holds fits its step.
TypeOK ==
    /\ state \in {"DISCONNECTED", "CONNECTING", "CONNECTED", "RECONNECTING"}
    /\ registration \in DeviceRegistration \cup {None}
    /\ mqttClient \in {"nil", "up", "down"}
    /\ unsent \in Seq(Message) /\ wire \in Seq(Message) /\ Len(wire) <= MaxWire
    /\ unsent # <<>> => mqttClient = "down"
    /\ stored \in DeviceRegistration \cup {None} /\ heard \in 0 .. session
    /\ regDelivered \in BOOLEAN /\ losing \in BOOLEAN /\ overtaken \in BOOLEAN /\ stale \in BOOLEAN
    /\ session \in 0 .. MaxSessions /\ events \in 0 .. MaxEvents
    /\ process \in [Callback \cup {Api} -> Process]
    /\ \A p \in Callback \cup {Api} :
          /\ process[p].pc = "publish" => process[p].data \in Message
          /\ process[p].pc = "store" => process[p].data \in DeviceRegistration
          /\ process[p].pc \in IF p = Api THEN {"none", "store", "report", "publish", "status"}
                              ELSE {"none", "begin", "report", "publish", "delivered"}

Quiet == unsent = <<>> /\ wire = <<>> /\ \A p \in DOMAIN process : process[p] = Idle

\* A daemon that shows itself connected, and has nothing more to do, has told the host its
\* registration, the one of Connect or of the last Register, whatever was lost, reset or
\* interrupted before; unless a callback has published an older one last, which it had read
\* before Register (onConnect, Register, reportRegistration).
HostHasRegistration ==
    mqttClient = "up" /\ state = "CONNECTED" /\ registration # None /\ Quiet /\ ~overtaken
        => stored = registration

\* A report reaches the host after a registration of its session: the state is CONNECTED
\* before the callback has published one, but a report then publishes it first
\* (doPublishMessage). Not so if a callback says that the registration is delivered that is
\* of an earlier session, or found the connection lost and left the registration out.
StatusFollowsRegistration ==
    \A i \in DOMAIN wire : ~stale /\ wire[i].registration = None /\ wire[i].session = session =>
        \/ heard = session
        \/ \E j \in 1 .. i - 1 : wire[j].registration # None /\ wire[j].session = session

\* A session that stays connected gets its registration to the host, whichever of the
\* callback, Register and a report publishes it.
RegistrationArrives ==
    \A r \in DeviceRegistration :
        mqttClient = "up" /\ state = "CONNECTED" /\ registration = r ~>
            \/ mqttClient # "up" \/ state # "CONNECTED" \/ registration # r \/ overtaken
            \/ stored = r
=============================================================================
