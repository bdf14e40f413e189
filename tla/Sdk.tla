-------------------------------- MODULE Sdk --------------------------------
(***************************************************************************)
(* The client daemon: the calls of its application, one at a time under    *)
(* apiLock, and the callbacks of its MQTT clients, which run as goroutines *)
(* without the lock and change the same fields.                            *)
(*                                                                         *)
(* Fields are read and written between the waits of a call: the HTTP calls *)
(* of the pairing, the wait for the MQTT connection and for its end, the   *)
(* wait for the lock and the publication of an acknowledgement.            *)
(***************************************************************************)
EXTENDS Naturals, FiniteSets

CONSTANTS
    Host, NoHost,
    Client, NoClient,   \* MQTT clients
    Handler,            \* goroutines that handle messages
    Calls,              \* what the application calls besides Connect
    Mail,               \* the messages the hosts send
    MaxFaults           \* bound: events that disturb the connection

ASSUME HostAssumption == NoHost \notin Host /\ NoClient \notin Client

ASSUME UseAssumption ==
    /\ Calls \subseteq {"disconnect", "deprovision", "switch"}
    /\ Mail \subseteq {"certs", "deprovision"}
    /\ MaxFaults \in Nat

VARIABLES
    state, hostID, certs, mqttClient,   \* the fields of the daemon; certs is the host of its store
    paired,      \* the hosts whose credentials are on disk
    api,         \* the call that holds apiLock, and what it does next
    handler,     \* the messages being handled
    conn,        \* the MQTT clients: the connection of each
    peer,        \* and its host
    callbacks,   \* callbacks that have been started and not run
    target,      \* the host the application connects to
    faults,
    lost,        \* history: hosts whose credentials were deleted for another host's message
    mishap       \* history: what happened that the code does not prevent

fields == <<state, hostID, certs, mqttClient>>
network == <<conn, peer, callbacks>>
history == <<lost, mishap>>
vars == <<fields, paired, api, handler, network, target, faults, history>>

-----------------------------------------------------------------------------
States == {"DISCONNECTED", "PAIRING", "CONNECTING", "CONNECTED", "RECONNECTING"}

AnyHost == Host \cup {NoHost}

Call == [by : {"nobody", "app", "handler"}, host : AnyHost, client : Client \cup {NoClient},
         step : {"idle", "opening", "switch", "authenticate", "pair", "start", "wait",
                 "delete", "reset", "closing"}]

Message == [kind : Mail \cup {"none"}, host : AnyHost, from : AnyHost,
            step : {"idle", "begin", "delete", "reset", "closing", "disconnect", "reconnect"}]

\* "slow": an attempt to connect that was given up has succeeded; "crossed": a handler
\* has ended the session while a call was in progress; "outlived": a deprovision message
\* was handled after the session it came in; "late": the state was set by a callback of
\* a client that the daemon no longer has.
Mishaps == {"slow", "crossed", "outlived", "late"}

Free == [by |-> "nobody", step |-> "idle", host |-> NoHost, client |-> NoClient]

Idle == [kind |-> "none", step |-> "idle", host |-> NoHost, from |-> NoHost]

Alive == {c \in Client : conn[c] \in {"connecting", "up", "retrying"}}

\* A client that has not been used, or whose use is over.
Fresh == {c \in Client \ Alive : c # mqttClient /\ \A k \in callbacks : k[2] # c}

Init ==
    /\ state = "DISCONNECTED" /\ hostID = NoHost /\ certs = NoHost /\ mqttClient = NoClient
    /\ paired \in SUBSET Host
    /\ api = Free
    /\ handler = [m \in Handler |-> Idle]
    /\ conn = [c \in Client |-> "closed"]
    /\ peer = [c \in Client |-> NoHost]
    /\ callbacks = {}
    /\ target \in Host
    /\ faults = 0
    /\ lost = {}
    /\ mishap = {}

\* The callbacks of a client have run. They are goroutines of their own, started
\* at once: none is taken to be delayed until the next event of its client.
Settled(c) == \A k \in callbacks : k[2] # c

\* The call that waits for the first connection of a client has not given it up.
Awaited(c) == api.step = "wait" /\ api.client = c

Fault == faults < MaxFaults /\ faults' = faults + 1

Note(what, happens) == mishap' = IF happens THEN mishap \cup {what} ELSE mishap

\* Mutant: a client that is reconnecting is not closed.
CloseIfOpen ==
    /\ hostID' = NoHost
    /\ conn' = [c \in Client |-> IF c = mqttClient /\ conn[c] = "up" THEN "closed" ELSE conn[c]]

\* A reset begins: the host is forgotten, a client that is connected or reconnecting
\* is closed, and its end awaited; one that is still connecting is left alone.
Close ==
    /\ hostID' = NoHost
    /\ conn' = [c \in Client |-> IF c = mqttClient /\ conn[c] \in {"up", "retrying"}
                                 THEN "closed" ELSE conn[c]]

\* Mutant: the state is left as it is.
ForgetClient ==
    /\ mqttClient' = NoClient
    /\ mishap' = mishap \ {"late"}
    /\ UNCHANGED state

\* It ends: the client is forgotten.
Forget ==
    /\ mqttClient' = NoClient
    /\ state' = "DISCONNECTED"
    /\ mishap' = mishap \ {"late"}

\* A handler, which has no lock, is in its reset.
Closing == \E m \in Handler : handler[m].step = "closing"

Resetting == Closing \/ api.step \in {"opening", "closing"}

Begin(call) == api = Free /\ api' = call /\ Note("crossed", Closing)

Go(step) == api' = [api EXCEPT !.step = step]

Release == api' = Free

Take(m, step) == handler' = [handler EXCEPT ![m].step = step]

-----------------------------------------------------------------------------
(* Connect *)

\* Connect initialises the host unless it is the current one.
Connect(by, h) ==
    /\ IF hostID = h
         THEN Begin([Free EXCEPT !.by = by, !.step = "switch", !.host = h]) /\ UNCHANGED <<hostID, conn>>
         ELSE Begin([Free EXCEPT !.by = by, !.step = "opening", !.host = h]) /\ Close
    /\ UNCHANGED <<state, certs, mqttClient, paired, peer, callbacks, target, faults, lost>>

AppConnect == Connect("app", target) /\ UNCHANGED handler

\* initializeHost, after the reset.
Initialize ==
    /\ api.step = "opening"
    /\ Forget
    /\ hostID' = api.host /\ certs' = api.host
    /\ Go("switch")
    /\ UNCHANGED <<paired, handler, network, target, faults, lost>>

\* The call ends with an error: the registration or the host's configuration is
\* not valid, an HTTP call fails or is refused. Pairing codes expire.
ConnectFails ==
    /\ \/ api.step = "switch" /\ state \in {"DISCONNECTED", "PAIRING"} /\ Fault
       \/ api.step \in {"authenticate", "pair", "start"} /\ Fault
       \/ api.step = "switch" /\ state = "PAIRING" /\ certs \notin paired /\ UNCHANGED faults
       \/ api.step = "start" /\ certs \notin paired /\ UNCHANGED faults
    /\ Close
    /\ Go("closing")
    /\ UNCHANGED <<state, certs, mqttClient, paired, handler, peer, callbacks, target, history>>

\* startConnect finds that there is a connection, or that it is being made.
Started ==
    \/ state \in {"CONNECTED", "RECONNECTING"}
    \/ state = "CONNECTING" /\ mqttClient # NoClient

\* There is a connection, or it is being made.
Answer ==
    /\ \/ api.step = "switch" /\ state \in {"CONNECTING", "CONNECTED", "RECONNECTING"}
       \/ api.step = "start" /\ Started
    /\ Release
    /\ UNCHANGED <<fields, paired, handler, network, target, faults, history>>

\* The HTTP calls of the pairing.
Request ==
    /\ api.step = "switch" /\ certs \notin paired
    /\ \/ state = "DISCONNECTED" /\ hostID # NoHost /\ Go("pair")
       \/ state = "PAIRING" /\ Go("authenticate")
    /\ UNCHANGED <<fields, paired, handler, network, target, faults, history>>

\* The registration was cleared by a reset since the call began: the call
\* panics, and the HTTP server recovers.
Panic ==
    /\ api.step = "switch" /\ certs \notin paired
    /\ state = "DISCONNECTED" /\ hostID = NoHost
    /\ Release
    /\ UNCHANGED <<fields, paired, handler, network, target, faults, history>>

PairingCode ==
    /\ api.step = "pair"
    /\ state' = "PAIRING"
    /\ mishap' = mishap \ {"late"}
    /\ Release
    /\ UNCHANGED <<hostID, certs, mqttClient, paired, handler, network, target, faults, lost>>

\* STANDBY, or the credentials, which are written to disk.
Authenticated ==
    /\ api.step = "authenticate"
    /\ \/ Release /\ UNCHANGED paired
       \/ Go("start") /\ paired' = paired \cup {certs}
    /\ UNCHANGED <<fields, handler, network, target, faults, history>>

\* Mutant: the credentials are not looked for.
StartUnpaired ==
    /\ \/ api.step = "switch" /\ state \in {"DISCONNECTED", "PAIRING"}
       \/ api.step = "start" /\ ~Started
    /\ state' = "CONNECTING"
    /\ \E c \in Fresh :
          /\ mqttClient' = c
          /\ conn' = [conn EXCEPT ![c] = "connecting"]
          /\ peer' = [peer EXCEPT ![c] = certs]
          /\ api' = [api EXCEPT !.step = "wait", !.client = c]
    /\ mishap' = mishap \ {"late"}
    /\ UNCHANGED <<hostID, certs, paired, handler, callbacks, target, faults, lost>>

\* startConnect and connectMQTT: a new MQTT client, whose first connection is awaited.
StartConnect ==
    /\ \/ api.step = "switch" /\ state \in {"DISCONNECTED", "PAIRING"}
       \/ api.step = "start" /\ ~Started
    /\ certs \in paired
    /\ state' = "CONNECTING"
    /\ \E c \in Fresh :
          /\ mqttClient' = c
          /\ conn' = [conn EXCEPT ![c] = "connecting"]
          /\ peer' = [peer EXCEPT ![c] = certs]
          /\ api' = [api EXCEPT !.step = "wait", !.client = c]
    /\ mishap' = mishap \ {"late"}
    /\ UNCHANGED <<hostID, certs, paired, handler, callbacks, target, faults, lost>>

\* The client has connected, or its attempt fails or is given up after 30 s.
ConnectSucceeds ==
    /\ api.step = "wait"
    /\ conn[api.client] \in {"up", "retrying", "closed"}
    /\ Release
    /\ UNCHANGED <<fields, paired, handler, network, target, faults, history>>

\* Mutant: a failed attempt is not followed by a reset.
StartFailsOpen ==
    /\ api.step = "wait"
    /\ \/ conn[api.client] = "refused" /\ UNCHANGED faults
       \/ conn[api.client] = "connecting" /\ Fault
    /\ Release
    /\ UNCHANGED <<fields, conn, paired, handler, peer, callbacks, target, history>>

StartFails ==
    /\ api.step = "wait"
    /\ \/ conn[api.client] = "refused" /\ UNCHANGED faults
       \/ conn[api.client] = "connecting" /\ Fault
    /\ Close
    /\ Go("closing")
    /\ UNCHANGED <<state, certs, mqttClient, paired, handler, peer, callbacks, target, history>>

\* The reset that ends a call.
AppReset ==
    /\ api.step = "reset"
    /\ Close
    /\ Go("closing")
    /\ UNCHANGED <<state, certs, mqttClient, paired, handler, peer, callbacks, target, faults, history>>

AppForget ==
    /\ api.step = "closing"
    /\ Forget
    /\ Release
    /\ UNCHANGED <<hostID, certs, paired, handler, network, target, faults, lost>>

-----------------------------------------------------------------------------
(* Disconnect and Deprovision *)

\* Mutant: a state of its own until the connection is closed.
Disconnecting ==
    /\ "disconnect" \in Calls /\ Fault
    /\ Begin([Free EXCEPT !.by = "app", !.step = "closing"])
    /\ Close
    /\ state' = "DISCONNECTING"
    /\ UNCHANGED <<certs, mqttClient, paired, handler, peer, callbacks, target, lost>>

Disconnect ==
    /\ "disconnect" \in Calls /\ Fault
    /\ Begin([Free EXCEPT !.by = "app", !.step = "closing"])
    /\ Close
    /\ UNCHANGED <<state, certs, mqttClient, paired, handler, peer, callbacks, target, lost>>

\* Mutant: the directory of the device is deleted instead of the host's.
DeleteAll(h, from) ==
    /\ paired' = IF hostID \notin {h, NoHost} THEN paired ELSE {}
    /\ lost' = lost \cup ((paired \ paired') \ {from})

\* Deletes the credentials of h unless another host is the current one. The
\* store of no host at all is the directory above those of all hosts.
Delete(h, from) ==
    /\ paired' = IF hostID \notin {h, NoHost} THEN paired
                 ELSE IF h = NoHost THEN {} ELSE paired \ {h}
    /\ lost' = lost \cup ((paired \ paired') \ {from})

\* Deprovision: the host is told if it is the one connected to, and answers in time or not.
AppDeprovision(h) ==
    /\ "deprovision" \in Calls /\ Fault
    /\ Begin([Free EXCEPT !.by = "app", !.step = "delete", !.host = h])
    /\ UNCHANGED <<fields, paired, handler, network, target, lost>>

AppDelete ==
    /\ api.step = "delete"
    /\ Delete(api.host, api.host)
    /\ Go("reset")
    /\ UNCHANGED <<fields, handler, network, target, faults, mishap>>

\* The application turns to another host.
Switch(h) ==
    /\ "switch" \in Calls /\ Fault
    /\ target' = h
    /\ UNCHANGED <<fields, paired, api, handler, network, history>>

-----------------------------------------------------------------------------
(* Messages *)

Deliver(m, c, kind) ==
    /\ Fault
    /\ conn[c] = "up" /\ <<"onConnect", c>> \notin callbacks /\ handler[m] = Idle
    /\ handler' = [handler EXCEPT ![m] = [kind |-> kind, step |-> "begin",
                                          host |-> NoHost, from |-> peer[c]]]
    /\ UNCHANGED <<fields, paired, api, network, target, history>>

\* deprovisionDeviceCallback: as Deprovision for the current host, without the lock.
BeginDeprovision(m) ==
    /\ handler[m].kind = "deprovision" /\ handler[m].step = "begin"
    /\ handler' = [handler EXCEPT ![m].host = hostID, ![m].step = "delete"]
    /\ Note("outlived", hostID # handler[m].from)
    /\ UNCHANGED <<fields, paired, api, network, target, faults, lost>>

HandlerDelete(m) ==
    /\ handler[m].step = "delete"
    /\ Delete(handler[m].host, handler[m].from)
    /\ Take(m, "reset")
    /\ UNCHANGED <<fields, api, network, target, faults, mishap>>

HandlerReset(m) ==
    /\ handler[m].step = "reset"
    /\ Close
    /\ Take(m, "closing")
    /\ Note("crossed", api # Free)
    /\ UNCHANGED <<state, certs, mqttClient, paired, api, peer, callbacks, target, faults, lost>>

HandlerForget(m) ==
    /\ handler[m].step = "closing"
    /\ Forget
    /\ handler' = [handler EXCEPT ![m] = Idle]
    /\ UNCHANGED <<hostID, certs, paired, api, network, target, faults, lost>>

\* updateCertsCallback: credentials that change are followed by Disconnect,
\* and Connect for the host that was the current one.
BeginRotate(m) ==
    /\ handler[m].kind = "certs" /\ handler[m].step = "begin"
    /\ \/ /\ certs \in paired
          /\ handler' = [handler EXCEPT ![m].host = hostID, ![m].step = "disconnect"]
       \/ handler' = [handler EXCEPT ![m] = Idle]
    /\ UNCHANGED <<fields, paired, api, network, target, faults, history>>

RotateDisconnect(m) ==
    /\ handler[m].step = "disconnect"
    /\ Begin([Free EXCEPT !.by = "handler", !.step = "closing"])
    /\ Close
    /\ Take(m, "reconnect")
    /\ UNCHANGED <<state, certs, mqttClient, paired, peer, callbacks, target, faults, lost>>

\* A session that had ended before has no host: there is nothing to connect to.
RotateConnect(m) ==
    /\ handler[m].step = "reconnect"
    /\ IF handler[m].host # NoHost
         THEN Connect("handler", handler[m].host)
         ELSE /\ Begin([Free EXCEPT !.by = "handler", !.step = "closing"])
              /\ Close
              /\ UNCHANGED <<state, certs, mqttClient, paired, peer, callbacks, target, faults, lost>>
    /\ handler' = [handler EXCEPT ![m] = Idle]

-----------------------------------------------------------------------------
(* The MQTT clients (SetAutoReconnect) and the callbacks they start *)

\* A connection is accepted. An older one of the same device is closed by the
\* broker; its client reconnects as after any loss.
Accept(c) ==
    /\ conn[c] \in {"connecting", "retrying"}
    /\ Note("slow", conn[c] = "connecting" /\ ~Awaited(c))
    /\ LET older == {b \in Client \ {c} : conn[b] = "up" /\ peer[b] = peer[c]}
       IN /\ \A b \in older \cup {c} : Settled(b)
          /\ conn' = [b \in Client |-> IF b = c THEN "up"
                                       ELSE IF b \in older THEN "retrying" ELSE conn[b]]
          /\ callbacks' = callbacks \cup {<<"onConnect", c>>} \cup ({"onDisconnect"} \X older)
    /\ UNCHANGED <<fields, paired, api, handler, peer, target, faults, lost>>

Refuse(c) ==
    /\ Fault
    /\ conn[c] = "connecting" /\ Awaited(c)
    /\ conn' = [conn EXCEPT ![c] = "refused"]
    /\ UNCHANGED <<fields, paired, api, handler, peer, callbacks, target, history>>

\* An attempt that was given up fails.
RefuseLate(c) ==
    /\ conn[c] = "connecting" /\ ~Awaited(c)
    /\ conn' = [conn EXCEPT ![c] = "refused"]
    /\ UNCHANGED <<fields, paired, api, handler, peer, callbacks, target, faults, history>>

Drop(c) ==
    /\ Fault
    /\ conn[c] = "up" /\ Settled(c)
    /\ conn' = [conn EXCEPT ![c] = "retrying"]
    /\ callbacks' = callbacks \cup {<<"onDisconnect", c>>}
    /\ UNCHANGED <<fields, paired, api, handler, peer, target, history>>

\* onConnect does not ask whose callback it is, and neither does onDisconnect.
OnConnect(c) ==
    /\ <<"onConnect", c>> \in callbacks
    /\ callbacks' = callbacks \ {<<"onConnect", c>>}
    /\ state' = "CONNECTED"
    /\ mishap' = IF c = mqttClient THEN mishap \ {"late"} ELSE mishap \cup {"late"}
    /\ UNCHANGED <<hostID, certs, mqttClient, paired, api, handler, conn, peer, target, faults, lost>>

OnDisconnect(c) ==
    /\ <<"onDisconnect", c>> \in callbacks
    /\ callbacks' = callbacks \ {<<"onDisconnect", c>>}
    /\ IF state = "CONNECTED"
         THEN state' = "RECONNECTING" /\ Note("late", c # mqttClient)
         ELSE UNCHANGED <<state, mishap>>
    /\ UNCHANGED <<hostID, certs, mqttClient, paired, api, handler, conn, peer, target, faults, lost>>

-----------------------------------------------------------------------------
Proceed ==
    \/ Initialize \/ ConnectFails \/ Answer \/ Request \/ Panic \/ PairingCode \/ Authenticated
    \/ StartConnect \/ ConnectSucceeds \/ StartFails
    \/ AppDelete \/ AppReset \/ AppForget

Disturb ==
    \/ Disconnect
    \/ \E h \in Host : AppDeprovision(h) \/ Switch(h)
    \/ \E c \in Client : Refuse(c) \/ Drop(c)
    \/ \E m \in Handler, c \in Client, kind \in Mail : Deliver(m, c, kind)

Handle(m) ==
    \/ BeginDeprovision(m) \/ HandlerDelete(m) \/ HandlerReset(m) \/ HandlerForget(m)
    \/ BeginRotate(m) \/ RotateDisconnect(m) \/ RotateConnect(m)

Callback(c) == OnConnect(c) \/ OnDisconnect(c)

Next ==
    \/ AppConnect \/ Proceed \/ Disturb
    \/ \E m \in Handler : Handle(m)
    \/ \E c \in Client : Accept(c) \/ RefuseLate(c) \/ Callback(c)

Spec == Init /\ [][Next]_vars

\* The application calls Connect every 5 s; calls, handlers and callbacks run
\* to their end; a client that can connect does.
Fairness ==
    /\ SF_vars(AppConnect) /\ WF_vars(Proceed)
    /\ \A m \in Handler : SF_vars(Handle(m))
    /\ \A c \in Client :
          WF_vars(Accept(c)) /\ WF_vars(RefuseLate(c)) /\ WF_vars(Callback(c))

FairSpec == Spec /\ Fairness

-----------------------------------------------------------------------------
TypeOK ==
    /\ state \in States
    /\ hostID \in AnyHost /\ certs \in AnyHost /\ mqttClient \in Client \cup {NoClient}
    /\ paired \subseteq Host
    /\ api \in Call
    /\ handler \in [Handler -> Message]
    /\ conn \in [Client -> {"connecting", "up", "retrying", "refused", "closed"}]
    /\ peer \in [Client -> AnyHost]
    /\ callbacks \subseteq {"onConnect", "onDisconnect"} \X Client
    /\ target \in Host
    /\ faults \in 0 .. MaxFaults
    /\ lost \subseteq Host
    /\ mishap \subseteq Mishaps

(* There is one MQTT connection at a time: two with the id of one device    *)
(* would take it from each other for ever. Excepted are an attempt to       *)
(* connect that succeeds after it was given up, and a handler that ends the *)
(* session during a call, which forgets the client that the call has made.  *)
OneConnection ==
    mishap \cap {"slow", "crossed"} = {}
    => Cardinality({c \in Client : conn[c] \in {"up", "retrying"}}) <= 1

(* A daemon that says CONNECTED is: its MQTT client is connected, to the    *)
(* host of the session, unless the callback for the loss is about to run or *)
(* a reset is closing it. Excepted are a state that was set by a callback   *)
(* of an earlier client, and a handler that ended the session during a call.*)
ConnectedIsConnected ==
    state = "CONNECTED" /\ ~Resetting /\ mishap \cap {"late", "crossed"} = {} =>
        /\ mqttClient \in Alive
        /\ peer[mqttClient] = hostID
        /\ conn[mqttClient] = "up" \/ <<"onDisconnect", mqttClient>> \in callbacks

(* The same of callbacks that come late: a daemon that says CONNECTED has   *)
(* an MQTT client. The code does not prevent that it has none, even if no   *)
(* attempt to connect succeeds after it was given up.                       *)
ConnectedHasClient == state = "CONNECTED" /\ "slow" \notin mishap => mqttClient # NoClient

(* A deprovision deletes the credentials of the host it was for, and of no  *)
(* other, unless its message is handled after the session it came in: every *)
(* host has a directory of its own.                                         *)
OnlyOwnCredentials == lost # {} => "outlived" \in mishap

(* The same of every message: the code does not prevent that one outlives   *)
(* its session, even if no attempt to connect succeeds after it was given   *)
(* up.                                                                      *)
NothingLost == "slow" \notin mishap => lost = {}

(* Once nothing disturbs it any more, a daemon that has the credentials of  *)
(* the host its application asks for is connected to it, and stays so.      *)
(* Excepted is a state that callbacks of earlier clients set, once and for  *)
(* ever or, two clients taking the connection from each other, for ever     *)
(* again.                                                                   *)
Recovers ==
    <>[](target \in paired /\ "late" \notin mishap) => <>[](state = "CONNECTED" /\ hostID = target)

(* The same of such clients, as well.                                       *)
RecoversAnyway == <>[](target \in paired) => <>[](state = "CONNECTED" /\ hostID = target)

SessionImpl == INSTANCE Session WITH host <- hostID

SessionSpec == SessionImpl!Spec
=============================================================================
