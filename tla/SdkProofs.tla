------------------------------ MODULE SdkProofs ------------------------------
(***************************************************************************)
(* Proofs about Sdk, for any hosts, MQTT clients, handlers of messages and *)
(* events, whatever calls, handlers and callbacks overlap. What an overlap *)
(* spoils is in the statements, by the history variable mishap.            *)
(***************************************************************************)
EXTENDS Sdk, FiniteSetTheorems, TLAPS

-----------------------------------------------------------------------------
(* What the types need. *)

\* The host of the session is the one of the store, which outlives a reset.
HostFits == hostID \in {certs, NoHost}

\* A call of Connect is about a host, and so is one that deletes credentials.
CallFits ==
    /\ api.step \in {"switch", "authenticate", "pair", "start", "wait"} => certs \in Host
    /\ api.step \in {"opening", "delete"} => api.host \in Host

TInv == TypeOK /\ HostFits /\ CallFits

-----------------------------------------------------------------------------
(* What the credentials need. *)

\* A connection is to a host, and so a message comes from one.
OfHost == \A c \in Client : conn[c] # "closed" => peer[c] \in Host

\* A deprovision message is for the host it comes from, unless the session had changed.
MessageFits ==
    \A m \in Handler :
        /\ handler[m].kind = "deprovision" => handler[m].from \in Host
        /\ handler[m].step = "delete" =>
              /\ handler[m].from \in Host
              /\ handler[m].host = handler[m].from \/ "outlived" \in mishap

MInv == OfHost /\ MessageFits /\ OnlyOwnCredentials

-----------------------------------------------------------------------------
(* What the daemon says, whatever overlaps. *)

\* A daemon that says it has no connection has no client, and makes none while it pairs.
ClientFits == state \in {"DISCONNECTED", "PAIRING"} => mqttClient = NoClient

PairingFits == api.step \in {"pair", "authenticate", "start"} => mqttClient = NoClient

\* What a callback is about to say is true, or its client is closed.
CallbackFits ==
    \A k \in callbacks :
        conn[k[2]] \in IF k[1] = "onConnect" THEN {"up", "closed"} ELSE {"retrying", "closed"}

\* The client is closed by a reset, and forgotten before the reset ends.
ClosedFits == mqttClient # NoClient /\ conn[mqttClient] = "closed" => Resetting

\* What the session says and what its client has differ only while a callback is to run.
SaysFits ==
    state = "CONNECTED" /\ ~Resetting /\ "late" \notin mishap =>
        /\ mqttClient # NoClient
        /\ conn[mqttClient] = "up" \/ <<"onDisconnect", mqttClient>> \in callbacks

\* The state in which a code is asked for is the one in which it is stored.
CodeFits ==
    api.step = "pair" => (state = "DISCONNECTED" \/ "late" \in mishap) /\ certs \notin paired

CInv == ClientFits /\ PairingFits /\ CallbackFits /\ ClosedFits /\ SaysFits /\ CodeFits

-----------------------------------------------------------------------------
(* What a call relies on, as long as no handler ends the session during one. *)

LockFits == api # Free => ~Closing

\* The session that a call is for is still there.
SessionFits ==
    api.step \in {"switch", "authenticate", "pair", "start", "wait"} => hostID = certs

WaitFits == api.step = "wait" => api.client = mqttClient /\ mqttClient # NoClient

\* The client is connected to the host of the session.
PeerFits == mqttClient # NoClient /\ ~Resetting => hostID \in Host /\ peer[mqttClient] = hostID

\* A call that is pairing is in the state it began in, unless a late callback has set another.
StageFits ==
    api.step \in {"authenticate", "start"} => state = "PAIRING" \/ "late" \in mishap

SInv == "crossed" \notin mishap => LockFits /\ SessionFits /\ WaitFits /\ PeerFits /\ StageFits

\* No client but that of the session has a connection, and none in a reset.
OpenFits == \A c \in Client : conn[c] \in {"up", "retrying"} => c = mqttClient /\ ~Resetting

OInv == mishap \cap {"slow", "crossed"} = {} => OpenFits

-----------------------------------------------------------------------------
(* Facts about calls and handlers *)

\* A call of Connect, of the application or of a handler.
LEMMA ConnectStep ==
    ASSUME NEW by \in {"app", "handler"}, NEW h \in Host, Connect(by, h)
    PROVE  /\ api = Free /\ api' \in Call /\ api'.host = h
           /\ api'.step = IF hostID = h THEN "switch" ELSE "opening"
           /\ Note("crossed", Closing)
           /\ hostID = h => UNCHANGED <<hostID, conn>>
           /\ hostID # h => Close
           /\ UNCHANGED <<state, certs, mqttClient, paired, peer, callbacks, target, faults, lost>>
<1> DEFINE call(s) == [by |-> by, step |-> s, host |-> h, client |-> NoClient]
<1>1. api = Free /\ api' = IF hostID = h THEN call("switch") ELSE call("opening")
  BY DEF Connect, Begin, Free
<1>2. api' \in Call /\ api'.host = h /\ api'.step = IF hostID = h THEN "switch" ELSE "opening"
  BY <1>1 DEF Call, AnyHost
<1> QED
  BY <1>1, <1>2 DEF Connect, Begin

\* What the call needs to be of its type.
LEMMA ConnectType ==
    ASSUME TypeOK, NEW by \in {"app", "handler"}, NEW h \in Host, Connect(by, h)
    PROVE  /\ api' \in Call /\ (api'.step = "switch" \/ (api'.step = "opening" /\ api'.host \in Host))
           /\ api'.step = "switch" => hostID = h /\ hostID' = hostID
           /\ hostID' \in {hostID, NoHost} /\ mishap' \subseteq Mishaps
           /\ conn' \in [Client -> {"connecting", "up", "retrying", "refused", "closed"}]
<1> USE ConnectStep DEF TypeOK
<1>1. mishap' \subseteq Mishaps
  BY DEF Note, Mishaps
<1>2. CASE hostID = h
  BY <1>1, <1>2
<1>3. CASE hostID # h
  <2>1. hostID' = NoHost /\ conn' \in [Client -> {"connecting", "up", "retrying", "refused", "closed"}]
    BY <1>3 DEF Close
  <2> QED
    BY <1>1, <1>3, <2>1
<1> QED
  BY <1>2, <1>3

\* A step that is no handler's leaves the resets that are in progress as they are.
LEMMA HandlersStay == ASSUME UNCHANGED handler PROVE Closing' = Closing
BY DEF Closing

\* What a handler does to the resets that are in progress.
LEMMA HandlerCloses ==
    ASSUME TypeOK, NEW m \in Handler
    PROVE  /\ \/ BeginDeprovision(m) \/ HandlerDelete(m) \/ BeginRotate(m)
              \/ RotateDisconnect(m) \/ RotateConnect(m)
              => Closing' = Closing
           /\ HandlerReset(m) => Closing'
           /\ HandlerForget(m) => Closing
<1>1. ASSUME handler[m].step # "closing", handler'[m].step # "closing",
             \A n \in Handler : n # m => handler'[n] = handler[n]
      PROVE  Closing' = Closing
  BY <1>1 DEF Closing
<1> USE DEF TypeOK, Message
<1>2. ASSUME BeginDeprovision(m) PROVE Closing' = Closing
  BY <1>1, <1>2 DEF BeginDeprovision
<1>3. ASSUME HandlerDelete(m) PROVE Closing' = Closing
  BY <1>1, <1>3 DEF HandlerDelete, Take
<1>4. ASSUME BeginRotate(m) PROVE Closing' = Closing
  BY <1>1, <1>4 DEF BeginRotate, Idle
<1>5. ASSUME RotateDisconnect(m) PROVE Closing' = Closing
  BY <1>1, <1>5 DEF RotateDisconnect, Take
<1>6. ASSUME RotateConnect(m) PROVE Closing' = Closing
  BY <1>1, <1>6 DEF RotateConnect, Idle
<1>7. ASSUME HandlerReset(m) PROVE Closing'
  BY <1>7 DEF HandlerReset, Take, Closing
<1>8. ASSUME HandlerForget(m) PROVE Closing
  BY <1>8 DEF HandlerForget, Closing
<1> QED
  BY <1>2, <1>3, <1>4, <1>5, <1>6, <1>7, <1>8

\* A message that is taken from a connection.
LEMMA DeliverKeeps ==
    ASSUME TypeOK, NEW m \in Handler, NEW c \in Client, NEW kind \in Mail, Deliver(m, c, kind)
    PROVE  Closing' = Closing
BY DEF Deliver, Closing, TypeOK, Message, Idle

\* The call that a rotation ends with.
LEMMA RotateCall ==
    ASSUME TypeOK, NEW m \in Handler, RotateConnect(m)
    PROVE  \/ handler[m].host \in Host /\ Connect("handler", handler[m].host)
           \/ /\ Begin([Free EXCEPT !.by = "handler", !.step = "closing"])
              /\ Close
              /\ UNCHANGED <<state, certs, mqttClient, paired, peer, callbacks, target, faults, lost>>
<1>1. handler[m].host \in AnyHost
  BY DEF TypeOK, Message
<1> QED
  BY <1>1 DEF RotateConnect, AnyHost

\* A call that closes the session.
LEMMA ClosingCall ==
    ASSUME NEW by \in {"app", "handler"}, Begin([Free EXCEPT !.by = by, !.step = "closing"])
    PROVE  api = Free /\ api' \in Call /\ api'.step = "closing" /\ Note("crossed", Closing)
<1>1. api' = [by |-> by, step |-> "closing", host |-> NoHost, client |-> NoClient]
  BY DEF Begin, Free
<1> QED
  BY <1>1 DEF Begin, Call, AnyHost

-----------------------------------------------------------------------------
(* Every step keeps them *)

LEMMA TypeStep == ASSUME TInv, [Next]_vars PROVE TInv'
<1> USE TInv, HostAssumption, UseAssumption
       DEF TInv, TypeOK, HostFits, CallFits, AnyHost, States, Call, Message, Mishaps
<1>1. CASE AppConnect
  <2>1. target \in Host /\ Connect("app", target)
    BY <1>1 DEF AppConnect
  <2>2. /\ api' \in Call /\ (api'.step = "switch" \/ (api'.step = "opening" /\ api'.host \in Host))
        /\ (api'.step = "switch" => hostID = target /\ hostID' = hostID)
        /\ hostID' \in {hostID, NoHost} /\ mishap' \subseteq Mishaps
        /\ conn' \in [Client -> {"connecting", "up", "retrying", "refused", "closed"}]
        /\ UNCHANGED <<state, certs, mqttClient, paired, peer, callbacks, target, faults, lost>>
    BY <2>1, ConnectType, ConnectStep
  <2> QED
    BY <1>1, <2>2 DEF AppConnect
<1>2. CASE Proceed
  <2>1. CASE Initialize
    BY <2>1 DEF Initialize, Forget, Go, network
  <2>2. CASE ConnectFails
    BY <2>2 DEF ConnectFails, Fault, Close, Go, history
  <2>3. CASE Answer
    BY <2>3 DEF Answer, Started, Release, Free, fields, network, history
  <2>4. CASE Request
    BY <2>4 DEF Request, Go, fields, network, history
  <2>5. CASE Panic
    BY <2>5 DEF Panic, Release, Free, fields, network, history
  <2>6. CASE PairingCode
    BY <2>6 DEF PairingCode, Release, Free, network
  <2>7. CASE Authenticated
    BY <2>7 DEF Authenticated, Release, Go, Free, fields, network, history
  <2>8. CASE StartConnect
    <3>1. PICK c \in Client : api' = [api EXCEPT !.step = "wait", !.client = c]
      BY <2>8 DEF StartConnect, Fresh
    <3>2. api' \in Call
      BY <3>1
    <3> QED
      BY <2>8, <3>1, <3>2 DEF StartConnect, Fresh, Alive
  <2>9. CASE ConnectSucceeds
    BY <2>9 DEF ConnectSucceeds, Release, Free, fields, network, history
  <2>10. CASE StartFails
    BY <2>10 DEF StartFails, Fault, Close, Go, history
  <2>11. CASE AppDelete
    BY <2>11 DEF AppDelete, Delete, Go, fields, network
  <2>12. CASE AppReset
    BY <2>12 DEF AppReset, Close, Go, history
  <2>13. CASE AppForget
    BY <2>13 DEF AppForget, Forget, Release, Free, network
  <2> QED
    BY <1>2, <2>1, <2>2, <2>3, <2>4, <2>5, <2>6, <2>7, <2>8, <2>9, <2>10, <2>11, <2>12, <2>13
    DEF Proceed
<1>3. CASE Disturb
  <2>1. CASE Disconnect
    <3>1. api' \in Call /\ api'.step = "closing" /\ mishap' \subseteq Mishaps
      BY <2>1, ClosingCall DEF Disconnect, Note
    <3> QED
      BY <2>1, <3>1 DEF Disconnect, Fault, Close
  <2>2. ASSUME NEW h \in Host, AppDeprovision(h)
        PROVE  TInv'
    <3>1. api' = [by |-> "app", step |-> "delete", host |-> h, client |-> NoClient]
      BY <2>2 DEF AppDeprovision, Begin, Free
    <3>2. mishap' \subseteq Mishaps
      BY <2>2 DEF AppDeprovision, Begin, Note
    <3> QED
      BY <2>2, <3>1, <3>2 DEF AppDeprovision, Fault, fields, network
  <2>3. ASSUME NEW h \in Host, Switch(h)
        PROVE  TInv'
    BY <2>3 DEF Switch, Fault, fields, network, history
  <2>4. ASSUME NEW c \in Client, Refuse(c)
        PROVE  TInv'
    BY <2>4 DEF Refuse, Fault, fields, history
  <2>5. ASSUME NEW c \in Client, Drop(c)
        PROVE  TInv'
    BY <2>5 DEF Drop, Fault, Settled, fields, history
  <2>6. ASSUME NEW m \in Handler, NEW c \in Client, NEW kind \in Mail, Deliver(m, c, kind)
        PROVE  TInv'
    BY <2>6 DEF Deliver, Fault, Idle, fields, network, history
  <2> QED
    BY <1>3, <2>1, <2>2, <2>3, <2>4, <2>5, <2>6 DEF Disturb
<1>4. ASSUME NEW m \in Handler, Handle(m) PROVE TInv'
  <2>1. CASE BeginDeprovision(m)
    BY <2>1 DEF BeginDeprovision, Note, fields, network
  <2>2. CASE HandlerDelete(m)
    BY <2>2 DEF HandlerDelete, Delete, Take, fields, network
  <2>3. CASE HandlerReset(m)
    BY <2>3 DEF HandlerReset, Close, Take, Note
  <2>4. CASE HandlerForget(m)
    BY <2>4 DEF HandlerForget, Forget, Idle, network
  <2>5. CASE BeginRotate(m)
    BY <2>5 DEF BeginRotate, Idle, fields, network, history
  <2>6. CASE RotateDisconnect(m)
    <3>1. api' \in Call /\ api'.step = "closing" /\ mishap' \subseteq Mishaps
      BY <2>6, ClosingCall DEF RotateDisconnect, Note
    <3> QED
      BY <2>6, <3>1 DEF RotateDisconnect, Close, Take
  <2>7. CASE RotateConnect(m)
    <3>1. ASSUME handler[m].host \in Host /\ Connect("handler", handler[m].host) PROVE TInv'
      <4>1. /\ api' \in Call /\ (api'.step = "switch" \/ (api'.step = "opening" /\ api'.host \in Host))
            /\ (api'.step = "switch" => hostID \in Host /\ hostID' = hostID)
            /\ hostID' \in {hostID, NoHost} /\ mishap' \subseteq Mishaps
            /\ conn' \in [Client -> {"connecting", "up", "retrying", "refused", "closed"}]
            /\ UNCHANGED <<state, certs, mqttClient, paired, peer, callbacks, target, faults, lost>>
        BY <3>1, ConnectType, ConnectStep
      <4> QED
        BY <2>7, <4>1 DEF RotateConnect, Idle
    <3>2. ASSUME Begin([Free EXCEPT !.by = "handler", !.step = "closing"]), Close,
                 UNCHANGED <<state, certs, mqttClient, paired, peer, callbacks, target, faults, lost>>
          PROVE  TInv'
      <4>1. api' \in Call /\ api'.step = "closing" /\ mishap' \subseteq Mishaps
        BY <3>2, ClosingCall DEF Note
      <4> QED
        BY <2>7, <3>2, <4>1 DEF RotateConnect, Close, Idle
    <3> QED
      BY <2>7, <3>1, <3>2, RotateCall
  <2> QED
    BY <1>4, <2>1, <2>2, <2>3, <2>4, <2>5, <2>6, <2>7 DEF Handle
<1>5. ASSUME NEW c \in Client, Accept(c) PROVE TInv'
  BY <1>5 DEF Accept, Settled, Awaited, Note, fields
<1>6. ASSUME NEW c \in Client, RefuseLate(c) PROVE TInv'
  BY <1>6 DEF RefuseLate, fields, history
<1>7. ASSUME NEW c \in Client, Callback(c) PROVE TInv'
  <2>1. CASE OnConnect(c)
    BY <2>1 DEF OnConnect
  <2>2. CASE OnDisconnect(c)
    <3>1. mishap' \subseteq Mishaps
      BY <2>2 DEF OnDisconnect, Note
    <3> QED
      BY <2>2, <3>1 DEF OnDisconnect
  <2> QED
    BY <1>7, <2>1, <2>2 DEF Callback
<1>8. CASE UNCHANGED vars
  BY <1>8 DEF vars, fields, network, history
<1> QED
  BY <1>1, <1>2, <1>3, <1>4, <1>5, <1>6, <1>7, <1>8 DEF Next

LEMMA MessageStep == ASSUME TInv, MInv, [Next]_vars PROVE MInv'
<1> USE TInv, MInv, HostAssumption
       DEF TInv, TypeOK, CallFits, AnyHost, Message, MInv, OfHost, MessageFits, OnlyOwnCredentials
<1>1. CASE AppConnect
  BY <1>1 DEF AppConnect, Connect, Begin, Close, Note, Free, fields
<1>2. CASE Proceed
  <2>1. CASE Initialize
    BY <2>1 DEF Initialize, Forget, Go, network
  <2>2. CASE ConnectFails
    BY <2>2 DEF ConnectFails, Fault, Close, Go, history
  <2>3. CASE Answer
    BY <2>3 DEF Answer, Started, Release, Free, fields, network, history
  <2>4. CASE Request
    BY <2>4 DEF Request, Go, fields, network, history
  <2>5. CASE Panic
    BY <2>5 DEF Panic, Release, Free, fields, network, history
  <2>6. CASE PairingCode
    BY <2>6 DEF PairingCode, Release, Free, network
  <2>7. CASE Authenticated
    BY <2>7 DEF Authenticated, Release, Go, Free, fields, network, history
  <2>8. CASE StartConnect
    BY <2>8 DEF StartConnect, Started, Fresh, Alive
  <2>9. CASE ConnectSucceeds
    BY <2>9 DEF ConnectSucceeds, Release, Free, fields, network, history
  <2>10. CASE StartFails
    BY <2>10 DEF StartFails, Fault, Close, Go, history
  <2>11. CASE AppDelete
    BY <2>11 DEF AppDelete, Delete, Go, fields, network
  <2>12. CASE AppReset
    BY <2>12 DEF AppReset, Close, Go, history
  <2>13. CASE AppForget
    BY <2>13 DEF AppForget, Forget, Release, Free, network
  <2> QED
    BY <1>2, <2>1, <2>2, <2>3, <2>4, <2>5, <2>6, <2>7, <2>8, <2>9, <2>10, <2>11, <2>12, <2>13
    DEF Proceed
<1>3. CASE Disturb
  <2>1. CASE Disconnect
    BY <2>1 DEF Disconnect, Fault, Begin, Close, Note, Free
  <2>2. ASSUME NEW h \in Host, AppDeprovision(h)
        PROVE  MInv'
    BY <2>2 DEF AppDeprovision, Fault, Begin, Note, Free, fields, network
  <2>3. ASSUME NEW h \in Host, Switch(h)
        PROVE  MInv'
    BY <2>3 DEF Switch, Fault, fields, network, history
  <2>4. ASSUME NEW c \in Client, Refuse(c)
        PROVE  MInv'
    BY <2>4 DEF Refuse, Fault, fields, history
  <2>5. ASSUME NEW c \in Client, Drop(c)
        PROVE  MInv'
    BY <2>5 DEF Drop, Fault, Settled, fields, history
  <2>6. ASSUME NEW m \in Handler, NEW c \in Client, NEW kind \in Mail, Deliver(m, c, kind)
        PROVE  MInv'
    BY <2>6 DEF Deliver, Fault, Idle, fields, network, history
  <2> QED
    BY <1>3, <2>1, <2>2, <2>3, <2>4, <2>5, <2>6 DEF Disturb
<1>4. ASSUME NEW m \in Handler, Handle(m) PROVE MInv'
  <2>1. CASE BeginDeprovision(m)
    BY <2>1 DEF BeginDeprovision, Note, fields, network
  <2>2. CASE HandlerDelete(m)
    BY <2>2 DEF HandlerDelete, Delete, Take, fields, network
  <2>3. CASE HandlerReset(m)
    BY <2>3 DEF HandlerReset, Close, Take, Note
  <2>4. CASE HandlerForget(m)
    BY <2>4 DEF HandlerForget, Forget, Idle, network
  <2>5. CASE BeginRotate(m)
    BY <2>5 DEF BeginRotate, Idle, fields, network, history
  <2>6. CASE RotateDisconnect(m)
    BY <2>6 DEF RotateDisconnect, Begin, Close, Take, Note, Free
  <2>7. CASE RotateConnect(m)
    BY <2>7 DEF RotateConnect, Connect, Begin, Close, Note, Idle, Free, fields
  <2> QED
    BY <1>4, <2>1, <2>2, <2>3, <2>4, <2>5, <2>6, <2>7 DEF Handle
<1>5. ASSUME NEW c \in Client, Accept(c) PROVE MInv'
  BY <1>5 DEF Accept, Settled, Awaited, Note, fields
<1>6. ASSUME NEW c \in Client, RefuseLate(c) PROVE MInv'
  BY <1>6 DEF RefuseLate, fields, history
<1>7. ASSUME NEW c \in Client, Callback(c) PROVE MInv'
  <2>1. CASE OnConnect(c)
    BY <2>1 DEF OnConnect
  <2>2. CASE OnDisconnect(c)
    BY <2>2 DEF OnDisconnect, Note
  <2> QED
    BY <1>7, <2>1, <2>2 DEF Callback
<1>8. CASE UNCHANGED vars
  BY <1>8 DEF vars, fields, network, history
<1> QED
  BY <1>1, <1>2, <1>3, <1>4, <1>5, <1>6, <1>7, <1>8 DEF Next

LEMMA ClientStep == ASSUME TInv, CInv, [Next]_vars PROVE CInv'
<1> USE TInv, CInv, HostAssumption
       DEF TInv, TypeOK, Call, Message, States, CInv, ClientFits, PairingFits, CallbackFits,
           ClosedFits, SaysFits, CodeFits, Resetting, Free
<1>1. CASE AppConnect
  <2>1. target \in Host /\ Connect("app", target)
    BY <1>1 DEF AppConnect
  <2>2. Closing' = Closing
    BY <1>1, HandlersStay DEF AppConnect
  <2> QED
    BY <2>1, <2>2, ConnectStep DEF Close, Note
<1>2. CASE Proceed
  <2>1. CASE Initialize
    BY <2>1, HandlersStay DEF Initialize, Forget, Go, network
  <2>2. CASE ConnectFails
    BY <2>2, HandlersStay DEF ConnectFails, Fault, Close, Go, history
  <2>3. CASE Answer
    BY <2>3, HandlersStay DEF Answer, Started, Release, Free, fields, network, history
  <2>4. CASE Request
    BY <2>4, HandlersStay DEF Request, Go, fields, network, history
  <2>5. CASE Panic
    BY <2>5, HandlersStay DEF Panic, Release, Free, fields, network, history
  <2>6. CASE PairingCode
    BY <2>6, HandlersStay DEF PairingCode, Release, Free, network
  <2>7. CASE Authenticated
    BY <2>7, HandlersStay DEF Authenticated, Release, Go, Free, fields, network, history
  <2>8. CASE StartConnect
    BY <2>8, HandlersStay DEF StartConnect, Started, Fresh, Alive
  <2>9. CASE ConnectSucceeds
    BY <2>9, HandlersStay DEF ConnectSucceeds, Release, Free, fields, network, history
  <2>10. CASE StartFails
    BY <2>10, HandlersStay DEF StartFails, Fault, Close, Go, history
  <2>11. CASE AppDelete
    BY <2>11, HandlersStay DEF AppDelete, Delete, Go, fields, network
  <2>12. CASE AppReset
    BY <2>12, HandlersStay DEF AppReset, Close, Go, history
  <2>13. CASE AppForget
    BY <2>13, HandlersStay DEF AppForget, Forget, Release, Free, network
  <2> QED
    BY <1>2, <2>1, <2>2, <2>3, <2>4, <2>5, <2>6, <2>7, <2>8, <2>9, <2>10, <2>11, <2>12, <2>13
    DEF Proceed
<1>3. CASE Disturb
  <2>1. CASE Disconnect
    BY <2>1, HandlersStay, ClosingCall DEF Disconnect, Fault, Close, Note
  <2>2. ASSUME NEW h \in Host, AppDeprovision(h)
        PROVE  CInv'
    BY <2>2, HandlersStay DEF AppDeprovision, Fault, Begin, Note, Free, fields, network
  <2>3. ASSUME NEW h \in Host, Switch(h)
        PROVE  CInv'
    BY <2>3, HandlersStay DEF Switch, Fault, fields, network, history
  <2>4. ASSUME NEW c \in Client, Refuse(c)
        PROVE  CInv'
    BY <2>4, HandlersStay DEF Refuse, Fault, fields, history
  <2>5. ASSUME NEW c \in Client, Drop(c)
        PROVE  CInv'
    BY <2>5, HandlersStay DEF Drop, Fault, Settled, fields, history
  <2>6. ASSUME NEW m \in Handler, NEW c \in Client, NEW kind \in Mail, Deliver(m, c, kind)
        PROVE  CInv'
    <3>1. Closing' = Closing
      BY <2>6, DeliverKeeps
    <3> QED
      BY <2>6, <3>1 DEF Deliver, Fault, Idle, fields, network, history
  <2> QED
    BY <1>3, <2>1, <2>2, <2>3, <2>4, <2>5, <2>6 DEF Disturb
<1>4. ASSUME NEW m \in Handler, Handle(m) PROVE CInv'
  <2>1. CASE BeginDeprovision(m)
    <3>1. Closing' = Closing
      BY <2>1, HandlerCloses
    <3> QED
      BY <2>1, <3>1 DEF BeginDeprovision, Note, fields, network
  <2>2. CASE HandlerDelete(m)
    <3>1. Closing' = Closing
      BY <2>2, HandlerCloses
    <3> QED
      BY <2>2, <3>1 DEF HandlerDelete, Delete, Take, fields, network
  <2>3. CASE HandlerReset(m)
    <3>1. Closing'
      BY <2>3, HandlerCloses
    <3> QED
      BY <2>3, <3>1 DEF HandlerReset, Close, Take, Note
  <2>4. CASE HandlerForget(m)
    <3>1. Closing
      BY <2>4, HandlerCloses
    <3> QED
      BY <2>4, <3>1 DEF HandlerForget, Forget, Idle, network
  <2>5. CASE BeginRotate(m)
    <3>1. Closing' = Closing
      BY <2>5, HandlerCloses
    <3> QED
      BY <2>5, <3>1 DEF BeginRotate, Idle, fields, network, history
  <2>6. CASE RotateDisconnect(m)
    <3>1. Closing' = Closing
      BY <2>6, HandlerCloses
    <3> QED
      BY <2>6, <3>1, ClosingCall DEF RotateDisconnect, Close, Note, Take
  <2>7. CASE RotateConnect(m)
    <3>0. Closing' = Closing
      BY <2>7, HandlerCloses
    <3>1. ASSUME handler[m].host \in Host /\ Connect("handler", handler[m].host) PROVE CInv'
      BY <3>0, <3>1, ConnectStep DEF Close, Note
    <3>2. ASSUME Begin([Free EXCEPT !.by = "handler", !.step = "closing"]), Close,
                 UNCHANGED <<state, certs, mqttClient, paired, peer, callbacks, target, faults, lost>>
          PROVE  CInv'
      BY <3>0, <3>2, ClosingCall DEF Close, Note
    <3> QED
      BY <2>7, <3>1, <3>2, RotateCall
  <2> QED
    BY <1>4, <2>1, <2>2, <2>3, <2>4, <2>5, <2>6, <2>7 DEF Handle
<1>5. ASSUME NEW c \in Client, Accept(c) PROVE CInv'
  BY <1>5, HandlersStay DEF Accept, Settled, Awaited, Note, fields
<1>6. ASSUME NEW c \in Client, RefuseLate(c) PROVE CInv'
  BY <1>6, HandlersStay DEF RefuseLate, fields, history
<1>7. ASSUME NEW c \in Client, Callback(c) PROVE CInv'
  <2>1. CASE OnConnect(c)
    BY <2>1, HandlersStay DEF OnConnect
  <2>2. CASE OnDisconnect(c)
    BY <2>2, HandlersStay DEF OnDisconnect, Note
  <2> QED
    BY <1>7, <2>1, <2>2 DEF Callback
<1>8. CASE UNCHANGED vars
  <2>1. Closing' = Closing
    BY <1>8, HandlersStay DEF vars
  <2> QED
    BY <1>8, <2>1 DEF vars, fields, network, history
<1> QED
  BY <1>1, <1>2, <1>3, <1>4, <1>5, <1>6, <1>7, <1>8 DEF Next

\* Nothing takes back that a handler has ended the session during a call.
LEMMA CrossedStays == ASSUME [Next]_vars, "crossed" \in mishap PROVE "crossed" \in mishap'
BY DEF Next, AppConnect, Connect, Begin, Note, Proceed, Initialize, ConnectFails, Answer, Request,
       Panic, PairingCode, Authenticated, StartConnect, ConnectSucceeds, StartFails, AppDelete,
       AppReset, AppForget, Forget, Disturb, Disconnect, AppDeprovision, Switch, Refuse, Drop,
       Deliver, Handle, BeginDeprovision, HandlerDelete, HandlerReset, HandlerForget, BeginRotate,
       RotateDisconnect, RotateConnect, Accept, RefuseLate, Callback, OnConnect, OnDisconnect,
       vars, history

LEMMA SessionStep == ASSUME TInv, CInv, SInv, [Next]_vars PROVE SInv'
<1> DEFINE Parts == LockFits /\ SessionFits /\ WaitFits /\ PeerFits /\ StageFits
<1> SUFFICES ASSUME "crossed" \notin mishap' PROVE Parts'
  BY DEF SInv
<1>0. Parts
  BY CrossedStays DEF SInv
<1> USE <1>0, TInv, CInv, HostAssumption
       DEF TInv, TypeOK, HostFits, CallFits, AnyHost, Call, Message, States, CInv, ClientFits,
           PairingFits, LockFits, SessionFits, WaitFits, PeerFits, StageFits, Resetting, Free
<1>1. CASE AppConnect
  <2>1. target \in Host /\ Connect("app", target)
    BY <1>1 DEF AppConnect
  <2>2. Closing' = Closing
    BY <1>1, HandlersStay DEF AppConnect
  <2> QED
    BY <2>1, <2>2, ConnectStep DEF Close, Note
<1>2. CASE Proceed
  <2>1. CASE Initialize
    BY <2>1, HandlersStay DEF Initialize, Forget, Go, network
  <2>2. CASE ConnectFails
    BY <2>2, HandlersStay DEF ConnectFails, Fault, Close, Go, history
  <2>3. CASE Answer
    BY <2>3, HandlersStay DEF Answer, Started, Release, Free, fields, network, history
  <2>4. CASE Request
    BY <2>4, HandlersStay DEF Request, Go, fields, network, history
  <2>5. CASE Panic
    BY <2>5, HandlersStay DEF Panic, Release, Free, fields, network, history
  <2>6. CASE PairingCode
    BY <2>6, HandlersStay DEF PairingCode, Release, Free, network
  <2>7. CASE Authenticated
    BY <2>7, HandlersStay DEF Authenticated, Release, Go, Free, fields, network, history
  <2>8. CASE StartConnect
    BY <2>8, HandlersStay DEF StartConnect, Started, Fresh, Alive
  <2>9. CASE ConnectSucceeds
    BY <2>9, HandlersStay DEF ConnectSucceeds, Release, Free, fields, network, history
  <2>10. CASE StartFails
    BY <2>10, HandlersStay DEF StartFails, Fault, Close, Go, history
  <2>11. CASE AppDelete
    BY <2>11, HandlersStay DEF AppDelete, Delete, Go, fields, network
  <2>12. CASE AppReset
    BY <2>12, HandlersStay DEF AppReset, Close, Go, history
  <2>13. CASE AppForget
    BY <2>13, HandlersStay DEF AppForget, Forget, Release, Free, network
  <2> QED
    BY <1>2, <2>1, <2>2, <2>3, <2>4, <2>5, <2>6, <2>7, <2>8, <2>9, <2>10, <2>11, <2>12, <2>13
    DEF Proceed
<1>3. CASE Disturb
  <2>1. CASE Disconnect
    BY <2>1, HandlersStay, ClosingCall DEF Disconnect, Fault, Close, Note
  <2>2. ASSUME NEW h \in Host, AppDeprovision(h)
        PROVE  Parts'
    BY <2>2, HandlersStay DEF AppDeprovision, Fault, Begin, Note, Free, fields, network
  <2>3. ASSUME NEW h \in Host, Switch(h)
        PROVE  Parts'
    BY <2>3, HandlersStay DEF Switch, Fault, fields, network, history
  <2>4. ASSUME NEW c \in Client, Refuse(c)
        PROVE  Parts'
    BY <2>4, HandlersStay DEF Refuse, Fault, fields, history
  <2>5. ASSUME NEW c \in Client, Drop(c)
        PROVE  Parts'
    BY <2>5, HandlersStay DEF Drop, Fault, Settled, fields, history
  <2>6. ASSUME NEW m \in Handler, NEW c \in Client, NEW kind \in Mail, Deliver(m, c, kind)
        PROVE  Parts'
    <3>1. Closing' = Closing
      BY <2>6, DeliverKeeps
    <3> QED
      BY <2>6, <3>1 DEF Deliver, Fault, Idle, fields, network, history
  <2> QED
    BY <1>3, <2>1, <2>2, <2>3, <2>4, <2>5, <2>6 DEF Disturb
<1>4. ASSUME NEW m \in Handler, Handle(m) PROVE Parts'
  <2>1. CASE BeginDeprovision(m)
    <3>1. Closing' = Closing
      BY <2>1, HandlerCloses
    <3> QED
      BY <2>1, <3>1 DEF BeginDeprovision, Note, fields, network
  <2>2. CASE HandlerDelete(m)
    <3>1. Closing' = Closing
      BY <2>2, HandlerCloses
    <3> QED
      BY <2>2, <3>1 DEF HandlerDelete, Delete, Take, fields, network
  <2>3. CASE HandlerReset(m)
    <3>1. Closing'
      BY <2>3, HandlerCloses
    <3> QED
      BY <2>3, <3>1 DEF HandlerReset, Close, Take, Note
  <2>4. CASE HandlerForget(m)
    <3>1. Closing
      BY <2>4, HandlerCloses
    <3> QED
      BY <2>4, <3>1 DEF HandlerForget, Forget, Idle, network
  <2>5. CASE BeginRotate(m)
    <3>1. Closing' = Closing
      BY <2>5, HandlerCloses
    <3> QED
      BY <2>5, <3>1 DEF BeginRotate, Idle, fields, network, history
  <2>6. CASE RotateDisconnect(m)
    <3>1. Closing' = Closing
      BY <2>6, HandlerCloses
    <3> QED
      BY <2>6, <3>1, ClosingCall DEF RotateDisconnect, Close, Note, Take
  <2>7. CASE RotateConnect(m)
    <3>0. Closing' = Closing
      BY <2>7, HandlerCloses
    <3>1. ASSUME handler[m].host \in Host /\ Connect("handler", handler[m].host) PROVE Parts'
      BY <3>0, <3>1, ConnectStep DEF Close, Note
    <3>2. ASSUME Begin([Free EXCEPT !.by = "handler", !.step = "closing"]), Close,
                 UNCHANGED <<state, certs, mqttClient, paired, peer, callbacks, target, faults, lost>>
          PROVE  Parts'
      BY <3>0, <3>2, ClosingCall DEF Close, Note
    <3> QED
      BY <2>7, <3>1, <3>2, RotateCall
  <2> QED
    BY <1>4, <2>1, <2>2, <2>3, <2>4, <2>5, <2>6, <2>7 DEF Handle
<1>5. ASSUME NEW c \in Client, Accept(c) PROVE Parts'
  BY <1>5, HandlersStay DEF Accept, Settled, Awaited, Note, fields
<1>6. ASSUME NEW c \in Client, RefuseLate(c) PROVE Parts'
  BY <1>6, HandlersStay DEF RefuseLate, fields, history
<1>7. ASSUME NEW c \in Client, Callback(c) PROVE Parts'
  <2>1. CASE OnConnect(c)
    BY <2>1, HandlersStay DEF OnConnect
  <2>2. CASE OnDisconnect(c)
    BY <2>2, HandlersStay DEF OnDisconnect, Note
  <2> QED
    BY <1>7, <2>1, <2>2 DEF Callback
<1>8. CASE UNCHANGED vars
  <2>1. Closing' = Closing
    BY <1>8, HandlersStay DEF vars
  <2> QED
    BY <1>8, <2>1 DEF vars, fields, network, history
<1> QED
  BY <1>1, <1>2, <1>3, <1>4, <1>5, <1>6, <1>7, <1>8 DEF Next

LEMMA OpenStep == ASSUME TInv, CInv, SInv, OInv, [Next]_vars PROVE OInv'
<1> USE TInv, CInv, SInv, OInv, HostAssumption
       DEF TInv, TypeOK, Call, Message, States, CInv, ClientFits, PairingFits, SInv, LockFits,
           WaitFits, OInv, OpenFits, Resetting, Free
<1>1. CASE AppConnect
  <2>1. target \in Host /\ Connect("app", target)
    BY <1>1 DEF AppConnect
  <2>2. Closing' = Closing
    BY <1>1, HandlersStay DEF AppConnect
  <2> QED
    BY <2>1, <2>2, ConnectStep DEF Close, Note
<1>2. CASE Proceed
  <2>1. CASE Initialize
    BY <2>1, HandlersStay DEF Initialize, Forget, Go, network
  <2>2. CASE ConnectFails
    BY <2>2, HandlersStay DEF ConnectFails, Fault, Close, Go, history
  <2>3. CASE Answer
    BY <2>3, HandlersStay DEF Answer, Started, Release, Free, fields, network, history
  <2>4. CASE Request
    BY <2>4, HandlersStay DEF Request, Go, fields, network, history
  <2>5. CASE Panic
    BY <2>5, HandlersStay DEF Panic, Release, Free, fields, network, history
  <2>6. CASE PairingCode
    BY <2>6, HandlersStay DEF PairingCode, Release, Free, network
  <2>7. CASE Authenticated
    BY <2>7, HandlersStay DEF Authenticated, Release, Go, Free, fields, network, history
  <2>8. CASE StartConnect
    BY <2>8, HandlersStay DEF StartConnect, Started, Fresh, Alive
  <2>9. CASE ConnectSucceeds
    BY <2>9, HandlersStay DEF ConnectSucceeds, Release, Free, fields, network, history
  <2>10. CASE StartFails
    BY <2>10, HandlersStay DEF StartFails, Fault, Close, Go, history
  <2>11. CASE AppDelete
    BY <2>11, HandlersStay DEF AppDelete, Delete, Go, fields, network
  <2>12. CASE AppReset
    BY <2>12, HandlersStay DEF AppReset, Close, Go, history
  <2>13. CASE AppForget
    BY <2>13, HandlersStay DEF AppForget, Forget, Release, Free, network
  <2> QED
    BY <1>2, <2>1, <2>2, <2>3, <2>4, <2>5, <2>6, <2>7, <2>8, <2>9, <2>10, <2>11, <2>12, <2>13
    DEF Proceed
<1>3. CASE Disturb
  <2>1. CASE Disconnect
    BY <2>1, HandlersStay, ClosingCall DEF Disconnect, Fault, Close, Note
  <2>2. ASSUME NEW h \in Host, AppDeprovision(h)
        PROVE  OInv'
    BY <2>2, HandlersStay DEF AppDeprovision, Fault, Begin, Note, Free, fields, network
  <2>3. ASSUME NEW h \in Host, Switch(h)
        PROVE  OInv'
    BY <2>3, HandlersStay DEF Switch, Fault, fields, network, history
  <2>4. ASSUME NEW c \in Client, Refuse(c)
        PROVE  OInv'
    BY <2>4, HandlersStay DEF Refuse, Fault, fields, history
  <2>5. ASSUME NEW c \in Client, Drop(c)
        PROVE  OInv'
    BY <2>5, HandlersStay DEF Drop, Fault, Settled, fields, history
  <2>6. ASSUME NEW m \in Handler, NEW c \in Client, NEW kind \in Mail, Deliver(m, c, kind)
        PROVE  OInv'
    <3>1. Closing' = Closing
      BY <2>6, DeliverKeeps
    <3> QED
      BY <2>6, <3>1 DEF Deliver, Fault, Idle, fields, network, history
  <2> QED
    BY <1>3, <2>1, <2>2, <2>3, <2>4, <2>5, <2>6 DEF Disturb
<1>4. ASSUME NEW m \in Handler, Handle(m) PROVE OInv'
  <2>1. CASE BeginDeprovision(m)
    <3>1. Closing' = Closing
      BY <2>1, HandlerCloses
    <3> QED
      BY <2>1, <3>1 DEF BeginDeprovision, Note, fields, network
  <2>2. CASE HandlerDelete(m)
    <3>1. Closing' = Closing
      BY <2>2, HandlerCloses
    <3> QED
      BY <2>2, <3>1 DEF HandlerDelete, Delete, Take, fields, network
  <2>3. CASE HandlerReset(m)
    <3>1. Closing'
      BY <2>3, HandlerCloses
    <3> QED
      BY <2>3, <3>1 DEF HandlerReset, Close, Take, Note
  <2>4. CASE HandlerForget(m)
    <3>1. Closing
      BY <2>4, HandlerCloses
    <3> QED
      BY <2>4, <3>1 DEF HandlerForget, Forget, Idle, network
  <2>5. CASE BeginRotate(m)
    <3>1. Closing' = Closing
      BY <2>5, HandlerCloses
    <3> QED
      BY <2>5, <3>1 DEF BeginRotate, Idle, fields, network, history
  <2>6. CASE RotateDisconnect(m)
    <3>1. Closing' = Closing
      BY <2>6, HandlerCloses
    <3> QED
      BY <2>6, <3>1, ClosingCall DEF RotateDisconnect, Close, Note, Take
  <2>7. CASE RotateConnect(m)
    <3>0. Closing' = Closing
      BY <2>7, HandlerCloses
    <3>1. ASSUME handler[m].host \in Host /\ Connect("handler", handler[m].host) PROVE OInv'
      BY <3>0, <3>1, ConnectStep DEF Close, Note
    <3>2. ASSUME Begin([Free EXCEPT !.by = "handler", !.step = "closing"]), Close,
                 UNCHANGED <<state, certs, mqttClient, paired, peer, callbacks, target, faults, lost>>
          PROVE  OInv'
      BY <3>0, <3>2, ClosingCall DEF Close, Note
    <3> QED
      BY <2>7, <3>1, <3>2, RotateCall
  <2> QED
    BY <1>4, <2>1, <2>2, <2>3, <2>4, <2>5, <2>6, <2>7 DEF Handle
<1>5. ASSUME NEW c \in Client, Accept(c) PROVE OInv'
  BY <1>5, HandlersStay DEF Accept, Settled, Awaited, Note, fields
<1>6. ASSUME NEW c \in Client, RefuseLate(c) PROVE OInv'
  BY <1>6, HandlersStay DEF RefuseLate, fields, history
<1>7. ASSUME NEW c \in Client, Callback(c) PROVE OInv'
  <2>1. CASE OnConnect(c)
    BY <2>1, HandlersStay DEF OnConnect
  <2>2. CASE OnDisconnect(c)
    BY <2>2, HandlersStay DEF OnDisconnect, Note
  <2> QED
    BY <1>7, <2>1, <2>2 DEF Callback
<1>8. CASE UNCHANGED vars
  <2>1. Closing' = Closing
    BY <1>8, HandlersStay DEF vars
  <2> QED
    BY <1>8, <2>1 DEF vars, fields, network, history
<1> QED
  BY <1>1, <1>2, <1>3, <1>4, <1>5, <1>6, <1>7, <1>8 DEF Next

-----------------------------------------------------------------------------
(* The session as the specification of what the daemon promises *)

LEMMA StepMaps == ASSUME TInv, MInv, CInv, SInv, [Next]_vars
                  PROVE  [SessionImpl!Next]_(SessionImpl!vars)
<1> USE TInv, MInv, CInv, SInv, HostAssumption
       DEF SessionImpl!vars, SessionImpl!Next, SessionImpl!Crossed, TInv, TypeOK, HostFits,
           CallFits, AnyHost, States, MInv, MessageFits, CInv, ClientFits, PairingFits, CodeFits,
           SInv, SessionFits, StageFits
<1>1. CASE AppConnect
  <2>1. target \in Host /\ Connect("app", target)
    BY <1>1 DEF AppConnect
  <2> QED
    BY <2>1, ConnectStep DEF Close, Note, SessionImpl!Leave, SessionImpl!Outlive
<1>2. CASE Proceed
  <2>1. CASE Initialize
    BY <2>1 DEF Initialize, Forget, Go, network, SessionImpl!Reset
  <2>2. CASE ConnectFails
    BY <2>2 DEF ConnectFails, Fault, Close, Go, history, SessionImpl!Leave
  <2>3. CASE Answer
    BY <2>3 DEF Answer, Started, Release, Free, fields, network, history
  <2>4. CASE Request
    BY <2>4 DEF Request, Go, fields, network, history
  <2>5. CASE Panic
    BY <2>5 DEF Panic, Release, Free, fields, network, history
  <2>6. CASE PairingCode
    BY <2>6 DEF PairingCode, Release, Free, network, SessionImpl!Pair, SessionImpl!Late
  <2>7. CASE Authenticated
    BY <2>7
    DEF Authenticated, Release, Go, Free, fields, network, history, SessionImpl!Claimed,
        SessionImpl!Late
  <2>8. CASE StartConnect
    BY <2>8 DEF StartConnect, Started, Fresh, Alive, SessionImpl!Connect, SessionImpl!Late
  <2>9. CASE ConnectSucceeds
    BY <2>9 DEF ConnectSucceeds, Release, Free, fields, network, history
  <2>10. CASE StartFails
    BY <2>10 DEF StartFails, Fault, Close, Go, history, SessionImpl!Leave
  <2>11. CASE AppDelete
    BY <2>11 DEF AppDelete, Delete, Go, fields, network, SessionImpl!Delete
  <2>12. CASE AppReset
    BY <2>12 DEF AppReset, Close, Go, history, SessionImpl!Leave
  <2>13. CASE AppForget
    BY <2>13 DEF AppForget, Forget, Release, Free, network, SessionImpl!Reset
  <2> QED
    BY <1>2, <2>1, <2>2, <2>3, <2>4, <2>5, <2>6, <2>7, <2>8, <2>9, <2>10, <2>11, <2>12, <2>13
    DEF Proceed
<1>3. CASE Disturb
  <2>1. CASE Disconnect
    BY <2>1 DEF Disconnect, Fault, Begin, Close, Note, Free, SessionImpl!Leave
  <2>2. ASSUME NEW h \in Host, AppDeprovision(h)
        PROVE  [SessionImpl!Next]_(SessionImpl!vars)
    BY <2>2 DEF AppDeprovision, Fault, Begin, Note, Free, fields, network, SessionImpl!Outlive
  <2>3. ASSUME NEW h \in Host, Switch(h)
        PROVE  [SessionImpl!Next]_(SessionImpl!vars)
    BY <2>3 DEF Switch, Fault, fields, network, history
  <2>4. ASSUME NEW c \in Client, Refuse(c)
        PROVE  [SessionImpl!Next]_(SessionImpl!vars)
    BY <2>4 DEF Refuse, Fault, fields, history
  <2>5. ASSUME NEW c \in Client, Drop(c)
        PROVE  [SessionImpl!Next]_(SessionImpl!vars)
    BY <2>5 DEF Drop, Fault, Settled, fields, history
  <2>6. ASSUME NEW m \in Handler, NEW c \in Client, NEW kind \in Mail, Deliver(m, c, kind)
        PROVE  [SessionImpl!Next]_(SessionImpl!vars)
    BY <2>6 DEF Deliver, Fault, Idle, fields, network, history
  <2> QED
    BY <1>3, <2>1, <2>2, <2>3, <2>4, <2>5, <2>6 DEF Disturb
<1>4. ASSUME NEW m \in Handler, Handle(m) PROVE [SessionImpl!Next]_(SessionImpl!vars)
  <2>1. CASE BeginDeprovision(m)
    BY <2>1 DEF BeginDeprovision, Note, fields, network, SessionImpl!Outlive
  <2>2. CASE HandlerDelete(m)
    BY <2>2 DEF HandlerDelete, Delete, Take, fields, network, SessionImpl!Delete
  <2>3. CASE HandlerReset(m)
    BY <2>3 DEF HandlerReset, Close, Take, Note, SessionImpl!Leave
  <2>4. CASE HandlerForget(m)
    BY <2>4 DEF HandlerForget, Forget, Idle, network, SessionImpl!Reset
  <2>5. CASE BeginRotate(m)
    BY <2>5 DEF BeginRotate, Idle, fields, network, history
  <2>6. CASE RotateDisconnect(m)
    BY <2>6 DEF RotateDisconnect, Begin, Close, Take, Note, Free, SessionImpl!Leave
  <2>7. CASE RotateConnect(m)
    <3>1. ASSUME handler[m].host \in Host /\ Connect("handler", handler[m].host)
          PROVE  [SessionImpl!Next]_(SessionImpl!vars)
      BY <3>1, ConnectStep DEF Close, Note, SessionImpl!Leave, SessionImpl!Outlive
    <3>2. ASSUME Begin([Free EXCEPT !.by = "handler", !.step = "closing"]), Close,
                 UNCHANGED <<state, certs, mqttClient, paired, peer, callbacks, target, faults, lost>>
          PROVE  [SessionImpl!Next]_(SessionImpl!vars)
      BY <3>2 DEF Begin, Close, Note, SessionImpl!Leave
    <3> QED
      BY <2>7, <3>1, <3>2, RotateCall
  <2> QED
    BY <1>4, <2>1, <2>2, <2>3, <2>4, <2>5, <2>6, <2>7 DEF Handle
<1>5. ASSUME NEW c \in Client, Accept(c) PROVE [SessionImpl!Next]_(SessionImpl!vars)
  BY <1>5 DEF Accept, Settled, Awaited, Note, fields, SessionImpl!Outlive
<1>6. ASSUME NEW c \in Client, RefuseLate(c) PROVE [SessionImpl!Next]_(SessionImpl!vars)
  BY <1>6 DEF RefuseLate, fields, history
<1>7. ASSUME NEW c \in Client, Callback(c) PROVE [SessionImpl!Next]_(SessionImpl!vars)
  <2>1. CASE OnConnect(c)
    <3>1. CASE c = mqttClient
      BY <2>1, <3>1 DEF OnConnect, SessionImpl!Connected, SessionImpl!Late
    <3>2. CASE c # mqttClient
      BY <2>1, <3>2 DEF OnConnect, SessionImpl!LateCallback
    <3> QED
      BY <3>1, <3>2
  <2>2. CASE OnDisconnect(c)
    BY <2>2 DEF OnDisconnect, Note, SessionImpl!Lost, SessionImpl!LateCallback
  <2> QED
    BY <1>7, <2>1, <2>2 DEF Callback
<1>8. CASE UNCHANGED vars
  BY <1>8 DEF vars, fields, network, history
<1> QED
  BY <1>1, <1>2, <1>3, <1>4, <1>5, <1>6, <1>7, <1>8 DEF Next

-----------------------------------------------------------------------------
(* The theorems *)

LEMMA TypeInit == Init => TInv
BY HostAssumption, UseAssumption
DEF Init, TInv, TypeOK, HostFits, CallFits, States, AnyHost, Free, Idle, Call, Message, Mishaps

LEMMA CallInit == Init => MInv /\ CInv /\ SInv /\ OInv
BY HostAssumption
DEF Init, Free, Idle, MInv, OfHost, MessageFits, OnlyOwnCredentials, CInv, ClientFits, PairingFits,
    CallbackFits, ClosedFits, SaysFits, CodeFits, SInv, LockFits, SessionFits, WaitFits, PeerFits, StageFits,
    Closing, OInv, OpenFits

\* What holds of every reachable state, whatever the application, the hosts and the network do.
LEMMA Reachable == Spec => [](TInv /\ MInv /\ CInv /\ SInv /\ OInv)
<1> DEFINE I == TInv /\ MInv /\ CInv /\ SInv /\ OInv
<1>1. Init => I
  BY TypeInit, CallInit
<1>2. I /\ [Next]_vars => I'
  BY TypeStep, MessageStep, ClientStep, SessionStep, OpenStep
<1> QED
  BY <1>1, <1>2, PTL DEF Spec

\* The fields of the daemon, the messages it handles and the connections of its
\* clients are of their kinds, whatever the application, the hosts and the network do.
THEOREM TypeCorrect == Spec => []TypeOK
<1>1. TInv => TypeOK
  BY DEF TInv
<1> QED
  BY <1>1, Reachable, PTL

LEMMA OneOpen == ASSUME OpenFits
                 PROVE  Cardinality({c \in Client : conn[c] \in {"up", "retrying"}}) <= 1
<1> DEFINE Open == {c \in Client : conn[c] \in {"up", "retrying"}}
<1>1. Open = {} \/ Open = {mqttClient}
  BY DEF OpenFits
<1>2. Cardinality({}) = 0 /\ Cardinality({mqttClient}) = 1
  BY FS_EmptySet, FS_Singleton
<1> QED
  BY <1>1, <1>2

\* The daemon has one connection at a time, unless an attempt succeeds that its session
\* has given up or a handler ends the session during a call (reset, startConnect).
THEOREM OneClient == Spec => []OneConnection
<1>1. OInv => OneConnection
  BY OneOpen DEF OInv, OneConnection
<1> QED
  BY <1>1, Reachable, PTL

\* A daemon that says it is connected is, to the host of its session, or the callback
\* that corrects it has been started, unless the callback of an earlier client has set
\* the state or a handler has ended the session during a call (onConnect, onDisconnect,
\* reset).
THEOREM ConnectedIsTrue == Spec => []ConnectedIsConnected
<1>1. TInv /\ CInv /\ SInv => ConnectedIsConnected
  <2> SUFFICES ASSUME TInv, CInv, SInv, state = "CONNECTED", ~Resetting,
                      "late" \notin mishap, "crossed" \notin mishap
               PROVE  /\ mqttClient \in Alive
                      /\ peer[mqttClient] = hostID
                      /\ conn[mqttClient] = "up" \/ <<"onDisconnect", mqttClient>> \in callbacks
    BY DEF ConnectedIsConnected
  <2>1. /\ mqttClient \in Client
        /\ conn[mqttClient] = "up" \/ <<"onDisconnect", mqttClient>> \in callbacks
    BY DEF TInv, TypeOK, CInv, SaysFits
  <2>2. conn[mqttClient] \in {"up", "retrying"}
    BY <2>1, HostAssumption DEF CInv, CallbackFits, ClosedFits
  <2>3. peer[mqttClient] = hostID
    BY <2>1, HostAssumption DEF SInv, PeerFits
  <2> QED
    BY <2>1, <2>2, <2>3 DEF Alive
<1> QED
  BY <1>1, Reachable, PTL

\* A deprovision deletes the credentials of the host it was for and of no other, as long
\* as no deprovision message is handled after its session (handleDeprovision,
\* deleteCredentials).
THEOREM OwnCredentials == Spec => []OnlyOwnCredentials
<1>1. MInv => OnlyOwnCredentials
  BY DEF MInv
<1> QED
  BY <1>1, Reachable, PTL

\* Every step of the daemon is one of the session it promises, or changes nothing of
\* it: it connects with credentials only, and obtains them by pairing.
THEOREM SdkImplementsSession == Spec => SessionSpec
<1>1. Init => SessionImpl!Init
  BY DEF Init, SessionImpl!Init
<1>2. TInv /\ MInv /\ CInv /\ SInv /\ [Next]_vars => [SessionImpl!Next]_(SessionImpl!vars)
  BY StepMaps
<1> QED
  BY <1>1, <1>2, Reachable, PTL DEF Spec, SessionSpec, SessionImpl!Spec
=============================================================================
