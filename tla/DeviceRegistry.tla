--------------------------- MODULE DeviceRegistry ---------------------------
(***************************************************************************)
(* The host's registry of devices: the rows of its database, the HTTP      *)
(* calls of devices and operators and the background loops that read a row *)
(* and later write it, the authentication of MQTT connections, and the     *)
(* retained messages that tell a device of its deprovisioning and of its   *)
(* new certificate.                                                        *)
(*                                                                         *)
(* A call is a read of the row followed by its writes, with other calls,   *)
(* connections and messages in between: no lock is held. A device is       *)
(* modelled by what the host sees of it (the client's Connect loop).       *)
(***************************************************************************)
EXTENDS Naturals, FiniteSets

CONSTANTS
    Device, Account,
    NoAccount,     \* the account of a device nobody has claimed
    Worker,        \* the goroutines that serve calls and run the background loops
    MaxCert,       \* bound: certificates signed for a device
    MaxRestarts    \* bound: restarts of the host

Operation == {"claim", "deprovision", "rotate", "sweep", "expire"}

ASSUME AccountAssumption == NoAccount \notin Account

ASSUME BoundAssumption ==
    /\ MaxCert \in Nat \ {0}
    /\ MaxRestarts \in Nat

VARIABLES
    row,        \* the devices table; state "none" before the row exists, "deleted" after
    lapsed,     \* what has expired: <<d, "pairing">>, <<d, "registration">>
    signed,     \* certificates signed so far, numbered from 1; 0 is "no certificate"
    task,       \* what each worker is doing: a call or an iteration of a loop, or Idle
    retained,   \* the retained messages of the broker, per device
    link,       \* the MQTT connection of each device, as far as it got
    stale,      \* the devices that have an older connection the broker has not closed
    inbox,      \* messages on their way to the device or waiting for a handler there
    client,     \* the device: whether it waits to be claimed, and the certificate it holds
    ack,        \* deprovision acknowledgements on their way through the handler
    restarts,
    disclosed,  \* history: devices that Authenticate answered CLAIMED
    winners,    \* history: accounts whose Claim returned success
    cause,      \* history: who deprovisioned the device
    mishap      \* history: what happened to the device that the code does not prevent

hostVars == <<row, lapsed, signed, task, retained, disclosed, winners, cause>>
linkVars == <<link, stale, inbox, client, ack>>
vars == <<row, lapsed, signed, task, retained, link, stale, inbox, client, ack,
          restarts, disclosed, winners, cause, mishap>>

-----------------------------------------------------------------------------
Cert == 0 .. MaxCert

States == {"none", "PAIRING", "ACTIVE", "DEPROVISIONED", "deleted"}

Links == {"down", "checked", "checkedBoth", "marked", "admitted", "subscribed"}

Row == [state   : States,
        account : Account \cup {NoAccount},
        cur     : Cert,
        prev    : Cert,
        online  : BOOLEAN]

Client == [phase : {"new", "waiting", "paired", "removed"}, cert : Cert]

\* A call in progress: what it does next, and what it remembers of the row.
Call == [op      : Operation,
         dev     : Device,
         account : Account \cup {NoAccount},
         cert    : Cert,
         step    : {"sign", "write", "publish"}]

Idle == [op |-> "none"]

Mail == [deprovision : BOOLEAN, certs : SUBSET (1 .. MaxCert)]

Nothing == [deprovision |-> FALSE, certs |-> {}]

\* "claims": two claims of the device were in progress at a time; "sweep": a claim
\* of it and the cleanup of its code were; "order": its certificate that was
\* published last is not the one stored last; "store": it has failed to store a
\* certificate since it subscribed.
Mishaps == {"claims", "sweep", "order", "store"}

Exists(d) == row[d].state \notin {"none", "deleted"}

Claimed(d) == row[d].state \in {"ACTIVE", "DEPROVISIONED"}

Up(d) == link[d] \in {"admitted", "subscribed"}

Init ==
    /\ row = [d \in Device |->
                [state |-> "none", account |-> NoAccount, cur |-> 0, prev |-> 0, online |-> FALSE]]
    /\ lapsed = {}
    /\ signed = [d \in Device |-> 0]
    /\ task = [w \in Worker |-> Idle]
    /\ retained = [d \in Device |-> Nothing]
    /\ link = [d \in Device |-> "down"]
    /\ stale = {}
    /\ inbox = [d \in Device |-> Nothing]
    /\ client = [d \in Device |-> [phase |-> "new", cert |-> 0]]
    /\ ack = [d \in Device |-> "none"]
    /\ restarts = 0
    /\ disclosed = {}
    /\ winners = [d \in Device |-> {}]
    /\ cause = [d \in Device |-> "none"]
    /\ mishap = [d \in Device |-> {}]

-----------------------------------------------------------------------------
\* An UPDATE of a row that does not exist changes nothing.
Update(d, r) == row' = IF Exists(d) THEN [row EXCEPT ![d] = r] ELSE row

Busy(d, op) == \E w \in Worker : task[w] # Idle /\ task[w].dev = d /\ task[w].op = op

Overlaps(d, op) ==
    {m \in {"claims", "sweep"} :
        \/ m = "claims" /\ op = "claim" /\ Busy(d, "claim")
        \/ m = "sweep" /\ op = "claim" /\ Busy(d, "sweep")
        \/ m = "sweep" /\ op = "sweep" /\ Busy(d, "claim")}

\* Whatever else is in progress on the device; two kinds of overlap are noted.
Begin(w, c) ==
    /\ task[w] = Idle
    /\ task' = [task EXCEPT ![w] = c]
    /\ mishap' = [mishap EXCEPT ![c.dev] = @ \cup Overlaps(c.dev, c.op)]

At(w, op, step) == task[w] # Idle /\ task[w].op = op /\ task[w].step = step

Continue(w, step) == task' = [task EXCEPT ![w].step = step]

End(w) == task' = [task EXCEPT ![w] = Idle]

\* Mutant: the message is not retained.
PublishUnretained(d, mail) ==
    /\ inbox' = IF link[d] # "subscribed" THEN inbox
                ELSE [inbox EXCEPT ![d] =
                        [deprovision |-> @.deprovision \/ mail.deprovision,
                         certs       |-> @.certs \cup mail.certs]]
    /\ UNCHANGED retained

\* A retained message replaces the one before it and goes to the subscriber.
Publish(d, mail) ==
    /\ retained' = [retained EXCEPT ![d] =
           [deprovision |-> @.deprovision \/ mail.deprovision,
            certs       |-> IF mail.certs = {} THEN @.certs ELSE mail.certs]]
    /\ inbox' = IF link[d] # "subscribed" THEN inbox
                ELSE [inbox EXCEPT ![d] =
                        [deprovision |-> @.deprovision \/ mail.deprovision,
                         certs       |-> @.certs \cup mail.certs]]

-----------------------------------------------------------------------------
(* Pairing: the calls of the device. *)

\* POST /pair. The device id is drawn at random and never used again.
Pair(d) ==
    /\ row[d].state = "none"
    /\ row' = [row EXCEPT ![d].state = "PAIRING", ![d].cur = 1]
    /\ signed' = [signed EXCEPT ![d] = 1]
    /\ client' = [client EXCEPT ![d].phase = "waiting"]
    /\ UNCHANGED <<lapsed, task, retained, disclosed, winners, cause,
                   link, stale, inbox, ack, restarts, mishap>>

\* POST /authenticate of a claimed device: it stores the credentials of the
\* answer, or the answer is lost and it gives the pairing code up. The other
\* answers, STANDBY and "pairing expired", change nothing at the host.
Authenticate(d) ==
    /\ client[d].phase = "waiting"
    /\ Claimed(d) /\ <<d, "pairing">> \notin lapsed
    /\ disclosed' = disclosed \cup {d}
    /\ client' \in {[client EXCEPT ![d] = [phase |-> "paired", cert |-> row[d].cur]],
                    [client EXCEPT ![d].phase = "removed"]}
    /\ UNCHANGED <<row, lapsed, signed, task, retained, winners, cause,
                   link, stale, inbox, ack, restarts, mishap>>

\* An error of a call or the end of the code's lifetime makes the client reset;
\* it pairs again under another id.
GiveUp(d) ==
    /\ client[d].phase = "waiting"
    /\ client' = [client EXCEPT ![d].phase = "removed"]
    /\ UNCHANGED <<hostVars, link, stale, inbox, ack, restarts, mishap>>

Lapse(d, what) ==
    /\ IF what = "pairing" THEN row[d].state # "none" ELSE Claimed(d)
    /\ lapsed' = lapsed \cup {<<d, what>>}
    /\ UNCHANGED <<row, signed, task, retained, disclosed, winners, cause, linkVars, restarts, mishap>>

-----------------------------------------------------------------------------
(* Claim *)

\* Mutant: a code that is already claimed is not refused.
ClaimReadAny(w, d, a) ==
    /\ Exists(d)
    /\ <<d, "pairing">> \notin lapsed
    /\ \E step \in {"sign", "write"} :
          Begin(w, [op |-> "claim", dev |-> d, account |-> a, cert |-> 0, step |-> step])
    /\ UNCHANGED <<row, lapsed, signed, retained, disclosed, winners, cause, linkVars, restarts>>

\* The row is found by its pairing code; only a PAIRING one can be claimed, and
\* only before the code expires. The certificate is signed anew if asked for.
ClaimRead(w, d, a) ==
    /\ row[d].state = "PAIRING"
    /\ <<d, "pairing">> \notin lapsed
    /\ \E step \in {"sign", "write"} :
          Begin(w, [op |-> "claim", dev |-> d, account |-> a, cert |-> 0, step |-> step])
    /\ UNCHANGED <<row, lapsed, signed, retained, disclosed, winners, cause, linkVars, restarts>>

\* SetInitialCert
ClaimSign(w) ==
    LET d == task[w].dev IN
    /\ At(w, "claim", "sign")
    /\ signed[d] < MaxCert
    /\ signed' = [signed EXCEPT ![d] = @ + 1]
    /\ Update(d, [row[d] EXCEPT !.cur = signed[d] + 1])
    /\ Continue(w, "write")
    /\ UNCHANGED <<lapsed, retained, disclosed, winners, cause, linkVars, restarts, mishap>>

\* ClaimDevice: the UPDATE does not look at the state again.
ClaimWrite(w) ==
    LET d == task[w].dev IN
    /\ At(w, "claim", "write")
    /\ Update(d, [row[d] EXCEPT !.state = "ACTIVE", !.account = task[w].account])
    /\ winners' = [winners EXCEPT ![d] = @ \cup {task[w].account}]
    /\ End(w)
    /\ UNCHANGED <<lapsed, signed, retained, disclosed, cause, linkVars, restarts, mishap>>

-----------------------------------------------------------------------------
(* Deprovision *)

DeprovisionRead(w, d, a) ==
    /\ Exists(d) /\ row[d].account = a
    /\ row[d].state # "DEPROVISIONED"
    /\ Begin(w, [op |-> "deprovision", dev |-> d, account |-> a, cert |-> 0, step |-> "write"])
    /\ UNCHANGED <<row, lapsed, signed, retained, disclosed, winners, cause, linkVars, restarts>>

\* Mutant: a device that is offline is not sent the message.
DeprovisionWriteOnline(w) ==
    LET d == task[w].dev IN
    /\ At(w, "deprovision", "write")
    /\ Update(d, [row[d] EXCEPT !.state = "DEPROVISIONED"])
    /\ cause' = [cause EXCEPT ![d] = "operator"]
    /\ IF row[d].online THEN Continue(w, "publish") ELSE End(w)
    /\ UNCHANGED <<lapsed, signed, retained, disclosed, winners, linkVars, restarts, mishap>>

DeprovisionWrite(w) ==
    LET d == task[w].dev IN
    /\ At(w, "deprovision", "write")
    /\ Update(d, [row[d] EXCEPT !.state = "DEPROVISIONED"])
    /\ cause' = [cause EXCEPT ![d] = "operator"]
    /\ Continue(w, "publish")
    /\ UNCHANGED <<lapsed, signed, retained, disclosed, winners, linkVars, restarts, mishap>>

DeprovisionPublish(w) ==
    LET d == task[w].dev IN
    /\ At(w, "deprovision", "publish")
    /\ Publish(d, [deprovision |-> TRUE, certs |-> {}])
    /\ End(w)
    /\ UNCHANGED <<row, lapsed, signed, disclosed, winners, cause, link, stale, client, ack, restarts, mishap>>

-----------------------------------------------------------------------------
(* RotateCredentials, and the same by the rotation loop (account NoAccount) *)

RotateRead(w, d, a) ==
    /\ row[d].state = "ACTIVE"
    /\ a \in {NoAccount, row[d].account}
    /\ Begin(w, [op |-> "rotate", dev |-> d, account |-> a, cert |-> row[d].cur, step |-> "write"])
    /\ UNCHANGED <<row, lapsed, signed, retained, disclosed, winners, cause, linkVars, restarts>>

RotateWrite(w) ==
    LET d == task[w].dev IN
    /\ At(w, "rotate", "write")
    /\ signed[d] < MaxCert
    /\ signed' = [signed EXCEPT ![d] = @ + 1]
    /\ Update(d, [row[d] EXCEPT !.cur = signed[d] + 1, !.prev = task[w].cert])
    /\ task' = [task EXCEPT ![w].cert = signed[d] + 1, ![w].step = "publish"]
    /\ UNCHANGED <<lapsed, retained, disclosed, winners, cause, linkVars, restarts, mishap>>

RotatePublish(w) ==
    LET d == task[w].dev IN
    /\ At(w, "rotate", "publish")
    /\ Publish(d, [deprovision |-> FALSE, certs |-> {task[w].cert}])
    /\ mishap' = [mishap EXCEPT ![d] = IF task[w].cert = row[d].cur THEN @ \ {"order"}
                                       ELSE @ \cup {"order"}]
    /\ End(w)
    /\ UNCHANGED <<row, lapsed, signed, disclosed, winners, cause, link, stale, client, ack, restarts>>

-----------------------------------------------------------------------------
(* The background loops: the ids of a query, one by one. *)

\* Mutant: the query does not ask for the state.
SweepReadAny(w, d) ==
    /\ Exists(d) /\ <<d, "pairing">> \in lapsed
    /\ Begin(w, [op |-> "sweep", dev |-> d, account |-> NoAccount, cert |-> 0, step |-> "write"])
    /\ UNCHANGED <<row, lapsed, signed, retained, disclosed, winners, cause, linkVars, restarts>>

SweepRead(w, d) ==
    /\ row[d].state = "PAIRING" /\ <<d, "pairing">> \in lapsed
    /\ Begin(w, [op |-> "sweep", dev |-> d, account |-> NoAccount, cert |-> 0, step |-> "write"])
    /\ UNCHANGED <<row, lapsed, signed, retained, disclosed, winners, cause, linkVars, restarts>>

\* Mutant: the row is kept, in a state of its own.
SweepMark(w) ==
    LET d == task[w].dev IN
    /\ At(w, "sweep", "write")
    /\ Update(d, [row[d] EXCEPT !.state = "EXPIRED"])
    /\ End(w)
    /\ UNCHANGED <<lapsed, signed, retained, disclosed, winners, cause, linkVars, restarts, mishap>>

SweepWrite(w) ==
    LET d == task[w].dev IN
    /\ At(w, "sweep", "write")
    /\ row' = [row EXCEPT ![d].state = "deleted"]
    /\ End(w)
    /\ UNCHANGED <<lapsed, signed, retained, disclosed, winners, cause, linkVars, restarts, mishap>>

ExpireRead(w, d) ==
    /\ row[d].state = "ACTIVE" /\ <<d, "registration">> \in lapsed
    /\ Begin(w, [op |-> "expire", dev |-> d, account |-> NoAccount, cert |-> 0, step |-> "write"])
    /\ UNCHANGED <<row, lapsed, signed, retained, disclosed, winners, cause, linkVars, restarts>>

\* The row is deprovisioned; the device is told nothing.
ExpireWrite(w) ==
    LET d == task[w].dev IN
    /\ At(w, "expire", "write")
    /\ Update(d, [row[d] EXCEPT !.state = "DEPROVISIONED"])
    /\ cause' = [cause EXCEPT ![d] = "expiry"]
    /\ End(w)
    /\ UNCHANGED <<lapsed, signed, retained, disclosed, winners, linkVars, restarts, mishap>>

-----------------------------------------------------------------------------
(* MQTT connections: OnConnectAuthenticate, the client's subscriptions,     *)
(* OnDisconnect.                                                            *)

\* The row is read; an unknown or deprovisioned device is rejected.
AuthRead(d) ==
    /\ client[d].phase = "paired" /\ link[d] = "down"
    /\ Exists(d) /\ row[d].state # "DEPROVISIONED"
    /\ link' = [link EXCEPT ![d] = IF row[d].prev # 0 /\ row[d].cur # 0 THEN "checkedBoth" ELSE "checked"]
    /\ UNCHANGED <<hostVars, stale, inbox, client, ack, restarts, mishap>>

AuthOnline(d) ==
    /\ link[d] \in {"checked", "checkedBoth"}
    /\ Update(d, [row[d] EXCEPT !.online = TRUE])
    /\ link' = [link EXCEPT ![d] = IF @ = "checkedBoth" THEN "marked" ELSE "admitted"]
    /\ UNCHANGED <<lapsed, signed, task, retained, disclosed, winners, cause,
                   stale, inbox, client, ack, restarts, mishap>>

\* The previous certificate is cleared, whichever one the device presented.
AuthRevoke(d) ==
    /\ link[d] = "marked"
    /\ Update(d, [row[d] EXCEPT !.prev = 0])
    /\ link' = [link EXCEPT ![d] = "admitted"]
    /\ UNCHANGED <<lapsed, signed, task, retained, disclosed, winners, cause,
                   stale, inbox, client, ack, restarts, mishap>>

\* The client subscribes and is sent what is retained.
Subscribe(d) ==
    /\ link[d] = "admitted" /\ client[d].phase = "paired"
    /\ link' = [link EXCEPT ![d] = "subscribed"]
    /\ inbox' = [inbox EXCEPT ![d] = [deprovision |-> @.deprovision \/ retained[d].deprovision,
                                      certs       |-> @.certs \cup retained[d].certs]]
    /\ mishap' = [mishap EXCEPT ![d] = @ \ {"store"}]
    /\ UNCHANGED <<hostVars, stale, client, ack, restarts>>

\* OnDisconnect, by client id.
Offline(d) == Update(d, [row[d] EXCEPT !.online = FALSE])

\* The connection is lost. The broker notices at once or some time later, and
\* of the messages any part may have got through. One that is lost while it is
\* being admitted is noticed after that.
Drop(d) ==
    /\ Up(d)
    /\ link' = [link EXCEPT ![d] = "down"]
    /\ \/ Offline(d) /\ UNCHANGED stale
       \/ stale' = stale \cup {d} /\ UNCHANGED row
    /\ \E kept \in SUBSET inbox[d].certs, told \in {FALSE, inbox[d].deprovision} :
          inbox' = [inbox EXCEPT ![d] = [deprovision |-> told, certs |-> kept]]
    /\ UNCHANGED <<lapsed, signed, task, retained, disclosed, winners, cause,
                   client, ack, restarts, mishap>>

\* The broker closes the older connection: its keepalive has run out, or the
\* client id has connected again.
CloseStale(d) ==
    /\ d \in stale
    /\ stale' = stale \ {d}
    /\ Offline(d)
    /\ UNCHANGED <<lapsed, signed, task, retained, disclosed, winners, cause,
                   link, inbox, client, ack, restarts, mishap>>

-----------------------------------------------------------------------------
(* The device handles its messages, in any order (SetOrderMatters(false)). *)

\* The handler of a certificate stores it if it is not the one on disk, and the
\* client reconnects. If that fails, the message is gone and the connection stays;
\* a commit that failed half way may have replaced the certificate all the same.
TakeCert(d) ==
    /\ client[d].phase = "paired"
    /\ \E c \in inbox[d].certs :
          /\ inbox' = [inbox EXCEPT ![d].certs = @ \ {c}]
          /\ \/ /\ client' = [client EXCEPT ![d].cert = c]
                /\ IF c = client[d].cert \/ ~Up(d)
                     THEN UNCHANGED <<link, row>>
                     ELSE link' = [link EXCEPT ![d] = "down"] /\ Offline(d)
                /\ UNCHANGED mishap
             \/ /\ client' \in {client, [client EXCEPT ![d].cert = c]}
                /\ mishap' = [mishap EXCEPT ![d] = @ \cup {"store"}]
                /\ UNCHANGED <<link, row>>
    /\ UNCHANGED <<lapsed, signed, task, retained, disclosed, winners, cause,
                   stale, ack, restarts>>

\* The device is deprovisioned, by its host's message or by its own application:
\* it tells the host if it is connected, deletes its credentials and disconnects.
Leave(d) ==
    /\ client[d].phase = "paired"
    /\ client' = [client EXCEPT ![d] = [phase |-> "removed", cert |-> 0]]
    /\ inbox' = [inbox EXCEPT ![d] = Nothing]
    /\ IF Up(d)
         THEN /\ ack' \in {ack, [ack EXCEPT ![d] = "sent"]}
              /\ link' = [link EXCEPT ![d] = "down"]
              /\ Offline(d)
         ELSE UNCHANGED <<ack, link, row>>
    /\ UNCHANGED <<lapsed, signed, task, retained, disclosed, winners, cause, stale, restarts, mishap>>

TakeDeprovision(d) == inbox[d].deprovision /\ Leave(d)

SelfDeprovision(d) == ~inbox[d].deprovision /\ Leave(d)

\* handleDeprovision of the host: the row is read and, unless it is already
\* deprovisioned, written.
AckRead(d) ==
    /\ ack[d] = "sent"
    /\ ack' = [ack EXCEPT ![d] = IF Exists(d) /\ row[d].state # "DEPROVISIONED"
                                 THEN "read" ELSE "none"]
    /\ UNCHANGED <<hostVars, link, stale, inbox, client, restarts, mishap>>

AckWrite(d) ==
    /\ ack[d] = "read"
    /\ Update(d, [row[d] EXCEPT !.state = "DEPROVISIONED"])
    /\ cause' = [cause EXCEPT ![d] = IF @ = "none" THEN "device" ELSE @]
    /\ ack' = [ack EXCEPT ![d] = "none"]
    /\ UNCHANGED <<lapsed, signed, task, retained, disclosed, winners,
                   link, stale, inbox, client, restarts, mishap>>

\* The host restarts: calls in progress, connections and the retained messages,
\* which the broker keeps in memory, are gone; the database stays.
Restart ==
    /\ restarts < MaxRestarts
    /\ restarts' = restarts + 1
    /\ task' = [w \in Worker |-> Idle]
    /\ retained' = [d \in Device |-> Nothing]
    /\ link' = [d \in Device |-> "down"]
    /\ stale' = {}
    /\ inbox' = [d \in Device |-> Nothing]
    /\ ack' = [d \in Device |-> "none"]
    /\ UNCHANGED <<row, lapsed, signed, client, disclosed, winners, cause, mishap>>

-----------------------------------------------------------------------------
Start(w, d) ==
    \/ \E a \in Account : ClaimRead(w, d, a) \/ DeprovisionRead(w, d, a)
    \/ \E a \in Account \cup {NoAccount} : RotateRead(w, d, a)
    \/ SweepRead(w, d)
    \/ ExpireRead(w, d)

Proceed(w) ==
    \/ ClaimSign(w) \/ ClaimWrite(w)
    \/ DeprovisionWrite(w) \/ DeprovisionPublish(w)
    \/ RotateWrite(w) \/ RotatePublish(w)
    \/ SweepWrite(w)
    \/ ExpireWrite(w)

Pairing(d) ==
    \/ Pair(d)
    \/ Authenticate(d)
    \/ GiveUp(d)
    \/ \E what \in {"pairing", "registration"} : Lapse(d, what)

Admit(d) == AuthRead(d) \/ AuthOnline(d) \/ AuthRevoke(d) \/ Subscribe(d)

Disconnect(d) == Drop(d) \/ CloseStale(d)

Handle(d) == TakeCert(d) \/ TakeDeprovision(d) \/ SelfDeprovision(d)

Acknowledge(d) == AckRead(d) \/ AckWrite(d)

Next ==
    \/ \E w \in Worker : Proceed(w) \/ \E d \in Device : Start(w, d)
    \/ \E d \in Device :
          Pairing(d) \/ Admit(d) \/ Disconnect(d) \/ Handle(d) \/ Acknowledge(d)
    \/ Restart

Spec == Init /\ [][Next]_vars

\* The host completes its calls, the broker and the device handle what is sent,
\* and a paired device keeps trying to connect (the Connect loop of the
\* application, every 5 s); a connection that is made again and again is used
\* in the end.
Fairness ==
    /\ \A w \in Worker : WF_vars(Proceed(w))
    /\ \A d \in Device :
          /\ WF_vars(Admit(d)) /\ SF_vars(Subscribe(d))
          /\ SF_vars(TakeCert(d)) /\ SF_vars(TakeDeprovision(d))
          /\ WF_vars(Acknowledge(d))

FairSpec == Spec /\ Fairness

-----------------------------------------------------------------------------
TypeOK ==
    /\ row \in [Device -> Row]
    /\ lapsed \subseteq Device \X {"pairing", "registration"}
    /\ signed \in [Device -> Cert]
    /\ task \in [Worker -> Call \cup {Idle}]
    /\ retained \in [Device -> Mail]
    /\ link \in [Device -> Links]
    /\ stale \subseteq Device
    /\ inbox \in [Device -> Mail]
    /\ client \in [Device -> Client]
    /\ ack \in [Device -> {"none", "sent", "read"}]
    /\ restarts \in 0 .. MaxRestarts
    /\ disclosed \subseteq Device
    /\ winners \in [Device -> SUBSET Account]
    /\ cause \in [Device -> {"none", "operator", "expiry", "device"}]
    /\ mishap \in [Device -> SUBSET Mishaps]

(* A rotation of a device is about to publish the certificate of its row.   *)
Publishing(d) ==
    \E w \in Worker : At(w, "rotate", "publish") /\ task[w].dev = d /\ task[w].cert = row[d].cur

(* A device whose certificate is not the latest one has the latest one on   *)
(* its way: about to be published, or retained for its next connection and, *)
(* while it is connected, delivered on this one; whatever rotations overlap *)
(* and whatever order its handlers take older ones in (RotateCredentials    *)
(* and rotateDevice publish what they stored). Excepted are a device whose  *)
(* certificates were published in another order than they were stored, one  *)
(* that two calls have claimed at a time, until its next connection one     *)
(* that failed to store a certificate, and a restart, which forgets what is *)
(* retained.                                                                *)
LatestCertOnItsWay ==
    \A d \in Device :
        /\ row[d].state = "ACTIVE" /\ restarts = 0 /\ mishap[d] \cap {"claims", "order"} = {}
        /\ client[d].phase = "paired" /\ client[d].cert # row[d].cur
        => \/ Publishing(d)
           \/ /\ row[d].cur \in retained[d].certs
              /\ link[d] = "subscribed" /\ "store" \notin mishap[d] => row[d].cur \in inbox[d].certs

(* A device that is deprovisioned by its operator and is still connected    *)
(* has the message on its way, even if it was being admitted meanwhile and  *)
(* whatever other calls were in progress: the state is written before the   *)
(* message is published, and the message is retained. Excepted is a device  *)
(* that two calls have claimed at a time: the second makes it active again. *)
DeprovisionReachesConnected ==
    \A d \in Device :
        cause[d] = "operator" /\ ~Busy(d, "deprovision") /\ client[d].phase = "paired"
        /\ "claims" \notin mishap[d]
        => /\ link[d] = "subscribed" => inbox[d].deprovision
           /\ link[d] \notin {"down", "subscribed"} => retained[d].deprovision

(* The account that owns a device was told that it has claimed it, and it   *)
(* is the only one that was told so, unless two of its claims were in       *)
(* progress at a time: a code that is already claimed is a conflict.        *)
ClaimedOnce ==
    \A d \in Device :
        /\ Claimed(d) => row[d].account \in winners[d]
        /\ Cardinality(winners[d]) <= 1 \/ "claims" \in mishap[d]

(* The same of claims that overlap: the code does not prevent the second.   *)
OneWinner == \A d \in Device : Cardinality(winners[d]) <= 1

(* A device that is connected is shown as online once the broker has closed *)
(* the connections before it.                                               *)
ConnectedIsOnline ==
    \A d \in Device : Up(d) /\ d \notin stale /\ Exists(d) => row[d].online

(* A device that its operator has deprovisioned deletes its credentials in  *)
(* the end, offline or not.                                                 *)
OfflineDeviceDeprovisions ==
    \A d \in Device :
        cause[d] = "operator" /\ client[d].phase = "paired" ~> client[d].phase = "removed"

-----------------------------------------------------------------------------
\* The devices that were claimed while another call was deciding on them.
Contested == {d \in Device : mishap[d] \cap {"claims", "sweep"} # {}}

Lifecycle == INSTANCE DeviceLifecycle
    WITH stage <- [d \in Device |-> row[d].state],
         owner <- [d \in Device |-> row[d].account],
         contested <- Contested

LifecycleSpec == Lifecycle!Spec
=============================================================================
