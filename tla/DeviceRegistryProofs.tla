------------------------ MODULE DeviceRegistryProofs ------------------------
(***************************************************************************)
(* Proofs about DeviceRegistry, for any devices, accounts, workers, number *)
(* of certificates and restarts, and whatever operations overlap. What an  *)
(* overlap spoils is in the statements, by the history variable mishap.    *)
(***************************************************************************)
EXTENDS DeviceRegistry, FiniteSetTheorems, TLAPS

-----------------------------------------------------------------------------
(* What the types need. *)

\* Of the operations that are in progress on one device an overlap is noted.
OverlapsNoted ==
    \A v, w \in Worker :
        v # w /\ task[v] # Idle /\ task[w] # Idle /\ task[v].dev = task[w].dev /\ task[v].op = "claim"
        => /\ task[w].op = "claim" => "claims" \in mishap[task[v].dev]
           /\ task[w].op = "sweep" => "sweep" \in mishap[task[v].dev]

\* A rotation that is about to publish has signed a certificate.
PublishesACert == \A w \in Worker : At(w, "rotate", "publish") => task[w].cert # 0

\* A claim is made by an account.
ClaimsByAccount ==
    \A w \in Worker : task[w] # Idle /\ task[w].op = "claim" => task[w].account \in Account

TInv == TypeOK /\ OverlapsNoted /\ PublishesACert /\ ClaimsByAccount

-----------------------------------------------------------------------------
(* Claims, owners, deprovisioning. *)

\* The states of a row that was claimed or deleted.
Settled == {"ACTIVE", "DEPROVISIONED", "deleted"}

\* A claim in progress is the first, unless it overlaps with another: nobody has claimed the row
\* since it was read.
ClaimFits ==
    \A w \in Worker :
        task[w] # Idle /\ task[w].op = "claim"
        => /\ row[task[w].dev].state # "none"
           /\ \/ row[task[w].dev].state \in {"PAIRING", "deleted"} /\ winners[task[w].dev] = {}
              \/ "claims" \in mishap[task[w].dev]

\* An operation on a claimed device finds it claimed later too, or deleted.
SettledFits ==
    \A w \in Worker :
        task[w] # Idle /\ task[w].op \in {"deprovision", "rotate", "expire"}
        => row[task[w].dev].state \in Settled

\* Nobody has claimed a row that is new or waits to be claimed.
UnclaimedFits ==
    \A d \in Device :
        row[d].state \in {"none", "PAIRING"} => row[d].account = NoAccount /\ winners[d] = {}

\* The owner of a row is an account that was told so, and the only one unless claims overlapped.
OwnerFits ==
    \A d \in Device :
        /\ Claimed(d) => row[d].account \in winners[d]
        /\ "claims" \notin mishap[d] => \A a, b \in winners[d] : a = b

\* A device that has its credentials, or was ever connected, has been claimed.
ClientFits ==
    \A d \in Device :
        /\ client[d].phase = "paired" \/ d \in disclosed \/ ack[d] # "none"
           => row[d].state \in Settled
        /\ client[d].phase \in {"new", "waiting"} => link[d] = "down"
        /\ row[d].state = "none" => client[d].phase = "new"

\* A deprovisioned device stays so, unless a claim overlapped with another.
CauseFits ==
    \A d \in Device :
        cause[d] # "none" /\ "claims" \notin mishap[d] => row[d].state \in {"DEPROVISIONED", "deleted"}

\* After the operator's deprovisioning the message is on its way, or a call is about to send it.
MessageFits ==
    \A d \in Device :
        cause[d] = "operator" /\ client[d].phase = "paired" /\ "claims" \notin mishap[d]
        => \/ \E w \in Worker : At(w, "deprovision", "publish") /\ task[w].dev = d
           \/ /\ link[d] = "subscribed" => inbox[d].deprovision
              /\ link[d] \notin {"down", "subscribed"} => retained[d].deprovision

CInv == ClaimFits /\ SettledFits /\ UnclaimedFits /\ OwnerFits /\ ClientFits /\ CauseFits /\ MessageFits

-----------------------------------------------------------------------------
(* The latest certificate. *)

\* The device is one that LatestCertOnItsWay excepts.
Spoiled(d) == mishap[d] \cap {"claims", "order"} # {}

\* Certificates are sent to claimed devices only.
SentFits(d) ==
    row[d].state \in {"none", "PAIRING"} => retained[d].certs = {} /\ inbox[d].certs = {}

\* Once any certificate was sent the latest is retained, or about to be.
RetainedFits(d) ==
    /\ Claimed(d) /\ restarts = 0 /\ ~Spoiled(d)
    /\ \/ retained[d].certs # {} \/ inbox[d].certs # {}
       \/ client[d].phase = "paired" /\ client[d].cert # row[d].cur
    => Publishing(d) \/ row[d].cur \in retained[d].certs

\* A connected device without the latest certificate is about to be sent it or has it waiting,
\* if it stored what it was sent.
WaitingFits(d) ==
    /\ Claimed(d) /\ restarts = 0 /\ ~Spoiled(d)
    /\ link[d] = "subscribed" /\ "store" \notin mishap[d]
    /\ client[d].phase = "paired" /\ client[d].cert # row[d].cur
    => Publishing(d) \/ row[d].cur \in inbox[d].certs

RInv == \A d \in Device : SentFits(d) /\ RetainedFits(d) /\ WaitingFits(d)

-----------------------------------------------------------------------------
(* Claims and sweeps. *)

\* A sweep in progress deletes a row that nobody has claimed since it was read, unless it is
\* contested.
SweepFits ==
    \A w \in Worker :
        task[w] # Idle /\ task[w].op = "sweep"
        => /\ row[task[w].dev].state # "none"
           /\ row[task[w].dev].state \in {"PAIRING", "deleted"} \/ task[w].dev \in Contested

\* A claim in progress claims a row that is still there, unless it is contested.
ClaimMeetsRow ==
    \A w \in Worker :
        task[w] # Idle /\ task[w].op = "claim"
        => /\ row[task[w].dev].state # "none"
           /\ row[task[w].dev].state = "PAIRING" \/ task[w].dev \in Contested

SInv == SweepFits /\ ClaimMeetsRow

-----------------------------------------------------------------------------
(* Records of the model. *)

\* An UPDATE of a row by a row leaves a table.
LEMMA UpdateType ==
    ASSUME row \in [Device -> Row], NEW d \in Device, NEW r \in Row, Update(d, r)
    PROVE  row' \in [Device -> Row]
BY DEF Update

\* The connection of a device is marked as ended.
LEMMA OfflineType ==
    ASSUME row \in [Device -> Row], NEW d \in Device, Offline(d)
    PROVE  row' \in [Device -> Row]
<1>1. row[d] \in Row
  OBVIOUS
<1>2. [row[d] EXCEPT !.online = FALSE] \in Row
  BY <1>1 DEF Row
<1> QED
  BY <1>2, UpdateType DEF Offline

\* A message that is published is one that can be retained and delivered.
LEMMA PublishType ==
    ASSUME retained \in [Device -> Mail], inbox \in [Device -> Mail],
           NEW d \in Device, NEW mail \in Mail, Publish(d, mail)
    PROVE  retained' \in [Device -> Mail] /\ inbox' \in [Device -> Mail]
BY DEF Publish, Mail

\* A worker at a step of a call has the call before it.
LEMMA CallAt ==
    ASSUME TypeOK, NEW w \in Worker, NEW op, NEW step, At(w, op, step)
    PROVE  /\ task[w] \in Call /\ task[w] # Idle /\ task[w].op = op /\ task[w].step = step
           /\ task[w].dev \in Device /\ task[w].cert \in Cert
           /\ row[task[w].dev] \in Row /\ signed[task[w].dev] \in Cert
<1>1. task[w] \in Call /\ task[w] # Idle /\ task[w].op = op /\ task[w].step = step
  BY DEF TypeOK, At
<1> QED
  BY <1>1 DEF TypeOK, Call

\* The overlaps that were noted stay so.
OverlapsStay ==
    \A d \in Device : \A m \in {"claims", "sweep"} : m \in mishap[d] => m \in mishap'[d]

SameOverlaps ==
    \A d \in Device : \A m \in {"claims", "sweep"} : m \in mishap[d] <=> m \in mishap'[d]

\* Reading a row begins a call or an iteration of a loop, which may be together with the others.
LEMMA BeginType ==
    ASSUME TInv, NEW w \in Worker, NEW c \in Call, Begin(w, c),
           c.op = "rotate" => c.step # "publish",
           c.op = "claim" => c.account \in Account
    PROVE  /\ task' \in [Worker -> Call \cup {Idle}]
           /\ mishap' \in [Device -> SUBSET Mishaps] /\ OverlapsStay
           /\ OverlapsNoted' /\ PublishesACert' /\ ClaimsByAccount'
<1>1. task' \in [Worker -> Call \cup {Idle}] /\ task \in [Worker -> Call \cup {Idle}]
  BY DEF Begin, TInv, TypeOK
<1>2. /\ task'[w] = c
      /\ \A v \in Worker : v # w => task'[v] = task[v]
  BY <1>1 DEF Begin
<1>5. mishap' = [mishap EXCEPT ![c.dev] = @ \cup Overlaps(c.dev, c.op)]
      /\ c.dev \in Device /\ mishap \in [Device -> SUBSET Mishaps]
  BY DEF Begin, TInv, TypeOK, Call
<1>6. mishap' \in [Device -> SUBSET Mishaps] /\ OverlapsStay
  BY <1>5 DEF Overlaps, OverlapsStay, Mishaps
<1>7. ASSUME NEW v \in Worker, v # w, task[v] # Idle, task[v].dev = c.dev
      PROVE  /\ c.op = "claim" /\ task[v].op = "claim" => "claims" \in mishap'[c.dev]
             /\ c.op = "claim" /\ task[v].op = "sweep" => "sweep" \in mishap'[c.dev]
             /\ c.op = "sweep" /\ task[v].op = "claim" => "sweep" \in mishap'[c.dev]
  BY <1>5, <1>7 DEF Overlaps, Busy
<1>3. OverlapsNoted'
  <2> SUFFICES ASSUME NEW u \in Worker, NEW v \in Worker, u # v,
                      task'[u] # Idle, task'[v] # Idle, task'[u].dev = task'[v].dev,
                      task'[u].op = "claim", task'[v].op \in {"claim", "sweep"}
               PROVE  /\ task'[v].op = "claim" => "claims" \in mishap'[task'[u].dev]
                      /\ task'[v].op = "sweep" => "sweep" \in mishap'[task'[u].dev]
    BY DEF OverlapsNoted
  <2>1. CASE u = w
    BY <1>2, <1>7, <2>1
  <2>2. CASE v = w
    BY <1>2, <1>7, <2>2
  <2>3. CASE u # w /\ v # w
    <3>1. task[u].dev \in Device
      BY <1>1, <1>2, <2>3 DEF Call
    <3> QED
      BY <1>2, <1>6, <2>3, <3>1 DEF OverlapsNoted, OverlapsStay, TInv
  <2> QED
    BY <2>1, <2>2, <2>3
<1>4. PublishesACert' /\ ClaimsByAccount'
  BY <1>1, <1>2 DEF PublishesACert, ClaimsByAccount, At, TInv
<1> QED
  BY <1>1, <1>3, <1>4, <1>6

\* A call that goes on is together with the same others.
LEMMA GoOnType ==
    ASSUME TInv, OverlapsStay, NEW w \in Worker, task[w] # Idle,
           NEW c \in Call, task' = [task EXCEPT ![w] = c],
           c.op = task[w].op /\ c.dev = task[w].dev /\ c.account = task[w].account,
           c.op = "rotate" => c.cert # 0
    PROVE  /\ task' \in [Worker -> Call \cup {Idle}]
           /\ OverlapsNoted' /\ PublishesACert' /\ ClaimsByAccount'
<1>1. task' \in [Worker -> Call \cup {Idle}] /\ task \in [Worker -> Call \cup {Idle}]
  BY DEF TInv, TypeOK
<1>2. /\ task'[w] = c
      /\ \A v \in Worker : v # w => task'[v] = task[v]
  BY <1>1
<1>3. OverlapsNoted'
  <2>1. \A v \in Worker : task[v] # Idle => task[v].dev \in Device
    BY <1>1 DEF Call
  <2> QED
    BY <1>1, <1>2, <2>1 DEF OverlapsNoted, OverlapsStay, TInv
<1>4. PublishesACert' /\ ClaimsByAccount'
  BY <1>1, <1>2 DEF PublishesACert, ClaimsByAccount, At, TInv
<1> QED
  BY <1>1, <1>3, <1>4

\* A call that ends leaves the others.
LEMMA EndType ==
    ASSUME TInv, OverlapsStay, NEW w \in Worker, End(w)
    PROVE  /\ task' \in [Worker -> Call \cup {Idle}]
           /\ OverlapsNoted' /\ PublishesACert' /\ ClaimsByAccount'
<1>1. task' \in [Worker -> Call \cup {Idle}] /\ task \in [Worker -> Call \cup {Idle}]
  BY DEF TInv, TypeOK, End
<1>2. /\ task'[w] = Idle
      /\ \A v \in Worker : v # w => task'[v] = task[v]
  BY <1>1 DEF End
<1>3. OverlapsNoted'
  <2>1. \A v \in Worker : task[v] # Idle => task[v].dev \in Device
    BY <1>1 DEF Call
  <2> QED
    BY <1>1, <1>2, <2>1 DEF OverlapsNoted, OverlapsStay, TInv
<1>4. PublishesACert' /\ ClaimsByAccount'
  BY <1>1, <1>2 DEF PublishesACert, ClaimsByAccount, At, TInv
<1> QED
  BY <1>1, <1>3, <1>4

-----------------------------------------------------------------------------
(* The types. *)

\* Starting a call or an iteration of a loop has an overlap noted at most, of its device.
LEMMA StartMishaps ==
    ASSUME TInv, NEW w \in Worker, NEW d \in Device, Start(w, d)
    PROVE  /\ OverlapsStay
           /\ \A e \in Device : e # d => mishap'[e] = mishap[e]
           /\ mishap'[d] = mishap[d] \/ row[d].state = "PAIRING"
<1>1. ASSUME NEW c, c.dev = d, Begin(w, c)
      PROVE  /\ mishap' = [mishap EXCEPT ![d] = @ \cup Overlaps(d, c.op)]
             /\ OverlapsStay
             /\ \A e \in Device : e # d => mishap'[e] = mishap[e]
             /\ c.op \notin {"claim", "sweep"} => mishap'[d] = mishap[d]
  BY <1>1 DEF Begin, TInv, TypeOK, Overlaps, OverlapsStay
<1>2. ASSUME NEW a \in Account, ClaimRead(w, d, a)
      PROVE  \E c : c.dev = d /\ Begin(w, c) /\ row[d].state = "PAIRING"
  BY <1>2 DEF ClaimRead
<1>3. ASSUME NEW a \in Account, DeprovisionRead(w, d, a)
      PROVE  \E c : c.dev = d /\ Begin(w, c) /\ c.op \notin {"claim", "sweep"}
  BY <1>3 DEF DeprovisionRead
<1>4. ASSUME NEW a \in Account \cup {NoAccount}, RotateRead(w, d, a)
      PROVE  \E c : c.dev = d /\ Begin(w, c) /\ c.op \notin {"claim", "sweep"}
  BY <1>4 DEF RotateRead
<1>5. ASSUME SweepRead(w, d)
      PROVE  \E c : c.dev = d /\ Begin(w, c) /\ row[d].state = "PAIRING"
  BY <1>5 DEF SweepRead
<1>6. ASSUME ExpireRead(w, d)
      PROVE  \E c : c.dev = d /\ Begin(w, c) /\ c.op \notin {"claim", "sweep"}
  BY <1>6 DEF ExpireRead
<1> QED
  BY <1>1, <1>2, <1>3, <1>4, <1>5, <1>6 DEF Start

\* Starting a call or an iteration of a loop changes nothing but the worker.
LEMMA StartType == ASSUME TInv, NEW w \in Worker, NEW d \in Device, Start(w, d) PROVE TInv'
<1> DEFINE
      Begins == /\ task' \in [Worker -> Call \cup {Idle}]
                /\ mishap' \in [Device -> SUBSET Mishaps]
                /\ OverlapsNoted' /\ PublishesACert' /\ ClaimsByAccount'
<1> USE BoundAssumption
<1>1. ASSUME NEW a \in Account, NEW step \in {"sign", "write"},
             Begin(w, [op |-> "claim", dev |-> d, account |-> a, cert |-> 0, step |-> step])
      PROVE  Begins
  <2>1. [op |-> "claim", dev |-> d, account |-> a, cert |-> 0, step |-> step] \in Call
    BY DEF Call, Operation, Cert
  <2> QED
    BY <1>1, <2>1, BeginType
<1>2. ASSUME NEW a \in Account,
             Begin(w, [op |-> "deprovision", dev |-> d, account |-> a, cert |-> 0, step |-> "write"])
      PROVE  Begins
  <2>1. [op |-> "deprovision", dev |-> d, account |-> a, cert |-> 0, step |-> "write"] \in Call
    BY DEF Call, Operation, Cert
  <2> QED
    BY <1>2, <2>1, BeginType
<1>3. ASSUME NEW a \in Account \cup {NoAccount},
             Begin(w, [op |-> "rotate", dev |-> d, account |-> a, cert |-> row[d].cur,
                       step |-> "write"])
      PROVE  Begins
  <2>1. row[d].cur \in Cert
    BY DEF TInv, TypeOK, Row
  <2>2. [op |-> "rotate", dev |-> d, account |-> a, cert |-> row[d].cur, step |-> "write"] \in Call
    BY <2>1 DEF Call, Operation
  <2> QED
    BY <1>3, <2>2, BeginType
<1>4. ASSUME NEW op \in {"sweep", "expire"},
             Begin(w, [op |-> op, dev |-> d, account |-> NoAccount, cert |-> 0, step |-> "write"])
      PROVE  Begins
  <2>1. [op |-> op, dev |-> d, account |-> NoAccount, cert |-> 0, step |-> "write"] \in Call
    BY DEF Call, Operation, Cert
  <2> QED
    BY <1>4, <2>1, BeginType
<1>5. Begins
  BY <1>1, <1>2, <1>3, <1>4 DEF Start, ClaimRead, DeprovisionRead, RotateRead, SweepRead, ExpireRead
<1>6. UNCHANGED <<row, lapsed, signed, retained, disclosed, winners, cause, linkVars, restarts>>
  BY DEF Start, ClaimRead, DeprovisionRead, RotateRead, SweepRead, ExpireRead
<1> QED
  BY <1>5, <1>6 DEF TInv, TypeOK, linkVars

\* A call that goes on, or an iteration of a loop, has its certificate noted at most.
LEMMA ProceedMishaps ==
    ASSUME TInv, NEW w \in Worker, Proceed(w)
    PROVE  mishap' \in [Device -> SUBSET Mishaps] /\ SameOverlaps
<1>1. CASE RotatePublish(w)
  <2>1. task[w].dev \in Device
    BY <1>1, CallAt DEF RotatePublish, TInv
  <2> QED
    BY <1>1, <2>1 DEF RotatePublish, TInv, TypeOK, Mishaps, SameOverlaps
<1>2. CASE ~RotatePublish(w)
  <2>1. UNCHANGED mishap
    BY <1>2 DEF Proceed, ClaimSign, ClaimWrite, DeprovisionWrite, DeprovisionPublish, RotateWrite,
                SweepWrite, ExpireWrite
  <2> QED
    BY <2>1 DEF TInv, TypeOK, SameOverlaps
<1> QED
  BY <1>1, <1>2

\* A call that goes on, or an iteration of a loop.
LEMMA ProceedType == ASSUME TInv, NEW w \in Worker, Proceed(w) PROVE TInv'
<1> DEFINE d == task[w].dev
           Goes == /\ task' \in [Worker -> Call \cup {Idle}]
                   /\ OverlapsNoted' /\ PublishesACert' /\ ClaimsByAccount'
<1>0. mishap' \in [Device -> SUBSET Mishaps] /\ OverlapsStay
  BY ProceedMishaps DEF SameOverlaps, OverlapsStay
<1> USE <1>0 DEF TInv
<1>1. CASE ClaimSign(w)
  <2>1. task[w] \in Call /\ task[w] # Idle /\ d \in Device /\ row[d] \in Row /\ signed[d] \in Cert
    BY <1>1, CallAt DEF ClaimSign
  <2>2. signed[d] + 1 \in Cert
    BY <1>1, <2>1, BoundAssumption DEF ClaimSign, Cert
  <2>3. [row[d] EXCEPT !.cur = signed[d] + 1] \in Row
    BY <2>1, <2>2 DEF Row
  <2>4. row' \in [Device -> Row]
    BY <1>1, <2>1, <2>3, UpdateType DEF ClaimSign, TypeOK
  <2>5. [task[w] EXCEPT !.step = "write"] \in Call
    BY <2>1 DEF Call
  <2>6. Goes
    <3>1. task[w].op = "claim"
      BY <1>1, CallAt DEF ClaimSign
    <3>2. /\ [task[w] EXCEPT !.step = "write"].op = task[w].op
          /\ [task[w] EXCEPT !.step = "write"].dev = task[w].dev
          /\ [task[w] EXCEPT !.step = "write"].account = task[w].account
      BY <2>1 DEF Call
    <3> QED
      BY <1>1, <2>1, <2>5, <3>1, <3>2, GoOnType DEF ClaimSign, Continue
  <2> QED
    BY <1>1, <2>1, <2>2, <2>4, <2>6 DEF ClaimSign, TypeOK, linkVars
<1>2. CASE ClaimWrite(w)
  <2>1. /\ task[w] \in Call /\ task[w] # Idle /\ d \in Device /\ row[d] \in Row
        /\ task[w].account \in Account
    BY <1>2, CallAt DEF ClaimWrite, ClaimsByAccount
  <2>2. [row[d] EXCEPT !.state = "ACTIVE", !.account = task[w].account] \in Row
    BY <2>1 DEF Row, States
  <2>3. row' \in [Device -> Row]
    BY <1>2, <2>1, <2>2, UpdateType DEF ClaimWrite, TypeOK
  <2>4. Goes
    BY <1>2, EndType DEF ClaimWrite
  <2> QED
    BY <1>2, <2>1, <2>3, <2>4 DEF ClaimWrite, TypeOK, linkVars
<1>3. CASE DeprovisionWrite(w)
  <2>1. task[w] \in Call /\ task[w] # Idle /\ d \in Device /\ row[d] \in Row
    BY <1>3, CallAt DEF DeprovisionWrite
  <2>2. [row[d] EXCEPT !.state = "DEPROVISIONED"] \in Row
    BY <2>1 DEF Row, States
  <2>3. row' \in [Device -> Row]
    BY <1>3, <2>1, <2>2, UpdateType DEF DeprovisionWrite, TypeOK
  <2>4. [task[w] EXCEPT !.step = "publish"] \in Call
    BY <2>1 DEF Call
  <2>5. Goes
    <3>1. task[w].op = "deprovision"
      BY <1>3, CallAt DEF DeprovisionWrite
    <3>2. /\ [task[w] EXCEPT !.step = "publish"].op = task[w].op
          /\ [task[w] EXCEPT !.step = "publish"].dev = task[w].dev
          /\ [task[w] EXCEPT !.step = "publish"].account = task[w].account
      BY <2>1 DEF Call
    <3> QED
      BY <1>3, <2>1, <2>4, <3>1, <3>2, GoOnType DEF DeprovisionWrite, Continue
  <2> QED
    BY <1>3, <2>1, <2>3, <2>5 DEF DeprovisionWrite, TypeOK, linkVars
<1>4. CASE DeprovisionPublish(w)
  <2>1. d \in Device
    BY <1>4, CallAt DEF DeprovisionPublish
  <2>2. [deprovision |-> TRUE, certs |-> {}] \in Mail
    BY DEF Mail
  <2>3. retained' \in [Device -> Mail] /\ inbox' \in [Device -> Mail]
    BY <1>4, <2>1, <2>2, PublishType DEF DeprovisionPublish, TypeOK
  <2>4. Goes
    BY <1>4, EndType DEF DeprovisionPublish
  <2> QED
    BY <1>4, <2>3, <2>4 DEF DeprovisionPublish, TypeOK
<1>5. CASE RotateWrite(w)
  <2>1. task[w] \in Call /\ task[w] # Idle /\ d \in Device /\ row[d] \in Row
        /\ signed[d] \in Cert /\ task[w].cert \in Cert
    BY <1>5, CallAt DEF RotateWrite
  <2>2. signed[d] + 1 \in Cert /\ signed[d] + 1 # 0
    BY <1>5, <2>1, BoundAssumption DEF RotateWrite, Cert
  <2>3. [row[d] EXCEPT !.cur = signed[d] + 1, !.prev = task[w].cert] \in Row
    BY <2>1, <2>2 DEF Row
  <2>4. row' \in [Device -> Row]
    BY <1>5, <2>1, <2>3, UpdateType DEF RotateWrite, TypeOK
  <2>5. [task[w] EXCEPT !.cert = signed[d] + 1, !.step = "publish"] \in Call
    BY <2>1, <2>2 DEF Call
  <2>6. Goes
    <3> DEFINE c == [task[w] EXCEPT !.cert = signed[d] + 1, !.step = "publish"]
    <3>1. c.op = task[w].op /\ c.dev = task[w].dev /\ c.account = task[w].account /\ c.cert # 0
      BY <2>1, <2>2 DEF Call
    <3>2. task' = [task EXCEPT ![w] = c]
      BY <1>5 DEF RotateWrite
    <3> HIDE DEF c
    <3> QED
      BY <2>1, <2>5, <3>1, <3>2, GoOnType DEF c
  <2> QED
    BY <1>5, <2>1, <2>2, <2>4, <2>6 DEF RotateWrite, TypeOK, linkVars
<1>6. CASE RotatePublish(w)
  <2>1. task[w] \in Call /\ d \in Device /\ task[w].cert \in 1 .. MaxCert
    BY <1>6, CallAt, BoundAssumption DEF RotatePublish, PublishesACert, Cert
  <2>2. [deprovision |-> FALSE, certs |-> {task[w].cert}] \in Mail
    BY <2>1 DEF Mail
  <2>3. retained' \in [Device -> Mail] /\ inbox' \in [Device -> Mail]
    BY <1>6, <2>1, <2>2, PublishType DEF RotatePublish, TypeOK
  <2>4. Goes
    BY <1>6, EndType DEF RotatePublish
  <2> QED
    BY <1>6, <2>3, <2>4 DEF RotatePublish, TypeOK
<1>7. CASE SweepWrite(w)
  <2>1. d \in Device /\ row[d] \in Row
    BY <1>7, CallAt DEF SweepWrite
  <2>2. [row[d] EXCEPT !.state = "deleted"] \in Row
    BY <2>1 DEF Row, States
  <2>3. row' \in [Device -> Row]
    BY <1>7, <2>1, <2>2 DEF SweepWrite, TypeOK
  <2>4. Goes
    BY <1>7, EndType DEF SweepWrite
  <2> QED
    BY <1>7, <2>3, <2>4 DEF SweepWrite, TypeOK, linkVars
<1>8. CASE ExpireWrite(w)
  <2>1. d \in Device /\ row[d] \in Row
    BY <1>8, CallAt DEF ExpireWrite
  <2>2. [row[d] EXCEPT !.state = "DEPROVISIONED"] \in Row
    BY <2>1 DEF Row, States
  <2>3. row' \in [Device -> Row]
    BY <1>8, <2>1, <2>2, UpdateType DEF ExpireWrite, TypeOK
  <2>4. Goes
    BY <1>8, EndType DEF ExpireWrite
  <2> QED
    BY <1>8, <2>1, <2>3, <2>4 DEF ExpireWrite, TypeOK, linkVars
<1> QED
  BY <1>1, <1>2, <1>3, <1>4, <1>5, <1>6, <1>7, <1>8 DEF Proceed

\* A step of a device, of its connection or of its messages has a failure noted at most.
LEMMA DeviceMishaps ==
    ASSUME TInv, NEW d \in Device,
           Pairing(d) \/ Admit(d) \/ Disconnect(d) \/ Handle(d) \/ Acknowledge(d)
    PROVE  mishap' \in [Device -> SUBSET Mishaps] /\ SameOverlaps
<1> USE DEF TInv, TypeOK, Mishaps, SameOverlaps
<1>1. CASE Subscribe(d)
  BY <1>1 DEF Subscribe
<1>2. CASE TakeCert(d)
  BY <1>2 DEF TakeCert
<1>3. CASE ~Subscribe(d) /\ ~TakeCert(d)
  <2>1. UNCHANGED mishap
    BY <1>3 DEF Pairing, Pair, Authenticate, GiveUp, Lapse, Admit, AuthRead, AuthOnline, AuthRevoke,
         Disconnect, Drop, CloseStale, Handle, TakeDeprovision, SelfDeprovision, Leave,
         Acknowledge, AckRead, AckWrite
  <2> QED
    BY <2>1
<1> QED
  BY <1>1, <1>2, <1>3

\* A step of a device, of its connection or of its messages leaves the workers alone.
LEMMA DeviceType ==
    ASSUME TInv, NEW d \in Device,
           Pairing(d) \/ Admit(d) \/ Disconnect(d) \/ Handle(d) \/ Acknowledge(d)
    PROVE  TInv'
<1> USE DEF TInv
<1>0. row[d] \in Row /\ client[d] \in Client /\ inbox[d] \in Mail /\ retained[d] \in Mail
  BY DEF TypeOK
<1>a. UNCHANGED task
  BY DEF Pairing, Pair, Authenticate, GiveUp, Lapse, Admit, AuthRead, AuthOnline, AuthRevoke,
         Subscribe, Disconnect, Drop, CloseStale, Handle, TakeCert, TakeDeprovision,
         SelfDeprovision, Leave, Acknowledge, AckRead, AckWrite, hostVars
<1>c. mishap' \in [Device -> SUBSET Mishaps] /\ OverlapsStay
  BY DeviceMishaps DEF SameOverlaps, OverlapsStay
<1>d. OverlapsNoted'
  <2>1. \A v \in Worker : task[v] # Idle => task[v].dev \in Device
    BY DEF TypeOK, Call
  <2> QED
    BY <1>a, <1>c, <2>1 DEF OverlapsNoted, OverlapsStay
<1>b. OverlapsNoted' /\ PublishesACert' /\ ClaimsByAccount'
      /\ mishap' \in [Device -> SUBSET Mishaps]
  BY <1>a, <1>c, <1>d DEF PublishesACert, ClaimsByAccount, At
<1>1. CASE Pair(d)
  <2>1. 1 \in Cert
    BY BoundAssumption DEF Cert
  <2>2. [row[d] EXCEPT !.state = "PAIRING", !.cur = 1] \in Row
    BY <1>0, <2>1 DEF Row, States
  <2>3. [client[d] EXCEPT !.phase = "waiting"] \in Client
    BY <1>0 DEF Client
  <2> QED
    BY <1>1, <1>b, <2>1, <2>2, <2>3 DEF Pair, TypeOK
<1>2. CASE Authenticate(d)
  <2>1. [phase |-> "paired", cert |-> row[d].cur] \in Client
    BY <1>0 DEF Client, Row
  <2>2. [client[d] EXCEPT !.phase = "removed"] \in Client
    BY <1>0 DEF Client
  <2>3. client' \in [Device -> Client]
    <3>1. \/ client' = [client EXCEPT ![d] = [phase |-> "paired", cert |-> row[d].cur]]
          \/ client' = [client EXCEPT ![d] = [client[d] EXCEPT !.phase = "removed"]]
      BY <1>2 DEF Authenticate
    <3> QED
      BY <2>1, <2>2, <3>1 DEF TypeOK
  <2> QED
    BY <1>2, <1>b, <2>3 DEF Authenticate, TypeOK
<1>3. CASE GiveUp(d)
  <2>1. [client[d] EXCEPT !.phase = "removed"] \in Client
    BY <1>0 DEF Client
  <2> QED
    BY <1>3, <1>b, <2>1 DEF GiveUp, TypeOK, hostVars
<1>4. CASE \E what \in {"pairing", "registration"} : Lapse(d, what)
  BY <1>4, <1>b DEF Lapse, TypeOK, linkVars
<1>5. CASE AuthRead(d)
  BY <1>5, <1>b DEF AuthRead, TypeOK, hostVars, Links
<1>14. CASE Subscribe(d)
  <2>1. link' \in [Device -> Links]
    BY <1>14 DEF Subscribe, TypeOK, Links
  <2>2. inbox' \in [Device -> Mail]
    BY <1>0, <1>14 DEF Subscribe, TypeOK, Mail
  <2> QED
    BY <1>14, <1>b, <2>1, <2>2 DEF Subscribe, TypeOK, hostVars
<1>6. CASE AuthOnline(d)
  <2>1. [row[d] EXCEPT !.online = TRUE] \in Row
    BY <1>0 DEF Row
  <2>2. row' \in [Device -> Row]
    BY <1>6, <2>1, UpdateType DEF AuthOnline, TypeOK
  <2> QED
    BY <1>6, <1>b, <2>2 DEF AuthOnline, TypeOK, Links
<1>7. CASE AuthRevoke(d)
  <2>1. [row[d] EXCEPT !.prev = 0] \in Row
    BY <1>0, BoundAssumption DEF Row, Cert
  <2>2. row' \in [Device -> Row]
    BY <1>7, <2>1, UpdateType DEF AuthRevoke, TypeOK
  <2> QED
    BY <1>7, <1>b, <2>2 DEF AuthRevoke, TypeOK, Links
<1>8. CASE Drop(d)
  <2>1. row' \in [Device -> Row]
    BY <1>8, OfflineType DEF Drop, TypeOK
  <2>2. PICK kept \in SUBSET inbox[d].certs, told \in {FALSE, inbox[d].deprovision} :
          inbox' = [inbox EXCEPT ![d] = [deprovision |-> told, certs |-> kept]]
    BY <1>8 DEF Drop
  <2>3. kept \in SUBSET (1 .. MaxCert)
    BY <1>0 DEF Mail
  <2>4. told \in BOOLEAN
    BY <1>0, Zenon DEF Mail
  <2>5. inbox' \in [Device -> Mail]
    BY <2>2, <2>3, <2>4 DEF TypeOK, Mail
  <2> QED
    BY <1>8, <1>b, <2>1, <2>5 DEF Drop, TypeOK, Links
<1>9. CASE CloseStale(d)
  <2>1. row' \in [Device -> Row]
    BY <1>9, OfflineType DEF CloseStale, TypeOK
  <2> QED
    BY <1>9, <1>b, <2>1 DEF CloseStale, TypeOK
<1>10. CASE TakeCert(d)
  <2>1. PICK c \in inbox[d].certs :
          /\ inbox' = [inbox EXCEPT ![d].certs = @ \ {c}]
          /\ client' \in {client, [client EXCEPT ![d].cert = c]}
    BY <1>10 DEF TakeCert
  <2>2. row' \in [Device -> Row]
    BY <1>10, OfflineType DEF TakeCert, TypeOK
  <2>3. c \in Cert
    BY <1>0 DEF Mail, Cert
  <2>4. [client[d] EXCEPT !.cert = c] \in Client
    BY <1>0, <2>3 DEF Client
  <2>5. [inbox[d] EXCEPT !.certs = @ \ {c}] \in Mail
    BY <1>0 DEF Mail
  <2>6. client' \in [Device -> Client] /\ inbox' \in [Device -> Mail]
    BY <2>1, <2>4, <2>5 DEF TypeOK
  <2>7. link' \in [Device -> Links]
    BY <1>10 DEF TakeCert, TypeOK, Links
  <2> QED
    BY <1>10, <1>b, <2>2, <2>6, <2>7 DEF TakeCert, TypeOK
<1>11. CASE TakeDeprovision(d) \/ SelfDeprovision(d)
  <2>1. Leave(d)
    BY <1>11 DEF TakeDeprovision, SelfDeprovision
  <2>2. row' \in [Device -> Row]
    BY <2>1, OfflineType DEF Leave, TypeOK
  <2>3. client' \in [Device -> Client] /\ inbox' \in [Device -> Mail]
    BY <2>1, BoundAssumption DEF Leave, TypeOK, Client, Mail, Cert, Nothing
  <2>4. link' \in [Device -> Links] /\ ack' \in [Device -> {"none", "sent", "read"}]
    BY <2>1 DEF Leave, TypeOK, Links
  <2> QED
    BY <2>1, <1>b, <2>2, <2>3, <2>4 DEF Leave, TypeOK
<1>12. CASE AckRead(d)
  BY <1>12, <1>b DEF AckRead, TypeOK, hostVars
<1>13. CASE AckWrite(d)
  <2>1. [row[d] EXCEPT !.state = "DEPROVISIONED"] \in Row
    BY <1>0 DEF Row, States
  <2>2. row' \in [Device -> Row]
    BY <1>13, <2>1, UpdateType DEF AckWrite, TypeOK
  <2> QED
    BY <1>13, <1>b, <2>2 DEF AckWrite, TypeOK
<1> QED
  BY <1>1, <1>2, <1>3, <1>4, <1>5, <1>6, <1>7, <1>8, <1>9, <1>10, <1>11, <1>12, <1>13,
     <1>14
     DEF Pairing, Admit, Disconnect, Handle, Acknowledge

\* The types hold at the start and every step keeps them.
LEMMA TypeInvariant == Spec => []TInv
<1>1. Init => TInv
  <2> SUFFICES ASSUME Init PROVE TInv
    OBVIOUS
  <2>1. 0 \in Cert
    BY BoundAssumption DEF Cert
  <2>2. TypeOK
    BY <2>1, BoundAssumption DEF Init, TypeOK, Row, States, Client, Mail, Nothing, Links
  <2> QED
    BY <2>2 DEF Init, TInv, OverlapsNoted, PublishesACert, ClaimsByAccount, At
<1>2. TInv /\ [Next]_vars => TInv'
  <2> SUFFICES ASSUME TInv, [Next]_vars PROVE TInv'
    OBVIOUS
  <2>1. CASE Restart
    BY <2>1, BoundAssumption
    DEF Restart, TInv, TypeOK, OverlapsNoted, PublishesACert, ClaimsByAccount, At, Links, Mail, Nothing
  <2>2. CASE UNCHANGED vars
    BY <2>2 DEF vars, TInv, TypeOK, OverlapsNoted, PublishesACert, ClaimsByAccount, At
  <2> QED
    BY <2>1, <2>2, StartType, ProceedType, DeviceType DEF Next
<1> QED
  BY <1>1, <1>2, PTL DEF Spec

\* No step forgets an overlap.
LEMMA NextMishaps == ASSUME TInv, Next PROVE OverlapsStay
<1>1. CASE Restart
  BY <1>1 DEF Restart, OverlapsStay
<1>2. ASSUME NEW w \in Worker, Proceed(w) PROVE OverlapsStay
  BY <1>2, ProceedMishaps DEF SameOverlaps, OverlapsStay
<1>3. ASSUME NEW d \in Device,
             Pairing(d) \/ Admit(d) \/ Disconnect(d) \/ Handle(d) \/ Acknowledge(d)
      PROVE  OverlapsStay
  BY <1>3, DeviceMishaps DEF SameOverlaps, OverlapsStay
<1> QED
  BY <1>1, <1>2, <1>3, StartMishaps DEF Next

-----------------------------------------------------------------------------
(* Claims, owners and deprovisioning. *)

\* No row changes its state or its account.
SameStage ==
    \A d \in Device : row'[d].state = row[d].state /\ row'[d].account = row[d].account

\* The end of a connection changes the state, the account and the certificate of no row.
LEMMA OfflineKeeps ==
    ASSUME TypeOK, NEW d \in Device, Offline(d)
    PROVE  SameStage /\ \A e \in Device : row'[e].cur = row[e].cur
<1>1. row \in [Device -> Row] /\ row[d] \in Row
  BY DEF TypeOK
<1>2. [row[d] EXCEPT !.online = FALSE].state = row[d].state
      /\ [row[d] EXCEPT !.online = FALSE].account = row[d].account
      /\ [row[d] EXCEPT !.online = FALSE].cur = row[d].cur
  BY <1>1 DEF Row
<1> QED
  BY <1>1, <1>2 DEF Offline, Update, SameStage

\* What the calls in progress rely on is kept while no row, call or claim changes.
LEMMA StageKeeps ==
    ASSUME CInv, TypeOK, OverlapsStay, SameStage, UNCHANGED <<task, winners, cause>>
    PROVE  ClaimFits' /\ SettledFits' /\ UnclaimedFits' /\ OwnerFits' /\ CauseFits'
<1> USE DEF CInv, SameStage, OverlapsStay
<1>1. \A w \in Worker : task[w] # Idle => task[w].dev \in Device
  BY DEF TypeOK, Call
<1>2. ClaimFits' /\ SettledFits'
  BY <1>1 DEF ClaimFits, SettledFits
<1>3. UnclaimedFits' /\ OwnerFits' /\ CauseFits'
  BY DEF UnclaimedFits, OwnerFits, CauseFits, Claimed
<1> QED
  BY <1>2, <1>3

\* The message of a deprovisioning is on its way as long as nobody takes it.
LEMMA MessageKeeps ==
    ASSUME MessageFits, UNCHANGED <<cause, link, client>>,
           \A e \in Device : "claims" \in mishap[e] => "claims" \in mishap'[e],
           \A e \in Device : /\ inbox'[e].deprovision = inbox[e].deprovision
                            /\ retained'[e].deprovision = retained[e].deprovision,
           \A v \in Worker : At(v, "deprovision", "publish")
                            => At(v, "deprovision", "publish")' /\ task'[v].dev = task[v].dev
    PROVE  MessageFits'
BY ZenonT(30) DEF MessageFits

\* A call or an iteration of a loop keeps what the calls rely on.
LEMMA CallKeeps ==
    ASSUME TInv, CInv, NEW w \in Worker,
           Proceed(w) \/ \E d \in Device : Start(w, d)
    PROVE  CInv'
<1> DEFINE Parts == ClaimFits /\ SettledFits /\ UnclaimedFits /\ OwnerFits /\ ClientFits
                    /\ CauseFits /\ MessageFits
<1> SUFFICES Parts'
  BY DEF CInv
<1>0. \A e \in Device : "claims" \in mishap[e] => "claims" \in mishap'[e]
  BY StartMishaps, ProceedMishaps DEF SameOverlaps, OverlapsStay
<1> USE <1>0 DEF CInv, TInv, TypeOK, Row, Client, Call, Idle, At, Settled, Claimed, Exists, linkVars
<1>1. ASSUME NEW d \in Device, NEW a \in Account, ClaimRead(w, d, a) PROVE Parts'
  <2>1. ClaimFits'
    BY SMTT(40), <1>1 DEF ClaimRead, Begin, Overlaps, Busy, UnclaimedFits, ClaimFits
  <2>2. SettledFits' /\ MessageFits'
    BY SMTT(40), <1>1 DEF ClaimRead, Begin, SettledFits, MessageFits
  <2>3. UnclaimedFits' /\ OwnerFits' /\ ClientFits' /\ CauseFits'
    BY SMTT(40), <1>1 DEF ClaimRead, Begin, UnclaimedFits, OwnerFits, ClientFits, CauseFits
  <2> QED
    BY <2>1, <2>2, <2>3
<1>2. ASSUME NEW d \in Device, NEW a \in Account, DeprovisionRead(w, d, a) PROVE Parts'
  <2>1. row[d].state \in Settled
    BY <1>2, AccountAssumption DEF DeprovisionRead, UnclaimedFits, States
  <2> QED
    BY <1>2, <2>1
  DEF DeprovisionRead, Begin,
      ClaimFits, SettledFits, UnclaimedFits, OwnerFits, ClientFits, CauseFits, MessageFits
<1>3. ASSUME NEW d \in Device, NEW a \in Account \cup {NoAccount}, RotateRead(w, d, a) PROVE Parts'
  BY <1>3
  DEF RotateRead, Begin,
      ClaimFits, SettledFits, UnclaimedFits, OwnerFits, ClientFits, CauseFits, MessageFits
<1>4. ASSUME NEW d \in Device, SweepRead(w, d) PROVE Parts'
  BY <1>4
  DEF SweepRead, Begin,
      ClaimFits, SettledFits, UnclaimedFits, OwnerFits, ClientFits, CauseFits, MessageFits
<1>5. ASSUME NEW d \in Device, ExpireRead(w, d) PROVE Parts'
  BY <1>5
  DEF ExpireRead, Begin,
      ClaimFits, SettledFits, UnclaimedFits, OwnerFits, ClientFits, CauseFits, MessageFits
<1>6. CASE ClaimSign(w)
  <2>1. ClaimFits' /\ SettledFits'
    <3>1. ClaimFits'
      BY SMTT(40), <1>6 DEF ClaimSign, Update, Continue, ClaimFits
    <3>2. SettledFits'
      BY SMTT(40), <1>6 DEF ClaimSign, Update, Continue, SettledFits
    <3> QED
      BY <3>1, <3>2
  <2>2. UnclaimedFits' /\ OwnerFits' /\ CauseFits'
    BY SMTT(30), <1>6 DEF ClaimSign, Update, Continue, UnclaimedFits, OwnerFits, CauseFits
  <2>3. ClientFits'
    BY SMTT(30), <1>6 DEF ClaimSign, Update, Continue, ClientFits
  <2>4. MessageFits'
    BY SMTT(30), <1>6 DEF ClaimSign, Update, Continue, MessageFits
  <2> QED
    BY <2>1, <2>2, <2>3, <2>4
<1>7. CASE ClaimWrite(w)
  <2>0. PICK d \in Device, a \in Account : d = task[w].dev /\ a = task[w].account
    BY <1>7 DEF ClaimWrite, ClaimsByAccount
  <2>1. /\ UNCHANGED <<mishap, disclosed, cause, linkVars, retained>>
        /\ task'[w] = Idle /\ \A v \in Worker : v # w => task'[v] = task[v]
        /\ winners' = [winners EXCEPT ![d] = @ \cup {a}]
        /\ \A e \in Device : e # d => row'[e] = row[e]
        /\ row[d].state \in {"none", "deleted"} => row' = row
        /\ row[d].state \notin {"none", "deleted"} => row'[d].state = "ACTIVE" /\ row'[d].account = a
    BY <1>7, <2>0 DEF ClaimWrite, Update, End
  <2>2. /\ row[d].state # "none"
        /\ (row[d].state \in {"PAIRING", "deleted"} /\ winners[d] = {}) \/ "claims" \in mishap[d]
        /\ \A v \in Worker : v # w /\ task[v] # Idle /\ task[v].dev = d /\ task[v].op = "claim"
                              => "claims" \in mishap[d]
    BY <1>7, <2>0 DEF ClaimWrite, ClaimFits, OverlapsNoted
  <2>3. ClaimFits'
    BY <2>1, <2>2 DEF ClaimFits
  <2>a. row[d].state # "deleted" => row'[d].state = "ACTIVE" /\ row'[d].account = a
    BY <2>1, <2>2
  <2>4. SettledFits'
    <3> SUFFICES ASSUME NEW v \in Worker, task'[v] # Idle,
                        task'[v].op \in {"deprovision", "rotate", "expire"}
                 PROVE  row'[task'[v].dev].state \in Settled
      BY DEF SettledFits
    <3>1. task'[v] = task[v] /\ task[v] # Idle /\ task[v].dev \in Device
      BY <2>1
    <3>2. row[task[v].dev].state \in Settled
      BY <3>1 DEF SettledFits
    <3> QED
      BY <2>1, <2>a, <3>1, <3>2
  <2>b. UnclaimedFits'
    BY <2>1, <2>2, <2>a DEF UnclaimedFits
  <2>5. OwnerFits'
    BY <2>1, <2>2, <2>a DEF OwnerFits
  <2>c. CauseFits'
    BY <2>1, <2>2, <2>a DEF CauseFits
  <2>6. ClientFits'
    BY <2>1 DEF ClientFits
  <2>7. MessageFits'
    <3>1. ~At(w, "deprovision", "publish")
      BY <1>7 DEF ClaimWrite
    <3> QED
      BY <2>1, <3>1, MessageKeeps
  <2> QED
    BY <2>3, <2>4, <2>b, <2>5, <2>c, <2>6, <2>7
<1>8. CASE DeprovisionWrite(w)
  <2>1. ClaimFits' /\ SettledFits'
    <3>1. ClaimFits'
      BY SMTT(40), <1>8 DEF DeprovisionWrite, Update, Continue, SettledFits, ClaimFits
    <3>2. SettledFits'
      BY SMTT(40), <1>8 DEF DeprovisionWrite, Update, Continue, SettledFits
    <3> QED
      BY <3>1, <3>2
  <2>2. UnclaimedFits' /\ OwnerFits' /\ CauseFits'
    <3>1. UnclaimedFits'
      BY SMTT(40), <1>8 DEF DeprovisionWrite, Update, UnclaimedFits
    <3>2. OwnerFits'
      BY SMTT(40), <1>8 DEF DeprovisionWrite, Update, SettledFits, OwnerFits
    <3>3. CauseFits'
      BY SMTT(40), <1>8 DEF DeprovisionWrite, Update, SettledFits, CauseFits
    <3> QED
      BY <3>1, <3>2, <3>3
  <2>3. ClientFits'
    BY SMTT(30), <1>8 DEF DeprovisionWrite, Update, Continue, ClientFits
  <2>4. MessageFits'
    BY SMTT(30), <1>8 DEF DeprovisionWrite, Update, Continue, MessageFits
  <2> QED
    BY <2>1, <2>2, <2>3, <2>4
<1>9. CASE DeprovisionPublish(w)
  <2>1. ClaimFits' /\ SettledFits' /\ UnclaimedFits' /\ OwnerFits' /\ CauseFits'
    BY <1>9
    DEF DeprovisionPublish, End, ClaimFits, SettledFits, UnclaimedFits, OwnerFits, CauseFits
  <2>2. ClientFits'
    BY <1>9 DEF DeprovisionPublish, ClientFits
  <2>3. MessageFits'
    BY ZenonT(30), <1>9 DEF DeprovisionPublish, End, Publish, Mail, MessageFits
  <2> QED
    BY <2>1, <2>2, <2>3
<1>10. CASE RotateWrite(w)
  <2>1. SameStage /\ task[w].op = "rotate" /\ task[w] \in Call /\ task[w] # Idle
    BY <1>10 DEF RotateWrite, Update, SameStage
  <2>0. \A v \in Worker : task[v] # Idle => task[v].dev \in Device
    OBVIOUS
  <2>2. /\ \A v \in Worker : v # w => task'[v] = task[v]
        /\ task'[w].op = "rotate" /\ task'[w].dev = task[w].dev
    BY <1>10, <2>1 DEF RotateWrite
  <2>3. UNCHANGED <<winners, cause, disclosed, linkVars, retained>>
    BY <1>10 DEF RotateWrite
  <2>4. ClaimFits'
    BY <2>0, <2>1, <2>2, <2>3 DEF SameStage, ClaimFits
  <2>5. SettledFits'
    BY <2>0, <2>1, <2>2 DEF SameStage, SettledFits
  <2>6. UnclaimedFits' /\ OwnerFits' /\ CauseFits' /\ ClientFits'
    BY <2>1, <2>3 DEF SameStage, UnclaimedFits, OwnerFits, CauseFits, ClientFits
  <2>7. MessageFits'
    <3>1. \A v \in Worker : At(v, "deprovision", "publish")
             => At(v, "deprovision", "publish")' /\ task'[v].dev = task[v].dev
      BY <2>1, <2>2
    <3>2. mishap' = mishap
      BY <1>10 DEF RotateWrite
    <3> QED
      BY <2>3, <3>1, <3>2, MessageKeeps
  <2> QED
    BY <2>4, <2>5, <2>6, <2>7
<1>11. CASE RotatePublish(w)
  <2>0. PICK d \in Device : d = task[w].dev
    BY <1>11 DEF RotatePublish
  <2>1. /\ UNCHANGED <<row, disclosed, winners, cause, link, client, ack>>
        /\ task[w].op = "rotate" /\ task'[w] = Idle /\ \A v \in Worker : v # w => task'[v] = task[v]
    BY <1>11 DEF RotatePublish, End
  <2>2. \A e \in Device : /\ inbox'[e].deprovision = inbox[e].deprovision
                          /\ retained'[e].deprovision = retained[e].deprovision
    BY <1>11, <2>0 DEF RotatePublish, Publish, Mail
  <2>3. \A e \in Device : "claims" \in mishap[e] <=> "claims" \in mishap'[e]
    BY <1>11, <2>0 DEF RotatePublish
  <2>4. SettledFits' /\ UnclaimedFits' /\ ClientFits'
    BY <2>1 DEF SettledFits, UnclaimedFits, ClientFits
  <2>a. ClaimFits'
    BY <2>1, <2>3 DEF ClaimFits
  <2>b. OwnerFits' /\ CauseFits'
    BY <2>1, <2>3 DEF OwnerFits, CauseFits
  <2>5. \A v \in Worker : At(v, "deprovision", "publish")
           => At(v, "deprovision", "publish")' /\ task'[v].dev = task[v].dev
    BY <2>1
  <2>6. MessageFits'
    BY <2>1, <2>2, <2>3, <2>5, MessageKeeps
  <2> QED
    BY <2>4, <2>a, <2>b, <2>6
<1>12. CASE SweepWrite(w)
  BY <1>12
  DEF SweepWrite, End,
      ClaimFits, SettledFits, UnclaimedFits, OwnerFits, ClientFits, CauseFits, MessageFits
<1>13. CASE ExpireWrite(w)
  <2>1. ClaimFits' /\ SettledFits' /\ UnclaimedFits' /\ OwnerFits' /\ CauseFits'
    <3>1. ClaimFits' /\ SettledFits'
      BY SMTT(40), <1>13 DEF ExpireWrite, Update, End, ClaimFits, SettledFits
    <3>2. UnclaimedFits' /\ OwnerFits' /\ CauseFits'
      BY SMTT(40), <1>13 DEF ExpireWrite, Update, SettledFits, UnclaimedFits, OwnerFits, CauseFits
    <3> QED
      BY <3>1, <3>2
  <2>2. ClientFits'
    BY <1>13 DEF ExpireWrite, Update, SettledFits, ClientFits
  <2>3. MessageFits'
    BY <1>13 DEF ExpireWrite, End, MessageFits
  <2> QED
    BY <2>1, <2>2, <2>3
<1> QED
  BY <1>1, <1>2, <1>3, <1>4, <1>5, <1>6, <1>7, <1>8, <1>9, <1>10, <1>11, <1>12, <1>13
  DEF Start, Proceed

\* So does a step of a device, of its connection or of its messages.
LEMMA DeviceKeeps ==
    ASSUME TInv, CInv, NEW d \in Device,
           Pairing(d) \/ Admit(d) \/ Disconnect(d) \/ Handle(d) \/ Acknowledge(d)
    PROVE  CInv'
<1> DEFINE Stable == ClaimFits' /\ SettledFits' /\ UnclaimedFits' /\ OwnerFits' /\ CauseFits'
<1>0. OverlapsStay /\ \A e \in Device : "claims" \in mishap[e] => "claims" \in mishap'[e]
  BY DeviceMishaps DEF SameOverlaps, OverlapsStay
<1> USE <1>0 DEF TInv
<1>a. ASSUME Stable, ClientFits', MessageFits' PROVE CInv'
  BY <1>a DEF CInv
<1>1. ASSUME Pair(d) PROVE CInv'
  <2> USE DEF TypeOK, Row, Client, Call, Settled, Claimed
  <2>1. ClaimFits' /\ SettledFits'
    BY SMTT(40), <1>1 DEF Pair, CInv, ClaimFits, SettledFits
  <2>2. UnclaimedFits' /\ OwnerFits' /\ CauseFits'
    BY <1>1 DEF Pair, CInv, UnclaimedFits, OwnerFits, CauseFits
  <2>3. ClientFits'
    <3>1. client[d].phase = "new" /\ link[d] = "down" /\ d \notin disclosed /\ ack[d] = "none"
      BY <1>1 DEF Pair, CInv, ClientFits
    <3>2. /\ client'[d].phase = "waiting" /\ row'[d].state = "PAIRING"
          /\ \A e \in Device : e # d => client'[e] = client[e] /\ row'[e] = row[e]
      BY <1>1 DEF Pair
    <3> QED
      BY <1>1, <3>1, <3>2 DEF Pair, CInv, ClientFits
  <2>4. MessageFits'
    BY <1>1 DEF Pair, CInv, MessageFits, At
  <2> QED
    BY <1>a, <2>1, <2>2, <2>3, <2>4
<1>2. ASSUME Authenticate(d) PROVE CInv'
  <2>1. Stable
    BY <1>2, StageKeeps DEF Authenticate, SameStage
  <2>2. ClientFits'
    BY <1>2 DEF Authenticate, CInv, ClientFits, TypeOK, Client, Claimed, Settled
  <2>3. MessageFits'
    BY SMTT(30), <1>2 DEF Authenticate, CInv, MessageFits, ClientFits, TypeOK, Client, At
  <2> QED
    BY <1>a, <2>1, <2>2, <2>3
<1>3. ASSUME GiveUp(d) PROVE CInv'
  <2>1. Stable
    BY <1>3, StageKeeps DEF GiveUp, hostVars, SameStage
  <2>2. ClientFits'
    BY <1>3 DEF GiveUp, hostVars, CInv, ClientFits, TypeOK, Client
  <2>3. MessageFits'
    BY <1>3 DEF GiveUp, hostVars, CInv, MessageFits, TypeOK, Client, At
  <2> QED
    BY <1>a, <2>1, <2>2, <2>3
<1>4. ASSUME NEW what \in {"pairing", "registration"}, Lapse(d, what) PROVE CInv'
  <2>1. Stable
    BY <1>4, StageKeeps DEF Lapse, SameStage
  <2>2. ClientFits' /\ MessageFits'
    BY <1>4 DEF Lapse, linkVars, CInv, ClientFits, MessageFits, At
  <2> QED
    BY <1>a, <2>1, <2>2
<1>5. ASSUME AuthRead(d) PROVE CInv'
  <2>1. Stable
    BY <1>5, StageKeeps DEF AuthRead, hostVars, SameStage
  <2>2. ClientFits'
    BY <1>5 DEF AuthRead, hostVars, CInv, ClientFits, TypeOK
  <2>3. MessageFits'
    BY <1>5 DEF AuthRead, hostVars, CInv, MessageFits, CauseFits, TypeOK, Exists, At
  <2> QED
    BY <1>a, <2>1, <2>2, <2>3
<1>6. ASSUME AuthOnline(d) \/ AuthRevoke(d) PROVE CInv'
  <2>1. SameStage
    <3>1. CASE AuthOnline(d)
      BY <3>1 DEF AuthOnline, Update, TypeOK, Row, SameStage
    <3>2. CASE AuthRevoke(d)
      BY <3>2 DEF AuthRevoke, Update, TypeOK, Row, SameStage
    <3> QED
      BY <1>6, <3>1, <3>2
  <2>2. Stable
    BY <1>6, <2>1, StageKeeps DEF AuthOnline, AuthRevoke
  <2>3. ClientFits'
    BY <1>6, <2>1 DEF AuthOnline, AuthRevoke, SameStage, CInv, ClientFits, TypeOK
  <2>4. MessageFits'
    BY <1>6 DEF AuthOnline, AuthRevoke, CInv, MessageFits, TypeOK, At
  <2> QED
    BY <1>a, <2>2, <2>3, <2>4
<1>7. ASSUME Subscribe(d) PROVE CInv'
  <2>1. Stable
    BY <1>7, StageKeeps DEF Subscribe, hostVars, SameStage
  <2>2. ClientFits'
    BY <1>7 DEF Subscribe, hostVars, CInv, ClientFits, TypeOK
  <2>3. MessageFits'
    BY <1>7 DEF Subscribe, hostVars, CInv, MessageFits, TypeOK, Mail, At
  <2> QED
    BY <1>a, <2>1, <2>2, <2>3
<1>8. ASSUME Drop(d) PROVE CInv'
  <2>1. SameStage
    BY <1>8, OfflineKeeps DEF Drop, SameStage
  <2>2. Stable
    BY <1>8, <2>1, StageKeeps DEF Drop
  <2>3. ClientFits'
    BY <1>8, <2>1 DEF Drop, SameStage, CInv, ClientFits, TypeOK
  <2>4. MessageFits'
    BY <1>8 DEF Drop, CInv, MessageFits, TypeOK, At
  <2> QED
    BY <1>a, <2>2, <2>3, <2>4
<1>9. ASSUME CloseStale(d) PROVE CInv'
  <2>1. SameStage
    BY <1>9, OfflineKeeps DEF CloseStale
  <2>2. Stable
    BY <1>9, <2>1, StageKeeps DEF CloseStale
  <2>3. ClientFits' /\ MessageFits'
    BY <1>9, <2>1 DEF CloseStale, SameStage, CInv, ClientFits, MessageFits, At
  <2> QED
    BY <1>a, <2>2, <2>3
<1>10. ASSUME TakeCert(d) PROVE CInv'
  <2>1. SameStage
    BY <1>10, OfflineKeeps DEF TakeCert, SameStage
  <2>2. Stable
    BY <1>10, <2>1, StageKeeps DEF TakeCert
  <2>3. ClientFits'
    BY <1>10, <2>1 DEF TakeCert, SameStage, CInv, ClientFits, TypeOK, Client
  <2>4. MessageFits'
    BY <1>10 DEF TakeCert, CInv, MessageFits, TypeOK, Client, Mail, At
  <2> QED
    BY <1>a, <2>2, <2>3, <2>4
<1>11. ASSUME Leave(d) PROVE CInv'
  <2>1. SameStage
    BY <1>11, OfflineKeeps DEF Leave, SameStage
  <2>2. Stable
    BY <1>11, <2>1, StageKeeps DEF Leave
  <2>3. ClientFits'
    <3>1. row[d].state \in Settled /\ client'[d].phase = "removed"
      BY <1>11 DEF Leave, CInv, ClientFits, TypeOK
    <3>2. \A e \in Device : e # d => client'[e] = client[e] /\ link'[e] = link[e] /\ ack'[e] = ack[e]
      BY <1>11 DEF Leave, TypeOK
    <3>3. row[d].state # "none"
      BY <3>1 DEF Settled
    <3> QED
      BY <1>11, <2>1, <3>1, <3>2, <3>3 DEF Leave, SameStage, CInv, ClientFits
  <2>4. MessageFits'
    BY <1>11 DEF Leave, CInv, MessageFits, TypeOK, Client, Mail, At
  <2> QED
    BY <1>a, <2>2, <2>3, <2>4
<1>12. ASSUME AckRead(d) PROVE CInv'
  <2>1. Stable
    BY <1>12, StageKeeps DEF AckRead, hostVars, SameStage
  <2>2. ClientFits' /\ MessageFits'
    BY <1>12 DEF AckRead, hostVars, CInv, ClientFits, MessageFits, TypeOK, At
  <2> QED
    BY <1>a, <2>1, <2>2
<1>13. ASSUME AckWrite(d) PROVE CInv'
  <2> USE DEF TypeOK, Row, Client, Call, Settled, Claimed, Exists
  <2>1. row[d].state \in Settled
    BY <1>13 DEF AckWrite, CInv, ClientFits
  <2>2. ClaimFits' /\ SettledFits'
    BY <1>13, <2>1 DEF AckWrite, Update, CInv, ClaimFits, SettledFits
  <2>3. UnclaimedFits' /\ OwnerFits'
    BY <1>13, <2>1 DEF AckWrite, Update, CInv, UnclaimedFits, OwnerFits
  <2>4. CauseFits' /\ ClientFits'
    BY <1>13, <2>1 DEF AckWrite, Update, CInv, CauseFits, ClientFits
  <2>5. MessageFits'
    BY <1>13 DEF AckWrite, CInv, MessageFits, At
  <2> QED
    BY <1>a, <2>2, <2>3, <2>4, <2>5
<1> QED
  BY <1>1, <1>2, <1>3, <1>4, <1>5, <1>6, <1>7, <1>8, <1>9, <1>10, <1>11, <1>12, <1>13
  DEF Pairing, Admit, Disconnect, Handle, TakeDeprovision, SelfDeprovision, Acknowledge

\* A restart ends the calls and the connections, and loses the messages.
LEMMA RestartKeeps == ASSUME TInv, CInv, Restart PROVE CInv'
BY DEF Restart, TInv, TypeOK, Claimed, CInv, ClaimFits, SettledFits, UnclaimedFits, OwnerFits,
       ClientFits, CauseFits, MessageFits

\* Every step keeps what the calls rely on.
LEMMA ClaimInvariant == Spec => [](TInv /\ CInv)
<1>1. Init => CInv
  BY DEF Init, Claimed, Settled, CInv, ClaimFits, SettledFits, UnclaimedFits, OwnerFits,
         ClientFits, CauseFits, MessageFits
<1>2. TInv /\ CInv /\ [Next]_vars => CInv'
  <2> SUFFICES ASSUME TInv, CInv, [Next]_vars PROVE CInv'
    OBVIOUS
  <2>1. CASE UNCHANGED vars
    <3>1. ClaimFits' /\ SettledFits' /\ UnclaimedFits' /\ OwnerFits' /\ CauseFits'
      BY <2>1, StageKeeps DEF vars, TInv, SameStage, OverlapsStay
    <3>2. ClientFits'
      BY <2>1 DEF vars, CInv, ClientFits
    <3>3. MessageFits'
      BY <2>1, MessageKeeps DEF vars, CInv, At
    <3> QED
      BY <3>1, <3>2, <3>3 DEF CInv
  <2> QED
    BY <2>1, CallKeeps, DeviceKeeps, RestartKeeps DEF Next
<1> QED
  BY <1>1, <1>2, TypeInvariant, PTL DEF Spec

\* The variables have their types (DeviceRegistry).
THEOREM TypeCorrect == Spec => []TypeOK
<1>1. TInv => TypeOK
  BY DEF TInv
<1> QED
  BY <1>1, TypeInvariant, PTL

\* The owner of a device was told that it has claimed it, and nobody else was, unless two claims
\* were in progress at a time (ClaimDevice): the UPDATE of a claim does not look at the state
\* that was read.
THEOREM OneClaimant == Spec => []ClaimedOnce
<1>1. CInv => ClaimedOnce
  <2> SUFFICES ASSUME CInv, NEW d \in Device, "claims" \notin mishap[d]
               PROVE  Cardinality(winners[d]) <= 1
    BY DEF ClaimedOnce, CInv, OwnerFits
  <2>1. \A a, b \in winners[d] : a = b
    BY DEF CInv, OwnerFits
  <2>2. CASE winners[d] = {}
    BY <2>2, FS_EmptySet
  <2>3. CASE winners[d] # {}
    <3>1. PICK a \in winners[d] : TRUE
      BY <2>3
    <3>2. winners[d] = {a}
      BY <2>1, <3>1
    <3>3. Cardinality({a}) = 1
      BY FS_Singleton
    <3> QED
      BY <3>2, <3>3
  <2> QED
    BY <2>2, <2>3
<1> QED
  BY <1>1, ClaimInvariant, PTL

\* Unless two claims of it overlapped, a device its operator has deprovisioned and that is connected,
\* or being admitted, has the message on its way (DeprovisionDevice): the state is written
\* before the message is published, and the message is retained.
THEOREM DeprovisionArrives == Spec => []DeprovisionReachesConnected
<1>1. TInv /\ CInv => DeprovisionReachesConnected
  BY DEF TInv, CInv, MessageFits, DeprovisionReachesConnected, Busy, At
<1> QED
  BY <1>1, ClaimInvariant, PTL

-----------------------------------------------------------------------------
(* The lifecycle. *)

\* A step that is not one of these changes the state and the account of no row.
ChangesStage ==
    \/ \E d \in Device : Pair(d) \/ AckWrite(d)
    \/ \E w \in Worker : ClaimWrite(w) \/ DeprovisionWrite(w) \/ SweepWrite(w) \/ ExpireWrite(w)

LEMMA StageChanges ==
    ASSUME TypeOK, Next, ~ChangesStage
    PROVE  SameStage
<1>1. ASSUME NEW w \in Worker, NEW d \in Device, Start(w, d) PROVE SameStage
  BY <1>1 DEF Start, ClaimRead, DeprovisionRead, RotateRead, SweepRead, ExpireRead, SameStage
<1>2. ASSUME NEW w \in Worker, ClaimSign(w) PROVE SameStage
  BY <1>2 DEF ClaimSign, Update, TypeOK, Row, At, Call, SameStage
<1>3. ASSUME NEW w \in Worker, RotateWrite(w) PROVE SameStage
  BY <1>3 DEF RotateWrite, Update, TypeOK, Row, At, Call, SameStage
<1>4. ASSUME NEW w \in Worker, DeprovisionPublish(w) \/ RotatePublish(w) PROVE SameStage
  BY <1>4 DEF DeprovisionPublish, RotatePublish, SameStage
<1>5. ASSUME NEW d \in Device, AuthOnline(d) PROVE SameStage
  BY <1>5 DEF AuthOnline, Update, TypeOK, Row, SameStage
<1>6. ASSUME NEW d \in Device, AuthRevoke(d) PROVE SameStage
  BY <1>6 DEF AuthRevoke, Update, TypeOK, Row, SameStage
<1>7. ASSUME NEW d \in Device, Disconnect(d) \/ TakeCert(d) \/ Leave(d) PROVE SameStage
  BY <1>7, OfflineKeeps DEF Disconnect, Drop, CloseStale, TakeCert, Leave, SameStage
<1>8. ASSUME NEW d \in Device,
             \/ Authenticate(d) \/ GiveUp(d) \/ \E what \in {"pairing", "registration"} : Lapse(d, what)
             \/ AuthRead(d) \/ Subscribe(d) \/ AckRead(d)
      PROVE  SameStage
  BY <1>8 DEF Authenticate, GiveUp, Lapse, AuthRead, Subscribe, AckRead, hostVars, SameStage
<1>9. ASSUME Restart PROVE SameStage
  BY <1>9 DEF Restart, SameStage
<1> QED
  BY <1>1, <1>2, <1>3, <1>4, <1>5, <1>6, <1>7, <1>8, <1>9
  DEF Next, Proceed, Pairing, Admit, Handle, TakeDeprovision, SelfDeprovision, Acknowledge,
      ChangesStage

\* A step that changes the state or the account of no row changes what calls in progress have
\* in view only by beginning one.
LEMMA SameStageKeeps ==
    ASSUME TInv, TInv', SInv, Next, ~ChangesStage
    PROVE  SInv'
<1>0. SameStage
  BY StageChanges DEF TInv
<1>a. \A d \in Device : d \in Contested => d \in Contested'
  BY NextMishaps DEF OverlapsStay, Contested
<1>1. ASSUME NEW w \in Worker, NEW d \in Device, Start(w, d) PROVE SInv'
  <2>1. \A v \in Worker : v # w => task'[v] = task[v]
    BY <1>1 DEF TInv, TypeOK, Start, ClaimRead, DeprovisionRead, RotateRead, SweepRead, ExpireRead,
                Begin
  <2>2. /\ task'[w].op = "claim" => task'[w].dev = d /\ row[d].state = "PAIRING"
        /\ task'[w].op = "sweep" => task'[w].dev = d /\ row[d].state = "PAIRING"
    BY <1>1 DEF TInv, TypeOK, Start, ClaimRead, DeprovisionRead, RotateRead, SweepRead, ExpireRead,
                Begin
  <2>3. \A v \in Worker : task[v] # Idle => task[v].dev \in Device
    BY DEF TInv, TypeOK, Call
  <2>4. ASSUME NEW v \in Worker, v # w, task'[v] # Idle, task'[v].op \in {"claim", "sweep"}
        PROVE  row'[task'[v].dev].state = row[task[v].dev].state
    BY <1>0, <2>1, <2>3, <2>4 DEF SameStage
  <2>5. task'[w].op \in {"claim", "sweep"} => row'[task'[w].dev].state = "PAIRING"
    BY <1>0, <2>2 DEF SameStage
  <2>6. SweepFits'
    BY <1>a, <2>1, <2>3, <2>4, <2>5 DEF SInv, SweepFits
  <2>7. ClaimMeetsRow'
    BY <1>a, <2>1, <2>3, <2>4, <2>5 DEF SInv, ClaimMeetsRow
  <2> QED
    BY <2>6, <2>7 DEF SInv
<1>2. ASSUME \A w \in Worker : task'[w] # Idle =>
                 task[w] # Idle /\ task'[w].op = task[w].op /\ task'[w].dev = task[w].dev
      PROVE  SInv'
  <2>1. \A v \in Worker : task[v] # Idle => task[v].dev \in Device
    BY DEF TInv, TypeOK, Call
  <2> QED
    BY <1>0, <1>a, <1>2, <2>1 DEF SInv, SweepFits, ClaimMeetsRow, SameStage
<1>3. ASSUME NEW w \in Worker,
             \/ ClaimSign(w) \/ DeprovisionPublish(w) \/ RotateWrite(w) \/ RotatePublish(w)
      PROVE  SInv'
  <2>1. \A v \in Worker : v # w => task'[v] = task[v]
    BY <1>3 DEF TInv, TypeOK, ClaimSign, DeprovisionPublish, RotateWrite, RotatePublish, Continue, End
  <2>2. task'[w] # Idle => task[w] # Idle /\ task'[w].op = task[w].op /\ task'[w].dev = task[w].dev
    <3> USE DEF TInv, TypeOK, Call, At
    <3>1. CASE ClaimSign(w)
      BY <3>1 DEF ClaimSign, Continue
    <3>2. CASE RotateWrite(w)
      BY <3>2 DEF RotateWrite
    <3>3. CASE DeprovisionPublish(w) \/ RotatePublish(w)
      BY <3>3 DEF DeprovisionPublish, RotatePublish, End
    <3> QED
      BY <1>3, <3>1, <3>2, <3>3
  <2> QED
    BY <1>2, <2>1, <2>2
<1>4. ASSUME NEW d \in Device,
             Pairing(d) \/ Admit(d) \/ Disconnect(d) \/ Handle(d) \/ Acknowledge(d)
      PROVE  SInv'
  <2>1. UNCHANGED task
    BY <1>4 DEF Pairing, Pair, Authenticate, GiveUp, Lapse, Admit, AuthRead, AuthOnline, AuthRevoke,
         Subscribe, Disconnect, Drop, CloseStale, Handle, TakeCert, TakeDeprovision,
         SelfDeprovision, Leave, Acknowledge, AckRead, AckWrite, hostVars
  <2> QED
    BY <1>2, <2>1
<1>5. ASSUME Restart PROVE SInv'
  BY <1>5 DEF Restart, SInv, SweepFits, ClaimMeetsRow
<1> QED
  BY <1>1, <1>3, <1>4, <1>5 DEF Next, Proceed, ChangesStage

\* A device that is being claimed while another call claims or sweeps it is contested.
LEMMA ClaimContested ==
    ASSUME TInv, NEW v \in Worker, NEW w \in Worker, v # w,
           task[v] # Idle, task[w] # Idle, task[v].dev = task[w].dev, task[w].op = "claim",
           task[v].op \in {"claim", "sweep"}
    PROVE  task[w].dev \in Contested
BY DEF TInv, TypeOK, Call, OverlapsNoted, Contested

\* A claimed device that is deprovisioned is no matter to the claims and sweeps in progress.
LEMMA SettledMeetsRow ==
    ASSUME SInv, NEW d \in Device, row[d].state \in Settled, row'[d].state \in Settled,
           row[d].state = "deleted" => row'[d].state = "deleted",
           \A e \in Device : e # d => row'[e] = row[e],
           \A e \in Device : e \in Contested => e \in Contested',
           \A v \in Worker : task'[v] # Idle /\ task'[v].op \in {"claim", "sweep"}
              => task'[v] = task[v] /\ task[v] # Idle /\ task[v].dev \in Device
    PROVE  SInv'
<1> USE DEF SInv, Settled
<1>1. ASSUME NEW v \in Worker, task'[v] # Idle, task'[v].op \in {"claim", "sweep"}
      PROVE  /\ row'[task'[v].dev].state # "none"
             /\ task'[v].op = "sweep" => \/ row'[task'[v].dev].state \in {"PAIRING", "deleted"}
                                         \/ task'[v].dev \in Contested'
             /\ task'[v].op = "claim" => \/ row'[task'[v].dev].state = "PAIRING"
                                         \/ task'[v].dev \in Contested'
  <2>1. task'[v] = task[v] /\ task[v] # Idle /\ task[v].dev \in Device
    BY <1>1
  <2>2. CASE task[v].dev = d
    BY <1>1, <2>1, <2>2 DEF SweepFits, ClaimMeetsRow
  <2>3. CASE task[v].dev # d
    BY <1>1, <2>1, <2>3 DEF SweepFits, ClaimMeetsRow
  <2> QED
    BY <2>2, <2>3
<1> QED
  BY <1>1 DEF SweepFits, ClaimMeetsRow

\* Unless the device is contested a claim finds the row as it was read, and a sweep deletes only a
\* row that nobody has claimed.
LEMMA SweepKeeps ==
    ASSUME TInv, TInv', CInv, SInv, Next
    PROVE  SInv'
<1>0. \A d \in Device : d \in Contested => d \in Contested'
  BY NextMishaps DEF OverlapsStay, Contested
<1> USE <1>0 DEF TInv, TypeOK, Row, Call, Idle, At, SInv, SweepFits, ClaimMeetsRow
<1>1. ASSUME NEW d \in Device, Pair(d) PROVE SInv'
  BY <1>1 DEF Pair
<1>2. ASSUME NEW d \in Device, AckWrite(d) PROVE SInv'
  BY <1>2 DEF AckWrite, Update, CInv, ClientFits, Settled, Exists
<1>3. ASSUME NEW w \in Worker, ClaimWrite(w) PROVE SInv'
  <2>1. \A v \in Worker :
          v # w /\ task[v] # Idle /\ task[v].dev = task[w].dev /\ task[v].op \in {"claim", "sweep"}
          => task[w].dev \in Contested
    BY <1>3, ClaimContested DEF ClaimWrite
  <2> QED
    BY <1>3, <2>1 DEF ClaimWrite, Update, End, Exists
<1>4. ASSUME NEW w \in Worker, DeprovisionWrite(w) PROVE SInv'
  <2>1. PICK d \in Device : d = task[w].dev
    BY <1>4 DEF DeprovisionWrite
  <2>2. /\ row[d].state \in {"ACTIVE", "DEPROVISIONED", "deleted"}
        /\ row'[d].state \in {"DEPROVISIONED", "deleted"} /\ (row[d].state = "deleted" => row' = row)
        /\ \A e \in Device : e # d => row'[e] = row[e]
    BY <1>4, <2>1 DEF DeprovisionWrite, Update, Exists, CInv, SettledFits, Settled
  <2>3. /\ task'[w].op = "deprovision"
        /\ \A v \in Worker : v # w => task'[v] = task[v]
    BY <1>4 DEF DeprovisionWrite, Continue
  <2>4. \A v \in Worker : task'[v] # Idle /\ task'[v].op \in {"claim", "sweep"}
           => task'[v] = task[v] /\ task[v] # Idle /\ task[v].dev \in Device
    BY <2>3
  <2> HIDE DEF TInv, TypeOK, Row, Call, Idle, At, SInv, SweepFits, ClaimMeetsRow
  <2> QED
    BY <1>0, <2>2, <2>4, SettledMeetsRow DEF Settled
<1>5. ASSUME NEW w \in Worker, SweepWrite(w) PROVE SInv'
  <2>1. \A v \in Worker :
          v # w /\ task[v] # Idle /\ task[v].dev = task[w].dev /\ task[v].op = "claim"
          => task[w].dev \in Contested
    BY <1>5, ClaimContested DEF SweepWrite
  <2> QED
    BY <1>5, <2>1 DEF SweepWrite, End
<1>6. ASSUME NEW w \in Worker, ExpireWrite(w) PROVE SInv'
  BY <1>6 DEF ExpireWrite, Update, End, Exists, CInv, SettledFits, Settled
<1>7. CASE ~ChangesStage
  BY <1>7, SameStageKeeps
<1> QED
  BY <1>1, <1>2, <1>3, <1>4, <1>5, <1>6, <1>7 DEF ChangesStage

LEMMA SweepInvariant == Spec => [](TInv /\ CInv /\ SInv)
<1>1. Init => SInv
  BY DEF Init, SInv, SweepFits, ClaimMeetsRow
<1>2. TInv /\ TInv' /\ CInv /\ SInv /\ [Next]_vars => SInv'
  <2>1. CASE UNCHANGED vars
    BY <2>1 DEF vars, SInv, SweepFits, ClaimMeetsRow, Contested
  <2> QED
    BY <2>1, SweepKeeps
<1> QED
  BY <1>1, <1>2, ClaimInvariant, PTL DEF Spec

\* Where the devices are in their lives, when a row changes.
LEMMA Restage ==
    ASSUME NEW d \in Device, NEW s, row'[d].state = s,
           \A e \in Device : e # d => row'[e].state = row[e].state
    PROVE  [e \in Device |-> row'[e].state] = [[e \in Device |-> row[e].state] EXCEPT ![d] = s]
OBVIOUS

\* Whose the devices are, when a row changes.
LEMMA Reown ==
    ASSUME NEW d \in Device, NEW a, row'[d].account = a,
           \A e \in Device : e # d => row'[e].account = row[e].account
    PROVE  [e \in Device |-> row'[e].account] = [[e \in Device |-> row[e].account] EXCEPT ![d] = a]
OBVIOUS

\* No device becomes contested, or ceases to be.
LEMMA ContestedStays == ASSUME SameOverlaps PROVE Contested' = Contested
BY DEF SameOverlaps, Contested

\* A row that is deprovisioned was claimed, or is gone.
LEMMA DeprovisionStep ==
    ASSUME TypeOK, NEW d \in Device, row[d].state \in Settled,
           Update(d, [row[d] EXCEPT !.state = "DEPROVISIONED"]), UNCHANGED <<disclosed, Contested>>
    PROVE  Lifecycle!Deprovision(d) \/ UNCHANGED Lifecycle!vars
<1> USE DEF TypeOK, Row, Settled
<1>1. \A e \in Device : row'[e].account = row[e].account /\ (e # d => row'[e] = row[e])
  BY DEF Update
<1>2. [e \in Device |-> row'[e].account] = [e \in Device |-> row[e].account]
  BY <1>1
<1>3. CASE row[d].state = "ACTIVE"
  <2>1. row'[d].state = "DEPROVISIONED"
    BY <1>3 DEF Update, Exists
  <2>2. [e \in Device |-> row'[e].state]
           = [[e \in Device |-> row[e].state] EXCEPT ![d] = "DEPROVISIONED"]
    BY <1>1, <2>1, Restage
  <2> QED
    BY <1>2, <1>3, <2>2 DEF Lifecycle!Deprovision
<1>4. CASE row[d].state # "ACTIVE"
  <2>1. \A e \in Device : row'[e].state = row[e].state
    BY <1>4 DEF Update, Exists
  <2> QED
    BY <1>2, <2>1 DEF Lifecycle!vars
<1> QED
  BY <1>3, <1>4

\* A step of the registry is a step of the lifecycle or none.
LEMMA LifecycleStep ==
    ASSUME TInv, CInv, SInv, Next
    PROVE  [Lifecycle!Next]_Lifecycle!vars
<1> USE DEF TInv, TypeOK, Row
<1>0. ASSUME ~ \E w \in Worker, d \in Device : Start(w, d) PROVE UNCHANGED Contested
  <2>1. CASE Restart
    BY <2>1 DEF Restart, Contested
  <2>2. CASE ~Restart
    <3>1. SameOverlaps
      BY <1>0, <2>2, ProceedMishaps, DeviceMishaps DEF Next
    <3> QED
      BY <3>1, ContestedStays
  <2> QED
    BY <2>1, <2>2
<1>1. ASSUME NEW d \in Device, Pair(d) PROVE Lifecycle!Pair(d)
  <2>1. row[d].state = "none" /\ row'[d].state = "PAIRING"
    BY <1>1 DEF Pair
  <2>2. \A e \in Device : row'[e].account = row[e].account /\ (e # d => row'[e] = row[e])
    BY <1>1 DEF Pair
  <2>3. [e \in Device |-> row'[e].state]
           = [[e \in Device |-> row[e].state] EXCEPT ![d] = "PAIRING"]
    BY <2>1, <2>2, Restage
  <2>4. UNCHANGED <<disclosed, Contested>>
    BY <1>1 DEF Pair, Contested
  <2> QED
    BY <2>1, <2>2, <2>3, <2>4 DEF Lifecycle!Pair
<1>2. ASSUME NEW d \in Device, AckWrite(d)
      PROVE  Lifecycle!Deprovision(d) \/ UNCHANGED Lifecycle!vars
  <2>1. UNCHANGED <<disclosed, Contested>>
    BY <1>2 DEF AckWrite, Contested
  <2> QED
    BY <1>2, <2>1, DeprovisionStep DEF AckWrite, CInv, ClientFits
<1>3. ASSUME NEW w \in Worker, DeprovisionWrite(w) \/ ExpireWrite(w)
      PROVE  (\E d \in Device : Lifecycle!Deprovision(d)) \/ UNCHANGED Lifecycle!vars
  <2>1. PICK d \in Device : d = task[w].dev
    BY <1>3 DEF DeprovisionWrite, ExpireWrite, At, Call
  <2>2. row[d].state \in Settled
    BY <1>3, <2>1 DEF DeprovisionWrite, ExpireWrite, CInv, SettledFits, At
  <2>3. Update(d, [row[d] EXCEPT !.state = "DEPROVISIONED"]) /\ UNCHANGED <<disclosed, Contested>>
    BY <1>3, <2>1 DEF DeprovisionWrite, ExpireWrite, Contested
  <2> QED
    BY <2>2, <2>3, DeprovisionStep
<1>4. ASSUME NEW w \in Worker, ClaimWrite(w)
      PROVE  (\E d \in Device, a \in Account : Lifecycle!Claim(d, a)) \/ UNCHANGED Lifecycle!vars
  <2>0. PICK d \in Device, a \in Account : d = task[w].dev /\ a = task[w].account
    BY <1>4 DEF ClaimWrite, ClaimsByAccount, At, Call
  <2>1. row[d].state # "none" /\ (row[d].state = "PAIRING" \/ d \in Contested)
    BY <1>4, <2>0 DEF ClaimWrite, SInv, ClaimMeetsRow, At
  <2>3. UNCHANGED <<disclosed, Contested>>
    BY <1>4 DEF ClaimWrite, Contested
  <2>4. CASE row[d].state = "deleted"
    <3>1. row' = row
      BY <1>4, <2>0, <2>4 DEF ClaimWrite, Update, Exists
    <3> QED
      BY <2>3, <3>1 DEF Lifecycle!vars
  <2>5. CASE row[d].state # "deleted"
    <3>1. /\ row'[d].state = "ACTIVE" /\ row'[d].account = a
          /\ \A e \in Device : e # d => row'[e] = row[e]
      BY <1>4, <2>0, <2>1, <2>5 DEF ClaimWrite, Update, Exists
    <3>2. [e \in Device |-> row'[e].state]
             = [[e \in Device |-> row[e].state] EXCEPT ![d] = "ACTIVE"]
      BY <3>1, Restage
    <3>3. [e \in Device |-> row'[e].account] = [[e \in Device |-> row[e].account] EXCEPT ![d] = a]
      BY <3>1, Reown
    <3>4. row[d].state \in {"PAIRING", "ACTIVE", "DEPROVISIONED"}
      BY <2>1, <2>5 DEF States
    <3>5. Lifecycle!Claim(d, a)
      BY <2>1, <2>3, <3>2, <3>3, <3>4 DEF Lifecycle!Claim, Lifecycle!Undecided
    <3> QED
      BY <3>5
  <2> QED
    BY <2>4, <2>5
<1>5. ASSUME NEW w \in Worker, SweepWrite(w)
      PROVE  (\E d \in Device : Lifecycle!Forget(d)) \/ UNCHANGED Lifecycle!vars
  <2>0. PICK d \in Device : d = task[w].dev
    BY <1>5 DEF SweepWrite, At, Call
  <2>1. /\ row[d].state # "none" /\ (row[d].state \in {"PAIRING", "deleted"} \/ d \in Contested)
        /\ UNCHANGED <<disclosed, Contested>>
    BY <1>5, <2>0 DEF SweepWrite, SInv, SweepFits, At, Contested
  <2>2. /\ row'[d].state = "deleted"
        /\ \A e \in Device : row'[e].account = row[e].account /\ (e # d => row'[e] = row[e])
    BY <1>5, <2>0 DEF SweepWrite
  <2>3. [e \in Device |-> row'[e].state]
           = [[e \in Device |-> row[e].state] EXCEPT ![d] = "deleted"]
    BY <2>1, <2>2, Restage
  <2>4. [e \in Device |-> row'[e].account] = [e \in Device |-> row[e].account]
    BY <2>2
  <2>5. CASE row[d].state # "deleted"
    <3>1. row[d].state \in {"PAIRING", "ACTIVE", "DEPROVISIONED"}
      BY <2>1, <2>5 DEF States
    <3>2. Lifecycle!Forget(d)
      BY <2>1, <2>3, <2>4, <2>5, <3>1 DEF Lifecycle!Forget, Lifecycle!Undecided
    <3> QED
      BY <3>2
  <2>6. CASE row[d].state = "deleted"
    <3>1. [e \in Device |-> row'[e].state] = [e \in Device |-> row[e].state]
      BY <2>2, <2>6
    <3> QED
      BY <2>1, <2>4, <3>1 DEF Lifecycle!vars
  <2> QED
    BY <2>5, <2>6
<1>6. ASSUME NEW d \in Device, Authenticate(d) PROVE Lifecycle!Disclose(d)
  <2>1. UNCHANGED <<row, Contested>>
    BY <1>6 DEF Authenticate, Contested
  <2> QED
    BY <1>6, <2>1 DEF Authenticate, Claimed, Lifecycle!Disclose
<1>7. ASSUME ~ChangesStage, ~ \E d \in Device : Authenticate(d)
      PROVE  /\ [e \in Device |-> row'[e].state] = [e \in Device |-> row[e].state]
             /\ [e \in Device |-> row'[e].account] = [e \in Device |-> row[e].account]
             /\ UNCHANGED disclosed
  <2>1. SameStage
    BY <1>7, StageChanges
  <2>2. UNCHANGED disclosed
    <3>1. ASSUME NEW w \in Worker, (\E d \in Device : Start(w, d)) \/ Proceed(w) PROVE UNCHANGED disclosed
      BY ZenonT(60), <3>1
      DEF Start, Proceed, ClaimRead, DeprovisionRead, RotateRead, SweepRead, ExpireRead, ClaimSign,
          ClaimWrite, DeprovisionWrite, DeprovisionPublish, RotateWrite, RotatePublish, SweepWrite,
          ExpireWrite
    <3>2. ASSUME NEW d \in Device, Pairing(d) \/ Admit(d) \/ Disconnect(d), ~Authenticate(d)
          PROVE  UNCHANGED disclosed
      BY ZenonT(60), <3>2
      DEF Pairing, Pair, GiveUp, Lapse, Admit, AuthRead, AuthOnline, AuthRevoke, Subscribe,
          Disconnect, Drop, CloseStale, hostVars
    <3>3. ASSUME NEW d \in Device, Handle(d) \/ Acknowledge(d) PROVE UNCHANGED disclosed
      BY ZenonT(60), <3>3
      DEF Handle, TakeCert, TakeDeprovision, SelfDeprovision, Leave, Acknowledge, AckRead, AckWrite,
          hostVars
    <3>4. ASSUME Restart PROVE UNCHANGED disclosed
      BY <3>4 DEF Restart, hostVars
    <3> QED
      BY <1>7, <3>1, <3>2, <3>3, <3>4 DEF Next
  <2> QED
    BY <2>1, <2>2 DEF SameStage
<1>8. ASSUME NEW w \in Worker, NEW d \in Device, Start(w, d)
      PROVE  Lifecycle!Contest(d) \/ UNCHANGED Lifecycle!vars
  <2>1. UNCHANGED <<row, disclosed>>
    BY <1>8 DEF Start, ClaimRead, DeprovisionRead, RotateRead, SweepRead, ExpireRead
  <2>2. /\ OverlapsStay
        /\ \A e \in Device : e # d => mishap'[e] = mishap[e]
        /\ mishap'[d] = mishap[d] \/ row[d].state = "PAIRING"
    BY <1>8, StartMishaps
  <2>3. Contested' = Contested \/ (row[d].state = "PAIRING" /\ Contested' = Contested \cup {d})
    BY <2>2 DEF OverlapsStay, Contested
  <2> QED
    BY <2>1, <2>3 DEF Lifecycle!Contest, Lifecycle!vars
<1>9. CASE ChangesStage \/ \E d \in Device : Authenticate(d)
  BY <1>1, <1>2, <1>3, <1>4, <1>5, <1>6, <1>9 DEF ChangesStage, Lifecycle!Next
<1>10. CASE \E w \in Worker, d \in Device : Start(w, d)
  BY <1>8, <1>10 DEF Lifecycle!Next
<1>11. CASE /\ ~ChangesStage /\ ~ \E d \in Device : Authenticate(d)
            /\ ~ \E w \in Worker, d \in Device : Start(w, d)
  BY <1>0, <1>7, <1>11 DEF Lifecycle!vars
<1> QED
  BY <1>9, <1>10, <1>11

\* Whatever overlaps, the registry keeps the promises of the lifecycle: a device is paired, claimed
\* by one account, and deprovisioned for good, unless it is contested, and its credentials are
\* disclosed only after the claim.
THEOREM RegistryImplementsLifecycle == Spec => LifecycleSpec
<1>1. Init => Lifecycle!Init
  BY DEF Init, Lifecycle!Init, Contested
<1>2. TInv /\ CInv /\ SInv /\ [Next]_vars => [Lifecycle!Next]_Lifecycle!vars
  <2>1. CASE UNCHANGED vars
    BY <2>1 DEF vars, Lifecycle!vars, Contested
  <2> QED
    BY <2>1, LifecycleStep
<1> QED
  BY <1>1, <1>2, SweepInvariant, PTL DEF Spec, LifecycleSpec, Lifecycle!Spec

-----------------------------------------------------------------------------
(* The latest certificate. *)

\* No rotation begins, ends or changes while it is about to publish.
SamePublishers ==
    \A v \in Worker :
        At(v, "rotate", "publish") \/ At(v, "rotate", "publish")' => task'[v] = task[v]

\* Nothing happens to a device that its certificates could be missed by.
Quiet(e) ==
    /\ mishap[e] \subseteq mishap'[e]
    /\ Claimed(e)' /\ ~Spoiled(e)' => Claimed(e) /\ row'[e].cur = row[e].cur
    /\ row'[e].state \in {"none", "PAIRING"} => row[e].state \in {"none", "PAIRING"}
    /\ retained'[e].certs = retained[e].certs
    /\ inbox'[e].certs \subseteq inbox[e].certs
    /\ client'[e].phase = "paired" /\ client'[e].cert # row'[e].cur
       => client[e].phase = "paired" /\ client'[e].cert = client[e].cert
    /\ link'[e] = "subscribed" /\ client'[e].phase = "paired"
       => link[e] = "subscribed" /\ inbox'[e].certs = inbox[e].certs

LEMMA PublishingStays ==
    ASSUME SamePublishers, NEW e \in Device, row'[e].cur = row[e].cur, Publishing(e)
    PROVE  Publishing(e)'
BY DEF SamePublishers, Publishing, At

\* What is said of one device is kept while nothing happens to it.
LEMMA QuietKeeps ==
    ASSUME NEW e \in Device, restarts' = restarts, Quiet(e),
           Publishing(e) /\ Claimed(e)' /\ ~Spoiled(e)' => Publishing(e)',
           SentFits(e), RetainedFits(e), WaitingFits(e)
    PROVE  SentFits(e)' /\ RetainedFits(e)' /\ WaitingFits(e)'
<1>1. SentFits(e)'
  BY DEF Quiet, SentFits
<1>2. RetainedFits(e)'
  BY DEF Quiet, RetainedFits, Spoiled
<1>3. WaitingFits(e)'
  BY DEF Quiet, WaitingFits, Spoiled
<1> QED
  BY <1>1, <1>2, <1>3

\* A worker that begins a call or goes on with one that is no rotation is no publisher.
LEMMA OthersPublish ==
    ASSUME TInv, NEW w \in Worker,
           \/ \E d \in Device : Start(w, d)
           \/ ClaimSign(w) \/ ClaimWrite(w) \/ DeprovisionWrite(w) \/ DeprovisionPublish(w)
           \/ SweepWrite(w) \/ ExpireWrite(w)
    PROVE  SamePublishers
<1> USE DEF TInv, TypeOK, Call, At, Idle
<1>a. ASSUME NEW d \in Device, Start(w, d) PROVE \A v \in Worker : v # w => task'[v] = task[v]
  BY SMTT(30), <1>a DEF Start, ClaimRead, DeprovisionRead, RotateRead, SweepRead, ExpireRead, Begin
<1>b. ASSUME ClaimSign(w) \/ ClaimWrite(w) PROVE \A v \in Worker : v # w => task'[v] = task[v]
  BY SMTT(30), <1>b DEF ClaimSign, ClaimWrite, Continue, End
<1>c. ASSUME DeprovisionWrite(w) \/ DeprovisionPublish(w)
      PROVE  \A v \in Worker : v # w => task'[v] = task[v]
  BY SMTT(30), <1>c DEF DeprovisionWrite, DeprovisionPublish, Continue, End
<1>d. ASSUME SweepWrite(w) \/ ExpireWrite(w)
      PROVE  \A v \in Worker : v # w => task'[v] = task[v]
  BY SMTT(30), <1>d DEF SweepWrite, ExpireWrite, Continue, End
<1>1. \A v \in Worker : v # w => task'[v] = task[v]
  BY <1>a, <1>b, <1>c, <1>d
<1>2. ASSUME NEW d \in Device, Start(w, d)
      PROVE  ~At(w, "rotate", "publish") /\ ~At(w, "rotate", "publish")'
  BY <1>2 DEF Start, ClaimRead, DeprovisionRead, RotateRead, SweepRead, ExpireRead, Begin
<1>3. ASSUME \/ ClaimSign(w) \/ ClaimWrite(w) \/ DeprovisionWrite(w) \/ DeprovisionPublish(w)
             \/ SweepWrite(w) \/ ExpireWrite(w)
      PROVE  ~At(w, "rotate", "publish") /\ ~At(w, "rotate", "publish")'
  BY <1>3 DEF ClaimSign, ClaimWrite, DeprovisionWrite, DeprovisionPublish, SweepWrite, ExpireWrite,
              Continue, End
<1>4. ~At(w, "rotate", "publish") /\ ~At(w, "rotate", "publish")'
  BY <1>2, <1>3
<1> QED
  BY <1>1, <1>4 DEF SamePublishers

\* These calls and loops leave the certificates of every device alone.
LEMMA QuietCalls ==
    ASSUME TInv, CInv, NEW w \in Worker,
           \/ \E d \in Device : Start(w, d)
           \/ ClaimSign(w) \/ DeprovisionWrite(w) \/ DeprovisionPublish(w)
           \/ SweepWrite(w) \/ ExpireWrite(w)
    PROVE  \A e \in Device : Quiet(e)
<1>0. /\ OverlapsStay
      /\ \A e \in Device : mishap[e] \subseteq mishap'[e]
  <2>1. ASSUME NEW d \in Device, Start(w, d) PROVE \A e \in Device : mishap[e] \subseteq mishap'[e]
    BY <2>1 DEF TInv, TypeOK, Start, ClaimRead, DeprovisionRead, RotateRead, SweepRead, ExpireRead, Begin
  <2>2. ASSUME \/ ClaimSign(w) \/ DeprovisionWrite(w) \/ DeprovisionPublish(w)
               \/ SweepWrite(w) \/ ExpireWrite(w)
        PROVE  \A e \in Device : mishap[e] \subseteq mishap'[e]
    <3>1. mishap' = mishap
      <4>1. ClaimSign(w) \/ DeprovisionWrite(w) => mishap' = mishap
        BY DEF ClaimSign, DeprovisionWrite
      <4>2. DeprovisionPublish(w) \/ SweepWrite(w) \/ ExpireWrite(w) => mishap' = mishap
        BY DEF DeprovisionPublish, SweepWrite, ExpireWrite
      <4> QED
        BY <2>2, <4>1, <4>2
    <3> QED
      BY <3>1
  <2>3. \A e \in Device : mishap[e] \subseteq mishap'[e]
    BY <2>1, <2>2
  <2> QED
    BY <2>3 DEF OverlapsStay
<1> USE <1>0 DEF TInv, TypeOK, Row, Client, Call, At, Claimed, Exists, Quiet, linkVars
<1>1. ASSUME NEW d \in Device, Start(w, d) PROVE \A e \in Device : Quiet(e)
  BY <1>1 DEF Start, ClaimRead, DeprovisionRead, RotateRead, SweepRead, ExpireRead
<1>2. ASSUME ClaimSign(w) PROVE \A e \in Device : Quiet(e)
  BY <1>2 DEF ClaimSign, Update, CInv, ClaimFits, Spoiled
<1>3. ASSUME DeprovisionWrite(w) PROVE \A e \in Device : Quiet(e)
  BY <1>3 DEF DeprovisionWrite, Update, CInv, SettledFits, Settled
<1>4. ASSUME DeprovisionPublish(w) PROVE \A e \in Device : Quiet(e)
  BY <1>4 DEF DeprovisionPublish, Publish, Mail
<1>5. ASSUME SweepWrite(w) PROVE \A e \in Device : Quiet(e)
  BY <1>5 DEF SweepWrite
<1>6. ASSUME ExpireWrite(w) PROVE \A e \in Device : Quiet(e)
  BY <1>6 DEF ExpireWrite, Update, CInv, SettledFits, Settled
<1> QED
  BY <1>1, <1>2, <1>3, <1>4, <1>5, <1>6

\* So do these steps of a device and of its connection.
LEMMA QuietSteps ==
    ASSUME TInv, CInv, NEW d \in Device,
           \/ Pairing(d) \/ AuthRead(d) \/ AuthOnline(d) \/ AuthRevoke(d)
           \/ Disconnect(d) \/ Leave(d) \/ Acknowledge(d)
    PROVE  \A e \in Device : Quiet(e)
<1> USE DEF TInv, TypeOK, Row, Client, Mail, Claimed, Exists, Quiet, hostVars, linkVars
<1>1. ASSUME Pair(d) PROVE \A e \in Device : Quiet(e)
  BY <1>1 DEF Pair
<1>2. ASSUME Authenticate(d) PROVE \A e \in Device : Quiet(e)
  <2>1. UNCHANGED <<row, retained, link, inbox, mishap>>
    BY <1>2 DEF Authenticate
  <2>2. link[d] = "down"
    BY <1>2 DEF Authenticate, CInv, ClientFits
  <2>3. /\ \A e \in Device : e # d => client'[e] = client[e]
        /\ client'[d].phase = "paired" => client'[d].cert = row[d].cur
    BY <1>2 DEF Authenticate
  <2> QED
    BY <2>1, <2>2, <2>3
<1>3. ASSUME GiveUp(d) PROVE \A e \in Device : Quiet(e)
  BY <1>3 DEF GiveUp
<1>4. ASSUME NEW what \in {"pairing", "registration"}, Lapse(d, what) PROVE \A e \in Device : Quiet(e)
  BY <1>4 DEF Lapse
<1>5. ASSUME AuthRead(d) PROVE \A e \in Device : Quiet(e)
  BY <1>5 DEF AuthRead
<1>6. ASSUME AuthOnline(d) PROVE \A e \in Device : Quiet(e)
  BY <1>6 DEF AuthOnline, Update
<1>7. ASSUME AuthRevoke(d) PROVE \A e \in Device : Quiet(e)
  BY <1>7 DEF AuthRevoke, Update
<1>8. ASSUME Drop(d) PROVE \A e \in Device : Quiet(e)
  <2>1. \A e \in Device : row'[e].state = row[e].state /\ row'[e].cur = row[e].cur
    BY <1>8, OfflineKeeps DEF Drop, SameStage
  <2>2. /\ retained' = retained /\ client' = client /\ mishap' = mishap
        /\ link' = [link EXCEPT ![d] = "down"]
    BY <1>8 DEF Drop
  <2>3. PICK kept \in SUBSET inbox[d].certs, told \in {FALSE, inbox[d].deprovision} :
          inbox' = [inbox EXCEPT ![d] = [deprovision |-> told, certs |-> kept]]
    BY <1>8 DEF Drop
  <2>4. \A e \in Device : inbox'[e].certs \subseteq inbox[e].certs
                          /\ (e # d => inbox'[e] = inbox[e])
    BY <2>3
  <2> QED
    BY <2>1, <2>2, <2>4
<1>9. ASSUME CloseStale(d) PROVE \A e \in Device : Quiet(e)
  BY <1>9, OfflineKeeps DEF CloseStale, SameStage
<1>10. ASSUME Leave(d) PROVE \A e \in Device : Quiet(e)
  <2>1. \A e \in Device : row'[e].state = row[e].state /\ row'[e].cur = row[e].cur
    BY <1>10, OfflineKeeps DEF Leave, SameStage
  <2> QED
    BY <1>10, <2>1 DEF Leave, Nothing
<1>11. ASSUME AckRead(d) PROVE \A e \in Device : Quiet(e)
  BY <1>11 DEF AckRead
<1>12. ASSUME AckWrite(d) PROVE \A e \in Device : Quiet(e)
  BY <1>12 DEF AckWrite, Update, CInv, ClientFits, Settled
<1> QED
  BY <1>1, <1>2, <1>3, <1>4, <1>5, <1>6, <1>7, <1>8, <1>9, <1>10, <1>11, <1>12
  DEF Pairing, Disconnect, Acknowledge

\* When nothing happens to any device, what is said of all of them is kept.
LEMMA AllQuiet ==
    ASSUME TInv, RInv, restarts' = restarts, SamePublishers, \A e \in Device : Quiet(e)
    PROVE  RInv'
<1> SUFFICES ASSUME NEW e \in Device PROVE SentFits(e)' /\ RetainedFits(e)' /\ WaitingFits(e)'
  BY DEF RInv
<1>1. SentFits(e) /\ RetainedFits(e) /\ WaitingFits(e) /\ Quiet(e)
  BY DEF RInv
<1>2. Publishing(e) /\ Claimed(e)' /\ ~Spoiled(e)' => Publishing(e)'
  BY <1>1, PublishingStays DEF Quiet
<1> QED
  BY <1>1, <1>2, QuietKeeps

\* The claim of a device comes before any of its certificates is sent.
LEMMA ClaimLatest ==
    ASSUME TInv, CInv, RInv, NEW w \in Worker, ClaimWrite(w) PROVE RInv'
<1> USE DEF TInv, TypeOK, Row, Call, Client, At, Claimed, Exists
<1>0. PICK d \in Device : d = task[w].dev
  BY DEF ClaimWrite
<1>1. /\ row[d].state \in {"PAIRING", "deleted"} \/ "claims" \in mishap[d]
      /\ UNCHANGED <<retained, inbox, client, link, restarts, mishap>>
      /\ \A e \in Device : e # d => row'[e] = row[e]
      /\ row'[d].cur = row[d].cur
      /\ row[d].state # "none" => row'[d].state \notin {"none", "PAIRING"}
      /\ row[d].state \in {"none", "deleted"} => row'[d] = row[d]
  BY <1>0 DEF ClaimWrite, Update, CInv, ClaimFits, linkVars
<1>2. SamePublishers
  BY OthersPublish
<1> SUFFICES ASSUME NEW e \in Device PROVE SentFits(e)' /\ RetainedFits(e)' /\ WaitingFits(e)'
  BY DEF RInv
<1>3. SentFits(e) /\ RetainedFits(e) /\ WaitingFits(e)
  BY DEF RInv
<1>4. CASE e # d \/ row[d].state \in {"none", "deleted"}
  <2>1. Quiet(e)
    BY <1>1, <1>4 DEF Quiet
  <2>2. Publishing(e) => Publishing(e)'
    BY <1>1, <1>2, PublishingStays
  <2> QED
    BY <1>1, <1>3, <2>1, <2>2, QuietKeeps
<1>5. CASE e = d /\ row[d].state \notin {"none", "deleted"} /\ "claims" \in mishap[d]
  <2>1. Spoiled(d)'
    BY <1>1, <1>5 DEF Spoiled
  <2> QED
    BY <1>1, <1>5, <2>1 DEF SentFits, RetainedFits, WaitingFits
<1>6. CASE e = d /\ row[d].state = "PAIRING" /\ "claims" \notin mishap[d]
  <2>1. retained[d].certs = {} /\ inbox[d].certs = {} /\ client[d].phase # "paired"
    BY <1>1, <1>3, <1>6 DEF SentFits, CInv, ClientFits, Settled
  <2> QED
    BY <1>1, <1>6, <2>1 DEF SentFits, RetainedFits, WaitingFits
<1> QED
  BY <1>1, <1>4, <1>5, <1>6

\* A rotation is about to publish what it stores.
LEMMA RotateLatest ==
    ASSUME TInv, CInv, RInv, NEW w \in Worker, RotateWrite(w) PROVE RInv'
<1> USE DEF TInv, TypeOK, Row, Call, At
<1>0. PICK d \in Device : d = task[w].dev
  BY DEF RotateWrite
<1>1. /\ row[d].state \in Settled /\ row'[d].state = row[d].state
      /\ UNCHANGED <<retained, inbox, client, link, restarts, mishap>>
      /\ \A e \in Device : e # d => row'[e] = row[e]
      /\ Claimed(d) => row'[d].cur = signed[d] + 1
  <2>1. row[d].state \in Settled
    BY <1>0 DEF RotateWrite, CInv, SettledFits
  <2>2. UNCHANGED <<retained, inbox, client, link, restarts, mishap>>
    BY DEF RotateWrite, linkVars
  <2>3. row' = IF Exists(d)
                 THEN [row EXCEPT ![d] = [row[d] EXCEPT !.cur = signed[d] + 1, !.prev = task[w].cert]]
                 ELSE row
    BY <1>0 DEF RotateWrite, Update
  <2>a. row \in [Device -> Row] /\ row[d] \in Row
    OBVIOUS
  <2> HIDE DEF TInv, TypeOK
  <2>4. row'[d].state = row[d].state /\ \A e \in Device : e # d => row'[e] = row[e]
    BY <2>a, <2>3 DEF Row
  <2>5. Claimed(d) => row'[d].cur = signed[d] + 1
    BY <2>a, <2>3 DEF Claimed, Exists, Row
  <2> QED
    BY <2>1, <2>2, <2>4, <2>5
<1>2. /\ task[w] # Idle /\ task[w].op = "rotate" /\ ~At(w, "rotate", "publish")
      /\ At(w, "rotate", "publish")' /\ task'[w].dev = d /\ task'[w].cert = signed[d] + 1
      /\ \A v \in Worker : v # w => task'[v] = task[v]
  <2>1. /\ task[w] # Idle /\ task[w].op = "rotate" /\ task[w].step = "write"
        /\ task' = [task EXCEPT ![w].cert = signed[d] + 1, ![w].step = "publish"]
    BY <1>0 DEF RotateWrite
  <2>a. task \in [Worker -> Call \cup {Idle}] /\ task[w] \in Call
    BY <2>1
  <2> HIDE DEF TInv, TypeOK
  <2>2. task'[w] = [task[w] EXCEPT !.cert = signed[d] + 1, !.step = "publish"]
        /\ \A v \in Worker : v # w => task'[v] = task[v]
    BY <2>1, <2>a
  <2> QED
    BY <1>0, <2>1, <2>2, <2>a DEF Idle
<1> SUFFICES ASSUME NEW e \in Device PROVE SentFits(e)' /\ RetainedFits(e)' /\ WaitingFits(e)'
  BY DEF RInv
<1>3. SentFits(e) /\ RetainedFits(e) /\ WaitingFits(e)
  BY DEF RInv
<1>4. CASE e = d
  <2>1. Claimed(d)' => Publishing(d)'
    BY <1>1, <1>2 DEF Publishing, Claimed
  <2>2. SentFits(d)'
    BY <1>1 DEF SentFits, Settled
  <2> QED
    BY <1>4, <2>1, <2>2 DEF RetainedFits, WaitingFits
<1>5. CASE e # d
  <2>1. Quiet(e)
    BY <1>1, <1>5 DEF Quiet, Claimed
  <2>2. Publishing(e) => Publishing(e)'
    BY <1>1, <1>2, <1>5 DEF Publishing
  <2> QED
    BY <1>1, <1>3, <2>1, <2>2, QuietKeeps
<1> QED
  BY <1>4, <1>5

\* A rotation publishes the latest certificate, which is then retained and sent to a subscriber, or
\* an older one, which is noted.
LEMMA PublishLatest ==
    ASSUME TInv, CInv, RInv, NEW w \in Worker, RotatePublish(w) PROVE RInv'
<1> USE DEF TInv, TypeOK, Row, Call, Mail, At
<1>0. PICK d \in Device : d = task[w].dev
  BY DEF RotatePublish
<1>1. /\ row[d].state \in Settled
      /\ UNCHANGED <<row, client, link, restarts>>
      /\ At(w, "rotate", "publish")
  BY <1>0 DEF RotatePublish, CInv, SettledFits
<1>2. /\ task'[w] = Idle
      /\ \A v \in Worker : v # w => task'[v] = task[v]
  BY DEF RotatePublish, End
<1>3. /\ retained'[d].certs = {task[w].cert}
      /\ link[d] = "subscribed" => task[w].cert \in inbox'[d].certs
      /\ \A e \in Device : e # d => retained'[e] = retained[e] /\ inbox'[e] = inbox[e]
  BY <1>0, <1>1 DEF RotatePublish, Publish
<1>4. /\ task[w].cert # row[d].cur => "order" \in mishap'[d]
      /\ \A e \in Device : e # d => mishap'[e] = mishap[e]
  BY <1>0 DEF RotatePublish
<1> SUFFICES ASSUME NEW e \in Device PROVE SentFits(e)' /\ RetainedFits(e)' /\ WaitingFits(e)'
  BY DEF RInv
<1>5. SentFits(e) /\ RetainedFits(e) /\ WaitingFits(e)
  BY DEF RInv
<1>6. CASE e = d
  <2>1. SentFits(d)'
    BY <1>1 DEF SentFits, Settled
  <2>2. RetainedFits(d)'
    BY <1>1, <1>3, <1>4 DEF RetainedFits, Claimed, Spoiled
  <2>3. WaitingFits(d)'
    BY <1>1, <1>3, <1>4 DEF WaitingFits, Claimed, Spoiled
  <2> QED
    BY <1>6, <2>1, <2>2, <2>3
<1>7. CASE e # d
  <2>1. Quiet(e)
    BY <1>1, <1>3, <1>4, <1>7 DEF Quiet, Claimed
  <2>2. Publishing(e) => Publishing(e)'
    <3>1. SUFFICES ASSUME Publishing(e) PROVE Publishing(e)'
      OBVIOUS
    <3>2. PICK v \in Worker : /\ At(v, "rotate", "publish") /\ task[v].dev = e
                              /\ task[v].cert = row[e].cur
      BY <3>1 DEF Publishing
    <3>3. v # w
      BY <1>0, <1>7, <3>2
    <3> QED
      BY <1>1, <1>2, <1>7, <3>2, <3>3 DEF Publishing
  <2> QED
    BY <1>1, <1>5, <2>1, <2>2, QuietKeeps
<1> QED
  BY <1>6, <1>7

\* A device that subscribes is sent what is retained, the latest certificate if there is one.
LEMMA SubscribeLatest ==
    ASSUME TInv, RInv, NEW d \in Device, Subscribe(d) PROVE RInv'
<1> USE DEF TInv, TypeOK, Mail
<1>1. /\ UNCHANGED <<row, task, retained, client, restarts>>
      /\ inbox'[d].certs = inbox[d].certs \cup retained[d].certs
      /\ \A e \in Device : e # d => inbox'[e] = inbox[e] /\ link'[e] = link[e] /\ mishap'[e] = mishap[e]
      /\ mishap'[d] = mishap[d] \ {"store"}
  BY DEF Subscribe, hostVars
<1>2. \A e \in Device : Publishing(e) => Publishing(e)'
  BY <1>1 DEF Publishing, At
<1> SUFFICES ASSUME NEW e \in Device PROVE SentFits(e)' /\ RetainedFits(e)' /\ WaitingFits(e)'
  BY DEF RInv
<1>3. SentFits(e) /\ RetainedFits(e) /\ WaitingFits(e)
  BY DEF RInv
<1>4. CASE e = d
  <2>1. Spoiled(d)' <=> Spoiled(d)
    BY <1>1 DEF Spoiled
  <2>2. SentFits(d)'
    BY <1>1, <1>3, <1>4 DEF SentFits
  <2>3. RetainedFits(d)'
    BY <1>1, <1>2, <1>3, <1>4, <2>1 DEF RetainedFits, Claimed
  <2>4. WaitingFits(d)'
    BY <1>1, <1>2, <1>3, <1>4, <2>1 DEF RetainedFits, WaitingFits, Claimed
  <2> QED
    BY <1>4, <2>2, <2>3, <2>4
<1>5. CASE e # d
  <2>1. Quiet(e)
    BY <1>1, <1>5 DEF Quiet, Claimed
  <2> QED
    BY <1>1, <1>2, <1>3, <2>1, QuietKeeps
<1> QED
  BY <1>4, <1>5

\* A device that takes an older certificate reconnects, and is sent the latest again; one that
\* fails to is noted.
LEMMA TakeLatest ==
    ASSUME TInv, RInv, NEW d \in Device, TakeCert(d) PROVE RInv'
<1> USE DEF TInv, TypeOK, Row, Mail, Client
<1>0. PICK c \in inbox[d].certs :
          /\ inbox' = [inbox EXCEPT ![d].certs = @ \ {c}]
          /\ \/ /\ client' = [client EXCEPT ![d].cert = c]
                /\ IF c = client[d].cert \/ ~Up(d)
                     THEN UNCHANGED <<link, row>>
                     ELSE link' = [link EXCEPT ![d] = "down"] /\ Offline(d)
                /\ UNCHANGED mishap
             \/ /\ client' \in {client, [client EXCEPT ![d].cert = c]}
                /\ mishap' = [mishap EXCEPT ![d] = @ \cup {"store"}]
                /\ UNCHANGED <<link, row>>
  BY DEF TakeCert
<1>1. /\ UNCHANGED <<task, retained, restarts>>
      /\ \A e \in Device : row'[e].state = row[e].state /\ row'[e].cur = row[e].cur
  BY <1>0, OfflineKeeps DEF TakeCert, SameStage
<1>2. /\ inbox'[d].certs = inbox[d].certs \ {c} /\ client'[d].cert \in {c, client[d].cert}
      /\ client[d].phase = "paired" /\ client'[d].phase = "paired"
      /\ \A e \in Device : e # d => inbox'[e] = inbox[e] /\ client'[e] = client[e]
                                    /\ link'[e] = link[e] /\ mishap'[e] = mishap[e]
  BY <1>0 DEF TakeCert
<1>a. Spoiled(d)' <=> Spoiled(d)
  BY <1>0 DEF Spoiled
<1>3. ASSUME link'[d] = "subscribed", "store" \notin mishap'[d]
      PROVE  /\ link[d] = "subscribed" /\ "store" \notin mishap[d]
             /\ c = client[d].cert /\ client'[d].cert = c
  <2>1. "store" \in mishap'[d] \/ (client' = [client EXCEPT ![d].cert = c] /\ mishap' = mishap)
    BY <1>0
  <2>2. client'[d].cert = c /\ mishap' = mishap
    BY <1>3, <2>1
  <2>3. link' = link /\ (c = client[d].cert \/ ~Up(d))
    BY <1>0, <1>3, <2>1
  <2> QED
    BY <1>3, <2>2, <2>3 DEF Up
<1>4. \A e \in Device : Publishing(e) => Publishing(e)'
  BY <1>1 DEF Publishing, At
<1> SUFFICES ASSUME NEW e \in Device PROVE SentFits(e)' /\ RetainedFits(e)' /\ WaitingFits(e)'
  BY DEF RInv
<1>5. SentFits(e) /\ RetainedFits(e) /\ WaitingFits(e)
  BY DEF RInv
<1>6. CASE e = d
  <2>1. SentFits(d)'
    BY <1>1, <1>2, <1>5, <1>6 DEF SentFits
  <2>2. RetainedFits(d)'
    BY <1>1, <1>2, <1>a, <1>4, <1>5, <1>6 DEF RetainedFits, Claimed
  <2>3. WaitingFits(d)'
    BY <1>1, <1>2, <1>a, <1>3, <1>4, <1>5, <1>6 DEF WaitingFits, Claimed
  <2> QED
    BY <1>6, <2>1, <2>2, <2>3
<1>7. CASE e # d
  <2>1. Quiet(e)
    BY <1>1, <1>2, <1>7 DEF Quiet, Claimed
  <2> QED
    BY <1>1, <1>4, <1>5, <2>1, QuietKeeps
<1> QED
  BY <1>6, <1>7

\* Every step keeps what the latest certificate relies on.
LEMMA RotationInvariant == Spec => [](TInv /\ CInv /\ RInv)
<1>1. Init => RInv
  BY DEF Init, RInv, SentFits, RetainedFits, WaitingFits, Nothing, Claimed,
         At
<1>2. TInv /\ CInv /\ RInv /\ [Next]_vars => RInv'
  <2> SUFFICES ASSUME TInv, CInv, RInv, [Next]_vars PROVE RInv'
    OBVIOUS
  <2>1. ASSUME NEW w \in Worker,
               \/ \E d \in Device : Start(w, d)
               \/ ClaimSign(w) \/ DeprovisionWrite(w) \/ DeprovisionPublish(w)
               \/ SweepWrite(w) \/ ExpireWrite(w)
        PROVE  RInv'
    <3>1. SamePublishers /\ \A e \in Device : Quiet(e)
      BY <2>1, OthersPublish, QuietCalls
    <3>2. restarts' = restarts
      BY <2>1 DEF Start, ClaimRead, DeprovisionRead, RotateRead, SweepRead, ExpireRead, ClaimSign,
                  DeprovisionWrite, DeprovisionPublish, SweepWrite, ExpireWrite
    <3> QED
      BY <3>1, <3>2, AllQuiet
  <2>2. ASSUME NEW d \in Device,
               \/ Pairing(d) \/ AuthRead(d) \/ AuthOnline(d) \/ AuthRevoke(d)
               \/ Disconnect(d) \/ Leave(d) \/ Acknowledge(d)
        PROVE  RInv'
    <3>1. restarts' = restarts /\ task' = task
      BY <2>2 DEF Pairing, Pair, Authenticate, GiveUp, Lapse, AuthRead, AuthOnline, AuthRevoke,
                  Disconnect, Drop, CloseStale, Leave, Acknowledge, AckRead, AckWrite, hostVars
    <3>2. SamePublishers
      BY <3>1 DEF SamePublishers
    <3> QED
      BY <2>2, <3>1, <3>2, QuietSteps, AllQuiet
  <2>3. CASE Restart
    BY <2>3 DEF Restart, TInv, TypeOK, Nothing, At, RInv, SentFits,
                RetainedFits, WaitingFits
  <2>4. CASE UNCHANGED vars
    BY <2>4, AllQuiet DEF vars, SamePublishers, Quiet, Claimed, Spoiled
  <2> QED
    BY <2>1, <2>2, <2>3, <2>4, ClaimLatest, RotateLatest, PublishLatest, SubscribeLatest, TakeLatest
    DEF Next, Proceed, Admit, Handle, TakeDeprovision, SelfDeprovision
<1> QED
  BY <1>1, <1>2, ClaimInvariant, PTL DEF Spec

\* A device whose certificate is not the latest one has the latest one on its way, until the host
\* restarts and but for what the property excepts (RotateCredentials, rotateDevice).
THEOREM LatestArrives == Spec => []LatestCertOnItsWay
<1>1. RInv => LatestCertOnItsWay
  BY DEF RInv, RetainedFits, WaitingFits, LatestCertOnItsWay, Claimed, Spoiled
<1> QED
  BY <1>1, RotationInvariant, PTL
=============================================================================
