-------------------------- MODULE PublicationProofs --------------------------
(***************************************************************************)
(* Proofs about Publication, for any registrations, callbacks, number of   *)
(* sessions and events, and messages under way; and about Throttle, which  *)
(* limits its reports, for any limits and settings of the clock.           *)
(***************************************************************************)
EXTENDS Publication, Throttle, SequenceTheorems, FiniteSetTheorems, TLAPS

Every == Callback \cup {Api}

-----------------------------------------------------------------------------
(* The inductive invariants *)

\* Before the first session there is nothing; messages and callbacks are of sessions there
\* have been; what a client keeps is registrations, and while it does nothing is under way.
LinkFits ==
    /\ session = 0 => /\ state = "DISCONNECTED" /\ registration = None /\ mqttClient = "nil"
                      /\ \A p \in Every : process[p].pc = "none"
    /\ mqttClient = "down" => wire = <<>>
    /\ Len(unsent) <= MaxWire
    /\ \A i \in DOMAIN wire : wire[i].session <= session
    /\ \A i \in DOMAIN unsent : unsent[i].session <= session /\ unsent[i].registration # None

\* What a process has read is a registration, and of the session that its call or its
\* callback is for, if that is still the one there is.
HolderFits ==
    /\ \A p \in Every :
          /\ process[p].session <= session
          /\ process[p].pc = "publish" =>
                process[p].data.registration # None /\ process[p].data.session <= session
    /\ \A p \in Callback :
          /\ process[p].pc \in {"report", "publish"} => process[p].next = "delivered"
          /\ process[p].pc = "publish" /\ process[p].session = session =>
                process[p].data.session = session
    /\ process[Api].pc \in {"report", "publish"} => process[Api].next \in {None, "status"}
    /\ process[Api].pc = "publish" => process[Api].data.session = session

TInv == TypeOK /\ LinkFits /\ HolderFits

\* A process is about to publish the registration of the session.
Carries(p) ==
    \/ process[p].pc \in {"begin", "store", "report"}
    \/ process[p].pc = "publish" /\ process[p].data.registration = registration

Coming == \E p \in Every : Carries(p)

\* The last registration that the host gets, of those under way, is that of the session.
Told ==
    \/ \E i \in DOMAIN wire :
          /\ wire[i].registration = registration
          /\ \A j \in DOMAIN wire : j > i => wire[j].registration = None
    \/ stored = registration /\ \A i \in DOMAIN wire : wire[i].registration = None

ToldFits ==
    mqttClient = "up" /\ state = "CONNECTED" /\ registration # None /\ ~overtaken
        => Coming \/ Told

\* The host has, or will have, a registration of the session.
Known ==
    \/ heard = session
    \/ \E i \in DOMAIN wire : wire[i].registration # None /\ wire[i].session = session
    \/ \E i \in DOMAIN unsent : unsent[i].session = session

\* Somebody takes the registration of the session for delivered.
Takes ==
    \/ regDelivered
    \/ process[Api].pc = "status"
    \/ \E p \in Callback : process[p].pc = "delivered" /\ process[p].session = session

\* Whoever takes the registration for delivered has published it.
DeliveryFits == mqttClient # "nil" /\ ~stale /\ Takes => Known

-----------------------------------------------------------------------------
(* What a step makes of the processes *)

\* Only the process p has moved.
Moved(p) ==
    /\ process' \in [Every -> Process]
    /\ \A q \in Every : q # p => process'[q] = process[q]

LEMMA IdleProcess == Idle \in Process
BY BoundAssumption DEF Idle, Process

\* The fields of a process after a step.
Holds(p, pc, next, sess, data) ==
    /\ process'[p].pc = pc /\ process'[p].next = next
    /\ process'[p].session = sess /\ process'[p].data = data

LEMMA Moves ==
    ASSUME TypeOK, NEW p \in Every, NEW x \in Process, process' = [process EXCEPT ![p] = x]
    PROVE  Moved(p) /\ process'[p] = x
BY DEF TypeOK, Moved, Every

LEMMA StopMoves ==
    ASSUME TypeOK, NEW p \in Every, process' = Stop(p)
    PROVE  Moved(p) /\ process'[p] = Idle
BY IdleProcess, Moves DEF Stop

LEMMA IdleMoves ==
    ASSUME TypeOK, NEW p \in Every, process' = Stop(p)
    PROVE  Moved(p) /\ Holds(p, "none", None, 0, None)
BY StopMoves DEF Idle, Holds

LEMMA SpawnMoves ==
    ASSUME TypeOK, NEW n \in 0 .. MaxSessions, Spawn(n)
    PROVE  \E p \in Callback :
              process[p].pc = "none" /\ Moved(p) /\ Holds(p, "begin", None, n, None)
<1> DEFINE x == [Idle EXCEPT !.pc = "begin", !.session = n]
           free == {p \in Callback : process[p].pc = "none"}
           k == CHOOSE p \in free : TRUE
<1>1. k \in free /\ process' = [process EXCEPT ![k] = x]
  BY DEF Spawn
<1>2. x \in Process /\ x.pc = "begin" /\ x.next = None /\ x.session = n /\ x.data = None
  BY DEF Process, Idle
<1> HIDE DEF x, k
<1>3. Moved(k) /\ process'[k] = x
  BY <1>1, <1>2, Moves DEF Every
<1> QED
  BY <1>1, <1>2, <1>3 DEF Holds

LEMMA OnConnectMoves ==
    ASSUME TypeOK, NEW p \in Every, OnConnect(p)
    PROVE  Moved(p) /\ Holds(p, "report", "delivered", process[p].session, process[p].data)
<1> DEFINE x == [process[p] EXCEPT !.pc = "report", !.next = "delivered"]
<1>1. process[p] \in Process
  BY DEF TypeOK, Every
<1>2. /\ x \in Process /\ x.pc = "report" /\ x.next = "delivered"
      /\ x.session = process[p].session /\ x.data = process[p].data
  BY <1>1 DEF Process
<1>3. process' = [process EXCEPT ![p] = x]
  BY DEF OnConnect, TypeOK
<1> HIDE DEF x
<1> QED
  BY <1>2, <1>3, Moves DEF Holds

LEMMA RegisterMoves ==
    ASSUME TypeOK, NEW r \in DeviceRegistration, Register(r)
    PROVE  Moved(Api) /\ Holds(Api, "store", None, 0, r)
<1> DEFINE x == [Idle EXCEPT !.pc = "store", !.data = r]
<1>1. x \in Process
  BY IdleProcess DEF Process
<1>3. x.pc = "store" /\ x.next = None /\ x.session = 0 /\ x.data = r
  BY DEF Idle
<1>2. process' = [process EXCEPT ![Api] = x]
  BY DEF Register
<1> HIDE DEF x
<1> QED
  BY <1>1, <1>2, <1>3, Moves DEF Every, Holds

LEMMA StoreMoves ==
    ASSUME TypeOK, Store
    PROVE  Moved(Api) /\ Holds(Api, "report", None, 0, None)
<1> DEFINE x == [Idle EXCEPT !.pc = "report"]
<1>1. x \in Process /\ x.pc = "report" /\ x.next = None /\ x.session = 0 /\ x.data = None
  BY BoundAssumption DEF Process, Idle
<1>2. process' = [process EXCEPT ![Api] = x]
  BY DEF Store
<1> HIDE DEF x
<1> QED
  BY <1>1, <1>2, Moves DEF Every, Holds

LEMMA ReportStatusMoves ==
    ASSUME TypeOK, ReportStatus
    PROVE  /\ Moved(Api)
           /\ \/ regDelivered /\ Holds(Api, "status", "status", 0, None)
              \/ ~regDelivered /\ Holds(Api, "report", "status", 0, None)
<1> DEFINE pc == IF regDelivered THEN "status" ELSE "report"
           x == [Idle EXCEPT !.next = "status", !.pc = pc]
<1>1. process' = [process EXCEPT ![Api] = x]
  BY DEF ReportStatus
<1>2. pc \in {"status", "report"}
  OBVIOUS
<1> HIDE DEF pc
<1>3. x \in Process
  BY <1>2, IdleProcess DEF Process
<1>4. x.pc = pc /\ x.next = "status" /\ x.session = 0 /\ x.data = None
  BY DEF Idle
<1> HIDE DEF x
<1>5. Moved(Api) /\ process'[Api] = x
  BY <1>1, <1>3, Moves DEF Every
<1> USE DEF pc
<1> QED
  BY <1>4, <1>5 DEF Holds

LEMMA ReturnMoves ==
    ASSUME TypeOK, NEW p \in Every, process' = Return(p)
    PROVE  /\ Moved(p)
           /\ \/ process[p].next = None /\ Holds(p, "none", None, 0, None)
              \/ /\ process[p].next # None
                 /\ Holds(p, process[p].next, process[p].next, process[p].session, None)
<1>1. CASE process[p].next = None
  BY <1>1, IdleMoves DEF Return
<1>2. CASE process[p].next # None
  <2> DEFINE x == [process[p] EXCEPT !.pc = process[p].next, !.data = None]
  <2>1. process[p] \in Process
    BY DEF TypeOK, Every
  <2>2. /\ x \in Process /\ x.pc = process[p].next /\ x.next = process[p].next
        /\ x.session = process[p].session /\ x.data = None
    BY <1>2, <2>1 DEF Process
  <2>3. process' = [process EXCEPT ![p] = x]
    BY <1>2 DEF Return, TypeOK
  <2> HIDE DEF x
  <2> QED
    BY <1>2, <2>2, <2>3, Moves DEF Holds
<1> QED
  BY <1>1, <1>2

LEMMA ReadMoves ==
    ASSUME TypeOK, LinkFits, NEW p \in Every, ReportRegistration(p),
           state = "CONNECTED", registration # None
    PROVE  /\ Moved(p)
           /\ Holds(p, "publish", process[p].next, process[p].session,
                    [registration |-> registration, session |-> session])
           /\ [registration |-> registration, session |-> session] \in Message
<1> DEFINE m == [registration |-> registration, session |-> session]
           x == [process[p] EXCEPT !.pc = "publish", !.data = m]
<1>1. process[p] \in Process
  BY DEF TypeOK, Every
<1>2. session \in 1 .. MaxSessions
  BY BoundAssumption DEF TypeOK, LinkFits
<1>3. m \in Message
  BY <1>2 DEF TypeOK, Message
<1>4. process' = [process EXCEPT ![p] = x]
  BY DEF ReportRegistration, TypeOK
<1> HIDE DEF m
<1>5. /\ x \in Process /\ x.pc = "publish" /\ x.next = process[p].next
      /\ x.session = process[p].session /\ x.data = m
  BY <1>1, <1>3 DEF Process
<1> HIDE DEF x
<1>6. Moved(p) /\ process'[p] = x
  BY <1>4, <1>5, Moves
<1> USE DEF m
<1> QED
  BY <1>3, <1>5, <1>6 DEF Holds

-----------------------------------------------------------------------------
(* What a step makes of the messages *)

\* t is s with m at its end.
Adds(s, t, m) ==
    /\ t \in Seq(Message) /\ Len(t) = Len(s) + 1 /\ DOMAIN t = 1 .. Len(t)
    /\ \A i \in 1 .. Len(s) : t[i] = s[i]
    /\ t[Len(s) + 1] = m

LEMMA Appends ==
    ASSUME NEW s \in Seq(Message), NEW m \in Message
    PROVE  Adds(s, Append(s, m), m)
BY AppendProperties, LenProperties DEF Adds

LEMMA Lengths ==
    ASSUME TypeOK
    PROVE  /\ Len(wire) \in Nat /\ DOMAIN wire = 1 .. Len(wire)
           /\ Len(unsent) \in Nat /\ DOMAIN unsent = 1 .. Len(unsent)
           /\ \A i \in DOMAIN wire : wire[i] \in Message
           /\ \A i \in DOMAIN unsent : unsent[i] \in Message
BY LenProperties, ElementOfSeq DEF TypeOK

LEMMA TakeAdds ==
    ASSUME TypeOK, LinkFits, NEW m \in Message, mqttClient # "nil", Take(m)
    PROVE  \/ /\ mqttClient = "up" /\ Len(wire) < MaxWire
              /\ Adds(wire, wire', m) /\ unsent' = unsent
           \/ /\ mqttClient = "down" /\ m.registration # None /\ Len(unsent) < MaxWire
              /\ Adds(unsent, unsent', m) /\ wire' = wire
           \/ mqttClient = "down" /\ m.registration = None /\ wire' = wire /\ unsent' = unsent
<1>1. CASE mqttClient = "up"
  <2>1. Len(wire) < MaxWire /\ wire' = Append(wire, m) /\ unsent' = unsent
    BY <1>1 DEF Take
  <2> QED
    BY <1>1, <2>1, Appends DEF TypeOK
<1>2. CASE mqttClient = "down" /\ m.registration # None
  <2>1. Len(unsent) < MaxWire /\ unsent' = Append(unsent, m) /\ wire' = wire
    BY <1>2 DEF Take
  <2> QED
    BY <1>2, <2>1, Appends DEF TypeOK
<1>3. CASE mqttClient = "down" /\ m.registration = None
  BY <1>3 DEF Take
<1> QED
  BY <1>1, <1>2, <1>3 DEF TypeOK

\* An enumeration of a set of places in their order reaches all of them.
LEMMA Enumerates ==
    ASSUME NEW len \in Nat, NEW K, K \subseteq 1 .. len, NEW place \in [1 .. Cardinality(K) -> K],
           \A i, j \in DOMAIN place : i < j => place[i] < place[j]
    PROVE  /\ Cardinality(K) \in Nat /\ Cardinality(K) <= len
           /\ \A k \in K : \E i \in 1 .. Cardinality(K) : place[i] = k
<1> DEFINE n == Cardinality(K)
<1>1. IsFiniteSet(1 .. len) /\ Cardinality(1 .. len) = len
  <2>1. IsFiniteSet(1 .. len) /\ Cardinality(1 .. len) = IF 1 > len THEN 0 ELSE len - 1 + 1
    BY FS_Interval
  <2> QED
    BY <2>1
<1>2. IsFiniteSet(K) /\ n <= len /\ n \in Nat
  <2>1. K \in SUBSET (1 .. len)
    OBVIOUS
  <2>2. IsFiniteSet(K) /\ Cardinality(K) <= Cardinality(1 .. len)
    <3> DEFINE S == 1 .. len
    <3>1. IsFiniteSet(S) /\ K \in SUBSET S
      BY <1>1, <2>1
    <3> HIDE DEF S
    <3>2. IsFiniteSet(K) /\ Cardinality(K) <= Cardinality(S)
      BY <3>1, FS_Subset
    <3> QED
      BY <3>2 DEF S
  <2>3. n \in Nat
    BY <2>2, FS_CardinalityType
  <2> QED
    BY <1>1, <2>2, <2>3
<1>3. IsFiniteSet(1 .. n) /\ Cardinality(1 .. n) = n
  <2> HIDE DEF n
  <2>1. IsFiniteSet(1 .. n) /\ Cardinality(1 .. n) = IF 1 > n THEN 0 ELSE n - 1 + 1
    BY <1>2, FS_Interval
  <2> QED
    BY <1>2, <2>1
<1>4. place \in [1 .. n -> K] /\ \A k \in K : k \in Nat
  <2>1. \A k \in K : k \in 1 .. len
    OBVIOUS
  <2>2. \A k \in 1 .. len : k \in Nat
    OBVIOUS
  <2> QED
    BY <2>1, <2>2, Zenon
<1> HIDE DEF n
<1>5. ASSUME NEW i \in 1 .. n, NEW j \in 1 .. n, i < j PROVE place[i] # place[j]
  <2>1. place[i] \in K /\ place[j] \in K
    BY <1>4
  <2>2. place[i] \in Nat /\ place[j] \in Nat
    BY <1>4, <2>1, Zenon
  <2>3. DOMAIN place = 1 .. n
    BY <1>4
  <2>4. place[i] < place[j]
    BY <1>5, <2>3
  <2> QED
    BY <2>2, <2>4
<1>6. place \in Injection(1 .. n, K)
  <2>1. \A i, j \in 1 .. n : place[i] = place[j] => i = j
    BY <1>2, <1>5
  <2> QED
    BY <1>4, <2>1 DEF Injection, IsInjective
<1>7. place \in Surjection(1 .. n, K)
  BY <1>2, <1>3, <1>6, FS_Injection DEF n
<1> QED
  BY <1>2, <1>7 DEF Surjection, n

\* What is left of a sequence without its head.
LEMMA Shifts ==
    ASSUME NEW s \in Seq(Message), s # <<>>
    PROVE  /\ Tail(s) \in Seq(Message) /\ Len(Tail(s)) = Len(s) - 1
           /\ DOMAIN Tail(s) = 1 .. Len(Tail(s)) /\ Len(Tail(s)) \in Nat
           /\ \A i \in 1 .. Len(Tail(s)) : Tail(s)[i] = s[i + 1]
<1>1. /\ Tail(s) \in Seq(Message) /\ Len(Tail(s)) = Len(s) - 1
      /\ \A i \in 1 .. Len(Tail(s)) : Tail(s)[i] = s[i + 1]
  BY HeadTailProperties
<1>2. DOMAIN Tail(s) = 1 .. Len(Tail(s)) /\ Len(Tail(s)) \in Nat
  BY <1>1, LenProperties
<1> QED
  BY <1>1, <1>2

\* The client keeps the registrations under way, and nothing else.
LEMMA LoseKeeps ==
    ASSUME TypeOK, Lose
    PROVE  /\ unsent' \in Seq(Message) /\ Len(unsent') <= Len(wire)
           /\ DOMAIN unsent' = 1 .. Len(unsent')
           /\ \A i \in DOMAIN unsent' : \E k \in Resent : unsent'[i] = wire[k]
           /\ \A k \in Resent : \E i \in DOMAIN unsent' : unsent'[i] = wire[k]
<1> DEFINE n == Cardinality(Resent)
<1>1. PICK place \in [1 .. n -> Resent] :
          /\ \A i, j \in DOMAIN place : i < j => place[i] < place[j]
          /\ unsent' = [i \in DOMAIN place |-> wire[place[i]]]
  BY DEF Lose
<1>2. Resent \subseteq 1 .. Len(wire) /\ Len(wire) \in Nat
  BY Lengths DEF Resent
<1>3. n \in Nat /\ n <= Len(wire) /\ \A k \in Resent : \E i \in 1 .. n : place[i] = k
  BY <1>1, <1>2, Enumerates
<1> HIDE DEF n
<1>4. \A i \in 1 .. n : place[i] \in Resent /\ wire[place[i]] \in Message
  BY <1>1, Lengths DEF Resent
<1>5. unsent' = [i \in 1 .. n |-> wire[place[i]]]
  BY <1>1
<1>6. unsent' \in Seq(Message) /\ Len(unsent') = n /\ DOMAIN unsent' = 1 .. n
  <2>1. unsent' \in [1 .. n -> Message]
    BY <1>4, <1>5
  <2>2. unsent' \in Seq(Message)
    BY <1>3, <2>1, SeqDef
  <2> QED
    BY <1>3, <1>5, <2>2, LenProperties
<1> QED
  BY <1>3, <1>4, <1>5, <1>6

-----------------------------------------------------------------------------
(* Types *)

\* What a process may hold.
ProcessFits(p) ==
    /\ process[p].pc = "publish" => process[p].data \in Message
    /\ process[p].pc = "store" => process[p].data \in DeviceRegistration
    /\ process[p].pc \in IF p = Api THEN {"none", "store", "report", "publish", "status"}
                         ELSE {"none", "begin", "report", "publish", "delivered"}

LEMMA ProcessType ==
    ASSUME TypeOK, NEW p \in Every
    PROVE  process[p] \in Process /\ ProcessFits(p)
BY DEF TypeOK, ProcessFits, Every

\* What the invariants say of the process that has moved.
HolderOf(p) ==
    /\ process[p].session <= session
    /\ process[p].pc = "publish" =>
          process[p].data.registration # None /\ process[p].data.session <= session
    /\ p # Api => /\ process[p].pc \in {"report", "publish"} => process[p].next = "delivered"
                  /\ process[p].pc = "publish" /\ process[p].session = session =>
                        process[p].data.session = session
    /\ p = Api => /\ process[p].pc \in {"report", "publish"} => process[p].next \in {None, "status"}
                  /\ process[p].pc = "publish" => process[p].data.session = session

LEMMA HoldersFit ==
    /\ HolderFits <=> \A p \in Every : HolderOf(p)
    /\ HolderFits' <=> \A p \in Every : HolderOf(p)'
BY NameAssumption DEF HolderFits, HolderOf, Every

\* A step that moves one process within the session.
LEMMA OthersFit ==
    ASSUME TInv, session' = session, NEW p \in Every, Moved(p), ProcessFits(p)', HolderOf(p)'
    PROVE  /\ process' \in [Every -> Process]
           /\ \A q \in Every : ProcessFits(q)' /\ HolderOf(q)'
<1>1. ASSUME NEW q \in Every, q # p PROVE ProcessFits(q)' /\ HolderOf(q)'
  <2>1. process'[q] = process[q] /\ ProcessFits(q) /\ HolderOf(q)
    BY <1>1, ProcessType, HoldersFit DEF Moved, TInv
  <2> QED
    BY <2>1 DEF ProcessFits, HolderOf
<1> QED
  BY <1>1 DEF Moved

\* What is left of the types when the processes have theirs.
RestFits ==
    /\ state \in {"DISCONNECTED", "CONNECTING", "CONNECTED", "RECONNECTING"}
    /\ registration \in DeviceRegistration \cup {None}
    /\ mqttClient \in {"nil", "up", "down"}
    /\ unsent \in Seq(Message) /\ wire \in Seq(Message) /\ Len(wire) <= MaxWire
    /\ unsent # <<>> => mqttClient = "down"
    /\ stored \in DeviceRegistration \cup {None} /\ heard \in 0 .. session
    /\ regDelivered \in BOOLEAN /\ losing \in BOOLEAN /\ overtaken \in BOOLEAN /\ stale \in BOOLEAN
    /\ session \in 0 .. MaxSessions /\ events \in 0 .. MaxEvents

LEMMA TypesAre ==
    /\ TypeOK <=> RestFits /\ process \in [Every -> Process] /\ \A p \in Every : ProcessFits(p)
    /\ TypeOK' <=> RestFits' /\ process' \in [Every -> Process] /\ \A p \in Every : ProcessFits(p)'
BY DEF TypeOK, RestFits, ProcessFits, Every, Process, Message

LEMMA Typed ==
    ASSUME RestFits', LinkFits', process' \in [Every -> Process],
           \A p \in Every : ProcessFits(p)' /\ HolderOf(p)'
    PROVE  TInv'
BY TypesAre, HoldersFit DEF TInv

\* A step that moves no process.
LEMMA ProcessesStay ==
    ASSUME TInv, session' = session, process' = process, RestFits', LinkFits'
    PROVE  TInv'
<1>1. process' \in [Every -> Process] /\ \A p \in Every : ProcessFits(p) /\ HolderOf(p)
  BY TypesAre, HoldersFit DEF TInv
<1>2. \A p \in Every : ProcessFits(p)' /\ HolderOf(p)'
  BY <1>1 DEF ProcessFits, HolderOf
<1> QED
  BY <1>1, <1>2, Typed

LEMMA OneMoves ==
    ASSUME TInv, session' = session, NEW p \in Every, Moved(p), ProcessFits(p)', HolderOf(p)',
           RestFits', LinkFits'
    PROVE  TInv'
BY OthersFit, Typed

\* A new session has one callback, and what the others hold is of earlier ones.
LEMMA ConnectTypes ==
    ASSUME TInv, NEW r \in DeviceRegistration, Connect(r)
    PROVE  TInv'
<1>1. RestFits /\ session \in Nat /\ MaxSessions \in Nat /\ heard \in Nat
  BY TypesAre, BoundAssumption DEF TInv, RestFits
<1>2. session + 1 \in 0 .. MaxSessions /\ Spawn(session + 1) /\ session' = session + 1
  BY <1>1 DEF Connect
<1>3. PICK p \in Callback :
          process[p].pc = "none" /\ Moved(p) /\ Holds(p, "begin", None, session + 1, None)
  BY <1>2, SpawnMoves DEF TInv
<1>4. p \in Every /\ p # Api
  BY NameAssumption DEF Every
<1>5. ProcessFits(p)' /\ HolderOf(p)'
  BY <1>1, <1>2, <1>3, <1>4 DEF Holds, ProcessFits, HolderOf
<1>6. ASSUME NEW q \in Every, q # p PROVE ProcessFits(q)' /\ HolderOf(q)'
  <2>1. process'[q] = process[q] /\ ProcessFits(q) /\ HolderOf(q) /\ process[q] \in Process
    BY <1>3, <1>6, ProcessType, HoldersFit DEF Moved, TInv
  <2>2. process[q].session \in Nat
    BY <2>1 DEF Process
  <2>3. process[q].pc = "publish" => process[q].data.session \in Nat
    BY <2>1 DEF ProcessFits, Message
  <2>4. process[Api].pc = "none"
    BY DEF Connect
  <2> QED
    BY <1>1, <1>2, <2>1, <2>2, <2>3, <2>4 DEF ProcessFits, HolderOf
<1>7. RestFits'
  <2>1. heard' \in 0 .. session' /\ session' \in 0 .. MaxSessions
    BY <1>1, <1>2 DEF RestFits, Connect
  <2>2. unsent' = <<>>
    BY <1>1 DEF RestFits, Connect, linkVars
  <2>3. /\ state' = "CONNECTING" /\ mqttClient' = "up" /\ registration' \in DeviceRegistration
        /\ unsent' = unsent /\ wire' = wire /\ stored' = stored /\ losing' = losing
        /\ events' = events /\ overtaken' = overtaken /\ regDelivered' = FALSE /\ stale' = FALSE
    BY DEF Connect, linkVars
  <2> QED
    BY <1>1, <2>1, <2>2, <2>3 DEF RestFits
<1>8. LinkFits'
  <2>1. \A i \in DOMAIN wire : wire[i].session <= session + 1
    BY <1>1, Lengths DEF TInv, LinkFits, Message
  <2>2. \A i \in DOMAIN unsent : unsent[i].session <= session + 1 /\ unsent[i].registration # None
    BY <1>1, Lengths DEF TInv, LinkFits, Message
  <2> QED
    BY <1>1, <1>2, <2>1, <2>2 DEF LinkFits, Connect, linkVars, TInv
<1> QED
  BY <1>3, <1>5, <1>6, <1>7, <1>8, Typed DEF Moved

LEMMA ResetTypes ==
    ASSUME TInv, Disconnect \/ Deprovision
    PROVE  TInv'
<1>1. RestFits /\ LinkFits
  BY TypesAre DEF TInv
<1>2. <<>> \in Seq(Message) /\ Len(<<>>) = 0 /\ DOMAIN <<>> = {} /\ MaxWire \in Nat
  BY EmptySeq, BoundAssumption
<1>3. RestFits'
  <2>1. /\ state' = "DISCONNECTED" /\ mqttClient' = "nil" /\ registration' = None
        /\ unsent' = <<>> /\ wire' \in {<<>>, wire} /\ stored' \in {None, stored}
        /\ losing' = losing /\ regDelivered' = FALSE /\ overtaken' = overtaken /\ stale' = stale
        /\ events' = events /\ heard' = heard /\ session' = session
    BY DEF Disconnect, Deprovision, Reset
  <2>2. wire' \in Seq(Message) /\ Len(wire') <= MaxWire
    <3>1. CASE wire' = wire
      BY <1>1, <3>1 DEF RestFits
    <3>2. CASE wire' = <<>>
      BY <1>2, <3>2
    <3> QED
      BY <2>1, <3>1, <3>2
  <2>3. stored' \in DeviceRegistration \cup {None}
    BY <1>1, <2>1 DEF RestFits
  <2>4. heard' \in 0 .. session' /\ session' \in 0 .. MaxSessions /\ events' \in 0 .. MaxEvents
    BY <1>1, <2>1 DEF RestFits
  <2>5. /\ losing' \in BOOLEAN /\ regDelivered' \in BOOLEAN
        /\ overtaken' \in BOOLEAN /\ stale' \in BOOLEAN
    BY <1>1, <2>1 DEF RestFits
  <2> QED
    BY <1>2, <2>1, <2>2, <2>3, <2>4, <2>5 DEF RestFits
<1>4. LinkFits'
  BY <1>1, <1>2 DEF LinkFits, Disconnect, Deprovision, Reset
<1> QED
  BY <1>3, <1>4, ProcessesStay DEF Disconnect, Deprovision, Reset

LEMMA LoseTypes ==
    ASSUME TInv, Lose
    PROVE  TInv'
<1>1. RestFits /\ LinkFits
  BY TypesAre DEF TInv
<1>2. <<>> \in Seq(Message) /\ Len(<<>>) = 0 /\ DOMAIN <<>> = {} /\ MaxWire \in Nat
  BY EmptySeq, BoundAssumption
<1>3. /\ unsent' \in Seq(Message) /\ Len(unsent') <= Len(wire)
      /\ \A i \in DOMAIN unsent' : \E k \in Resent : unsent'[i] = wire[k]
  BY LoseKeeps DEF TInv
<1>4. RestFits'
  BY <1>1, <1>2, <1>3, BoundAssumption DEF RestFits, Lose
<1>5. Len(unsent') <= MaxWire
  <2>1. Len(unsent') \in Nat /\ Len(wire) \in Nat
    BY <1>3, Lengths, LenProperties DEF TInv
  <2> QED
    BY <1>1, <1>2, <1>3, <2>1 DEF RestFits
<1>6. \A i \in DOMAIN unsent' : unsent'[i].session <= session /\ unsent'[i].registration # None
  BY <1>1, <1>3 DEF LinkFits, Resent
<1>7. LinkFits'
  BY <1>1, <1>2, <1>5, <1>6 DEF LinkFits, Lose
<1> QED
  BY <1>4, <1>7, ProcessesStay DEF Lose

LEMMA OnDisconnectTypes ==
    ASSUME TInv, OnDisconnect
    PROVE  TInv'
<1>1. RestFits /\ LinkFits
  BY TypesAre DEF TInv
<1>2. RestFits'
  BY <1>1 DEF RestFits, OnDisconnect
<1>3. LinkFits'
  BY <1>1 DEF LinkFits, OnDisconnect
<1> QED
  BY <1>2, <1>3, ProcessesStay DEF OnDisconnect

LEMMA HandleTypes ==
    ASSUME TInv, Handle
    PROVE  TInv'
<1>1. RestFits /\ LinkFits /\ wire # <<>> /\ wire' = Tail(wire)
  BY TypesAre DEF TInv, Handle
<1>2. /\ wire' \in Seq(Message) /\ Len(wire') = Len(wire) - 1
      /\ DOMAIN wire' = 1 .. Len(wire') /\ Len(wire') \in Nat
      /\ \A i \in 1 .. Len(wire') : wire'[i] = wire[i + 1]
  BY <1>1, Shifts DEF RestFits
<1>3. Head(wire) = wire[1] /\ 1 \in DOMAIN wire /\ Len(wire) \in Nat /\ Head(wire) \in Message
  BY <1>1, HeadTailProperties, LenProperties, EmptySeq DEF RestFits
<1>4. RestFits'
  <2>1. heard' \in 0 .. session
    BY <1>1, <1>3 DEF RestFits, LinkFits, Handle, Message
  <2>2. stored' \in DeviceRegistration \cup {None}
    BY <1>1, <1>3 DEF RestFits, Handle, Message
  <2>3. Len(wire') <= MaxWire
    BY <1>1, <1>2, <1>3, BoundAssumption DEF RestFits
  <2> QED
    BY <1>1, <1>2, <2>1, <2>2, <2>3 DEF RestFits, Handle, sessionVars
<1>5. LinkFits'
  <2>1. mqttClient # "down"
    BY <1>1 DEF LinkFits
  <2>2. \A i \in DOMAIN wire' : i + 1 \in DOMAIN wire
    <3> DEFINE m == Len(wire)
               n == Len(wire')
    <3>1. n = m - 1 /\ m \in Nat /\ n \in Nat /\ DOMAIN wire' = 1 .. n /\ DOMAIN wire = 1 .. m
      BY <1>2, <1>3, Lengths DEF TInv
    <3> HIDE DEF m, n
    <3> QED
      BY <3>1
  <2>3. \A i \in DOMAIN wire' : wire'[i].session <= session
    BY <1>1, <1>2, <2>2 DEF LinkFits
  <2> QED
    BY <1>1, <2>1, <2>3 DEF LinkFits, Handle, sessionVars
<1> QED
  BY <1>4, <1>5, ProcessesStay DEF Handle, sessionVars

LEMMA ReconnectTypes ==
    ASSUME TInv, Reconnect
    PROVE  TInv'
<1>1. RestFits /\ LinkFits /\ session \in 0 .. MaxSessions
  BY TypesAre DEF TInv, RestFits
<1>2. <<>> \in Seq(Message) /\ Len(<<>>) = 0 /\ DOMAIN <<>> = {} /\ MaxWire \in Nat
  BY EmptySeq, BoundAssumption
<1>3. PICK p \in Callback :
          process[p].pc = "none" /\ Moved(p) /\ Holds(p, "begin", None, session, None)
  BY <1>1, SpawnMoves DEF TInv, Reconnect
<1>4. p \in Every /\ p # Api
  BY NameAssumption DEF Every
<1>5. ProcessFits(p)' /\ HolderOf(p)'
  BY <1>1, <1>3, <1>4, BoundAssumption DEF Holds, ProcessFits, HolderOf, Reconnect
<1>6. RestFits'
  BY <1>1, <1>2 DEF RestFits, LinkFits, Reconnect
<1>7. LinkFits'
  BY <1>1, <1>2 DEF LinkFits, Reconnect
<1> QED
  BY <1>3, <1>4, <1>5, <1>6, <1>7, OneMoves DEF Reconnect

\* Steps that change what one process holds and, of the rest, only flags.
LEMMA FlagTypes ==
    ASSUME TInv, NEW p \in Every, Moved(p), ProcessFits(p)', HolderOf(p)',
           UNCHANGED <<registration, mqttClient, session, linkVars, stored, heard>>,
           state' \in {state, "CONNECTED"}, events' \in 0 .. MaxEvents,
           regDelivered' \in BOOLEAN, overtaken' \in BOOLEAN, stale' \in BOOLEAN,
           session # 0
    PROVE  TInv'
<1>1. RestFits /\ LinkFits
  BY TypesAre DEF TInv
<1>2. /\ registration' = registration /\ mqttClient' = mqttClient /\ session' = session
      /\ unsent' = unsent /\ losing' = losing /\ wire' = wire /\ stored' = stored /\ heard' = heard
  BY DEF linkVars
<1>3. RestFits'
  BY <1>1, <1>2 DEF RestFits
<1>4. LinkFits'
  BY <1>1, <1>2 DEF LinkFits
<1> QED
  BY <1>2, <1>3, <1>4, OneMoves

\* A process that does something is of a session.
LEMMA SomeSession ==
    ASSUME TInv, \/ state = "CONNECTED"
                 \/ registration # None
                 \/ mqttClient # "nil"
                 \/ \E p \in Every : process[p].pc # "none"
    PROVE  session # 0 /\ session \in 1 .. MaxSessions
<1>1. session \in 0 .. MaxSessions /\ MaxSessions \in Nat
  BY BoundAssumption DEF TInv, TypeOK
<1>2. session # 0
  BY DEF TInv, LinkFits
<1> QED
  BY <1>1, <1>2

LEMMA OnConnectTypes ==
    ASSUME TInv, NEW p \in Every, p # Api, OnConnect(p)
    PROVE  TInv'
<1>1. Moved(p) /\ Holds(p, "report", "delivered", process[p].session, process[p].data)
  BY OnConnectMoves DEF TInv
<1>2. session # 0
  BY SomeSession DEF OnConnect
<1>3. ProcessFits(p)' /\ HolderOf(p)'
  BY <1>1, HoldersFit DEF Holds, ProcessFits, HolderOf, TInv, OnConnect
<1>4. RestFits
  BY TypesAre DEF TInv
<1> QED
  BY <1>1, <1>2, <1>3, <1>4, FlagTypes DEF OnConnect, RestFits

LEMMA DeliveredTypes ==
    ASSUME TInv, NEW p \in Every, p # Api, Delivered(p)
    PROVE  TInv'
<1>1. Moved(p) /\ Holds(p, "none", None, 0, None)
  BY IdleMoves DEF TInv, Delivered
<1>2. session # 0 /\ session \in 1 .. MaxSessions
  BY SomeSession DEF Delivered
<1>3. ProcessFits(p)' /\ HolderOf(p)'
  BY <1>1, <1>2, BoundAssumption DEF Holds, ProcessFits, HolderOf, Delivered
<1>4. RestFits /\ stale' \in BOOLEAN
  BY TypesAre DEF TInv, Delivered
<1> QED
  BY <1>1, <1>2, <1>3, <1>4, FlagTypes DEF Delivered, RestFits

LEMMA RegisterTypes ==
    ASSUME TInv, NEW r \in DeviceRegistration, Register(r)
    PROVE  TInv'
<1>1. Moved(Api) /\ Holds(Api, "store", None, 0, r) /\ Api \in Every
  BY RegisterMoves DEF TInv, Every
<1>2. session # 0 /\ session \in 1 .. MaxSessions /\ session' = session
  BY SomeSession DEF Register, sessionVars
<1>3. ProcessFits(Api)' /\ HolderOf(Api)'
  BY <1>1, <1>2, BoundAssumption DEF Holds, ProcessFits, HolderOf
<1>4. RestFits /\ events' \in 0 .. MaxEvents
  BY TypesAre, BoundAssumption DEF TInv, RestFits, Register
<1> QED
  BY <1>1, <1>2, <1>3, <1>4, FlagTypes DEF Register, RestFits, sessionVars

LEMMA StoreTypes ==
    ASSUME TInv, Store
    PROVE  TInv'
<1>1. Moved(Api) /\ Holds(Api, "report", None, 0, None) /\ Api \in Every
  BY StoreMoves DEF TInv, Every
<1>2. session # 0 /\ session \in 1 .. MaxSessions /\ session' = session
  BY <1>1, SomeSession DEF Store
<1>3. ProcessFits(Api)' /\ HolderOf(Api)'
  BY <1>1, <1>2, BoundAssumption DEF Holds, ProcessFits, HolderOf
<1>4. RestFits /\ LinkFits /\ registration' \in DeviceRegistration
  BY <1>1, TypesAre, ProcessType DEF TInv, Store, ProcessFits
<1>5. RestFits'
  BY <1>4 DEF RestFits, Store, linkVars
<1>6. LinkFits'
  BY <1>2, <1>4 DEF LinkFits, Store, linkVars
<1> QED
  BY <1>1, <1>2, <1>3, <1>5, <1>6, OneMoves

LEMMA ReportStatusTypes ==
    ASSUME TInv, ReportStatus
    PROVE  TInv'
<1>1. /\ Moved(Api) /\ Api \in Every
      /\ \/ Holds(Api, "status", "status", 0, None)
         \/ Holds(Api, "report", "status", 0, None)
  BY ReportStatusMoves DEF TInv, Every
<1>2. session # 0 /\ session \in 1 .. MaxSessions /\ session' = session
  BY SomeSession DEF ReportStatus, sessionVars
<1>3. ProcessFits(Api)' /\ HolderOf(Api)'
  BY <1>1, <1>2, BoundAssumption DEF Holds, ProcessFits, HolderOf
<1>4. RestFits /\ events' \in 0 .. MaxEvents
  BY TypesAre, BoundAssumption DEF TInv, RestFits, ReportStatus
<1> QED
  BY <1>1, <1>2, <1>3, <1>4, FlagTypes DEF ReportStatus, RestFits, sessionVars

LEMMA ReturnTypes ==
    ASSUME TInv, NEW p \in Every, process' = Return(p), process[p].pc \in {"report", "publish"},
           session' = session
    PROVE  Moved(p) /\ ProcessFits(p)' /\ HolderOf(p)'
<1>1. /\ Moved(p)
      /\ \/ Holds(p, "none", None, 0, None)
         \/ /\ process[p].next # None
            /\ Holds(p, process[p].next, process[p].next, process[p].session, None)
  BY ReturnMoves DEF TInv
<1>2. session \in 1 .. MaxSessions
  BY SomeSession
<1>3. IF p = Api THEN process[p].next \in {None, "status"} ELSE process[p].next = "delivered"
  BY HoldersFit DEF TInv, HolderOf
<1>4. process[p].session <= session
  BY HoldersFit DEF TInv, HolderOf
<1> QED
  BY <1>1, <1>2, <1>3, <1>4, BoundAssumption DEF Holds, ProcessFits, HolderOf

LEMMA ReportRegistrationTypes ==
    ASSUME TInv, NEW p \in Every, ReportRegistration(p)
    PROVE  TInv'
<1>1. /\ session # 0 /\ session \in 1 .. MaxSessions /\ session' = session
      /\ process[p].pc = "report"
  BY SomeSession DEF ReportRegistration, sessionVars
<1>2. RestFits
  BY TypesAre DEF TInv
<1>3. stale' \in BOOLEAN
  BY <1>2 DEF ReportRegistration, RestFits
<1>4. Moved(p) /\ ProcessFits(p)' /\ HolderOf(p)'
  <2>1. CASE state = "CONNECTED" /\ registration # None
    <3> DEFINE m == [registration |-> registration, session |-> session]
    <3>1. Moved(p) /\ Holds(p, "publish", process[p].next, process[p].session, m) /\ m \in Message
      BY <2>1, ReadMoves DEF TInv
    <3>2. m.registration # None /\ m.session = session
      BY <2>1
    <3> HIDE DEF m
    <3>3. HolderOf(p) /\ ProcessFits(p)
      BY HoldersFit, ProcessType DEF TInv
    <3> QED
      BY <1>1, <3>1, <3>2, <3>3, BoundAssumption DEF Holds, ProcessFits, HolderOf
  <2>2. CASE ~ (state = "CONNECTED" /\ registration # None)
    BY <1>1, <2>2, ReturnTypes DEF ReportRegistration
  <2> QED
    BY <2>1, <2>2
<1> QED
  BY <1>1, <1>2, <1>3, <1>4, FlagTypes DEF ReportRegistration, RestFits, sessionVars

\* A step that gives the client a message.
LEMMA TakeTypes ==
    ASSUME TInv, NEW m \in Message, mqttClient # "nil", Take(m), m.session <= session,
           NEW p \in Every, Moved(p), ProcessFits(p)', HolderOf(p)',
           UNCHANGED <<sessionVars, losing, stored, heard, events, stale>>, overtaken' \in BOOLEAN
    PROVE  TInv'
<1>1. RestFits /\ LinkFits /\ MaxWire \in Nat
  BY TypesAre, BoundAssumption DEF TInv
<1>2. session # 0
  BY SomeSession
<1>3. /\ registration' = registration /\ mqttClient' = mqttClient /\ session' = session
      /\ state' = state /\ regDelivered' = regDelivered /\ losing' = losing /\ stored' = stored
      /\ heard' = heard /\ events' = events /\ stale' = stale
  BY DEF sessionVars
<1>4. /\ Len(wire) \in Nat /\ Len(unsent) \in Nat
      /\ DOMAIN wire = 1 .. Len(wire) /\ DOMAIN unsent = 1 .. Len(unsent)
  BY Lengths DEF TInv
<1>5. CASE /\ mqttClient = "up" /\ Len(wire) < MaxWire
           /\ Adds(wire, wire', m) /\ unsent' = unsent
  <2>1. /\ wire' \in Seq(Message) /\ Len(wire') <= MaxWire
        /\ \A i \in DOMAIN wire' : wire'[i].session <= session
    BY <1>1, <1>4, <1>5 DEF Adds, LinkFits
  <2>2. RestFits'
    BY <1>1, <1>3, <1>5, <2>1 DEF RestFits
  <2>3. LinkFits'
    BY <1>1, <1>2, <1>3, <1>5, <2>1 DEF LinkFits
  <2> QED
    BY <1>3, <2>2, <2>3, OneMoves
<1>6. CASE /\ mqttClient = "down" /\ m.registration # None /\ Len(unsent) < MaxWire
           /\ Adds(unsent, unsent', m) /\ wire' = wire
  <2>1. /\ unsent' \in Seq(Message) /\ Len(unsent') <= MaxWire
        /\ \A i \in DOMAIN unsent' : unsent'[i].session <= session /\ unsent'[i].registration # None
    BY <1>1, <1>4, <1>6 DEF Adds, LinkFits
  <2>2. RestFits'
    BY <1>1, <1>3, <1>6, <2>1 DEF RestFits
  <2>3. LinkFits'
    BY <1>1, <1>2, <1>3, <1>6, <2>1 DEF LinkFits
  <2> QED
    BY <1>3, <2>2, <2>3, OneMoves
<1>7. CASE mqttClient = "down" /\ m.registration = None /\ wire' = wire /\ unsent' = unsent
  <2>1. RestFits' /\ LinkFits'
    BY <1>1, <1>2, <1>3, <1>7 DEF RestFits, LinkFits
  <2> QED
    BY <1>3, <2>1, OneMoves
<1> QED
  BY <1>5, <1>6, <1>7, TakeAdds DEF TInv

LEMMA PublishTypes ==
    ASSUME TInv, NEW p \in Every, Publish(p)
    PROVE  TInv'
<1>1. /\ process[p].pc = "publish" /\ mqttClient # "nil" /\ Take(process[p].data)
      /\ process' = Return(p) /\ overtaken' \in BOOLEAN /\ session' = session
  BY DEF Publish, sessionVars
<1>2. process[p].data \in Message /\ process[p].data.session <= session
  BY <1>1, ProcessType, HoldersFit DEF ProcessFits, HolderOf, TInv
<1>3. Moved(p) /\ ProcessFits(p)' /\ HolderOf(p)'
  BY <1>1, ReturnTypes
<1> QED
  BY <1>1, <1>2, <1>3, TakeTypes DEF Publish

LEMMA PublishStatusTypes ==
    ASSUME TInv, PublishStatus
    PROVE  TInv'
<1>1. Moved(Api) /\ Holds(Api, "none", None, 0, None) /\ Api \in Every
  BY IdleMoves DEF TInv, PublishStatus, Every
<1>2. session # 0 /\ session \in 1 .. MaxSessions /\ session' = session
  BY <1>1, SomeSession DEF PublishStatus, sessionVars
<1>3. ProcessFits(Api)' /\ HolderOf(Api)'
  BY <1>1, <1>2, BoundAssumption DEF Holds, ProcessFits, HolderOf
<1>4. RestFits
  BY TypesAre DEF TInv
<1>5. CASE mqttClient = "nil"
  BY <1>1, <1>2, <1>3, <1>4, <1>5, FlagTypes DEF PublishStatus, RestFits, sessionVars, linkVars
<1>6. CASE mqttClient # "nil"
  <2> DEFINE m == [registration |-> None, session |-> session]
  <2>1. m \in Message /\ m.session <= session
    BY <1>2 DEF Message
  <2>2. Take(m)
    BY <1>6 DEF PublishStatus
  <2> HIDE DEF m
  <2>3. UNCHANGED <<sessionVars, losing, stored, heard, events, stale>> /\ overtaken' \in BOOLEAN
    BY <1>4 DEF PublishStatus, RestFits
  <2> QED
    BY <1>1, <1>3, <1>6, <2>1, <2>2, <2>3, TakeTypes
<1> QED
  BY <1>5, <1>6

LEMMA PanicTypes ==
    ASSUME TInv, NEW p \in Every, Panic(p)
    PROVE  TInv'
<1>1. RestFits /\ LinkFits /\ session # 0 /\ session \in 1 .. MaxSessions
  BY TypesAre, SomeSession DEF TInv, Panic
<1>2. CASE p = Api
  <2>1. Moved(Api) /\ Holds(Api, "none", None, 0, None) /\ Api \in Every
    BY <1>2, IdleMoves DEF TInv, Panic, Every
  <2>2. session' = session
    BY <1>2 DEF Panic, sessionVars
  <2>3. ProcessFits(Api)' /\ HolderOf(Api)'
    BY <1>1, <2>1, <2>2, BoundAssumption DEF Holds, ProcessFits, HolderOf
  <2> QED
    BY <1>1, <1>2, <2>1, <2>2, <2>3, FlagTypes DEF Panic, RestFits, sessionVars, linkVars
<1>3. CASE p # Api
  <2>1. session' = session /\ process' = [q \in Every |-> Idle]
    BY <1>3 DEF Panic, Reset, TInv, TypeOK, Every
  <2>2. process' \in [Every -> Process] /\ \A q \in Every : process'[q] = Idle
    BY <2>1, IdleProcess
  <2>3. \A q \in Every : ProcessFits(q)' /\ HolderOf(q)'
    BY <1>1, <2>1, <2>2, BoundAssumption DEF Idle, ProcessFits, HolderOf
  <2>4. /\ state' = "DISCONNECTED" /\ mqttClient' = "nil" /\ registration' = None
        /\ unsent' = <<>> /\ wire' = wire /\ stored' = stored
        /\ losing' = FALSE /\ regDelivered' = FALSE /\ overtaken' = overtaken /\ stale' = stale
        /\ events' = events /\ heard' = heard
    BY <1>3 DEF Panic, Reset
  <2>5. <<>> \in Seq(Message) /\ Len(<<>>) = 0 /\ DOMAIN <<>> = {} /\ MaxWire \in Nat
    BY EmptySeq, BoundAssumption
  <2>6. RestFits'
    BY <1>1, <2>1, <2>4, <2>5 DEF RestFits
  <2>7. LinkFits'
    BY <1>1, <2>1, <2>4, <2>5 DEF LinkFits
  <2> QED
    BY <2>2, <2>3, <2>6, <2>7, Typed
<1> QED
  BY <1>2, <1>3

LEMMA TypeStep == TInv /\ [Next]_vars => TInv'
<1> SUFFICES ASSUME TInv, [Next]_vars PROVE TInv'
  OBVIOUS
<1>1. CASE UNCHANGED vars
  <2>1. UNCHANGED <<process, state, registration, mqttClient, regDelivered, session, unsent, losing,
                    wire, stored, heard, events, overtaken, stale>>
    BY <1>1 DEF vars, sessionVars, linkVars
  <2>2. RestFits' /\ LinkFits'
    BY <2>1, TypesAre DEF RestFits, LinkFits, TInv
  <2> QED
    BY <2>1, <2>2, ProcessesStay
<1>2. ASSUME NEW r \in DeviceRegistration, Connect(r) \/ Register(r) PROVE TInv'
  BY <1>2, ConnectTypes, RegisterTypes
<1>3. ASSUME NEW p \in Every, Run(p) PROVE TInv'
  BY <1>3, OnConnectTypes, DeliveredTypes, StoreTypes, PublishStatusTypes, ReportRegistrationTypes,
     PublishTypes, PanicTypes DEF Run
<1> QED
  BY <1>1, <1>2, <1>3, ReportStatusTypes, ResetTypes, LoseTypes, OnDisconnectTypes, ReconnectTypes,
     HandleTypes DEF Next, Every

-----------------------------------------------------------------------------
(* The registration of the session is told, or about to be *)

LEMMA CarriersStay ==
    ASSUME NEW p \in Every, Moved(p), ~Carries(p), Coming, registration' = registration
    PROVE  Coming'
BY DEF Coming, Carries, Moved

\* Messages of reports change nothing of what the host will have.
LEMMA ToldStays ==
    ASSUME TypeOK, Told, NEW m, Adds(wire, wire', m), m.registration = None,
           registration' = registration, registration # None, stored' = stored
    PROVE  Told'
<1> DEFINE n == Len(wire)
<1>1. n \in Nat /\ DOMAIN wire = 1 .. n
  BY Lengths
<1>2. /\ DOMAIN wire' = 1 .. n + 1 /\ wire'[n + 1].registration = None
      /\ \A i \in 1 .. n : wire'[i] = wire[i]
  BY DEF Adds
<1> HIDE DEF n
<1>3. CASE \E i \in DOMAIN wire :
              /\ wire[i].registration = registration
              /\ \A j \in DOMAIN wire : j > i => wire[j].registration = None
  <2>1. PICK i \in 1 .. n :
              /\ wire[i].registration = registration
              /\ \A j \in 1 .. n : j > i => wire[j].registration = None
    BY <1>1, <1>3
  <2>2. i \in DOMAIN wire' /\ wire'[i].registration = registration'
    BY <1>1, <1>2, <2>1
  <2>3. ASSUME NEW j \in 1 .. n + 1, j > i PROVE wire'[j].registration = None
    BY <1>1, <1>2, <2>1, <2>3
  <2> QED
    BY <1>2, <2>2, <2>3 DEF Told
<1>4. CASE stored = registration /\ \A i \in DOMAIN wire : wire[i].registration = None
  <2>1. ASSUME NEW j \in 1 .. n + 1 PROVE wire'[j].registration = None
    BY <1>1, <1>2, <1>4
  <2> QED
    BY <1>2, <1>4, <2>1 DEF Told
<1> QED
  BY <1>3, <1>4 DEF Told

\* The host handles a message.
LEMMA ToldHandled ==
    ASSUME TInv, Told, Handle, registration # None
    PROVE  Told'
<1> DEFINE n == Len(wire)
<1>1. RestFits /\ wire # <<>> /\ wire' = Tail(wire) /\ registration' = registration
  BY TypesAre DEF TInv, Handle, sessionVars
<1>2. /\ Len(wire') = n - 1 /\ DOMAIN wire' = 1 .. Len(wire')
      /\ \A i \in 1 .. Len(wire') : wire'[i] = wire[i + 1]
  BY <1>1, Shifts DEF RestFits
<1>3. n \in Nat /\ DOMAIN wire = 1 .. n /\ Head(wire) = wire[1] /\ n # 0
  BY <1>1, Lengths, EmptySeq DEF TInv, RestFits
<1>4. DOMAIN wire' = 1 .. n - 1 /\ \A i \in 1 .. n - 1 : wire'[i] = wire[i + 1]
  BY <1>2
<1> HIDE DEF n
<1>5. CASE \E i \in DOMAIN wire :
              /\ wire[i].registration = registration
              /\ \A j \in DOMAIN wire : j > i => wire[j].registration = None
  <2>1. PICK i \in 1 .. n :
              /\ wire[i].registration = registration
              /\ \A j \in 1 .. n : j > i => wire[j].registration = None
    BY <1>3, <1>5
  <2>2. CASE i = 1
    <3>1. \A j \in 1 .. n - 1 : wire'[j].registration = None
      BY <1>3, <1>4, <2>1, <2>2
    <3>2. stored' = registration
      BY <1>3, <2>1, <2>2 DEF Handle
    <3> QED
      BY <1>1, <1>4, <3>1, <3>2 DEF Told
  <2>3. CASE i > 1
    <3>1. i - 1 \in 1 .. n - 1 /\ wire'[i - 1] = wire[i]
      BY <1>3, <1>4, <2>3
    <3>2. ASSUME NEW j \in 1 .. n - 1, j > i - 1 PROVE wire'[j].registration = None
      BY <1>3, <1>4, <2>1, <3>2
    <3> QED
      BY <1>1, <1>4, <2>1, <3>1, <3>2 DEF Told
  <2> QED
    BY <1>3, <2>2, <2>3
<1>6. CASE stored = registration /\ \A i \in DOMAIN wire : wire[i].registration = None
  <2>1. stored' = stored
    BY <1>3, <1>6 DEF Handle
  <2>2. ASSUME NEW j \in 1 .. n - 1 PROVE wire'[j].registration = None
    BY <1>3, <1>4, <1>6
  <2> QED
    BY <1>1, <1>4, <1>6, <2>1, <2>2 DEF Told
<1> QED
  BY <1>5, <1>6 DEF Told

\* A registration that the client takes while it is connected is the last one.
LEMMA ToldLast ==
    ASSUME TypeOK, NEW m, Adds(wire, wire', m), m.registration = registration, registration' = registration
    PROVE  Told'
<1> DEFINE n == Len(wire)
<1>1. n \in Nat
  BY Lengths
<1>2. DOMAIN wire' = 1 .. n + 1 /\ wire'[n + 1] = m
  BY DEF Adds
<1> HIDE DEF n
<1>3. n + 1 \in DOMAIN wire' /\ \A j \in DOMAIN wire' : ~ (j > n + 1)
  BY <1>1, <1>2
<1> QED
  BY <1>2, <1>3 DEF Told

LEMMA ToldRun ==
    ASSUME TInv, ToldFits, NEW p \in Every, Run(p)
    PROVE  ToldFits'
<1> SUFFICES ASSUME mqttClient' = "up", state' = "CONNECTED", registration' # None, ~overtaken'
             PROVE  Coming' \/ Told'
  BY DEF ToldFits
<1>1. CASE OnConnect(p)
  BY <1>1, OnConnectMoves DEF TInv, Holds, Coming, Carries
<1>2. CASE Delivered(p)
  <2>1. Moved(p) /\ ~Carries(p)
    BY <1>2, IdleMoves DEF TInv, Delivered, Carries
  <2>2. Coming \/ Told
    BY <1>2 DEF ToldFits, Delivered
  <2>3. Told => Told'
    BY <1>2 DEF Delivered, Told, linkVars
  <2> QED
    BY <1>2, <2>1, <2>2, <2>3, CarriersStay DEF Delivered
<1>3. CASE p = Api /\ Store
  BY <1>3, StoreMoves DEF TInv, Holds, Coming, Carries, Every
<1>4. CASE p = Api /\ PublishStatus
  <2>1. Moved(p) /\ ~Carries(p)
    BY <1>4, IdleMoves DEF TInv, PublishStatus, Carries
  <2>2. mqttClient = "up" /\ registration # None /\ registration' = registration /\ stored' = stored
    BY <1>4 DEF PublishStatus, sessionVars
  <2>3. Coming \/ Told
    BY <1>4, <2>2 DEF ToldFits, PublishStatus, sessionVars
  <2>4. ASSUME Told PROVE Told'
    <3> DEFINE m == [registration |-> None, session |-> session]
    <3>1. m \in Message /\ m.registration = None
      BY <2>2, SomeSession DEF Message
    <3>2. Take(m)
      BY <1>4, <2>2 DEF PublishStatus
    <3> HIDE DEF m
    <3>3. Adds(wire, wire', m)
      BY <2>2, <3>1, <3>2, TakeAdds DEF TInv
    <3> QED
      BY <2>2, <2>4, <3>1, <3>3, ToldStays DEF TInv
  <2> QED
    BY <2>1, <2>2, <2>3, <2>4, CarriersStay
<1>5. CASE ReportRegistration(p)
  <2>1. state = "CONNECTED" /\ registration # None /\ registration' = registration
    BY <1>5 DEF ReportRegistration, sessionVars
  <2>2. process'[p].pc = "publish" /\ process'[p].data.registration = registration
    BY <1>5, <2>1, ReadMoves DEF TInv, Holds
  <2> QED
    BY <2>1, <2>2 DEF Coming, Carries
<1>6. CASE Publish(p)
  <2>1. /\ mqttClient = "up" /\ registration' = registration /\ process[p].data.registration = registration
        /\ process[p].pc = "publish" /\ Take(process[p].data)
    BY <1>6 DEF Publish, sessionVars
  <2>2. process[p].data \in Message
    BY <2>1, ProcessType DEF TInv, ProcessFits
  <2>3. Adds(wire, wire', process[p].data)
    BY <2>1, <2>2, TakeAdds DEF TInv
  <2> QED
    BY <2>1, <2>3, ToldLast DEF TInv
<1>7. CASE Panic(p)
  BY <1>7 DEF Panic, Reset, sessionVars
<1> QED
  BY <1>1, <1>2, <1>3, <1>4, <1>5, <1>6, <1>7 DEF Run

LEMMA ToldStep == TInv /\ ToldFits /\ [Next]_vars => ToldFits'
<1> SUFFICES ASSUME TInv, ToldFits, [Next]_vars,
                    mqttClient' = "up", state' = "CONNECTED", registration' # None, ~overtaken'
             PROVE  Coming' \/ Told'
  BY DEF ToldFits
<1>1. CASE UNCHANGED vars
  BY <1>1 DEF vars, sessionVars, linkVars, ToldFits, Coming, Carries, Told
<1>2. ASSUME NEW r \in DeviceRegistration, Connect(r) PROVE Coming'
  <2>1. session + 1 \in 0 .. MaxSessions /\ Spawn(session + 1)
    BY <1>2, BoundAssumption DEF Connect, TInv, TypeOK
  <2> QED
    BY <2>1, SpawnMoves DEF TInv, Holds, Coming, Carries, Every
<1>3. ASSUME NEW r \in DeviceRegistration, Register(r) PROVE Coming'
  BY <1>3, RegisterMoves DEF TInv, Holds, Coming, Carries, Every
<1>4. CASE ReportStatus
  <2>1. Moved(Api) /\ ~Carries(Api) /\ Api \in Every
    BY <1>4, ReportStatusMoves DEF TInv, ReportStatus, Carries, Every
  <2>2. Coming \/ Told
    BY <1>4 DEF ToldFits, ReportStatus, sessionVars
  <2>3. Told => Told'
    BY <1>4 DEF ReportStatus, Told, sessionVars, linkVars
  <2> QED
    BY <1>4, <2>1, <2>2, <2>3, CarriersStay DEF ReportStatus, sessionVars
<1>5. CASE Disconnect \/ Deprovision \/ Lose
  BY <1>5 DEF Disconnect, Deprovision, Reset, Lose
<1>6. CASE OnDisconnect
  BY <1>6 DEF OnDisconnect
<1>7. CASE Reconnect
  <2>1. session \in 0 .. MaxSessions /\ Spawn(session)
    BY <1>7 DEF Reconnect, TInv, TypeOK
  <2> QED
    BY <2>1, SpawnMoves DEF TInv, Holds, Coming, Carries, Every
<1>8. CASE Handle
  <2>1. Coming \/ Told
    BY <1>8 DEF ToldFits, Handle, sessionVars
  <2>2. Coming => Coming'
    BY <1>8 DEF Handle, sessionVars, Coming, Carries
  <2> QED
    BY <1>8, <2>1, <2>2, ToldHandled DEF Handle, sessionVars
<1>9. ASSUME NEW p \in Every, Run(p) PROVE Coming' \/ Told'
  BY <1>9, ToldRun DEF ToldFits
<1> QED
  BY <1>1, <1>2, <1>3, <1>4, <1>5, <1>6, <1>7, <1>8, <1>9 DEF Next, Every

-----------------------------------------------------------------------------
(* The registration reaches the host before a report *)

LEMMA KnownStays ==
    ASSUME Known, UNCHANGED <<heard, session, wire, unsent>>
    PROVE  Known'
BY DEF Known

\* What the client takes adds to what the host will have.
LEMMA KnownTakes ==
    ASSUME TInv, NEW m \in Message, mqttClient # "nil", Take(m), UNCHANGED <<heard, session>>,
           Known \/ (m.registration # None /\ m.session = session)
    PROVE  Known'
<1> DEFINE n == Len(wire)
           k == Len(unsent)
<1>1. n \in Nat /\ DOMAIN wire = 1 .. n /\ k \in Nat /\ DOMAIN unsent = 1 .. k
  BY Lengths DEF TInv
<1>2. CASE Adds(wire, wire', m) /\ unsent' = unsent
  <2>1. /\ DOMAIN wire' = 1 .. n + 1 /\ wire'[n + 1] = m
        /\ \A i \in 1 .. n : i \in 1 .. n + 1 /\ wire'[i] = wire[i]
    BY <1>1, <1>2 DEF Adds
  <2>2. n + 1 \in 1 .. n + 1
    BY <1>1
  <2> HIDE DEF n, k
  <2> QED
    BY <1>1, <1>2, <2>1, <2>2 DEF Known
<1>3. CASE Adds(unsent, unsent', m) /\ m.registration # None /\ wire' = wire
  <2>1. /\ DOMAIN unsent' = 1 .. k + 1 /\ unsent'[k + 1] = m
        /\ \A i \in 1 .. k : i \in 1 .. k + 1 /\ unsent'[i] = unsent[i]
    BY <1>1, <1>3 DEF Adds
  <2>2. k + 1 \in 1 .. k + 1
    BY <1>1
  <2> HIDE DEF n, k
  <2> QED
    BY <1>1, <1>3, <2>1, <2>2 DEF Known
<1>4. CASE m.registration = None /\ wire' = wire /\ unsent' = unsent
  BY <1>4 DEF Known
<1> QED
  BY <1>2, <1>3, <1>4, TakeAdds DEF TInv

LEMMA KnownLose ==
    ASSUME TInv, Known, Lose
    PROVE  Known'
<1>1. unsent = <<>> /\ DOMAIN unsent = {}
  <2>1. unsent = <<>>
    BY DEF Lose, TInv, TypeOK
  <2> QED
    BY <2>1
<1>2. \A k \in Resent : \E i \in DOMAIN unsent' : unsent'[i] = wire[k]
  BY LoseKeeps DEF TInv
<1>3. heard' = heard /\ session' = session
  BY DEF Lose
<1>4. CASE \E i \in DOMAIN wire : wire[i].registration # None /\ wire[i].session = session
  <2>1. PICK i \in Resent : TRUE
    BY <1>4 DEF Resent
  <2>2. PICK j \in DOMAIN unsent' : unsent'[j] = wire[i]
    BY <1>2
  <2> QED
    BY <1>3, <2>1, <2>2 DEF Known, Resent
<1> QED
  BY <1>1, <1>3, <1>4 DEF Known

LEMMA KnownReconnects ==
    ASSUME TInv, Known, Reconnect
    PROVE  Known'
<1>1. wire = <<>> /\ DOMAIN wire = {} /\ \A i \in DOMAIN unsent : unsent[i].registration # None
  BY DEF Reconnect, TInv, LinkFits
<1>2. heard' = heard /\ session' = session /\ wire' = unsent
  BY DEF Reconnect
<1> QED
  BY <1>1, <1>2 DEF Known

LEMMA KnownHandled ==
    ASSUME TInv, Known, Handle
    PROVE  Known'
<1> DEFINE n == Len(wire)
<1>1. RestFits /\ LinkFits /\ wire # <<>> /\ wire' = Tail(wire) /\ session' = session /\ unsent' = unsent
  BY TypesAre DEF TInv, Handle, sessionVars
<1>2. /\ Len(wire') = n - 1 /\ DOMAIN wire' = 1 .. Len(wire')
      /\ \A i \in 1 .. Len(wire') : wire'[i] = wire[i + 1]
  BY <1>1, Shifts DEF RestFits
<1>3. n \in Nat /\ DOMAIN wire = 1 .. n /\ Head(wire) = wire[1] /\ n # 0
  BY <1>1, Lengths, EmptySeq DEF TInv, RestFits
<1>4. DOMAIN wire' = 1 .. n - 1 /\ \A i \in 1 .. n - 1 : wire'[i] = wire[i + 1]
  BY <1>2
<1> HIDE DEF n
<1>5. CASE heard = session
  <2>1. wire[1].session <= session /\ wire[1].session \in Nat /\ session \in Nat
    BY SMTT(20), <1>1, <1>3, Lengths DEF LinkFits, RestFits, TInv, Message
  <2>2. heard' = session
    BY <1>3, <1>5, <2>1 DEF Handle
  <2> QED
    BY <1>1, <2>2 DEF Known
<1>6. ASSUME NEW i \in 1 .. n, wire[i].registration # None, wire[i].session = session PROVE Known'
  <2>1. CASE i = 1
    <3>1. heard \in 0 .. session /\ session \in Nat
      BY <1>1 DEF RestFits
    <3>2. heard' = session
      BY <1>3, <1>6, <2>1, <3>1 DEF Handle
    <3> QED
      BY <1>1, <3>2 DEF Known
  <2>2. CASE i # 1
    <3>1. i - 1 \in 1 .. n - 1 /\ wire'[i - 1] = wire[i]
      BY <1>3, <1>4, <2>2
    <3> QED
      BY <1>1, <1>4, <1>6, <3>1 DEF Known
  <2> QED
    BY <2>1, <2>2
<1>7. CASE \E i \in DOMAIN unsent : unsent[i].session = session
  BY <1>1, <1>7 DEF Known
<1> QED
  BY <1>3, <1>5, <1>6, <1>7 DEF Known

LEMMA DeliveryRun ==
    ASSUME TInv, DeliveryFits, NEW p \in Every, Run(p)
    PROVE  DeliveryFits'
<1> SUFFICES ASSUME mqttClient' # "nil", ~stale', Takes' PROVE Known'
  BY DEF DeliveryFits, Takes
<1>0. (mqttClient # "nil" /\ ~stale /\ Takes => Known) /\ Api \in Every /\ Callback \subseteq Every
  BY DEF DeliveryFits, Takes, Every
<1>1. CASE p # Api /\ OnConnect(p)
  <2>1. Moved(p) /\ Holds(p, "report", "delivered", process[p].session, process[p].data)
    BY <1>1, OnConnectMoves DEF TInv
  <2>2. Takes
    BY <1>0, <1>1, <2>1 DEF Takes, Moved, Holds, OnConnect
  <2> QED
    BY <1>0, <1>1, <2>2, KnownStays DEF OnConnect, linkVars
<1>2. CASE p # Api /\ Delivered(p)
  <2>1. p \in Callback /\ process[p].pc = "delivered" /\ process[p].session = session /\ ~stale
    BY <1>2 DEF Delivered, Every
  <2>2. Takes
    BY <2>1 DEF Takes
  <2> QED
    BY <1>0, <1>2, <2>1, <2>2, KnownStays DEF Delivered, linkVars
<1>3. CASE p = Api /\ Store
  <2>1. Moved(p) /\ Holds(p, "report", None, 0, None)
    BY <1>3, StoreMoves DEF TInv
  <2>2. Takes
    BY <1>0, <1>3, <2>1, NameAssumption DEF Takes, Moved, Holds, Store
  <2> QED
    BY <1>0, <1>3, <2>2, KnownStays DEF Store, linkVars
<1>4. CASE p = Api /\ PublishStatus
  <2>1. Takes /\ mqttClient # "nil" /\ ~stale /\ session' = session /\ heard' = heard
    BY <1>4 DEF Takes, PublishStatus, sessionVars
  <2> DEFINE m == [registration |-> None, session |-> session]
  <2>2. m \in Message
    BY <2>1, SomeSession DEF Message
  <2>3. Take(m)
    BY <1>4, <2>1 DEF PublishStatus
  <2> HIDE DEF m
  <2> QED
    BY <1>0, <2>1, <2>2, <2>3, KnownTakes
<1>5. CASE ReportRegistration(p)
  <2>1. /\ state = "CONNECTED" /\ registration # None /\ ~stale
        /\ UNCHANGED <<sessionVars, linkVars, heard>>
    BY <1>5 DEF ReportRegistration
  <2>2. Moved(p) /\ process'[p].pc = "publish"
    BY <1>5, <2>1, ReadMoves DEF TInv, Holds
  <2>3. Takes
    BY <1>0, <2>1, <2>2 DEF Takes, Moved, sessionVars
  <2> QED
    BY <1>0, <2>1, <2>3, KnownStays DEF sessionVars, linkVars
<1>6. CASE Publish(p)
  <2>1. /\ process[p].pc = "publish" /\ mqttClient # "nil" /\ Take(process[p].data) /\ ~stale
        /\ process' = Return(p) /\ UNCHANGED <<sessionVars, heard>>
    BY <1>6 DEF Publish
  <2>2. process[p].data \in Message /\ process[p].data.registration # None /\ HolderOf(p)
    BY <2>1, ProcessType, HoldersFit DEF TInv, ProcessFits, HolderOf
  <2>3. CASE process[p].data.session = session
    BY <2>1, <2>2, <2>3, KnownTakes DEF sessionVars
  <2>4. CASE process[p].data.session # session
    <3>1. p # Api /\ process[p].session # session
      BY <2>1, <2>2, <2>4 DEF HolderOf
    <3>2. /\ Moved(p)
          /\ \/ process'[p].pc = "none"
             \/ process'[p].session = process[p].session
      BY <2>1, ReturnMoves DEF TInv, Holds
    <3>3. Takes
      BY <1>0, <2>1, <3>1, <3>2 DEF Takes, Moved, sessionVars
    <3> QED
      BY <1>0, <2>1, <2>2, <3>3, KnownTakes DEF sessionVars
  <2> QED
    BY <2>3, <2>4
<1>7. CASE Panic(p)
  BY <1>7 DEF Panic, Reset, sessionVars
<1> QED
  BY <1>1, <1>2, <1>3, <1>4, <1>5, <1>6, <1>7 DEF Run

LEMMA DeliveryStep == TInv /\ DeliveryFits /\ [Next]_vars => DeliveryFits'
<1> SUFFICES ASSUME TInv, DeliveryFits, [Next]_vars, mqttClient' # "nil", ~stale', Takes'
             PROVE  Known'
  BY DEF DeliveryFits, Takes
<1>0. (mqttClient # "nil" /\ ~stale /\ Takes => Known) /\ Api \in Every /\ Callback \subseteq Every
  BY DEF DeliveryFits, Takes, Every
<1>1. CASE UNCHANGED vars
  <2>1. UNCHANGED <<mqttClient, stale, regDelivered, process, session, heard, wire, unsent>>
    BY <1>1 DEF vars, sessionVars, linkVars
  <2> QED
    BY <1>0, <2>1, KnownStays DEF Takes
<1>2. ASSUME NEW r \in DeviceRegistration, Connect(r) PROVE FALSE
  <2>1. session \in Nat /\ session + 1 \in 0 .. MaxSessions /\ Spawn(session + 1) /\ session' = session + 1
    BY <1>2, BoundAssumption DEF Connect, TInv, TypeOK
  <2>2. PICK p \in Callback : Moved(p) /\ Holds(p, "begin", None, session + 1, None)
    BY <2>1, SpawnMoves DEF TInv
  <2>3. process'[Api].pc = "none" /\ ~regDelivered'
    BY <1>0, <1>2, <2>2, NameAssumption DEF Connect, Moved
  <2>4. \A q \in Callback : process[q].session <= session /\ process[q].session \in Nat
    BY <1>0, ProcessType DEF TInv, HolderFits, Process
  <2>5. ASSUME NEW q \in Callback, process'[q].pc = "delivered", process'[q].session = session'
        PROVE  FALSE
    <3>1. q # p
      BY <2>2, <2>5 DEF Holds
    <3>2. process'[q] = process[q]
      BY <1>0, <2>2, <3>1 DEF Moved
    <3> QED
      BY <2>1, <2>4, <2>5, <3>2
  <2> QED
    BY <2>3, <2>5 DEF Takes
<1>3. ASSUME NEW r \in DeviceRegistration, Register(r) PROVE Known'
  <2>1. Moved(Api) /\ process'[Api].pc = "store" /\ UNCHANGED <<sessionVars, linkVars, heard, stale>>
    BY <1>3, RegisterMoves DEF TInv, Holds, Register
  <2>2. Takes
    BY <1>0, <2>1, NameAssumption DEF Takes, Moved, sessionVars
  <2> QED
    BY <1>0, <2>1, <2>2, KnownStays DEF sessionVars, linkVars
<1>4. CASE ReportStatus
  <2>1. /\ Moved(Api) /\ (process'[Api].pc = "status" => regDelivered)
        /\ UNCHANGED <<sessionVars, linkVars, heard, stale>>
    BY <1>4, ReportStatusMoves DEF TInv, Holds, ReportStatus
  <2>2. Takes
    BY <1>0, <2>1, NameAssumption DEF Takes, Moved, sessionVars
  <2> QED
    BY <1>0, <2>1, <2>2, KnownStays DEF sessionVars, linkVars
<1>5. CASE Disconnect \/ Deprovision
  BY <1>5 DEF Disconnect, Deprovision, Reset
<1>6. CASE Lose
  <2>1. Takes /\ mqttClient # "nil" /\ ~stale
    BY <1>6 DEF Lose, Takes
  <2> QED
    BY <1>0, <1>6, <2>1, KnownLose
<1>7. CASE OnDisconnect
  <2>1. UNCHANGED <<mqttClient, stale, regDelivered, process, session, heard, wire, unsent>>
    BY <1>7 DEF OnDisconnect
  <2> QED
    BY <1>0, <2>1, KnownStays DEF Takes
<1>8. CASE Reconnect
  <2>1. session \in 0 .. MaxSessions /\ Spawn(session)
    BY <1>8 DEF Reconnect, TInv, TypeOK
  <2>2. PICK p \in Callback : Moved(p) /\ process'[p].pc = "begin"
    BY <2>1, SpawnMoves DEF TInv, Holds
  <2>3. Takes /\ mqttClient # "nil" /\ ~stale
    BY <1>0, <1>8, <2>2, NameAssumption DEF Reconnect, Takes, Moved
  <2> QED
    BY <1>0, <1>8, <2>3, KnownReconnects
<1>9. CASE Handle
  <2>1. Takes /\ mqttClient # "nil" /\ ~stale
    BY <1>9 DEF Handle, Takes, sessionVars
  <2> QED
    BY <1>0, <1>9, <2>1, KnownHandled
<1>10. ASSUME NEW p \in Every, Run(p) PROVE Known'
  BY <1>10, DeliveryRun DEF DeliveryFits, Takes
<1> QED
  BY <1>1, <1>2, <1>3, <1>4, <1>5, <1>6, <1>7, <1>8, <1>9, <1>10 DEF Next, Every

LEMMA StatusTakes ==
    ASSUME TInv, DeliveryFits, StatusFollowsRegistration, NEW m \in Message, mqttClient # "nil",
           Take(m), UNCHANGED <<heard, session>>, stale' = stale,
           m.registration = None => Takes
    PROVE  StatusFollowsRegistration'
<1> DEFINE n == Len(wire)
<1>1. n \in Nat /\ DOMAIN wire = 1 .. n
  BY Lengths DEF TInv
<1>2. CASE mqttClient = "up" /\ Adds(wire, wire', m)
  <2>1. DOMAIN wire' = 1 .. n + 1 /\ wire'[n + 1] = m /\ \A i \in 1 .. n : wire'[i] = wire[i]
    BY <1>2 DEF Adds
  <2>2. unsent = <<>> /\ DOMAIN unsent = {}
    <3>1. unsent = <<>>
      BY <1>2 DEF TInv, TypeOK
    <3> QED
      BY <3>1
  <2> HIDE DEF n
  <2> SUFFICES ASSUME NEW i \in 1 .. n + 1, ~stale, wire'[i].registration = None, wire'[i].session = session
               PROVE  \/ heard = session
                      \/ \E j \in 1 .. i - 1 : wire'[j].registration # None /\ wire'[j].session = session
    BY <2>1 DEF StatusFollowsRegistration
  <2>3. CASE i \in 1 .. n
    <3>1. \/ heard = session
          \/ \E j \in 1 .. i - 1 : wire[j].registration # None /\ wire[j].session = session
      BY <1>1, <2>1, <2>3 DEF StatusFollowsRegistration
    <3>2. \A j \in 1 .. i - 1 : wire'[j] = wire[j]
      BY <1>1, <2>1, <2>3
    <3> QED
      BY <3>1, <3>2
  <2>4. CASE i = n + 1
    <3>1. Known
      BY <1>2, <2>1, <2>4 DEF DeliveryFits
    <3>2. \/ heard = session
          \/ \E j \in 1 .. n : wire[j].registration # None /\ wire[j].session = session
      BY <1>1, <2>2, <3>1 DEF Known
    <3>3. 1 .. i - 1 = 1 .. n
      BY <1>1, <2>4
    <3> QED
      BY <2>1, <3>2, <3>3
  <2> QED
    BY <1>1, <2>3, <2>4
<1>3. CASE wire' = wire
  BY <1>3 DEF StatusFollowsRegistration
<1> QED
  BY <1>2, <1>3, TakeAdds DEF TInv

LEMMA StatusHandled ==
    ASSUME TInv, StatusFollowsRegistration, Handle
    PROVE  StatusFollowsRegistration'
<1> DEFINE n == Len(wire)
<1>1. RestFits /\ LinkFits /\ wire # <<>> /\ wire' = Tail(wire) /\ session' = session /\ stale' = stale
  BY TypesAre DEF TInv, Handle, sessionVars
<1>2. /\ Len(wire') = n - 1 /\ DOMAIN wire' = 1 .. Len(wire')
      /\ \A i \in 1 .. Len(wire') : wire'[i] = wire[i + 1]
  BY <1>1, Shifts DEF RestFits
<1>3. n \in Nat /\ DOMAIN wire = 1 .. n /\ Head(wire) = wire[1] /\ n # 0
  BY <1>1, Lengths, EmptySeq DEF TInv, RestFits
<1>4. DOMAIN wire' = 1 .. n - 1 /\ \A i \in 1 .. n - 1 : wire'[i] = wire[i + 1]
  BY <1>2
<1>5. heard \in 0 .. session /\ session \in Nat
  BY <1>1 DEF RestFits
<1>6. heard = session => heard' = session
  <2>1. wire[1].session <= session /\ wire[1].session \in Nat
    BY <1>1, <1>3, Lengths DEF LinkFits, TInv, Message
  <2> QED
    BY <1>3, <1>5, <2>1 DEF Handle
<1> HIDE DEF n
<1> SUFFICES ASSUME NEW i \in 1 .. n - 1, ~stale, wire'[i].registration = None, wire'[i].session = session
             PROVE  \/ heard' = session
                    \/ \E j \in 1 .. i - 1 : wire'[j].registration # None /\ wire'[j].session = session
  BY <1>1, <1>4 DEF StatusFollowsRegistration
<1>7. i + 1 \in 1 .. n /\ wire[i + 1].registration = None /\ wire[i + 1].session = session
  BY <1>3, <1>4
<1>8. \/ heard = session
      \/ \E j \in 1 .. (i + 1) - 1 : wire[j].registration # None /\ wire[j].session = session
  BY <1>3, <1>7 DEF StatusFollowsRegistration
<1>9. ASSUME NEW j \in 1 .. i, wire[j].registration # None, wire[j].session = session
      PROVE  \/ heard' = session
             \/ \E k \in 1 .. i - 1 : wire'[k].registration # None /\ wire'[k].session = session
  <2>1. CASE j = 1
    BY <1>3, <1>5, <1>9, <2>1 DEF Handle
  <2>2. CASE j # 1
    <3>1. j - 1 \in 1 .. i - 1 /\ j - 1 \in 1 .. n - 1 /\ (j - 1) + 1 = j
      BY <1>3, <2>2
    <3>2. wire'[j - 1] = wire[j]
      BY <1>4, <3>1
    <3> QED
      BY <1>9, <3>1, <3>2
  <2> QED
    BY <2>1, <2>2
<1>10. (i + 1) - 1 = i
  BY <1>3
<1> QED
  BY <1>6, <1>8, <1>9, <1>10

LEMMA StatusStep ==
    TInv /\ DeliveryFits /\ StatusFollowsRegistration /\ [Next]_vars => StatusFollowsRegistration'
<1> SUFFICES ASSUME TInv, DeliveryFits, StatusFollowsRegistration, [Next]_vars
             PROVE  StatusFollowsRegistration'
  OBVIOUS
<1>1. ASSUME UNCHANGED <<wire, session, heard>>, stale => stale' PROVE StatusFollowsRegistration'
  BY <1>1 DEF StatusFollowsRegistration
<1>2. ASSUME wire' = <<>> PROVE StatusFollowsRegistration'
  BY <1>2 DEF StatusFollowsRegistration
<1>3. ASSUME NEW r \in DeviceRegistration, Connect(r) PROVE StatusFollowsRegistration'
  <2>1. session \in Nat /\ session' = session + 1 /\ wire' = wire
    BY <1>3 DEF Connect, linkVars, TInv, TypeOK
  <2>2. \A i \in DOMAIN wire : wire[i].session <= session /\ wire[i].session \in Nat
    BY Lengths DEF TInv, LinkFits, Message
  <2> QED
    BY <2>1, <2>2 DEF StatusFollowsRegistration
<1>4. CASE Reconnect
  <2>1. wire' = unsent /\ \A i \in DOMAIN unsent : unsent[i].registration # None
    BY <1>4 DEF Reconnect, TInv, LinkFits
  <2> QED
    BY <2>1 DEF StatusFollowsRegistration
<1>5. ASSUME NEW p \in Every, Publish(p) PROVE StatusFollowsRegistration'
  <2>1. /\ process[p].pc = "publish" /\ mqttClient # "nil" /\ Take(process[p].data)
        /\ UNCHANGED <<sessionVars, heard, stale>>
    BY <1>5 DEF Publish
  <2>2. process[p].data \in Message /\ process[p].data.registration # None
    BY <2>1, ProcessType DEF TInv, ProcessFits, HolderFits
  <2> QED
    BY <2>1, <2>2, StatusTakes DEF sessionVars
<1>6. CASE PublishStatus
  <2>1. CASE mqttClient = "nil"
    BY <1>1, <1>6, <2>1 DEF PublishStatus, sessionVars
  <2>2. CASE mqttClient # "nil"
    <3> DEFINE m == [registration |-> None, session |-> session]
    <3>1. m \in Message
      BY <2>2, SomeSession DEF Message
    <3>2. Take(m) /\ Takes
      BY <1>6, <2>2 DEF PublishStatus, Takes
    <3> HIDE DEF m
    <3>3. UNCHANGED <<heard, session>> /\ stale' = stale
      BY <1>6 DEF PublishStatus, sessionVars
    <3> QED
      BY <2>2, <3>1, <3>2, <3>3, StatusTakes
  <2> QED
    BY <2>1, <2>2
<1>7. ASSUME NEW p \in Every, Run(p) PROVE StatusFollowsRegistration'
  <2>1. CASE OnConnect(p) \/ Delivered(p) \/ Store \/ ReportRegistration(p) \/ Panic(p)
    BY <1>1, <2>1 DEF OnConnect, Delivered, Store, ReportRegistration, Panic, Reset, sessionVars, linkVars
  <2> QED
    BY <1>5, <1>6, <1>7, <2>1 DEF Run
<1>8. CASE Lose \/ Deprovision
  BY <1>2, <1>8 DEF Lose, Deprovision
<1>9. CASE Disconnect \/ OnDisconnect \/ ReportStatus \/ UNCHANGED vars
  BY <1>1, <1>9 DEF Disconnect, Reset, OnDisconnect, ReportStatus, vars, sessionVars, linkVars
<1>10. ASSUME NEW r \in DeviceRegistration, Register(r) PROVE StatusFollowsRegistration'
  BY <1>1, <1>10 DEF Register, sessionVars, linkVars
<1> QED
  BY <1>3, <1>4, <1>7, <1>8, <1>9, <1>10, StatusHandled DEF Next, Every

-----------------------------------------------------------------------------
(* The theorems *)

LEMMA TypeInit == Init => TInv
<1> SUFFICES ASSUME Init PROVE TInv
  OBVIOUS
<1>1. <<>> \in Seq(Message) /\ Len(<<>>) = 0 /\ DOMAIN <<>> = {}
  BY EmptySeq
<1>2. \A p \in Every : process[p] = Idle
  BY DEF Init, Every
<1>3. process \in [Every -> Process] /\ \A p \in Every : ProcessFits(p)
  BY <1>2, IdleProcess DEF Init, Every, ProcessFits, Idle
<1>4. \A p \in Every : HolderOf(p)
  BY <1>2 DEF Init, HolderOf, Idle
<1>5. RestFits
  <2>1. heard \in 0 .. session /\ session \in 0 .. MaxSessions /\ events \in 0 .. MaxEvents
    BY BoundAssumption DEF Init
  <2>2. wire = <<>> /\ unsent = <<>> /\ Len(wire) <= MaxWire
    BY <1>1, BoundAssumption DEF Init
  <2>3. /\ regDelivered \in BOOLEAN /\ losing \in BOOLEAN
        /\ overtaken \in BOOLEAN /\ stale \in BOOLEAN
    BY DEF Init
  <2>4. stored = None /\ registration = None /\ state = "DISCONNECTED" /\ mqttClient = "nil"
    BY DEF Init
  <2> QED
    BY <1>1, <2>1, <2>2, <2>3, <2>4 DEF RestFits
<1>6. LinkFits
  BY <1>1, <1>2, BoundAssumption DEF Init, LinkFits, Idle
<1> QED
  BY <1>3, <1>4, <1>5, <1>6, TypesAre, HoldersFit DEF TInv

LEMMA TypeInvariant == Spec => []TInv
BY TypeInit, TypeStep, PTL DEF Spec

\* Every variable keeps its type, and what a process holds fits its step, whatever sessions
\* begin and end around it.
THEOREM TypeCorrect == Spec => []TypeOK
<1>1. TInv => TypeOK
  BY DEF TInv
<1> QED
  BY <1>1, TypeInvariant, PTL

\* A daemon that shows itself connected and has nothing more to do has told the host its
\* registration, whichever goroutines have published it, in whatever session they read it,
\* unless one has published an older registration last (onConnect, Register,
\* reportRegistration).
THEOREM RegistrationTold == Spec => []HostHasRegistration
<1>1. Init => ToldFits
  BY DEF Init, ToldFits
<1>2. TInv /\ ToldFits => HostHasRegistration
  <2> SUFFICES ASSUME TInv, ToldFits, mqttClient = "up", state = "CONNECTED", registration # None,
                      Quiet, ~overtaken
               PROVE  stored = registration
    BY DEF HostHasRegistration
  <2>1. wire = <<>> /\ DOMAIN wire = {} /\ \A p \in Every : process[p].pc = "none"
    BY DEF Quiet, TInv, TypeOK, Every, Idle
  <2>2. ~Coming
    BY <2>1 DEF Coming, Carries
  <2> QED
    BY <2>1, <2>2 DEF ToldFits, Told
<1> QED
  BY <1>1, <1>2, TypeInvariant, ToldStep, PTL DEF Spec

\* A report reaches the host after a registration of its session, although the daemon says
\* it is connected before the registration is published, unless a callback of an earlier
\* session has declared it delivered or one was left out (doPublishMessage, onConnect).
THEOREM RegistrationFirst == Spec => []StatusFollowsRegistration
<1>1. Init => DeliveryFits /\ StatusFollowsRegistration
  BY DEF Init, DeliveryFits, StatusFollowsRegistration
<1>2. TInv /\ DeliveryFits /\ StatusFollowsRegistration /\ [Next]_vars
        => DeliveryFits' /\ StatusFollowsRegistration'
  BY DeliveryStep, StatusStep
<1> QED
  BY <1>1, <1>2, TypeInvariant, PTL DEF Spec

-----------------------------------------------------------------------------
(* The throttle: the inductive invariants *)

\* The reports whose times are not kept any more.
Dropped == Len(published) - Len(publishTimes)

\* The times that are kept are those of the last reports. Unless the clock is set ahead, it
\* shows no more than a second after a time that is kept when that report was let through,
\* and what was dropped is a window less a second ago.
LimitFits ==
    /\ Dropped >= 0
    /\ \A i \in 1 .. Len(published) : published[i] <= ticks
    /\ ~setAhead =>
          /\ \A p \in 1 .. Len(publishTimes) :
                published[Dropped + p] < publishTimes[p] * TicksPerSecond + TicksPerSecond + behind
          /\ \A i \in 1 .. Dropped :
                ticks - published[i] > (WindowSeconds - 1) * TicksPerSecond

\* Reports came one after the other. Unless the clock is set back, so do their times, none
\* of which is later than the clock now shows of it.
TimesFit ==
    /\ \A i, j \in 1 .. Len(published) : i <= j => published[i] <= published[j]
    /\ ~setBack =>
          /\ \A p \in 1 .. Len(publishTimes) :
                /\ publishTimes[p] * TicksPerSecond <= published[Dropped + p] - behind
                /\ publishTimes[p] <= Now
          /\ \A p, q \in 1 .. Len(publishTimes) : p <= q => publishTimes[p] <= publishTimes[q]

PInv == ThrottleTypeOK /\ LimitFits /\ TimesFit

-----------------------------------------------------------------------------
(* The throttle: lemmas about seconds, and about what is kept *)

LEMMA SecondsFit ==
    ASSUME ThrottleAssumption, NEW x \in Int
    PROVE  /\ x \div TicksPerSecond \in Int
           /\ (x \div TicksPerSecond) * TicksPerSecond \in Int
           /\ (x \div TicksPerSecond) * TicksPerSecond <= x
           /\ x < (x \div TicksPerSecond) * TicksPerSecond + TicksPerSecond
BY DEF ThrottleAssumption

LEMMA SecondsGrow ==
    ASSUME ThrottleAssumption, NEW x \in Int, NEW y \in Int, x <= y
    PROVE  /\ x * TicksPerSecond <= y * TicksPerSecond
           /\ x \div TicksPerSecond <= y \div TicksPerSecond
<1>1. x * TicksPerSecond <= y * TicksPerSecond
  BY DEF ThrottleAssumption
<1>2. ASSUME NEW a \in Int, NEW b \in Int, b < a
      PROVE  b * TicksPerSecond + TicksPerSecond <= a * TicksPerSecond
  BY <1>2 DEF ThrottleAssumption
<1>3. x \div TicksPerSecond <= y \div TicksPerSecond
  <2>1. ASSUME y \div TicksPerSecond < x \div TicksPerSecond PROVE FALSE
    <3>1. (y \div TicksPerSecond) * TicksPerSecond + TicksPerSecond
              <= (x \div TicksPerSecond) * TicksPerSecond
      BY <1>2, <2>1, SecondsFit
    <3> QED
      BY <3>1, SecondsFit DEF ThrottleAssumption
  <2> QED
    BY <2>1, SecondsFit
<1> QED
  BY <1>1, <1>3

LEMMA LaterFits ==
    ASSUME NEW x \in Int, NEW y \in Int, NEW a \in Int, NEW b \in Int, x <= y, b <= a
    PROVE  x - a <= y - b
OBVIOUS

LEMMA WindowFits ==
    ASSUME ThrottleAssumption
    PROVE  /\ TicksPerSecond \in Int /\ TicksPerSecond > 0 /\ WindowSeconds \in Int
           /\ WindowSeconds * TicksPerSecond \in Int
           /\ (WindowSeconds - 1) * TicksPerSecond = WindowSeconds * TicksPerSecond - TicksPerSecond
BY DEF ThrottleAssumption

LEMMA WindowBefore ==
    ASSUME ThrottleAssumption, NEW x \in Int
    PROVE  /\ x * TicksPerSecond \in Int
           /\ (x - WindowSeconds) * TicksPerSecond
                   = x * TicksPerSecond - WindowSeconds * TicksPerSecond
           /\ (x - WindowSeconds + 1) * TicksPerSecond
                   = x * TicksPerSecond - WindowSeconds * TicksPerSecond + TicksPerSecond
BY DEF ThrottleAssumption

LEMMA EmptyFits == <<>> \in Seq(Int) /\ <<>> \in Seq(0 .. MaxTicks) /\ Len(<<>>) = 0
OBVIOUS

LEMMA AllowedFits ==
    ASSUME ThrottleAssumption, NEW interval \in Int
    PROVE  Allowed(interval) \in Nat \ {0}
<1>1. Larger(interval, 1) \in Nat \ {0}
  BY DEF Larger
<1>2. WindowSeconds \div Larger(interval, 1) \in Int
  BY <1>1 DEF ThrottleAssumption
<1> QED
  BY <1>2 DEF Allowed, Larger, ThrottleAssumption

LEMMA ThrottleTypes ==
    ASSUME ThrottleAssumption, PInv
    PROVE  /\ ticks \in Int /\ behind \in Int /\ Len(published) \in Nat /\ Len(publishTimes) \in Nat
           /\ Dropped \in Nat /\ Dropped + Len(publishTimes) = Len(published)
           /\ maxPublishInWindow \in Nat /\ maxPublishInWindow > 0 /\ Now \in Int
<1>1. /\ ticks \in Int /\ behind \in Int /\ Len(published) \in Nat /\ Len(publishTimes) \in Nat
      /\ maxPublishInWindow \in Nat /\ maxPublishInWindow > 0
  BY DEF PInv, ThrottleTypeOK, ThrottleAssumption
<1>2. Now \in Int
  BY <1>1, SecondsFit DEF Now
<1>3. Dropped \in Nat /\ Dropped + Len(publishTimes) = Len(published)
  BY <1>1 DEF PInv, LimitFits, Dropped
<1> QED
  BY <1>1, <1>2, <1>3

LEMMA ThrottleTimes ==
    ASSUME ThrottleAssumption, PInv
    PROVE  /\ \A i \in 1 .. Len(published) : published[i] \in Int
           /\ \A p \in 1 .. Len(publishTimes) :
                  publishTimes[p] \in Int /\ Dropped + p \in 1 .. Len(published)
<1>1. \A i \in 1 .. Len(published) : published[i] \in Int
  BY DEF PInv, ThrottleTypeOK, ThrottleAssumption
<1>2. \A p \in 1 .. Len(publishTimes) : publishTimes[p] \in Int
  BY DEF PInv, ThrottleTypeOK
<1>3. \A p \in 1 .. Len(publishTimes) : Dropped + p \in 1 .. Len(published)
  BY ThrottleTypes
<1> QED
  BY <1>1, <1>2, <1>3

LEMMA KeptEffect ==
    ASSUME ThrottleAssumption, PInv, NEW n \in 0 .. Len(publishTimes)
    PROVE  /\ Kept(n) \in Seq(Int) /\ Len(Kept(n)) = Len(publishTimes) - n
           /\ \A p \in 1 .. Len(publishTimes) - n : Kept(n)[p] = publishTimes[n + p]
<1>a. /\ ticks \in Int /\ behind \in Int /\ Len(published) \in Nat /\ Len(publishTimes) \in Nat
      /\ Dropped \in Nat /\ Dropped + Len(publishTimes) = Len(published)
      /\ maxPublishInWindow \in Nat /\ maxPublishInWindow > 0 /\ Now \in Int
  BY ThrottleTypes
<1>b. /\ \A i \in 1 .. Len(published) : published[i] \in Int
      /\ \A p \in 1 .. Len(publishTimes) :
             publishTimes[p] \in Int /\ Dropped + p \in 1 .. Len(published)
  BY ThrottleTimes
<1>1. Len(publishTimes) \in Nat /\ \A p \in n + 1 .. Len(publishTimes) : publishTimes[p] \in Int
  BY <1>a, <1>b
<1>2. /\ Kept(n) \in Seq(Int)
      /\ Len(Kept(n)) = IF n + 1 <= Len(publishTimes) THEN Len(publishTimes) - (n + 1) + 1 ELSE 0
      /\ \A p \in 1 .. Len(publishTimes) - (n + 1) + 1 : Kept(n)[p] = publishTimes[n + 1 + p - 1]
  BY <1>1, SubSeqProperties DEF Kept
<1> QED
  BY <1>1, <1>2

\* A report whose time CanPublish removes was let through a window less a second ago.
LEMMA ExpiredAgo ==
    ASSUME ThrottleAssumption, PInv, ~setAhead, NEW n \in 0 .. Len(publishTimes), Expired(n),
           NEW i \in 1 .. Dropped + n
    PROVE  ticks - published[i] > (WindowSeconds - 1) * TicksPerSecond
<1>w. /\ TicksPerSecond \in Int /\ TicksPerSecond > 0 /\ WindowSeconds \in Int
      /\ WindowSeconds * TicksPerSecond \in Int
      /\ (WindowSeconds - 1) * TicksPerSecond = WindowSeconds * TicksPerSecond - TicksPerSecond
  BY WindowFits
<1>a. /\ ticks \in Int /\ behind \in Int /\ Len(published) \in Nat /\ Len(publishTimes) \in Nat
      /\ Dropped \in Nat /\ Dropped + Len(publishTimes) = Len(published)
      /\ maxPublishInWindow \in Nat /\ maxPublishInWindow > 0 /\ Now \in Int
  BY ThrottleTypes
<1>b. /\ \A j \in 1 .. Len(published) : published[j] \in Int
      /\ \A p \in 1 .. Len(publishTimes) :
             publishTimes[p] \in Int /\ Dropped + p \in 1 .. Len(published)
  BY ThrottleTimes
<1>1. CASE i <= Dropped
  BY <1>1, <1>a DEF PInv, LimitFits
<1>2. CASE i > Dropped
  <2> DEFINE p == i - Dropped
  <2>1. p \in 1 .. n /\ p \in 1 .. Len(publishTimes) /\ i = Dropped + p
    BY <1>2, <1>a
  <2>2. publishTimes[p] \in Int /\ published[i] \in Int /\ publishTimes[p] <= Now - WindowSeconds
    BY <2>1, <1>a, <1>b DEF Expired
  <2>3. published[i] < publishTimes[p] * TicksPerSecond + TicksPerSecond + behind
    BY <2>1 DEF PInv, LimitFits
  <2>4. publishTimes[p] * TicksPerSecond <= (Now - WindowSeconds) * TicksPerSecond
    <3>1. Now - WindowSeconds \in Int
      BY <1>a, <1>w
    <3> QED
      BY <2>2, <3>1, SecondsGrow
  <2>5. Now * TicksPerSecond <= ticks - behind
    BY <1>a, SecondsFit DEF Now
  <2>6. (Now - WindowSeconds) * TicksPerSecond
            = Now * TicksPerSecond - WindowSeconds * TicksPerSecond
    BY <1>a, WindowBefore
  <2>7. /\ published[i] \in Int /\ ticks \in Int /\ behind \in Int
        /\ publishTimes[p] * TicksPerSecond \in Int /\ Now * TicksPerSecond \in Int
    BY <2>2, <1>a, WindowBefore
  <2> HIDE DEF p
  <2>8. published[i]
            < Now * TicksPerSecond - WindowSeconds * TicksPerSecond + TicksPerSecond + behind
    BY <2>3, <2>4, <2>6, <2>7, <1>w, SMTT(30)
  <2> QED
    BY <2>5, <2>7, <2>8, <1>w
<1> QED
  BY <1>1, <1>2, <1>a

-----------------------------------------------------------------------------
(* The throttle: the steps *)

LEMMA LetThroughEffect ==
    ASSUME ThrottleAssumption, PInv, NEW n \in 0 .. Len(publishTimes), Expired(n), Room(n),
           publishTimes' = Append(Kept(n), Now), published' = Append(published, ticks)
    PROVE  /\ publishTimes' \in Seq(Int) /\ Len(publishTimes') = Len(publishTimes) - n + 1
           /\ \A p \in 1 .. Len(publishTimes) - n : publishTimes'[p] = publishTimes[n + p]
           /\ publishTimes'[Len(publishTimes) - n + 1] = Now
           /\ published' \in Seq(0 .. MaxTicks) /\ Len(published') = Len(published) + 1
           /\ \A i \in 1 .. Len(published) : published'[i] = published[i]
           /\ published'[Len(published) + 1] = ticks
           /\ Dropped' = Dropped + n
<1>a. /\ ticks \in Int /\ behind \in Int /\ Len(published) \in Nat /\ Len(publishTimes) \in Nat
      /\ Dropped \in Nat /\ Dropped + Len(publishTimes) = Len(published)
      /\ maxPublishInWindow \in Nat /\ maxPublishInWindow > 0 /\ Now \in Int
  BY ThrottleTypes
<1>1. Kept(n) \in Seq(Int) /\ Now \in Int /\ Len(Kept(n)) = Len(publishTimes) - n
  BY KeptEffect, <1>a
<1>2. published \in Seq(0 .. MaxTicks) /\ ticks \in 0 .. MaxTicks
  BY DEF PInv, ThrottleTypeOK
<1>3. /\ publishTimes' \in Seq(Int) /\ Len(publishTimes') = Len(Kept(n)) + 1
      /\ \A p \in 1 .. Len(Kept(n)) : publishTimes'[p] = Kept(n)[p]
      /\ publishTimes'[Len(Kept(n)) + 1] = Now
  BY <1>1
<1>4. /\ published' \in Seq(0 .. MaxTicks) /\ Len(published') = Len(published) + 1
      /\ \A i \in 1 .. Len(published) : published'[i] = published[i]
      /\ published'[Len(published) + 1] = ticks
  BY <1>2
<1>5. Dropped' = Dropped + n
  BY <1>1, <1>3, <1>4, <1>a DEF Dropped
<1> QED
  BY <1>1, <1>3, <1>4, <1>5, KeptEffect

LEMMA LetThroughFits ==
    ASSUME ThrottleAssumption, PInv, WithinLimit, LetThrough
    PROVE  PInv' /\ WithinLimit'
<1>w. /\ TicksPerSecond \in Int /\ TicksPerSecond > 0 /\ WindowSeconds \in Int
      /\ WindowSeconds * TicksPerSecond \in Int
      /\ (WindowSeconds - 1) * TicksPerSecond = WindowSeconds * TicksPerSecond - TicksPerSecond
  BY WindowFits
<1>a. /\ ticks \in Int /\ behind \in Int /\ Len(published) \in Nat /\ Len(publishTimes) \in Nat
      /\ Dropped \in Nat /\ Dropped + Len(publishTimes) = Len(published)
      /\ maxPublishInWindow \in Nat /\ maxPublishInWindow > 0 /\ Now \in Int
  BY ThrottleTypes
<1>1. PICK n \in 0 .. Len(publishTimes) :
          /\ Expired(n) /\ Room(n)
          /\ publishTimes' = Append(Kept(n), Now)
          /\ published' = Append(published, ticks)
          /\ UNCHANGED <<clockVars, maxPublishInWindow, setVars>>
  BY DEF LetThrough
<1> DEFINE m == Len(publishTimes) - n
           last == Len(published) + 1
<1>2. /\ publishTimes' \in Seq(Int) /\ Len(publishTimes') = m + 1
      /\ \A p \in 1 .. m : publishTimes'[p] = publishTimes[n + p]
      /\ publishTimes'[m + 1] = Now
      /\ published' \in Seq(0 .. MaxTicks) /\ Len(published') = last
      /\ \A i \in 1 .. Len(published) : published'[i] = published[i]
      /\ published'[last] = ticks
      /\ Dropped' = Dropped + n
  BY <1>1, LetThroughEffect
<1>3. /\ m \in Nat /\ m < maxPublishInWindow /\ last \in Nat /\ last = Len(published) + 1
      /\ Dropped + n + m + 1 = last /\ Dropped + n \in Nat /\ m + n = Len(publishTimes)
  BY <1>1, <1>a DEF Room, Dropped
<1>e. /\ Len(published) \in Nat /\ last = Len(published) + 1
      /\ Len(published') = last /\ Len(publishTimes') = m + 1 /\ m \in Nat
      /\ Dropped' = Dropped + n /\ Dropped' + m + 1 = last /\ Dropped' \in Nat
  BY <1>2, <1>3, <1>a
<1>4. /\ ticks' = ticks /\ behind' = behind /\ maxPublishInWindow' = maxPublishInWindow
      /\ setBack' = setBack /\ setAhead' = setAhead /\ Now' = Now
  BY <1>1 DEF clockVars, setVars, Now
<1>5. ThrottleTypeOK'
  BY <1>2, <1>3, <1>4, <1>a DEF PInv, ThrottleTypeOK
<1> HIDE DEF m, last
<1>6. \A p \in 1 .. m : /\ p \in 1 .. Len(publishTimes') /\ n + p \in 1 .. Len(publishTimes)
                        /\ Dropped' + p = Dropped + (n + p)
                        /\ Dropped + (n + p) \in 1 .. Len(published)
  BY <1>2, <1>3, <1>a
<1>7. \A p \in 1 .. m : /\ publishTimes'[p] = publishTimes[n + p]
                        /\ published'[Dropped' + p] = published[Dropped + (n + p)]
  BY <1>2, <1>6
<1>8. ticks - behind < Now * TicksPerSecond + TicksPerSecond
  BY <1>a, SecondsFit DEF Now
<1>9. LimitFits'
  <2>1. Dropped' >= 0
    BY <1>2, <1>3
  <2>2. ASSUME NEW i \in 1 .. Len(published') PROVE published'[i] <= ticks'
    <3>1. CASE i = last
      BY <1>2, <1>4, <1>a, <3>1
    <3>2. CASE i # last
      <4>1. i \in 1 .. Len(published)
        BY <1>e, <3>2
      <4> QED
        BY <1>2, <1>4, <4>1 DEF PInv, LimitFits
    <3> QED
      BY <3>1, <3>2
  <2>3. ASSUME ~setAhead', NEW p \in 1 .. Len(publishTimes')
        PROVE  published'[Dropped' + p]
                   < publishTimes'[p] * TicksPerSecond + TicksPerSecond + behind'
    <3>1. CASE p = m + 1
      <4>1. Dropped' + p = last
        BY <1>e, <3>1
      <4>2. published'[Dropped' + p] = ticks /\ publishTimes'[p] = Now
        BY <1>2, <3>1, <4>1
      <4> QED
        BY <1>4, <1>8, <4>2, <1>a, <1>w
    <3>2. CASE p # m + 1
      <4>1. p \in 1 .. m
        BY <1>e, <3>2
      <4> QED
        BY <1>4, <1>6, <1>7, <2>3, <4>1 DEF PInv, LimitFits
    <3> QED
      BY <3>1, <3>2
  <2>4. ASSUME ~setAhead', NEW i \in 1 .. Dropped'
        PROVE  ticks' - published'[i] > (WindowSeconds - 1) * TicksPerSecond
    <3>1. i \in 1 .. Dropped + n /\ i \in 1 .. Len(published)
      BY <1>e
    <3> QED
      BY <1>1, <1>2, <1>4, <2>4, <3>1, ExpiredAgo
  <2> QED
    BY <2>1, <2>2, <2>3, <2>4 DEF LimitFits
<1>10. TimesFit'
  <2>1. ASSUME NEW i \in 1 .. Len(published'), NEW j \in 1 .. Len(published'), i <= j
        PROVE  published'[i] <= published'[j]
    <3>1. \A k \in 1 .. Len(published) : published[k] <= ticks
      BY DEF PInv, LimitFits
    <3>2. \A k, l \in 1 .. Len(published) : k <= l => published[k] <= published[l]
      BY DEF PInv, TimesFit
    <3>3. CASE j = last
      <4>1. published'[j] = ticks /\ \A k \in 1 .. Len(published) : published'[k] = published[k]
        BY <1>2, <3>3
      <4>2. CASE i = last
        BY <3>3, <4>1, <4>2, <1>a
      <4>3. CASE i # last
        <5>1. i \in 1 .. Len(published)
          BY <1>e, <4>3
        <5> QED
          BY <3>1, <4>1, <5>1
      <4> QED
        BY <4>2, <4>3
    <3>4. CASE j # last
      <4>1. i \in 1 .. Len(published) /\ j \in 1 .. Len(published)
        BY <1>e, <2>1, <3>4
      <4> QED
        BY <1>2, <2>1, <3>2, <4>1
    <3> QED
      BY <3>3, <3>4
  <2>2. ASSUME ~setBack', NEW p \in 1 .. Len(publishTimes')
        PROVE  /\ publishTimes'[p] * TicksPerSecond <= published'[Dropped' + p] - behind'
               /\ publishTimes'[p] <= Now'
    <3>1. CASE p = m + 1
      <4>1. Dropped' + p = last
        BY <1>e, <3>1
      <4>2. published'[Dropped' + p] = ticks /\ publishTimes'[p] = Now
        BY <1>2, <3>1, <4>1
      <4>3. Now * TicksPerSecond <= ticks - behind
        BY <1>a, SecondsFit DEF Now
      <4> QED
        BY <1>4, <1>a, <4>2, <4>3
    <3>2. CASE p # m + 1
      <4>1. p \in 1 .. m
        BY <1>e, <3>2
      <4> QED
        BY <1>4, <1>6, <1>7, <2>2, <4>1 DEF PInv, TimesFit
    <3> QED
      BY <3>1, <3>2
  <2>3. ASSUME ~setBack', NEW p \in 1 .. Len(publishTimes'), NEW q \in 1 .. Len(publishTimes'),
               p <= q
        PROVE  publishTimes'[p] <= publishTimes'[q]
    <3>1. CASE q = m + 1
      BY <1>2, <1>4, <2>2, <2>3, <3>1
    <3>2. CASE q # m + 1
      <4>1. p \in 1 .. m /\ q \in 1 .. m
        BY <1>e, <2>3, <3>2
      <4>2. n + p \in 1 .. Len(publishTimes) /\ n + q \in 1 .. Len(publishTimes) /\ n + p <= n + q
        BY <1>6, <2>3, <4>1
      <4> QED
        BY <1>4, <1>7, <2>3, <4>1, <4>2 DEF PInv, TimesFit
    <3> QED
      BY <3>1, <3>2
  <2> QED
    BY <2>1, <2>2, <2>3 DEF TimesFit
<1>11. WithinLimit'
  <2> SUFFICES ASSUME ~setAhead',
                      NEW i \in 1 .. Len(published'), NEW j \in 1 .. Len(published'),
                      j - i >= maxPublishInWindow'
               PROVE  published'[j] - published'[i] > (WindowSeconds - 1) * TicksPerSecond
    BY DEF WithinLimit
  <2>1. CASE j = last
    <3>1. i \in 1 .. Dropped + n /\ i \in 1 .. Len(published)
      BY <1>e, <1>3, <1>4, <2>1, <1>a
    <3> QED
      BY <1>1, <1>2, <1>4, <2>1, <3>1, ExpiredAgo
  <2>2. CASE j # last
    <3>1. i \in 1 .. Len(published) /\ j \in 1 .. Len(published)
      <4>1. i <= j
        BY <1>3, <1>4, <1>a
      <4> QED
        BY <1>e, <2>2, <4>1
    <3> QED
      BY <1>2, <1>4, <3>1 DEF WithinLimit
  <2> QED
    BY <2>1, <2>2
<1> QED
  BY <1>5, <1>9, <1>10, <1>11 DEF PInv

LEMMA RefuseFits ==
    ASSUME ThrottleAssumption, PInv, WithinLimit, Refuse
    PROVE  PInv' /\ WithinLimit'
<1>a. /\ ticks \in Int /\ behind \in Int /\ Len(published) \in Nat /\ Len(publishTimes) \in Nat
      /\ Dropped \in Nat /\ Dropped + Len(publishTimes) = Len(published)
      /\ maxPublishInWindow \in Nat /\ maxPublishInWindow > 0 /\ Now \in Int
  BY ThrottleTypes
<1>1. PICK n \in 0 .. Len(publishTimes) :
          /\ Expired(n) /\ ~Room(n)
          /\ publishTimes' = Kept(n)
          /\ UNCHANGED <<clockVars, maxPublishInWindow, published, setVars>>
  BY DEF Refuse
<1>2. /\ ticks' = ticks /\ behind' = behind /\ maxPublishInWindow' = maxPublishInWindow
      /\ setBack' = setBack /\ setAhead' = setAhead /\ published' = published /\ Now' = Now
  BY <1>1 DEF clockVars, setVars, Now
<1> DEFINE m == Len(publishTimes) - n
<1>3. /\ publishTimes' \in Seq(Int) /\ Len(publishTimes') = m
      /\ \A p \in 1 .. m : publishTimes'[p] = publishTimes[n + p]
  BY <1>1, KeptEffect
<1>4. m \in Nat /\ m <= Len(publishTimes) /\ Dropped' = Dropped + n /\ Dropped + n <= Len(published)
  BY <1>2, <1>3, <1>a DEF Dropped
<1>5. \A p \in 1 .. m : /\ n + p \in 1 .. Len(publishTimes)
                        /\ Dropped' + p = Dropped + (n + p)
  BY <1>4, <1>a
<1> HIDE DEF m
<1>6. ThrottleTypeOK'
  BY <1>2, <1>3, <1>4, <1>a DEF PInv, ThrottleTypeOK
<1>7. LimitFits'
  <2>1. Dropped' >= 0
    BY <1>4, <1>a
  <2>2. \A i \in 1 .. Len(published') : published'[i] <= ticks'
    BY <1>2 DEF PInv, LimitFits
  <2>3. ~setAhead' =>
            \A p \in 1 .. Len(publishTimes') :
                published'[Dropped' + p]
                    < publishTimes'[p] * TicksPerSecond + TicksPerSecond + behind'
    BY <1>2, <1>3, <1>5 DEF PInv, LimitFits
  <2>4. ~setAhead' =>
            \A i \in 1 .. Dropped' :
                ticks' - published'[i] > (WindowSeconds - 1) * TicksPerSecond
    BY <1>1, <1>2, <1>4, ExpiredAgo
  <2> QED
    BY <2>1, <2>2, <2>3, <2>4 DEF LimitFits
<1>8. TimesFit'
  <2>1. \A i, j \in 1 .. Len(published') : i <= j => published'[i] <= published'[j]
    BY <1>2 DEF PInv, TimesFit
  <2>2. ~setBack' =>
            \A p \in 1 .. Len(publishTimes') :
                /\ publishTimes'[p] * TicksPerSecond <= published'[Dropped' + p] - behind'
                /\ publishTimes'[p] <= Now'
    BY <1>2, <1>3, <1>5 DEF PInv, TimesFit
  <2>3. ASSUME ~setBack', NEW p \in 1 .. Len(publishTimes'), NEW q \in 1 .. Len(publishTimes'),
               p <= q
        PROVE  publishTimes'[p] <= publishTimes'[q]
    <3>1. /\ n + p \in 1 .. Len(publishTimes) /\ n + q \in 1 .. Len(publishTimes)
          /\ n + p <= n + q
      BY <1>3, <1>5, <2>3
    <3> QED
      BY <1>2, <1>3, <2>3, <3>1 DEF PInv, TimesFit
  <2> QED
    BY <2>1, <2>2, <2>3 DEF TimesFit
<1> QED
  BY <1>2, <1>6, <1>7, <1>8 DEF PInv, WithinLimit

LEMMA ReplaceFits ==
    ASSUME ThrottleAssumption, PInv, Replace
    PROVE  PInv' /\ WithinLimit'
<1>1. maxPublishInWindow' \in Nat \ {0}
  BY AllowedFits DEF Replace, ThrottleAssumption
<1>2. Len(publishTimes') = 0 /\ Len(published') = 0 /\ publishTimes' = <<>> /\ published' = <<>>
  BY DEF Replace
<1>3. ThrottleTypeOK'
  <2>1. /\ publishTimes' \in Seq(Int) /\ published' \in Seq(0 .. MaxTicks)
        /\ Len(publishTimes') <= maxPublishInWindow'
    BY <1>1, <1>2, EmptyFits
  <2> QED
    BY <1>1, <2>1 DEF PInv, ThrottleTypeOK, Replace, clockVars
<1>4. Dropped' = 0
  BY <1>2 DEF Dropped
<1>5. LimitFits' /\ TimesFit' /\ WithinLimit'
  BY <1>2, <1>4 DEF LimitFits, TimesFit, WithinLimit
<1> QED
  BY <1>3, <1>5 DEF PInv

LEMMA TimePasses ==
    ASSUME ThrottleAssumption, PInv, WithinLimit, Tick \/ SetBack \/ SetAhead
    PROVE  PInv' /\ WithinLimit'
<1>w. /\ TicksPerSecond \in Int /\ TicksPerSecond > 0 /\ WindowSeconds \in Int
      /\ WindowSeconds * TicksPerSecond \in Int
      /\ (WindowSeconds - 1) * TicksPerSecond = WindowSeconds * TicksPerSecond - TicksPerSecond
  BY WindowFits
<1>a. /\ ticks \in Int /\ behind \in Int /\ Len(published) \in Nat /\ Len(publishTimes) \in Nat
      /\ Dropped \in Nat /\ Dropped + Len(publishTimes) = Len(published)
      /\ maxPublishInWindow \in Nat /\ maxPublishInWindow > 0 /\ Now \in Int
  BY ThrottleTypes
<1>b. /\ \A i \in 1 .. Len(published) : published[i] \in Int
      /\ \A p \in 1 .. Len(publishTimes) :
             publishTimes[p] \in Int /\ Dropped + p \in 1 .. Len(published)
  BY ThrottleTimes
<1>1. /\ publishTimes' = publishTimes /\ published' = published
      /\ maxPublishInWindow' = maxPublishInWindow /\ Dropped' = Dropped
  BY DEF Tick, SetBack, SetAhead, windowVars, Dropped
<1>2. /\ ticks' \in Int /\ ticks' >= ticks /\ behind' \in Int
      /\ ~setAhead' => ~setAhead /\ behind' >= behind
      /\ ~setBack' => ~setBack /\ behind' <= behind
  BY <1>a DEF Tick, SetBack, SetAhead, setVars
<1>3. ThrottleTypeOK'
  <2>1. ticks' \in 0 .. MaxTicks /\ behind' \in -MaxAhead .. MaxBehind
    <3>1. ticks \in 0 .. MaxTicks /\ behind \in -MaxAhead .. MaxBehind
      BY DEF PInv, ThrottleTypeOK
    <3>2. CASE Tick
      BY <3>1, <3>2 DEF Tick, ThrottleAssumption
    <3>3. CASE SetBack
      BY <3>1, <3>3 DEF SetBack, ThrottleAssumption
    <3>4. CASE SetAhead
      BY <3>1, <3>4 DEF SetAhead, ThrottleAssumption
    <3> QED
      BY <3>2, <3>3, <3>4
  <2>2. setBack' \in BOOLEAN /\ setAhead' \in BOOLEAN
    BY Zenon DEF Tick, SetBack, SetAhead, setVars, PInv, ThrottleTypeOK
  <2> QED
    BY <1>1, <2>1, <2>2 DEF PInv, ThrottleTypeOK
<1>4. LimitFits'
  <2>1. Dropped' >= 0
    BY <1>1 DEF PInv, LimitFits
  <2>2. ASSUME NEW i \in 1 .. Len(published') PROVE published'[i] <= ticks'
    <3>1. published[i] \in Int /\ published[i] <= ticks
      BY <1>1, <1>b DEF PInv, LimitFits
    <3> QED
      BY <1>1, <1>2, <1>a, <3>1
  <2>3. ASSUME ~setAhead', NEW p \in 1 .. Len(publishTimes')
        PROVE  published'[Dropped' + p]
                   < publishTimes'[p] * TicksPerSecond + TicksPerSecond + behind'
    <3>1. /\ published[Dropped + p] < publishTimes[p] * TicksPerSecond + TicksPerSecond + behind
          /\ published[Dropped + p] \in Int /\ publishTimes[p] * TicksPerSecond \in Int
      BY <1>1, <1>2, <2>3, <1>a, <1>b, <1>w, WindowBefore DEF PInv, LimitFits
    <3> QED
      BY <1>1, <1>2, <2>3, <3>1, <1>a, <1>w
  <2>4. ASSUME ~setAhead', NEW i \in 1 .. Dropped'
        PROVE  ticks' - published'[i] > (WindowSeconds - 1) * TicksPerSecond
    <3>1. /\ ticks - published[i] > (WindowSeconds - 1) * TicksPerSecond
          /\ published[i] \in Int /\ (WindowSeconds - 1) * TicksPerSecond \in Int
      BY <1>1, <1>2, <2>4, <1>a, <1>b, <1>w, WindowBefore DEF PInv, LimitFits
    <3> QED
      BY <1>1, <1>2, <3>1, <1>a
  <2> QED
    BY <2>1, <2>2, <2>3, <2>4 DEF LimitFits
<1>5. TimesFit'
  <2>1. \A i, j \in 1 .. Len(published') : i <= j => published'[i] <= published'[j]
    BY <1>1 DEF PInv, TimesFit
  <2>2. ASSUME ~setBack', NEW p \in 1 .. Len(publishTimes')
        PROVE  /\ publishTimes'[p] * TicksPerSecond <= published'[Dropped' + p] - behind'
               /\ publishTimes'[p] <= Now'
    <3>1. /\ publishTimes[p] * TicksPerSecond <= published[Dropped + p] - behind
          /\ publishTimes[p] <= Now
          /\ published[Dropped + p] \in Int /\ publishTimes[p] \in Int
          /\ publishTimes[p] * TicksPerSecond \in Int
      BY <1>1, <1>2, <2>2, <1>b, WindowBefore DEF PInv, TimesFit
    <3>2. /\ ticks \in Int /\ ticks' \in Int /\ ticks <= ticks'
          /\ behind \in Int /\ behind' \in Int /\ behind' <= behind
      BY <1>2, <2>2, <1>a
    <3>3. Now' \in Int /\ Now <= Now'
      <4>0. ticks - behind \in Int /\ ticks' - behind' \in Int
        BY <3>2
      <4>1. ticks - behind <= ticks' - behind'
        BY <3>2, LaterFits
      <4>2. (ticks - behind) \div TicksPerSecond <= (ticks' - behind') \div TicksPerSecond
        BY <4>0, <4>1, SecondsGrow
      <4>3. (ticks' - behind') \div TicksPerSecond \in Int
        BY <4>0, SecondsFit
      <4> QED
        BY <4>2, <4>3 DEF Now
    <3>4. publishTimes[p] * TicksPerSecond <= published[Dropped + p] - behind'
      BY <3>1, <3>2
    <3>5. publishTimes[p] <= Now'
      BY <3>1, <3>3, <1>a
    <3> QED
      BY <1>1, <3>4, <3>5
  <2>3. ~setBack' =>
            \A p, q \in 1 .. Len(publishTimes') : p <= q => publishTimes'[p] <= publishTimes'[q]
    BY <1>1, <1>2 DEF PInv, TimesFit
  <2> QED
    BY <2>1, <2>2, <2>3 DEF TimesFit
<1>6. WithinLimit'
  BY <1>1, <1>2 DEF WithinLimit
<1> QED
  BY <1>3, <1>4, <1>5, <1>6 DEF PInv

LEMMA ThrottleHolds ==
    ASSUME ThrottleAssumption PROVE ThrottleSpec => [](PInv /\ WithinLimit)
<1>1. ThrottleInit => PInv /\ WithinLimit
  <2> SUFFICES ASSUME ThrottleInit PROVE PInv /\ WithinLimit
    OBVIOUS
  <2>1. Len(published) = 0 /\ Len(publishTimes) = 0 /\ Dropped = 0
    BY DEF ThrottleInit, Dropped
  <2>2. ThrottleTypeOK
    <3>1. maxPublishInWindow \in Nat \ {0}
      BY AllowedFits DEF ThrottleInit
    <3>2. /\ publishTimes \in Seq(Int) /\ published \in Seq(0 .. MaxTicks)
          /\ Len(publishTimes) <= maxPublishInWindow
      BY <2>1, <3>1, EmptyFits DEF ThrottleInit
    <3>3. ticks \in 0 .. MaxTicks /\ behind \in -MaxAhead .. MaxBehind
      BY DEF ThrottleInit, ThrottleAssumption
    <3>4. setBack \in BOOLEAN /\ setAhead \in BOOLEAN
      BY Zenon DEF ThrottleInit
    <3> QED
      BY <3>1, <3>2, <3>3, <3>4 DEF ThrottleTypeOK
  <2> QED
    BY <2>1, <2>2 DEF PInv, LimitFits, TimesFit, WithinLimit
<1>2. PInv /\ WithinLimit /\ [ThrottleNext]_throttleVars => PInv' /\ WithinLimit'
  <2> SUFFICES ASSUME PInv, WithinLimit, [ThrottleNext]_throttleVars PROVE PInv' /\ WithinLimit'
    OBVIOUS
  <2>1. CASE Tick \/ SetBack \/ SetAhead
    BY <2>1, TimePasses
  <2>2. CASE Replace
    BY <2>2, ReplaceFits
  <2>3. CASE LetThrough
    BY <2>3, LetThroughFits
  <2>4. CASE Refuse
    BY <2>4, RefuseFits
  <2>5. CASE UNCHANGED throttleVars
    BY <2>5 DEF throttleVars, clockVars, windowVars, setVars, Now, PInv, ThrottleTypeOK,
              LimitFits, TimesFit, WithinLimit, Dropped
  <2> QED
    BY <2>1, <2>2, <2>3, <2>4, <2>5 DEF ThrottleNext
<1> QED
  BY <1>1, <1>2, PTL DEF ThrottleSpec

-----------------------------------------------------------------------------
(* The throttle: the theorems *)

\* The types of the throttle, and that it keeps no more times than it allows reports in a
\* window, for any interval that a host asks for (NewThrottle, CanPublish).
THEOREM ThrottleTypeCorrect ==
    ASSUME ThrottleAssumption PROVE ThrottleSpec => []ThrottleTypeOK
<1>1. PInv => ThrottleTypeOK
  BY DEF PInv
<1> QED
  BY <1>1, ThrottleHolds, PTL

\* A throttle lets no more reports through than allowed in a window less a second, whenever
\* they come and however the clock is set back, unless it is set ahead (CanPublish).
THEOREM LimitHolds ==
    ASSUME ThrottleAssumption PROVE ThrottleSpec => []WithinLimit
BY ThrottleHolds, PTL

\* A report is refused only for as many others as are allowed in the last window, unless the
\* clock was set back (CanPublish).
THEOREM RefusalsJustified ==
    ASSUME ThrottleAssumption PROVE ThrottleSpec => []RefusesAtLimitOnly
<1>1. PInv => RefusesAtLimitOnly
  <2> SUFFICES ASSUME PInv, ~setBack,
                      NEW n \in 0 .. Len(publishTimes), Expired(n), ~Room(n)
               PROVE  /\ Len(published) >= maxPublishInWindow
                      /\ published[Len(published) - maxPublishInWindow + 1]
                             > ticks - WindowSeconds * TicksPerSecond
    BY DEF RefusesAtLimitOnly
  <2>w. /\ TicksPerSecond \in Int /\ TicksPerSecond > 0 /\ WindowSeconds \in Int
        /\ WindowSeconds * TicksPerSecond \in Int
        /\ (WindowSeconds - 1) * TicksPerSecond = WindowSeconds * TicksPerSecond - TicksPerSecond
    BY WindowFits
  <2>a. /\ ticks \in Int /\ behind \in Int /\ Len(published) \in Nat /\ Len(publishTimes) \in Nat
        /\ Dropped \in Nat /\ Dropped + Len(publishTimes) = Len(published)
        /\ maxPublishInWindow \in Nat /\ maxPublishInWindow > 0 /\ Now \in Int
    BY ThrottleTypes
  <2>b. /\ \A i \in 1 .. Len(published) : published[i] \in Int
        /\ \A p \in 1 .. Len(publishTimes) :
               publishTimes[p] \in Int /\ Dropped + p \in 1 .. Len(published)
    BY ThrottleTimes
  <2> DEFINE p == Len(publishTimes) - maxPublishInWindow + 1
             first == n + 1
  <2>1. /\ first \in 1 .. Len(publishTimes) /\ p \in 1 .. Len(publishTimes) /\ first <= p
        /\ Dropped + p = Len(published) - maxPublishInWindow + 1
        /\ Len(published) >= maxPublishInWindow
    BY <2>a DEF Room, Dropped
  <2>2. publishTimes[first] > Now - WindowSeconds
    BY <2>1, <2>a DEF Expired
  <2> HIDE DEF p, first
  <2>3. /\ Dropped + first \in 1 .. Len(published) /\ Dropped + p \in 1 .. Len(published)
        /\ published[Dropped + first] \in Int /\ published[Dropped + p] \in Int
        /\ publishTimes[first] \in Int /\ publishTimes[p] \in Int
    BY <2>1, <2>a, <2>b
  <2>4. publishTimes[first] <= publishTimes[p]
    BY <2>1 DEF PInv, TimesFit
  <2>5. (Now - WindowSeconds + 1) * TicksPerSecond <= publishTimes[p] * TicksPerSecond
    <3>1. Now - WindowSeconds + 1 \in Int /\ Now - WindowSeconds + 1 <= publishTimes[p]
      BY <2>2, <2>3, <2>4, <2>a, <2>w, SMTT(30)
    <3> QED
      BY <2>3, <3>1, SecondsGrow
  <2>6. (Now - WindowSeconds + 1) * TicksPerSecond
            = Now * TicksPerSecond - WindowSeconds * TicksPerSecond + TicksPerSecond
    BY <2>a, WindowBefore
  <2>7. publishTimes[p] * TicksPerSecond <= published[Dropped + p] - behind
    BY <2>1 DEF PInv, TimesFit
  <2>8. ticks - behind < Now * TicksPerSecond + TicksPerSecond
    BY <2>a, SecondsFit DEF Now
  <2>9. Now * TicksPerSecond - WindowSeconds * TicksPerSecond + TicksPerSecond
             <= published[Dropped + p] - behind
    <3>1. /\ publishTimes[p] * TicksPerSecond \in Int /\ Now * TicksPerSecond \in Int
      BY <2>3, <2>a, WindowBefore
    <3>2. published[Dropped + p] - behind \in Int
      BY <2>3, <2>a
    <3> QED
      BY <2>5, <2>6, <2>7, <3>1, <3>2, <2>w, SMTT(30)
  <2>10. published[Dropped + p] > ticks - WindowSeconds * TicksPerSecond
    <3>1. Now * TicksPerSecond \in Int
      BY <2>a, WindowBefore
    <3> QED
      BY <2>3, <2>8, <2>9, <2>a, <3>1, <2>w
  <2> QED
    BY <2>1, <2>10
<1> QED
  BY <1>1, ThrottleHolds, PTL
==============================================================================
