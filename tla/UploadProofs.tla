---------------------------- MODULE UploadProofs ----------------------------
(***************************************************************************)
(* Proofs about what the daemon uploads when the host asks for it: about   *)
(* Thumbnails, for any channels, uploaders, viewers, length of a           *)
(* subscription and number of messages and faults, and about Logger, for   *)
(* any size and number of files, and number of uploads and faults.         *)
(***************************************************************************)
EXTENDS Thumbnails, Logger, SequenceTheorems, TLAPS

-----------------------------------------------------------------------------
(* Thumbnails: the inductive invariants *)

\* An uploader begins at most one upload after it was stopped, and then waits.
LateFits ==
    \A u \in Uploader :
        /\ uploader[u].overrun <= 1
        /\ uploader[u].pc \in {"none", "check"} \/ ~uploader[u].stopped => uploader[u].overrun = 0

\* The manager has no uploader that was stopped.
ManagerFits == \A c \in Channel : manager[c] # None => ~uploader[manager[c]].stopped

\* The retained request is the last: no subscription lasts longer.
RetainedFits == retained # None => \A c \in Channel : retained.left >= subscription[c]

\* The channel is being served for as long as it is subscribed, and no handler is to
\* run that would replace its uploader.
Served(c) ==
    /\ manager[c] # None /\ uploader[manager[c]].left >= subscription[c]
    /\ \A i \in 1 .. Len(inbox) : inbox[i].channel # c

\* A request for the channel waits for its handler, and no later one is shorter.
Coming(c) ==
    \E i \in 1 .. Len(inbox) :
        /\ inbox[i].channel = c
        /\ \A j \in i .. Len(inbox) : inbox[j].channel = c => inbox[j].left >= subscription[c]

\* The request is retained for a device that is not connected.
Kept(c) == ~link /\ retained # None /\ retained.channel = c

StandFits ==
    \A c \in Channel \ forsaken :
        subscription[c] > 0 => Served(c) \/ Coming(c) \/ Kept(c)

UInv == OneUploader /\ ManagerFits

SInv == RetainedFits /\ StandFits

-----------------------------------------------------------------------------
(* Lemmas about the operators *)

LEMMA NoneApart == None \notin Channel /\ None \notin Uploader /\ None \notin Request
BY NoneAssumption

LEMMA LessFits ==
    /\ \A n \in Ticks : Less(n) \in Ticks /\ Less(n) <= n
    /\ \A m, n \in Ticks : m <= n => Less(m) <= Less(n)
BY BoundAssumption DEF Less, Ticks

LEMMA LessLeftFits ==
    ASSUME NEW r \in Request
    PROVE  LessLeft(r) \in Request /\ LessLeft(r).channel = r.channel /\ LessLeft(r).left = Less(r.left)
<1>1. Less(r.left) \in Ticks
    BY LessFits DEF Request
<1> QED BY <1>1 DEF LessLeft, Request

LEMMA NoUploaderFits == NoUploader \in Goroutine
BY BoundAssumption DEF NoUploader, Goroutine, Ticks

LEMMA NewUploaderFits ==
    ASSUME NEW r \in Request
    PROVE  /\ NewUploader(r) \in Goroutine
           /\ NewUploader(r).pc = "check" /\ NewUploader(r).channel = r.channel
           /\ NewUploader(r).left = r.left
           /\ ~NewUploader(r).stopped /\ NewUploader(r).overrun = 0
BY NoUploaderFits DEF NewUploader, NoUploader, Goroutine, Request

LEMMA StopFits ==
    ASSUME NEW g \in Goroutine
    PROVE  /\ Stop(g) \in Goroutine
           /\ Stop(g).pc = g.pc /\ Stop(g).channel = g.channel /\ Stop(g).left = g.left
           /\ Stop(g).overrun = g.overrun
           /\ g.stopped \/ g.pc # "none" => Stop(g).stopped
           /\ g.pc = "none" => Stop(g) = g
BY DEF Stop, Goroutine

LEMMA ContinueFits ==
    ASSUME NEW g \in Goroutine
    PROVE  /\ Continue(g) \in Goroutine
           /\ Continue(g).channel = g.channel /\ Continue(g).stopped = g.stopped
           /\ Continue(g).overrun = g.overrun
           /\ g.pc # "wait" => Continue(g) = g
           /\ g.pc = "wait" => Continue(g).pc = "check" /\ Continue(g).left = Less(g.left)
<1>1. Less(g.left) \in Ticks
    BY LessFits DEF Goroutine
<1>2. CASE g.pc = "wait"
  <2>1. Continue(g) = [g EXCEPT !.left = Less(g.left), !.pc = "check"]
      BY <1>2 DEF Continue, LessLeft, Goroutine
  <2> QED BY <1>1, <1>2, <2>1 DEF Goroutine
<1> QED BY <1>2 DEF Continue

LEMMA Removed == ASSUME NEW S, NEW s \in Seq(S), NEW i \in 1 .. Len(s)
  PROVE /\ RemoveAt(s,i) \in Seq(S) /\ Len(RemoveAt(s,i)) = Len(s) - 1
        /\ \A j \in 1 .. Len(s)-1 : RemoveAt(s,i)[j] = IF j < i THEN s[j] ELSE s[j+1]
<1> DEFINE a == SubSeq(s, 1, i - 1)
           b == SubSeq(s, i + 1, Len(s))
<1>1. a \in Seq(S) /\ Len(a) = i - 1 /\ \A j \in 1 .. i - 1 : a[j] = s[j]
    BY SubSeqProperties
<1>2. b \in Seq(S) /\ Len(b) = Len(s) - i /\ \A j \in 1 .. Len(s) - i : b[j] = s[i + j]
  <2>1. i + 1 \in 1 .. Len(s) + 1 /\ Len(s) \in (i + 1) - 1 .. Len(s)
      OBVIOUS
  <2>2. /\ b \in Seq(S)
        /\ Len(b) = IF i + 1 <= Len(s) THEN Len(s) - (i + 1) + 1 ELSE 0
        /\ \A j \in 1 .. Len(s) - (i + 1) + 1 : b[j] = s[(i + 1) + j - 1]
      BY <2>1, SubSeqProperties
  <2> QED BY <2>2
<1>3. RemoveAt(s, i) = a \o b
    BY DEF RemoveAt
<1> HIDE DEF a, b
<1>4. /\ a \o b \in Seq(S)
      /\ Len(a \o b) = Len(a) + Len(b)
      /\ \A j \in 1 .. Len(a) + Len(b) : (a \o b)[j] = IF j <= Len(a) THEN a[j] ELSE b[j - Len(a)]
    BY <1>1, <1>2, ConcatProperties
<1>5. Len(s) \in Nat /\ Len(a) + Len(b) = Len(s) - 1
    BY <1>1, <1>2
<1>6. ASSUME NEW j \in 1 .. Len(s) - 1
      PROVE  (a \o b)[j] = IF j < i THEN s[j] ELSE s[j + 1]
  <2>1. CASE j < i
      BY <2>1, <1>1, <1>4, <1>5
  <2>2. CASE ~(j < i)
    <3>1. PICK k \in 1 .. Len(s) - i : k = j - (i - 1)
        BY <2>2, <1>5
    <3>2. (a \o b)[j] = b[k]
        BY <2>2, <3>1, <1>1, <1>4, <1>5
    <3> QED BY <2>2, <3>1, <3>2, <1>2
  <2> QED BY <2>1, <2>2
<1> QED BY <1>3, <1>4, <1>5, <1>6

-----------------------------------------------------------------------------
(* What the actions do, in terms of these *)

\* The connection is cut: the messages that are left are the first.
LEMMA CutEffect ==
    ASSUME TypeOK, Cut
    PROVE  /\ link' = FALSE /\ inbox' \in Seq(Request)
           /\ Len(inbox') <= Len(inbox) /\ Len(inbox') <= MaxInbox
           /\ \A j \in 1 .. Len(inbox') : inbox'[j] = inbox[j]
<1>1. PICK n \in 0 .. Len(inbox) : inbox' = SubSeq(inbox, 1, n)
    BY DEF Cut
<1>2. inbox \in Seq(Request) /\ Len(inbox) \in Nat /\ Len(inbox) <= MaxInbox
    BY DEF TypeOK
<1>3. \A j \in 1 .. n : inbox[j] \in Request
    BY <1>2
<1>4. /\ SubSeq(inbox, 1, n) \in Seq(Request)
      /\ Len(SubSeq(inbox, 1, n)) = IF 1 <= n THEN n - 1 + 1 ELSE 0
      /\ \A j \in 1 .. n - 1 + 1 : SubSeq(inbox, 1, n)[j] = inbox[1 + j - 1]
    BY <1>2, <1>3, SubSeqProperties
<1>5. Len(inbox') = n /\ \A j \in 1 .. n : inbox'[j] = inbox[j]
    BY <1>1, <1>2, <1>4
<1>6. Len(inbox') <= Len(inbox) /\ Len(inbox') <= MaxInbox
    BY <1>2, <1>5, BoundAssumption
<1> QED BY <1>1, <1>4, <1>5, <1>6 DEF Cut

\* A request is delivered.
LEMMA DeliverEffect ==
    ASSUME TypeOK, NEW r \in Request, Len(inbox) < MaxInbox, inbox' = Append(inbox, r)
    PROVE  /\ inbox' \in Seq(Request) /\ Len(inbox') <= MaxInbox
           /\ Len(inbox') = Len(inbox) + 1 /\ inbox'[Len(inbox')] = r
           /\ \A j \in 1 .. Len(inbox) : inbox'[j] = inbox[j]
<1>1. inbox \in Seq(Request) /\ Len(inbox) \in Nat
    BY DEF TypeOK
<1> QED BY <1>1, AppendProperties, BoundAssumption

\* A handler has started an uploader and stopped the one before it.
UpdateBy(i, new) ==
    LET c == inbox[i].channel
    IN  /\ i \in 1 .. Len(inbox) /\ inbox[i] \in Request
        /\ uploader[new].pc = "none"
        /\ uploader'[new] = NewUploader(inbox[i])
        /\ \A u \in Uploader \ {new} :
              uploader'[u] = IF u = manager[c] THEN Stop(uploader[u]) ELSE uploader[u]
        /\ manager'[c] = new /\ \A d \in Channel \ {c} : manager'[d] = manager[d]

LEMMA UpdateEffect ==
    ASSUME TypeOK, NEW i \in 1 .. MaxInbox, UpdateThumbnail(i)
    PROVE  /\ \E new \in Uploader : UpdateBy(i, new)
           /\ uploader' \in [Uploader -> Goroutine]
           /\ manager' \in [Channel -> Uploader \cup {None}]
<1>1. inbox \in Seq(Request) /\ i \in 1 .. Len(inbox) /\ inbox[i] \in Request
    BY DEF TypeOK, UpdateThumbnail
<1>2. PICK new \in Uploader : new = (CHOOSE u \in Free : TRUE) /\ uploader[new].pc = "none"
    BY DEF UpdateThumbnail, Free
<1> DEFINE c == inbox[i].channel
<1>3. c \in Channel
    BY <1>1 DEF Request
<1>4. /\ uploader' = [u \in Uploader |-> IF u = new THEN NewUploader(inbox[i])
                                         ELSE IF u = manager[c] THEN Stop(uploader[u])
                                         ELSE uploader[u]]
      /\ manager' = [manager EXCEPT ![c] = new]
    BY <1>2 DEF UpdateThumbnail
<1>5. NewUploader(inbox[i]) \in Goroutine /\ \A g \in Goroutine : Stop(g) \in Goroutine
    BY <1>1, NewUploaderFits, StopFits
<1>6. /\ uploader' \in [Uploader -> Goroutine]
      /\ manager' \in [Channel -> Uploader \cup {None}]
    BY <1>3, <1>4, <1>5 DEF TypeOK
<1>7. UpdateBy(i, new)
    BY <1>1, <1>2, <1>3, <1>4 DEF UpdateBy, TypeOK
<1> QED BY <1>6, <1>7

\* An uploader begins an upload.
LEMMA CheckEffect ==
    ASSUME TypeOK, NEW u \in Uploader, Check(u), uploader[u].left # 0
    PROVE  /\ uploader' \in [Uploader -> Goroutine]
           /\ \A v \in Uploader \ {u} : uploader'[v] = uploader[v]
           /\ uploader'[u].pc = "upload" /\ uploader'[u].channel = uploader[u].channel
           /\ uploader'[u].left = uploader[u].left /\ uploader'[u].stopped = uploader[u].stopped
           /\ uploader'[u].overrun = IF uploader[u].stopped THEN uploader[u].overrun + 1
                                     ELSE uploader[u].overrun
           /\ manager' = manager
<1> DEFINE n == IF uploader[u].stopped THEN uploader[u].overrun + 1 ELSE uploader[u].overrun
           g == [uploader[u] EXCEPT !.pc = "upload", !.overrun = n]
<1>1. uploader[u] \in Goroutine
    BY DEF TypeOK
<1>2. n \in Nat
    BY <1>1 DEF Goroutine
<1>3. g \in Goroutine
    BY <1>1, <1>2 DEF Goroutine
<1>4. uploader' = [uploader EXCEPT ![u] = g] /\ manager' = manager
    BY DEF Check, TypeOK
<1> QED BY <1>1, <1>3, <1>4 DEF TypeOK, Goroutine

\* An uploader ends.
LEMMA EndEffect ==
    ASSUME TypeOK, NEW u \in Uploader, End(u)
    PROVE  /\ uploader' \in [Uploader -> Goroutine]
           /\ manager' \in [Channel -> Uploader \cup {None}]
           /\ \A v \in Uploader \ {u} : uploader'[v] = uploader[v]
           /\ uploader'[u] = NoUploader
           /\ \A c \in Channel : manager'[c] = IF manager[c] = u THEN None ELSE manager[c]
BY NoUploaderFits DEF TypeOK, End

\* The session ends: the uploaders that the manager has are stopped.
LEMMA ResetEffect ==
    ASSUME TypeOK, Reset
    PROVE  /\ uploader' \in [Uploader -> Goroutine]
           /\ \A u \in Uploader :
                 uploader'[u] = IF \E c \in Channel : manager[c] = u THEN Stop(uploader[u])
                                ELSE uploader[u]
           /\ manager' = [c \in Channel |-> None]
BY StopFits DEF TypeOK, Reset

\* Time passes.
LEMMA TickEffect ==
    ASSUME TypeOK, Tick
    PROVE  /\ uploader' \in [Uploader -> Goroutine]
           /\ \A u \in Uploader : uploader'[u] = Continue(uploader[u])
           /\ inbox' \in Seq(Request) /\ Len(inbox') = Len(inbox)
           /\ \A i \in 1 .. Len(inbox) : inbox'[i] = LessLeft(inbox[i])
           /\ subscription' \in [Channel -> Ticks]
           /\ \A c \in Channel : subscription'[c] = Less(subscription[c])
<1>1. inbox \in Seq(Request) /\ Len(inbox) \in Nat /\ DOMAIN inbox = 1 .. Len(inbox)
    BY DEF TypeOK
<1>2. \A i \in 1 .. Len(inbox) : LessLeft(inbox[i]) \in Request
    BY <1>1, LessLeftFits
<1>3. inbox' = [i \in 1 .. Len(inbox) |-> LessLeft(inbox[i])]
    BY <1>1 DEF Tick
<1>4. inbox' \in Seq(Request) /\ Len(inbox') = Len(inbox)
    BY <1>1, <1>2, <1>3
<1>5. /\ uploader' \in [Uploader -> Goroutine]
      /\ \A u \in Uploader : uploader'[u] = Continue(uploader[u])
    BY ContinueFits DEF TypeOK, Tick
<1>6. /\ subscription' \in [Channel -> Ticks]
      /\ \A c \in Channel : subscription'[c] = Less(subscription[c])
    BY LessFits DEF TypeOK, Tick
<1> QED BY <1>3, <1>4, <1>5, <1>6

-----------------------------------------------------------------------------
(* Types *)

LEMMA TypeInit == Init => TypeOK
<1> SUFFICES ASSUME Init PROVE TypeOK
    OBVIOUS
<1>1. link \in BOOLEAN
    BY Zenon DEF Init
<1>2. uploader \in [Uploader -> Goroutine]
    BY NoUploaderFits DEF Init
<1>3. \A u \in Uploader : uploader[u].pc = "none" /\ uploader[u].channel = None
    BY DEF Init, NoUploader
<1> QED BY <1>1, <1>2, <1>3, BoundAssumption DEF Init, TypeOK, Ticks

LEMMA EndKeepsTypes ==
    ASSUME TypeOK, NEW u \in Uploader, End(u),
           UNCHANGED <<hostVars, link, inbox, fresh, faults, forsaken>>
    PROVE  TypeOK'
<1>1. uploader'[u].pc = "none" /\ uploader'[u].channel = None
    BY EndEffect DEF NoUploader
<1>2. \A v \in Uploader : uploader'[v].pc = "none" <=> uploader'[v].channel = None
    BY <1>1, EndEffect DEF TypeOK
<1>3. \A c \in Channel : manager'[c] # None => uploader'[manager'[c]].channel = c
    BY EndEffect DEF TypeOK
<1> QED BY <1>2, <1>3, EndEffect DEF TypeOK, hostVars

LEMMA TypeStep == ASSUME TypeOK, [Next]_vars PROVE TypeOK'
<1> USE NoneApart, BoundAssumption
<1>1. ASSUME NEW c \in Channel, GetThumbnail(c) PROVE TypeOK'
    BY <1>1 DEF TypeOK, GetThumbnail, daemonVars
<1>2. ASSUME NEW c \in Channel, RequestThumbnail(c) PROVE TypeOK'
  <2> DEFINE r == [channel |-> c, left |-> Lifetime]
  <2>1. r \in Request
      BY DEF Request, Ticks
  <2>2. inbox' \in Seq(Request) /\ Len(inbox') <= MaxInbox
    <3>1. CASE link
        BY <1>2, <2>1, <3>1, DeliverEffect DEF RequestThumbnail
    <3>2. CASE ~link
        BY <1>2, <3>2 DEF RequestThumbnail, TypeOK
    <3> QED BY <3>1, <3>2
  <2>3. subscription' \in [Channel -> Ticks] /\ asking' \in [Channel -> 0 .. MaxViewers]
      BY <1>2 DEF RequestThumbnail, TypeOK, Ticks
  <2>4. forsaken' \subseteq Channel
      BY <1>2 DEF RequestThumbnail, TypeOK, Request
  <2>5. retained' = r /\ UNCHANGED <<link, daemonVars, fresh, faults>>
      BY <1>2 DEF RequestThumbnail
  <2> QED BY <2>1, <2>2, <2>3, <2>4, <2>5 DEF TypeOK, daemonVars
<1>3. CASE HostRestart
  <2>1. link' \in BOOLEAN
      BY <1>3, Zenon DEF HostRestart
  <2> QED BY <1>3, <2>1 DEF TypeOK, HostRestart, Ticks, daemonVars
<1>4. CASE Connect
  <2>1. inbox' \in Seq(Request) /\ Len(inbox') <= MaxInbox
    <3>1. CASE retained # None
        BY <1>4, <3>1, DeliverEffect DEF Connect, TypeOK
    <3>2. CASE retained = None
        BY <1>4, <3>2 DEF Connect, TypeOK
    <3> QED BY <3>1, <3>2
  <2> QED BY <1>4, <2>1 DEF TypeOK, Connect, hostVars, daemonVars
<1>5. CASE Lose
  <2>1. link' = FALSE /\ inbox' \in Seq(Request) /\ Len(inbox') <= MaxInbox
      BY <1>5, CutEffect DEF Lose
  <2>2. {inbox[i].channel : i \in DOMAIN inbox} \subseteq Channel
    <3>1. \A i \in DOMAIN inbox : inbox[i] \in Request
        BY DEF TypeOK
    <3> QED BY <3>1 DEF Request
  <2>3. faults' \in 0 .. MaxFaults /\ forsaken' \subseteq Channel
      BY <1>5, <2>2 DEF Lose, TypeOK
  <2>4. link' \in BOOLEAN
      BY <2>1, Zenon
  <2> QED BY <1>5, <2>1, <2>3, <2>4 DEF TypeOK, Lose, hostVars, daemonVars
<1>6. CASE Reset
  <2>1. link' = FALSE /\ inbox' \in Seq(Request) /\ Len(inbox') <= MaxInbox
      BY <1>6, CutEffect DEF Reset
  <2>2. faults' \in 0 .. MaxFaults /\ forsaken' \subseteq Channel
      BY <1>6 DEF Reset, TypeOK
  <2>3. link' \in BOOLEAN
      BY <2>1, Zenon
  <2>4. \A u \in Uploader : uploader[u] \in Goroutine
      BY DEF TypeOK
  <2>5. \A u \in Uploader : uploader'[u].pc = "none" <=> uploader'[u].channel = None
      BY SMTT(30), <1>6, <2>4, ResetEffect, StopFits DEF TypeOK
  <2> QED BY <1>6, <2>1, <2>2, <2>3, <2>5, ResetEffect DEF TypeOK, Reset, hostVars
<1>7. ASSUME NEW i \in 1 .. MaxInbox, UpdateThumbnail(i) PROVE TypeOK'
  <2>1. PICK new \in Uploader : UpdateBy(i, new)
      BY <1>7, UpdateEffect
  <2>2. inbox' \in Seq(Request) /\ Len(inbox') <= MaxInbox
      BY <1>7, <2>1, Removed DEF UpdateThumbnail, UpdateBy, TypeOK
  <2>3. \A u \in Uploader : uploader[u] \in Goroutine
      BY DEF TypeOK
  <2>4. \A u \in Uploader \ {new} :
           uploader'[u].pc = uploader[u].pc /\ uploader'[u].channel = uploader[u].channel
      BY <2>1, <2>3, StopFits DEF UpdateBy
  <2>5. uploader'[new].pc = "check" /\ uploader'[new].channel = inbox[i].channel
      BY <2>1, NewUploaderFits DEF UpdateBy
  <2>6. \A u \in Uploader : uploader'[u].pc = "none" <=> uploader'[u].channel = None
      BY <2>1, <2>4, <2>5 DEF UpdateBy, Request, TypeOK
  <2>7. \A c \in Channel : manager'[c] # None => uploader'[manager'[c]].channel = c
      BY <2>1, <2>4, <2>5 DEF UpdateBy, TypeOK
  <2>8. forsaken' \subseteq Channel
      BY <1>7, <2>1 DEF UpdateThumbnail, UpdateBy, TypeOK, Request
  <2> QED BY <1>7, <2>2, <2>6, <2>7, <2>8, UpdateEffect DEF TypeOK, UpdateThumbnail, hostVars
<1>8. ASSUME NEW u \in Uploader, Check(u) PROVE TypeOK'
  <2>1. CASE uploader[u].left = 0
    <3>1. End(u) /\ UNCHANGED <<hostVars, link, inbox, fresh, faults, forsaken>>
        BY <1>8, <2>1 DEF Check
    <3> QED BY <3>1, EndKeepsTypes
  <2>2. CASE uploader[u].left # 0
    <3>1. uploader[u].pc = "check" /\ UNCHANGED <<hostVars, link, inbox, fresh, faults, forsaken>>
        BY <1>8 DEF Check
    <3>2. \A v \in Uploader : uploader'[v].pc = "none" <=> uploader'[v].channel = None
      <4>1. uploader'[u].pc = "upload" /\ uploader'[u].channel = uploader[u].channel
          BY <1>8, <2>2, CheckEffect
      <4>2. uploader[u].channel # None
          BY <3>1 DEF TypeOK
      <4>3. \A v \in Uploader \ {u} : uploader'[v] = uploader[v]
          BY <1>8, <2>2, CheckEffect
      <4> QED BY <4>1, <4>2, <4>3 DEF TypeOK
    <3>3. \A c \in Channel : manager'[c] # None => uploader'[manager'[c]].channel = c
        BY <1>8, <2>2, CheckEffect DEF TypeOK
    <3> QED BY <1>8, <2>2, <3>1, <3>2, <3>3, CheckEffect DEF TypeOK, hostVars
  <2> QED BY <2>1, <2>2
<1>9. ASSUME NEW u \in Uploader, Upload(u) PROVE TypeOK'
  <2> DEFINE g == [uploader[u] EXCEPT !.pc = "wait"]
  <2>1. uploader[u] \in Goroutine
      BY DEF TypeOK
  <2>2. g \in Goroutine
      BY <2>1 DEF Goroutine
  <2>3. uploader' = [uploader EXCEPT ![u] = g]
      BY <1>9 DEF Upload, TypeOK
  <2>4. uploader' \in [Uploader -> Goroutine]
      BY <2>2, <2>3 DEF TypeOK
  <2> QED BY SMTT(30), <1>9, <2>1, <2>3, <2>4 DEF Upload, TypeOK, Goroutine, hostVars
<1>10. ASSUME NEW u \in Uploader, Wait(u) PROVE TypeOK'
    BY <1>10, EndKeepsTypes DEF Wait
<1>11. CASE Tick
  <2>1. \A u \in Uploader : uploader[u] \in Goroutine
      BY DEF TypeOK
  <2>2. \A u \in Uploader :
           /\ uploader'[u].channel = uploader[u].channel
           /\ uploader'[u].pc = "none" <=> uploader[u].pc = "none"
      BY <1>11, <2>1, TickEffect, ContinueFits
  <2>3. retained' \in Request \cup {None}
      BY <1>11, LessLeftFits DEF Tick, TypeOK
  <2>4. faults' \in 0 .. MaxFaults /\ fresh' \subseteq Channel
      BY <1>11 DEF Tick, TypeOK
  <2> QED BY ZenonT(30), <1>11, <2>2, <2>3, <2>4, TickEffect DEF Tick, TypeOK
<1>12. CASE UNCHANGED vars
    BY <1>12 DEF TypeOK, vars, hostVars, daemonVars
<1> QED
    BY <1>1, <1>2, <1>3, <1>4, <1>5, <1>6, <1>7, <1>8, <1>9, <1>10, <1>11, <1>12
    DEF Next, RunUploader

-----------------------------------------------------------------------------
(* Uploaders and their manager *)

\* The goroutines are of their type in both states of a step.
LEMMA GoroutineTypes ==
    ASSUME TypeOK PROVE \A u \in Uploader : uploader[u] \in Goroutine
BY DEF TypeOK

\* The upload is over, and the uploader waits.
LEMMA UploadEffect ==
    ASSUME TypeOK, NEW u \in Uploader, Upload(u)
    PROVE  /\ \A v \in Uploader \ {u} : uploader'[v] = uploader[v]
           /\ uploader'[u].pc = "wait" /\ uploader'[u].channel = uploader[u].channel
           /\ uploader'[u].left = uploader[u].left /\ uploader'[u].stopped = uploader[u].stopped
           /\ uploader'[u].overrun = uploader[u].overrun
           /\ manager' = manager
BY GoroutineTypes DEF Upload, TypeOK, Goroutine

\* What RunUploader may do: end, begin an upload, or finish it.
Ends(u) == uploader[u].pc # "none" /\ End(u) /\ UNCHANGED <<hostVars, link, inbox, forsaken>>

LEMMA CheckOrEnd ==
    ASSUME NEW u \in Uploader, Check(u) \/ Wait(u)
    PROVE  \/ Ends(u) /\ (uploader[u].left = 0 \/ uploader[u].stopped)
           \/ Check(u) /\ uploader[u].pc = "check" /\ uploader[u].left # 0
BY DEF Check, Wait, Ends

LEMMA LateStep == ASSUME TypeOK, LateFits, [Next]_vars PROVE LateFits'
<1>1. CASE UNCHANGED daemonVars
    BY <1>1 DEF daemonVars, LateFits
<1>2. CASE Reset
    BY <1>2, GoroutineTypes, ResetEffect, StopFits DEF LateFits
<1>3. ASSUME NEW i \in 1 .. MaxInbox, UpdateThumbnail(i) PROVE LateFits'
  <2>1. PICK new \in Uploader : UpdateBy(i, new)
      BY <1>3, UpdateEffect
  <2>2. uploader'[new].overrun = 0
      BY <2>1, NewUploaderFits DEF UpdateBy
  <2>3. \A u \in Uploader \ {new} :
           /\ uploader'[u].pc = uploader[u].pc /\ uploader'[u].overrun = uploader[u].overrun
           /\ uploader[u].stopped => uploader'[u].stopped
      BY <2>1, GoroutineTypes, StopFits DEF UpdateBy
  <2> QED BY <2>2, <2>3 DEF LateFits
<1>4. ASSUME NEW u \in Uploader, Ends(u) PROVE LateFits'
    BY <1>4, EndEffect DEF Ends, LateFits, NoUploader
<1>5. ASSUME NEW u \in Uploader, Check(u), uploader[u].pc = "check", uploader[u].left # 0
      PROVE  LateFits'
  <2>1. uploader[u].overrun = 0
      BY <1>5 DEF LateFits
  <2>2. /\ uploader'[u].pc = "upload"
        /\ uploader'[u].overrun = IF uploader[u].stopped THEN 1 ELSE 0
        /\ uploader'[u].stopped = uploader[u].stopped
      BY <1>5, <2>1, CheckEffect
  <2>3. \A v \in Uploader \ {u} : uploader'[v] = uploader[v]
      BY <1>5, CheckEffect
  <2> QED BY <2>2, <2>3 DEF LateFits
<1>6. ASSUME NEW u \in Uploader, Upload(u) PROVE LateFits'
    BY <1>6, UploadEffect DEF LateFits, Upload
<1>7. CASE Tick
  <2>1. \A u \in Uploader :
           /\ uploader'[u].overrun = uploader[u].overrun
           /\ uploader[u].pc = "wait" => ~uploader[u].stopped
      BY <1>7, GoroutineTypes, TickEffect, ContinueFits DEF Tick
  <2>2. \A u \in Uploader : uploader[u].pc \in {"none", "wait"}
      BY <1>7 DEF Tick
  <2> QED BY <2>1, <2>2 DEF LateFits
<1> QED
    BY <1>1, <1>2, <1>3, <1>4, <1>5, <1>6, <1>7, CheckOrEnd
    DEF Next, RunUploader, GetThumbnail, RequestThumbnail, HostRestart, Connect, Lose, vars

LEMMA ManagerStep == ASSUME TypeOK, UInv, [Next]_vars PROVE UInv'
<1> USE NoneApart
<1>1. CASE UNCHANGED daemonVars
    BY <1>1 DEF daemonVars, UInv, OneUploader, ManagerFits
<1>2. CASE Reset
  <2>1. ManagerFits'
      BY <1>2, ResetEffect DEF ManagerFits
  <2>2. ASSUME NEW u \in Uploader, uploader'[u].pc # "none" PROVE uploader'[u].stopped
    <3>1. CASE \E c \in Channel : manager[c] = u
        BY <1>2, <2>2, <3>1, GoroutineTypes, ResetEffect, StopFits
    <3>2. CASE ~\E c \in Channel : manager[c] = u
      <4>1. uploader'[u] = uploader[u]
          BY <1>2, <3>2, ResetEffect
      <4>2. uploader[u].channel \in Channel
          BY <2>2, <4>1 DEF TypeOK, Goroutine
      <4> QED BY <2>2, <3>2, <4>1, <4>2 DEF UInv, OneUploader
    <3> QED BY <3>1, <3>2
  <2> QED BY <2>1, <2>2 DEF UInv, OneUploader
<1>3. ASSUME NEW i \in 1 .. MaxInbox, UpdateThumbnail(i) PROVE UInv'
  <2>1. PICK new \in Uploader : UpdateBy(i, new)
      BY <1>3, UpdateEffect
  <2> DEFINE c == inbox[i].channel
  <2>2. c \in Channel /\ manager'[c] = new /\ \A d \in Channel \ {c} : manager'[d] = manager[d]
      BY <2>1 DEF UpdateBy, Request
  <2>3. uploader'[new].channel = c /\ ~uploader'[new].stopped
      BY <2>1, NewUploaderFits DEF UpdateBy
  <2>4. \A d \in Channel : manager[d] # new
      BY <2>1 DEF UpdateBy, TypeOK
  <2>5. \A d \in Channel \ {c} :
           manager[d] # None => manager[d] # manager[c] /\ uploader'[manager[d]] = uploader[manager[d]]
      BY <2>1, <2>2, <2>4 DEF UpdateBy, TypeOK
  <2>6. ManagerFits'
      BY <2>2, <2>3, <2>5 DEF ManagerFits, UInv
  <2>7. ASSUME NEW u \in Uploader \ {new}, uploader'[u].pc # "none", ~uploader'[u].stopped
        PROVE  manager'[uploader'[u].channel] = u
    <3>1. u # manager[c]
        BY <2>1, <2>7, GoroutineTypes, StopFits DEF UpdateBy
    <3>2. uploader'[u] = uploader[u]
        BY <2>1, <3>1 DEF UpdateBy
    <3>3. uploader[u].channel \in Channel /\ manager[uploader[u].channel] = u
        BY <2>7, <3>2 DEF UInv, OneUploader, TypeOK, Goroutine
    <3> QED BY <2>2, <3>1, <3>2, <3>3
  <2> QED BY <2>2, <2>3, <2>6, <2>7 DEF UInv, OneUploader
<1>4. ASSUME NEW u \in Uploader, Ends(u) PROVE UInv'
  <2>1. /\ \A v \in Uploader \ {u} : uploader'[v] = uploader[v]
        /\ uploader'[u].pc = "none"
        /\ \A c \in Channel : manager'[c] = IF manager[c] = u THEN None ELSE manager[c]
      BY <1>4, EndEffect DEF Ends, NoUploader
  <2>2. \A v \in Uploader : uploader[v].pc # "none" => uploader[v].channel \in Channel
      BY DEF TypeOK, Goroutine
  <2> QED BY SMTT(30), <2>1, <2>2 DEF UInv, OneUploader, ManagerFits, TypeOK
<1>5. ASSUME NEW u \in Uploader, Check(u), uploader[u].pc = "check", uploader[u].left # 0
      PROVE  UInv'
  <2>1. /\ \A v \in Uploader \ {u} : uploader'[v] = uploader[v]
        /\ uploader'[u].channel = uploader[u].channel
        /\ uploader'[u].stopped = uploader[u].stopped
        /\ manager' = manager
      BY <1>5, CheckEffect
  <2>2. \A c \in Channel : manager[c] # None => manager[c] \in Uploader
      BY DEF TypeOK
  <2>3. ManagerFits'
      BY <2>1, <2>2 DEF UInv, ManagerFits
  <2>4. OneUploader'
      BY <1>5, <2>1 DEF UInv, OneUploader
  <2> QED BY <2>3, <2>4 DEF UInv
<1>6. ASSUME NEW u \in Uploader, Upload(u) PROVE UInv'
    BY <1>6, UploadEffect DEF Upload, UInv, OneUploader, ManagerFits, TypeOK
<1>7. CASE Tick
  <2>1. \A u \in Uploader :
           /\ uploader'[u].channel = uploader[u].channel
           /\ uploader'[u].stopped = uploader[u].stopped
           /\ uploader'[u].pc # "none" => uploader[u].pc # "none"
      BY <1>7, GoroutineTypes, TickEffect, ContinueFits
  <2>2. manager' = manager
      BY <1>7 DEF Tick
  <2>3. \A c \in Channel : manager[c] # None => manager[c] \in Uploader
      BY DEF TypeOK
  <2>4. ManagerFits'
      BY <2>1, <2>2, <2>3 DEF UInv, ManagerFits
  <2>5. OneUploader'
      BY <2>1, <2>2 DEF UInv, OneUploader
  <2> QED BY <2>4, <2>5 DEF UInv
<1> QED
    BY <1>1, <1>2, <1>3, <1>4, <1>5, <1>6, <1>7, CheckOrEnd
    DEF Next, RunUploader, GetThumbnail, RequestThumbnail, HostRestart, Connect, Lose, vars

-----------------------------------------------------------------------------
(* Requests *)

LEMMA Counts ==
    ASSUME TypeOK
    PROVE  /\ \A c \in Channel : subscription[c] \in Nat
           /\ retained # None => retained \in Request /\ retained.left \in Nat
           /\ \A u \in Uploader : uploader[u].left \in Nat
           /\ Len(inbox) \in Nat /\ DOMAIN inbox = 1 .. Len(inbox)
           /\ \A i \in 1 .. Len(inbox) : inbox[i] \in Request /\ inbox[i].left \in Nat
<1>1. inbox \in Seq(Request)
    BY DEF TypeOK
<1>2. \A i \in 1 .. Len(inbox) : inbox[i] \in Request
    BY <1>1
<1>3. \A r \in Request : r.left \in Nat
    BY BoundAssumption DEF Request, Ticks
<1>4. \A u \in Uploader : uploader[u].left \in Nat
    BY BoundAssumption, GoroutineTypes DEF Goroutine, Ticks
<1>5. \A c \in Channel : subscription[c] \in Nat
    BY BoundAssumption DEF TypeOK, Ticks
<1> QED BY <1>1, <1>2, <1>3, <1>4, <1>5 DEF TypeOK

\* A step that touches no request, nor an uploader that serves one.
LEMMA StandsStill ==
    ASSUME SInv, UNCHANGED <<subscription, retained, link, inbox, forsaken>>,
           \A c \in Channel :
               subscription[c] > 0 /\ Served(c) =>
                   manager'[c] = manager[c]
                   /\ uploader'[manager[c]].left = uploader[manager[c]].left
    PROVE  SInv'
<1>1. RetainedFits'
    BY DEF SInv, RetainedFits
<1>2. ASSUME NEW c \in Channel \ forsaken, subscription[c] > 0
      PROVE  Served(c)' \/ Coming(c)' \/ Kept(c)'
  <2>1. CASE Served(c)
      BY <1>2, <2>1 DEF Served
  <2>2. CASE Coming(c) \/ Kept(c)
      BY <2>2 DEF Coming, Kept
  <2> QED BY <1>2, <2>1, <2>2 DEF SInv, StandFits
<1> QED BY <1>1, <1>2 DEF SInv, StandFits

\* A request that is delivered and long enough does no harm.
LEMMA StandsDelivered ==
    ASSUME TypeOK, NEW r \in Request, Len(inbox) < MaxInbox, inbox' = Append(inbox, r),
           NEW c \in Channel, subscription' [c] \in Nat,
           UNCHANGED <<manager, uploader>>, subscription'[c] = subscription[c],
           r.channel = c => r.left >= subscription[c]
    PROVE  /\ Served(c) \/ Coming(c) => Served(c)' \/ Coming(c)'
           /\ r.channel = c => Coming(c)'
<1>1. /\ Len(inbox') = Len(inbox) + 1 /\ inbox'[Len(inbox')] = r
      /\ \A j \in 1 .. Len(inbox) : inbox'[j] = inbox[j]
      /\ Len(inbox) \in Nat
    BY DeliverEffect, Counts
<1>2. CASE r.channel = c
  <2>1. Len(inbox') \in 1 .. Len(inbox')
      BY <1>1
  <2>2. \A j \in Len(inbox') .. Len(inbox') : inbox'[j] = r
      BY <1>1
  <2>3. Coming(c)'
      BY <1>1, <1>2, <2>1, <2>2 DEF Coming
  <2> QED BY <2>3
<1>3. CASE r.channel # c
  <2>1. \A j \in 1 .. Len(inbox') : j = Len(inbox') \/ j \in 1 .. Len(inbox)
      BY <1>1
  <2>2. CASE Served(c)
      BY <1>1, <1>3, <2>1, <2>2 DEF Served
  <2>3. CASE Coming(c)
    <3>1. PICK i \in 1 .. Len(inbox) :
              /\ inbox[i].channel = c
              /\ \A j \in i .. Len(inbox) : inbox[j].channel = c => inbox[j].left >= subscription[c]
        BY <2>3 DEF Coming
    <3>2. i \in 1 .. Len(inbox') /\ inbox'[i].channel = c
        BY <1>1, <3>1
    <3>3. ASSUME NEW j \in i .. Len(inbox'), inbox'[j].channel = c
          PROVE  inbox'[j].left >= subscription[c]
      <4>1. j # Len(inbox')
          BY <1>1, <1>3, <3>3
      <4>2. j \in i .. Len(inbox) /\ inbox'[j] = inbox[j]
          BY <1>1, <4>1
      <4> QED BY <3>1, <3>3, <4>2
    <3> QED BY <3>2, <3>3 DEF Coming
  <2> QED BY <1>3, <2>2, <2>3
<1> QED BY <1>2, <1>3

LEMMA StandsRequest ==
    ASSUME TypeOK, SInv, NEW c \in Channel, RequestThumbnail(c) PROVE SInv'
<1> DEFINE r == [channel |-> c, left |-> Lifetime]
<1>1. r \in Request /\ retained' = r
    BY BoundAssumption DEF RequestThumbnail, Request, Ticks
<1>2. \A d \in Channel : subscription'[d] = IF d = c THEN Lifetime ELSE subscription[d]
    BY DEF RequestThumbnail, TypeOK
<1>3. \A d \in Channel : subscription'[d] \in 0 .. Lifetime
    BY SMTT(30), <1>2, BoundAssumption DEF TypeOK, Ticks
<1>4. RetainedFits'
    BY <1>1, <1>3 DEF RetainedFits
<1>5. /\ UNCHANGED <<link, manager, uploader>>
      /\ link => Len(inbox) < MaxInbox /\ inbox' = Append(inbox, r)
      /\ ~link => inbox' = inbox
      /\ forsaken' = (forsaken \ {c}) \cup IF ~link /\ retained # None THEN {retained.channel} \ {c} ELSE {}
    BY DEF RequestThumbnail, daemonVars
<1>6. CASE link
  <2>1. Coming(c)'
    <3>1. /\ Len(inbox') = Len(inbox) + 1 /\ inbox'[Len(inbox')] = r /\ Len(inbox) \in Nat
        BY <1>1, <1>5, <1>6, DeliverEffect, Counts
    <3>2. Len(inbox') \in 1 .. Len(inbox') /\ \A j \in Len(inbox') .. Len(inbox') : inbox'[j] = r
        BY <3>1
    <3>3. subscription'[c] = Lifetime /\ r.left = Lifetime /\ Lifetime \in Nat
        BY <1>2, BoundAssumption
    <3> QED BY <3>1, <3>2, <3>3 DEF Coming
  <2>2. ASSUME NEW d \in Channel \ forsaken', d # c, subscription'[d] > 0
        PROVE  Served(d)' \/ Coming(d)'
    <3>1. d \notin forsaken /\ subscription[d] > 0 /\ subscription'[d] = subscription[d]
        BY <1>2, <1>5, <2>2
    <3>2. Served(d) \/ Coming(d)
        BY <1>6, <3>1 DEF SInv, StandFits, Kept
    <3>3. subscription'[d] \in Nat
        BY <1>3, BoundAssumption
    <3> QED BY <1>1, <1>5, <1>6, <2>2, <3>1, <3>2, <3>3, StandsDelivered
  <2> QED BY <1>4, <2>1, <2>2 DEF SInv, StandFits
<1>7. CASE ~link
  <2>1. Kept(c)'
      BY <1>1, <1>5, <1>7, NoneApart DEF Kept
  <2>2. ASSUME NEW d \in Channel \ forsaken', d # c, subscription'[d] > 0
        PROVE  Served(d)' \/ Coming(d)'
    <3>1. d \notin forsaken /\ subscription[d] > 0 /\ subscription'[d] = subscription[d]
        BY <1>2, <1>5, <2>2
    <3>2. ~Kept(d)
        BY <1>5, <1>7, <2>2 DEF Kept
    <3>3. Served(d) \/ Coming(d)
        BY <3>1, <3>2 DEF SInv, StandFits
    <3> QED BY <1>5, <1>7, <3>1, <3>3 DEF Served, Coming
  <2> QED BY <1>4, <2>1, <2>2 DEF SInv, StandFits
<1> QED BY <1>6, <1>7

LEMMA StandsConnect ==
    ASSUME TypeOK, SInv, Connect PROVE SInv'
<1>1. /\ link' /\ UNCHANGED <<subscription, retained, manager, uploader, forsaken>>
      /\ retained # None => Len(inbox) < MaxInbox /\ inbox' = Append(inbox, retained)
      /\ retained = None => inbox' = inbox
    BY DEF Connect, hostVars, daemonVars
<1>2. RetainedFits'
    BY <1>1 DEF SInv, RetainedFits
<1>3. ASSUME NEW c \in Channel \ forsaken, subscription[c] > 0
      PROVE  Served(c)' \/ Coming(c)'
  <2>1. CASE retained # None
    <3>1. retained \in Request /\ subscription'[c] \in Nat /\ retained.left >= subscription[c]
        BY <1>1, <2>1, Counts DEF SInv, RetainedFits
    <3>2. Served(c) \/ Coming(c) \/ retained.channel = c
        BY <1>3 DEF SInv, StandFits, Kept
    <3> QED BY <1>1, <2>1, <3>1, <3>2, StandsDelivered
  <2>2. CASE retained = None
    <3>1. Served(c) \/ Coming(c)
        BY <1>3, <2>2 DEF SInv, StandFits, Kept
    <3> QED BY <1>1, <2>2, <3>1 DEF Served, Coming
  <2> QED BY <2>1, <2>2
<1> QED BY <1>1, <1>2, <1>3 DEF SInv, StandFits

\* The connection is lost, or the session ends: what is retained is delivered again.
LEMMA StandsCut ==
    ASSUME TypeOK, SInv, Lose \/ Reset PROVE SInv'
<1>1. /\ link' = FALSE /\ UNCHANGED <<subscription, retained>>
      /\ Len(inbox') <= Len(inbox)
      /\ \A j \in 1 .. Len(inbox') : inbox'[j] = inbox[j]
      /\ inbox' \in Seq(Request)
    BY CutEffect DEF Lose, Reset, hostVars
<1>2. Len(inbox') \in Nat /\ Len(inbox) \in Nat /\ DOMAIN inbox = 1 .. Len(inbox)
    BY <1>1, Counts
<1>3. RetainedFits'
    BY <1>1 DEF SInv, RetainedFits
<1>4. ASSUME NEW c \in Channel \ forsaken', subscription'[c] > 0
      PROVE  Served(c)' \/ Kept(c)'
  <2>1. CASE c \in Carried
    <3>1. retained # None /\ retained.channel = c
        BY <2>1 DEF Carried
    <3>2. ~link'
        BY <1>1
    <3> QED BY <1>1, <3>1, <3>2 DEF Kept
  <2>2. CASE c \notin Carried
    <3>1. /\ Lose /\ c \notin forsaken
          /\ c \notin {inbox[i].channel : i \in DOMAIN inbox}
        BY <1>4, <2>2 DEF Lose, Reset
    <3>2. \A i \in 1 .. Len(inbox) : inbox[i].channel # c
        BY <1>2, <3>1
    <3>3. link /\ UNCHANGED <<manager, uploader>>
        BY <3>1 DEF Lose, daemonVars
    <3>4. Served(c)
        BY <1>1, <1>4, <3>1, <3>2, <3>3 DEF SInv, StandFits, Coming, Kept
    <3> QED BY <1>1, <1>2, <3>2, <3>3, <3>4 DEF Served
  <2> QED BY <2>1, <2>2
<1> QED BY <1>3, <1>4 DEF SInv, StandFits

LEMMA StandsHandled ==
    ASSUME TypeOK, SInv, NEW i \in 1 .. MaxInbox, UpdateThumbnail(i) PROVE SInv'
<1>1. PICK new \in Uploader : UpdateBy(i, new)
    BY UpdateEffect
<1> DEFINE c == inbox[i].channel
<1>2. /\ UNCHANGED <<subscription, retained, link>>
      /\ inbox' = RemoveAt(inbox, i)
      /\ forsaken' = IF \E j \in 1 .. (i - 1) : inbox[j].channel = c THEN forsaken \cup {c}
                     ELSE forsaken
    BY DEF UpdateThumbnail, hostVars
<1>3. i \in 1 .. Len(inbox) /\ inbox[i] \in Request /\ c \in Channel
    BY <1>1 DEF UpdateBy, Request
<1>4. /\ inbox \in Seq(Request) /\ Len(inbox) \in Nat
      /\ Len(inbox') = Len(inbox) - 1
      /\ \A j \in 1 .. Len(inbox) - 1 : inbox'[j] = IF j < i THEN inbox[j] ELSE inbox[j + 1]
    BY <1>2, <1>3, Removed, Counts DEF TypeOK
<1>5. RetainedFits'
    BY <1>2 DEF SInv, RetainedFits
<1>6. ASSUME NEW d \in Channel, NEW k \in 1 .. Len(inbox), k # i, inbox[k].channel = d,
             \A j \in k .. Len(inbox) : inbox[j].channel = d => inbox[j].left >= subscription[d]
      PROVE  Coming(d)'
  <2>1. CASE k < i
    <3>1. k \in 1 .. Len(inbox') /\ inbox'[k] = inbox[k]
        BY <1>3, <1>4, <2>1
    <3>2. ASSUME NEW j \in k .. Len(inbox'), inbox'[j].channel = d
          PROVE  inbox'[j].left >= subscription[d]
      <4>1. j \in 1 .. Len(inbox) - 1 /\ j + 1 \in k .. Len(inbox) /\ j \in k .. Len(inbox)
          BY <1>4, <3>1
      <4>2. inbox'[j] = inbox[j] \/ inbox'[j] = inbox[j + 1]
          BY <1>4, <4>1
      <4> QED BY <1>6, <3>2, <4>1, <4>2
    <3>3. subscription'[d] = subscription[d] /\ inbox'[k].channel = d
        BY <1>2, <1>6, <3>1
    <3> QED BY <3>1, <3>2, <3>3 DEF Coming
  <2>2. CASE ~(k < i)
    <3>1. PICK m \in 1 .. Len(inbox') : m + 1 = k /\ ~(m < i)
      <4>1. k - 1 \in 1 .. Len(inbox') /\ (k - 1) + 1 = k /\ ~(k - 1 < i)
          BY <1>3, <1>4, <1>6, <2>2
      <4> QED BY <4>1
    <3>2. inbox'[m] = inbox[k]
        BY <1>4, <3>1
    <3>3. ASSUME NEW j \in m .. Len(inbox'), inbox'[j].channel = d
          PROVE  inbox'[j].left >= subscription[d]
      <4>1. j \in 1 .. Len(inbox) - 1 /\ j + 1 \in k .. Len(inbox) /\ ~(j < i)
          BY <1>3, <1>4, <3>1
      <4>2. inbox'[j] = inbox[j + 1]
          BY <1>4, <4>1
      <4> QED BY <1>6, <3>3, <4>1, <4>2
    <3>4. subscription'[d] = subscription[d] /\ inbox'[m].channel = d
        BY <1>2, <1>6, <3>2
    <3> QED BY <3>1, <3>3, <3>4 DEF Coming
  <2> QED BY <2>1, <2>2
<1>7. ASSUME NEW d \in Channel \ forsaken', subscription[d] > 0
      PROVE  Served(d)' \/ Coming(d)' \/ Kept(d)'
  <2>1. d \notin forsaken
      BY <1>2, <1>7
  <2>2. CASE Kept(d)
      BY <1>2, <2>2 DEF Kept
  <2>3. CASE Served(d)
    <3>1. d # c
        BY <1>3, <2>3 DEF Served
    <3>2. manager[d] \in Uploader /\ uploader[manager[d]].channel = d /\ d # None
        BY <2>3, NoneApart DEF Served, TypeOK
    <3>3. manager[d] # new /\ manager[d] # manager[c]
        BY <1>1, <1>3, <3>1, <3>2, NoneApart DEF UpdateBy, TypeOK
    <3>4. manager'[d] = manager[d] /\ uploader'[manager[d]] = uploader[manager[d]]
        BY <1>1, <1>3, <3>1, <3>2, <3>3 DEF UpdateBy
    <3>5. \A j \in 1 .. Len(inbox') : inbox'[j].channel # d
        BY <1>3, <1>4, <2>3 DEF Served
    <3> QED BY <1>2, <2>3, <3>4, <3>5 DEF Served
  <2>4. CASE Coming(d)
    <3>1. PICK k \in 1 .. Len(inbox) :
              /\ inbox[k].channel = d
              /\ \A j \in k .. Len(inbox) : inbox[j].channel = d => inbox[j].left >= subscription[d]
        BY <2>4 DEF Coming
    <3>2. CASE k # i
        BY <1>6, <3>1, <3>2
    <3>3. CASE k = i /\ \E n \in i + 1 .. Len(inbox) : inbox[n].channel = d
      <4>1. PICK n \in i + 1 .. Len(inbox) : inbox[n].channel = d
          BY <3>3
      <4>2. n \in 1 .. Len(inbox) /\ n # i
          BY <1>3, <1>4
      <4>3. \A j \in n .. Len(inbox) : inbox[j].channel = d => inbox[j].left >= subscription[d]
          BY <1>3, <1>4, <3>1, <3>3
      <4> QED BY <1>6, <4>1, <4>2, <4>3
    <3>4. CASE k = i /\ \A n \in i + 1 .. Len(inbox) : inbox[n].channel # d
      <4>1. d = c /\ inbox[i].left >= subscription[d]
          BY <1>3, <1>4, <3>1, <3>4
      <4>2. \A j \in 1 .. i - 1 : inbox[j].channel # d
          BY <1>2, <1>7, <4>1
      <4>3. \A j \in 1 .. Len(inbox') : inbox'[j].channel # d
          BY <1>3, <1>4, <3>4, <4>2
      <4>4. manager'[d] = new /\ uploader'[new].left = inbox[i].left
          BY <1>1, <1>3, <4>1, NewUploaderFits DEF UpdateBy
      <4>5. new # None
          BY NoneApart
      <4> QED BY <1>2, <4>1, <4>3, <4>4, <4>5 DEF Served
    <3> QED BY <3>2, <3>3, <3>4
  <2> QED BY <1>7, <2>1, <2>2, <2>3, <2>4 DEF SInv, StandFits
<1> QED BY <1>2, <1>5, <1>7 DEF SInv, StandFits

\* Time passes for the subscriptions, the requests and the uploaders alike.
LEMMA StandsTick == ASSUME TypeOK, SInv, Tick PROVE SInv'
<1>1. \A c \in Channel : subscription[c] \in Ticks /\ subscription'[c] = Less(subscription[c])
    BY TickEffect DEF TypeOK
<1>2. /\ retained # None => /\ retained' = LessLeft(retained) /\ retained' # None
                            /\ retained \in Request /\ retained.left \in Ticks
                            /\ retained'.channel = retained.channel
                            /\ retained'.left = Less(retained.left)
      /\ retained = None => retained' = None
  <2>1. retained # None => retained' = LessLeft(retained) /\ retained \in Request
      BY DEF Tick, TypeOK
  <2>2. retained = None => retained' = None
      BY DEF Tick
  <2> QED BY <2>1, <2>2, LessLeftFits, NoneApart DEF Request
<1>3. RetainedFits'
    BY <1>1, <1>2, LessFits DEF SInv, RetainedFits
<1>4. /\ Len(inbox) \in Nat /\ Len(inbox') = Len(inbox)
      /\ \A i \in 1 .. Len(inbox) :
            /\ inbox[i].left \in Ticks /\ inbox'[i].channel = inbox[i].channel
            /\ inbox'[i].left = Less(inbox[i].left)
  <2>1. \A i \in 1 .. Len(inbox) : inbox[i] \in Request /\ inbox'[i] = LessLeft(inbox[i])
      BY TickEffect, Counts
  <2> QED BY <2>1, TickEffect, Counts, LessLeftFits DEF Request
<1>5. UNCHANGED <<link, manager, forsaken>>
    BY DEF Tick
<1>6. ASSUME NEW c \in Channel \ forsaken, subscription'[c] > 0
      PROVE  Served(c)' \/ Coming(c)' \/ Kept(c)'
  <2>1. subscription[c] > 0
      BY <1>1, <1>6, LessFits, BoundAssumption DEF Less, Ticks
  <2>2. CASE Served(c)
    <3>1. manager[c] \in Uploader /\ uploader[manager[c]].pc # "none"
        BY <2>2, NoneApart DEF Served, TypeOK
    <3>2. uploader[manager[c]].pc = "wait"
        BY <3>1 DEF Tick
    <3>3. uploader[manager[c]] \in Goroutine /\ uploader[manager[c]].left \in Ticks
        BY <3>1, GoroutineTypes DEF Goroutine
    <3>4. uploader'[manager[c]].left = Less(uploader[manager[c]].left)
        BY <3>1, <3>2, <3>3, TickEffect, ContinueFits
    <3>5. uploader'[manager[c]].left >= subscription'[c]
        BY <1>1, <2>2, <3>3, <3>4, LessFits DEF Served
    <3> QED BY <1>4, <1>5, <2>2, <3>5 DEF Served
  <2>3. CASE Coming(c)
    <3>1. PICK i \in 1 .. Len(inbox) :
              /\ inbox[i].channel = c
              /\ \A j \in i .. Len(inbox) : inbox[j].channel = c => inbox[j].left >= subscription[c]
        BY <2>3 DEF Coming
    <3>2. ASSUME NEW j \in i .. Len(inbox'), inbox'[j].channel = c
          PROVE  inbox'[j].left >= subscription'[c]
      <4>1. j \in 1 .. Len(inbox) /\ j \in i .. Len(inbox)
          BY <1>4
      <4>2. inbox[j].left >= subscription[c]
          BY <1>4, <3>1, <3>2, <4>1
      <4>3. inbox[j].left \in Ticks /\ subscription[c] \in Ticks
          BY <1>1, <1>4, <4>1
      <4> QED BY <1>1, <1>4, <4>1, <4>2, <4>3, LessFits
    <3> QED BY <1>4, <3>1, <3>2 DEF Coming
  <2>4. CASE Kept(c)
      BY <1>2, <1>5, <2>4 DEF Kept
  <2> QED BY <1>6, <2>1, <2>2, <2>3, <2>4 DEF SInv, StandFits
<1> QED BY <1>3, <1>5, <1>6 DEF SInv, StandFits

LEMMA StandStep == ASSUME TypeOK, UInv, SInv, [Next]_vars PROVE SInv'
<1>1. CASE UNCHANGED <<subscription, retained, link, inbox, daemonVars, forsaken>>
    BY <1>1, StandsStill DEF daemonVars
<1>2. ASSUME NEW c \in Channel, RequestThumbnail(c) PROVE SInv'
    BY <1>2, StandsRequest
<1>3. CASE HostRestart
  <2>1. \A c \in Channel : subscription'[c] = 0
      BY <1>3 DEF HostRestart
  <2>2. retained' = None
      BY <1>3 DEF HostRestart
  <2> QED BY <2>1, <2>2 DEF SInv, RetainedFits, StandFits
<1>4. CASE Connect
    BY <1>4, StandsConnect
<1>5. CASE Lose \/ Reset
    BY <1>5, StandsCut
<1>6. ASSUME NEW i \in 1 .. MaxInbox, UpdateThumbnail(i) PROVE SInv'
    BY <1>6, StandsHandled
<1>7. ASSUME NEW u \in Uploader, Ends(u), uploader[u].left = 0 \/ uploader[u].stopped PROVE SInv'
  <2>1. ASSUME NEW c \in Channel, subscription[c] > 0, Served(c)
        PROVE  manager'[c] = manager[c] /\ uploader'[manager[c]] = uploader[manager[c]]
    <3>1. manager[c] # None /\ manager[c] \in Uploader
        BY <2>1 DEF Served, TypeOK
    <3>2. manager[c] # u
        BY <1>7, <2>1, <3>1, Counts DEF Served, UInv, ManagerFits
    <3> QED BY <1>7, <3>1, <3>2, EndEffect DEF Ends
  <2>2. UNCHANGED <<subscription, retained, link, inbox, forsaken>>
      BY <1>7 DEF Ends, hostVars
  <2> QED BY <2>1, <2>2, StandsStill
<1>8. ASSUME NEW u \in Uploader, Check(u), uploader[u].left # 0 PROVE SInv'
  <2>1. manager' = manager /\ \A v \in Uploader : uploader'[v].left = uploader[v].left
      BY <1>8, CheckEffect
  <2>2. UNCHANGED <<subscription, retained, link, inbox, forsaken>>
      BY <1>8 DEF Check, hostVars
  <2>3. \A c \in Channel : Served(c) => manager[c] \in Uploader
      BY DEF Served, TypeOK
  <2> QED BY <2>1, <2>2, <2>3, StandsStill
<1>9. ASSUME NEW u \in Uploader, Upload(u) PROVE SInv'
  <2>1. manager' = manager /\ \A v \in Uploader : uploader'[v].left = uploader[v].left
      BY <1>9, UploadEffect
  <2>2. UNCHANGED <<subscription, retained, link, inbox, forsaken>>
      BY <1>9 DEF Upload, hostVars
  <2>3. \A c \in Channel : Served(c) => manager[c] \in Uploader
      BY DEF Served, TypeOK
  <2> QED BY <2>1, <2>2, <2>3, StandsStill
<1>10. CASE Tick
    BY <1>10, StandsTick
<1> QED
    BY <1>1, <1>2, <1>3, <1>4, <1>5, <1>6, <1>7, <1>8, <1>9, <1>10, CheckOrEnd
    DEF Next, RunUploader, GetThumbnail, vars, hostVars

-----------------------------------------------------------------------------
(* Thumbnails: the theorems *)

\* Every variable keeps its type, and the manager has no uploader that has ended.
THEOREM TypeCorrect == Spec => []TypeOK
<1>1. Init => TypeOK
    BY TypeInit
<1>2. TypeOK /\ [Next]_vars => TypeOK'
    BY TypeStep
<1> QED BY <1>1, <1>2, PTL DEF Spec

LEMMA ManagerCorrect == Spec => []UInv
<1>1. Init => UInv
    BY DEF Init, NoUploader, UInv, OneUploader, ManagerFits
<1>2. TypeOK /\ UInv /\ [Next]_vars => UInv'
    BY ManagerStep
<1> QED BY <1>1, <1>2, TypeCorrect, PTL DEF Spec

\* No channel is uploaded by two goroutines for longer than an upload, and StopAll reaches
\* every goroutine that has not been told to stop, whatever the order in which handlers,
\* uploaders and the ends of sessions take their steps.
THEOREM OneServes == Spec => []OneUploader
<1>1. UInv => OneUploader
    BY DEF UInv
<1> QED BY <1>1, ManagerCorrect, PTL

\* An uploader that is told to stop, by a newer request or by the end of the session,
\* begins at most one upload more.
THEOREM StoppedEnds == Spec => []StopsSoon
<1>1. Init => LateFits
    BY DEF Init, NoUploader, LateFits
<1>2. TypeOK /\ LateFits /\ [Next]_vars => LateFits'
    BY LateStep
<1>3. LateFits => StopsSoon
    BY DEF LateFits, StopsSoon
<1> QED BY <1>1, <1>2, <1>3, TypeCorrect, PTL DEF Spec

\* While the host believes in a subscription, its request is being served, on its way
\* or retained, for as long as the host believes, unless the channel is forsaken.
THEOREM RequestsCorrect == Spec => []RequestsStand
<1>1. Init => SInv
    BY DEF Init, SInv, RetainedFits, StandFits
<1>2. TypeOK /\ UInv /\ SInv /\ [Next]_vars => SInv'
    BY StandStep
<1>3. TypeOK /\ SInv => RequestsStand
  <2> SUFFICES ASSUME TypeOK, SInv, NEW c \in Channel \ forsaken, subscription[c] > 0
               PROVE  \/ manager[c] # None /\ uploader[manager[c]].left >= subscription[c]
                      \/ \E i \in DOMAIN inbox : inbox[i].channel = c /\ inbox[i].left >= subscription[c]
                      \/ ~link /\ retained # None /\ retained.channel = c /\ retained.left >= subscription[c]
      BY DEF RequestsStand
  <2>1. CASE Served(c)
      BY <2>1 DEF Served
  <2>2. CASE Coming(c)
    <3>1. PICK i \in 1 .. Len(inbox) :
              /\ inbox[i].channel = c
              /\ \A j \in i .. Len(inbox) : inbox[j].channel = c => inbox[j].left >= subscription[c]
        BY <2>2 DEF Coming
    <3>2. i \in i .. Len(inbox) /\ i \in DOMAIN inbox
        BY Counts
    <3> QED BY <3>1, <3>2
  <2>3. CASE Kept(c)
      BY <2>3 DEF Kept, SInv, RetainedFits
  <2> QED BY <2>1, <2>2, <2>3 DEF SInv, StandFits
<1> QED BY <1>1, <1>2, <1>3, TypeCorrect, ManagerCorrect, PTL DEF Spec

-----------------------------------------------------------------------------
(* The log: the inductive invariants *)

\* The file that the rotation does not rename.
Oldest == LogFileRotateCount + 1

\* The current file is there if it is open, as it is throughout a rotation, which its size
\* has begun. Rotated files are full. What a rotation has come to it has emptied.
FilesFit ==
    /\ logFile <=> file[0] # NoFile
    /\ rotating # NoFile => logFile /\ Len(file[0]) >= LogFileMaxBytes
    /\ rotating = NoFile /\ logFile => Len(file[0]) < LogFileMaxBytes + interrupted
    /\ \A i \in Files \ {0} : Len(file[i]) >= LogFileMaxBytes
    /\ rotating \in 0 .. LogFileRotateCount - 1 => file[rotating + 1] = NoFile

LogInv == LogTypeOK /\ FilesFit

\* The lines of the current file.
Held == IF file[0] = NoFile THEN 0 ELSE Len(file[0])

\* The number that the first line of the current file has, or will have.
Current == written + 1 - Held

\* The full files that there are between file i and the current one, at least: a rotation
\* has renamed those behind it, and one that was cut short has left no file where it stopped.
Between(i) == i - interrupted - IF rotating # NoFile /\ rotating < i THEN 1 ELSE 0

RoomFits ==
    \A i \in Files \ {0} : file[i][1] + Between(i) * LogFileMaxBytes <= Current

\* The lines are in order, and were all logged.
OrderFits == InOrder /\ \A x \in Lines : x <= written

\* The lines of a file follow each other, in the current file up to the last one written.
RunsFit ==
    /\ \A i \in Files : \A k \in 1 .. Len(file[i]) : file[i][k] = file[i][1] + k - 1
    /\ file[0] # NoFile /\ file[0] # <<>> => file[0][1] = Current

\* Lines are lost with the oldest file, which was replaced then, while another was full.
LossFits ==
    \E lost \in 0 .. written :
        /\ Lines = lost + 1 .. written
        /\ lost > 0 => /\ Oldest \in Files /\ file[Oldest][1] = lost + 1
                       /\ \E i \in Files \ {Oldest} : Len(file[i]) >= LogFileMaxBytes

KeptInv == RunsFit /\ RoomFits /\ LossFits

\* All this until a line finds no open file, which leaves a gap.
KeptFits == ~unlogged => KeptInv

\* A log is older than the lines of the current file, and not newer than the file that was
\* rotated last.
Sealed(d, f, n) ==
    d # NoFile =>
        /\ Len(d) > 0 /\ LastLine(d) <= n
        /\ f[0] # NoFile => \A k \in 1 .. Len(f[0]) : LastLine(d) < f[0][k]
        /\ f[1] # NoFile => d = f[1] \/ LastLine(d) < LastLine(f[1])

\* The goroutines that have found the flag not set, and not reset it.
Uploading == {u \in Reporter : upload[u].pc \in {"claim", "read", "put", "leave"}}

\* What is uploaded is not older than the host's log.
PutFits(u) ==
    upload[u].pc = "put" =>
        /\ upload[u].data # NoFile /\ Sealed(upload[u].data, file, written)
        /\ log # NoFile => \/ log = upload[u].data
                         \/ LastLine(log) < LastLine(upload[u].data)

\* There is one at a time, and the flag is set once it has set it.
UploadFits ==
    ~raced =>
        /\ Sealed(log, file, written)
        /\ \A u \in Reporter : upload[u].pc \in {"read", "put", "leave"} => processingLogPut
        /\ \A u \in Reporter : PutFits(u)
        /\ \A u, v \in Uploading : u = v

-----------------------------------------------------------------------------
(* The log: types *)

Slots == {0} \cup Rotated

LogText == Seq(1 .. MaxLines)

LEMMA SlotsFit == Slots = 0 .. Oldest /\ Oldest \in Nat /\ Oldest >= 2
BY ConstantAssumption DEF Slots, Rotated, Oldest

LEMMA TextFits ==
    ASSUME NEW d \in LogText
    PROVE  d # NoFile /\ d \in Seq(Nat) /\ Len(d) \in Nat /\ \A k \in 1 .. Len(d) : d[k] \in 1 .. MaxLines
<1>1. d \in Seq(Nat)
    BY SeqMonotonic, ConstantAssumption DEF LogText
<1>2. d # NoFile
    BY <1>1, ConstantAssumption
<1> QED
    BY <1>1, <1>2, ElementOfSeq, LenProperties DEF LogText

FileMap == [Slots -> {NoFile} \cup LogText]

LEMMA FileFits ==
    ASSUME NEW f \in FileMap, NEW i \in Slots, f[i] # NoFile
    PROVE  /\ f[i] \in LogText /\ Len(f[i]) \in Nat
           /\ \A k \in 1 .. Len(f[i]) : f[i][k] \in 1 .. MaxLines
<1>1. f[i] \in LogText
    BY DEF FileMap
<1> QED
    BY <1>1, TextFits

LEMMA RenameEffect ==
    ASSUME file \in FileMap,
           NEW r \in 0 .. LogFileRotateCount, file[r] # NoFile
    PROVE  /\ Rename(r) \in FileMap
           /\ Rename(r)[r + 1] = file[r] /\ Rename(r)[r] = NoFile
           /\ \A i \in Slots \ {r, r + 1} : Rename(r)[i] = file[i]
<1>1. r \in Slots /\ r + 1 \in Slots /\ r + 1 # r
    BY SlotsFit, ConstantAssumption DEF Oldest
<1>2. Rename(r) = [file EXCEPT ![r + 1] = file[r], ![r] = NoFile]
    BY DEF Rename
<1> QED
    BY <1>1, <1>2 DEF FileMap

LEMMA OpenedEffect ==
    ASSUME NEW f \in FileMap
    PROVE  /\ Opened(f) \in FileMap
           /\ Opened(f)[0] = IF f[0] = NoFile THEN <<>> ELSE f[0]
           /\ \A i \in Slots \ {0} : Opened(f)[i] = f[i]
<1>1. <<>> \in LogText /\ 0 \in Slots
    BY EmptySeq DEF LogText, Slots
<1> QED
    BY <1>1 DEF Opened, FileMap

LEMMA AppendEffect ==
    ASSUME NEW d \in LogText, NEW n \in 1 .. MaxLines
    PROVE  /\ Append(d, n) \in LogText /\ Len(Append(d, n)) = Len(d) + 1
           /\ \A k \in 1 .. Len(d) : Append(d, n)[k] = d[k]
           /\ Append(d, n)[Len(d) + 1] = n
BY AppendProperties DEF LogText

\* What LogTypeOK says of the files.
LEMMA LogTypes ==
    ASSUME LogInv
    PROVE  /\ file \in FileMap /\ Files \subseteq Slots
           /\ \A i \in Slots : file[i] # NoFile =>
                  /\ i \in Files /\ file[i] \in LogText /\ Len(file[i]) \in Nat
                  /\ Len(file[i]) <= LogFileMaxBytes + interrupted
           /\ rotating \in 0 .. LogFileRotateCount \cup {NoFile} /\ written \in 0 .. MaxLines
           /\ interrupted \in Nat
           /\ NoFile \notin Nat
<1>1. file \in FileMap /\ Files \subseteq Slots /\ \A i \in Slots : file[i] # NoFile => i \in Files
    BY DEF LogInv, LogTypeOK, FileMap, Slots, LogText, Files
<1>2. \A i \in Slots : file[i] # NoFile => file[i] \in LogText /\ Len(file[i]) \in Nat
    BY <1>1, FileFits DEF LogInv
<1>3. /\ rotating \in 0 .. LogFileRotateCount \cup {NoFile} /\ written \in 0 .. MaxLines
      /\ interrupted \in Nat /\ NoFile \notin Nat
    BY ConstantAssumption DEF LogInv, LogTypeOK
<1>4. \A i \in Files : Len(file[i]) <= LogFileMaxBytes + interrupted
    BY DEF LogInv, LogTypeOK
<1> QED
    BY <1>1, <1>2, <1>3, <1>4

\* The part of the invariant that is about the files, and which the uploads leave alone.
LogFile ==
    /\ written \in 0 .. MaxLines
    /\ file \in FileMap
    /\ \A i \in Files : Len(file[i]) <= LogFileMaxBytes + interrupted
    /\ logFile \in BOOLEAN /\ currentSize \in 0 .. LogFileMaxBytes + interrupted
    /\ logFile /\ rotating = NoFile => currentSize = Len(file[0])
    /\ rotating \in 0 .. LogFileRotateCount \cup {NoFile}
    /\ unlogged \in BOOLEAN
    /\ FilesFit

LogGoroutine == [pc : {"none", "check", "claim", "read", "put", "leave"}, data : {NoFile} \cup LogText]

LogUpload ==
    /\ upload \in [Reporter -> LogGoroutine]
    /\ processingLogPut \in BOOLEAN /\ logSubscription \in BOOLEAN
    /\ raced \in BOOLEAN
    /\ late \in {NoFile} \cup LogText
    /\ log \in {NoFile} \cup LogText
    /\ logFaults \in 0 .. MaxLogFaults /\ interrupted \in 0 .. logFaults

LEMMA LogParts == LogInv <=> LogFile /\ LogUpload
BY DEF LogInv, LogFile, LogUpload, LogTypeOK, FileMap, Slots, LogText, LogGoroutine

LEMMA LogPartsNext == LogInv' <=> LogFile' /\ LogUpload'
BY ConstantAssumption DEF LogInv, LogFile, LogUpload, LogTypeOK, FileMap, Slots, LogText, LogGoroutine

\* What the steps do to the files.
LEMMA WriteEffect ==
    ASSUME LogInv, WriteRecord
    PROVE  /\ 0 \in Files /\ file[0] \in LogText /\ Len(file[0]) \in Nat
           /\ file'[0] = Append(file[0], written + 1) /\ Len(file'[0]) = Len(file[0]) + 1
           /\ \A k \in 1 .. Len(file[0]) : file'[0][k] = file[0][k]
           /\ file'[0][Len(file[0]) + 1] = written + 1
           /\ Files' = Files /\ \A i \in Files \ {0} : file'[i] = file[i]
           /\ written \in Nat /\ written' = written + 1 /\ interrupted' = interrupted
           /\ unlogged' = unlogged
<1>1. 0 \in Slots /\ file[0] # NoFile
    BY DEF Slots, LogInv, FilesFit, WriteRecord
<1>2. written + 1 \in 1 .. MaxLines /\ written \in Nat
    BY LogTypes, ConstantAssumption DEF WriteRecord, LogInv
<1>3. file[0] \in LogText /\ Len(file[0]) \in Nat /\ 0 \in Files
    BY <1>1, LogTypes
<1> DEFINE d == Append(file[0], written + 1)
<1>4. d \in LogText /\ Len(d) = Len(file[0]) + 1 /\ d # NoFile
    BY <1>2, <1>3, AppendEffect, TextFits DEF LogInv
<1>5. file' \in FileMap /\ file'[0] = d /\ \A i \in Slots \ {0} : file'[i] = file[i]
    BY <1>1, <1>4, LogTypes DEF WriteRecord, FileMap
<1>6. Files' = Files
    BY <1>1, <1>4, <1>5 DEF Files, Slots
<1>7. (\A k \in 1 .. Len(file[0]) : d[k] = file[0][k]) /\ d[Len(file[0]) + 1] = written + 1
    BY <1>2, <1>3, AppendEffect DEF LogInv
<1> QED
    BY <1>2, <1>3, <1>4, <1>5, <1>6, <1>7, LogTypes DEF WriteRecord

LEMMA RotateOlderEffect ==
    ASSUME LogInv, RotateOlder
    PROVE  /\ rotating \in 1 .. LogFileRotateCount /\ rotating' = rotating - 1
           /\ {0, rotating, rotating + 1} \subseteq Slots
           /\ rotating < LogFileRotateCount => file[rotating + 1] = NoFile
           /\ file' \in FileMap /\ file'[rotating] = NoFile
           /\ file'[rotating + 1] = IF file[rotating] = NoFile THEN file[rotating + 1] ELSE file[rotating]
           /\ \A i \in Slots \ {rotating, rotating + 1} : file'[i] = file[i]
           /\ file[0] # NoFile /\ file[0] \in LogText /\ Len(file[0]) \in Nat
           /\ Len(file[0]) >= LogFileMaxBytes
           /\ UNCHANGED <<written, interrupted, unlogged>>
<1>1. rotating \in 1 .. LogFileRotateCount /\ rotating' = rotating - 1 /\ rotating # NoFile
    BY LogTypes, ConstantAssumption DEF RotateOlder, Rotated, LogInv
<1>2. {0, rotating, rotating + 1} \subseteq Slots
    BY <1>1, SlotsFit, ConstantAssumption DEF LogInv, Oldest
<1>3. rotating < LogFileRotateCount => file[rotating + 1] = NoFile
    BY <1>1, ConstantAssumption DEF LogInv, FilesFit
<1>4. /\ file' \in FileMap /\ file'[rotating] = NoFile
      /\ file'[rotating + 1] = IF file[rotating] = NoFile THEN file[rotating + 1] ELSE file[rotating]
      /\ \A i \in Slots \ {rotating, rotating + 1} : file'[i] = file[i]
    <2>1. CASE file[rotating] = NoFile
        <3>1. file' = file
            BY <2>1 DEF RotateOlder, Rename
        <3> QED
            BY <2>1, <3>1, LogTypes
    <2>2. CASE file[rotating] # NoFile
        <3>1. file' = Rename(rotating)
            BY DEF RotateOlder
        <3> QED
            BY <1>1, <2>2, <3>1, LogTypes, RenameEffect DEF LogInv
    <2> QED
        BY <2>1, <2>2
<1>5. file[0] # NoFile /\ Len(file[0]) >= LogFileMaxBytes
    BY <1>1 DEF LogInv, FilesFit
<1> QED
    BY <1>1, <1>2, <1>3, <1>4, <1>5, LogTypes DEF RotateOlder

\* The rename of the current file, which is then opened again or not.
LEMMA RotateCurrentEffect ==
    ASSUME LogInv, RotateCurrent
    PROVE  /\ file[0] # NoFile /\ file[1] = NoFile /\ file[0] \in LogText
           /\ file' \in FileMap /\ file'[1] = file[0] /\ file'[0] \in {NoFile, <<>>}
           /\ logFile' \in BOOLEAN /\ (logFile' <=> file'[0] # NoFile)
           /\ \A i \in Slots \ {0, 1} : file'[i] = file[i]
           /\ {0, 1} \subseteq Slots /\ rotating = 0 /\ rotating' = NoFile
           /\ Len(file[0]) \in Nat /\ Len(file[0]) >= LogFileMaxBytes
           /\ Len(file[0]) <= LogFileMaxBytes + interrupted
<1>1. rotating = 0 /\ rotating # NoFile /\ rotating' = NoFile
    BY LogTypes DEF RotateCurrent
<1>2. file[0] # NoFile /\ file[1] = NoFile /\ logFile /\ Len(file[0]) >= LogFileMaxBytes
    BY <1>1, ConstantAssumption DEF LogInv, FilesFit
<1>3. {0, 1} \subseteq Slots /\ 0 \in 0 .. LogFileRotateCount /\ 0 + 1 = 1
    BY SlotsFit, ConstantAssumption DEF LogInv, Slots
<1> DEFINE f == Rename(0)
<1>4. /\ f \in FileMap /\ f[1] = file[0] /\ f[0] = NoFile
      /\ \A i \in Slots \ {0, 1} : f[i] = file[i]
    BY <1>2, <1>3, LogTypes, RenameEffect DEF LogInv
<1>5. <<>> # NoFile
    BY EmptySeq, ConstantAssumption DEF LogInv
<1>6. CASE file' = Opened(f) /\ UNCHANGED <<logFile, logFaults>>
    <2>1. /\ file' \in FileMap /\ file'[0] = <<>>
          /\ \A i \in Slots \ {0} : file'[i] = f[i]
        BY <1>4, <1>6, OpenedEffect DEF LogInv
    <2> QED
        BY <1>1, <1>2, <1>3, <1>4, <1>5, <1>6, <2>1, LogTypes DEF LogInv, LogTypeOK
<1>7. CASE file' = f /\ logFile' = FALSE
    BY <1>1, <1>2, <1>3, <1>4, <1>7, LogTypes
<1> QED
    BY <1>6, <1>7 DEF RotateCurrent

LEMMA RestartEffect ==
    ASSUME LogInv, Restart
    PROVE  /\ file' \in FileMap /\ file'[0] = (IF file[0] = NoFile THEN <<>> ELSE file[0])
           /\ file'[0] # NoFile
           /\ Len(<<>>) = 0 /\ {0, 1} \subseteq Slots /\ \A i \in Slots \ {0} : file'[i] = file[i]
           /\ interrupted' = interrupted + (IF rotating = NoFile THEN 0 ELSE 1) /\ interrupted \in Nat
           /\ written' = written /\ rotating' = NoFile /\ logFile'
<1>1. file' = Opened(file) /\ <<>> # NoFile /\ Len(<<>>) = 0 /\ {0, 1} \subseteq Slots
    <2>1. <<>> # NoFile /\ Len(<<>>) = 0
        BY EmptySeq, ConstantAssumption DEF LogInv
    <2>2. 0 \in Slots /\ 1 \in Slots
        BY SlotsFit DEF LogInv
    <2> QED
        BY <2>1, <2>2 DEF Restart
<1>2. file \in FileMap /\ interrupted \in Nat
    BY LogTypes
<1>3. /\ file' \in FileMap /\ file'[0] = (IF file[0] = NoFile THEN <<>> ELSE file[0])
      /\ \A i \in Slots \ {0} : file'[i] = file[i]
    BY <1>1, <1>2, OpenedEffect DEF LogInv
<1>4. file'[0] # NoFile
    BY <1>1, <1>3
<1> QED
    BY <1>1, <1>2, <1>3, <1>4 DEF Restart

LEMMA LogInvInit == ASSUME LogInit PROVE LogInv
<1>1. [i \in Slots |-> NoFile] \in FileMap
    BY DEF FileMap
<1>2. file = Opened([i \in Slots |-> NoFile])
    BY DEF LogInit, Slots
<1>3. 0 \in Slots /\ <<>> # NoFile
    BY EmptySeq, ConstantAssumption DEF Slots
<1>4. file \in FileMap /\ file[0] = <<>> /\ \A i \in Slots \ {0} : file[i] = NoFile
    BY <1>1, <1>2, <1>3, OpenedEffect
<1>5. Files = {0} /\ Len(<<>>) = 0
    BY <1>3, <1>4, EmptySeq DEF Files, Slots
<1>6. FilesFit
    BY <1>3, <1>4, <1>5, ConstantAssumption DEF LogInit, FilesFit
<1>7. LogFile
    <2>1. \A i \in Files : Len(file[i]) <= LogFileMaxBytes + interrupted
        BY <1>4, <1>5, ConstantAssumption DEF LogInit
    <2>2. currentSize = Len(file[0])
        BY <1>4, <1>5 DEF LogInit
    <2> QED
        BY <1>4, <1>6, <2>1, <2>2, SMTT(30) DEF LogInit, LogFile
<1>8. LogUpload
    <2>1. upload \in [Reporter -> LogGoroutine]
        BY ConstantAssumption DEF LogInit, NoUpload, LogGoroutine
    <2>2. logFaults \in 0 .. MaxLogFaults /\ interrupted \in 0 .. logFaults
        BY ConstantAssumption DEF LogInit
    <2> QED
        BY <2>1, <2>2 DEF LogInit, LogUpload
<1> QED
    BY <1>7, <1>8, LogParts

LEMMA WriteKeepsTypes == ASSUME LogInv, WriteRecord PROVE LogInv'
<1>1. 0 \in Slots /\ file[0] # NoFile /\ logFile /\ rotating = NoFile
    BY WriteEffect DEF Slots, Files, WriteRecord
<1>2. Len(file[0]) \in Nat /\ Len(file[0]) < LogFileMaxBytes + interrupted /\ currentSize = Len(file[0])
    BY <1>1, LogTypes DEF LogInv, LogTypeOK, FilesFit
<1>3. written + 1 \in 1 .. MaxLines
    BY LogTypes, ConstantAssumption DEF WriteRecord, LogInv
<1> DEFINE d == Append(file[0], written + 1)
<1>4. d \in LogText /\ Len(d) = Len(file[0]) + 1 /\ d # NoFile
    BY <1>3, AppendEffect, TextFits, WriteEffect DEF LogInv
<1>5. file' \in FileMap /\ file'[0] = d /\ \A i \in Slots \ {0} : file'[i] = file[i]
    BY <1>1, <1>4, LogTypes DEF WriteRecord, FileMap
<1>6. Files' = Files
    BY WriteEffect
<1>7. \A i \in Files' : Len(file'[i]) <= LogFileMaxBytes + interrupted'
    BY <1>2, <1>4, <1>5, <1>6, LogTypes, ConstantAssumption DEF WriteRecord, LogInv, LogTypeOK
<1>8. currentSize' = Len(file'[0]) /\ currentSize' \in 0 .. LogFileMaxBytes + interrupted'
    BY <1>2, <1>4, <1>5, LogTypes, ConstantAssumption DEF WriteRecord, LogInv
<1>9. /\ rotating' = (IF Len(d) >= LogFileMaxBytes THEN LogFileRotateCount ELSE NoFile)
      /\ interrupted' = interrupted /\ logFile' /\ logFile
    BY <1>2, <1>4 DEF WriteRecord, LogInv, FilesFit
<1>10. FilesFit'
    <2>1. logFile' <=> file'[0] # NoFile
        BY <1>4, <1>5, <1>9
    <2>2. rotating' # NoFile => logFile' /\ Len(file'[0]) >= LogFileMaxBytes
        BY <1>5, <1>9
    <2>3. rotating' = NoFile /\ logFile' => Len(file'[0]) < LogFileMaxBytes + interrupted'
        BY <1>2, <1>4, <1>5, <1>9, LogTypes, ConstantAssumption DEF LogInv
    <2>4. \A i \in Files' \ {0} : Len(file'[i]) >= LogFileMaxBytes
        BY <1>5, <1>6, LogTypes DEF LogInv, FilesFit
    <2>5. rotating' \in 0 .. LogFileRotateCount - 1 => file'[rotating' + 1] = NoFile
        <3>1. rotating' \in {LogFileRotateCount, NoFile}
            BY <1>9
        <3> QED
            BY <3>1, LogTypes DEF LogInv
    <2> QED
        BY <2>1, <2>2, <2>3, <2>4, <2>5 DEF FilesFit
<1>11. LogFile'
    BY <1>3, <1>5, <1>7, <1>8, <1>9, <1>10, LogParts, ConstantAssumption DEF LogFile, WriteRecord, LogInv
<1>12. LogUpload'
    BY LogParts DEF LogUpload, WriteRecord, uploadVars
<1> QED
    BY <1>11, <1>12, LogPartsNext DEF LogInv

LEMMA WriteNothingKeepsTypes == ASSUME LogInv, WriteNothing PROVE LogInv'
<1>1. Files' = Files /\ FilesFit'
    BY DEF LogInv, FilesFit, Files, WriteNothing
<1>2. LogFile'
    BY <1>1, LogParts, ConstantAssumption DEF LogFile, WriteNothing, LogInv
<1>3. LogUpload'
    BY LogParts DEF LogUpload, WriteNothing, uploadVars
<1> QED
    BY <1>2, <1>3, LogPartsNext DEF LogInv

LEMMA RotateOlderKeepsTypes == ASSUME LogInv, RotateOlder PROVE LogInv'
<1>1. /\ rotating' \in 0 .. LogFileRotateCount - 1 /\ rotating' \in 0 .. LogFileRotateCount
      /\ rotating' # NoFile /\ rotating # NoFile
    BY RotateOlderEffect, LogTypes, ConstantAssumption DEF LogInv
<1>2. ASSUME NEW i \in Files' PROVE \E j \in Files : file'[i] = file[j] /\ (i # 0 => j # 0)
    <2>1. i \in Slots /\ file'[i] # NoFile
        BY DEF Files, Slots
    <2>2. CASE i = rotating + 1 /\ file[rotating] # NoFile
        BY <2>2, RotateOlderEffect, LogTypes
    <2>3. CASE ~(i = rotating + 1 /\ file[rotating] # NoFile)
        BY <2>1, <2>3, RotateOlderEffect, LogTypes
    <2> QED
        BY <2>2, <2>3
<1>3. file'[0] = file[0]
    BY RotateOlderEffect, ConstantAssumption DEF LogInv
<1>4. FilesFit'
    <2>1. logFile' = logFile /\ logFile
        BY <1>1, ConstantAssumption DEF RotateOlder, LogInv, FilesFit
    <2>2. \A i \in Files' \ {0} : Len(file'[i]) >= LogFileMaxBytes
        BY <1>2 DEF LogInv, FilesFit
    <2>3. file'[rotating' + 1] = NoFile
        BY RotateOlderEffect DEF LogInv
    <2> QED
        BY <1>1, <1>3, <2>1, <2>2, <2>3, RotateOlderEffect DEF FilesFit
<1>5. LogFile'
    <2>1. \A i \in Files' : Len(file'[i]) <= LogFileMaxBytes + interrupted'
        BY <1>2 DEF RotateOlder, LogInv, LogTypeOK
    <2> QED
        BY <1>1, <1>3, <1>4, <2>1, RotateOlderEffect, LogParts DEF LogFile, RotateOlder
<1>6. LogUpload'
    BY LogParts DEF LogUpload, RotateOlder, uploadVars
<1> QED
    BY <1>5, <1>6, LogPartsNext DEF LogInv

LEMMA RestartKeepsTypes == ASSUME LogInv, Restart PROVE LogInv'
<1>1. /\ file' \in FileMap /\ file'[0] = (IF file[0] = NoFile THEN <<>> ELSE file[0]) /\ file'[0] # NoFile
      /\ \A i \in Slots \ {0} : file'[i] = file[i]
    BY RestartEffect
<1>2. /\ interrupted' \in {interrupted, interrupted + 1}
      /\ (rotating # NoFile => interrupted' = interrupted + 1)
    BY RestartEffect
<1>3. Len(file'[0]) \in Nat /\ Len(file'[0]) <= LogFileMaxBytes + interrupted
    BY <1>1, LogTypes, EmptySeq, ConstantAssumption DEF LogInv, Slots
<1>4. Len(file'[0]) < LogFileMaxBytes + interrupted'
    <2>1. CASE file[0] = NoFile
        BY <1>1, <1>2, <2>1, LogTypes, EmptySeq, ConstantAssumption DEF LogInv
    <2>2. CASE file[0] # NoFile /\ rotating = NoFile
        BY <1>1, <1>2, <1>3, <2>2, LogTypes, ConstantAssumption DEF LogInv, FilesFit
    <2>3. CASE rotating # NoFile
        BY <1>2, <1>3, <2>3, LogTypes, ConstantAssumption
    <2> QED
        BY <2>1, <2>2, <2>3
<1>5. Files' \ {0} = Files \ {0} /\ \A i \in Files \ {0} : file'[i] = file[i]
    BY <1>1 DEF Files, Slots
<1>6. FilesFit'
    <2>1. logFile' /\ rotating' = NoFile
        BY ConstantAssumption DEF Restart
    <2> QED
        BY <1>1, <1>4, <1>5, <2>1, LogTypes DEF LogInv, FilesFit
<1>7. LogFile'
    <2>1. \A i \in Files' : Len(file'[i]) <= LogFileMaxBytes + interrupted'
        <3>1. \A i \in Files' \ {0} :
                  Len(file'[i]) \in Nat /\ Len(file'[i]) <= LogFileMaxBytes + interrupted
            BY <1>5, LogTypes, ConstantAssumption DEF Files, Slots
        <3> QED
            BY <1>2, <1>3, <3>1, LogTypes, ConstantAssumption
    <2>2. currentSize' = Len(file'[0]) /\ currentSize' \in 0 .. LogFileMaxBytes + interrupted'
        BY <1>2, <1>3, LogTypes, ConstantAssumption DEF Restart, LogInv
    <2> QED
        BY <1>1, <1>6, <2>1, <2>2, LogParts DEF LogFile, Restart
<1>8. LogUpload'
    <2>1. upload' \in [Reporter -> LogGoroutine]
        BY ConstantAssumption DEF Restart, NoUpload, LogGoroutine
    <2>2. logFaults' \in 0 .. MaxLogFaults /\ interrupted' \in 0 .. logFaults'
        BY <1>2, LogParts, ConstantAssumption DEF Restart, LogUpload, LogInv
    <2> QED
        BY <2>1, <2>2, LogParts DEF LogUpload, Restart
<1> QED
    BY <1>7, <1>8, LogPartsNext DEF LogInv

LEMMA RotateCurrentKeepsTypes == ASSUME LogInv, RotateCurrent PROVE LogInv'
<1>1. <<>> # NoFile /\ Len(<<>>) = 0 /\ interrupted' = interrupted
    BY EmptySeq, ConstantAssumption DEF LogInv, RotateCurrent
<1>2. \A i \in Files' :
          \/ i = 0 /\ file'[i] = <<>>
          \/ i = 1 /\ file'[i] = file[0]
          \/ i \notin {0, 1} /\ i \in Files /\ file'[i] = file[i]
    BY RotateCurrentEffect DEF Files, Slots
<1>3. FilesFit'
    <2>1. \A i \in Files' \ {0} : Len(file'[i]) >= LogFileMaxBytes
        BY <1>2, RotateCurrentEffect, ConstantAssumption DEF LogInv, FilesFit
    <2>2. logFile' => Len(file'[0]) < LogFileMaxBytes + interrupted'
        BY <1>1, RotateCurrentEffect, LogTypes, ConstantAssumption
    <2> QED
        BY <2>1, <2>2, RotateCurrentEffect, LogTypes DEF FilesFit
<1>4. LogFile'
    <2>1. \A i \in Files' : Len(file'[i]) <= LogFileMaxBytes + interrupted'
        <3>1. 0 <= LogFileMaxBytes + interrupted /\ Len(file[0]) <= LogFileMaxBytes + interrupted
            BY RotateCurrentEffect, LogTypes, ConstantAssumption DEF LogInv
        <3>2. \A i \in Files : Len(file[i]) <= LogFileMaxBytes + interrupted
            BY DEF LogInv, LogTypeOK
        <3> QED
            BY <1>1, <1>2, <3>1, <3>2
    <2>2. currentSize' = 0 /\ currentSize' \in 0 .. LogFileMaxBytes + interrupted'
        BY <1>1, LogTypes, ConstantAssumption DEF RotateCurrent, LogInv
    <2>4. logFile' => Len(file'[0]) = 0
        BY <1>1, RotateCurrentEffect
    <2>3. logFile' \in BOOLEAN
        BY RotateCurrentEffect
    <2> QED
        BY <1>3, <2>1, <2>2, <2>3, <2>4, RotateCurrentEffect, LogParts DEF LogFile, RotateCurrent
<1>5. LogUpload'
    <2>1. upload' \in [Reporter -> LogGoroutine]
        BY LogParts, ConstantAssumption DEF LogUpload, RotateCurrent, LogGoroutine
    <2>2. logFaults' \in 0 .. MaxLogFaults /\ interrupted' \in 0 .. logFaults'
        BY LogParts, ConstantAssumption DEF RotateCurrent, LogUpload, LogInv
    <2> QED
        BY <2>1, <2>2, LogParts DEF LogUpload, RotateCurrent
<1> QED
    BY <1>4, <1>5, LogPartsNext DEF LogInv

\* The steps that leave the files, or the uploads, as they are.
LeavesFiles ==
    \/ RequestLog \/ Expire \/ StoreLate
    \/ \E u \in Reporter : RunUpload(u)
    \/ UNCHANGED logVars

LEMMA FilesLeft == ASSUME LeavesFiles PROVE UNCHANGED loggerVars
BY DEF LeavesFiles, RequestLog, Expire, StoreLate, RunUpload, CheckPut, Claim,
       Read, Put, Leave, logVars

LeavesUploads ==
    \/ WriteRecord \/ WriteNothing \/ RotateOlder
    \/ RequestLog \/ Expire \/ UNCHANGED logVars

LEMMA UploadsLeft == ASSUME LeavesUploads PROVE UNCHANGED uploadVars
BY DEF LeavesUploads, WriteRecord, WriteNothing, RotateOlder, RequestLog, Expire,
   logVars

LEMMA FilesStand == ASSUME LogFile, UNCHANGED loggerVars PROVE LogFile'
BY DEF LogFile, FilesFit, Files, FileMap, LogText, Slots, Rotated, loggerVars

LEMMA UploadKeepsTypes ==
    ASSUME LogInv,
           RequestLog \/ Expire \/ StoreLate \/ \E u \in Reporter : RunUpload(u)
    PROVE  LogInv'
<1>1. upload \in [Reporter -> LogGoroutine]
    BY LogParts DEF LogUpload
<1>2. UNCHANGED loggerVars
    BY DEF RequestLog, Expire, StoreLate, RunUpload, CheckPut, Claim, Read,
       Put, Leave
<1>3. LogFile'
    BY <1>2, LogParts, FilesStand
<1>4. interrupted' = interrupted
    BY <1>2 DEF loggerVars
<1>5. LogUpload'
    <2>1. CASE RequestLog \/ Expire
        BY <1>4, <2>1, LogParts, ConstantAssumption DEF LogUpload, RequestLog, Expire, uploadVars
    <2>2. CASE StoreLate
        BY <1>4, <2>2, LogParts DEF LogUpload, StoreLate
    <2>3. ASSUME NEW u \in Reporter, CheckPut(u) PROVE LogUpload'
        <3>1. upload' \in [Reporter -> LogGoroutine]
            BY <1>1, <2>3 DEF CheckPut, Goto, LogGoroutine
        <3>2. raced' \in BOOLEAN
            BY <2>3 DEF CheckPut, Claiming
        <3> QED
            BY <1>4, <2>3, <3>1, <3>2, LogParts DEF LogUpload, CheckPut
    <2>4. ASSUME NEW u \in Reporter, Claim(u) PROVE LogUpload'
        <3>1. upload' \in [Reporter -> LogGoroutine]
            BY <1>1, <2>4 DEF Claim, Goto, LogGoroutine
        <3> QED
            BY <1>4, <2>4, <3>1, LogParts DEF LogUpload, Claim
    <2>5. ASSUME NEW u \in Reporter, Read(u) PROVE LogUpload'
        <3>1. file[1] \in {NoFile} \cup LogText
            BY LogTypes, SlotsFit DEF LogInv, FileMap
        <3>2. upload' \in [Reporter -> LogGoroutine]
            BY <1>1, <2>5, <3>1 DEF Read, LogGoroutine
        <3> QED
            BY <1>4, <2>5, <3>2, LogParts DEF LogUpload, Read
    <2>6. ASSUME NEW u \in Reporter, Put(u) PROVE LogUpload'
        <3>1. upload[u].data \in {NoFile} \cup LogText
            BY <1>1 DEF LogGoroutine
        <3>2. upload' \in [Reporter -> LogGoroutine]
            BY <1>1, <2>6 DEF Put, LogGoroutine
        <3>3. log' \in {NoFile} \cup LogText /\ late' \in {NoFile} \cup LogText
            BY <2>6, <3>1, LogParts DEF LogUpload, Put
        <3>4. logFaults' \in 0 .. MaxLogFaults /\ interrupted' \in 0 .. logFaults'
            BY <1>4, <2>6, LogParts, ConstantAssumption DEF LogUpload, Put, LogInv
        <3> QED
            BY <2>6, <3>2, <3>3, <3>4, LogParts DEF LogUpload, Put
    <2>7. ASSUME NEW u \in Reporter, Leave(u) PROVE LogUpload'
        <3>1. upload' \in [Reporter -> LogGoroutine]
            BY <1>1, <2>7 DEF Leave, NoUpload, LogGoroutine
        <3> QED
            BY <1>4, <2>7, <3>1, LogParts DEF LogUpload, Leave
    <2> QED
        BY <2>1, <2>2, <2>3, <2>4, <2>5, <2>6, <2>7 DEF RunUpload
<1> QED
    BY <1>3, <1>5, LogPartsNext DEF LogInv

LEMMA LogStep == ASSUME LogInv, [LogNext]_(logVars) PROVE LogInv'
<1>1. CASE UNCHANGED logVars
    <2>1. UNCHANGED loggerVars
        BY <1>1 DEF logVars
    <2>2. LogUpload'
        BY <1>1, LogParts DEF LogUpload, LogText, logVars, loggerVars, uploadVars
    <2> QED
        BY <2>1, <2>2, LogParts, LogPartsNext, FilesStand DEF LogInv
<1> QED
    BY <1>1, WriteKeepsTypes, WriteNothingKeepsTypes, RotateOlderKeepsTypes, RotateCurrentKeepsTypes,
       RestartKeepsTypes, UploadKeepsTypes DEF LogNext

LEMMA LogFits == LogSpec => []LogInv
<1>1. LogInit => LogInv
    BY LogInvInit
<1>2. LogInv /\ [LogNext]_(logVars) => LogInv'
    BY LogStep
<1> QED
    BY <1>1, <1>2, PTL DEF LogSpec

\* The types of the log, and what the size of the files is bounded by, for any sizes, number of
\* files and uploads and any number of crashes and failures (CDDLogger, reportLogs, StoreLog).
THEOREM LogTypeCorrect == LogSpec => []LogTypeOK
<1>1. LogInv => LogTypeOK
    BY DEF LogInv
<1> QED
    BY <1>1, LogFits, PTL

-----------------------------------------------------------------------------
(* The log: the lines that are kept *)

LEMMA Distributes == ASSUME NEW a \in Int, NEW m \in Int PROVE (a + 1) * m = a * m + m /\ a * m \in Int
OBVIOUS

LEMMA Grows == ASSUME NEW a \in Int, NEW b \in Int, NEW m \in Nat, a <= b PROVE a * m <= b * m
<1>1. (b - a) * m >= 0
    OBVIOUS
<1>2. (b - a) * m = b * m - a * m
    OBVIOUS
<1> QED
    BY <1>1, <1>2

LEMMA LinesFit ==
    ASSUME LogInv
    PROVE  /\ \A i \in Files : \A k \in 1 .. Len(file[i]) :
                  file[i][k] \in Lines /\ file[i][k] \in Nat
           /\ \A x \in Lines : \E i \in Files : \E k \in 1 .. Len(file[i]) : x = file[i][k]
<1>1. \A i \in Files : \A k \in 1 .. Len(file[i]) : file[i][k] \in Nat
    BY LogTypes, FileFits, ConstantAssumption DEF Files, Slots, LogInv
<1> QED
    BY <1>1 DEF Lines

\* Files that were only renamed, past no other, stay in their order.
LEMMA OrderKept ==
    ASSUME InOrder, NEW m,
           \A i \in Files' : Len(file'[i]) = 0 \/ (m[i] \in Files /\ file'[i] = file[m[i]]),
           \A i, j \in Files' : Len(file'[i]) # 0 /\ Len(file'[j]) # 0 /\ i > j => m[i] > m[j],
           \A i \in Files' : Len(file'[i]) \in Nat
    PROVE  InOrder'
<1> SUFFICES ASSUME NEW i \in Files', NEW j \in Files',
                    NEW k \in 1 .. Len(file'[i]), NEW l \in 1 .. Len(file'[j]),
                    i > j \/ (i = j /\ k < l)
             PROVE  file'[i][k] < file'[j][l]
    BY DEF InOrder
<1>1. Len(file'[i]) # 0 /\ Len(file'[j]) # 0
    OBVIOUS
<1>2. m[i] \in Files /\ m[j] \in Files /\ file'[i] = file[m[i]] /\ file'[j] = file[m[j]]
    BY <1>1
<1>3. m[i] > m[j] \/ (m[i] = m[j] /\ k < l)
    BY <1>1
<1> QED
    BY <1>2, <1>3 DEF InOrder

LEMMA NoNewLines ==
    ASSUME \A i \in Files' : Len(file'[i]) = 0 \/ \E j \in Files : file'[i] = file[j]
    PROVE  \A x \in Lines' : x \in Lines
<1> SUFFICES ASSUME NEW i \in Files', NEW k \in 1 .. Len(file'[i]) PROVE file'[i][k] \in Lines
    BY DEF Lines
<1>1. PICK j \in Files : file'[i] = file[j]
    OBVIOUS
<1> QED
    BY <1>1 DEF Lines

\* The files that a step does not touch, or only renames, hold the same lines.
LEMMA LinesKept ==
    ASSUME \A i \in Files' : Len(file'[i]) = 0 \/ \E j \in Files : file'[i] = file[j],
           \A j \in Files : Len(file[j]) = 0 \/ \E i \in Files' : file'[i] = file[j]
    PROVE  Lines' = Lines
<1>1. \A x \in Lines : x \in Lines'
    <2> SUFFICES ASSUME NEW j \in Files, NEW k \in 1 .. Len(file[j]) PROVE file[j][k] \in Lines'
        BY DEF Lines
    <2>1. PICK i \in Files' : file'[i] = file[j]
        OBVIOUS
    <2> QED
        BY <2>1 DEF Lines
<1> QED
    BY <1>1, NoNewLines

LEMMA RotateOlderKeepsRoom == ASSUME LogInv, RoomFits, RotateOlder PROVE RoomFits'
<1> DEFINE m == [i \in Nat |-> IF i = rotating + 1 /\ file[rotating] # NoFile THEN rotating ELSE i]
<1> SUFFICES ASSUME NEW i \in Files' \ {0}
             PROVE  file'[i][1] + Between(i)' * LogFileMaxBytes <= Current'
    BY ConstantAssumption DEF RoomFits
<1>1. Current' = Current
    BY RotateOlderEffect DEF Current, Held
<1>2. i \in Slots /\ i \in Nat /\ file'[i] # NoFile /\ i # 0
    BY SlotsFit DEF Files, Slots, LogInv
<1>3. m[i] \in Files \ {0} /\ file'[i] = file[m[i]] /\ m[i] \in Nat
    BY <1>2, RotateOlderEffect, ConstantAssumption DEF Files, Slots, LogInv
<1>4. Between(i)' = Between(m[i])
    <2>1. rotating # NoFile /\ rotating' # NoFile /\ interrupted' = interrupted /\ interrupted \in Nat
        BY RotateOlderEffect, LogTypes, ConstantAssumption DEF LogInv
    <2>2. CASE i = rotating + 1 /\ file[rotating] # NoFile
        BY <1>2, <2>1, <2>2, RotateOlderEffect DEF Between
    <2>3. CASE ~(i = rotating + 1 /\ file[rotating] # NoFile)
        <3>1. i # rotating
            BY <1>2, RotateOlderEffect
        <3>2. m[i] = i /\ (rotating' < i <=> rotating < i)
            BY <1>2, <2>3, <3>1, RotateOlderEffect
        <3> QED
            BY <1>2, <2>1, <3>2 DEF Between
    <2> QED
        BY <2>2, <2>3
<1> HIDE DEF m
<1> QED
    BY <1>1, <1>3, <1>4 DEF RoomFits

LEMMA RotateOlderKeepsOrder ==
    ASSUME LogInv, OrderFits, RotateOlder
    PROVE  OrderFits' /\ (RunsFit => RunsFit')
<1> DEFINE m == [i \in Nat |-> IF i = rotating + 1 /\ file[rotating] # NoFile THEN rotating ELSE i]
<1>1. ASSUME NEW i \in Files'
      PROVE  /\ i \in Nat /\ i # rotating /\ Len(file'[i]) \in Nat
             /\ m[i] \in Files /\ file'[i] = file[m[i]] /\ m[i] \in Nat
             /\ m[i] = i \/ (m[i] = i - 1 /\ m[i] = rotating)
    <2>1. i \in Slots /\ i \in Nat /\ file'[i] # NoFile /\ i # rotating
        BY SlotsFit, RotateOlderEffect, ConstantAssumption DEF Files, Slots, LogInv
    <2>2. /\ m[i] \in Files /\ file'[i] = file[m[i]] /\ m[i] \in Nat
          /\ (m[i] = i \/ (m[i] = i - 1 /\ m[i] = rotating))
        BY <2>1, RotateOlderEffect DEF Files, Slots, LogInv
    <2>3. Len(file'[i]) \in Nat
        BY <2>1, RotateOlderEffect, FileFits DEF LogInv
    <2> QED
        BY <2>1, <2>2, <2>3
<1>2. \A i, j \in Files' : i > j => m[i] > m[j]
    <2> HIDE DEF m
    <2> SUFFICES ASSUME NEW i \in Files', NEW j \in Files', i > j PROVE m[i] > m[j]
        OBVIOUS
    <2>1. j # rotating /\ rotating \in Nat
        BY <1>1, RotateOlderEffect, ConstantAssumption DEF LogInv
    <2> QED
        BY <1>1, <2>1
<1> HIDE DEF m
<1>3. InOrder'
    BY <1>1, <1>2, OrderKept DEF OrderFits
<1>6. \A x \in Lines' : x <= written'
    BY <1>1, NoNewLines, RotateOlderEffect DEF OrderFits
<1>4. Current' = Current /\ file'[0] = file[0]
    BY RotateOlderEffect DEF Current, Held
<1>5. RunsFit => RunsFit'
    BY <1>1, <1>4 DEF RunsFit
<1> QED
    BY <1>3, <1>5, <1>6 DEF OrderFits

\* A rename to a number that no file has loses no line.
LEMMA RotateOlderKeepsLines ==
    ASSUME LogInv, RotateOlder, file[rotating] # NoFile => file[rotating + 1] = NoFile
    PROVE  /\ \A i \in Files' : \E j \in Files : file'[i] = file[j]
           /\ \A j \in Files : \E i \in Files' :
                  file'[i] = file[j] /\ (i = j \/ (i = rotating + 1 /\ j = rotating))
           /\ Lines' = Lines
<1>1. ASSUME NEW i \in Files' PROVE \E j \in Files : file'[i] = file[j]
    <2>1. i \in Slots /\ file'[i] # NoFile /\ i # rotating
        BY RotateOlderEffect DEF Files, Slots
    <2>2. CASE i = rotating + 1 /\ file[rotating] # NoFile
        BY <2>2, RotateOlderEffect, LogTypes
    <2>3. CASE ~(i = rotating + 1 /\ file[rotating] # NoFile)
        BY <2>1, <2>3, RotateOlderEffect, LogTypes
    <2> QED
        BY <2>2, <2>3
<1>2. ASSUME NEW j \in Files
      PROVE  \E i \in Files' : file'[i] = file[j] /\ (i = j \/ (i = rotating + 1 /\ j = rotating))
    <2>1. j \in Slots /\ file[j] # NoFile
        BY DEF Files, Slots
    <2>2. CASE j = rotating
        BY <2>1, <2>2, RotateOlderEffect DEF Files, Slots
    <2>3. CASE j # rotating
        BY <2>1, <2>3, RotateOlderEffect DEF Files, Slots
    <2> QED
        BY <2>2, <2>3
<1> QED
    BY <1>1, <1>2, LinesKept

LEMMA RotateOlderKeepsLosses ==
    ASSUME LogInv, OrderFits, LossFits, RotateOlder
    PROVE  LossFits'
<1>1. PICK lost \in 0 .. written :
          /\ Lines = lost + 1 .. written
          /\ lost > 0 => /\ Oldest \in Files /\ file[Oldest][1] = lost + 1
                         /\ \E i \in Files \ {Oldest} : Len(file[i]) >= LogFileMaxBytes
    BY DEF LossFits
<1>2. /\ Oldest \in Nat /\ Oldest = LogFileRotateCount + 1 /\ Oldest \in Slots /\ Oldest >= 2
      /\ written' = written
    BY SlotsFit, RotateOlderEffect, ConstantAssumption DEF LogInv, Oldest
<1>3. CASE file[rotating] # NoFile => file[rotating + 1] = NoFile
    <2>1. Lines' = lost + 1 .. written'
        BY <1>1, <1>2, <1>3, RotateOlderKeepsLines
    <2>2. ASSUME lost > 0
          PROVE  /\ Oldest \in Files' /\ file'[Oldest][1] = lost + 1
                 /\ \E i \in Files' \ {Oldest} : Len(file'[i]) >= LogFileMaxBytes
        <3>1. Oldest \in Files /\ file[Oldest][1] = lost + 1 /\ file[Oldest] # NoFile
            BY <1>1, <2>2, ConstantAssumption DEF Files
        <3>2. rotating = LogFileRotateCount => file[rotating] = NoFile
            BY <1>2, <1>3, <3>1
        <3>3. Oldest \in Files' /\ file'[Oldest] = file[Oldest]
            BY <1>2, <3>1, <3>2, RotateOlderEffect, ConstantAssumption DEF Files, Slots, LogInv
        <3>4. PICK i \in Files \ {Oldest} : Len(file[i]) >= LogFileMaxBytes
            BY <1>1, <2>2
        <3>5. PICK j \in Files' :
                  file'[j] = file[i] /\ (i = j \/ (j = rotating + 1 /\ i = rotating))
            BY <1>3, <3>4, RotateOlderKeepsLines
        <3>6. j # Oldest
            BY <1>2, <3>2, <3>4, <3>5, RotateOlderEffect, ConstantAssumption DEF Files, LogInv
        <3> QED
            BY <3>1, <3>3, <3>4, <3>5, <3>6
    <2> QED
        BY <1>1, <1>2, <2>1, <2>2 DEF LossFits
<1>4. CASE file[rotating] # NoFile /\ file[rotating + 1] # NoFile
    <2>1. rotating = LogFileRotateCount /\ rotating + 1 = Oldest /\ rotating # Oldest /\ rotating # 0
        BY <1>2, <1>4, RotateOlderEffect, ConstantAssumption DEF LogInv
    <2>2. rotating \in Files \ {0} /\ Oldest \in Files
        BY <1>2, <1>4, <2>1, RotateOlderEffect, LogTypes
    <2>3. /\ file[rotating] \in LogText /\ Len(file[rotating]) \in Nat
          /\ Len(file[rotating]) >= LogFileMaxBytes /\ 1 \in 1 .. Len(file[rotating])
        BY <2>2, LogTypes, ConstantAssumption DEF LogInv, FilesFit, Files
    <2>4. Len(file[Oldest]) \in Nat /\ 1 \in 1 .. Len(file[Oldest])
        BY <1>2, <2>2, LogTypes, ConstantAssumption DEF LogInv, FilesFit, Files
    <2> DEFINE first == file[rotating][1]
    <2>5. first \in lost + 1 .. written /\ first \in Nat /\ lost \in Nat /\ written \in Nat
        BY <1>1, <2>2, <2>3, LinesFit, LogTypes, SMTT(30) DEF LogInv
    <2>6. file[Oldest][1] < first /\ file[Oldest][1] \in lost + 1 .. written
        BY <1>1, <2>1, <2>2, <2>3, <2>4, LinesFit, RotateOlderEffect DEF OrderFits, InOrder, LogInv
    <2>7. \A x \in Lines' : x \in first .. written
        <3> SUFFICES ASSUME NEW i \in Files', NEW k \in 1 .. Len(file'[i])
                     PROVE  file'[i][k] \in first .. written
            BY DEF Lines
        <3>1. i \in Slots /\ file'[i] # NoFile /\ i # rotating /\ i \in 0 .. Oldest
            BY SlotsFit, RotateOlderEffect DEF Files, Slots, LogInv
        <3>2. CASE i = Oldest
            <4>1. file'[i] = file[rotating]
                BY <1>4, <2>1, <3>2, RotateOlderEffect
            <4>2. file[rotating][k] \in lost + 1 .. written
                BY <1>1, <2>2, <4>1, LinesFit
            <4>3. k = 1 \/ (1 < k /\ k \in 1 .. Len(file[rotating]))
                BY <2>3, <4>1
            <4>4. 1 < k => first < file[rotating][k]
                BY <2>2, <2>3, <4>1, <4>3 DEF OrderFits, InOrder
            <4> QED
                BY <2>5, <4>1, <4>2, <4>3, <4>4
        <3>3. CASE i # Oldest
            <4>1. file'[i] = file[i] /\ i \in Files /\ i < rotating
                BY <1>2, <2>1, <3>1, <3>3, RotateOlderEffect, LogTypes
            <4>2. file[i][k] \in lost + 1 .. written
                BY <1>1, <4>1, LinesFit
            <4>3. first < file[i][k]
                BY <2>2, <2>3, <4>1 DEF OrderFits, InOrder
            <4> QED
                BY <2>5, <4>1, <4>2, <4>3
        <3> QED
            BY <3>2, <3>3
    <2>8. \A x \in first .. written : x \in Lines'
        <3> SUFFICES ASSUME NEW x \in first .. written PROVE x \in Lines'
            OBVIOUS
        <3>1. x \in Lines
            BY <1>1, <2>5
        <3>10. PICK i \in Files : \E k \in 1 .. Len(file[i]) : x = file[i][k]
            BY <3>1, LinesFit
        <3>2. PICK k \in 1 .. Len(file[i]) : x = file[i][k]
            BY <3>10
        <3>3. i \in Slots /\ file[i] # NoFile /\ i \in 0 .. Oldest
            BY SlotsFit DEF Files, Slots, LogInv
        <3>4. i # Oldest
            <4>1. Oldest > rotating /\ 1 \in 1 .. Len(file[rotating])
                BY <2>1, <2>3, ConstantAssumption
            <4>2. ASSUME i = Oldest PROVE file[i][k] < file[rotating][1]
                BY <2>2, <4>1, <4>2 DEF OrderFits, InOrder
            <4> QED
                BY <2>5, <3>2, <4>2
        <3>5. CASE i = rotating
            <4>1. Oldest \in Files' /\ file'[Oldest] = file[i]
                BY <1>2, <1>4, <2>1, <3>5, RotateOlderEffect DEF Files, Slots
            <4> QED
                BY <3>2, <4>1 DEF Lines
        <3>6. CASE i # rotating
            <4>1. i \in Files' /\ file'[i] = file[i]
                BY <2>1, <3>3, <3>4, <3>6, RotateOlderEffect DEF Files, Slots
            <4> QED
                BY <3>2, <4>1 DEF Lines
        <3> QED
            BY <3>5, <3>6
    <2>9. Oldest \in Files' /\ file'[Oldest] = file[rotating]
        BY <1>2, <1>4, <2>1, RotateOlderEffect DEF Files, Slots
    <2>10. 0 \in Files' \ {Oldest} /\ Len(file'[0]) >= LogFileMaxBytes
        BY <1>2, <2>1, RotateOlderEffect DEF Files, Slots
    <2>11. first - 1 \in 0 .. written' /\ Lines' = (first - 1) + 1 .. written'
        <3>1. (first - 1) + 1 = first /\ first - 1 \in 0 .. written
            <4> HIDE DEF first
            <4> QED
                BY <1>1, <2>5
        <3> QED
            BY <1>2, <2>7, <2>8, <3>1
    <2>12. file'[Oldest][1] = (first - 1) + 1
        BY <2>5, <2>9
    <2> QED
        BY <2>9, <2>10, <2>11, <2>12 DEF LossFits
<1> QED
    BY <1>3, <1>4

LEMMA WriteCurrent ==
    ASSUME LogInv, WriteRecord
    PROVE  Current' = Current /\ Current \in Int /\ Current + Len(file[0]) = written + 1
<1>1. file[0] # NoFile /\ file'[0] # NoFile
    BY WriteEffect DEF Files
<1>2. Current = written + 1 - Len(file[0])
    BY <1>1 DEF Current, Held
<1>3. Current' = written' + 1 - Len(file'[0])
    BY <1>1 DEF Current, Held
<1> QED
    BY <1>2, <1>3, WriteEffect, SMTT(30)

LEMMA WriteLines ==
    ASSUME LogInv, WriteRecord
    PROVE  /\ \A i \in Files' : i \in Nat /\ Len(file'[i]) \in Nat /\ Len(file[i]) \in Nat
           /\ \A i \in Files' : \A k \in 1 .. Len(file'[i]) :
                  \/ i = 0 /\ k = Len(file[0]) + 1 /\ file'[i][k] = written + 1
                  \/ k \in 1 .. Len(file[i]) /\ file'[i][k] = file[i][k]
<1> DEFINE n == Len(file[0])
<1>1. n \in Nat /\ \A i \in Files' : i \in Nat /\ Len(file'[i]) \in Nat /\ Len(file[i]) \in Nat
    BY WriteEffect, LogTypes, SlotsFit DEF Files, Slots, LogInv
<1>2. \A i \in Files' : \A k \in 1 .. Len(file'[i]) :
          \/ i = 0 /\ k = n + 1 /\ file'[i][k] = written + 1
          \/ k \in 1 .. Len(file[i]) /\ file'[i][k] = file[i][k]
    <2> SUFFICES ASSUME NEW i \in Files', NEW k \in 1 .. Len(file'[i])
                 PROVE  \/ i = 0 /\ k = n + 1 /\ file'[i][k] = written + 1
                        \/ k \in 1 .. Len(file[i]) /\ file'[i][k] = file[i][k]
        OBVIOUS
    <2>1. CASE i = 0
        BY <1>1, <2>1, WriteEffect
    <2>2. CASE i # 0
        BY <2>2, WriteEffect
    <2> QED
        BY <2>1, <2>2
<1> QED
    BY <1>1, <1>2

LEMMA WriteKeepsOrder == ASSUME LogInv, OrderFits, WriteRecord PROVE OrderFits'
<1>1. \A i \in Files : \A k \in 1 .. Len(file[i]) : file[i][k] \in Nat /\ file[i][k] <= written
    BY LinesFit DEF OrderFits
<1> DEFINE n == Len(file[0])
<1>2. n \in Nat /\ written \in Nat
    BY WriteEffect
<1>3. InOrder'
    <2> SUFFICES ASSUME NEW i \in Files', NEW j \in Files',
                        NEW k \in 1 .. Len(file'[i]), NEW l \in 1 .. Len(file'[j]),
                        i > j \/ (i = j /\ k < l)
                 PROVE  file'[i][k] < file'[j][l]
        BY DEF InOrder
    <2>1. i \in Files /\ j \in Files
        BY WriteEffect
    <2>2. k \in 1 .. Len(file[i]) /\ file'[i][k] = file[i][k]
        <3>1. CASE i = 0 /\ k = n + 1
            <4>1. j \in Nat /\ Len(file'[0]) = n + 1
                BY WriteEffect, WriteLines
            <4> QED
                BY <1>2, <3>1, <4>1
        <3> QED
            BY <3>1, WriteLines
    <2>3. CASE j = 0 /\ l = n + 1 /\ file'[j][l] = written + 1
        BY <1>1, <2>1, <2>2, <2>3, WriteEffect
    <2>4. CASE l \in 1 .. Len(file[j]) /\ file'[j][l] = file[j][l]
        BY <2>1, <2>2, <2>4 DEF OrderFits, InOrder
    <2> QED
        BY <2>3, <2>4, WriteLines
<1>4. \A x \in Lines' : x <= written'
    <2> SUFFICES ASSUME NEW i \in Files', NEW k \in 1 .. Len(file'[i]) PROVE file'[i][k] <= written'
        BY DEF Lines
    <2>1. i \in Files /\ written' = written + 1
        BY WriteEffect
    <2> QED
        BY <1>1, <1>2, <2>1, WriteLines, SMTT(30)
<1> QED
    BY <1>3, <1>4 DEF OrderFits

LEMMA WriteKeepsRuns == ASSUME LogInv, RunsFit, LossFits, WriteRecord PROVE RunsFit' /\ LossFits'
<1>1. PICK lost \in 0 .. written :
          /\ Lines = lost + 1 .. written
          /\ lost > 0 => /\ Oldest \in Files /\ file[Oldest][1] = lost + 1
                         /\ \E i \in Files \ {Oldest} : Len(file[i]) >= LogFileMaxBytes
    BY DEF LossFits
<1> DEFINE n == Len(file[0])
<1>3. n \in Nat /\ \A i \in Files' : i \in Nat /\ Len(file'[i]) \in Nat /\ Len(file[i]) \in Nat
    BY WriteEffect, WriteLines
<1>4. \A i \in Files' : \A k \in 1 .. Len(file'[i]) :
          \/ i = 0 /\ k = n + 1 /\ file'[i][k] = written + 1
          \/ k \in 1 .. Len(file[i]) /\ file'[i][k] = file[i][k]
    BY WriteLines
<1>6. file'[0][1] = Current /\ Current' = Current /\ Current \in Int /\ Current + n = written + 1
    <2>1. Current' = Current /\ Current \in Int /\ Current + n = written + 1
        BY WriteCurrent
    <2>2. CASE n = 0
        BY <2>1, <2>2, WriteEffect
    <2>3. CASE n # 0
        <3>1. 1 \in 1 .. n /\ file[0] # <<>> /\ file[0] # NoFile
            BY <1>3, <2>3, EmptySeq, WriteEffect DEF Files
        <3> QED
            BY <2>1, <3>1, WriteEffect DEF RunsFit
    <2> QED
        BY <2>2, <2>3
<1>7. RunsFit'
    <2>1. ASSUME NEW i \in Files', NEW k \in 1 .. Len(file'[i])
          PROVE  file'[i][k] = file'[i][1] + k - 1
        <3>1. CASE i = 0 /\ k = n + 1
            BY <1>3, <1>6, <3>1, WriteEffect
        <3>2. CASE k \in 1 .. Len(file[i]) /\ file'[i][k] = file[i][k]
            <4>1. file'[i][1] = file[i][1]
                <5>1. 1 \in 1 .. Len(file[i])
                    BY <1>3, <3>2
                <5>2. CASE i = 0
                    BY <5>1, <5>2, WriteEffect
                <5>3. CASE i # 0
                    BY <5>3, WriteEffect
                <5> QED
                    BY <5>2, <5>3
            <4> QED
                BY <3>2, <4>1, WriteEffect DEF RunsFit
        <3> QED
            BY <1>4, <3>1, <3>2
    <2> QED
        BY <1>6, <2>1 DEF RunsFit
<1>8. LossFits'
    <2>1. Lines' = lost + 1 .. written'
        <3>1. \A x \in Lines' : x \in Lines \cup {written + 1}
            <4> SUFFICES ASSUME NEW x \in Lines' PROVE x \in Lines \cup {written + 1}
                OBVIOUS
            <4>1. PICK i \in Files' : x \in {file'[i][k] : k \in 1 .. Len(file'[i])}
                BY DEF Lines
            <4>2. PICK k \in 1 .. Len(file'[i]) : x = file'[i][k]
                BY <4>1
            <4> QED
                BY <1>4, <4>2, LinesFit, WriteEffect
        <3>2. \A x \in Lines \cup {written + 1} : x \in Lines'
            <4>1. written + 1 \in Lines'
                <5>1. n + 1 \in 1 .. Len(file'[0]) /\ 0 \in Files'
                    BY <1>3, WriteEffect
                <5> QED
                    BY <5>1, WriteEffect DEF Lines
            <4>2. ASSUME NEW i \in Files, NEW k \in 1 .. Len(file[i]) PROVE file[i][k] \in Lines'
                <5>1. i \in Files' /\ k \in 1 .. Len(file'[i]) /\ file'[i][k] = file[i][k]
                    <6>1. CASE i = 0
                        BY <1>3, <6>1, WriteEffect
                    <6>2. CASE i # 0
                        BY <6>2, WriteEffect
                    <6> QED
                        BY <6>1, <6>2
                <5> QED
                    BY <5>1 DEF Lines
            <4> QED
                BY <4>1, <4>2, LinesFit
        <3>3. (lost + 1 .. written) \cup {written + 1} = lost + 1 .. written + 1
            <4>1. lost \in Nat /\ written \in Nat /\ lost <= written
                BY WriteEffect
            <4> QED
                BY <4>1
        <3> QED
            BY <1>1, <3>1, <3>2, <3>3, WriteEffect
    <2>2. ASSUME lost > 0
          PROVE  /\ Oldest \in Files' /\ file'[Oldest][1] = lost + 1
                 /\ \E i \in Files' \ {Oldest} : Len(file'[i]) >= LogFileMaxBytes
        <3>1. Oldest \in Files \ {0}
            BY <1>1, <2>2, SlotsFit DEF LogInv
        <3>2. PICK i \in Files \ {Oldest} : Len(file[i]) >= LogFileMaxBytes
            BY <1>1, <2>2
        <3>3. Len(file'[i]) >= LogFileMaxBytes
            <4>1. CASE i = 0
                BY <1>3, <3>2, <4>1, WriteEffect, ConstantAssumption
            <4>2. CASE i # 0
                BY <3>2, <4>2, WriteEffect
            <4> QED
                BY <4>1, <4>2
        <3> QED
            BY <1>1, <2>2, <3>1, <3>2, <3>3, WriteEffect
    <2>3. lost \in 0 .. written'
        BY WriteEffect
    <2> QED
        BY <2>1, <2>2, <2>3 DEF LossFits
<1> QED
    BY <1>7, <1>8

LEMMA WriteKeepsRoom == ASSUME LogInv, RoomFits, WriteRecord PROVE RoomFits'
<1> SUFFICES ASSUME NEW i \in Files' \ {0}
             PROVE  file'[i][1] + Between(i)' * LogFileMaxBytes <= Current'
    BY ConstantAssumption DEF RoomFits
<1>1. i \in Files \ {0} /\ file'[i] = file[i] /\ i \in Nat /\ interrupted \in Nat
    BY WriteEffect, LogTypes, SlotsFit DEF Files, Slots, LogInv
<1>2. Current' = Current /\ Current \in Int
    BY WriteCurrent
<1>3. Between(i)' \in Int /\ Between(i) \in Int /\ Between(i)' <= Between(i)
    BY <1>1, WriteEffect DEF Between, WriteRecord
<1>4. file[i][1] \in Nat
    <2>1. 1 \in 1 .. Len(file[i])
        BY <1>1, LogTypes, ConstantAssumption DEF LogInv, FilesFit, Files, Slots
    <2> QED
        BY <1>1, <2>1, LinesFit
<1> DEFINE old == Between(i) * LogFileMaxBytes
           new == Between(i)' * LogFileMaxBytes
<1>5. old \in Int /\ new \in Int /\ new <= old
    BY <1>3, Distributes, Grows, ConstantAssumption DEF LogInv
<1>6. file[i][1] + old <= Current
    BY <1>1 DEF RoomFits
<1> HIDE DEF old, new
<1>7. file[i][1] + new <= Current'
    BY <1>2, <1>4, <1>5, <1>6
<1> QED
    BY <1>1, <1>7 DEF new

\* The first line of a file that was rotated.
LEMMA FirstFits ==
    ASSUME LogInv, NEW i \in Files \ {0}
    PROVE  /\ i \in Slots /\ i \in Nat /\ i > 0 /\ file[i][1] \in Nat /\ 1 \in 1 .. Len(file[i])
           /\ Between(i) \in Int
<1>1. i \in Slots /\ file[i] # NoFile /\ i \in Nat /\ i > 0
    BY SlotsFit DEF Files, Slots, LogInv
<1>2. 1 \in 1 .. Len(file[i])
    BY <1>1, LogTypes, ConstantAssumption DEF LogInv, FilesFit
<1>3. Between(i) \in Int
    BY <1>1, LogTypes DEF Between
<1> QED
    BY <1>1, <1>2, <1>3, LinesFit

LEMMA RotateCurrentFiles ==
    ASSUME LogInv, RotateCurrent
    PROVE  /\ \A i \in Files' :
                  \/ i = 0 /\ file'[i] = <<>>
                  \/ i = 1 /\ 0 \in Files /\ file'[i] = file[0]
                  \/ i \notin {0, 1} /\ i \in Files /\ file'[i] = file[i]
           /\ 1 \in Files' /\ file'[1] = file[0]
           /\ \A i \in Files \ {0} : i # 1 /\ i \in Files' /\ file'[i] = file[i]
           /\ \A i \in Files' : i \in Nat /\ Len(file'[i]) \in Nat
<1>1. \A i \in Files' :
          \/ i = 0 /\ file'[i] = <<>>
          \/ i = 1 /\ 0 \in Files /\ file'[i] = file[0]
          \/ i \notin {0, 1} /\ i \in Files /\ file'[i] = file[i]
    BY RotateCurrentEffect DEF Files, Slots
<1>2. 1 \in Files' /\ \A i \in Files \ {0} : i # 1 /\ i \in Files' /\ file'[i] = file[i]
    BY RotateCurrentEffect DEF Files, Slots
<1>3. \A i \in Files' : i \in Slots /\ file'[i] # NoFile
    BY DEF Files, Slots
<1>4. \A i \in Files' : i \in Nat /\ Len(file'[i]) \in Nat
    BY <1>3, RotateCurrentEffect, FileFits, SlotsFit DEF LogInv
<1> QED
    BY <1>1, <1>2, <1>4, RotateCurrentEffect

LEMMA RotateCurrentKeepsOrder == ASSUME LogInv, OrderFits, RotateCurrent PROVE OrderFits'
<1>1. written' = written /\ interrupted' = interrupted /\ written \in Nat /\ interrupted \in Nat
    BY LogTypes, ConstantAssumption DEF RotateCurrent, LogInv
<1>2. Len(<<>>) = 0 /\ LogFileMaxBytes \in Nat \ {0}
    BY EmptySeq, ConstantAssumption DEF LogInv
<1>3. InOrder'
    <2> DEFINE m == [i \in Nat |-> IF i = 1 THEN 0 ELSE i]
    <2>1. \A i \in Files' : Len(file'[i]) = 0 \/ (m[i] \in Files /\ file'[i] = file[m[i]])
        BY <1>2, RotateCurrentFiles
    <2>2. \A i, j \in Files' : Len(file'[i]) # 0 /\ Len(file'[j]) # 0 /\ i > j => m[i] > m[j]
        <3>1. \A i \in Files' : i \in Nat /\ (Len(file'[i]) # 0 => i # 0)
            BY <1>2, RotateCurrentFiles
        <3> QED
            BY <3>1
    <2> HIDE DEF m
    <2> QED
        BY <2>1, <2>2, RotateCurrentFiles, OrderKept DEF OrderFits
<1>4. \A i \in Files' : Len(file'[i]) = 0 \/ \E j \in Files : file'[i] = file[j]
    BY <1>2, RotateCurrentFiles
<1>5. \A x \in Lines' : x <= written'
    BY <1>1, <1>4, NoNewLines DEF OrderFits
<1> QED
    BY <1>3, <1>5 DEF OrderFits

LEMMA RotateCurrentKeeps == ASSUME LogInv, KeptInv, RotateCurrent PROVE KeptInv'
<1>1. written' = written /\ interrupted' = interrupted /\ written \in Nat /\ interrupted \in Nat
    BY LogTypes, ConstantAssumption DEF RotateCurrent, LogInv
<1>2. Len(<<>>) = 0 /\ LogFileMaxBytes \in Nat \ {0}
    BY EmptySeq, ConstantAssumption DEF LogInv
<1>4. Lines' = Lines
    <2>1. \A i \in Files' : Len(file'[i]) = 0 \/ \E j \in Files : file'[i] = file[j]
        BY <1>2, RotateCurrentFiles
    <2>2. \A j \in Files : \E i \in Files' : file'[i] = file[j]
        BY RotateCurrentFiles
    <2> QED
        BY <2>1, <2>2, LinesKept
<1>5. RunsFit'
    <2>1. \A i \in Files' : \A k \in 1 .. Len(file'[i]) : file'[i][k] = file'[i][1] + k - 1
        BY <1>2, RotateCurrentFiles DEF KeptInv, RunsFit
    <2> QED
        BY <2>1, RotateCurrentEffect DEF RunsFit
<1> DEFINE n == Len(file[0])
<1>6. /\ Current' = written + 1 /\ Current + n = written + 1 /\ Current \in Int /\ n \in Nat
      /\ n >= LogFileMaxBytes
      /\ file[0][1] = Current
    <2>1. Current' = written + 1
        <3>1. Held' = 0
            BY <1>2, RotateCurrentEffect DEF Held
        <3> QED
            BY <1>1, <3>1 DEF Current
    <2>2. Current + n = written + 1 /\ Current \in Int /\ n \in Nat /\ n >= LogFileMaxBytes
        BY <1>1, RotateCurrentEffect DEF Current, Held
    <2>3. file[0] # NoFile /\ file[0] # <<>>
        BY <1>2, <2>2, RotateCurrentEffect
    <2> QED
        BY <2>1, <2>2, <2>3 DEF KeptInv, RunsFit
<1>7. RoomFits'
    <2> SUFFICES ASSUME NEW i \in Files' \ {0}
                 PROVE  file'[i][1] + Between(i)' * LogFileMaxBytes <= Current'
        BY ConstantAssumption DEF RoomFits
    <2>1. Between(i)' = i - interrupted /\ i \in Nat
        BY <1>1, RotateCurrentEffect, RotateCurrentFiles DEF Between
    <2>2. CASE i = 1
        <3> DEFINE room == (1 - interrupted) * LogFileMaxBytes
        <3>1. room <= 1 * LogFileMaxBytes /\ room \in Int
            BY <1>1, <1>2, Grows, Distributes
        <3>2. file'[i][1] = Current
            BY <1>6, <2>2, RotateCurrentEffect
        <3> HIDE DEF room
        <3>3. file'[i][1] + room <= Current'
            BY <1>2, <1>6, <3>1, <3>2
        <3> QED
            BY <2>1, <2>2, <3>3 DEF room
    <2>3. CASE i # 1
        <3>1. i \in Files \ {0} /\ file'[i] = file[i]
            BY <2>3, RotateCurrentFiles
        <3>2. Between(i)' = Between(i) + 1 /\ Between(i) \in Int
            BY <1>1, <2>1, <3>1, RotateCurrentEffect, LogTypes, FirstFits DEF Between
        <3> DEFINE old == Between(i) * LogFileMaxBytes
        <3>3. Between(i)' * LogFileMaxBytes = old + LogFileMaxBytes /\ old \in Int
            <4> DEFINE b == Between(i)
            <4>2. b \in Int /\ LogFileMaxBytes \in Int
                BY <1>2, <3>2
            <4> HIDE DEF b
            <4>3. /\ (b + 1) * LogFileMaxBytes = b * LogFileMaxBytes + LogFileMaxBytes
                  /\ b * LogFileMaxBytes \in Int
                BY <4>2, Distributes
            <4> USE DEF b
            <4>1. (Between(i) + 1) * LogFileMaxBytes = old + LogFileMaxBytes /\ old \in Int
                BY <4>3
            <4> HIDE DEF old
            <4> QED
                BY <3>2, <4>1
        <3>4. file[i][1] + old <= Current
            BY <3>1 DEF KeptInv, RoomFits
        <3>5. file[i][1] \in Nat
            BY <3>1, FirstFits
        <3> HIDE DEF old
        <3> QED
            BY <1>2, <1>6, <3>1, <3>3, <3>4, <3>5
    <2> QED
        BY <2>2, <2>3
<1>8. LossFits'
    <2>1. PICK lost \in 0 .. written :
              /\ Lines = lost + 1 .. written
              /\ lost > 0 => /\ Oldest \in Files /\ file[Oldest][1] = lost + 1
                             /\ \E i \in Files \ {Oldest} : Len(file[i]) >= LogFileMaxBytes
        BY DEF KeptInv, LossFits
    <2>2. ASSUME lost > 0
          PROVE  /\ Oldest \in Files' /\ file'[Oldest][1] = lost + 1
                 /\ \E i \in Files' \ {Oldest} : Len(file'[i]) >= LogFileMaxBytes
        <3>1. Oldest \in Files \ {0} /\ Oldest # 1
            BY <2>1, <2>2, SlotsFit DEF LogInv
        <3>2. 1 \in Files' \ {Oldest} /\ Len(file'[1]) >= LogFileMaxBytes
            BY <1>6, <3>1, RotateCurrentFiles
        <3> QED
            BY <2>1, <2>2, <3>1, <3>2, RotateCurrentFiles
    <2> QED
        BY <1>1, <1>4, <2>1, <2>2 DEF LossFits
<1> QED
    BY <1>5, <1>7, <1>8 DEF KeptInv

LEMMA RestartKeeps ==
    ASSUME LogInv, Restart
    PROVE  (OrderFits => OrderFits') /\ (KeptInv => KeptInv')
<1>1. /\ file' \in FileMap /\ file'[0] = (IF file[0] = NoFile THEN <<>> ELSE file[0]) /\ file'[0] # NoFile
      /\ \A i \in Slots \ {0} : file'[i] = file[i]
    BY RestartEffect
<1>2. /\ written' = written /\ rotating' = NoFile
      /\ interrupted' = interrupted + (IF rotating = NoFile THEN 0 ELSE 1) /\ interrupted \in Nat
    BY RestartEffect
<1>3. Len(<<>>) = 0
    BY RestartEffect
<1>4. /\ \A i \in Files' : Len(file'[i]) = 0 \/ (i \in Files /\ file'[i] = file[i])
      /\ \A i \in Files : i \in Files' /\ file'[i] = file[i]
      /\ \A i \in Files' \ {0} : i \in Files \ {0}
    BY <1>1, <1>3 DEF Files, Slots
<1>5. \A i \in Files' : i \in Nat /\ Len(file'[i]) \in Nat
    <2>1. \A i \in Files' : i \in Slots /\ file'[i] # NoFile
        BY DEF Files, Slots
    <2> QED
        BY <1>1, <2>1, FileFits, SlotsFit DEF LogInv
<1>6. ASSUME InOrder PROVE InOrder'
    <2> DEFINE m == [i \in Nat |-> i]
    <2>1. \A i \in Files' : m[i] = i
        BY <1>5
    <2> HIDE DEF m
    <2> QED
        BY <1>4, <1>5, <1>6, <2>1, OrderKept
<1>7. Lines' = Lines
    BY <1>4, LinesKept
<1>8. Current' = Current /\ Current \in Int
    <2>1. CASE file[0] = NoFile
        BY <1>1, <1>2, <1>3, <2>1, LogTypes DEF Current, Held
    <2>2. CASE file[0] # NoFile
        BY <1>1, <1>2, <2>2, LogTypes DEF Current, Held, Slots
    <2> QED
        BY <2>1, <2>2
<1>9. ASSUME RunsFit PROVE RunsFit'
    <2>1. \A i \in Files' : \A k \in 1 .. Len(file'[i]) : file'[i][k] = file'[i][1] + k - 1
        BY <1>4, <1>9 DEF RunsFit
    <2>2. file'[0] # <<>> => file'[0][1] = Current'
        BY <1>1, <1>8, <1>9 DEF RunsFit
    <2> QED
        BY <2>1, <2>2 DEF RunsFit
<1>10. ASSUME RoomFits PROVE RoomFits'
    <2> SUFFICES ASSUME NEW i \in Files' \ {0}
                 PROVE  file'[i][1] + Between(i)' * LogFileMaxBytes <= Current'
        BY ConstantAssumption DEF RoomFits
    <2>1. /\ i \in Files \ {0} /\ file'[i] = file[i] /\ i \in Nat /\ file[i][1] \in Nat
          /\ Between(i) \in Int
        BY <1>4, FirstFits
    <2>2. Between(i)' \in Int /\ Between(i)' <= Between(i)
        BY <1>2, <2>1 DEF Between
    <2> DEFINE old == Between(i) * LogFileMaxBytes
               new == Between(i)' * LogFileMaxBytes
    <2>3. old \in Int /\ new \in Int /\ new <= old
        BY <2>1, <2>2, Distributes, Grows, ConstantAssumption
    <2>4. file[i][1] + old <= Current
        BY <1>10, <2>1 DEF RoomFits
    <2> HIDE DEF old, new
    <2>5. file[i][1] + new <= Current'
        BY <1>8, <2>1, <2>3, <2>4
    <2> QED
        BY <2>1, <2>5 DEF new
<1>11. ASSUME LossFits PROVE LossFits'
    BY <1>2, <1>4, <1>7, <1>11 DEF LossFits
<1> QED
    BY <1>2, <1>6, <1>7, <1>9, <1>10, <1>11 DEF OrderFits, KeptInv

LEMMA OrderStep == ASSUME LogInv, OrderFits, [LogNext]_(logVars) PROVE OrderFits'
<1>1. CASE WriteRecord
    BY <1>1, WriteKeepsOrder
<1>2. CASE WriteNothing
    <2>1. file' = file /\ written' = written + 1 /\ written \in Nat
        BY <1>2, LogTypes, ConstantAssumption DEF WriteNothing, LogInv
    <2>2. Files' = Files
        BY <2>1 DEF Files
    <2>3. InOrder' /\ Lines' = Lines
        BY <2>1, <2>2 DEF OrderFits, InOrder, Lines
    <2>4. \A x \in Lines : x \in Nat
        BY LinesFit
    <2> QED
        BY <2>1, <2>3, <2>4 DEF OrderFits
<1>3. CASE RotateOlder
    BY <1>3, RotateOlderKeepsOrder
<1>4. CASE RotateCurrent
    BY <1>4, RotateCurrentKeepsOrder
<1>5. CASE Restart
    BY <1>5, RestartKeeps
<1>6. CASE UNCHANGED loggerVars
    BY <1>6 DEF OrderFits, InOrder, Files, Rotated, Lines, loggerVars
<1>7. CASE LeavesFiles
    <2>1. UNCHANGED loggerVars
        BY <1>7, FilesLeft
    <2> QED
        BY <1>6, <2>1
<1> QED
    BY <1>1, <1>2, <1>3, <1>4, <1>5, <1>7 DEF LogNext, LeavesFiles

LEMMA KeptStep == ASSUME LogInv, OrderFits, KeptFits, [LogNext]_(logVars) PROVE KeptFits'
<1> SUFFICES ASSUME ~unlogged' PROVE KeptInv'
    BY DEF KeptFits
<1>1. ~unlogged /\ ~WriteNothing
    <2>1. LeavesFiles => unlogged' = unlogged
        BY FilesLeft DEF loggerVars
    <2> QED
        BY <2>1 DEF LogNext, LeavesFiles, WriteRecord, WriteNothing, RotateOlder,
                    RotateCurrent, Restart
<1>2. KeptInv
    BY <1>1 DEF KeptFits
<1>3. CASE WriteRecord
    BY <1>2, <1>3, WriteKeepsRuns, WriteKeepsRoom DEF KeptInv
<1>4. CASE RotateOlder
    BY <1>2, <1>4, RotateOlderKeepsOrder, RotateOlderKeepsLosses, RotateOlderKeepsRoom DEF KeptInv
<1>5. CASE RotateCurrent
    BY <1>2, <1>5, RotateCurrentKeeps
<1>6. CASE Restart
    BY <1>2, <1>6, RestartKeeps
<1>7. CASE UNCHANGED loggerVars
    <2>1. Files' = Files /\ Lines' = Lines /\ Current' = Current
        BY <1>7 DEF Files, Rotated, Lines, Current, Held, loggerVars
    <2>2. RunsFit'
        BY <1>2, <1>7, <2>1 DEF KeptInv, RunsFit, loggerVars
    <2>3. RoomFits'
        BY <1>2, <1>7, <2>1 DEF KeptInv, RoomFits, Between, loggerVars
    <2>4. LossFits'
        BY <1>2, <1>7, <2>1 DEF KeptInv, LossFits, loggerVars
    <2> QED
        BY <2>2, <2>3, <2>4 DEF KeptInv
<1>8. CASE LeavesFiles
    <2>1. UNCHANGED loggerVars
        BY <1>8, FilesLeft
    <2> QED
        BY <1>7, <2>1
<1> QED
    BY <1>1, <1>3, <1>4, <1>5, <1>6, <1>8 DEF LogNext, LeavesFiles

LEMMA KeptInit == ASSUME LogInit PROVE OrderFits /\ KeptFits
<1>1. LogInv
    BY LogInvInit
<1>2. [i \in Slots |-> NoFile] \in FileMap /\ 0 \in Slots
    BY DEF FileMap, Slots
<1>3. file = Opened([i \in Slots |-> NoFile])
    BY DEF LogInit, Slots
<1>4. file[0] = <<>> /\ \A i \in Slots \ {0} : file[i] = NoFile
    BY <1>2, <1>3, OpenedEffect
<1>5. \A i \in Files : i = 0 /\ file[i] = <<>> /\ Len(file[i]) = 0
    BY <1>4, EmptySeq DEF Files, Slots
<1>6. Lines = {} /\ written = 0
    BY <1>5, SMTT(30) DEF Lines, LogInit
<1>7. LossFits
    BY <1>6 DEF LossFits
<1>8. InOrder /\ RunsFit /\ RoomFits
    BY <1>4, <1>5 DEF InOrder, RunsFit, RoomFits
<1> QED
    BY <1>6, <1>7, <1>8 DEF KeptFits, KeptInv, OrderFits

LEMMA OrderHolds == LogSpec => []OrderFits
<1>1. LogInit => OrderFits
    BY KeptInit
<1>2. LogInv /\ OrderFits /\ [LogNext]_(logVars) => OrderFits'
    BY OrderStep
<1> QED
    BY <1>1, <1>2, LogFits, PTL DEF LogSpec

LEMMA KeptHolds == LogSpec => []KeptFits
<1>1. LogInit => KeptFits
    BY KeptInit
<1>2. LogInv /\ OrderFits /\ KeptFits /\ [LogNext]_(logVars) => KeptFits'
    BY KeptStep
<1> QED
    BY <1>1, <1>2, LogFits, OrderHolds, PTL DEF LogSpec

\* Lines are lost from the oldest end only, and not before as many files are full as are
\* rotated, less one for each rotation that a crash has cut short, or two (doRotation).
THEOREM LogKeepsLatest == LogSpec => []OnlyOldestLost
<1>1. ASSUME LogInv, OrderFits, KeptFits PROVE OnlyOldestLost
    <2> SUFFICES ASSUME ~unlogged
                 PROVE  \E lost \in 0 .. written :
                            /\ Lines = lost + 1 .. written
                            /\ lost = 0 \/ \A full \in {2, LogFileRotateCount + 1 - interrupted} :
                                               written - lost >= full * LogFileMaxBytes
        BY <1>1, ConstantAssumption DEF OrderFits, OnlyOldestLost
    <2>1. KeptInv
        BY <1>1 DEF KeptFits
    <2>2. PICK lost \in 0 .. written :
              /\ Lines = lost + 1 .. written
              /\ lost > 0 => /\ Oldest \in Files /\ file[Oldest][1] = lost + 1
                             /\ \E i \in Files \ {Oldest} : Len(file[i]) >= LogFileMaxBytes
        BY <2>1 DEF KeptInv, LossFits
    <2>3. /\ written \in Nat /\ interrupted \in Nat /\ lost \in Nat /\ LogFileMaxBytes \in Nat \ {0}
          /\ Oldest = LogFileRotateCount + 1 /\ Oldest \in Nat /\ LogFileRotateCount \in Nat \ {0}
        BY <1>1, LogTypes, SlotsFit, ConstantAssumption DEF LogInv, Oldest
    <2>4. ASSUME lost > 0 PROVE written - lost >= 2 * LogFileMaxBytes
        <3>1. Oldest \in Files \ {0} /\ file[Oldest][1] = lost + 1
            BY <1>1, <2>2, <2>4, SlotsFit DEF LogInv
        <3>2. PICK i \in Files \ {Oldest} : Len(file[i]) >= LogFileMaxBytes
            BY <2>2, <2>4
        <3>3. i \in Nat /\ i < Oldest /\ Len(file[i]) \in Nat
            BY <1>1, <2>3, LogTypes, SlotsFit DEF Files, Slots, LogInv
        <3>4. Len(file[Oldest]) \in Nat /\ Len(file[Oldest]) >= LogFileMaxBytes
            BY <1>1, <3>1, LogTypes DEF Files, Slots, LogInv, FilesFit
        <3> DEFINE a == Len(file[Oldest])
                   b == Len(file[i])
        <3>5. 1 \in 1 .. a /\ a \in 1 .. a /\ 1 \in 1 .. b /\ b \in 1 .. b
            BY <2>3, <3>2, <3>3, <3>4
        <3>6. file[Oldest][a] = file[Oldest][1] + a - 1 /\ file[i][b] = file[i][1] + b - 1
            BY <2>1, <3>1, <3>5 DEF KeptInv, RunsFit
        <3>7. file[Oldest][a] < file[i][1]
            BY <1>1, <2>3, <3>1, <3>3, <3>5 DEF OrderFits, InOrder
        <3>8. file[i][b] \in Nat /\ file[i][1] \in Nat /\ file[i][b] <= written
            BY <1>1, <2>2, <2>3, <3>5, LinesFit
        <3>9. a \in Nat /\ a >= LogFileMaxBytes /\ b \in Nat /\ b >= LogFileMaxBytes
            BY <3>2, <3>3, <3>4
        <3> HIDE DEF a, b
        <3>10. lost + a < file[i][1] /\ file[i][1] + b <= written + 1
            BY <2>3, <3>1, <3>6, <3>7, <3>8, <3>9
        <3> QED
            BY <2>3, <3>8, <3>9, <3>10
    <2>5. ASSUME lost > 0
          PROVE  written - lost >= (LogFileRotateCount + 1 - interrupted) * LogFileMaxBytes
        <3>1. Oldest \in Files \ {0} /\ file[Oldest][1] = lost + 1
            BY <1>1, <2>2, <2>4, SlotsFit, <2>5 DEF LogInv
        <3>2. (lost + 1) + Between(Oldest) * LogFileMaxBytes <= Current
            BY <2>1, <3>1 DEF KeptInv, RoomFits
        <3>3. CASE rotating = NoFile
            <4>1. Between(Oldest) = LogFileRotateCount + 1 - interrupted
                BY <2>3, <3>3 DEF Between
            <4>2. Current <= written + 1 /\ Current \in Int
                <5>1. Held \in Nat
                    BY <1>1, LogTypes DEF Slots, Held
                <5> QED
                    BY <2>3, <5>1 DEF Current
            <4> DEFINE room == (LogFileRotateCount + 1 - interrupted) * LogFileMaxBytes
            <4>3. room \in Int /\ (lost + 1) + room <= Current
                BY <2>3, <3>2, <4>1
            <4> HIDE DEF room
            <4>4. written - lost >= room
                BY <2>3, <4>2, <4>3
            <4> QED
                BY <4>4 DEF room
        <3>4. CASE rotating # NoFile
            <4>1. Between(Oldest) = LogFileRotateCount - interrupted
                BY <1>1, <2>3, <3>4, LogTypes DEF Between
            <4>2. Current + LogFileMaxBytes <= written + 1 /\ Current \in Int
                <5>1. file[0] # NoFile /\ Len(file[0]) \in Nat /\ Len(file[0]) >= LogFileMaxBytes
                    BY <1>1, <3>4, LogTypes DEF Slots, LogInv, FilesFit
                <5> QED
                    BY <2>3, <5>1 DEF Current, Held
            <4> DEFINE room == (LogFileRotateCount - interrupted) * LogFileMaxBytes
            <4>3. /\ room \in Int
                  /\ ((LogFileRotateCount - interrupted) + 1) * LogFileMaxBytes = room + LogFileMaxBytes
                BY <2>3, Distributes
            <4>4. (lost + 1) + room <= Current
                BY <3>2, <4>1
            <4>5. (LogFileRotateCount - interrupted) + 1 = LogFileRotateCount + 1 - interrupted
                BY <2>3
            <4> HIDE DEF room
            <4>6. written - lost >= room + LogFileMaxBytes
                BY <2>3, <4>2, <4>3, <4>4
            <4> QED
                BY <4>3, <4>5, <4>6
        <3> QED
            BY <3>3, <3>4
    <2>6. lost = 0 \/ lost > 0
        BY <2>3
    <2> QED
        BY <2>2, <2>4, <2>5, <2>6
<1>2. LogInv /\ OrderFits /\ KeptFits => OnlyOldestLost
    BY <1>1
<1> QED
    BY <1>2, LogFits, OrderHolds, KeptHolds, PTL

-----------------------------------------------------------------------------
(* The log: the uploads *)

\* What was sealed once remains so: the lines written later are newer, and a file that is
\* rotated later is too.
LEMMA StaysSealed ==
    ASSUME LogInv, OrderFits, [LogNext]_(logVars), NEW d \in LogText, Sealed(d, file, written)
    PROVE  Sealed(d, file', written')
<1>1. d # NoFile /\ Len(d) > 0 /\ LastLine(d) \in Nat /\ LastLine(d) <= written /\ written \in Nat
    <2>1. d # NoFile /\ Len(d) > 0 /\ LastLine(d) <= written
        BY TextFits, ConstantAssumption DEF Sealed, LogInv
    <2>2. Len(d) \in 1 .. Len(d)
        BY <2>1, TextFits DEF LogInv
    <2> QED
        BY <2>1, <2>2, TextFits, LogTypes DEF LastLine, LogInv
<1>2. 0 \in Slots /\ 1 \in Slots
    BY SlotsFit DEF LogInv
<1>3. CASE WriteRecord
    <2>1. \A k \in 1 .. Len(file'[0]) : LastLine(d) < file'[0][k]
        <3>1. \A k \in 1 .. Len(file[0]) : LastLine(d) < file[0][k]
            BY <1>1, <1>3, WriteEffect DEF Sealed, Files
        <3>2. 0 \in Files'
            BY <1>3, WriteEffect
        <3> QED
            BY <1>1, <1>3, <3>1, <3>2, WriteLines
    <2>2. file'[1] = file[1]
        <3>1. \A i \in Slots \ {0} : file'[i] = file[i]
            BY <1>3, LogTypes DEF WriteRecord, FileMap
        <3> QED
            BY <1>2, <3>1
    <2>3. LastLine(d) <= written'
        BY <1>1, <1>3, WriteEffect
    <2> QED
        BY <1>1, <2>1, <2>2, <2>3 DEF Sealed
<1>4. CASE WriteNothing
    BY <1>1, <1>4 DEF Sealed, WriteNothing
<1>5. CASE RotateOlder
    <2>1. file'[0] = file[0] /\ file'[1] \in {file[1], NoFile} /\ written' = written
        BY <1>2, <1>5, RotateOlderEffect, ConstantAssumption DEF LogInv
    <2> QED
        BY <2>1 DEF Sealed
<1>6. CASE RotateCurrent
    <2>1. written' = written /\ Len(<<>>) = 0
        BY <1>6, EmptySeq, ConstantAssumption DEF RotateCurrent
    <2>2. file'[0] # NoFile => Len(file'[0]) = 0
        BY <1>6, <2>1, RotateCurrentEffect
    <2>3. LastLine(d) < LastLine(file'[1])
        <3>1. Len(file[0]) \in 1 .. Len(file[0]) /\ file'[1] = file[0] /\ file[0] # NoFile
            BY <1>6, RotateCurrentEffect, ConstantAssumption
        <3> QED
            BY <1>1, <3>1 DEF Sealed, LastLine
    <2> QED
        BY <1>1, <2>1, <2>2, <2>3 DEF Sealed
<1>7. CASE Restart
    <2>1. written' = written /\ Len(<<>>) = 0
        BY <1>7, RestartEffect
    <2>2. file'[0] = (IF file[0] = NoFile THEN <<>> ELSE file[0]) /\ file'[1] = file[1]
        BY <1>7, RestartEffect
    <2>3. file'[0] # NoFile => Len(file'[0]) = 0 \/ (file[0] # NoFile /\ file'[0] = file[0])
        BY <2>1, <2>2
    <2> QED
        BY <1>1, <2>1, <2>2, <2>3 DEF Sealed
<1>8. CASE UNCHANGED loggerVars
    BY <1>8 DEF Sealed, loggerVars
<1>9. CASE LeavesFiles
    <2>1. UNCHANGED loggerVars
        BY <1>9, FilesLeft
    <2> QED
        BY <1>8, <2>1
<1> QED
    BY <1>3, <1>4, <1>5, <1>6, <1>7, <1>9 DEF LogNext, LeavesFiles

\* The file that was rotated last is sealed, and not older than a log that is.
LEMMA RotatedIsSealed ==
    ASSUME LogInv, OrderFits, file[1] # NoFile
    PROVE  file[1] \in LogText /\ Sealed(file[1], file, written)
<1>1. 0 \in Slots /\ 1 \in Slots
    BY SlotsFit DEF LogInv
<1>2. 1 \in Files /\ file[1] \in LogText /\ Len(file[1]) \in Nat /\ Len(file[1]) > 0
    BY <1>1, LogTypes, ConstantAssumption DEF LogInv, FilesFit
<1>3. Len(file[1]) \in 1 .. Len(file[1])
    BY <1>2
<1>4. LastLine(file[1]) <= written
    BY <1>2, <1>3, LinesFit DEF OrderFits, LastLine
<1>5. file[0] # NoFile => \A k \in 1 .. Len(file[0]) : LastLine(file[1]) < file[0][k]
    BY <1>1, <1>2, <1>3, LogTypes DEF OrderFits, InOrder, LastLine
<1> QED
    BY <1>2, <1>4, <1>5 DEF Sealed

LEMMA UploadStep ==
    ASSUME LogInv, OrderFits, UploadFits, [LogNext]_(logVars)
    PROVE  UploadFits'
<1> SUFFICES ASSUME ~raced'
             PROVE  /\ Sealed(log', file', written')
                    /\ \A u \in Reporter : upload'[u].pc \in {"read", "put", "leave"} => processingLogPut'
                    /\ \A u \in Reporter : PutFits(u)'
                    /\ \A u, v \in Uploading' : u = v
    BY DEF UploadFits
<1>1. ~raced /\ ~StoreLate
    <2>1. ~StoreLate
        BY DEF StoreLate
    <2>2. \A u \in Reporter : RunUpload(u) => ~raced
        BY DEF RunUpload, CheckPut, Claim, Read, Put, Leave
    <2>3. ASSUME RotateCurrent \/ Restart PROVE ~raced
        BY <2>3 DEF RotateCurrent, Restart
    <2>4. ASSUME LeavesUploads
          PROVE  ~raced
        <3>1. UNCHANGED uploadVars
            BY <2>4, UploadsLeft
        <3> QED
            BY <3>1 DEF uploadVars
    <2> QED
        BY <2>1, <2>2, <2>3, <2>4 DEF LogNext, LeavesUploads
<1>2. /\ Sealed(log, file, written)
      /\ \A u \in Reporter : upload[u].pc \in {"read", "put", "leave"} => processingLogPut
      /\ \A u \in Reporter : PutFits(u)
      /\ \A u, v \in Uploading : u = v
    BY <1>1 DEF UploadFits
<1>3. /\ log \in {NoFile} \cup LogText /\ upload \in [Reporter -> LogGoroutine]
      /\ \A u \in Reporter : upload[u].data \in {NoFile} \cup LogText
    BY LogParts DEF LogUpload, LogGoroutine
<1>4. \A d \in {NoFile} \cup LogText : Sealed(d, file, written) => Sealed(d, file', written')
    <2>1. \A d \in LogText : Sealed(d, file, written) => Sealed(d, file', written')
        BY StaysSealed
    <2>2. Sealed(NoFile, file', written')
        BY DEF Sealed
    <2> QED
        BY <2>1, <2>2
\* A goroutine that goes on as it was.
<1>5. ASSUME NEW u \in Reporter, upload'[u] = upload[u], log' = log PROVE PutFits(u)'
    <2>1. upload[u].data \in {NoFile} \cup LogText
        BY <1>3
    <2> QED
        BY <1>2, <1>4, <1>5, <2>1 DEF PutFits
<1>6. log' = log => Sealed(log', file', written')
    BY <1>2, <1>3, <1>4
<1>7. CASE UNCHANGED <<upload, processingLogPut, log>>
    BY <1>2, <1>5, <1>6, <1>7 DEF Uploading
<1>8. CASE LeavesUploads
    <2>1. UNCHANGED uploadVars
        BY <1>8, UploadsLeft
    <2> QED
        BY <1>7, <2>1 DEF uploadVars
<1>9. CASE RotateCurrent
    <2> DEFINE w == CHOOSE u \in FreeReporters : TRUE
    <2>1. w \in Reporter /\ upload[w].pc = "none"
        BY <1>9 DEF RotateCurrent, FreeReporters
    <2>2. /\ upload' = [upload EXCEPT ![w].pc = "check"] /\ processingLogPut' = processingLogPut
          /\ log' = log
        BY <1>9 DEF RotateCurrent
    <2> HIDE DEF w
    <2>3. upload'[w].pc = "check" /\ \A u \in Reporter \ {w} : upload'[u] = upload[u]
        BY <1>3, <2>1, <2>2
    <2>4. Uploading' = Uploading
        BY <2>1, <2>3 DEF Uploading
    <2>5. \A u \in Reporter : PutFits(u)'
        BY <1>5, <2>2, <2>3 DEF PutFits
    <2> QED
        BY <1>2, <1>6, <2>2, <2>3, <2>4, <2>5
<1>10. CASE Restart
    <2>1. \A u \in Reporter : upload'[u].pc = "none"
        BY <1>10 DEF Restart, NoUpload
    <2>2. log' = log
        BY <1>10 DEF Restart
    <2> QED
        BY <1>6, <2>1, <2>2 DEF PutFits, Uploading
<1>11. ASSUME NEW u \in Reporter, CheckPut(u)
       PROVE  /\ Sealed(log', file', written')
              /\ \A v \in Reporter : upload'[v].pc \in {"read", "put", "leave"} => processingLogPut'
              /\ \A v \in Reporter : PutFits(v)'
              /\ \A v, w \in Uploading' : v = w
    <2>1. upload[u].pc = "check" /\ processingLogPut' = processingLogPut /\ log' = log
        BY <1>11 DEF CheckPut
    <2>2. /\ upload'[u].pc = IF processingLogPut THEN "none" ELSE "claim"
          /\ \A v \in Reporter \ {u} : upload'[v] = upload[v]
        BY <1>3, <1>11 DEF CheckPut, Goto
    <2>3. \A v \in Reporter : upload[v].pc # "claim"
        BY <1>11 DEF CheckPut, Claiming
    <2>4. \A v \in Reporter : PutFits(v)'
        BY <1>5, <2>1, <2>2 DEF PutFits
    <2>5. \A v, w \in Uploading' : v = w
        <3>1. CASE processingLogPut
            BY <1>2, <2>2, <3>1 DEF Uploading
        <3>2. CASE ~processingLogPut
            BY <1>2, <2>2, <2>3, <3>2 DEF Uploading
        <3> QED
            BY <3>1, <3>2
    <2> QED
        BY <1>2, <1>6, <2>1, <2>2, <2>4, <2>5
<1>12. ASSUME NEW u \in Reporter, Claim(u) \/ Read(u) \/ Put(u) \/ Leave(u)
       PROVE  /\ Sealed(log', file', written')
              /\ \A v \in Reporter : upload'[v].pc \in {"read", "put", "leave"} => processingLogPut'
              /\ \A v \in Reporter : PutFits(v)'
              /\ \A v, w \in Uploading' : v = w
    <2>1. u \in Uploading
        BY <1>12 DEF Uploading, Claim, Read, Put, Leave
    <2>2. /\ upload'[u] \in LogGoroutine /\ upload' = [upload EXCEPT ![u] = upload'[u]]
          /\ \A v \in Reporter \ {u} : upload'[v] = upload[v]
        <3>1. upload' \in [Reporter -> LogGoroutine]
            BY LogStep, LogPartsNext DEF LogUpload
        <3>2. \A v \in Reporter \ {u} : upload'[v] = upload[v]
            BY <1>3, <1>12 DEF Claim, Read, Put, Leave, Goto
        <3> QED
            BY <1>3, <3>1, <3>2
    <2>3. \A v \in Reporter \ {u} : upload'[v].pc \notin {"claim", "read", "put", "leave"}
        BY <1>2, <2>1, <2>2 DEF Uploading
    <2>4. \A v, w \in Uploading' : v = w
        BY <2>3 DEF Uploading
    <2>5. \A v \in Reporter \ {u} : PutFits(v)'
        BY <2>3 DEF PutFits
    <2>6. CASE Claim(u)
        <3>1. upload'[u].pc \in {"read", "leave"} /\ processingLogPut' /\ log' = log
            BY <1>3, <2>6 DEF Claim, Goto
        <3> QED
            BY <1>6, <2>4, <2>5, <3>1 DEF PutFits
    <2>7. CASE Read(u)
        <3>1. /\ upload[u].pc = "read" /\ log' = log /\ processingLogPut' = processingLogPut
              /\ file' = file /\ written' = written
              /\ upload'[u] = [pc |-> IF file[1] = NoFile THEN "leave" ELSE "put", data |-> file[1]]
            BY <1>3, <2>7 DEF Read, loggerVars
        <3>2. PutFits(u)'
            <4> SUFFICES ASSUME file[1] # NoFile
                         PROVE  /\ Sealed(file[1], file, written)
                                /\ log # NoFile => log = file[1] \/ LastLine(log) < LastLine(file[1])
                BY <3>1 DEF PutFits
            <4> QED
                BY <1>2, RotatedIsSealed DEF Sealed
        <3>3. processingLogPut
            BY <1>2, <3>1
        <3> QED
            BY <1>6, <2>3, <2>4, <2>5, <3>1, <3>2, <3>3
    <2>8. CASE Put(u)
        <3>1. /\ upload[u].pc = "put" /\ upload'[u].pc = "leave" /\ log' \in {log, upload[u].data}
              /\ processingLogPut' = processingLogPut /\ file' = file /\ written' = written
            BY <1>3, <2>8 DEF Put, loggerVars
        <3>2. Sealed(log', file', written') /\ processingLogPut
            BY <1>2, <3>1 DEF PutFits
        <3> QED
            BY <2>3, <2>4, <2>5, <3>1, <3>2 DEF PutFits
    <2>9. CASE Leave(u)
        <3>1. upload'[u].pc = "none" /\ log' = log
            BY <1>3, <2>9 DEF Leave, NoUpload
        <3> QED
            BY <1>6, <2>3, <2>4, <2>5, <3>1 DEF PutFits
    <2> QED
        BY <1>12, <2>6, <2>7, <2>8, <2>9
<1>13. CASE \E u \in Reporter : RunUpload(u)
    BY <1>11, <1>12, <1>13 DEF RunUpload
<1> QED
    BY <1>1, <1>8, <1>9, <1>10, <1>13 DEF LogNext, LeavesUploads

\* The host's log is only replaced by a later one while no two goroutines race and no upload
\* is late (reportLogs, StoreLog).
THEOREM LogMovesOn == LogSpec => LogAdvances
<1>1. LogInit => UploadFits
    BY DEF LogInit, NoUpload, UploadFits, PutFits, Uploading, Sealed
<1>2. LogInv /\ OrderFits /\ UploadFits /\ [LogNext]_(logVars) => UploadFits'
    BY UploadStep
<1>3. LogInv /\ OrderFits /\ UploadFits /\ [LogNext]_(logVars)
      => [log # NoFile /\ log' # log /\ ~raced' => LastLine(log') > LastLine(log)]_(logVars)
    <2> SUFFICES ASSUME LogInv, OrderFits, UploadFits, [LogNext]_(logVars),
                        log # NoFile, log' # log, ~raced'
                 PROVE  LastLine(log') > LastLine(log)
        OBVIOUS
    <2>1. PICK u \in Reporter : Put(u)
        <3>1. ~StoreLate
            BY ConstantAssumption DEF StoreLate
        <3>2. ~RotateCurrent /\ ~Restart
            BY DEF RotateCurrent, Restart
        <3>3. ~UNCHANGED uploadVars
            BY DEF uploadVars
        <3>4. ~LeavesUploads
            BY <3>3, UploadsLeft
        <3>5. \A u \in Reporter : ~CheckPut(u) /\ ~Claim(u) /\ ~Read(u) /\ ~Leave(u)
            BY DEF CheckPut, Claim, Read, Leave
        <3> QED
            BY <3>1, <3>2, <3>4, <3>5 DEF LogNext, LeavesUploads, RunUpload
    <2>2. upload[u].pc = "put" /\ log' = upload[u].data /\ ~raced
        BY <2>1 DEF Put
    <2>3. LastLine(log) < LastLine(log')
        BY <2>2 DEF UploadFits, PutFits
    <2>4. LastLine(log) \in Nat /\ LastLine(log') \in Nat
        <3>1. log \in LogText /\ log' \in LogText /\ Len(log) > 0 /\ Len(log') > 0
            <4>1. log' \in {NoFile} \cup LogText /\ log \in {NoFile} \cup LogText
                BY LogParts, LogStep, LogPartsNext DEF LogUpload
            <4>2. Sealed(log, file, written) /\ log' # NoFile /\ Sealed(log', file, written)
                BY <2>2 DEF UploadFits, PutFits
            <4> QED
                BY <4>1, <4>2 DEF Sealed
        <3> QED
            BY <3>1, TextFits DEF LastLine, LogInv
    <2> QED
        BY <2>3, <2>4
<1> QED
    BY <1>1, <1>2, <1>3, LogFits, OrderHolds, PTL DEF LogSpec, LogAdvances
=============================================================================
